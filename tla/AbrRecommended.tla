--------------------------- MODULE AbrRecommended ---------------------------
(***************************************************************************)
(* The "recommended" selector of AbrController (src/abr_controller.cpp):   *)
(* the tick thread samples the send bitrate the SDK last recommended,      *)
(* keeps a sliding window of samples, and moves the published level down   *)
(* on the window's minimum and up on its average.                          *)
(* Time is kept as SlidingWindow explains.                                 *)
(***************************************************************************)
EXTENDS SlidingWindow

CONSTANTS
    NumLevels,        \* number of rungs of the bitrate ladder (config.levels)
    Bitrate,          \* bitrate of each rung, Bitrate[0] first
    StartLevel,       \* config.start_level, checked by Config::load
    HeadNum, HeadDen, \* abr.headroom as the fraction HeadNum / HeadDen
    Tick,             \* abr.tick_interval_ms
    Cooldown,         \* abr.cooldown_after_switch_s
    UpDuration,       \* abr.br_upgrade_duration_s
    TimeCap,          \* saturation of sinceChange
    IntMax,           \* largest value of the C++ type int
    Recommendations   \* values the SDK may report

Level == 0 .. NumLevels - 1

ASSUME LadderAssumption == /\ NumLevels \in Nat \ {0}
                           /\ Bitrate \in [Level -> Nat]
                           /\ StartLevel \in Level

ASSUME TimingAssumption == /\ Tick \in Nat \ {0}
                           /\ Cooldown \in Nat
                           /\ UpDuration \in Nat
                           /\ TimeCap \in Nat
                           /\ TimeCap > Cooldown + UpDuration

ASSUME ValueAssumption == /\ HeadNum \in Nat
                          /\ HeadDen \in Nat \ {0}
                          /\ IntMax \in Nat
                          /\ Recommendations \subseteq Int

VARIABLES
    recommended,  \* recommended_bps_, -1 until the SDK's first report
    target,       \* target_level_, read by the player without a lock
    window,       \* rec_window_, oldest first, each sample with its age
    upSustained,  \* upgrade_sustained_s_
    sinceChange,  \* now - last_change_ms_, saturated at TimeCap
    slept,        \* time the tick thread has been in sleep_for
    running,      \* running_
    thread,       \* control state of thread_
    stopCalled    \* the main thread has entered stop()

vars == <<recommended, target, window, upSustained, sinceChange, slept,
          running, thread, stopCalled>>

TypeOK == /\ recommended \in Int
          /\ target \in Level
          /\ window \in Seq(Sample)
          /\ upSustained \in Nat
          /\ sinceChange \in 0 .. TimeCap
          /\ slept \in 0 .. Tick
          /\ running \in BOOLEAN
          /\ thread \in {"none", "checking", "sleeping", "exited", "joined"}
          /\ stopCalled \in BOOLEAN

-----------------------------------------------------------------------------
(* Level selection *)

\* Mutant: level_for_bps one rung too high.
LevelForAbove(total, n) ==
    Max({0} \cup {i + 1 : i \in {j \in Level : Bitrate[j] * HeadDen * n <= total * HeadNum}})

\* The rung level_for_bps picks for total/n * headroom: the last one that
\* fits, the lowest when none does.
LevelFor(total, n) ==
    Max({0} \cup {i \in Level : Bitrate[i] * HeadDen * n <= total * HeadNum})

\* The value a 32-bit int holds after an addition that passes IntMax.
WrapInt(x) == IF x <= IntMax THEN x
              ELSE ((x + IntMax + 1) % (2 * (IntMax + 1))) - (IntMax + 1)

RecSum(w) == WrapInt(Total(w))
RecMin(w) == Min({w[i].bps : i \in DOMAIN w})

DownLevel(w) == LevelFor(RecMin(w), 1)
UpLevel(w)   == LevelFor(RecSum(w), Len(w))

Observed == WithSample(window, recommended)

-----------------------------------------------------------------------------
Init == /\ recommended = -1
        /\ target = StartLevel
        /\ window = << >>
        /\ upSustained = 0
        /\ sinceChange = 0
        /\ slept = 0
        /\ running = FALSE
        /\ thread = "none"
        /\ stopCalled = FALSE

(* The environment: time passes and the SDK reports. *)

Elapse ==
    /\ window' = Aged(window)
    /\ sinceChange' = Saturate(sinceChange, TimeCap)
    /\ slept' = IF thread = "sleeping" THEN Saturate(slept, Tick) ELSE slept
    /\ UNCHANGED <<recommended, target, upSustained, running, thread, stopCalled>>

SetRecommended(bps) ==
    /\ recommended' = bps
    /\ UNCHANGED <<target, window, upSustained, sinceChange, slept, running,
                   thread, stopCalled>>

(* The main thread. *)

Start == /\ thread = "none" /\ ~stopCalled
         /\ running' = TRUE
         /\ thread' = "checking"
         /\ UNCHANGED <<recommended, target, window, upSustained, sinceChange,
                        slept, stopCalled>>

Stop == /\ ~stopCalled
        /\ stopCalled' = TRUE
        /\ running' = FALSE
        /\ UNCHANGED <<recommended, target, window, upSustained, sinceChange,
                       slept, thread>>

Join == /\ stopCalled /\ thread = "exited"
        /\ thread' = "joined"
        /\ UNCHANGED <<recommended, target, window, upSustained, sinceChange,
                       slept, running, stopCalled>>

(* The tick thread. *)

\* Mutant: the loop does not look at running_.
CheckNothing == /\ thread = "checking"
                /\ thread' = "sleeping"
                /\ slept' = 0
                /\ UNCHANGED <<recommended, target, window, upSustained,
                               sinceChange, running, stopCalled>>

CheckRunning == /\ thread = "checking"
                /\ thread' = IF running THEN "sleeping" ELSE "exited"
                /\ slept' = 0
                /\ UNCHANGED <<recommended, target, window, upSustained,
                               sinceChange, running, stopCalled>>

\* The sleep is over; evaluate() runs under the lock and the loop goes on.
Wake == /\ thread = "sleeping" /\ slept = Tick
        /\ thread' = "checking"
        /\ slept' = 0
        /\ UNCHANGED <<recommended, running, stopCalled>>

NoRecommendation == /\ Wake
                    /\ recommended <= 0
                    /\ UNCHANGED <<target, window, upSustained, sinceChange>>

Observe == /\ Wake
           /\ recommended > 0
           /\ window' = Observed

Downgrade == /\ Observe
             /\ DownLevel(Observed) < target
             /\ target' = DownLevel(Observed)
             /\ sinceChange' = 0
             /\ upSustained' = 0

\* Mutant: >= for >.
RoomAtPar == /\ DownLevel(Observed) >= target
             /\ UpLevel(Observed) >= target
             /\ target + 1 < NumLevels

RoomAbove == /\ DownLevel(Observed) >= target
             /\ UpLevel(Observed) > target

\* Mutants of the upgrade: straight to the rung that fits, sustain time kept,
\* the change not stamped.
UpgradeRipe == /\ Observe
               /\ RoomAbove
               /\ sinceChange > Cooldown
               /\ upSustained + Tick >= UpDuration

UpgradeJump == UpgradeRipe /\ target' = UpLevel(Observed)
                           /\ sinceChange' = 0 /\ upSustained' = 0

UpgradeKeepSustain == UpgradeRipe /\ target' = target + 1
                                  /\ sinceChange' = 0 /\ UNCHANGED upSustained

UpgradeNoStamp == UpgradeRipe /\ target' = target + 1
                              /\ upSustained' = 0 /\ UNCHANGED sinceChange

Upgrade == /\ Observe
           /\ RoomAbove
           /\ sinceChange > Cooldown
           /\ upSustained + Tick >= UpDuration
           /\ target' = target + 1
           /\ sinceChange' = 0
           /\ upSustained' = 0

\* Mutant: credit during the cooldown too.
SustainAlways == /\ Observe
                 /\ RoomAbove
                 /\ upSustained + Tick < UpDuration
                 /\ upSustained' = upSustained + Tick
                 /\ UNCHANGED <<target, sinceChange>>

Sustain == /\ Observe
           /\ RoomAbove
           /\ sinceChange > Cooldown
           /\ upSustained + Tick < UpDuration
           /\ upSustained' = upSustained + Tick
           /\ UNCHANGED <<target, sinceChange>>

\* Mutant: the cooldown starts over as long as there is room.
CoolDownAnew == /\ Observe
                /\ RoomAbove
                /\ sinceChange <= Cooldown
                /\ sinceChange' = 0
                /\ UNCHANGED <<target, upSustained>>

CoolDown == /\ Observe
            /\ RoomAbove
            /\ sinceChange <= Cooldown
            /\ UNCHANGED <<target, sinceChange, upSustained>>

\* Mutant: the sustain time is not reset.
NoRoomKeep == /\ Observe
              /\ DownLevel(Observed) >= target
              /\ UpLevel(Observed) <= target
              /\ UNCHANGED <<target, sinceChange, upSustained>>

NoRoom == /\ Observe
          /\ DownLevel(Observed) >= target
          /\ UpLevel(Observed) <= target
          /\ upSustained' = 0
          /\ UNCHANGED <<target, sinceChange>>

Evaluate == \/ NoRecommendation
            \/ Downgrade
            \/ Upgrade
            \/ Sustain
            \/ CoolDown
            \/ NoRoom

Next == \/ Elapse
        \/ \E bps \in Recommendations : SetRecommended(bps)
        \/ Start
        \/ Stop
        \/ Join
        \/ CheckRunning
        \/ Evaluate

Spec == Init /\ [][Next]_vars

\* Time passes, and a runnable thread runs.  Nothing obliges the SDK to
\* report or the main thread to stop.
Fairness == /\ WF_vars(Elapse)
            /\ WF_vars(CheckRunning)
            /\ WF_<<thread, slept>>(Wake)
            /\ WF_vars(Join)

FairSpec == Spec /\ Fairness

-----------------------------------------------------------------------------
(* Properties *)

\* The published level is never more than one rung above what the worst
\* sample of the last window allows: the fast downgrade bounds what the
\* averaged upgrade may risk (evaluate_recommended).
WorstCaseMargin == window # << >> => target <= DownLevel(window) + 1

\* The published level fits the averaged recommendation of the last window,
\* although downgrades look at the minimum and upgrades at one rung.
LevelFitsAverage == window # << >> => target <= UpLevel(window)

\* However ticks, reports and delays fall, the window never holds more samples
\* than fit in it a tick apart.  The int they are summed in is safe as long as
\* that many recommendations are (evaluate_recommended).
WindowBounded == (Len(window) - 1) * Tick <= Window

\* Sustain time is only ever credited while the averaged recommendation has
\* room above the published level: no path (early return, cooldown, level
\* change) leaves credit behind that the current window does not justify.
SustainedFits == upSustained > 0 => UpLevel(window) > target

\* Credited sustain time really passed, and passed after the cooldown: the
\* counter adds up ticks, never runs ahead of the clock however late the
\* ticks come, and trails it by the time slept towards the next one.
SustainBacked ==
    upSustained > 0 => /\ upSustained < UpDuration
                       /\ \/ sinceChange = TimeCap
                          \/ sinceChange > Cooldown + upSustained - Tick + slept

\* An upgrade is one rung, and comes no sooner after the last change than
\* the cooldown and the sustain period, less the tick that completes it.
UpgradeSpacing ==
    [][target' > target => /\ target' = target + 1
                           /\ sinceChange > Cooldown + UpDuration - Tick]_vars

\* README: upgrades wait for cooldown and duration to avoid flapping.  Then a
\* downgrade ought to have a cause newer than the level it undoes: a sample
\* that arrived after the last change and does not fit the level.
DowngradeHasFreshCause ==
    [][target' < target =>
          \E i \in DOMAIN window' : /\ window'[i].age < sinceChange
                                    /\ LevelFor(window'[i].bps, 1) < target]_vars

\* Once the recommendation settles, the published level settles on the rung
\* that fits it, from any history: no window or counter state gets stuck.
Converges ==
    \A bps \in {r \in Recommendations : r > 0} :
        <>[](running /\ recommended = bps) => <>[](target = LevelFor(bps, 1))

TickThread == INSTANCE PlayerThread WITH
    thread <- IF thread \in {"checking", "sleeping"} THEN "alive" ELSE thread

\* The tick thread is the worker main takes it for: above all, wherever it is
\* when stop() clears running_, it returns.
ObeysAsThread == TickThread!FairSpec

Governor == INSTANCE LevelGovernor WITH
                level  <- target,
                calm   <- sinceChange,
                Settle <- Cooldown + UpDuration - Tick,
                CalmCap <- TimeCap

\* Every step of the tick thread, and every passing of time, is a step the
\* governor allows.
RefinesGovernor == Governor!Spec
=============================================================================
