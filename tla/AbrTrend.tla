------------------------------- MODULE AbrTrend -------------------------------
(***************************************************************************)
(* The "trend" selector of AbrController (src/abr_controller.cpp): SDK     *)
(* callbacks append bandwidth estimates to per-receiver windows, and every *)
(* tick compares, worst case over the receivers, the last estimate with    *)
(* the rolling average, moving the level one rung after a sustained dip or *)
(* a sustained rise.  Samples and estimates come at any time here; what    *)
(* the SDK's callbacks make of it is in Observer.                          *)
(*                                                                         *)
(* Time is kept as SlidingWindow explains.  The tick thread's start and    *)
(* stop are modelled in AbrRecommended; here it runs.                      *)
(***************************************************************************)
EXTENDS SlidingWindow

CONSTANTS
    Uids,             \* keys of receivers_: user ids, "peer<i>" and "downlink"
    Estimates,        \* bandwidth estimates the SDK may report, signed: the
                      \* ones of listed peers are taken as they come
    NumLevels,        \* number of rungs
    StartLevel,       \* config.start_level
    Tick,             \* abr.tick_interval_ms
    Stale,            \* abr.stale_receiver_timeout_s
    Cooldown,         \* abr.cooldown_after_switch_s
    UpDuration,       \* abr.br_upgrade_duration_s
    DownDuration,     \* abr.br_downgrade_duration_s
    UpNum, UpDen,     \* abr.br_upgrade_factor as a fraction
    DownNum, DownDen, \* abr.br_downgrade_factor as a fraction
    TimeCap           \* saturation of sinceChange

Level == 0 .. NumLevels - 1

ASSUME TrendAssumption ==
    /\ NumLevels \in Nat \ {0}
    /\ StartLevel \in Level
    /\ Estimates \subseteq Int
    /\ {Tick, UpNum, UpDen, DownNum, DownDen} \subseteq Nat \ {0}
    /\ {Stale, Cooldown, UpDuration, DownDuration} \subseteq Nat
    /\ AgeCap > Stale
    /\ TimeCap \in Nat
    /\ TimeCap > Cooldown + UpDuration /\ TimeCap >= DownDuration

VARIABLES
    receivers,     \* receivers_: the window of each uid, empty when not tracked
    target,        \* target_level_
    downSustained, \* downgrade_sustained_s_
    upSustained,   \* upgrade_sustained_s_
    sinceChange,   \* now - last_change_ms_
    slept          \* time the tick thread has been in sleep_for

vars == <<receivers, target, downSustained, upSustained, sinceChange, slept>>

TypeOK == /\ receivers \in [Uids -> Seq(Sample)]
          /\ target \in Level
          /\ downSustained \in Nat
          /\ upSustained \in Nat
          /\ sinceChange \in 0 .. TimeCap
          /\ slept \in 0 .. Tick

-----------------------------------------------------------------------------
(* Receivers *)

Tracked(r) == {u \in Uids : r[u] # << >>}

\* instantaneous_bwe and last_update_ms.  rolling_avg_bwe is Total / Len: a
\* window only changes with a new sample, so the average stored then is the
\* average of the window now.
Inst(w) == w[Len(w)].bps
Idle(w) == w[Len(w)].age

\* Mutant: nobody is ever dropped.
NeverFresh == receivers

\* evaluate_trend first drops receivers without an update in the timeout.
Fresh == [u \in Uids |-> IF u \in Tracked(receivers) /\ Idle(receivers[u]) > Stale
                         THEN << >> ELSE receivers[u]]

\* Mutant: the factor applied the wrong way round.
DippedLoosely(r) == \E u \in Tracked(r) : \A v \in Tracked(r) :
                       Inst(r[u]) * DownDen * Len(r[v]) < Total(r[v]) * DownNum

\* worst_instant < worst_rolling / br_downgrade_factor: some receiver's
\* estimate is below every receiver's average by the factor.
Dipped(r) == \E u \in Tracked(r) : \A v \in Tracked(r) :
                Inst(r[u]) * DownNum * Len(r[v]) < Total(r[v]) * DownDen

\* all_above_upgrade: every receiver's estimate is above its own average.
Rising(r) == \A u \in Tracked(r) :
                Inst(r[u]) * UpDen * Len(r[u]) > Total(r[u]) * UpNum

\* The factors keep the two thresholds on their sides of an average above
\* zero.  The defaults do; config.cpp:55-57 takes any.
FactorsWiden == UpNum >= UpDen /\ DownNum >= DownDen

-----------------------------------------------------------------------------
(* One evaluation, as the two checks the code makes in turn *)

State == [level |-> target, since |-> sinceChange,
          down |-> downSustained, up |-> upSustained]

\* Mutant: the change not stamped.
MovedUnstamped(s, l) == [s EXCEPT !.level = l, !.down = 0, !.up = 0]

\* A change of level, stamped; both sustained times start over.
Moved(s, l) == [s EXCEPT !.level = l, !.since = 0, !.down = 0, !.up = 0]

\* The end of a period that the end of the ladder leaves without effect.
Spent(s) == [s EXCEPT !.down = 0, !.up = 0]

DownCheck(s, r) ==
    IF ~Dipped(r) THEN [s EXCEPT !.down = 0]
    ELSE IF s.down + Tick < DownDuration THEN [s EXCEPT !.down = @ + Tick]
    ELSE IF s.level > 0 THEN Moved(s, s.level - 1)
    ELSE Spent(s)

\* Mutants: no cooldown; past the top; a rise that ended keeps its credit;
\* it takes the credit of a dip with it.
CooledAlways(s) == TRUE
RoomPastTop(s)  == s.level < NumLevels
RiseKept(s)     == s
RiseOverBoth(s) == [s EXCEPT !.up = 0, !.down = 0]

Cooled(s)    == s.since > Cooldown
RoomAbove(s) == s.level < NumLevels - 1
RiseOver(s)  == [s EXCEPT !.up = 0]

UpCheck(s, r) ==
    IF ~Cooled(s) THEN s
    ELSE IF ~Rising(r) THEN RiseOver(s)
    ELSE IF s.up + Tick < UpDuration THEN [s EXCEPT !.up = @ + Tick]
    ELSE IF RoomAbove(s) THEN Moved(s, s.level + 1)
    ELSE Spent(s)

-----------------------------------------------------------------------------
Init == /\ receivers = [u \in Uids |-> << >>]
        /\ target = StartLevel
        /\ downSustained = 0
        /\ upSustained = 0
        /\ sinceChange = 0
        /\ slept = 0

Elapse == /\ receivers' = [u \in Uids |-> Aged(receivers[u])]
          /\ sinceChange' = Saturate(sinceChange, TimeCap)
          /\ slept' = Saturate(slept, Tick)
          /\ UNCHANGED <<target, downSustained, upSustained>>

\* add_bwe_sample, from the SDK's downlink callback.  It creates the entry if
\* there is none, be it that the user is new, has left, or was pruned.
AddSample(u, bwe) ==
    /\ receivers' = [receivers EXCEPT ![u] = WithSample(@, bwe)]
    /\ UNCHANGED <<target, downSustained, upSustained, sinceChange, slept>>

\* on_receiver_left; a join only writes a log line.
Leave(u) == /\ u \in Tracked(receivers)
            /\ receivers' = [receivers EXCEPT ![u] = << >>]
            /\ UNCHANGED <<target, downSustained, upSustained, sinceChange, slept>>

Wake == /\ slept = Tick
        /\ slept' = 0

\* Nobody is tracked: forget what was being sustained.
EvaluateNobody == /\ Wake
                  /\ Tracked(Fresh) = {}
                  /\ receivers' = Fresh
                  /\ downSustained' = 0
                  /\ upSustained' = 0
                  /\ UNCHANGED <<target, sinceChange>>

EvaluateTracked == /\ Wake
                   /\ Tracked(Fresh) # {}
                   /\ receivers' = Fresh
                   /\ LET s == UpCheck(DownCheck(State, Fresh), Fresh)
                      IN  /\ target' = s.level
                          /\ sinceChange' = s.since
                          /\ downSustained' = s.down
                          /\ upSustained' = s.up

Next == \/ Elapse
        \/ \E u \in Uids, bwe \in Estimates : AddSample(u, bwe)
        \/ \E u \in Uids : Leave(u)
        \/ EvaluateNobody
        \/ EvaluateTracked

Spec == Init /\ [][Next]_vars

-----------------------------------------------------------------------------
\* What is credited to a dip or to a rise passed since the last change, a
\* rise's after the cooldown.
Backed ==
    /\ downSustained > 0 => sinceChange >= downSustained
    /\ upSustained > 0 => \/ sinceChange = TimeCap
                          \/ sinceChange > Cooldown + upSustained - Tick + slept

\* A tick leaves a dip and a rise under way at once only where estimates are
\* negative: below zero a value is above its own multiple and below its own
\* fraction.
Opposed ==
    Wake /\ FactorsWiden /\ downSustained' > 0 /\ upSustained' > 0
        => \E u \in Tracked(receivers') : Total(receivers'[u]) < 0

\* The two counters are kept and reset by different branches of two checks,
\* some of them outside the cooldown only; together these keep the counters
\* true to the clock and, above zero, to one trend at a time.
CountersSound == []Backed /\ [][Opposed]_vars

\* Every change is one rung, a fall only after the downgrade period and a
\* climb only after cooldown and upgrade period (less the completing tick).
ChangesAreSpaced ==
    [][/\ target' < target => target' = target - 1 /\ sinceChange >= DownDuration
       /\ target' > target => /\ target' = target + 1
                              /\ sinceChange > Cooldown + UpDuration - Tick]_vars

\* Every sample of every window is the same estimate.
AllSame(bwe) == \A u \in Uids : \A i \in 1 .. Len(receivers[u]) :
                   receivers[u][i].bps = bwe

\* The level moves only on a difference between estimates: while every
\* sample is the same, however receivers come and go and whatever their
\* windows' lengths, no credit started before moves it.  So it is for an
\* estimate that is not negative; equal negative ones do move the level.
SteadyLevel ==
    [][FactorsWiden /\ (\E bwe \in Estimates : bwe >= 0 /\ AllSame(bwe))
          => target' = target]_vars

\* A receiver that stops reporting stops counting: whether it left without a
\* callback or a late callback brought it back after it left, it is dropped
\* unless it reports again.
GhostsPruned ==
    \A u \in Uids : (receivers[u] # << >> /\ Idle(receivers[u]) > Stale)
                        ~> (receivers[u] = << >> \/ Idle(receivers[u]) <= Stale)

\* A dip that every tick sees, and no rise beside it, takes the level down to
\* the lowest rung: what the counter of a rise holds from before, and the
\* cooldown, do not keep its credit from adding up.  (A rise beside it, for
\* negative estimates, would: its period ends both.)
PersistentDipFalls ==
    <>[][Wake => /\ Tracked(Fresh) # {}
                 /\ Dipped(Fresh) /\ ~ Rising(Fresh)]_vars => <>[](target = 0)

Governor == INSTANCE LevelGovernor WITH
                level  <- target,
                calm   <- sinceChange,
                Settle <- Cooldown + UpDuration - Tick,
                CalmCap <- TimeCap

\* The trend selector implements the level governor too.
RefinesGovernor == Governor!Spec
=============================================================================
