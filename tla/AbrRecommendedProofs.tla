------------------------ MODULE AbrRecommendedProofs ------------------------
(***************************************************************************)
(* Theorems about the recommended selector, for every ladder, every timing *)
(* and every sequence of recommendations.                                  *)
(***************************************************************************)
EXTENDS AbrRecommended, SlidingWindowProofs

(* Level selection *)

\* level_for_bps always returns an index of the ladder, so no store to
\* target_level_ can leave it.
LEMMA LevelForType ==
  ASSUME NEW total, NEW n
  PROVE  LevelFor(total, n) \in Level
<1>. DEFINE S == {0} \cup {i \in Level : Bitrate[i] * HeadDen * n <= total * HeadNum}
<1>1. NumLevels - 1 \in Nat /\ 0 \in Level
  BY LadderAssumption DEF Level
<1>2. S \subseteq 0 .. NumLevels - 1
  BY <1>1 DEF Level
<1>3. S # {}
  OBVIOUS
<1>4. Max(S) \in S
  BY <1>1, <1>2, <1>3, MaxNat
<1>. QED
  BY <1>2, <1>4 DEF LevelFor, Level

LEMMA SelectorType ==
  ASSUME NEW w
  PROVE  DownLevel(w) \in Level /\ UpLevel(w) \in Level
BY LevelForType DEF DownLevel, UpLevel

(* The sample window *)

LEMMA ObservedType ==
  ASSUME TypeOK
  PROVE  Observed \in Seq(Sample) /\ Observed # << >>
BY WithSampleType DEF TypeOK, Observed

\* The passing of time changes nothing the selector looks at.
LEMMA AgeingType ==
  ASSUME TypeOK, Elapse
  PROVE  /\ window' \in Seq(Sample)
         /\ RecMin(window') = RecMin(window)
         /\ Total(window') = Total(window)
         /\ Len(window') = Len(window)
<1>. DEFINE aged == Aged(window)
<1>1. /\ window' = aged /\ aged \in Seq(Sample) /\ Len(aged) = Len(window)
      /\ DOMAIN aged = DOMAIN window /\ DOMAIN window = 1 .. Len(window)
      /\ Len(window) \in Nat
      /\ \A i \in 1 .. Len(window) : aged[i].bps = window[i].bps
  BY AgedType, LenProperties DEF TypeOK, Elapse
<1>. HIDE DEF aged
<1>2. RecMin(aged) = RecMin(window)
  <2>1. {aged[i].bps : i \in DOMAIN aged} = {window[i].bps : i \in DOMAIN window}
    BY <1>1
  <2>. QED
    BY <2>1 DEF RecMin
<1>3. Total(aged) = Total(window)
  BY <1>1, SameTotal DEF TypeOK
<1>. QED
  BY <1>1, <1>2, <1>3

-----------------------------------------------------------------------------
(* Type correctness *)

\* A climb stays on the ladder: up_level is an index above the current one.
LEMMA ClimbType ==
  ASSUME TypeOK, Upgrade
  PROVE  target + 1 \in Level
<1>1. UpLevel(Observed) \in Level /\ UpLevel(Observed) > target
  BY SelectorType DEF Upgrade, RoomAbove
<1>. QED
  BY <1>1, LadderAssumption DEF TypeOK, Level

\* One evaluation keeps the types, whichever branch it takes.
LEMMA EvaluateType ==
  ASSUME TypeOK, Evaluate
  PROVE  TypeOK'
<1>. USE DEF TypeOK
<1>1. ASSUME Observe PROVE window' \in Seq(Sample)
  BY <1>1, ObservedType DEF Observe
<1>2. 0 \in 0 .. TimeCap /\ 0 \in 0 .. Tick
  BY TimingAssumption
<1>3. CASE NoRecommendation
  BY <1>2, <1>3 DEF NoRecommendation, Wake
<1>4. CASE Downgrade
  BY <1>1, <1>2, <1>4, SelectorType DEF Downgrade, Observe, Wake
<1>5. CASE Upgrade
  BY <1>1, <1>2, <1>5, ClimbType DEF Upgrade, Observe, Wake
<1>6. CASE Sustain
  <2>1. upSustained' \in Nat
    BY <1>6, TimingAssumption DEF Sustain
  <2>. QED
    BY <1>1, <1>2, <1>6, <2>1 DEF Sustain, Observe, Wake
<1>7. CASE CoolDown
  BY <1>1, <1>2, <1>7 DEF CoolDown, Observe, Wake
<1>8. CASE NoRoom
  BY <1>1, <1>2, <1>8 DEF NoRoom, Observe, Wake
<1>. QED
  BY <1>3, <1>4, <1>5, <1>6, <1>7, <1>8 DEF Evaluate

\* Every variable keeps its type; in particular target_level_ is always an
\* index of the ladder, which the player uses unchecked.
THEOREM TypeCorrect == Spec => []TypeOK
<1>1. Init => TypeOK
  <2> SUFFICES ASSUME Init
               PROVE  TypeOK
    OBVIOUS
  <2>1. window \in Seq(Sample)
    BY EmptySeq DEF Init
  <2>2. sinceChange \in 0 .. TimeCap /\ slept \in 0 .. Tick
    BY TimingAssumption DEF Init
  <2>3. recommended \in Int /\ target \in Level /\ upSustained \in Nat
    BY LadderAssumption DEF Init
  <2>4. running \in BOOLEAN /\ stopCalled \in BOOLEAN
    BY DEF Init
  <2>5. thread \in {"none", "checking", "sleeping", "exited", "joined"}
    BY DEF Init
  <2>. QED
    BY <2>1, <2>2, <2>3, <2>4, <2>5 DEF TypeOK
<1>2. TypeOK /\ [Next]_vars => TypeOK'
  <2> SUFFICES ASSUME TypeOK, [Next]_vars
               PROVE  TypeOK'
    OBVIOUS
  <2>1. CASE Elapse
    <3>1. window' \in Seq(Sample)
      BY <2>1, AgeingType
    <3>2. sinceChange' \in 0 .. TimeCap /\ slept' \in 0 .. Tick
      BY <2>1, TimingAssumption DEF Elapse, Saturate, TypeOK
    <3>. QED
      BY <2>1, <3>1, <3>2 DEF Elapse, TypeOK
  <2>2. ASSUME NEW bps \in Recommendations, SetRecommended(bps)
        PROVE  TypeOK'
    BY <2>2, ValueAssumption DEF SetRecommended, TypeOK
  <2>3. CASE Start
    BY <2>3 DEF Start, TypeOK
  <2>4. CASE Stop
    BY <2>4 DEF Stop, TypeOK
  <2>5. CASE Join
    BY <2>5 DEF Join, TypeOK
  <2>6. CASE CheckRunning
    BY <2>6, TimingAssumption DEF CheckRunning, TypeOK
  <2>7. CASE Evaluate
    BY <2>7, EvaluateType
  <2>8. CASE UNCHANGED vars
    BY <2>8 DEF vars, TypeOK
  <2>. QED
    BY <2>1, <2>2, <2>3, <2>4, <2>5, <2>6, <2>7, <2>8 DEF Next
<1>. QED
  BY <1>1, <1>2, PTL DEF Spec

-----------------------------------------------------------------------------
(* The selector's bounds *)

\* The worst case allows the published level less one rung, always: a level
\* that the minimum does not allow is dropped at once, and an upgrade adds
\* one rung to a level it does allow.
THEOREM MarginHolds == Spec => []WorstCaseMargin
<1>1. Init => WorstCaseMargin
  BY DEF Init, WorstCaseMargin
<1>2. TypeOK /\ WorstCaseMargin /\ [Next]_vars => WorstCaseMargin'
  <2> SUFFICES ASSUME TypeOK, WorstCaseMargin, [Next]_vars
               PROVE  WorstCaseMargin'
    OBVIOUS
  <2>1. CASE Elapse
    <3>1. DownLevel(window') = DownLevel(window)
      BY <2>1, AgeingType DEF DownLevel
    <3>2. window' # << >> => window # << >>
      BY <2>1, AgeingType, EmptySeq DEF TypeOK
    <3>. QED
      BY <2>1, <3>1, <3>2 DEF WorstCaseMargin, Elapse
  <2>2. ASSUME Observe, target' <= DownLevel(Observed) + 1
        PROVE  WorstCaseMargin'
    BY <2>2 DEF Observe, WorstCaseMargin
  <2>3. target \in Int /\ DownLevel(Observed) \in Int
    BY SelectorType DEF TypeOK, Level
  <2>4. CASE Downgrade
    BY <2>2, <2>3, <2>4 DEF Downgrade
  <2>5. CASE Upgrade
    BY <2>2, <2>3, <2>5 DEF Upgrade, RoomAbove
  <2>6. CASE Sustain
    BY <2>2, <2>3, <2>6 DEF Sustain, RoomAbove
  <2>7. CASE CoolDown
    BY <2>2, <2>3, <2>7 DEF CoolDown, RoomAbove
  <2>8. CASE NoRoom
    BY <2>2, <2>3, <2>8 DEF NoRoom
  <2>9. CASE UNCHANGED <<target, window>>
    BY <2>9 DEF WorstCaseMargin
  <2>. QED
    BY <2>1, <2>4, <2>5, <2>6, <2>7, <2>8, <2>9
       DEF Next, vars, SetRecommended, Start, Stop, Join, CheckRunning,
           Evaluate, NoRecommendation
<1>. QED
  BY <1>1, <1>2, TypeCorrect, PTL DEF Spec

\* Sustain credit is only ever held while the window's average has room
\* above the level.
THEOREM CreditFits == Spec => []SustainedFits
<1>1. Init => SustainedFits
  BY DEF Init, SustainedFits
<1>2. TypeOK /\ SustainedFits /\ [Next]_vars => SustainedFits'
  <2> SUFFICES ASSUME TypeOK, SustainedFits, [Next]_vars
               PROVE  SustainedFits'
    OBVIOUS
  <2>1. CASE Elapse
    <3>1. UpLevel(window') = UpLevel(window)
      BY <2>1, AgeingType DEF UpLevel, RecSum
    <3>. QED
      BY <2>1, <3>1 DEF SustainedFits, Elapse
  <2>2. ASSUME Observe, UpLevel(Observed) > target' \/ upSustained' = 0
        PROVE  SustainedFits'
    BY <2>2 DEF Observe, SustainedFits
  <2>3. CASE Downgrade
    BY <2>2, <2>3 DEF Downgrade
  <2>4. CASE Upgrade
    BY <2>2, <2>4 DEF Upgrade
  <2>5. CASE Sustain
    BY <2>2, <2>5 DEF Sustain, RoomAbove
  <2>6. CASE CoolDown
    BY <2>2, <2>6 DEF CoolDown, RoomAbove
  <2>7. CASE NoRoom
    BY <2>2, <2>7 DEF NoRoom
  <2>8. CASE UNCHANGED <<target, window, upSustained>>
    BY <2>8 DEF SustainedFits
  <2>. QED
    BY <2>1, <2>3, <2>4, <2>5, <2>6, <2>7, <2>8
       DEF Next, vars, SetRecommended, Start, Stop, Join, CheckRunning,
           Evaluate, NoRecommendation
<1>. QED
  BY <1>1, <1>2, TypeCorrect, PTL DEF Spec

-----------------------------------------------------------------------------
(* The size of the window *)

\* Every sample is a tick older than the one after it, and the last is as old
\* as the sleep under way.
Rhythm == Apart(window, Tick, slept)

LEMMA RhythmStep == TypeOK /\ Rhythm /\ WindowBounded /\ [Next]_vars
                      => Rhythm' /\ WindowBounded'
<1> SUFFICES ASSUME TypeOK, Rhythm, WindowBounded, [Next]_vars
             PROVE  Rhythm' /\ WindowBounded'
  OBVIOUS
<1>1. /\ window \in Seq(Sample) /\ slept \in Nat /\ slept <= Tick
      /\ Tick \in Nat /\ recommended \in Int
  BY TimingAssumption DEF TypeOK
<1>2. CASE Elapse
  <2>1. Apart(window', Tick, slept + 1) /\ Len(window') = Len(window)
    BY <1>1, <1>2, AgedApart, AgeingType DEF Rhythm, Elapse
  <2>2. slept' \in Nat /\ slept' <= slept + 1
    BY <1>1, <1>2, TimingAssumption DEF Elapse, Saturate
  <2>3. window' \in Seq(Sample)
    BY <1>2, AgeingType
  <2>4. Apart(window', Tick, slept')
    BY <1>1, <2>1, <2>2, <2>3, ApartLess
  <2>. QED
    BY <2>1, <2>4 DEF Rhythm, WindowBounded
<1>3. CASE Observe
  <2>1. /\ window' = WithSample(window, recommended)
        /\ slept = Tick /\ slept' = 0
    BY <1>3 DEF Observe, Observed, Wake
  <2>2. /\ Apart(WithSample(window, recommended), Tick, 0)
        /\ (Len(WithSample(window, recommended)) - 1) * Tick <= Window
    BY <1>1, <2>1, SampleApart DEF Rhythm
  <2>. QED
    BY <2>1, <2>2 DEF Rhythm, WindowBounded
<1>4. CASE CheckRunning \/ NoRecommendation
  <2>1. window' = window /\ slept' = 0
    BY <1>4 DEF CheckRunning, NoRecommendation, Wake
  <2>. QED
    BY <1>1, <2>1, ApartLess DEF Rhythm, WindowBounded
<1>5. CASE UNCHANGED <<window, slept>>
  BY <1>5 DEF Rhythm, WindowBounded
<1>. QED
  BY <1>2, <1>3, <1>4, <1>5
     DEF Next, vars, SetRecommended, Start, Stop, Join, Evaluate, Downgrade,
         Upgrade, Sustain, CoolDown, NoRoom

\* However late its ticks, the window never outgrows the samples that fit in
\* it a tick apart.
THEOREM WindowIsBounded == Spec => [](Rhythm /\ WindowBounded)
<1>1. Init => Rhythm /\ WindowBounded
  <2> SUFFICES ASSUME Init
               PROVE  Rhythm /\ WindowBounded
    OBVIOUS
  <2>1. Len(window) = 0 /\ Window \in Nat /\ Tick \in Nat
    BY WindowAssumption, TimingAssumption DEF Init
  <2>2. (0 - 1) * Tick <= Window
    BY <2>1
  <2>. QED
    BY <2>1, <2>2 DEF Rhythm, Apart, WindowBounded
<1>. QED
  BY <1>1, RhythmStep, TypeCorrect, PTL DEF Spec

-----------------------------------------------------------------------------
(* The level and the average *)

\* What a configuration must satisfy for the int the window is summed in: as
\* many recommendations as the window can hold fit in it.
SumFits == \A n \in Nat, bps \in Recommendations :
              (n - 1) * Tick <= Window => bps * n <= IntMax

\* The samples are positive recommendations of the SDK.
SamplesReported ==
    /\ recommended \in Recommendations \cup {-1}
    /\ \A i \in 1 .. Len(window) :
          window[i].bps \in {bps \in Recommendations : bps > 0}

LEMMA SamplesStep == TypeOK /\ SamplesReported /\ [Next]_vars => SamplesReported'
<1> SUFFICES ASSUME TypeOK, SamplesReported, [Next]_vars
             PROVE  SamplesReported'
  OBVIOUS
<1>1. CASE Elapse
  <2>1. /\ Len(window') = Len(window)
        /\ \A i \in 1 .. Len(window) : window'[i].bps = window[i].bps
    BY <1>1, AgedType DEF TypeOK, Elapse
  <2>. QED
    BY <1>1, <2>1 DEF SamplesReported, Elapse
<1>2. CASE Observe
  <2>. DEFINE V == {bps \in Recommendations : bps > 0}
  <2>1. recommended \in V /\ recommended \in Int
    BY <1>2 DEF Observe, SamplesReported, TypeOK
  <2>2. \A i \in 1 .. Len(window') : window'[i].bps \in V
    BY <1>2, <2>1, WithSampleValues
       DEF Observe, Observed, SamplesReported, TypeOK
  <2>. QED
    BY <1>2, <2>2 DEF Observe, Wake, SamplesReported
<1>3. ASSUME NEW bps \in Recommendations, SetRecommended(bps)
      PROVE  SamplesReported'
  BY <1>3 DEF SetRecommended, SamplesReported
<1>4. CASE UNCHANGED <<recommended, window>>
  BY <1>4 DEF SamplesReported
<1>. QED
  BY <1>1, <1>2, <1>3, <1>4
     DEF Next, vars, Start, Stop, Join, CheckRunning, Evaluate, Wake,
         NoRecommendation, Downgrade, Upgrade, Sustain, CoolDown, NoRoom

\* More bits per sample never fit a lower rung.
LEMMA LevelForMonotonic ==
  ASSUME NEW lo \in Int, NEW t \in Int, NEW n \in Nat, lo * n <= t
  PROVE  LevelFor(lo, 1) <= LevelFor(t, n)
<1>. DEFINE A == {0} \cup {i \in Level : Bitrate[i] * HeadDen * 1 <= lo * HeadNum}
            B == {0} \cup {i \in Level : Bitrate[i] * HeadDen * n <= t * HeadNum}
<1>1. HeadNum \in Nat /\ HeadDen \in Nat /\ NumLevels - 1 \in Nat
  BY ValueAssumption, LadderAssumption
<1>2. A \subseteq B
  <2>1. ASSUME NEW i \in Level, Bitrate[i] * HeadDen * 1 <= lo * HeadNum
        PROVE  Bitrate[i] * HeadDen * n <= t * HeadNum
    <3>. DEFINE x == Bitrate[i] * HeadDen
                y == lo * HeadNum
    <3>1. x \in Int /\ y \in Int
      BY <1>1, LadderAssumption
    <3>2. x <= y
      BY <2>1, <3>1
    <3>3. x * n <= y * n
      <4>. HIDE DEF x, y
      <4>. QED
        BY <3>1, <3>2, TimesMonotonic
    <3>4. (lo * n) * HeadNum <= t * HeadNum
      <4>1. lo * n \in Int
        OBVIOUS
      <4>. QED
        BY <1>1, <4>1, TimesMonotonic
    <3>5. y * n = (lo * n) * HeadNum
      BY <1>1
    <3>6. x * n \in Int /\ y * n \in Int /\ t * HeadNum \in Int
      BY <1>1, <3>1
    <3>. QED
      BY <3>3, <3>4, <3>5, <3>6
  <2>. QED
    BY <2>1
<1>3. A # {} /\ A \subseteq 0 .. NumLevels - 1 /\ B # {} /\ B \subseteq 0 .. NumLevels - 1
  BY <1>1 DEF Level
<1>4. Max(A) \in A /\ \A x \in B : x <= Max(B)
  <2>. HIDE DEF A, B
  <2>. QED
    BY <1>1, <1>3, MaxNat
<1>. QED
  BY <1>2, <1>4 DEF LevelFor

\* While the sum fits an int, the minimum of the window never fits a higher
\* rung than its average.
LEMMA DownBelowUp ==
  ASSUME SumFits, TypeOK, WindowBounded, SamplesReported, window # << >>
  PROVE  DownLevel(window) <= UpLevel(window)
<1>. DEFINE n == Len(window)
            V == {window[i].bps : i \in DOMAIN window}
<1>1. /\ n \in Nat /\ n >= 1 /\ DOMAIN window = 1 .. n
      /\ window \in Seq(Sample)
  BY LenProperties, EmptySeq DEF TypeOK
<1>2. V # {} /\ V \subseteq Nat
  <2>1. ASSUME NEW i \in 1 .. n
        PROVE  window[i].bps \in Nat
    <3>1. window[i].bps \in Recommendations /\ window[i].bps > 0
      BY DEF SamplesReported
    <3>2. window[i].bps \in Int
      BY <3>1, ValueAssumption DEF ValueAssumption
    <3>. QED
      BY <3>1, <3>2
  <2>2. window[1].bps \in V
    BY <1>1
  <2>. QED
    BY <1>1, <2>1, <2>2
<1>3. RecMin(window) \in V /\ \A y \in V : RecMin(window) <= y
  BY <1>2, MinNat DEF RecMin
<1>4. \A y \in V : y * n <= IntMax
  BY <1>1 DEF SumFits, WindowBounded, SamplesReported
<1>5. V \subseteq 0 .. IntMax
  <2>1. ASSUME NEW y \in V
        PROVE  y <= IntMax
    <3>1. y \in Nat
      BY <1>2
    <3>2. 1 * y <= n * y
      <4>. HIDE DEF V, n
      <4>. QED
        BY <1>1, <3>1, TimesMonotonic
    <3>3. y * n <= IntMax
      BY <1>4
    <3>. HIDE DEF V, n
    <3>4. y <= y * n /\ y * n \in Int
      BY <1>1, <3>1, <3>2
    <3>. QED
      BY <3>1, <3>3, <3>4, ValueAssumption
  <2>. QED
    BY <1>2, <2>1, ValueAssumption
<1>6. Max(V) \in V /\ \A y \in V : y <= Max(V)
  <2>. HIDE DEF V
  <2>. QED
    BY <1>2, <1>5, MaxNat, ValueAssumption
<1>7. \A i \in 1 .. n : RecMin(window) <= window[i].bps /\ window[i].bps <= Max(V)
  BY <1>1, <1>3, <1>6
<1>8. RecMin(window) \in Int /\ Max(V) \in Int
  BY <1>2, <1>3, <1>6
<1>9. /\ Total(window) \in Int
      /\ RecMin(window) * n <= Total(window)
      /\ Total(window) <= Max(V) * n
  <2>. HIDE DEF V
  <2>. QED
    BY <1>1, <1>7, <1>8, TotalBounds
<1>10. Total(window) <= IntMax
  <2>1. Max(V) * n <= IntMax
    BY <1>4, <1>6
  <2>. HIDE DEF V, n
  <2>2. Max(V) * n \in Int
    BY <1>1, <1>8
  <2>. QED
    BY <1>9, <2>1, <2>2, ValueAssumption
<1>11. RecSum(window) = Total(window)
  BY <1>10 DEF RecSum, WrapInt
<1>. HIDE DEF V
<1>. QED
  BY <1>1, <1>8, <1>9, <1>11, LevelForMonotonic DEF DownLevel, UpLevel

\* As long as the sum of a full window fits an int, the published level fits
\* the averaged recommendation.
THEOREM AverageFits ==
  ASSUME SumFits
  PROVE  Spec => []LevelFitsAverage
<1>1. Init => LevelFitsAverage /\ SamplesReported
  <2> SUFFICES ASSUME Init
               PROVE  LevelFitsAverage /\ SamplesReported
    OBVIOUS
  <2>1. Len(window) = 0
    BY DEF Init
  <2>. QED
    BY <2>1 DEF Init, LevelFitsAverage, SamplesReported
<1>2. TypeOK /\ LevelFitsAverage /\ SamplesReported /\ TypeOK' /\ WindowBounded'
        /\ [Next]_vars => LevelFitsAverage'
  <2> SUFFICES ASSUME TypeOK, LevelFitsAverage, SamplesReported, TypeOK',
                      WindowBounded', [Next]_vars
               PROVE  LevelFitsAverage'
    OBVIOUS
  <2>1. SamplesReported'
    BY SamplesStep
  <2>2. CASE Elapse
    <3>1. UpLevel(window') = UpLevel(window)
      BY <2>2, AgeingType DEF UpLevel, RecSum
    <3>2. window' # << >> => window # << >>
      BY <2>2, AgeingType, EmptySeq DEF TypeOK
    <3>. QED
      BY <2>2, <3>1, <3>2 DEF LevelFitsAverage, Elapse
  <2>3. ASSUME Observe, target' <= UpLevel(Observed)
        PROVE  LevelFitsAverage'
    BY <2>3 DEF Observe, LevelFitsAverage
  <2>4. /\ target \in Int
        /\ DownLevel(Observed) \in Int /\ UpLevel(Observed) \in Int
    BY SelectorType DEF TypeOK, Level
  <2>5. ASSUME Observe
        PROVE  DownLevel(Observed) <= UpLevel(Observed)
    <3>1. window' = Observed /\ window' # << >>
      BY <2>5, ObservedType DEF Observe
    <3>2. (window # << >> => DownLevel(window) <= UpLevel(window))'
      BY <2>1, DownBelowUp, PTL
    <3>. QED
      BY <3>1, <3>2
  <2>6. CASE Downgrade
    BY <2>3, <2>4, <2>5, <2>6 DEF Downgrade
  <2>7. CASE Upgrade
    BY <2>3, <2>4, <2>7 DEF Upgrade, RoomAbove
  <2>8. CASE Sustain
    BY <2>3, <2>4, <2>8 DEF Sustain, RoomAbove
  <2>9. CASE CoolDown
    BY <2>3, <2>4, <2>9 DEF CoolDown, RoomAbove
  <2>10. CASE NoRoom
    BY <2>3, <2>4, <2>5, <2>10 DEF NoRoom
  <2>11. CASE UNCHANGED <<target, window>>
    BY <2>11 DEF LevelFitsAverage
  <2>. QED
    BY <2>2, <2>6, <2>7, <2>8, <2>9, <2>10, <2>11
       DEF Next, vars, SetRecommended, Start, Stop, Join, CheckRunning,
           Evaluate, NoRecommendation
<1>. QED
  BY <1>1, <1>2, SamplesStep, TypeCorrect, WindowIsBounded, PTL DEF Spec

-----------------------------------------------------------------------------
(* Sustain time and the spacing of upgrades *)

Invariant == TypeOK /\ SustainBacked

\* Only one tick's worth of credit is given per tick slept, so the credit of
\* a sleeping thread trails the clock by the time it has slept.
LEMMA CreditStep == TypeOK /\ SustainBacked /\ [Next]_vars => SustainBacked'
<1> SUFFICES ASSUME TypeOK, SustainBacked, [Next]_vars
             PROVE  SustainBacked'
  OBVIOUS
<1>1. /\ upSustained \in Int /\ sinceChange \in Int /\ slept \in Int
      /\ sinceChange <= TimeCap /\ slept >= 0
  BY TimingAssumption DEF TypeOK
<1>2. CASE Elapse
  BY <1>1, <1>2, TimingAssumption DEF Elapse, Saturate, SustainBacked
<1>3. CASE Sustain
  <2>1. slept = Tick /\ slept' = 0
    BY <1>3 DEF Sustain, Observe, Wake
  <2>2. /\ upSustained' = upSustained + Tick
        /\ upSustained' < UpDuration
        /\ sinceChange' = sinceChange /\ sinceChange > Cooldown
    BY <1>3 DEF Sustain
  <2>3. upSustained >= 0
    BY DEF TypeOK
  <2>. QED
    BY <1>1, <2>1, <2>2, <2>3, TimingAssumption DEF SustainBacked
<1>4. ASSUME upSustained' = 0
      PROVE  SustainBacked'
  BY <1>4 DEF SustainBacked
<1>5. ASSUME UNCHANGED <<upSustained, sinceChange>>,
             slept' = 0 \/ slept' = slept
      PROVE  SustainBacked'
  BY <1>1, <1>5, TimingAssumption DEF SustainBacked
<1>. QED
  BY <1>2, <1>3, <1>4, <1>5
     DEF Next, vars, SetRecommended, Start, Stop, Join, CheckRunning, Evaluate,
         NoRecommendation, Downgrade, Upgrade, CoolDown, NoRoom, Observe, Wake

THEOREM InvariantHolds == Spec => []Invariant
<1>1. Init => SustainBacked
  BY DEF Init, SustainBacked
<1>. QED
  BY <1>1, CreditStep, TypeCorrect, PTL DEF Spec, Invariant

\* The credited sustain time has really passed since the cooldown ended.
THEOREM SustainIsBacked == Spec => []SustainBacked
BY InvariantHolds, PTL DEF Invariant

\* An upgrade finds the cooldown and all but the last tick of the sustain
\* period behind it.
LEMMA UpgradeIsSpaced ==
  ASSUME Invariant, Upgrade
  PROVE  /\ target' = target + 1
         /\ sinceChange > Cooldown + UpDuration - Tick
<1>1. /\ upSustained \in Nat /\ sinceChange \in Int
      /\ slept = Tick /\ sinceChange > Cooldown
      /\ upSustained + Tick >= UpDuration
      /\ target' = target + 1
  BY TimingAssumption DEF Invariant, TypeOK, Upgrade, Observe, Wake
<1>. QED
  BY <1>1, TimingAssumption DEF Invariant, SustainBacked

\* Nothing but an upgrade raises the level.
LEMMA OnlyUpgradeRaises ==
  ASSUME TypeOK, [Next]_vars
  PROVE  \/ Upgrade
         \/ Elapse
         \/ Downgrade
         \/ UNCHANGED <<target, sinceChange>>
BY DEF Next, vars, SetRecommended, Start, Stop, Join, CheckRunning, Evaluate,
       NoRecommendation, Sustain, CoolDown, NoRoom

\* Upgrades are one rung each, spaced by cooldown and sustain period.
THEOREM UpgradesAreSpaced == Spec => UpgradeSpacing
<1>1. Invariant /\ [Next]_vars
        => [target' > target => /\ target' = target + 1
                                /\ sinceChange > Cooldown + UpDuration - Tick]_vars
  <2> SUFFICES ASSUME Invariant, [Next]_vars, target' > target
               PROVE  /\ target' = target + 1
                      /\ sinceChange > Cooldown + UpDuration - Tick
    OBVIOUS
  <2>1. target \in Int /\ TypeOK
    BY DEF Invariant, TypeOK, Level
  <2>2. ~ Downgrade
    BY <2>1, SelectorType DEF Downgrade, Level
  <2>3. ~ Elapse /\ ~ UNCHANGED <<target, sinceChange>>
    BY <2>1 DEF Elapse
  <2>. QED
    BY <2>1, <2>2, <2>3, OnlyUpgradeRaises, UpgradeIsSpaced
<1>. QED
  BY <1>1, InvariantHolds, PTL DEF Spec, UpgradeSpacing

\* The selector implements the level governor: time passes, a downgrade is a
\* fall, an upgrade a climb, and every other step changes nothing it sees.
THEOREM Refinement == Spec => RefinesGovernor
<1>1. Init => Governor!Init
  BY DEF Init, Governor!Init
<1>2. Invariant /\ [Next]_vars => [Governor!Next]_<<target, sinceChange>>
  <2> SUFFICES ASSUME Invariant, [Next]_vars
               PROVE  [Governor!Next]_<<target, sinceChange>>
    OBVIOUS
  <2>. USE DEF Governor!Next
  <2>1. TypeOK /\ target \in Int
    BY DEF Invariant, TypeOK, Level
  <2>2. CASE Elapse
    BY <2>2 DEF Elapse, Saturate, Governor!Pass
  <2>3. CASE Downgrade
    <3>1. target' \in 0 .. target - 1
      BY <2>1, <2>3, SelectorType, LadderAssumption DEF Downgrade, Level
    <3>. QED
      BY <2>3, <3>1 DEF Downgrade, Governor!Fall
  <2>4. CASE Upgrade
    <3>1. target + 1 < NumLevels
      BY <2>1, <2>4, ClimbType, LadderAssumption DEF Level
    <3>. QED
      BY <2>4, <3>1, UpgradeIsSpaced DEF Upgrade, Governor!Climb
  <2>. QED
    BY <2>1, <2>2, <2>3, <2>4, OnlyUpgradeRaises
<1>. QED
  BY <1>1, <1>2, InvariantHolds, PTL DEF Spec, RefinesGovernor, Governor!Spec

-----------------------------------------------------------------------------
(* The tick thread as a worker *)

\* Once stop() has cleared running_, nothing sets it again.
StopSticks == stopCalled => ~running

LEMMA StopStays == Spec => []StopSticks
<1>1. Init => StopSticks
  BY DEF Init, StopSticks
<1>2. StopSticks /\ [Next]_vars => StopSticks'
  BY DEF StopSticks, Next, vars, Elapse, SetRecommended, Start, Stop, Join,
         CheckRunning, Evaluate, Wake, NoRecommendation, Observe, Downgrade,
         Upgrade, Sustain, CoolDown, NoRoom
<1>. QED
  BY <1>1, <1>2, PTL DEF Spec

\* The tick thread takes only the steps of a worker: it is created once, it
\* returns by itself, and it is joined only after running_ was cleared.
THEOREM TickThreadIsWorker == Spec => TickThread!Spec
<1>. DEFINE as == IF thread \in {"checking", "sleeping"} THEN "alive" ELSE thread
<1>1. Init => TickThread!Init
  BY DEF Init, TickThread!Init
<1>2. StopSticks /\ [Next]_vars => [TickThread!Next]_(TickThread!vars)
  <2> SUFFICES ASSUME StopSticks, [Next]_vars
               PROVE  TickThread!Next \/ UNCHANGED <<running, as>>
    BY DEF TickThread!vars
  <2>. USE DEF TickThread!Next
  <2>1. CASE Start
    BY <2>1 DEF Start, TickThread!Start
  <2>2. CASE Stop
    BY <2>2 DEF Stop, TickThread!ClearRunning
  <2>3. CASE Join
    BY <2>3 DEF Join, StopSticks, TickThread!Join
  <2>4. CASE CheckRunning
    BY <2>4 DEF CheckRunning, TickThread!Exit
  <2>5. CASE Wake
    BY <2>5 DEF Wake
  <2>6. CASE UNCHANGED <<running, thread>>
    BY <2>6
  <2>. QED
    BY <2>1, <2>2, <2>3, <2>4, <2>5, <2>6
       DEF Next, vars, Elapse, SetRecommended, Evaluate, NoRecommendation,
           Observe, Downgrade, Upgrade, Sustain, CoolDown, NoRoom
<1>. QED
  BY <1>1, <1>2, StopStays, PTL DEF Spec, TickThread!Spec
=============================================================================
