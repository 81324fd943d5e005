---------------------------- MODULE AbrTrendProofs ----------------------------
(***************************************************************************)
(* Theorems about the trend selector, for every ladder, every timing, and  *)
(* every order of samples, departures and ticks; and that what the SDK's   *)
(* callbacks do through Observer is among them.                            *)
(***************************************************************************)
EXTENDS Observer, SlidingWindowProofs

(* Receivers *)

LEMMA FreshType ==
  ASSUME TypeOK
  PROVE  Fresh \in [Uids -> Seq(Sample)]
<1>1. << >> \in Seq(Sample)
  BY EmptySeq
<1>. QED
  BY <1>1 DEF TypeOK, Fresh

LEMMA AgedReceivers ==
  ASSUME TypeOK
  PROVE  [u \in Uids |-> Aged(receivers[u])] \in [Uids -> Seq(Sample)]
<1>1. \A u \in Uids : receivers[u] \in Seq(Sample)
  BY DEF TypeOK
<1>2. \A u \in Uids : Aged(receivers[u]) \in Seq(Sample)
  BY <1>1, AgedType
<1>. QED
  BY <1>2

LEMMA AddedReceivers ==
  ASSUME TypeOK, NEW u \in Uids, NEW bwe \in Int
  PROVE  [receivers EXCEPT ![u] = WithSample(@, bwe)] \in [Uids -> Seq(Sample)]
<1>1. receivers[u] \in Seq(Sample)
  BY DEF TypeOK
<1>2. WithSample(receivers[u], bwe) \in Seq(Sample)
  BY <1>1, WithSampleType
<1>. QED
  BY <1>2 DEF TypeOK

\* The last estimate and the sum of a tracked receiver's window are integers,
\* and its length a positive natural.
LEMMA WindowNumbers ==
  ASSUME NEW r \in [Uids -> Seq(Sample)], NEW u \in Tracked(r)
  PROVE  Inst(r[u]) \in Int /\ Total(r[u]) \in Int /\ Len(r[u]) \in Nat \ {0}
<1>. DEFINE w == r[u]
<1>1. w \in Seq(Sample) /\ w # << >>
  BY DEF Tracked
<1>. HIDE DEF w
<1>2. Len(w) \in Nat \ {0}
  BY <1>1, LenProperties, EmptySeq
<1>3. w[Len(w)].bps \in Int
  <2>1. w[Len(w)] \in Sample
    BY <1>1, <1>2, ElementOfSeq
  <2>. QED
    BY <2>1 DEF Sample
<1>4. Total(w) \in Int
  BY <1>1, TotalIsInt
<1>. QED
  BY <1>2, <1>3, <1>4 DEF Inst, w

\* A dip is a dip of the worst receiver below its own average too, so with
\* factors of at least 1 and an average that is not negative that receiver
\* is not rising.
LEMMA DipIsNoRise ==
  ASSUME FactorsWiden, NEW r \in [Uids -> Seq(Sample)], Dipped(r),
         \A u \in Tracked(r) : Total(r[u]) >= 0
  PROVE  ~ Rising(r)
<1>1. PICK u \in Tracked(r) : Inst(r[u]) * DownNum * Len(r[u]) < Total(r[u]) * DownDen
  BY DEF Dipped
<1>. DEFINE x == Inst(r[u]) * Len(r[u])
            t == Total(r[u])
<1>2. /\ Inst(r[u]) \in Int /\ t \in Int /\ Len(r[u]) \in Nat \ {0} /\ t >= 0
      /\ {UpNum, UpDen, DownNum, DownDen} \subseteq Nat \ {0}
      /\ UpNum >= UpDen /\ DownNum >= DownDen
  BY WindowNumbers, TrendAssumption DEF FactorsWiden
<1>3. x \in Int /\ x * DownNum < t * DownDen
  <2>1. Inst(r[u]) * DownNum * Len(r[u]) = x * DownNum
    BY <1>2
  <2>. QED
    BY <1>1, <1>2, <2>1
<1>. HIDE DEF x, t
<1>4. x < t
  <2>. SUFFICES ASSUME t <= x
                PROVE  FALSE
    BY <1>2, <1>3
  <2>1. t * DownDen <= x * DownDen
    BY <1>2, <1>3, TimesMonotonic
  <2>2. DownDen * x <= DownNum * x
    <3>1. x \in Nat
      BY <1>2, <1>3
    <3>. QED
      BY <1>2, <3>1, TimesMonotonic
  <2>3. /\ t * DownDen \in Int /\ x * DownDen \in Int /\ x * DownNum \in Int
        /\ DownDen * x = x * DownDen /\ DownNum * x = x * DownNum
    BY <1>2, <1>3
  <2>. QED
    BY <1>3, <2>1, <2>2, <2>3
<1>5. ~ (x * UpDen > t * UpNum)
  <2>4. UpDen \in Nat /\ UpNum \in Nat /\ x <= t
    BY <1>2, <1>3, <1>4
  <2>1. x * UpDen <= t * UpDen
    BY <1>2, <1>3, <2>4, TimesMonotonic
  <2>2. UpDen * t <= UpNum * t
    BY <1>2, TimesMonotonic
  <2>3. /\ x * UpDen \in Int /\ t * UpDen \in Int /\ t * UpNum \in Int
        /\ UpDen * t = t * UpDen /\ UpNum * t = t * UpNum
    <3>1. x \in Int /\ t \in Int /\ UpDen \in Int /\ UpNum \in Int
      BY <1>2, <1>3
    <3>. QED BY <3>1
  <2>. QED
    BY <2>1, <2>2, <2>3
<1>6. Inst(r[u]) * UpDen * Len(r[u]) = x * UpDen
  BY <1>2 DEF x
<1>. QED
  BY <1>5, <1>6 DEF Rising, t

\* Where all estimates are the same and not negative, nobody dips and nobody
\* rises.
LEMMA SameIsSteady ==
  ASSUME FactorsWiden, NEW r \in [Uids -> Seq(Sample)], NEW bwe \in Nat,
         \A u \in Uids : \A i \in 1 .. Len(r[u]) : r[u][i].bps = bwe
  PROVE  ~ Dipped(r) /\ (Tracked(r) # {} => ~ Rising(r))
<1>1. ASSUME NEW u \in Tracked(r)
      PROVE  /\ Len(r[u]) \in Nat \ {0}
             /\ Inst(r[u]) = bwe
             /\ Total(r[u]) = bwe * Len(r[u])
  <2>. DEFINE w == r[u]
  <2>1. w \in Seq(Sample) /\ \A i \in 1 .. Len(w) : w[i].bps = bwe
    BY DEF Tracked
  <2>2. Len(w) \in Nat \ {0}
    BY WindowNumbers
  <2>. HIDE DEF w
  <2>3. w[Len(w)].bps = bwe
    BY <2>1, <2>2
  <2>6. bwe \in Int /\ \A i \in 1 .. Len(w) : bwe <= w[i].bps /\ w[i].bps <= bwe
    BY <2>1
  <2>4. Total(w) \in Int /\ bwe * Len(w) <= Total(w) /\ Total(w) <= bwe * Len(w)
    BY <2>1, <2>6, TotalBounds
  <2>5. Total(w) = bwe * Len(w)
    BY <2>2, <2>4
  <2>. QED
    BY <2>2, <2>3, <2>5 DEF Inst, w
<1>2. /\ {UpNum, UpDen, DownNum, DownDen} \subseteq Nat \ {0}
      /\ UpDen <= UpNum /\ DownDen <= DownNum
  BY TrendAssumption DEF FactorsWiden
<1>3. ASSUME NEW n \in Nat \ {0}
      PROVE  /\ bwe * n * DownDen <= bwe * DownNum * n
             /\ bwe * UpDen * n <= bwe * n * UpNum
  <2>. DEFINE x == bwe * n
  <2>1. x \in Nat /\ UpNum \in Nat /\ UpDen \in Nat /\ DownNum \in Nat /\ DownDen \in Nat
    BY <1>2
  <2>2. x * DownDen = bwe * n * DownDen /\ DownNum * x = bwe * DownNum * n
    BY <2>1
  <2>3. UpDen * x = bwe * UpDen * n /\ x * UpNum = bwe * n * UpNum
    BY <2>1
  <2>. HIDE DEF x
  <2>4. DownDen * x <= DownNum * x /\ UpDen * x <= UpNum * x
    BY <1>2, <2>1, TimesMonotonic
  <2>5. DownDen * x = x * DownDen /\ UpNum * x = x * UpNum
    BY <2>1
  <2>. QED
    BY <2>2, <2>3, <2>4, <2>5
<1>4. ~ Dipped(r)
  <2>1. ASSUME NEW u \in Tracked(r), Inst(r[u]) * DownNum * Len(r[u]) < Total(r[u]) * DownDen
        PROVE  FALSE
    <3>. DEFINE n == Len(r[u])
    <3>1. n \in Nat \ {0} /\ bwe * DownNum * n < bwe * n * DownDen
      BY <1>1, <2>1
    <3>. HIDE DEF n
    <3>2. bwe * n * DownDen <= bwe * DownNum * n
      BY <1>3, <3>1
    <3>3. bwe * n * DownDen \in Int /\ bwe * DownNum * n \in Int
      BY <1>2, <3>1
    <3>. QED
      BY <3>1, <3>2, <3>3
  <2>. QED
    BY <2>1 DEF Dipped
<1>5. ASSUME NEW u \in Tracked(r), Inst(r[u]) * UpDen * Len(r[u]) > Total(r[u]) * UpNum
      PROVE  FALSE
  <2>. DEFINE n == Len(r[u])
  <2>1. n \in Nat \ {0} /\ bwe * UpDen * n > bwe * n * UpNum
    BY <1>1, <1>5
  <2>. HIDE DEF n
  <2>2. bwe * UpDen * n <= bwe * n * UpNum
    BY <1>3, <2>1
  <2>3. bwe * UpDen * n \in Int /\ bwe * n * UpNum \in Int
    BY <1>2, <2>1
  <2>. QED
    BY <2>1, <2>2, <2>3
<1>. QED
  BY <1>4, <1>5 DEF Rising

-----------------------------------------------------------------------------
(* The two checks of an evaluation, case by case *)

StateType == [level : Level, since : 0 .. TimeCap, down : Nat, up : Nat]

LEMMA DownCheckCases ==
  ASSUME NEW s \in StateType, NEW r
  PROVE  LET d == DownCheck(s, r)
         IN  /\ d \in StateType
             /\ \/ /\ d.level = s.level /\ d.since = s.since
                   /\ d.down = 0 /\ d.up \in {0, s.up}
                \/ /\ Dipped(r)
                   /\ d.level = s.level /\ d.since = s.since
                   /\ d.down = s.down + Tick /\ d.down < DownDuration /\ d.up = s.up
                \/ /\ Dipped(r)
                   /\ s.level > 0 /\ s.down + Tick >= DownDuration
                   /\ d.level = s.level - 1 /\ d.since = 0 /\ d.down = 0 /\ d.up = 0
<1>1. /\ s.level \in Level /\ s.since \in 0 .. TimeCap /\ s.down \in Nat /\ s.up \in Nat
      /\ s.level > 0 => s.level - 1 \in Level
      /\ s.down + Tick \in Nat /\ DownDuration \in Nat /\ 0 \in 0 .. TimeCap
  BY TrendAssumption DEF StateType, Level
<1>2. s = [level |-> s.level, since |-> s.since, down |-> s.down, up |-> s.up]
  BY DEF StateType
<1>3. CASE ~ Dipped(r)
  <2>1. DownCheck(s, r) = [level |-> s.level, since |-> s.since, down |-> 0, up |-> s.up]
    BY <1>2, <1>3 DEF DownCheck
  <2>. QED
    BY <1>1, <2>1 DEF StateType
<1>4. CASE Dipped(r) /\ s.down + Tick < DownDuration
  <2>1. DownCheck(s, r) = [level |-> s.level, since |-> s.since,
                           down |-> s.down + Tick, up |-> s.up]
    BY <1>2, <1>4 DEF DownCheck
  <2>. QED
    BY <1>1, <1>4, <2>1 DEF StateType
<1>5. CASE Dipped(r) /\ ~ (s.down + Tick < DownDuration) /\ s.level > 0
  <2>1. DownCheck(s, r) = [level |-> s.level - 1, since |-> 0, down |-> 0, up |-> 0]
    BY <1>2, <1>5 DEF DownCheck, Moved
  <2>. QED
    BY <1>1, <1>5, <2>1, TrendAssumption DEF StateType
<1>6. CASE Dipped(r) /\ ~ (s.down + Tick < DownDuration) /\ ~ (s.level > 0)
  <2>1. DownCheck(s, r) = [level |-> s.level, since |-> s.since, down |-> 0, up |-> 0]
    BY <1>2, <1>6 DEF DownCheck, Spent
  <2>. QED
    BY <1>1, <2>1 DEF StateType
<1>. QED
  BY <1>3, <1>4, <1>5, <1>6

LEMMA UpCheckCases ==
  ASSUME NEW s \in StateType, NEW r
  PROVE  LET p == UpCheck(s, r)
         IN  /\ p \in StateType
             /\ \/ ~ Cooled(s) /\ p = s
                \/ /\ Cooled(s) /\ ~ Rising(r)
                   /\ p.level = s.level /\ p.since = s.since /\ p.down = s.down /\ p.up = 0
                \/ /\ Cooled(s) /\ Rising(r)
                   /\ p.level = s.level /\ p.since = s.since
                   /\ p.down \in {0, s.down} /\ p.up \in {0, s.up + Tick}
                \/ /\ Cooled(s) /\ Rising(r) /\ s.up + Tick >= UpDuration
                   /\ s.level + 1 < NumLevels
                   /\ p.level = s.level + 1 /\ p.since = 0 /\ p.down = 0 /\ p.up = 0
<1>1. /\ s.level \in Level /\ s.since \in 0 .. TimeCap /\ s.down \in Nat /\ s.up \in Nat
      /\ RoomAbove(s) => s.level + 1 \in Level /\ s.level + 1 < NumLevels
      /\ s.up + Tick \in Nat /\ UpDuration \in Nat /\ 0 \in 0 .. TimeCap
  BY TrendAssumption DEF StateType, Level, RoomAbove
<1>2. s = [level |-> s.level, since |-> s.since, down |-> s.down, up |-> s.up]
  BY DEF StateType
<1>3. CASE ~ Cooled(s)
  BY <1>3 DEF UpCheck
<1>4. CASE Cooled(s) /\ ~ Rising(r)
  <2>1. UpCheck(s, r) = [level |-> s.level, since |-> s.since, down |-> s.down, up |-> 0]
    BY <1>2, <1>4 DEF UpCheck, RiseOver
  <2>. QED
    BY <1>1, <1>4, <2>1 DEF StateType
<1>5. CASE Cooled(s) /\ Rising(r) /\ s.up + Tick < UpDuration
  <2>1. UpCheck(s, r) = [level |-> s.level, since |-> s.since,
                         down |-> s.down, up |-> s.up + Tick]
    BY <1>2, <1>5 DEF UpCheck
  <2>. QED
    BY <1>1, <1>5, <2>1 DEF StateType
<1>6. CASE Cooled(s) /\ Rising(r) /\ ~ (s.up + Tick < UpDuration) /\ RoomAbove(s)
  <2>1. UpCheck(s, r) = [level |-> s.level + 1, since |-> 0, down |-> 0, up |-> 0]
    BY <1>2, <1>6 DEF UpCheck, Moved
  <2>. QED
    BY <1>1, <1>6, <2>1, TrendAssumption DEF StateType
<1>7. CASE Cooled(s) /\ Rising(r) /\ ~ (s.up + Tick < UpDuration) /\ ~ RoomAbove(s)
  <2>1. UpCheck(s, r) = [level |-> s.level, since |-> s.since, down |-> 0, up |-> 0]
    BY <1>2, <1>7 DEF UpCheck, Spent
  <2>. QED
    BY <1>1, <1>7, <2>1 DEF StateType
<1>. QED
  BY <1>3, <1>4, <1>5, <1>6, <1>7

-----------------------------------------------------------------------------
(* The invariant *)

\* Backed with the time the tick thread has slept since the credit was given:
\* the next tick adds that much again.
Paced == /\ downSustained = 0 \/ downSustained < DownDuration
         /\ sinceChange = TimeCap \/ sinceChange >= downSustained + slept
         /\ upSustained > 0 => \/ sinceChange = TimeCap
                               \/ sinceChange > Cooldown + upSustained - Tick + slept

Inv == TypeOK /\ Paced

\* What a tick may do to the level.
Outcome == \/ target' = target /\ sinceChange' = sinceChange
           \/ /\ target > 0 /\ sinceChange >= DownDuration
              /\ target' = target - 1 /\ sinceChange' = 0
           \/ /\ target + 1 < NumLevels /\ sinceChange > Cooldown + UpDuration - Tick
              /\ target' = target + 1 /\ sinceChange' = 0

LEMMA Constants ==
  /\ Tick \in Nat \ {0} /\ DownDuration \in Nat /\ UpDuration \in Nat
  /\ Cooldown \in Nat /\ TimeCap \in Nat /\ NumLevels \in Nat \ {0}
  /\ TimeCap > Cooldown + UpDuration /\ TimeCap >= DownDuration
  /\ StartLevel \in Level /\ Estimates \subseteq Int
BY TrendAssumption

\* Forgetting stale receivers forgets whole windows only.
LEMMA FreshIsPart ==
  \A u \in Uids : Fresh[u] = << >> \/ Fresh[u] = receivers[u]
BY DEF Fresh

\* A tick with receivers: the first check, then the second on its outcome.
LEMMA TickStep ==
  ASSUME Inv, EvaluateTracked
  PROVE  /\ target' \in Level /\ downSustained' \in Nat /\ upSustained' \in Nat
         /\ sinceChange' \in 0 .. TimeCap /\ slept' = 0
         /\ Paced' /\ Outcome
         /\ downSustained' > 0 /\ upSustained' > 0 => Dipped(Fresh) /\ Rising(Fresh)
<1>. DEFINE s == State
            d == DownCheck(s, Fresh)
            p == UpCheck(d, Fresh)
<1>1. /\ s \in StateType /\ s.level = target /\ s.since = sinceChange
      /\ s.down = downSustained /\ s.up = upSustained
  BY DEF Inv, TypeOK, State, StateType
<1>2. /\ slept = Tick /\ slept' = 0
      /\ target' = p.level /\ sinceChange' = p.since
      /\ downSustained' = p.down /\ upSustained' = p.up
  BY DEF EvaluateTracked, Wake
<1>. HIDE DEF s
<1>3. /\ d \in StateType
      /\ \/ /\ d.level = s.level /\ d.since = s.since
            /\ d.down = 0 /\ d.up \in {0, s.up}
         \/ /\ Dipped(Fresh)
            /\ d.level = s.level /\ d.since = s.since
            /\ d.down = s.down + Tick /\ d.down < DownDuration /\ d.up = s.up
         \/ /\ Dipped(Fresh)
            /\ s.level > 0 /\ s.down + Tick >= DownDuration
            /\ d.level = s.level - 1 /\ d.since = 0 /\ d.down = 0 /\ d.up = 0
  BY <1>1, DownCheckCases
<1>. HIDE DEF d
<1>4. /\ p \in StateType
      /\ \/ ~ Cooled(d) /\ p = d
         \/ /\ Cooled(d) /\ ~ Rising(Fresh)
            /\ p.level = d.level /\ p.since = d.since /\ p.down = d.down /\ p.up = 0
         \/ /\ Cooled(d) /\ Rising(Fresh)
            /\ p.level = d.level /\ p.since = d.since
            /\ p.down \in {0, d.down} /\ p.up \in {0, d.up + Tick}
         \/ /\ Cooled(d) /\ Rising(Fresh) /\ d.up + Tick >= UpDuration
            /\ d.level + 1 < NumLevels
            /\ p.level = d.level + 1 /\ p.since = 0 /\ p.down = 0 /\ p.up = 0
  BY <1>3, UpCheckCases
<1>. HIDE DEF p
<1>5. /\ s.level \in Int /\ s.since \in 0 .. TimeCap /\ s.down \in Nat /\ s.up \in Nat
      /\ d.level \in Int /\ d.since \in 0 .. TimeCap /\ d.down \in Nat /\ d.up \in Nat
      /\ p.level \in Int /\ p.since \in 0 .. TimeCap /\ p.down \in Nat /\ p.up \in Nat
  BY <1>1, <1>3, <1>4, Constants DEF StateType, Level
<1>6. /\ s.down = 0 \/ s.down < DownDuration
      /\ s.since = TimeCap \/ s.since >= s.down + Tick
      /\ s.up > 0 => s.since = TimeCap \/ s.since > Cooldown + s.up
  BY <1>1, <1>2, <1>5, Constants DEF Inv, Paced
<1>7. Cooled(d) <=> d.since > Cooldown
  BY DEF Cooled
\* What the first check leaves is paced but for the sleep of this tick.
<1>9. /\ d.down = 0 \/ Dipped(Fresh)
      /\ d.down = 0 \/ d.down < DownDuration
      /\ d.since = TimeCap \/ d.since >= d.down
      /\ d.up > 0 => d.since = TimeCap \/ d.since > Cooldown + d.up
      /\ d.up > 0 => Cooled(d)
  BY <1>3, <1>5, <1>6, <1>7, Constants
\* And so is what the second leaves.
<1>10. /\ p.down = 0 \/ p.down < DownDuration
       /\ p.since = TimeCap \/ p.since >= p.down
       /\ p.up > 0 => p.since = TimeCap \/ p.since > Cooldown + p.up - Tick
  <2>1. CASE ~ Cooled(d) /\ p = d
    BY <1>5, <1>9, <2>1, Constants
  <2>2. CASE /\ Cooled(d) /\ ~ Rising(Fresh)
             /\ p.since = d.since /\ p.down = d.down /\ p.up = 0
    BY <1>5, <1>9, <2>2
  <2>3. CASE /\ Cooled(d) /\ Rising(Fresh) /\ p.since = d.since
             /\ p.down \in {0, d.down} /\ p.up \in {0, d.up + Tick}
    <3>1. CASE p.up = 0
      BY <1>5, <1>9, <2>3, <3>1
    <3>2. CASE p.up = d.up + Tick
      BY <1>5, <1>7, <1>9, <2>3, <3>2, Constants
    <3>. QED
      BY <2>3, <3>1, <3>2
  <2>4. CASE p.since = 0 /\ p.down = 0 /\ p.up = 0
    BY <2>4
  <2>. QED
    BY <1>4, <2>1, <2>2, <2>3, <2>4
<1>11. Paced'
  <2>1. /\ slept' = 0
        /\ sinceChange' \in Nat /\ downSustained' \in Nat /\ upSustained' \in Nat
        /\ downSustained' = 0 \/ downSustained' < DownDuration
        /\ sinceChange' = TimeCap \/ sinceChange' >= downSustained'
        /\ upSustained' > 0 => \/ sinceChange' = TimeCap
                               \/ sinceChange' > Cooldown + upSustained' - Tick
    BY <1>2, <1>5, <1>10, Constants
  <2>2. /\ sinceChange' = TimeCap \/ sinceChange' >= downSustained' + slept'
        /\ upSustained' > 0 => \/ sinceChange' = TimeCap
                               \/ sinceChange' > Cooldown + upSustained' - Tick + slept'
    <3>1. Cooldown \in Nat /\ Tick \in Nat
      BY Constants
    <3>3. downSustained' \in Int /\ Cooldown + upSustained' - Tick \in Int
      BY <2>1, <3>1
    <3>4. \A n \in Int : n + 0 = n
      OBVIOUS
    <3>5. slept' = 0
      BY <1>2
    <3>2. /\ downSustained' + slept' = downSustained'
          /\ Cooldown + upSustained' - Tick + slept' = Cooldown + upSustained' - Tick
      BY <3>3, <3>4, <3>5, Zenon
    <3>. QED
      BY <2>1, <3>2
  <2>. QED
    BY <2>1, <2>2 DEF Paced
<1>12. Outcome
  <2>1. CASE d.level = s.level /\ d.since = s.since
    <3>1. CASE p.level = d.level /\ p.since = d.since
      BY <1>1, <1>2, <2>1, <3>1 DEF Outcome
    <3>2. CASE /\ Cooled(d) /\ d.up + Tick >= UpDuration
               /\ d.level + 1 < NumLevels /\ p.level = d.level + 1 /\ p.since = 0
      <4>1. d.since > Cooldown + UpDuration - Tick
        BY <1>5, <1>7, <1>9, <3>2, Constants
      <4>. QED
        BY <1>1, <1>2, <2>1, <3>2, <4>1 DEF Outcome
    <3>. QED
      BY <1>4, <3>1, <3>2
  <2>2. CASE /\ s.level > 0 /\ s.down + Tick >= DownDuration
             /\ d.level = s.level - 1 /\ d.since = 0
    <3>1. ~ Cooled(d)
      BY <1>7, <2>2, Constants
    <3>2. s.since >= DownDuration
      BY <1>5, <1>6, <2>2, Constants
    <3>3. p = d
      BY <1>4, <3>1
    <3>. QED
      BY <1>1, <1>2, <2>2, <3>2, <3>3 DEF Outcome
  <2>. QED
    BY <1>3, <2>1, <2>2
<1>13. p.level \in Level
  BY <1>4 DEF StateType
<1>14. p.down > 0 /\ p.up > 0 => Dipped(Fresh) /\ Rising(Fresh)
  <2>. SUFFICES ASSUME p.down > 0, p.up > 0
                PROVE  Dipped(Fresh) /\ Rising(Fresh)
    OBVIOUS
  <2>1. p.down \in {0, d.down} /\ (Rising(Fresh) \/ (~ Cooled(d) /\ p = d))
    BY <1>4, <1>5
  <2>2. Dipped(Fresh)
    BY <1>5, <1>9, <2>1
  <2>. QED
    BY <1>9, <2>1, <2>2
<1>. QED
  BY <1>2, <1>5, <1>11, <1>12, <1>13, <1>14

LEMMA InitInv == Init => Inv
<1>. SUFFICES ASSUME Init
              PROVE  Inv
  OBVIOUS
<1>1. TypeOK
  <2>1. receivers \in [Uids -> Seq(Sample)]
    BY EmptySeq DEF Init
  <2>. QED
    BY <2>1, Constants DEF Init, TypeOK
<1>2. Paced
  BY Constants DEF Init, Paced
<1>. QED
  BY <1>1, <1>2 DEF Inv

LEMMA NextInv == Inv /\ [Next]_vars => Inv'
<1>. SUFFICES ASSUME Inv, [Next]_vars
              PROVE  Inv'
  OBVIOUS
<1>. USE DEF Inv
<1>1. CASE Elapse
  <2>1. TypeOK'
    <3>1. receivers' \in [Uids -> Seq(Sample)]
      BY <1>1, AgedReceivers DEF Elapse
    <3>2. sinceChange' \in 0 .. TimeCap /\ slept' \in 0 .. Tick
      BY <1>1, Constants DEF Elapse, TypeOK, Saturate
    <3>. QED
      BY <1>1, <3>1, <3>2 DEF Elapse, TypeOK
  <2>2. Paced'
    <3>1. /\ sinceChange \in 0 .. TimeCap /\ slept \in 0 .. Tick
          /\ downSustained \in Nat /\ upSustained \in Nat
          /\ downSustained' = downSustained /\ upSustained' = upSustained
          /\ sinceChange' = IF sinceChange < TimeCap THEN sinceChange + 1 ELSE sinceChange
          /\ slept' = IF slept < Tick THEN slept + 1 ELSE slept
      BY <1>1 DEF Elapse, TypeOK, Saturate
    <3>. QED
      BY <3>1, Constants DEF Paced
  <2>. QED
    BY <2>1, <2>2
<1>2. ASSUME NEW u \in Uids, NEW bwe \in Estimates, AddSample(u, bwe)
      PROVE  Inv'
  <2>1. TypeOK'
    BY <1>2, AddedReceivers, Constants DEF AddSample, TypeOK
  <2>2. Paced'
    BY <1>2 DEF AddSample, Paced
  <2>. QED
    BY <2>1, <2>2
<1>3. ASSUME NEW u \in Uids, Leave(u)
      PROVE  Inv'
  <2>1. receivers' = [receivers EXCEPT ![u] = << >>]
    BY <1>3 DEF Leave
  <2>2. TypeOK'
    BY <1>3, <2>1, EmptySeq DEF Leave, TypeOK
  <2>3. Paced'
    BY <1>3 DEF Leave, Paced
  <2>. QED
    BY <2>2, <2>3
<1>4. CASE EvaluateNobody
  <2>1. TypeOK'
    BY <1>4, FreshType, Constants DEF EvaluateNobody, Wake, TypeOK
  <2>2. Paced'
    BY <1>4, Constants DEF EvaluateNobody, Wake, Paced, TypeOK
  <2>. QED
    BY <2>1, <2>2
<1>5. CASE EvaluateTracked
  <2>1. TypeOK'
    <3>1. receivers' \in [Uids -> Seq(Sample)]
      BY <1>5, FreshType DEF EvaluateTracked
    <3>2. target' \in Level /\ downSustained' \in Nat /\ upSustained' \in Nat
          /\ sinceChange' \in 0 .. TimeCap /\ slept' \in 0 .. Tick
      BY <1>5, TickStep, Constants
    <3>. QED
      BY <3>1, <3>2 DEF TypeOK
  <2>2. Paced'
    BY <1>5, TickStep
  <2>. QED
    BY <2>1, <2>2
<1>6. CASE UNCHANGED vars
  BY <1>6 DEF vars, TypeOK, Paced
<1>. QED
  BY <1>1, <1>2, <1>3, <1>4, <1>5, <1>6 DEF Next

LEMMA Invariance == Spec => []Inv
BY InitInv, NextInv, PTL DEF Spec

\* Every variable keeps its type: the target is always a rung, whatever is
\* reported and however late a tick is.
THEOREM TypeCorrect == Spec => []TypeOK
<1>1. Inv => TypeOK
  BY DEF Inv
<1>. QED
  BY <1>1, Invariance, PTL

\* What a tick leaves of a dip and a rise at once it has seen at once, and so
\* below zero.
LEMMA StepOpposed ==
  ASSUME Inv, [Next]_vars
  PROVE  Opposed
<1>. SUFFICES ASSUME Wake, FactorsWiden, downSustained' > 0, upSustained' > 0
              PROVE  \E u \in Tracked(receivers') : Total(receivers'[u]) < 0
  BY DEF Opposed
<1>1. slept = Tick /\ slept' = 0 /\ Tick # 0
  BY Constants DEF Wake
<1>2. EvaluateTracked
  <2>1. ~ Elapse
    <3>1. Elapse => slept' = Tick
      BY <1>1, Constants DEF Elapse, Saturate
    <3>. QED
      BY <1>1, <3>1
  <2>2. ~ EvaluateNobody
    BY DEF EvaluateNobody
  <2>3. slept' # slept
    BY <1>1
  <2>. QED
    BY <2>1, <2>2, <2>3 DEF Next, vars, AddSample, Leave
<1>3. Dipped(Fresh) /\ Rising(Fresh) /\ receivers' = Fresh
  BY <1>2, TickStep DEF EvaluateTracked
<1>4. \E u \in Tracked(Fresh) : ~ (Total(Fresh[u]) >= 0)
  BY <1>3, FreshType, DipIsNoRise DEF Inv
<1>5. \A u \in Tracked(Fresh) : Total(Fresh[u]) \in Int
  BY FreshType, WindowNumbers DEF Inv
<1>. QED
  BY <1>3, <1>4, <1>5

\* The credit of a dip or a rise is time that passed since the last change,
\* and a tick leaves credit of both only where a receiver's average is
\* negative, with any estimates at all (abr_controller.cpp:219-270).
THEOREM CountersAreSound == Spec => CountersSound
<1>1. Inv => Backed
  <2>. SUFFICES ASSUME Inv
                PROVE  Backed
    OBVIOUS
  <2>1. /\ sinceChange \in 0 .. TimeCap /\ slept \in 0 .. Tick
        /\ downSustained \in Nat /\ upSustained \in Nat
    BY DEF Inv, TypeOK
  <2>. QED
    BY <2>1, Constants DEF Inv, Paced, Backed
<1>2. Inv /\ [Next]_vars => [Opposed]_vars
  BY StepOpposed
<1>. QED
  BY <1>1, <1>2, Invariance, PTL DEF Spec, CountersSound

\* What a step may do to the level and its stamp.
LEMMA StepOutcome ==
  ASSUME Inv, [Next]_vars
  PROVE  \/ Outcome
         \/ target' = target /\ sinceChange' = Saturate(sinceChange, TimeCap)
<1>1. CASE Elapse
  BY <1>1 DEF Elapse
<1>2. CASE EvaluateTracked
  BY <1>2, TickStep
<1>3. CASE UNCHANGED <<target, sinceChange>>
  BY <1>3 DEF Outcome
<1>. QED
  BY <1>1, <1>2, <1>3 DEF Next, vars, AddSample, Leave, EvaluateNobody

\* However samples, departures and late ticks fall, a level falls one rung at
\* a time and only after the downgrade period since the last change, and
\* climbs one rung only after cooldown and upgrade period: what spacing the
\* configuration asks for holds with every timing (abr_controller.cpp:219-270).
THEOREM ChangesSpaced == Spec => ChangesAreSpaced
<1>1. ASSUME Inv, [Next]_vars
      PROVE  /\ target' < target => target' = target - 1 /\ sinceChange >= DownDuration
             /\ target' > target => /\ target' = target + 1
                                    /\ sinceChange > Cooldown + UpDuration - Tick
  <2>1. target \in Int
    BY <1>1, Constants DEF Inv, TypeOK, Level
  <2>. QED
    BY <1>1, <2>1, StepOutcome DEF Outcome
<1>. QED
  BY <1>1, Invariance, PTL DEF Spec, ChangesAreSpaced

\* The trend selector is a level governor: the level falls at will, climbs by
\* one, and climbs only when the level has been calm for long enough.
THEOREM Refinement == Spec => RefinesGovernor
<1>1. Init => Governor!Init
  BY DEF Init, Governor!Init
<1>2. Inv /\ [Next]_vars => [Governor!Next]_<<target, sinceChange>>
  <2>. SUFFICES ASSUME Inv, [Next]_vars
                PROVE  [Governor!Next]_<<target, sinceChange>>
    OBVIOUS
  <2>1. target \in 0 .. NumLevels - 1 /\ sinceChange \in 0 .. TimeCap
    BY DEF Inv, TypeOK, Level
  <2>2. CASE target' = target /\ sinceChange' = Saturate(sinceChange, TimeCap)
    BY <2>2 DEF Saturate, Governor!Next, Governor!Pass
  <2>3. CASE target' = target /\ sinceChange' = sinceChange
    BY <2>3
  <2>4. CASE target > 0 /\ target' = target - 1 /\ sinceChange' = 0
    <3>1. target' \in 0 .. target - 1
      BY <2>1, <2>4
    <3>. QED
      BY <2>4, <3>1 DEF Governor!Next, Governor!Fall
  <2>5. CASE /\ target + 1 < NumLevels /\ sinceChange > Cooldown + UpDuration - Tick
             /\ target' = target + 1 /\ sinceChange' = 0
    BY <2>5 DEF Governor!Next, Governor!Climb
  <2>. QED
    BY <2>2, <2>3, <2>4, <2>5, StepOutcome DEF Outcome
<1>. QED
  BY <1>1, <1>2, Invariance, PTL DEF Spec, RefinesGovernor, Governor!Spec

\* The level moves only on a difference between estimates: sums of any number
\* of equal samples neither fall below nor rise above their average, if the
\* samples are not negative and the factors are at least 1.
THEOREM LevelIsSteady == Spec => SteadyLevel
<1>1. ASSUME Inv, [Next]_vars, FactorsWiden, NEW bwe \in Estimates, bwe >= 0,
             AllSame(bwe)
      PROVE  target' = target
  <2>1. CASE EvaluateTracked
    <3>1. /\ Fresh \in [Uids -> Seq(Sample)]
          /\ \A u \in Uids : \A i \in 1 .. Len(Fresh[u]) : Fresh[u][i].bps = bwe
      <4>1. \A u \in Uids : Fresh[u] = << >> \/ Fresh[u] = receivers[u]
        BY FreshIsPart
      <4>2. Len(<< >>) = 0
        BY EmptySeq
      <4>. QED
        BY <1>1, <4>1, <4>2, FreshType DEF Inv, AllSame
    <3>2. ~ Dipped(Fresh) /\ ~ Rising(Fresh)
      <4>1. bwe \in Nat
        BY <1>1, Constants
      <4>. QED
        BY <1>1, <2>1, <3>1, <4>1, SameIsSteady DEF EvaluateTracked
    <3>3. State \in StateType /\ State.level = target
      BY <1>1 DEF Inv, TypeOK, State, StateType
    <3>4. /\ DownCheck(State, Fresh) \in StateType
          /\ DownCheck(State, Fresh).level = target
      BY <3>2, <3>3, DownCheckCases
    <3>5. UpCheck(DownCheck(State, Fresh), Fresh).level = target
      BY <3>2, <3>4, UpCheckCases
    <3>. QED
      BY <2>1, <3>5 DEF EvaluateTracked
  <2>2. CASE UNCHANGED target
    BY <2>2
  <2>. QED
    BY <1>1, <2>1, <2>2 DEF Next, vars, Elapse, AddSample, Leave, EvaluateNobody
<1>2. Inv /\ [Next]_vars =>
        [FactorsWiden /\ (\E bwe \in Estimates : bwe >= 0 /\ AllSame(bwe))
            => target' = target]_vars
  BY <1>1
<1>. QED
  BY <1>2, Invariance, PTL DEF Spec, SteadyLevel

-----------------------------------------------------------------------------
(* The callbacks *)

\* The callback under way has keys and an estimate of the kind the controller
\* is fed.
Feedable == /\ callback.keys \in Seq(Uids)
            /\ callback.keys # << >> => callback.bwe \in Estimates

LEMMA KeysType ==
  ASSUME NEW bwe, NEW peers \in PeerLists
  PROVE  Keys(bwe, peers) \in Seq(Uids)
<1>1. peers \in Seq(Uids) /\ Downlink \in Uids
  BY ObserverAssumption
<1>2. <<Downlink>> \in Seq(Uids) /\ << >> \in Seq(Uids)
  BY <1>1
<1>. QED
  BY <1>1, <1>2 DEF Keys

\* Every behaviour of the SDK's callbacks in front of the controller, ticks
\* and departures in the middle of a callback included, is one of the trend
\* selector: all that is proved of it holds of the two together.
THEOREM ObserverIsTrend == OSpec => Spec
<1>1. OInit => Init /\ Feedable
  BY EmptySeq DEF OInit, Feedable, Unfed
<1>2. Feedable /\ [ONext]_ovars => Feedable' /\ [Next]_vars
  <2>. SUFFICES ASSUME Feedable, [ONext]_ovars
                PROVE  Feedable' /\ [Next]_vars
    OBVIOUS
  <2>1. ASSUME NEW bwe \in Estimates, NEW peers \in PeerLists, OnDownlink(bwe, peers)
        PROVE  Feedable' /\ [Next]_vars
    BY <2>1, KeysType DEF OnDownlink, Unfed, Feedable
  <2>2. CASE Feed
    <3>1. Head(callback.keys) \in Uids /\ Tail(callback.keys) \in Seq(Uids)
      BY <2>2, HeadTailProperties DEF Feed, Feedable
    <3>2. callback.bwe \in Estimates
      BY <2>2 DEF Feed, Feedable
    <3>3. Feedable'
      BY <2>2, <3>1, <3>2 DEF Feed, Feedable
    <3>. QED
      BY <2>2, <3>1, <3>2, <3>3 DEF Feed, Next
  <2>3. ASSUME NEW u \in Users, OnUserLeft(u)
        PROVE  Feedable' /\ [Next]_vars
    BY <2>3, ObserverAssumption DEF OnUserLeft, Feedable, Next
  <2>4. CASE UNCHANGED callback /\ (Elapse \/ EvaluateNobody \/ EvaluateTracked)
    BY <2>4 DEF Feedable, Next
  <2>5. CASE UNCHANGED ovars
    BY <2>5 DEF ovars, Feedable
  <2>. QED
    BY <2>1, <2>2, <2>3, <2>4, <2>5 DEF ONext
<1>. QED
  BY <1>1, <1>2, PTL DEF OSpec, Spec
=============================================================================
