------------------------- MODULE SlidingWindowProofs -------------------------
(***************************************************************************)
(* What ageing, sampling and summing do to a window, for every window      *)
(* length and every sequence of samples.                                   *)
(***************************************************************************)
EXTENDS SlidingWindow, FiniteSetsExt, WellFoundedInduction, SequenceTheorems, TLAPS

-----------------------------------------------------------------------------
(* Max and Min of FiniteSetsExt are CHOOSE expressions: when what they     *)
(* choose exists.  That a set of naturals has a least one comes from the   *)
(* well-foundedness of < on Nat, and gives induction over a set.           *)

\* Every nonempty set of naturals has a least member.
LEMMA LeastNat ==
  ASSUME NEW S, S \subseteq Nat, S # {}
  PROVE  \E x \in S : \A y \in S : x <= y
<1>. DEFINE Less == {ss \in Nat \X Nat : ss[1] < ss[2]}
<1>1. IsWellFoundedOn(Less, Nat)
  <2>1. OpToRel(<, Nat) = Less
    BY DEF OpToRel
  <2>. QED
    BY <2>1, NatLessThanWellFounded
<1>2. PICK x \in S : \A y \in S : ~ (<<y, x>> \in Less)
  BY <1>1, WFMin
<1>3. ASSUME NEW y \in S, y < x PROVE FALSE
  <2>1. <<y, x>> \in Nat \X Nat
    OBVIOUS
  <2>2. <<y, x>> \in Less
    BY <1>3, <2>1
  <2>. QED
    BY <1>2, <2>2
<1>4. \A y \in S : x <= y
  BY <1>3
<1>. QED
  BY <1>4

\* Min of a nonempty set of naturals is its least member.
LEMMA MinNat ==
  ASSUME NEW S, S \subseteq Nat, S # {}
  PROVE  /\ Min(S) \in S
         /\ \A y \in S : Min(S) <= y
<1>1. \E x \in S : \A y \in S : x <= y
  BY LeastNat
<1>. QED
  BY <1>1 DEF Min

\* Max of a nonempty set of naturals below a bound is its greatest member:
\* the mirror image of the set has a least one.
LEMMA MaxNat ==
  ASSUME NEW S, NEW n \in Nat, S \subseteq 0 .. n, S # {}
  PROVE  /\ Max(S) \in S
         /\ \A y \in S : y <= Max(S)
<1>. DEFINE M == {n - s : s \in S}
<1>1. M \subseteq Nat /\ M # {}
  <2>1. M \subseteq Nat
    OBVIOUS
  <2>2. PICK s \in S : TRUE
    OBVIOUS
  <2>3. n - s \in M
    BY <2>2
  <2>. QED
    BY <2>1, <2>3
<1>2. PICK m \in M : \A y \in M : m <= y
  BY <1>1, LeastNat
<1>3. PICK x \in S : m = n - x
  BY <1>2
<1>4. \A y \in S : x >= y
  BY <1>2, <1>3
<1>. QED
  BY <1>4 DEF Max

\* A set that holds 0 and the successor of each natural it holds, holds them
\* all: a least one outside would have its predecessor inside.
LEMMA NatSetInduction ==
  ASSUME NEW S, 0 \in S, \A n \in Nat : n \in S => n + 1 \in S
  PROVE  Nat \subseteq S
<1>. DEFINE Out == Nat \ S
<1>. SUFFICES ASSUME Out # {}
              PROVE  FALSE
  OBVIOUS
<1>1. PICK x \in Out : \A y \in Out : x <= y
  BY LeastNat
<1>2. x # 0 /\ x \in Nat
  OBVIOUS
<1>3. x - 1 \in Nat /\ ~ (x <= x - 1)
  BY <1>2
<1>4. x - 1 \in S
  BY <1>1, <1>3
<1>. QED
  BY <1>2, <1>3, <1>4

\* Multiplication by a natural keeps an order, and adds one factor at a time.
LEMMA TimesMonotonic ==
  ASSUME NEW a \in Int, NEW b \in Int, NEW n \in Nat, a <= b
  PROVE  a * n <= b * n
<1>1. (b - a) * n >= 0
  OBVIOUS
<1>. QED
  BY <1>1

LEMMA TimesNext ==
  ASSUME NEW a \in Int, NEW n \in Int
  PROVE  a * (n + 1) = a * n + a
OBVIOUS

-----------------------------------------------------------------------------
(* The window *)

\* The passing of time ages the samples and changes nothing else about them.
LEMMA AgedType ==
  ASSUME NEW w \in Seq(Sample)
  PROVE  /\ Aged(w) \in Seq(Sample)
         /\ Len(Aged(w)) = Len(w)
         /\ DOMAIN Aged(w) = DOMAIN w
         /\ \A i \in 1 .. Len(w) : /\ Aged(w)[i].bps = w[i].bps
                                   /\ Aged(w)[i].age = Saturate(w[i].age, AgeCap)
<1>1. /\ w \in [1 .. Len(w) -> Sample] /\ Len(w) \in Nat
      /\ DOMAIN w = 1 .. Len(w)
  BY LenProperties
<1>2. \A i \in 1 .. Len(w) :
         /\ [w[i] EXCEPT !.age = Saturate(@, AgeCap)] \in Sample
         /\ [w[i] EXCEPT !.age = Saturate(@, AgeCap)].bps = w[i].bps
         /\ [w[i] EXCEPT !.age = Saturate(@, AgeCap)].age = Saturate(w[i].age, AgeCap)
  <2>. SUFFICES ASSUME NEW i \in 1 .. Len(w)
                PROVE  LET aged == [w[i] EXCEPT !.age = Saturate(@, AgeCap)]
                       IN  /\ aged \in Sample
                           /\ aged.bps = w[i].bps
                           /\ aged.age = Saturate(w[i].age, AgeCap)
    OBVIOUS
  <2>1. w[i] \in Sample /\ w[i].age \in 0 .. AgeCap
    BY <1>1 DEF Sample
  <2>2. Saturate(w[i].age, AgeCap) \in 0 .. AgeCap
    BY <2>1, WindowAssumption DEF Saturate
  <2>. QED BY <2>1, <2>2 DEF Sample
<1>3. Aged(w) \in [1 .. Len(w) -> Sample]
  BY <1>1, <1>2 DEF Aged
<1>4. Aged(w) \in Seq(Sample)
  BY <1>1, <1>3, SeqDef
<1>5. Len(Aged(w)) = Len(w)
  BY <1>1, <1>3, <1>4, LenProperties
<1>. QED
  BY <1>1, <1>2, <1>4, <1>5 DEF Aged

\* Pruning keeps a nonempty suffix that starts no earlier than the first
\* sample young enough.
LEMMA PrunedIsSuffix ==
  ASSUME NEW w \in Seq(Sample), w # << >>
  PROVE  \E k \in 1 .. Len(w) :
            /\ k = Len(w) \/ w[k].age <= Window
            /\ Pruned(w) = SubSeq(w, k, Len(w))
            /\ Pruned(w) \in Seq(Sample)
            /\ Len(Pruned(w)) = Len(w) - k + 1
            /\ \A i \in 1 .. Len(Pruned(w)) : Pruned(w)[i] = w[k + i - 1]
<1>. DEFINE Fresh == {i \in DOMAIN w : w[i].age <= Window} \cup {Len(w)}
            k == Min(Fresh)
<1>1. Len(w) \in Nat /\ DOMAIN w = 1 .. Len(w) /\ Len(w) >= 1
  BY LenProperties, EmptySeq
<1>2. Fresh \subseteq 1 .. Len(w) /\ Fresh \subseteq Nat /\ Fresh # {}
  BY <1>1
<1>3. k \in Fresh /\ k \in 1 .. Len(w)
  BY <1>2, MinNat
<1>6. k = Len(w) \/ w[k].age <= Window
  BY <1>3
<1>7. Pruned(w) = SubSeq(w, k, Len(w))
  BY DEF Pruned
<1>. HIDE DEF k, Fresh
<1>4. k \in Int /\ \A i \in k .. Len(w) : w[i] \in Sample
  BY <1>1, <1>3, ElementOfSeq
<1>5. /\ SubSeq(w, k, Len(w)) \in Seq(Sample)
      /\ Len(SubSeq(w, k, Len(w))) = Len(w) - k + 1
      /\ \A i \in 1 .. Len(w) - k + 1 : SubSeq(w, k, Len(w))[i] = w[k + i - 1]
  BY <1>1, <1>3, <1>4, SubSeqProperties
<1>. QED
  BY <1>3, <1>5, <1>6, <1>7

LEMMA SampleAppended ==
  ASSUME NEW w \in Seq(Sample), NEW bps \in Int
  PROVE  LET grown == Append(w, [age |-> 0, bps |-> bps])
         IN  /\ grown \in Seq(Sample) /\ grown # << >>
             /\ Len(grown) = Len(w) + 1
             /\ \A i \in 1 .. Len(w) : grown[i] = w[i]
             /\ grown[Len(w) + 1] = [age |-> 0, bps |-> bps]
<1>1. [age |-> 0, bps |-> bps] \in Sample
  BY WindowAssumption DEF Sample
<1>. QED
  BY <1>1, AppendProperties, LenProperties

\* Adding a sample gives a nonempty window of samples.
LEMMA WithSampleType ==
  ASSUME NEW w \in Seq(Sample), NEW bps \in Int
  PROVE  /\ WithSample(w, bps) \in Seq(Sample)
         /\ WithSample(w, bps) # << >>
<1>. DEFINE grown == Append(w, [age |-> 0, bps |-> bps])
<1>1. grown \in Seq(Sample) /\ grown # << >>
  BY SampleAppended
<1>2. Len(grown) \in Nat
  BY <1>1, LenProperties
<1>. HIDE DEF grown
<1>3. PICK k \in 1 .. Len(grown) : /\ Pruned(grown) \in Seq(Sample)
                                   /\ Len(Pruned(grown)) = Len(grown) - k + 1
  BY <1>1, PrunedIsSuffix
<1>4. Pruned(grown) # << >>
  BY <1>2, <1>3, EmptySeq
<1>. QED
  BY <1>3, <1>4 DEF WithSample, grown

\* Every value in the window was there or is the new one.
LEMMA WithSampleValues ==
  ASSUME NEW w \in Seq(Sample), NEW bps \in Int, NEW V, bps \in V,
         \A i \in 1 .. Len(w) : w[i].bps \in V
  PROVE  \A i \in 1 .. Len(WithSample(w, bps)) : WithSample(w, bps)[i].bps \in V
<1>. DEFINE grown == Append(w, [age |-> 0, bps |-> bps])
<1>1. grown \in Seq(Sample) /\ grown # << >> /\ Len(grown) = Len(w) + 1
  BY SampleAppended
<1>2. Len(w) \in Nat
  BY LenProperties
<1>3. \A i \in 1 .. Len(grown) : grown[i].bps \in V
  <2>1. \A i \in 1 .. Len(w) : grown[i] = w[i]
    BY SampleAppended
  <2>2. grown[Len(w) + 1].bps = bps
    BY SampleAppended
  <2>3. \A i \in 1 .. Len(w) + 1 : i = Len(w) + 1 \/ i \in 1 .. Len(w)
    BY <1>2
  <2>. HIDE DEF grown
  <2>. QED
    BY <1>1, <2>1, <2>2, <2>3
<1>. HIDE DEF grown
<1>4. PICK k \in 1 .. Len(grown) :
         /\ Len(Pruned(grown)) = Len(grown) - k + 1
         /\ \A i \in 1 .. Len(Pruned(grown)) : Pruned(grown)[i] = grown[k + i - 1]
  BY <1>1, PrunedIsSuffix
<1>5. \A i \in 1 .. Len(Pruned(grown)) : k + i - 1 \in 1 .. Len(grown)
  BY <1>1, <1>2, <1>4
<1>. QED
  BY <1>3, <1>4, <1>5 DEF WithSample, grown

-----------------------------------------------------------------------------
(* How many samples fit *)

\* Samples gap apart, the last of them taken at least slack ago.
Apart(w, gap, slack) ==
    \A i \in 1 .. Len(w) : \/ w[i].age = AgeCap
                           \/ w[i].age >= (Len(w) - i) * gap + slack

LEMMA AgedApart ==
  ASSUME NEW w \in Seq(Sample), NEW gap \in Nat, NEW slack \in Nat,
         Apart(w, gap, slack)
  PROVE  Apart(Aged(w), gap, slack + 1)
<1>1. Len(w) \in Nat /\ \A i \in 1 .. Len(w) : w[i] \in Sample
  BY LenProperties, ElementOfSeq
<1>2. ASSUME NEW i \in 1 .. Len(w)
      PROVE  \/ Aged(w)[i].age = AgeCap
             \/ Aged(w)[i].age >= (Len(w) - i) * gap + (slack + 1)
  <2>1. Aged(w)[i].age = Saturate(w[i].age, AgeCap)
    BY AgedType
  <2>2. w[i].age \in 0 .. AgeCap /\ (Len(w) - i) * gap \in Int
    <3>1. w[i].age \in 0 .. AgeCap
      BY <1>1 DEF Sample
    <3>2. Len(w) - i \in Int
      BY <1>1
    <3>3. \A a, b \in Int : a * b \in Int
      OBVIOUS
    <3>. QED BY <3>1, <3>2, <3>3
  <2>3. w[i].age = AgeCap \/ w[i].age >= (Len(w) - i) * gap + slack
    BY DEF Apart
  <2>4. \A a \in 0 .. AgeCap, q \in Int :
           a = AgeCap \/ a >= q + slack =>
              \/ Saturate(a, AgeCap) = AgeCap
              \/ Saturate(a, AgeCap) >= q + (slack + 1)
    BY WindowAssumption DEF Saturate
  <2>. QED
    BY <2>1, <2>2, <2>3, <2>4
<1>. QED
  BY <1>2, AgedType DEF Apart

LEMMA ApartLess ==
  ASSUME NEW w \in Seq(Sample), NEW gap \in Nat, NEW slack \in Nat,
         NEW less \in Nat, less <= slack, Apart(w, gap, slack)
  PROVE  Apart(w, gap, less)
<1>1. Len(w) \in Nat /\ \A i \in 1 .. Len(w) : w[i] \in Sample
  BY LenProperties, ElementOfSeq
<1>2. \A i \in 1 .. Len(w) : w[i].age \in Int /\ (Len(w) - i) * gap \in Int
  BY <1>1 DEF Sample
<1>. QED
  BY <1>2 DEF Apart

LEMMA SampleApart ==
  ASSUME NEW w \in Seq(Sample), NEW bps \in Int, NEW gap \in Nat, NEW slack \in Nat,
         Apart(w, gap, slack), slack >= gap
  PROVE  /\ Apart(WithSample(w, bps), gap, 0)
         /\ (Len(WithSample(w, bps)) - 1) * gap <= Window
<1>. DEFINE grown == Append(w, [age |-> 0, bps |-> bps])
            res   == WithSample(w, bps)
            n     == Len(w) + 1
<1>1. /\ grown \in Seq(Sample) /\ grown # << >> /\ Len(grown) = n
      /\ \A i \in 1 .. Len(w) : grown[i] = w[i]
      /\ grown[n].age = 0
  BY SampleAppended
<1>2. Len(w) \in Nat /\ \A i \in 1 .. n : grown[i] \in Sample
  BY <1>1, LenProperties, ElementOfSeq
<1>. HIDE DEF grown
<1>3. ASSUME NEW i \in 1 .. n
      PROVE  grown[i].age = AgeCap \/ grown[i].age >= (n - i) * gap
  <2>1. CASE i = n
    <3>1. (n - i) * gap = 0
      BY <1>2, <2>1
    <3>. QED
      BY <1>1, <2>1, <3>1
  <2>2. CASE i # n
    <3>1. i \in 1 .. Len(w) /\ grown[i].age = w[i].age
      BY <1>1, <1>2, <2>2
    <3>2. (n - i) * gap = (Len(w) - i) * gap + gap
      BY <1>2
    <3>3. (Len(w) - i) * gap \in Int /\ grown[i].age \in Int
      BY <1>2, WindowAssumption DEF Sample
    <3>. QED
      BY <3>1, <3>2, <3>3 DEF Apart
  <2>. QED
    BY <2>1, <2>2
<1>4. res = Pruned(grown)
  BY DEF WithSample, grown
<1>. HIDE DEF res
<1>5. PICK k \in 1 .. n : /\ k = n \/ grown[k].age <= Window
                          /\ Len(res) = n - k + 1
                          /\ \A i \in 1 .. Len(res) : res[i] = grown[k + i - 1]
  <2>1. PICK k \in 1 .. Len(grown) :
           /\ k = Len(grown) \/ grown[k].age <= Window
           /\ Len(Pruned(grown)) = Len(grown) - k + 1
           /\ \A i \in 1 .. Len(Pruned(grown)) : Pruned(grown)[i] = grown[k + i - 1]
    BY <1>1, PrunedIsSuffix
  <2>. QED
    BY <1>1, <1>4, <2>1
<1>6. ASSUME NEW i \in 1 .. Len(res)
      PROVE  res[i].age = AgeCap \/ res[i].age >= (Len(res) - i) * gap + 0
  <2>1. k + i - 1 \in 1 .. n /\ n - (k + i - 1) = Len(res) - i
    BY <1>2, <1>5
  <2>2. (Len(res) - i) * gap + 0 = (n - (k + i - 1)) * gap
    BY <1>2, <1>5, <2>1
  <2>. QED
    BY <1>3, <1>5, <2>1, <2>2
<1>7. (Len(res) - 1) * gap = (n - k) * gap
  BY <1>2, <1>5
<1>8. (n - k) * gap <= Window
  <2>1. CASE k = n
    BY <1>2, <2>1, WindowAssumption
  <2>2. CASE grown[k].age <= Window
    <3>1. (n - k) * gap \in Int /\ grown[k].age \in Int
      BY <1>2, WindowAssumption DEF Sample
    <3>2. grown[k].age = AgeCap \/ grown[k].age >= (n - k) * gap
      BY <1>2, <1>3
    <3>. QED
      BY <2>2, <3>1, <3>2, WindowAssumption
  <2>. QED
    BY <1>5, <2>1, <2>2
<1>. QED
  BY <1>6, <1>7, <1>8 DEF Apart, res

-----------------------------------------------------------------------------
(* Sums *)

\* f is the sequence of partial sums of w up to n.
PartialSums(f, w, n) == /\ f \in [0 .. n -> Int]
                        /\ f[0] = 0
                        /\ \A i \in 1 .. n : f[i] = f[i - 1] + w[i].bps

\* The recursive function Total is built on exists: partial sums can be
\* extended one sample at a time.
LEMMA PartialSumsExist ==
  ASSUME NEW w \in Seq(Sample)
  PROVE  \E f : PartialSums(f, w, Len(w))
<1>. DEFINE S == {n \in Nat : n <= Len(w) => \E f : PartialSums(f, w, n)}
<1>1. Len(w) \in Nat /\ \A i \in 1 .. Len(w) : w[i].bps \in Int
  <2>1. \A i \in 1 .. Len(w) : w[i] \in Sample
    BY ElementOfSeq
  <2>. QED
    BY <2>1, LenProperties DEF Sample
<1>2. 0 \in S
  <2>1. PartialSums([i \in 0 .. 0 |-> 0], w, 0)
    BY DEF PartialSums
  <2>. QED
    BY <2>1
<1>3. ASSUME NEW n \in Nat, n \in S
      PROVE  n + 1 \in S
  <2>. SUFFICES ASSUME n + 1 <= Len(w)
                PROVE  \E f : PartialSums(f, w, n + 1)
    OBVIOUS
  <2>1. PICK f : PartialSums(f, w, n)
    BY <1>1, <1>3
  <2>. DEFINE g == [i \in 0 .. n + 1 |-> IF i = n + 1 THEN f[n] + w[n + 1].bps ELSE f[i]]
  <2>2. f[n] + w[n + 1].bps \in Int
    BY <1>1, <2>1 DEF PartialSums
  <2>3. g \in [0 .. n + 1 -> Int] /\ g[0] = 0
    BY <2>1, <2>2 DEF PartialSums
  <2>4. ASSUME NEW i \in 1 .. n + 1
        PROVE  g[i] = g[i - 1] + w[i].bps
    <3>1. CASE i = n + 1
      BY <3>1
    <3>2. CASE i # n + 1
      <4>1. i \in 1 .. n /\ i - 1 # n + 1 /\ i - 1 \in 0 .. n + 1
        BY <3>2
      <4>. QED
        BY <2>1, <3>2, <4>1 DEF PartialSums
    <3>. QED
      BY <3>1, <3>2
  <2>. QED
    BY <2>3, <2>4 DEF PartialSums
<1>4. Nat \subseteq S
  <2>. HIDE DEF S
  <2>. QED
    BY <1>2, <1>3, NatSetInduction
<1>. QED
  BY <1>1, <1>4

\* Total is the last of the partial sums.
LEMMA TotalIsSum ==
  ASSUME NEW w \in Seq(Sample)
  PROVE  \E f : PartialSums(f, w, Len(w)) /\ Total(w) = f[Len(w)]
<1>. DEFINE Eq(f) == f = [n \in 0 .. Len(w) |->
                             IF n = 0 THEN 0 ELSE f[n - 1] + w[n].bps]
            sum == CHOOSE f : Eq(f)
            S == {n \in Nat : n <= Len(w) => sum[n] \in Int}
<1>1. Len(w) \in Nat /\ \A i \in 1 .. Len(w) : w[i].bps \in Int
  <2>1. \A i \in 1 .. Len(w) : w[i] \in Sample
    BY ElementOfSeq
  <2>. QED
    BY <2>1, LenProperties DEF Sample
<1>2. Total(w) = sum[Len(w)]
  BY DEF Total
<1>3. \E f : Eq(f)
  <2>1. PICK f : PartialSums(f, w, Len(w))
    BY PartialSumsExist
  <2>2. Eq(f)
    BY <1>1, <2>1 DEF PartialSums
  <2>. QED
    BY <2>2
<1>4. Eq(sum)
  BY <1>3
<1>. HIDE DEF sum
<1>5. 0 \in S
  BY <1>1, <1>4
<1>6. ASSUME NEW n \in Nat, n \in S
      PROVE  n + 1 \in S
  <2>. SUFFICES ASSUME n + 1 <= Len(w)
                PROVE  sum[n + 1] \in Int
    OBVIOUS
  <2>1. n + 1 \in 0 .. Len(w) /\ n + 1 # 0 /\ (n + 1) - 1 = n /\ n <= Len(w)
    BY <1>1
  <2>2. sum[n + 1] = sum[n] + w[n + 1].bps
    BY <1>4, <2>1
  <2>. QED
    BY <1>1, <1>6, <2>1, <2>2
<1>7. Nat \subseteq S
  <2>. HIDE DEF S
  <2>. QED
    BY <1>5, <1>6, NatSetInduction
<1>8. sum \in [0 .. Len(w) -> Int]
  <2>1. \A n \in 0 .. Len(w) : sum[n] \in Int
    BY <1>1, <1>7
  <2>2. DOMAIN sum = 0 .. Len(w) /\ sum = [n \in DOMAIN sum |-> sum[n]]
    BY <1>4
  <2>. QED
    BY <2>1, <2>2
<1>9. PartialSums(sum, w, Len(w))
  <2>1. sum[0] = 0
    BY <1>1, <1>4
  <2>2. ASSUME NEW i \in 1 .. Len(w)
        PROVE  sum[i] = sum[i - 1] + w[i].bps
    <3>1. i \in 0 .. Len(w) /\ i # 0
      BY <1>1
    <3>. QED
      BY <1>4, <3>1
  <2>. QED
    BY <1>8, <2>1, <2>2 DEF PartialSums
<1>. QED
  BY <1>2, <1>9

LEMMA TotalIsInt ==
  ASSUME NEW w \in Seq(Sample)
  PROVE  Total(w) \in Int
<1>1. PICK f : PartialSums(f, w, Len(w)) /\ Total(w) = f[Len(w)]
  BY TotalIsSum
<1>. QED
  BY <1>1, LenProperties DEF PartialSums

\* A sum lies between length times the least and length times the greatest
\* value.
LEMMA TotalBounds ==
  ASSUME NEW w \in Seq(Sample), NEW lo \in Int, NEW hi \in Int,
         \A i \in 1 .. Len(w) : lo <= w[i].bps /\ w[i].bps <= hi
  PROVE  /\ Total(w) \in Int
         /\ lo * Len(w) <= Total(w)
         /\ Total(w) <= hi * Len(w)
<1>1. PICK f : PartialSums(f, w, Len(w)) /\ Total(w) = f[Len(w)]
  BY TotalIsSum
<1>. DEFINE S == {n \in Nat : n <= Len(w) => lo * n <= f[n] /\ f[n] <= hi * n}
<1>2. Len(w) \in Nat /\ \A i \in 1 .. Len(w) : w[i].bps \in Int
  <2>1. \A i \in 1 .. Len(w) : w[i] \in Sample
    BY ElementOfSeq
  <2>. QED
    BY <2>1, LenProperties DEF Sample
<1>3. 0 \in S
  BY <1>1 DEF PartialSums
<1>4. ASSUME NEW n \in Nat, n \in S
      PROVE  n + 1 \in S
  <2>. SUFFICES ASSUME n + 1 <= Len(w)
                PROVE  lo * (n + 1) <= f[n + 1] /\ f[n + 1] <= hi * (n + 1)
    OBVIOUS
  <2>1. n + 1 \in 1 .. Len(w) /\ n \in 0 .. Len(w) /\ n <= Len(w)
    BY <1>2
  <2>2. f[n + 1] = f[n] + w[n + 1].bps /\ f[n] \in Int
    BY <1>1, <2>1 DEF PartialSums
  <2>3. lo * (n + 1) = lo * n + lo /\ hi * (n + 1) = hi * n + hi
    <3>1. n \in Int
      OBVIOUS
    <3>. QED
      BY <3>1, TimesNext, Zenon
  <2>4. lo * n <= f[n] /\ f[n] <= hi * n /\ lo * n \in Int /\ hi * n \in Int
    BY <1>4, <2>1
  <2>. QED
    BY <1>2, <2>1, <2>2, <2>3, <2>4
<1>5. Nat \subseteq S
  <2>. HIDE DEF S
  <2>. QED
    BY <1>3, <1>4, NatSetInduction
<1>6. Len(w) \in S
  BY <1>2, <1>5
<1>. QED
  BY <1>1, <1>2, <1>6 DEF PartialSums

\* A sum depends on the values only.
LEMMA SameTotal ==
  ASSUME NEW v \in Seq(Sample), NEW w \in Seq(Sample), Len(v) = Len(w),
         \A i \in 1 .. Len(w) : v[i].bps = w[i].bps
  PROVE  Total(v) = Total(w)
<1>1. PICK f : PartialSums(f, v, Len(v)) /\ Total(v) = f[Len(v)]
  BY TotalIsSum
<1>2. PICK g : PartialSums(g, w, Len(w)) /\ Total(w) = g[Len(w)]
  BY TotalIsSum
<1>. DEFINE S == {n \in Nat : n <= Len(w) => f[n] = g[n]}
<1>3. Len(w) \in Nat
  BY LenProperties
<1>4. 0 \in S
  BY <1>1, <1>2 DEF PartialSums
<1>5. ASSUME NEW n \in Nat, n \in S
      PROVE  n + 1 \in S
  <2>. SUFFICES ASSUME n + 1 <= Len(w)
                PROVE  f[n + 1] = g[n + 1]
    OBVIOUS
  <2>1. n + 1 \in 1 .. Len(w) /\ n <= Len(w) /\ (n + 1) - 1 = n
    BY <1>3
  <2>. QED
    BY <1>1, <1>2, <1>5, <2>1 DEF PartialSums
<1>6. Nat \subseteq S
  <2>. HIDE DEF S
  <2>. QED
    BY <1>4, <1>5, NatSetInduction
<1>. QED
  BY <1>1, <1>2, <1>3, <1>6
=============================================================================
