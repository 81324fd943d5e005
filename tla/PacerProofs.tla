----------------------------- MODULE PacerProofs -----------------------------
(***************************************************************************)
(* The pacing theorem, for every interval and every pattern of stalls.     *)
(* TypeOK is not inductive by itself: that advancing the schedule leaves   *)
(* it at most an interval ahead needs to know a send is never early, which *)
(* is part of Spaced.                                                      *)
(***************************************************************************)
EXTENDS Pacer, TLAPS

Invariant == TypeOK /\ Spaced

LEMMA InitInvariant == Init => Invariant
BY PacingAssumption DEF Init, Invariant, TypeOK, Spaced

LEMMA StepInvariant == Invariant /\ [Next]_vars => Invariant'
<1> SUFFICES ASSUME Invariant, [Next]_vars
             PROVE  Invariant'
  OBVIOUS
<1>. USE PacingAssumption DEF Invariant, TypeOK, Spaced
<1>1. CASE Elapse
  BY <1>1 DEF Elapse, Saturate
<1>2. CASE Send
  BY <1>2 DEF Send
<1>3. CASE OnSchedule
  BY <1>3 DEF OnSchedule
<1>4. CASE FellBehind
  BY <1>4 DEF FellBehind
<1>5. CASE Wake
  BY <1>5 DEF Wake
<1>6. CASE UNCHANGED vars
  BY <1>6 DEF vars
<1>. QED
  BY <1>1, <1>2, <1>3, <1>4, <1>5, <1>6 DEF Next

LEMMA InvariantHolds == Spec => []Invariant
BY InitInvariant, StepInvariant, PTL DEF Spec

\* The loop is always in one of its places with the schedule in range: a send
\* is never made before its time.
THEOREM TypeCorrect == Spec => []TypeOK
BY InvariantHolds, PTL DEF Invariant

\* The schedule keeps its distance from the sends already made.
THEOREM ScheduleSpaced == Spec => []Spaced
BY InvariantHolds, PTL DEF Invariant

\* No three consecutive sends of a player fall within one frame interval,
\* however the thread was delayed.
THEOREM SendsDoNotBurst == Spec => NoBurst
<1>1. Invariant /\ [Next]_vars => [Send => sinceBefore >= Interval]_vars
  <2> SUFFICES ASSUME Invariant, Send
               PROVE  sinceBefore >= Interval
    OBVIOUS
  <2>1. /\ pc = "ready" /\ lead \in Int /\ sinceBefore \in Int
        /\ lead <= 0
        /\ sinceBefore < Interval => lead + sinceBefore >= Interval
    BY PacingAssumption DEF Invariant, TypeOK, Spaced, Send
  <2>. QED
    BY <2>1, PacingAssumption
<1>. QED
  BY <1>1, InvariantHolds, PTL DEF Spec, NoBurst
=============================================================================
