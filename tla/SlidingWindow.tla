---------------------------- MODULE SlidingWindow ----------------------------
(***************************************************************************)
(* The windows of time-stamped samples that both selectors of              *)
(* AbrController keep (src/abr_controller.cpp: rec_window_ and             *)
(* Receiver::window).                                                      *)
(*                                                                         *)
(* Time.  The code keeps absolute millisecond stamps and only ever looks   *)
(* at differences with the present.  The model keeps those differences,    *)
(* each saturated just above the largest value it is compared with, so the *)
(* state space is finite and yet no run is cut off.  Every comparison has  *)
(* the outcome it has in the code, whatever the lateness of the scheduler. *)
(***************************************************************************)
EXTENDS Integers, Sequences, FiniteSetsExt

CONSTANTS
    Window,  \* abr.bwe_window_s
    AgeCap   \* saturation of the ages of samples

ASSUME WindowAssumption == /\ Window \in Nat
                           /\ AgeCap \in Nat
                           /\ AgeCap > Window

\* A sample: the time since it was taken, and its value in bit/s.
Sample == [age : 0 .. AgeCap, bps : Int]

Saturate(t, cap) == IF t < cap THEN t + 1 ELSE t

\* The window after one more unit of time.
Aged(w) == [i \in DOMAIN w |-> [w[i] EXCEPT !.age = Saturate(@, AgeCap)]]

\* Mutant: nothing leaves.
PrunedNever(w) == w

\* Samples older than Window leave from the front; the last one always stays.
Pruned(w) ==
    SubSeq(w, Min({i \in DOMAIN w : w[i].age <= Window} \cup {Len(w)}), Len(w))

\* A new sample is appended, then the window is pruned.
WithSample(w, bps) == Pruned(Append(w, [age |-> 0, bps |-> bps]))

\* The sum of a window's values.
Total(w) == LET sum[n \in 0 .. Len(w)] ==
                    IF n = 0 THEN 0 ELSE sum[n - 1] + w[n].bps
            IN  sum[Len(w)]
=============================================================================
