-------------------------------- MODULE Pacer --------------------------------
(***************************************************************************)
(* The pacing that ends every iteration of the three player loops          *)
(* (content_player.cpp, yuv_content_player.cpp, audio_player.cpp): send,   *)
(* advance the schedule by one interval, sleep until the schedule, or give *)
(* up the time lost when the schedule is already past.                     *)
(*                                                                         *)
(* The code's time points appear as differences from the present, each     *)
(* saturated beyond the last value that any comparison distinguishes.      *)
(***************************************************************************)
EXTENDS Integers

CONSTANTS
    Interval,    \* frame_interval of the video players, interval of the audio one
    MaxLag       \* lag beyond which next_send is only known to be that far past

ASSUME PacingAssumption == /\ Interval \in Nat \ {0}
                           /\ MaxLag \in Nat
                           /\ MaxLag >= Interval

VARIABLES
    pc,          \* where the loop is: about to send, sending, or sleeping
    lead,        \* next_send - now
    sinceLast,   \* time since the last send, saturated at Interval
    sinceBefore  \* time since the send before the last, saturated at Interval

vars == <<pc, lead, sinceLast, sinceBefore>>

TypeOK == /\ pc \in {"ready", "sending", "sleeping"}
          /\ lead \in -MaxLag .. Interval
          /\ sinceLast \in 0 .. Interval
          /\ sinceBefore \in 0 .. Interval

Saturate(t) == IF t < Interval THEN t + 1 ELSE t

\* next_send starts at the present; there are no sends to keep away from.
Init == /\ pc = "ready"
        /\ lead = 0
        /\ sinceLast = Interval
        /\ sinceBefore = Interval

\* Time passes wherever the loop is: the send, the work around it, a sleep
\* that overruns, or the thread being preempted.
Elapse == /\ lead' = IF lead > -MaxLag THEN lead - 1 ELSE lead
          /\ sinceLast' = Saturate(sinceLast)
          /\ sinceBefore' = Saturate(sinceBefore)
          /\ UNCHANGED pc

Send == /\ pc = "ready"
        /\ pc' = "sending"
        /\ sinceBefore' = sinceLast
        /\ sinceLast' = 0
        /\ UNCHANGED lead

\* next_send += interval is still ahead: sleep until it.
OnSchedule == /\ pc = "sending"
              /\ lead + Interval > 0
              /\ lead' = lead + Interval
              /\ pc' = "sleeping"
              /\ UNCHANGED <<sinceLast, sinceBefore>>

\* Mutant: the schedule is kept.
CatchUp == /\ pc = "sending"
           /\ lead + Interval <= 0
           /\ lead' = lead + Interval
           /\ pc' = "ready"
           /\ UNCHANGED <<sinceLast, sinceBefore>>

\* Mutant: the reset takes the interval back, so the next frame is late too.
ResetBehind == /\ pc = "sending"
               /\ lead + Interval <= 0
               /\ lead' = -Interval
               /\ pc' = "ready"
               /\ UNCHANGED <<sinceLast, sinceBefore>>

\* It is past: next_send = now, and go on at once.
FellBehind == /\ pc = "sending"
              /\ lead + Interval <= 0
              /\ lead' = 0
              /\ pc' = "ready"
              /\ UNCHANGED <<sinceLast, sinceBefore>>

\* Mutant: a sleep rounded down by one unit.
WakeShort == pc = "sleeping" /\ lead <= 1 /\ pc' = "ready"
             /\ UNCHANGED <<lead, sinceLast, sinceBefore>>

Wake == /\ pc = "sleeping"
        /\ lead <= 0
        /\ pc' = "ready"
        /\ UNCHANGED <<lead, sinceLast, sinceBefore>>

Next == Elapse \/ Send \/ OnSchedule \/ FellBehind \/ Wake

Spec == Init /\ [][Next]_vars

\* Time passes, the send returns, and a thread that may run does.
Fairness == WF_vars(Elapse) /\ WF_vars(Send) /\ WF_vars(Wake)
            /\ WF_vars(OnSchedule) /\ WF_vars(FellBehind)

FairSpec == Spec /\ Fairness

-----------------------------------------------------------------------------
\* "Reset schedule to avoid a burst catch-up": however long the loop stalled,
\* no three consecutive sends fall within one interval.  The third send
\* finds the first at least an interval ago.
NoBurst == [][Send => sinceBefore >= Interval]_vars

\* The invariant behind it.  The schedule of the coming send is an interval
\* after the send before the last, and that of the present one after the
\* last; both become vacuous once an interval has passed anyway.
Spaced ==
    IF pc = "sending"
    THEN /\ sinceBefore < Interval => lead + sinceBefore >= 0
         /\ lead <= 0
    ELSE /\ sinceLast < Interval => lead + sinceLast >= 0
         /\ sinceBefore < Interval => lead + sinceBefore >= Interval
         /\ pc = "ready" => lead <= 0

\* Time passes only in sleep, until the schedule, and in sends that return
\* before an interval is over.
InTime == \/ pc = "sleeping" /\ lead > 0
          \/ pc = "sending" /\ sinceLast < Interval - 1

\* A stall, or any number of them, costs no more than the time it took: once
\* the sends return in time again, from whatever lag, the loop gives up time
\* no more and sleeps out every interval.
BackOnSchedule == <>[][Elapse => InTime]_vars => <>[][~ FellBehind]_vars
=============================================================================
