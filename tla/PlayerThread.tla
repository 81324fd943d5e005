----------------------------- MODULE PlayerThread -----------------------------
(***************************************************************************)
(* What the main thread relies on of every worker it owns (ContentPlayer,  *)
(* YuvContentPlayer, AudioPlayer, AbrController): a std::thread and the    *)
(* running_ flag it looks at.  The thread may end by itself; it does end   *)
(* once the flag is cleared; and join() then returns.                      *)
(***************************************************************************)

VARIABLES
    running,  \* running_
    thread    \* the std::thread: not created, in its loop, returned, joined

vars == <<running, thread>>

Init == running = FALSE /\ thread = "none"

Start == /\ thread = "none"
         /\ running' = TRUE
         /\ thread' = "alive"

\* stop() clears the flag, whether or not there is a thread ...
ClearRunning == running' = FALSE /\ UNCHANGED thread

Exit == thread = "alive" /\ thread' = "exited" /\ UNCHANGED running

\* ... and joins the thread if there is one.
Join == /\ ~running
        /\ thread = "exited"
        /\ thread' = "joined"
        /\ UNCHANGED running

Next == Start \/ ClearRunning \/ Exit \/ Join

Spec == Init /\ [][Next]_vars

\* A thread told to stop stops.
Obeys == WF_vars(~running /\ Exit)

FairSpec == Spec /\ Obeys
=============================================================================
