------------------------------- MODULE YuvPlayer -------------------------------
(***************************************************************************)
(* The YUV-mode player (src/yuv_content_player.cpp): one thread reads raw  *)
(* frames from an ffmpeg it started with popen, restarts it when it ends,  *)
(* and hands the frames to the SDK.  Pacing is in Pacer.                   *)
(***************************************************************************)

VARIABLES
    running,  \* running_
    pc,       \* where video_thread_ is
    decoder   \* dec: null, an open stream, or a pointer to a closed one

vars == <<running, pc, decoder>>

Alive == {"open", "check", "read", "ended", "reopen", "send", "close"}

TypeOK == /\ running \in BOOLEAN
          /\ pc \in Alive \cup {"none", "exited", "joined", "fault"}
          /\ decoder \in {"null", "open", "closed"}

Init == /\ running = FALSE
        /\ pc = "none"
        /\ decoder = "null"

Start == /\ pc = "none"
         /\ running' = TRUE
         /\ pc' = "open"
         /\ UNCHANGED decoder

ClearRunning == running' = FALSE /\ UNCHANGED <<pc, decoder>>

Join == /\ pc = "exited"
        /\ pc' = "joined"
        /\ UNCHANGED <<running, decoder>>

\* popen succeeds, whatever becomes of ffmpeg, or it does not.
Open == /\ pc = "open"
        /\ \/ decoder' = "open" /\ pc' = "check"
           \/ decoder' = "null" /\ pc' = "exited"
        /\ UNCHANGED running

\* Mutant: stop() is not looked at.
CheckNothing == /\ pc = "check"
                /\ pc' = "read"
                /\ UNCHANGED <<running, decoder>>

Check == /\ pc = "check"
         /\ pc' = IF running THEN "read" ELSE "close"
         /\ UNCHANGED <<running, decoder>>

ReadFrame == /\ pc = "read"
             /\ pc' = "send"
             /\ UNCHANGED <<running, decoder>>

\* The decoder ended: it came to the end of the clip, failed, or was killed.
ReadShort == /\ pc = "read"
             /\ decoder' = "closed"
             /\ pc' = "ended"
             /\ UNCHANGED running

\* The break leaves dec as it is.
Ended == /\ pc = "ended"
         /\ pc' = IF running THEN "reopen" ELSE "close"
         /\ UNCHANGED <<running, decoder>>

\* Mutant: a popen that failed goes unnoticed.
ReopenUnchecked == /\ pc = "reopen"
                   /\ decoder' \in {"open", "null"}
                   /\ pc' = "check"
                   /\ UNCHANGED running

Reopen == /\ pc = "reopen"
          /\ \/ decoder' = "open" /\ pc' = "check"
             \/ decoder' = "null" /\ pc' = "close"
          /\ UNCHANGED running

\* A failed send is only counted; the pacing sleep ends the iteration.
Send == /\ pc = "send"
        /\ pc' = "check"
        /\ UNCHANGED <<running, decoder>>

\* Mutant: the decoder is left running.
CloseSkip == /\ pc = "close"
             /\ pc' = "exited"
             /\ UNCHANGED <<running, decoder>>

\* if (dec) pclose(dec): undefined for a closed stream, which may go
\* unnoticed or bring the process down.
Close == /\ pc = "close"
         /\ pc' \in {"exited"} \cup (IF decoder = "closed" THEN {"fault"} ELSE {})
         /\ decoder' = IF decoder = "open" THEN "closed" ELSE decoder
         /\ UNCHANGED running

VideoLoop == \/ Open \/ Check \/ ReadFrame \/ ReadShort
             \/ Ended \/ Reopen \/ Send \/ Close
=============================================================================
