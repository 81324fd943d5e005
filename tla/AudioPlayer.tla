------------------------------ MODULE AudioPlayer ------------------------------
(***************************************************************************)
(* The audio player (src/audio_player.cpp): one thread reads the PCM file  *)
(* in pieces of 10 ms and hands them to the SDK.  Pacing is in Pacer.      *)
(***************************************************************************)
EXTENDS Integers

CONSTANT Pieces   \* whole 10 ms pieces in the file

VARIABLES
    loop,     \* config.loop_content; never changes
    running,  \* running_
    pc,       \* where thread_ is
    file,     \* the FILE*: not open yet, open, or closed
    position  \* pieces read since the beginning of the file

vars == <<loop, running, pc, file, position>>

Alive == {"open", "check", "read", "send", "close"}

TypeOK == /\ loop \in BOOLEAN
          /\ running \in BOOLEAN
          /\ pc \in Alive \cup {"none", "exited", "joined"}
          /\ file \in {"none", "open", "closed"}
          /\ position \in 0 .. Pieces

Init == /\ loop \in BOOLEAN
        /\ running = FALSE
        /\ pc = "none"
        /\ file = "none"
        /\ position = 0

Start == /\ pc = "none"
         /\ running' = TRUE
         /\ pc' = "open"
         /\ UNCHANGED <<loop, file, position>>

ClearRunning == running' = FALSE /\ UNCHANGED <<loop, pc, file, position>>

Join == /\ pc = "exited"
        /\ pc' = "joined"
        /\ UNCHANGED <<loop, running, file, position>>

\* Without an audio file the thread returns and the rest goes on.
Open == /\ pc = "open"
        /\ \/ file' = "open" /\ pc' = "check"
           \/ file' = "none" /\ pc' = "exited"
        /\ UNCHANGED <<loop, running, position>>

\* Mutant: stop() is not looked at.
CheckNothing == /\ pc = "check"
                /\ pc' = "read"
                /\ UNCHANGED <<loop, running, file, position>>

Check == /\ pc = "check"
         /\ pc' = IF running THEN "read" ELSE "close"
         /\ UNCHANGED <<loop, running, file, position>>

\* Mutant: the end of the file is not noticed.
ReadPast == /\ pc = "read"
            /\ position' = position + 1
            /\ pc' = "send"
            /\ UNCHANGED <<loop, running, file>>

ReadPiece == /\ pc = "read"
             /\ position < Pieces
             /\ position' = position + 1
             /\ pc' = "send"
             /\ UNCHANGED <<loop, running, file>>

\* Mutant: the rewind is forgotten.
ReadEndNoSeek == /\ pc = "read"
                 /\ position = Pieces
                 /\ pc' = IF loop THEN "check" ELSE "close"
                 /\ UNCHANGED <<loop, running, file, position>>

\* End of file: rewind and go on without a pause, or leave the loop.
ReadEnd == /\ pc = "read"
           /\ position = Pieces
           /\ IF loop THEN position' = 0 /\ pc' = "check"
                      ELSE pc' = "close" /\ UNCHANGED position
           /\ UNCHANGED <<loop, running, file>>

ReadError == /\ pc = "read"
             /\ pc' = "close"
             /\ UNCHANGED <<loop, running, file, position>>

\* A failed send is only logged; the pacing sleep ends the iteration.
Send == /\ pc = "send"
        /\ pc' = "check"
        /\ UNCHANGED <<loop, running, file, position>>

Close == /\ pc = "close"
         /\ file' = "closed"
         /\ pc' = "exited"
         /\ UNCHANGED <<loop, running, position>>

AudioLoop == Open \/ Check \/ ReadPiece \/ ReadEnd \/ ReadError \/ Send \/ Close
=============================================================================
