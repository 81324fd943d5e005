---------------------------- MODULE PublisherProofs ----------------------------
(***************************************************************************)
(* For every audio file and both modes: what the workers use outlives      *)
(* them, and a clean end leaves nothing behind.                            *)
(***************************************************************************)
EXTENDS Publisher, TLAPS

\* The statements of main() by what is certain there.
Setup   == {"setup", "connect", "media", "failed"}
NoAbr   == Setup \cup {"wait", "initialize", "start", "startAbr"}
NoAudio == NoAbr \cup {"startAudio"}
NoVideo == NoAudio \cup {"startVideo"}
AllDown   == {"unpublish", "unregister", "disconnect", "done"}
AudioDown == {"stopAbr", "joinAbr"} \cup AllDown
VideoDown == {"stopAudio", "joinAudio"} \cup AudioDown

Gone == {"none", "joined"}

\* Which workers there can be, by where main() is.
Phases ==
    /\ main \in NoAbr => abrThread = "none"
    /\ main \in NoAudio => audThread = "none"
    /\ main \in NoVideo => encThread = "none" /\ yuvThread = "none"
    /\ main \in VideoDown => encThread \in Gone /\ yuvThread \in Gone
    /\ main \in AudioDown => audThread \in Gone
    /\ main \in AllDown => abrThread \in Gone
    /\ encThread = "none" \/ yuvThread = "none"
    /\ main \notin Setup \cup (AllDown \ {"unpublish"}) \cup {"crashed"} => published
    /\ main = "crashed" => WorkersWithinPublication
    /\ main \in {"disconnect", "done"} => ~registered

\* The players' handles, by where the players are.
Handles ==
    /\ yuvThread \in {"check", "read", "send"} => decoder = "open"
    /\ yuvThread \in {"none", "open", "ended", "reopen", "exited", "joined", "fault"}
           => decoder # "open"
    /\ audThread \in {"none", "open", "exited", "joined"} => file # "open"

Inv == TypeOK /\ Phases /\ Handles

USE DEF ThreadState, Ended, Setup, NoAbr, NoAudio, NoVideo, AllDown, AudioDown,
        VideoDown, Gone, Yuv!Alive, Aud!Alive

-----------------------------------------------------------------------------
\* The invariant implies what is claimed.
LEMMA Implied == Inv => WorkersWithinPublication /\ CleanedUp /\ DecoderLive
PROOF
<1>. SUFFICES ASSUME Inv PROVE WorkersWithinPublication /\ CleanedUp /\ DecoderLive
  OBVIOUS
<1>. USE DEF Inv
<1>1. WorkersWithinPublication
  BY DEF WorkersWithinPublication, Alive, Phases, TypeOK
<1>2. CleanedUp
  BY DEF CleanedUp, Phases, Handles
<1>3. DecoderLive
  BY DEF DecoderLive, Handles
<1>. QED BY <1>1, <1>2, <1>3

LEMMA Initially == Init => Inv
PROOF
<1>. SUFFICES ASSUME Init PROVE Inv
  OBVIOUS
<1>. USE DEF Init, Abr!Init, Enc!Init, Yuv!Init, Aud!Init
<1>1. Yuv!TypeOK
  BY DEF Yuv!TypeOK
<1>2. Aud!TypeOK
  <2>1. position \in 0 .. Pieces
    BY PiecesAssumption
  <2>2. loop \in BOOLEAN
    OBVIOUS
  <2>. QED BY <2>1, <2>2 DEF Aud!TypeOK
<1>3. TypeOK
  BY <1>1, <1>2 DEF TypeOK
<1>4. Phases
  BY DEF Phases
<1>5. Handles
  BY DEF Handles
<1>. QED BY <1>3, <1>4, <1>5 DEF Inv

-----------------------------------------------------------------------------
\* The steps of main() up to the workers.
LEMMA SetupKeeps ==
    ASSUME Inv, SetUp \/ Connect \/ Media \/ Wait \/ Initialize \/ StartOrSkip
    PROVE  Inv'
PROOF
<1>. USE DEF Inv
<1>1. UNCHANGED <<config, workers>>
  BY DEF SetUp, Connect, Media, Wait, Initialize, StartOrSkip, Step
<1>2. UNCHANGED <<mode, loop, abrRunning, abrThread, encRunning, encThread, yuvRunning,
                  yuvThread, decoder, audRunning, audThread, file, position>>
  BY <1>1 DEF config, workers, abrVars, encVars, yuvVars, audVars
<1>3. Yuv!TypeOK' /\ Aud!TypeOK' /\ Handles'
  BY <1>2 DEF TypeOK, Yuv!TypeOK, Aud!TypeOK, Handles
<1>4. CASE SetUp
  BY <1>2, <1>3, <1>4 DEF SetUp, Step, TypeOK, Phases, sdkVars
<1>5. CASE Connect
  BY <1>2, <1>3, <1>5 DEF Connect, Step, TypeOK, Phases, sdkVars
<1>6. CASE Media
  BY <1>2, <1>3, <1>6 DEF Media, Step, TypeOK, Phases, sdkVars, WorkersWithinPublication,
                          Alive
<1>7. CASE Wait
  BY <1>2, <1>3, <1>7 DEF Wait, Step, TypeOK, Phases, sdkVars
<1>8. CASE Initialize
  BY <1>2, <1>3, <1>8 DEF Initialize, Step, TypeOK, Phases, sdkVars
<1>9. CASE StartOrSkip
  BY <1>2, <1>3, <1>9 DEF StartOrSkip, Step, TypeOK, Phases, sdkVars
<1>. QED BY <1>4, <1>5, <1>6, <1>7, <1>8, <1>9

\* Starting the workers.
LEMMA StartKeeps ==
    ASSUME Inv, StartAbr \/ StartAudio \/ StartVideo
    PROVE  Inv'
PROOF
<1>. USE DEF Inv, sdkVars, abrVars, encVars, yuvVars, audVars, config
<1>1. CASE StartAbr
  <2>1. Yuv!TypeOK' /\ Aud!TypeOK' /\ Handles'
    BY <1>1 DEF StartAbr, Step, TypeOK, Yuv!TypeOK, Aud!TypeOK, Handles
  <2>. QED BY <1>1, <2>1 DEF StartAbr, Step, Abr!Start, TypeOK, Phases
<1>2. CASE StartAudio
  <2>0. Yuv!TypeOK'
    BY <1>2 DEF StartAudio, Step, TypeOK, Yuv!TypeOK
  <2>1. Aud!TypeOK' /\ Handles'
    BY <1>2 DEF StartAudio, Step, Aud!Start, TypeOK, Aud!TypeOK, Handles
  <2>. QED BY <1>2, <2>0, <2>1 DEF StartAudio, Step, Aud!Start, TypeOK, Phases
<1>3. CASE StartVideo
  <2>1. Yuv!TypeOK' /\ Aud!TypeOK' /\ Handles'
    <3>1. /\ UNCHANGED <<loop, audRunning, audThread, file, position, decoder>>
          /\ \/ UNCHANGED <<yuvRunning, yuvThread>>
             \/ yuvRunning' = TRUE /\ yuvThread = "none" /\ yuvThread' = "open"
      BY <1>3 DEF StartVideo, Step, Yuv!Start
    <3>2. Yuv!TypeOK'
      BY <3>1 DEF TypeOK, Yuv!TypeOK
    <3>3. Aud!TypeOK'
      BY <3>1 DEF TypeOK, Aud!TypeOK
    <3>4. Handles'
      BY <3>1 DEF Handles
    <3>. QED BY <3>2, <3>3, <3>4
  <2>. QED BY <1>3, <2>1 DEF StartVideo, Step, Enc!Start, Yuv!Start, TypeOK, Phases
<1>. QED BY <1>1, <1>2, <1>3

\* Clearing the running_ flags, the first of them after g_stop was seen.
LEMMA StopKeeps ==
    ASSUME Inv, Poll \/ StopVideo \/ StopAudio \/ StopAbr
    PROVE  Inv'
PROOF
<1>. USE DEF Inv, sdkVars, abrVars, encVars, yuvVars, audVars, workers, config
<1>1. CASE Poll
  <2>1. Yuv!TypeOK' /\ Aud!TypeOK' /\ Handles'
    <3>1. UNCHANGED <<loop, yuvRunning, yuvThread, decoder, audRunning, audThread,
                      file, position>>
      BY <1>1 DEF Poll, Step
    <3>. QED BY <3>1 DEF TypeOK, Yuv!TypeOK, Aud!TypeOK, Handles
  <2>. QED BY <1>1, <2>1 DEF Poll, Step, TypeOK, Phases
<1>2. CASE StopVideo
  <2>1. Yuv!TypeOK' /\ Aud!TypeOK' /\ Handles'
    <3>1. /\ UNCHANGED <<loop, audRunning, audThread, file, position, decoder, yuvThread>>
          /\ yuvRunning' \in {yuvRunning, FALSE}
      BY <1>2 DEF StopVideo, Step, Yuv!ClearRunning
    <3>2. Yuv!TypeOK'
      BY <3>1 DEF TypeOK, Yuv!TypeOK
    <3>3. Aud!TypeOK'
      BY <3>1 DEF TypeOK, Aud!TypeOK
    <3>4. Handles'
      BY <3>1 DEF Handles
    <3>. QED BY <3>2, <3>3, <3>4
  <2>. QED BY <1>2, <2>1 DEF StopVideo, Step, Enc!ClearRunning, Yuv!ClearRunning,
                             TypeOK, Phases
<1>3. CASE StopAudio
  <2>1. Yuv!TypeOK' /\ Aud!TypeOK' /\ Handles'
    <3>1. /\ UNCHANGED <<loop, yuvRunning, yuvThread, decoder, file, position, audThread>>
          /\ audRunning' \in {audRunning, FALSE}
      BY <1>3 DEF StopAudio, Step, Aud!ClearRunning
    <3>2. Yuv!TypeOK'
      BY <3>1 DEF TypeOK, Yuv!TypeOK
    <3>3. Aud!TypeOK'
      BY <3>1 DEF TypeOK, Aud!TypeOK
    <3>4. Handles'
      BY <3>1 DEF Handles
    <3>. QED BY <3>2, <3>3, <3>4
  <2>. QED BY <1>3, <2>1 DEF StopAudio, Step, Aud!ClearRunning, TypeOK, Phases
<1>4. CASE StopAbr
  <2>1. Yuv!TypeOK' /\ Aud!TypeOK' /\ Handles'
    BY <1>4 DEF StopAbr, Step, TypeOK, Yuv!TypeOK, Aud!TypeOK, Handles
  <2>. QED BY <1>4, <2>1 DEF StopAbr, Step, Abr!ClearRunning, TypeOK, Phases
<1>. QED BY <1>1, <1>2, <1>3, <1>4

\* Joining them.
LEMMA JoinKeeps ==
    ASSUME Inv, JoinVideo \/ JoinAudio \/ JoinAbr
    PROVE  Inv'
PROOF
<1>. USE DEF Inv, sdkVars, abrVars, encVars, yuvVars, audVars, config
<1>1. CASE JoinVideo
  <2>1. Yuv!TypeOK' /\ Aud!TypeOK' /\ Handles'
    BY <1>1 DEF JoinVideo, Step, Enc!Join, Yuv!Join, TypeOK, Yuv!TypeOK, Aud!TypeOK,
                Handles
  <2>. QED BY <1>1, <2>1 DEF JoinVideo, Step, Enc!Join, Yuv!Join, TypeOK, Phases
<1>2. CASE JoinAudio
  <2>1. Yuv!TypeOK' /\ Aud!TypeOK' /\ Handles'
    BY <1>2 DEF JoinAudio, Step, Aud!Join, TypeOK, Yuv!TypeOK, Aud!TypeOK, Handles
  <2>. QED BY <1>2, <2>1 DEF JoinAudio, Step, Aud!Join, TypeOK, Phases
<1>3. CASE JoinAbr
  <2>1. Yuv!TypeOK' /\ Aud!TypeOK' /\ Handles'
    BY <1>3 DEF JoinAbr, Step, TypeOK, Yuv!TypeOK, Aud!TypeOK, Handles
  <2>. QED BY <1>3, <2>1 DEF JoinAbr, Step, Abr!Join, TypeOK, Phases
<1>. QED BY <1>1, <1>2, <1>3

\* Taking the publication down, and what else changes no worker.
LEMMA TearDownKeeps ==
    ASSUME Inv, Unpublish \/ Unregister \/ Disconnect \/ Crash \/ Signal \/ OnConnected
    PROVE  Inv'
PROOF
<1>. USE DEF Inv
<1>1. UNCHANGED <<config, workers>>
  BY DEF Unpublish, Unregister, Disconnect, Crash, Signal, OnConnected, Step, Up
<1>2. UNCHANGED <<mode, loop, abrRunning, abrThread, encRunning, encThread, yuvRunning,
                  yuvThread, decoder, audRunning, audThread, file, position>>
  BY <1>1 DEF config, workers, abrVars, encVars, yuvVars, audVars
<1>3. Yuv!TypeOK' /\ Aud!TypeOK' /\ Handles'
  BY <1>2 DEF TypeOK, Yuv!TypeOK, Aud!TypeOK, Handles
<1>4. CASE Unpublish
  BY <1>2, <1>3, <1>4 DEF Unpublish, Step, TypeOK, Phases
<1>5. CASE Unregister
  BY <1>2, <1>3, <1>5 DEF Unregister, Step, TypeOK, Phases
<1>6. CASE Disconnect
  BY <1>2, <1>3, <1>6 DEF Disconnect, Step, TypeOK, Phases, sdkVars
<1>7. CASE Crash
  <2>1. WorkersWithinPublication'
    BY <1>2, <1>7, Implied DEF Crash, WorkersWithinPublication, Alive, sdkVars
  <2>. QED BY <1>2, <1>3, <1>7, <2>1 DEF Crash, TypeOK, Phases, sdkVars
<1>8. CASE Signal
  BY <1>2, <1>3, <1>8 DEF Signal, Up, TypeOK, Phases, sdkVars
<1>9. CASE OnConnected
  BY <1>2, <1>3, <1>9 DEF OnConnected, Up, TypeOK, Phases
<1>. QED BY <1>4, <1>5, <1>6, <1>7, <1>8, <1>9

\* The workers' own steps.
LEMMA WorkersKeep ==
    ASSUME Inv, EncExit \/ AbrExit \/ YuvStep \/ AudStep
    PROVE  Inv'
PROOF
<1>. USE DEF Inv, sdkVars, abrVars, encVars, yuvVars, audVars, config
<1>1. CASE EncExit
  <2>1. Yuv!TypeOK' /\ Aud!TypeOK' /\ Handles'
    BY <1>1 DEF EncExit, Up, TypeOK, Yuv!TypeOK, Aud!TypeOK, Handles
  <2>. QED BY <1>1, <2>1 DEF EncExit, Up, Enc!Exit, TypeOK, Phases
<1>2. CASE AbrExit
  <2>1. Yuv!TypeOK' /\ Aud!TypeOK' /\ Handles'
    BY <1>2 DEF AbrExit, Up, TypeOK, Yuv!TypeOK, Aud!TypeOK, Handles
  <2>. QED BY <1>2, <2>1 DEF AbrExit, Up, Abr!Exit, TypeOK, Phases
<1>3. CASE YuvStep
  <2>1. Yuv!VideoLoop /\ Up
        /\ UNCHANGED <<gStop, sdkVars, abrVars, encVars, audVars>>
    BY <1>3 DEF YuvStep
  <2>2. yuvThread \notin {"none", "exited", "joined", "fault"}
        /\ yuvThread' \notin {"none", "joined"}
        /\ UNCHANGED yuvRunning
    BY <2>1 DEF Yuv!VideoLoop, Yuv!Open, Yuv!Check, Yuv!ReadFrame, Yuv!ReadShort,
                Yuv!Ended, Yuv!Reopen, Yuv!Send, Yuv!Close
  <2>3. Yuv!TypeOK'
    BY <2>1 DEF TypeOK, Yuv!TypeOK, Yuv!VideoLoop, Yuv!Open, Yuv!Check, Yuv!ReadFrame,
                Yuv!ReadShort, Yuv!Ended, Yuv!Reopen, Yuv!Send, Yuv!Close
  <2>4. Handles'
    BY <2>1 DEF TypeOK, Yuv!TypeOK, Handles, Yuv!VideoLoop, Yuv!Open, Yuv!Check,
                Yuv!ReadFrame, Yuv!ReadShort, Yuv!Ended, Yuv!Reopen, Yuv!Send, Yuv!Close
  <2>5. Aud!TypeOK'
    BY <2>1 DEF Up, TypeOK, Aud!TypeOK
  <2>6. TypeOK'
    BY <2>1, <2>3, <2>5 DEF Up, TypeOK
  <2>7. Phases'
    BY <2>1, <2>2 DEF Up, Phases, TypeOK
  <2>. QED BY <2>4, <2>6, <2>7
<1>4. CASE AudStep
  <2>1. Aud!AudioLoop /\ Up
        /\ UNCHANGED <<gStop, sdkVars, abrVars, encVars, yuvVars>>
    BY <1>4 DEF AudStep
  <2>2. audThread \notin {"none", "exited", "joined"}
        /\ audThread' \notin {"none", "joined"}
    BY <2>1 DEF Aud!AudioLoop, Aud!Open, Aud!Check, Aud!ReadPiece, Aud!ReadEnd,
                Aud!ReadError, Aud!Send, Aud!Close
  <2>3. Aud!TypeOK'
    BY <2>1, PiecesAssumption DEF TypeOK, Aud!TypeOK, Aud!AudioLoop, Aud!Open, Aud!Check,
        Aud!ReadPiece, Aud!ReadEnd, Aud!ReadError, Aud!Send, Aud!Close
  <2>4. Handles'
    BY <2>1 DEF TypeOK, Aud!TypeOK, Handles, Aud!AudioLoop, Aud!Open, Aud!Check,
        Aud!ReadPiece, Aud!ReadEnd, Aud!ReadError, Aud!Send, Aud!Close
  <2>5. Yuv!TypeOK'
    BY <2>1 DEF TypeOK, Yuv!TypeOK
  <2>6. TypeOK'
    BY <2>1, <2>3, <2>5 DEF Up, TypeOK
  <2>7. Phases'
    BY <2>1, <2>2 DEF Up, Phases, TypeOK
  <2>. QED BY <2>4, <2>6, <2>7
<1>. QED BY <1>1, <1>2, <1>3, <1>4

LEMMA InvariantHolds == Spec => []Inv
PROOF
<1>1. Inv /\ [Next]_vars => Inv'
  <2>. SUFFICES ASSUME Inv, [Next]_vars PROVE Inv'
    OBVIOUS
  <2>1. CASE UNCHANGED vars
    <3>1. UNCHANGED <<mode, loop, gStop, main, registered, connected, published,
             abrRunning, abrThread, encRunning, encThread, yuvRunning, yuvThread,
             decoder, audRunning, audThread, file, position>>
      BY <2>1 DEF vars, config, sdkVars, workers, abrVars, encVars, yuvVars, audVars
    <3>. QED BY <3>1 DEF Inv, TypeOK, Yuv!TypeOK, Aud!TypeOK, Phases, Handles,
                         WorkersWithinPublication, Alive
  <2>. QED BY <2>1, SetupKeeps, StartKeeps, StopKeeps, JoinKeeps, TearDownKeeps,
              WorkersKeep DEF Next, Main
<1>. QED BY Initially, <1>1, PTL DEF Spec

-----------------------------------------------------------------------------
\* main(), the workers and their handles stay in the states they can be in.
THEOREM TypeCorrect == Spec => []TypeOK
PROOF
<1>1. Inv => TypeOK
  BY DEF Inv
<1>. QED BY <1>1, InvariantHolds, PTL

\* No worker outlives the publication it sends to, on any path through main().
THEOREM WorkersArePublished == Spec => []WorkersWithinPublication
PROOF BY Implied, InvariantHolds, PTL

\* A clean end leaves no thread, stream, file or registration.
THEOREM EndsCleanedUp == Spec => []CleanedUp
PROOF BY Implied, InvariantHolds, PTL

\* The YUV player reads only from an open decoder.
THEOREM DecoderIsLive == Spec => []DecoderLive
PROOF BY Implied, InvariantHolds, PTL

-----------------------------------------------------------------------------
(* The players as workers *)

\* A player is joined only once its flag is cleared, since only one of the
\* video players is ever started and stop() comes before join().
Told == /\ mode \in {"encoded", "yuv"}
        /\ yuvThread # "none" => mode = "yuv"
        /\ main = "joinVideo" /\ mode = "yuv" => ~ yuvRunning
        /\ main = "joinAudio" => ~ audRunning

LEMMA ToldHolds == Spec => []Told
PROOF
<1>1. Init => Told
  BY DEF Init, Told, Yuv!Init
<1>2. Told /\ [Next]_vars => Told'
  <2>. SUFFICES ASSUME Told, [Next]_vars PROVE Told'
    OBVIOUS
  <2>. USE DEF Told, Step, Up, config, sdkVars, workers, abrVars, encVars, yuvVars, audVars
  <2>1. CASE SetUp \/ Connect \/ Media \/ Wait \/ Initialize \/ StartOrSkip
    BY <2>1 DEF SetUp, Connect, Media, Wait, Initialize, StartOrSkip
  <2>2. CASE StartAbr \/ StartAudio
    BY <2>2 DEF StartAbr, StartAudio, Aud!Start
  <2>3. CASE StartVideo
    BY <2>3 DEF StartVideo, Yuv!Start
  <2>4. CASE Poll \/ StopVideo
    BY <2>4 DEF Poll, StopVideo, Yuv!ClearRunning
  <2>5. CASE JoinVideo
    BY <2>5 DEF JoinVideo, Yuv!Join
  <2>6. CASE StopAudio \/ JoinAudio
    BY <2>6 DEF StopAudio, JoinAudio, Aud!ClearRunning, Aud!Join
  <2>7. CASE StopAbr \/ JoinAbr \/ Unpublish \/ Unregister \/ Disconnect
    BY <2>7 DEF StopAbr, JoinAbr, Unpublish, Unregister, Disconnect
  <2>8. CASE YuvStep
    BY <2>8 DEF YuvStep, Yuv!VideoLoop, Yuv!Open, Yuv!Check, Yuv!ReadFrame,
                Yuv!ReadShort, Yuv!Ended, Yuv!Reopen, Yuv!Send, Yuv!Close
  <2>9. CASE AudStep
    BY <2>9 DEF AudStep, Aud!AudioLoop, Aud!Open, Aud!Check, Aud!ReadPiece,
                Aud!ReadEnd, Aud!ReadError, Aud!Send, Aud!Close
  <2>10. CASE EncExit \/ AbrExit \/ Crash \/ Signal \/ OnConnected \/ UNCHANGED vars
    BY <2>10 DEF EncExit, AbrExit, Crash, Signal, OnConnected, vars
  <2>. QED
    BY <2>1, <2>2, <2>3, <2>4, <2>5, <2>6, <2>7, <2>8, <2>9, <2>10 DEF Next, Main
<1>. QED BY <1>1, <1>2, PTL DEF Spec

\* The safety half of PlayersObey: both players take only the steps of a
\* worker, and are joined only after they were told to stop.
THEOREM PlayersAreWorkers == Spec => VideoWorker!Spec /\ AudioWorker!Spec
PROOF
<1>. DEFINE video == IF yuvThread \in Yuv!Alive THEN "alive"
                     ELSE IF yuvThread = "fault" THEN "exited" ELSE yuvThread
            audio == IF audThread \in Aud!Alive THEN "alive" ELSE audThread
<1>1. Init => VideoWorker!Init /\ AudioWorker!Init
  BY DEF Init, Yuv!Init, Aud!Init, VideoWorker!Init, AudioWorker!Init
<1>2. Told /\ [Next]_vars => /\ [VideoWorker!Next]_(VideoWorker!vars)
                            /\ [AudioWorker!Next]_(AudioWorker!vars)
  <2>. SUFFICES ASSUME Told, [Next]_vars
                PROVE  /\ VideoWorker!Next \/ UNCHANGED <<yuvRunning, video>>
                       /\ AudioWorker!Next \/ UNCHANGED <<audRunning, audio>>
    BY DEF VideoWorker!vars, AudioWorker!vars
  <2>. USE DEF VideoWorker!Next, AudioWorker!Next, Told, Step, Up, config, sdkVars,
               workers, abrVars, encVars, yuvVars, audVars
  <2>1. CASE SetUp \/ Connect \/ Media \/ Wait \/ Initialize \/ StartOrSkip \/ StartAbr
    BY <2>1 DEF SetUp, Connect, Media, Wait, Initialize, StartOrSkip, StartAbr
  <2>2. CASE StartAudio
    BY <2>2 DEF StartAudio, Aud!Start, AudioWorker!Start
  <2>3. CASE StartVideo
    BY <2>3 DEF StartVideo, Yuv!Start, VideoWorker!Start
  <2>4. CASE Poll \/ StopVideo
    BY <2>4 DEF Poll, StopVideo, Yuv!ClearRunning, VideoWorker!ClearRunning
  <2>5. CASE JoinVideo
    BY <2>5 DEF JoinVideo, Yuv!Join, VideoWorker!Join
  <2>6. CASE StopAudio \/ JoinAudio
    BY <2>6 DEF StopAudio, JoinAudio, Aud!ClearRunning, AudioWorker!ClearRunning,
                Aud!Join, AudioWorker!Join
  <2>7. CASE StopAbr \/ JoinAbr \/ Unpublish \/ Unregister \/ Disconnect
    BY <2>7 DEF StopAbr, JoinAbr, Unpublish, Unregister, Disconnect
  <2>8. CASE YuvStep
    BY <2>8 DEF YuvStep, Yuv!VideoLoop, Yuv!Open, Yuv!Check, Yuv!ReadFrame,
                Yuv!ReadShort, Yuv!Ended, Yuv!Reopen, Yuv!Send, Yuv!Close,
                VideoWorker!Exit
  <2>9. CASE AudStep
    BY <2>9 DEF AudStep, Aud!AudioLoop, Aud!Open, Aud!Check, Aud!ReadPiece,
                Aud!ReadEnd, Aud!ReadError, Aud!Send, Aud!Close, AudioWorker!Exit
  <2>10. CASE EncExit \/ AbrExit \/ Crash \/ Signal \/ OnConnected \/ UNCHANGED vars
    BY <2>10 DEF EncExit, AbrExit, Crash, Signal, OnConnected, vars
  <2>. QED
    BY <2>1, <2>2, <2>3, <2>4, <2>5, <2>6, <2>7, <2>8, <2>9, <2>10 DEF Next, Main
<1>. QED
  BY <1>1, <1>2, ToldHolds, PTL DEF Spec, VideoWorker!Spec, AudioWorker!Spec
=============================================================================
