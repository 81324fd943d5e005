------------------------------- MODULE Publisher -------------------------------
(***************************************************************************)
(* The life of the process (src/main.cpp): set up the SDK, register the    *)
(* observer, publish, wait for the connection, start the workers, poll     *)
(* g_stop, and take everything down in order.  Composes the main thread    *)
(* with the two players modelled in YuvPlayer and AudioPlayer, with the    *)
(* abstract PlayerThread that ContentPlayer implements and AbrController's *)
(* tick thread is, with the signal handler and with the SDK's callbacks.   *)
(***************************************************************************)
EXTENDS Integers

CONSTANT Pieces  \* whole 10 ms pieces in the audio file

ASSUME PiecesAssumption == Pieces \in Nat

VARIABLES
    mode,        \* config.mode; never changes
    loop,        \* config.loop_content; never changes
    gStop,       \* g_stop
    main,        \* where main() is
    registered,  \* the SDK holds the observer
    connected,   \* PublisherObserver::connected_
    published,   \* the tracks are published
    abrRunning, abrThread,
    encRunning, encThread,
    yuvRunning, yuvThread, decoder,
    audRunning, audThread, file, position

config  == <<mode, loop>>
sdkVars == <<registered, connected, published>>
abrVars == <<abrRunning, abrThread>>
encVars == <<encRunning, encThread>>
yuvVars == <<yuvRunning, yuvThread, decoder>>
audVars == <<audRunning, audThread, file, position>>
workers == <<abrVars, encVars, yuvVars, audVars>>
vars    == <<config, gStop, main, sdkVars, workers>>

Abr == INSTANCE PlayerThread WITH running <- abrRunning, thread <- abrThread
Enc == INSTANCE PlayerThread WITH running <- encRunning, thread <- encThread
Yuv == INSTANCE YuvPlayer    WITH running <- yuvRunning, pc <- yuvThread
Aud == INSTANCE AudioPlayer  WITH running <- audRunning, pc <- audThread

ThreadState == {"none", "alive", "exited", "joined"}

Ended == {"done", "failed", "crashed"}

TypeOK ==
    /\ mode \in {"encoded", "yuv"}
    /\ gStop \in BOOLEAN
    /\ main \in Ended \cup
          {"setup", "connect", "media", "wait", "initialize", "start", "startAbr",
           "startAudio", "startVideo", "poll", "stopVideo", "joinVideo", "stopAudio",
           "joinAudio", "stopAbr", "joinAbr", "unpublish", "unregister", "disconnect"}
    /\ {registered, connected, published} \subseteq BOOLEAN
    /\ abrRunning \in BOOLEAN /\ abrThread \in ThreadState
    /\ encRunning \in BOOLEAN /\ encThread \in ThreadState
    /\ Yuv!TypeOK
    /\ Aud!TypeOK

Init == /\ mode \in {"encoded", "yuv"}
        /\ gStop = FALSE
        /\ main = "setup"
        /\ registered = FALSE /\ connected = FALSE /\ published = FALSE
        /\ Abr!Init /\ Enc!Init /\ Yuv!Init /\ Aud!Init

-----------------------------------------------------------------------------
(* main(): set-up *)

\* From one statement of main to the next, the configuration apart.
Step(from, to) == main = from /\ main' = to /\ UNCHANGED config

\* Service, connection, AbrController and observer.
SetUp == \/ /\ Step("setup", "failed")
            /\ UNCHANGED <<gStop, sdkVars, workers>>
         \/ /\ Step("setup", "connect")
            /\ registered' = TRUE
            /\ UNCHANGED <<gStop, connected, published, workers>>

Connect == \/ /\ Step("connect", "failed")
              /\ registered' = FALSE
              /\ UNCHANGED <<gStop, connected, published, workers>>
           \/ /\ Step("connect", "media")
              /\ UNCHANGED <<gStop, sdkVars, workers>>

\* The media nodes.  An early return here leaves the observer registered, and
\* a factory that could not be made is used before it is looked at.
Media == \/ /\ \/ Step("media", "failed")
               \/ Step("media", "crashed")
            /\ UNCHANGED <<gStop, sdkVars, workers>>
         \/ /\ Step("media", "wait")
            /\ published' = TRUE
            /\ UNCHANGED <<gStop, registered, connected, workers>>

\* Mutant: without a connection there is no publishing.
WaitForConnection == /\ Step("wait", "initialize")
                     /\ connected
                     /\ UNCHANGED <<gStop, sdkVars, workers>>

\* wait_until_connected returns with the connection, or without it after 5 s:
\* connected decides what is logged, and nothing else.
Wait == /\ Step("wait", "initialize")
        /\ UNCHANGED <<gStop, sdkVars, workers>>

\* ContentPlayer::initialize may fail; g_stop then skips the players.
Initialize == /\ Step("initialize", "start")
              /\ \/ UNCHANGED gStop
                 \/ mode = "encoded" /\ gStop' = TRUE
              /\ UNCHANGED <<sdkVars, workers>>

StartOrSkip == /\ Step("start", IF gStop THEN "stopVideo" ELSE "startAbr")
               /\ UNCHANGED <<gStop, sdkVars, workers>>

StartAbr == /\ Step("startAbr", "startAudio")
            /\ IF mode = "encoded" THEN Abr!Start ELSE UNCHANGED abrVars
            /\ UNCHANGED <<gStop, sdkVars, encVars, yuvVars, audVars>>

StartAudio == /\ Step("startAudio", "startVideo")
              /\ Aud!Start
              /\ UNCHANGED <<gStop, sdkVars, abrVars, encVars, yuvVars>>

StartVideo == /\ Step("startVideo", "poll")
              /\ IF mode = "encoded" THEN Enc!Start /\ UNCHANGED yuvVars
                                     ELSE Yuv!Start /\ UNCHANGED encVars
              /\ UNCHANGED <<gStop, sdkVars, abrVars, audVars>>

-----------------------------------------------------------------------------
(* main(): shutdown *)

\* The STATUS loop looks at g_stop every 200 ms.
Poll == /\ gStop
        /\ Step("poll", "stopVideo")
        /\ UNCHANGED <<gStop, sdkVars, workers>>

StopVideo == /\ Step("stopVideo", "joinVideo")
             /\ IF mode = "encoded" THEN Enc!ClearRunning /\ UNCHANGED yuvVars
                                    ELSE Yuv!ClearRunning /\ UNCHANGED encVars
             /\ UNCHANGED <<gStop, sdkVars, abrVars, audVars>>

\* Mutant: the thread is detached.
JoinVideoNoWait == /\ Step("joinVideo", "stopAudio")
                   /\ UNCHANGED <<gStop, sdkVars, workers>>

\* join() blocks until the thread returned, if a thread was started.
JoinVideo == /\ Step("joinVideo", "stopAudio")
             /\ \/ Enc!Join /\ UNCHANGED yuvVars
                \/ Yuv!Join /\ UNCHANGED encVars
                \/ /\ encThread = "none" /\ yuvThread = "none"
                   /\ UNCHANGED <<encVars, yuvVars>>
             /\ UNCHANGED <<gStop, sdkVars, abrVars, audVars>>

StopAudio == /\ Step("stopAudio", "joinAudio")
             /\ Aud!ClearRunning
             /\ UNCHANGED <<gStop, sdkVars, abrVars, encVars, yuvVars>>

JoinAudio == /\ Step("joinAudio", "stopAbr")
             /\ Aud!Join \/ (audThread = "none" /\ UNCHANGED audVars)
             /\ UNCHANGED <<gStop, sdkVars, abrVars, encVars, yuvVars>>

StopAbr == /\ Step("stopAbr", "joinAbr")
           /\ Abr!ClearRunning
           /\ UNCHANGED <<gStop, sdkVars, encVars, yuvVars, audVars>>

JoinAbr == /\ Step("joinAbr", "unpublish")
           /\ Abr!Join \/ (abrThread = "none" /\ UNCHANGED abrVars)
           /\ UNCHANGED <<gStop, sdkVars, encVars, yuvVars, audVars>>

Unpublish == /\ Step("unpublish", "unregister")
             /\ published' = FALSE
             /\ UNCHANGED <<gStop, registered, connected, workers>>

Unregister == /\ Step("unregister", "disconnect")
              /\ registered' = FALSE
              /\ UNCHANGED <<gStop, connected, published, workers>>

\* Disconnect, drop the senders and tracks, release the service, return.
Disconnect == /\ Step("disconnect", "done")
              /\ UNCHANGED <<gStop, sdkVars, workers>>

Main == \/ SetUp \/ Connect \/ Media \/ Wait \/ Initialize
        \/ StartOrSkip \/ StartAbr \/ StartAudio \/ StartVideo
        \/ Poll \/ StopVideo \/ JoinVideo \/ StopAudio \/ JoinAudio
        \/ StopAbr \/ JoinAbr \/ Unpublish \/ Unregister \/ Disconnect

-----------------------------------------------------------------------------
(* The other threads, while there is a process *)

Up == main \notin Ended /\ UNCHANGED <<config, main>>

\* The encoded player ends when told to, or where content that does not loop
\* ends; the tick thread only when told to.
EncExit == Up /\ Enc!Exit /\ (~encRunning \/ ~loop)
           /\ UNCHANGED <<gStop, sdkVars, abrVars, yuvVars, audVars>>

AbrExit == Up /\ Abr!Exit /\ ~abrRunning
           /\ UNCHANGED <<gStop, sdkVars, encVars, yuvVars, audVars>>

YuvStep == Up /\ Yuv!VideoLoop
           /\ UNCHANGED <<gStop, sdkVars, abrVars, encVars, audVars>>

AudStep == Up /\ Aud!AudioLoop
           /\ UNCHANGED <<gStop, sdkVars, abrVars, encVars, yuvVars>>

Crash == /\ main \notin Ended /\ yuvThread = "fault"
         /\ main' = "crashed"
         /\ UNCHANGED <<config, gStop, sdkVars, workers>>

Signal == /\ Up /\ gStop' = TRUE
          /\ UNCHANGED <<sdkVars, workers>>

OnConnected == /\ Up /\ registered /\ main # "connect"
               /\ connected' = TRUE
               /\ UNCHANGED <<gStop, registered, published, workers>>

Next == \/ Main
        \/ EncExit \/ AbrExit \/ YuvStep \/ AudStep \/ Crash
        \/ Signal \/ OnConnected

Spec == Init /\ [][Next]_vars

\* Calls of the SDK and of the system return, and threads are scheduled; an
\* fread from the decoder returns a frame or comes up short.  No one need
\* send a signal, and the connection need not come up.
Fairness == /\ WF_vars(Main) /\ WF_vars(EncExit /\ ~encRunning) /\ WF_vars(AbrExit)
            /\ WF_vars(YuvStep) /\ WF_vars(AudStep) /\ WF_vars(Crash)

FairSpec == Spec /\ Fairness

-----------------------------------------------------------------------------
Alive == \/ abrThread = "alive" \/ encThread = "alive"
         \/ yuvThread \in Yuv!Alive \/ audThread \in Aud!Alive

\* No worker is ever alive outside the time between publishing the tracks and
\* unpublishing them: what a worker uses is there for as long as it runs,
\* whichever of them were started and whenever the signal came.
WorkersWithinPublication == Alive => published

\* A clean end leaves no thread, no ffmpeg, no file and no registration.
CleanedUp ==
    main = "done" => /\ {abrThread, encThread, yuvThread, audThread}
                              \subseteq {"none", "joined"}
                     /\ decoder # "open" /\ file # "open"
                     /\ ~registered

\* The player reads only from a decoder that is open, across restarts.
DecoderLive == yuvThread \in {"check", "read", "send"} => decoder = "open"

\* The process comes to its end whenever the signal arrives.
ShutsDown == gStop ~> (main \in Ended)

\* "continuing anyway": publishing starts even if the connection never does.
ReachesPublishing == (main = "wait") ~> (main = "poll" \/ gStop)

\* Audio that loops goes on being sent for as long as the process publishes
\* and no read fails, if the file has a piece to send.
AudioKeepsPlaying ==
    (Pieces > 0 /\ <>[](main = "poll" /\ loop /\ audThread \in Aud!Alive))
        => []<>(audThread = "send")

ShuttingDown == main \in {"stopVideo", "joinVideo", "stopAudio", "joinAudio",
                          "stopAbr", "joinAbr", "unpublish", "unregister", "disconnect"}

\* README: "Ctrl-C stops cleanly."  No step of the shutdown crashes.
CleanShutdown == [][main' = "crashed" => ~ShuttingDown]_vars

VideoWorker == INSTANCE PlayerThread WITH
    running <- yuvRunning,
    thread  <- IF yuvThread \in Yuv!Alive THEN "alive"
               ELSE IF yuvThread = "fault" THEN "exited" ELSE yuvThread

AudioWorker == INSTANCE PlayerThread WITH
    running <- audRunning,
    thread  <- IF audThread \in Aud!Alive THEN "alive" ELSE audThread

\* Both players modelled in detail are the workers main takes them for: once
\* running_ is cleared they return, wherever they were.
PlayersObey == VideoWorker!FairSpec /\ AudioWorker!FairSpec
=============================================================================
