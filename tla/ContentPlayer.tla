---------------------------- MODULE ContentPlayer ----------------------------
(***************************************************************************)
(* The encoded-mode player (src/content_player.cpp): one thread walks the  *)
(* common frame index of the pre-encoded ladder, reads the level the ABR   *)
(* asks for, switches files when the frame at hand is a keyframe of the    *)
(* wanted one, and hands the frame to the SDK.  Before that, initialize()  *)
(* opens the files, an H264Reader each; how a reader finds the frames is   *)
(* in H264Index.  Pacing is in Pacer.                                      *)
(***************************************************************************)
EXTENDS Integers, FiniteSetsExt

CONSTANTS
    NumLevels,   \* number of rungs, one H.264 file each
    StartLevel,  \* target level when the player starts
    Contents,    \* what may be configured: records of
                 \*   files, for each rung the [frames : Nat, keys : SUBSET Nat]
                 \*          H264Reader finds: no frames in a file that cannot
                 \*          be opened or mapped, is empty, or holds none; and
                 \*   loop, config.loop_content
    NoFrame      \* not a frame

Level == 0 .. NumLevels - 1

ASSUME ContentAssumption ==
    /\ NumLevels \in Nat \ {0}
    /\ StartLevel \in Level
    /\ NoFrame \notin Level \X Nat
    /\ \A c \in Contents :
          /\ c.loop \in BOOLEAN
          /\ \A l \in Level :
                /\ c.files[l].frames \in Nat
                /\ c.files[l].keys \subseteq 0 .. c.files[l].frames - 1
                /\ c.files[l].frames > 0 => 0 \in c.files[l].keys
                      \* an encoder starts with an IDR

VARIABLES
    content,     \* the configured content; never changes
    readers,     \* Len(readers_): the files opened so far
    frameCount,  \* frame_count_
    target,      \* AbrController::target_level_
    running,     \* running_
    stopCalled,  \* the main thread has entered stop()
    pc,          \* where video_thread_ is
    level,       \* current_level
    index,       \* frame_index
    offered,     \* the frame last passed to sendEncodedVideoImage
    delivered,   \* the frame last accepted by it
    lost,        \* a send has failed since the last keyframe was accepted
    behind       \* history: how many of the frames offered since the target
                 \* last moved were, without a break, not of its level
                 \* (bound: saturates above frameCount)

opening == <<content, readers, frameCount>>
loop    == <<level, index, offered, delivered, lost, behind>>
vars    == <<opening, target, running, stopCalled, pc, loop>>

TypeOK == /\ content \in Contents
          /\ readers \in 0 .. NumLevels
          /\ frameCount \in Nat
          /\ target \in Level
          /\ running \in BOOLEAN
          /\ stopCalled \in BOOLEAN
          /\ pc \in {"none", "enter", "top", "pick", "send", "advance",
                    "exited", "joined"}
          /\ level \in Level
          /\ index \in Nat
          /\ offered \in (Level \X Nat) \cup {NoFrame}
          /\ delivered \in (Level \X Nat) \cup {NoFrame}
          /\ lost \in BOOLEAN
          /\ behind \in Nat

Frames(l) == content.files[l].frames
IsKeyframe(l, i) == i \in content.files[l].keys

Init == /\ content \in Contents
        /\ readers = 0
        /\ frameCount = 0
        /\ target = StartLevel
        /\ running = FALSE
        /\ stopCalled = FALSE
        /\ pc = "none"
        /\ level = StartLevel
        /\ index = 0
        /\ offered = NoFrame
        /\ delivered = NoFrame
        /\ lost = FALSE
        /\ behind = 0

(* The ABR thread, started once the files are open, moves the target as      *)
(* LevelGovernor lets it.                                                    *)

Retarget(l) == /\ readers = NumLevels
               /\ l < target \/ l = target + 1
               /\ target' = l
               /\ behind' = 0
               /\ UNCHANGED <<opening, running, stopCalled, pc, level, index,
                              offered, delivered, lost>>

(* The main thread. *)

\* Mutant: the length of the last file.
LastLength(n) == n

\* The length that the files opened so far and one of n frames have in common.
CommonLength(n) == IF frameCount = 0 THEN n ELSE Min({frameCount, n})

\* initialize() opens the files one by one: H264Reader::open succeeds ...
OpenLevel == /\ readers < NumLevels /\ ~stopCalled
             /\ Frames(readers) > 0
             /\ frameCount' = CommonLength(Frames(readers))
             /\ readers' = readers + 1
             /\ UNCHANGED <<content, target, running, stopCalled, pc, loop>>

\* ... or fails, at whichever file it is; main goes straight to its shutdown,
\* which stops a player that was never started.
OpenFails == /\ readers < NumLevels /\ ~stopCalled
             /\ Frames(readers) = 0
             /\ stopCalled' = TRUE
             /\ running' = FALSE
             /\ UNCHANGED <<opening, target, pc, loop>>

Start == /\ readers = NumLevels
         /\ pc = "none" /\ ~stopCalled
         /\ running' = TRUE
         /\ pc' = "enter"
         /\ UNCHANGED <<opening, target, stopCalled, loop>>

Stop == /\ readers = NumLevels
        /\ ~stopCalled
        /\ stopCalled' = TRUE
        /\ running' = FALSE
        /\ UNCHANGED <<opening, target, pc, loop>>

Join == /\ stopCalled /\ pc = "exited"
        /\ pc' = "joined"
        /\ UNCHANGED <<opening, target, running, stopCalled, loop>>

(* video_loop *)

Local == UNCHANGED <<opening, target, running, stopCalled>>

\* The loop starts on whatever level the ABR wants by then.
Enter == /\ pc = "enter"
         /\ level' = target
         /\ pc' = "top"
         /\ Local /\ UNCHANGED <<index, offered, delivered, lost, behind>>

\* Mutant: the loop does not look at running_.
TopForever == /\ pc = "top"
              /\ pc' = "pick"
              /\ Local /\ UNCHANGED <<level, index, offered, delivered, lost, behind>>

Top == /\ pc = "top"
       /\ pc' = IF running THEN "pick" ELSE "exited"
       /\ Local /\ UNCHANGED <<level, index, offered, delivered, lost, behind>>

\* Mutants: switch at any frame, at a keyframe of the file that is left, or
\* only downwards.
ChosenAnywhere == target
ChosenByOldKey == IF IsKeyframe(level, index) THEN target ELSE level
ChosenDown     == IF target < level /\ IsKeyframe(target, index) THEN target ELSE level

\* One read of the target decides; a change after it waits for the next
\* frame.  Had the chosen file no such frame, the loop would start over
\* without sending or sleeping.
Chosen == IF IsKeyframe(target, index) THEN target ELSE level

Pick == /\ pc = "pick"
        /\ level' = Chosen
        /\ IF index < Frames(Chosen)
           THEN pc' = "send" /\ UNCHANGED index
           ELSE pc' = "top" /\ index' = 0
        /\ Local /\ UNCHANGED <<offered, delivered, lost, behind>>

Offer == /\ pc = "send"
         /\ offered' = <<level, index>>
         /\ behind' = IF level = target THEN 0
                       ELSE IF behind <= frameCount THEN behind + 1 ELSE behind
         /\ pc' = "advance"
         /\ Local /\ UNCHANGED <<level, index>>

SendAccepted == /\ Offer
                /\ delivered' = <<level, index>>
                /\ lost' = (lost /\ ~IsKeyframe(level, index))

\* The SDK refuses the frame: a warning, and the loop goes on as if sent.
SendFailed == /\ Offer
              /\ lost' = TRUE
              /\ UNCHANGED delivered

\* Mutant: wraps by the length of the file at hand, not the common one.
AdvanceOwnLength ==
    /\ pc = "advance"
    /\ IF index + 1 < frameCount
       THEN index' = index + 1 /\ pc' = "top"
       ELSE IF content.loop
            THEN index' = index + 1 - Frames(level) /\ pc' = "top"
            ELSE index' = index + 1 /\ pc' = "exited"
    /\ Local /\ UNCHANGED <<level, offered, delivered, lost, behind>>

\* Advance and wrap; at the end of content that does not loop, the thread
\* ends with running_ still set.
Advance == /\ pc = "advance"
           /\ IF index + 1 < frameCount
              THEN index' = index + 1 /\ pc' = "top"
              ELSE IF content.loop
                   THEN index' = 0 /\ pc' = "top"
                   ELSE index' = index + 1 /\ pc' = "exited"
           /\ Local /\ UNCHANGED <<level, offered, delivered, lost, behind>>

VideoLoop == Enter \/ Top \/ Pick \/ SendAccepted \/ SendFailed \/ Advance

Next == \/ \E l \in Level : Retarget(l)
        \/ OpenLevel \/ OpenFails \/ Start \/ Stop \/ Join
        \/ VideoLoop

Spec == Init /\ [][Next]_vars

\* The video thread is scheduled, and the main thread's join returns.
Fairness == WF_vars(VideoLoop) /\ WF_vars(Join)

FairSpec == Spec /\ Fairness

-----------------------------------------------------------------------------
\* f can be decoded by a receiver whose last frame was p.
Continues(f, p) == \/ IsKeyframe(f[1], f[2])
                   \/ p # NoFrame /\ f[1] = p[1] /\ f[2] = p[2] + 1

\* Whatever the ABR does between two frames, every frame the player offers is
\* a keyframe or the successor, in the same file, of the frame before it.
OffersUnbrokenGop ==
    [][offered' # offered => Continues(offered', offered)]_vars

\* content_player.h promises that the receiver never sees a broken GOP: the
\* same, of the frames the SDK accepted.
ReceiverSeesUnbrokenGop ==
    [][delivered' # delivered => Continues(delivered', delivered)]_vars

\* A delivered frame that does not continue the one before it is always the
\* aftermath of a refused send, and never lasts beyond the next keyframe: the
\* player itself, switching or wrapping, never breaks the stream.
BrokenOnlyByLoss ==
    [][(delivered' # delivered /\ ~lost) => Continues(delivered', delivered)]_vars

\* The index stays inside every file, so the guard behind frame_at is never
\* taken; it would make the loop spin without pacing.
FrameAvailable == pc = "pick" => index < Frames(Chosen)

\* The target's file has a keyframe in every g frames of what is played in turn
\* (the first frame is one, so that a window over the end has one as well).
KeyEvery(g) == \A i \in 1 .. frameCount - g :
                  \E k \in i .. i + g - 1 : IsKeyframe(target, k)

\* plan_bwe.md: a decision waits for one group of pictures at most.  Nothing in
\* the loop mentions a GOP: that no more than that many frames of other levels
\* go out after the target moved, wherever in the loop it does and whatever
\* the other files look like, is up to where the keyframe test stands.
SwitchWithinGop == \A g \in 1 .. frameCount : KeyEvery(g) => behind <= g

\* When the ABR's choice stays put, the player gets to it and stays on it.
SwitchesEventually ==
    \A l \in Level :
        <>[](pc \notin {"none", "exited", "joined"} /\ target = l) => <>[](level = l)

Thread == INSTANCE PlayerThread WITH
    thread <- IF pc \in {"none", "exited", "joined"} THEN pc ELSE "alive"

\* The player is the worker main takes it for: above all, wherever the thread
\* is when stop() clears running_, it returns.
ObeysAsThread == Thread!FairSpec
=============================================================================
