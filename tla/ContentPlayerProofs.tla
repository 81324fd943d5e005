------------------------- MODULE ContentPlayerProofs -------------------------
(***************************************************************************)
(* The player's promises for every ladder of files that start with a       *)
(* keyframe, aligned or not, openable or not, and every behaviour of the   *)
(* ABR.                                                                    *)
(***************************************************************************)
EXTENDS ContentPlayer, TLAPS

\* Where the thread is between two frames, the next one to offer either
\* starts the content or follows the last one offered in the current file.
AtBoundary == index = 0 \/ offered = <<level, index - 1>>

\* frame_count_ is a length that every file opened so far has, and the thread
\* runs only when all of them are.
Opening == /\ readers = 0 => frameCount = 0
           /\ readers > 0 => frameCount > 0
           /\ \A l \in Level : l < readers => frameCount <= Frames(l)
           /\ pc # "none" => readers = NumLevels

\* The index stays inside the common length, and what is about to be offered
\* continues what was.
Position == /\ pc \in {"none", "enter"} => index = 0 /\ behind = 0
            /\ pc \in {"top", "pick"} => index < frameCount /\ AtBoundary
            /\ pc = "send" => /\ index < frameCount
                              /\ IsKeyframe(level, index) \/ AtBoundary
            /\ pc = "advance" => /\ index < frameCount
                                 /\ offered = <<level, index>>

\* Of the frames that are behind the target, none but the first was a keyframe
\* of the target's file, where they were consecutive; and the one chosen while
\* the target stood is none either.
Late == /\ behind > 0 =>
              /\ offered \in Level \X Nat
              /\ offered[2] < frameCount
              /\ \A j \in 0 .. behind - 2 : /\ offered[2] - j >= 1
                                            /\ ~ IsKeyframe(target, offered[2] - j)
        /\ pc = "send" /\ level # target /\ behind > 0 =>
              /\ ~ IsKeyframe(target, index)
              /\ index >= 1
              /\ offered = <<level, index - 1>>

\* Until a send fails, what was accepted last is what was offered last.
InStep == ~lost => delivered = offered

Invariant == TypeOK /\ Opening /\ Position /\ Late /\ InStep

LEMMA ChosenType == ASSUME TypeOK PROVE Chosen \in Level
BY DEF TypeOK, Chosen

LEMMA FilesType ==
  ASSUME TypeOK
  PROVE  \A l \in Level : Frames(l) \in Nat /\ (Frames(l) > 0 => IsKeyframe(l, 0))
BY ContentAssumption DEF TypeOK, Frames, IsKeyframe

\* Opening a file keeps frame_count_ common.
LEMMA CommonLengthFits ==
  ASSUME TypeOK, NEW n \in Nat, n > 0
  PROVE  /\ CommonLength(n) \in Nat \ {0}
         /\ CommonLength(n) <= n
         /\ frameCount > 0 => CommonLength(n) <= frameCount
<1>1. frameCount \in Nat
  BY DEF TypeOK
<1>2. /\ Min({frameCount, n}) \in {frameCount, n}
      /\ \A y \in {frameCount, n} : Min({frameCount, n}) <= y
  <2>. DEFINE S == {frameCount, n}
  <2>1. \E x \in S : \A y \in S : x <= y
    BY <1>1
  <2>. QED
    BY <2>1 DEF Min
<1>. QED
  BY <1>1, <1>2 DEF CommonLength

LEMMA InitInvariant == Init => Invariant
<1>. SUFFICES ASSUME Init
              PROVE  Invariant
  OBVIOUS
<1>1. /\ running \in BOOLEAN /\ stopCalled \in BOOLEAN /\ lost \in BOOLEAN
      /\ frameCount \in Nat /\ behind \in Nat
  BY DEF Init
<1>2. /\ content \in Contents /\ target \in Level /\ level \in Level /\ index \in Nat
      /\ readers \in 0 .. NumLevels
  BY ContentAssumption DEF Init
<1>3. TypeOK
  BY <1>1, <1>2 DEF Init, TypeOK
<1>4. Opening
  BY <1>2 DEF Init, Opening, Level
<1>5. Position /\ Late /\ InStep
  BY DEF Init, Position, Late, InStep
<1>. QED
  BY <1>3, <1>4, <1>5 DEF Invariant

\* content never changes, nor then what the files hold.
LEMMA ContentFixed ==
  ASSUME [Next]_vars
  PROVE  /\ content' = content
         /\ \A l : Frames(l)' = Frames(l)
         /\ \A l, i : IsKeyframe(l, i)' = IsKeyframe(l, i)
<1>1. content' = content
  BY DEF Next, vars, opening, Retarget, OpenLevel, OpenFails, Start, Stop, Join,
         VideoLoop, Enter, Top, Pick, Offer, SendAccepted, SendFailed, Advance, Local
<1>. QED
  BY <1>1 DEF Frames, IsKeyframe

\* A step of the thread between sends keeps what Late and InStep speak of.
LEMMA LateKept ==
  ASSUME Late, InStep, [Next]_vars,
         UNCHANGED <<target, frameCount, offered, delivered, lost, behind>>,
         pc' # "send" \/ UNCHANGED <<pc, level, index>>
  PROVE  Late' /\ InStep'
<1>1. \A l, i : IsKeyframe(l, i)' = IsKeyframe(l, i)
  BY ContentFixed
<1>. QED
  BY <1>1 DEF Late, InStep

\* Choosing while the target stands: a frame behind it is not one of its
\* keyframes, so not the first either.
LEMMA PickStep ==
  ASSUME Invariant, Pick
  PROVE  Invariant'
<1>. USE DEF Invariant
<1>1. /\ pc = "pick" /\ level' = Chosen
      /\ UNCHANGED <<content, readers, frameCount, target, running, stopCalled,
                     offered, delivered, lost, behind>>
      /\ level \in Level /\ target \in Level /\ index \in Nat /\ frameCount \in Nat
  BY DEF Pick, Local, opening, TypeOK
<1>2. Chosen \in Level /\ index < Frames(Chosen) /\ Frames(target) > 0
  <2>1. Chosen \in Level
    BY ChosenType
  <2>2. readers = NumLevels /\ Chosen < NumLevels /\ target < NumLevels
    BY <1>1, <2>1, ContentAssumption DEF Opening, Level
  <2>3. frameCount <= Frames(Chosen) /\ frameCount <= Frames(target)
    BY <1>1, <2>1, <2>2 DEF Opening
  <2>4. Frames(Chosen) \in Nat /\ Frames(target) \in Nat /\ index < frameCount
    BY <1>1, <2>1, FilesType DEF Position
  <2>. QED
    BY <1>1, <2>1, <2>3, <2>4
<1>3. index' = index /\ pc' = "send"
  BY <1>2 DEF Pick
<1>4. \A l, i : /\ IsKeyframe(l, i)' = IsKeyframe(l, i)
                /\ Frames(l)' = Frames(l)
  BY <1>1 DEF IsKeyframe, Frames
<1>5. TypeOK'
  BY <1>1, <1>2, <1>3 DEF TypeOK
<1>6. Opening'
  BY <1>1, <1>3, <1>4 DEF Opening
<1>7. IsKeyframe(level', index) \/ (level' = level /\ AtBoundary)
  BY <1>1 DEF Chosen, Position
<1>8. Position'
  <2>1. (IsKeyframe(level, index) \/ AtBoundary)'
    BY <1>1, <1>3, <1>4, <1>7 DEF AtBoundary
  <2>. QED
    BY <1>1, <1>3, <2>1 DEF Position
<1>9. level' # target =>
         ~ IsKeyframe(target, index) /\ index >= 1 /\ offered = <<level', index - 1>>
  <2>. SUFFICES ASSUME level' # target
                PROVE  ~ IsKeyframe(target, index) /\ index >= 1 /\ offered = <<level', index - 1>>
    OBVIOUS
  <2>1. ~ IsKeyframe(target, index) /\ level' = level
    BY <1>1 DEF Chosen
  <2>2. IsKeyframe(target, 0)
    BY <1>1, <1>2, FilesType
  <2>3. index # 0
    BY <2>1, <2>2
  <2>4. AtBoundary
    BY <1>1 DEF Position
  <2>. QED
    BY <1>1, <2>1, <2>3, <2>4 DEF AtBoundary
<1>10. Late'
  BY <1>1, <1>3, <1>4, <1>9 DEF Late
<1>11. InStep'
  BY <1>1 DEF InStep
<1>. QED
  BY <1>5, <1>6, <1>8, <1>10, <1>11

\* A frame offered behind the target makes the run of such frames one longer.
LEMMA OfferStep ==
  ASSUME Invariant, SendAccepted \/ SendFailed
  PROVE  Invariant'
<1>. USE DEF Invariant
<1>1. /\ pc = "send" /\ pc' = "advance" /\ offered' = <<level, index>>
      /\ UNCHANGED <<content, readers, frameCount, target, running, stopCalled,
                     level, index>>
      /\ behind' = IF level = target THEN 0
                   ELSE IF behind <= frameCount THEN behind + 1 ELSE behind
  BY DEF SendAccepted, SendFailed, Offer, Local, opening
<1>2. /\ level \in Level /\ target \in Level /\ index \in Nat /\ frameCount \in Nat
      /\ behind \in Nat /\ <<level, index>> \in Level \X Nat
  BY DEF TypeOK
<1>3. /\ delivered' \in (Level \X Nat) \cup {NoFrame}
      /\ lost' \in BOOLEAN
  BY <1>2 DEF SendAccepted, SendFailed, TypeOK
<1>4. \A l, i : /\ IsKeyframe(l, i)' = IsKeyframe(l, i)
                /\ Frames(l)' = Frames(l)
  BY <1>1 DEF IsKeyframe, Frames
<1>5. TypeOK'
  BY <1>1, <1>2, <1>3 DEF TypeOK
<1>6. Opening'
  BY <1>1, <1>4 DEF Opening
<1>7. Position'
  BY <1>1 DEF Position
<1>8. Late'
  <2>1. offered' \in Level \X Nat /\ offered'[2] = index /\ index < frameCount
    BY <1>1, <1>2 DEF Position
  <2>2. ASSUME NEW n \in Nat, behind' = n, NEW j \in 0 .. n - 2
        PROVE  index - j >= 1 /\ ~ IsKeyframe(target, index - j)
    <3>1. level # target /\ n <= behind + 1
      BY <1>1, <1>2, <2>2
    <3>2. behind > 0
      BY <1>2, <2>2, <3>1
    <3>3. ~ IsKeyframe(target, index) /\ index >= 1 /\ offered = <<level, index - 1>>
      BY <1>1, <3>1, <3>2 DEF Late
    <3>4. CASE j = 0
      BY <1>2, <3>3, <3>4
    <3>5. CASE j # 0
      <4>1. j - 1 \in 0 .. behind - 2
        BY <1>2, <2>2, <3>1, <3>5
      <4>2. offered[2] - (j - 1) >= 1 /\ ~ IsKeyframe(target, offered[2] - (j - 1))
        BY <3>2, <4>1 DEF Late
      <4>3. offered[2] - (j - 1) = index - j
        BY <1>2, <2>2, <3>1, <3>3
      <4>. QED
        BY <4>2, <4>3
    <3>. QED
      BY <3>4, <3>5
  <2>3. behind' \in Nat
    BY <1>1, <1>2
  <2>. QED
    BY <1>1, <1>4, <2>1, <2>2, <2>3 DEF Late
<1>9. InStep'
  BY <1>1 DEF SendAccepted, SendFailed, Offer, InStep
<1>. QED
  BY <1>5, <1>6, <1>7, <1>8, <1>9

LEMMA StepInvariant == Invariant /\ [Next]_vars => Invariant'
<1> SUFFICES ASSUME Invariant, [Next]_vars
             PROVE  Invariant'
  OBVIOUS
<1>. USE DEF Invariant
<1>1. /\ \A l, i : /\ IsKeyframe(l, i)' = IsKeyframe(l, i)
                   /\ Frames(l)' = Frames(l)
      /\ readers \in 0 .. NumLevels /\ NumLevels \in Nat \ {0}
      /\ frameCount \in Nat /\ index \in Nat
  BY ContentFixed, ContentAssumption DEF TypeOK
<1>2. ASSUME NEW l \in Level, Retarget(l)
      PROVE  Invariant'
  <2>1. TypeOK'
    BY <1>2 DEF Retarget, opening, TypeOK
  <2>2. Opening' /\ Position'
    BY <1>1, <1>2 DEF Retarget, opening, Opening, Position, AtBoundary
  <2>3. Late' /\ InStep'
    BY <1>2 DEF Retarget, Late, InStep
  <2>. QED
    BY <2>1, <2>2, <2>3
<1>3. CASE OpenLevel
  <2>. DEFINE n == Frames(readers)
  <2>1. /\ readers \in Level /\ n \in Nat /\ n > 0
        /\ frameCount' = CommonLength(n) /\ readers' = readers + 1
        /\ UNCHANGED <<content, target, running, stopCalled, pc, level, index,
                       offered, delivered, lost, behind>>
    BY <1>1, <1>3, FilesType DEF OpenLevel, loop, Level
  <2>. HIDE DEF n
  <2>2. /\ frameCount' \in Nat \ {0} /\ frameCount' <= n
        /\ frameCount > 0 => frameCount' <= frameCount
    BY <2>1, CommonLengthFits
  <2>3. pc = "none"
    BY <1>1, <1>3 DEF OpenLevel, Opening
  <2>4. TypeOK'
    BY <1>1, <1>3, <2>1, <2>2 DEF OpenLevel, TypeOK
  <2>5. Opening'
    <3>1. ASSUME NEW l \in Level, l < readers'
          PROVE  frameCount' <= Frames(l)'
      <4>1. l = readers \/ l < readers
        BY <1>1, <2>1, <3>1 DEF Level
      <4>2. CASE l = readers
        BY <1>1, <2>2, <4>2 DEF n
      <4>3. CASE l < readers
        <5>1. frameCount <= Frames(l) /\ frameCount > 0 /\ Frames(l) \in Nat
          BY <1>1, <4>3, FilesType DEF Opening, Level
        <5>. QED
          BY <1>1, <2>2, <5>1
      <4>. QED
        BY <4>1, <4>2, <4>3
    <3>. QED
      BY <1>1, <2>1, <2>2, <2>3, <3>1 DEF Opening
  <2>6. Position'
    BY <2>1, <2>3 DEF Position
  <2>7. behind = 0
    BY <2>3 DEF Position
  <2>8. Late' /\ InStep'
    BY <2>1, <2>3, <2>7 DEF Late, InStep
  <2>. QED
    BY <2>4, <2>5, <2>6, <2>8
<1>4. CASE OpenFails \/ Start \/ Stop
  <2>1. TypeOK'
    BY <1>4 DEF OpenFails, Start, Stop, opening, loop, TypeOK
  <2>2. Opening'
    BY <1>1, <1>4 DEF OpenFails, Start, Stop, opening, loop, Opening
  <2>3. Position'
    BY <1>1, <1>4 DEF OpenFails, Start, Stop, opening, loop, Position, AtBoundary
  <2>4. Late' /\ InStep'
    BY <1>4, LateKept DEF OpenFails, Start, Stop, opening, loop
  <2>. QED
    BY <2>1, <2>2, <2>3, <2>4
<1>5. CASE Join \/ Enter \/ Top
  <2>1. TypeOK'
    BY <1>5 DEF Join, Enter, Top, Local, opening, loop, TypeOK
  <2>2. Opening'
    BY <1>1, <1>5 DEF Join, Enter, Top, Local, opening, loop, Opening
  <2>3. Position'
    BY <1>1, <1>5 DEF Join, Enter, Top, Local, opening, loop, Position, AtBoundary, Opening
  <2>4. Late' /\ InStep'
    BY <1>5, LateKept DEF Join, Enter, Top, Local, opening, loop
  <2>. QED
    BY <2>1, <2>2, <2>3, <2>4
<1>6. CASE Advance
  <2>1. /\ pc = "advance" /\ index < frameCount /\ offered = <<level, index>>
        /\ UNCHANGED <<content, readers, frameCount, target, running, stopCalled,
                       level, offered, delivered, lost, behind>>
    BY <1>6 DEF Advance, Local, opening, Position
  <2>2. \/ index' = index + 1 /\ pc' = "top" /\ index + 1 < frameCount
        \/ index' = 0 /\ pc' = "top"
        \/ index' = index + 1 /\ pc' = "exited"
    BY <1>6 DEF Advance
  <2>3. TypeOK'
    BY <1>1, <2>1, <2>2 DEF TypeOK
  <2>4. Opening'
    BY <1>1, <2>1, <2>2 DEF Opening
  <2>5. Position'
    BY <1>1, <2>1, <2>2 DEF Position, AtBoundary
  <2>6. Late' /\ InStep'
    BY <2>1, <2>2, LateKept
  <2>. QED
    BY <2>3, <2>4, <2>5, <2>6
<1>7. CASE UNCHANGED vars
  BY <1>1, <1>7 DEF vars, opening, loop, TypeOK, Opening, Position, AtBoundary,
                    Late, InStep
<1>. QED
  BY <1>2, <1>3, <1>4, <1>5, <1>6, <1>7, PickStep, OfferStep DEF Next, VideoLoop

LEMMA InvariantHolds == Spec => []Invariant
BY InitInvariant, StepInvariant, PTL DEF Spec

\* Types, and with them that every index into readers_ is a level.
THEOREM TypeCorrect == Spec => []TypeOK
BY InvariantHolds, PTL DEF Invariant

\* The frame the loop asks for always exists, so it never spins in the guard
\* behind frame_at (content_player.cpp:83-87).
THEOREM FramesAvailable == Spec => []FrameAvailable
<1>1. Invariant => FrameAvailable
  <2> SUFFICES ASSUME Invariant, pc = "pick"
               PROVE  index < Frames(Chosen)
    BY DEF FrameAvailable
  <2>1. Chosen \in Level /\ Chosen < readers
    BY ChosenType, ContentAssumption DEF Invariant, Opening, Level
  <2>2. /\ frameCount \in Nat /\ frameCount <= Frames(Chosen)
        /\ Frames(Chosen) \in Nat
    BY <2>1, FilesType DEF Invariant, TypeOK, Opening
  <2>. QED
    BY <2>2 DEF Invariant, TypeOK, Position
<1>. QED
  BY <1>1, InvariantHolds, PTL

\* Whatever group of pictures the target's file has, no more frames than that
\* go out between the ABR's decision and the switch (content_player.cpp:75-80).
THEOREM SwitchIsWithinGop == Spec => []SwitchWithinGop
<1>1. Invariant => SwitchWithinGop
  <2> SUFFICES ASSUME Invariant, NEW g \in 1 .. frameCount, KeyEvery(g), ~ (behind <= g)
               PROVE  FALSE
    BY DEF SwitchWithinGop
  <2>1. frameCount \in Nat /\ behind \in Nat /\ g \in Nat /\ g >= 1
    BY DEF Invariant, TypeOK
  <2>2. /\ offered[2] \in Nat /\ offered[2] < frameCount
        /\ \A j \in 0 .. behind - 2 : /\ offered[2] - j >= 1
                                      /\ ~ IsKeyframe(target, offered[2] - j)
    BY <2>1 DEF Invariant, Late
  <2>. DEFINE i == offered[2] - (g - 1)
  <2>3. g - 1 \in 0 .. behind - 2
    BY <2>1
  <2>4. i \in 1 .. frameCount - g
    BY <2>1, <2>2, <2>3
  <2>5. PICK k \in i .. i + g - 1 : IsKeyframe(target, k)
    BY <2>4 DEF KeyEvery
  <2>6. offered[2] - k \in 0 .. behind - 2 /\ offered[2] - (offered[2] - k) = k
    BY <2>1, <2>2, <2>4, <2>5
  <2>. QED
    BY <2>2, <2>5, <2>6
<1>. QED
  BY <1>1, InvariantHolds, PTL

\* What is about to be offered continues what was.
LEMMA OfferContinues ==
  ASSUME Invariant, Offer
  PROVE  offered' = <<level, index>> /\ Continues(<<level, index>>, offered)
<1>1. /\ offered' = <<level, index>>
      /\ IsKeyframe(level, index) \/ index = 0 \/ offered = <<level, index - 1>>
      /\ level \in Level /\ index \in Nat
  BY DEF Offer, Invariant, TypeOK, Position, AtBoundary
<1>2. IsKeyframe(level, 0)
  <2>1. level < readers /\ readers > 0
    BY <1>1, ContentAssumption DEF Offer, Invariant, Opening, Level
  <2>2. frameCount > 0 /\ frameCount <= Frames(level) /\ frameCount \in Nat
    BY <1>1, <2>1 DEF Invariant, Opening, TypeOK
  <2>. QED
    BY <1>1, <2>2, FilesType DEF Invariant
<1>3. CASE IsKeyframe(level, index)
  BY <1>1, <1>3 DEF Continues
<1>4. CASE offered = <<level, index - 1>> /\ index # 0
  <2>1. offered \in Level \X Nat /\ offered # NoFrame
    BY <1>1, <1>4, ContentAssumption
  <2>2. index = offered[2] + 1 /\ level = offered[1]
    BY <1>1, <1>4
  <2>. QED
    BY <1>1, <2>1, <2>2 DEF Continues
<1>. QED
  BY <1>1, <1>2, <1>3, <1>4

\* Steps but a send leave alone what was offered and delivered.
LEMMA OnlyOffer ==
  ASSUME [Next]_vars
  PROVE  \/ SendAccepted \/ SendFailed
         \/ offered' = offered /\ delivered' = delivered
BY DEF Next, vars, loop, Retarget, OpenLevel, OpenFails, Start, Stop, Join, VideoLoop,
       Enter, Top, Pick, Advance

\* Level switches never break a GOP: every frame offered is a keyframe or
\* follows the frame offered before it.
THEOREM GopUnbroken == Spec => OffersUnbrokenGop
<1>1. Invariant /\ [Next]_vars
        => [offered' # offered => Continues(offered', offered)]_vars
  BY OfferContinues, OnlyOffer DEF SendAccepted, SendFailed
<1>. QED
  BY <1>1, InvariantHolds, PTL DEF Spec, OffersUnbrokenGop

\* A receiver sees a broken GOP only after a refused send and before the next
\* keyframe (content_player.cpp:101-105).
THEOREM LossAloneBreaks == Spec => BrokenOnlyByLoss
<1>1. Invariant /\ [Next]_vars
        => [(delivered' # delivered /\ ~lost) => Continues(delivered', delivered)]_vars
  <2> SUFFICES ASSUME Invariant, [Next]_vars, delivered' # delivered, ~lost
               PROVE  Continues(delivered', delivered)
    OBVIOUS
  <2>1. SendAccepted
    BY OnlyOffer DEF SendFailed
  <2>2. delivered' = <<level, index>> /\ delivered = offered
    BY <2>1 DEF SendAccepted, Invariant, InStep
  <2>. QED
    BY <2>1, <2>2, OfferContinues DEF SendAccepted
<1>. QED
  BY <1>1, InvariantHolds, PTL DEF Spec, BrokenOnlyByLoss

\* Once stop() has cleared running_, nothing sets it again.
StopSticks == stopCalled => ~running

LEMMA StopStays == Spec => []StopSticks
<1>1. Init => StopSticks
  BY DEF Init, StopSticks
<1>2. StopSticks /\ [Next]_vars => StopSticks'
  BY DEF StopSticks, Next, vars, Retarget, OpenLevel, OpenFails, Start, Stop, Join,
         VideoLoop, Enter, Top, Pick, Offer, SendAccepted, SendFailed, Advance, Local
<1>. QED
  BY <1>1, <1>2, PTL DEF Spec

\* The video thread takes only the steps of a worker: it is created once, it
\* returns by itself, and it is joined only after running_ was cleared.
THEOREM VideoThreadIsWorker == Spec => Thread!Spec
<1>. DEFINE as == IF pc \in {"none", "exited", "joined"} THEN pc ELSE "alive"
<1>1. Init => Thread!Init
  BY DEF Init, Thread!Init
<1>2. StopSticks /\ [Next]_vars => [Thread!Next]_(Thread!vars)
  <2> SUFFICES ASSUME StopSticks, [Next]_vars
               PROVE  Thread!Next \/ UNCHANGED <<running, as>>
    BY DEF Thread!vars
  <2>. USE DEF Thread!Next
  <2>1. CASE Start
    BY <2>1 DEF Start, Thread!Start
  <2>2. CASE Stop \/ OpenFails
    BY <2>2 DEF Stop, OpenFails, Thread!ClearRunning
  <2>8. CASE OpenLevel
    BY <2>8 DEF OpenLevel
  <2>3. CASE Join
    BY <2>3 DEF Join, StopSticks, Thread!Join
  <2>4. CASE Top
    BY <2>4 DEF Top, Local, Thread!Exit
  <2>5. CASE Advance
    BY <2>5 DEF Advance, Local, Thread!Exit
  <2>6. CASE Enter \/ Pick \/ SendAccepted \/ SendFailed
    BY <2>6 DEF Enter, Pick, SendAccepted, SendFailed, Offer, Local
  <2>7. CASE UNCHANGED <<running, pc>>
    BY <2>7
  <2>. QED
    BY <2>1, <2>2, <2>3, <2>4, <2>5, <2>6, <2>7, <2>8
       DEF Next, vars, Retarget, VideoLoop
<1>. QED
  BY <1>1, <1>2, StopStays, PTL DEF Spec, Thread!Spec
=============================================================================
