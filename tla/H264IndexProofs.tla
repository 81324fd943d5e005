---------------------------- MODULE H264IndexProofs ----------------------------
(***************************************************************************)
(* For every file content, the frames H264Reader indexes lie one after the *)
(* other inside the mapping; for what an encoder writes, they are its      *)
(* pictures.                                                               *)
(***************************************************************************)
EXTENDS H264Index, TLAPS

\* What the passes keep: start codes are found in ascending order behind the
\* scan position, and no frame reaches into the access unit being collected.
Ascending ==
    /\ \A k \in 1 .. Len(nals) : nals[k].start + 3 <= Size /\ nals[k].start < i
    /\ \A k \in 1 .. Len(nals) - 1 : nals[k].start < nals[k + 1].start

Collected ==
    /\ ~auOpen => n = 0 /\ frames = << >>
    /\ auOpen => n >= 1 /\ auStart <= nals[n].start
    /\ pass = "scan" => n = 0 /\ ~auOpen
    /\ pass = "group" => \A k \in 1 .. Len(frames) : FrameEnd(frames[k]) <= auStart

Inv == TypeOK /\ Ascending /\ Collected /\ FramesInOrder

-----------------------------------------------------------------------------
\* An element of a sequence over a set is in the set.
LEMMA ElementIn ==
    ASSUME NEW S, NEW s \in Seq(S), NEW k \in 1 .. Len(s)
    PROVE  s[k] \in S
PROOF OBVIOUS

\* What is appended comes last, behind what was there.
LEMMA AppendFacts ==
    ASSUME NEW S, NEW s \in Seq(S), NEW x \in S
    PROVE  /\ Len(Append(s, x)) = Len(s) + 1
           /\ \A k \in 1 .. Len(s) : Append(s, x)[k] = s[k]
           /\ Append(s, x)[Len(s) + 1] = x
PROOF OBVIOUS

\* Every NAL unit found has an offset.
LEMMA NalTyped ==
    ASSUME TypeOK, NEW k \in 1 .. Len(nals)
    PROVE  nals[k] \in Nal /\ nals[k].start \in Nat
PROOF
<1>1. nals[k] \in Nal
  BY ElementIn DEF TypeOK
<1>. QED BY <1>1 DEF Nal

\* A start code within the bytes has three or four of them.
LEMMA StartCodeFits ==
    ASSUME NEW b, Len(b) \in Nat, NEW p \in Nat, StartCodeLen(b, p) # 0
    PROVE  StartCodeLen(b, p) \in {3, 4} /\ p + StartCodeLen(b, p) <= Len(b)
PROOF
<1>1. Len(<<0, 0, 1>>) = 3 /\ Len(<<0, 0, 0, 1>>) = 4
  OBVIOUS
<1>2. CASE Reads(b, <<0, 0, 1>>, p)
  BY <1>1, <1>2 DEF StartCodeLen, Reads
<1>3. CASE ~Reads(b, <<0, 0, 1>>, p)
  <2>1. Reads(b, <<0, 0, 0, 1>>, p) /\ StartCodeLen(b, p) = 4
    BY <1>3 DEF StartCodeLen
  <2>. QED BY <2>1, <1>1 DEF Reads
<1>. QED BY <1>2, <1>3

\* The header byte is a byte, also when it lies beyond the file.
LEMMA TypeInRange ==
    ASSUME NEW b \in Seq(0 .. 255), NEW p \in Nat
    PROVE  NalType(b, p) \in 0 .. 31
PROOF
<1>1. CASE p < Len(b)
  <2>0. p + 1 \in 1 .. Len(b)
    BY <1>1
  <2>1. b[p + 1] \in 0 .. 255
    BY <2>0, ElementIn
  <2>2. HeaderByte(b, p) = b[p + 1]
    BY <1>1 DEF HeaderByte, At
  <2>3. NalType(b, p) = b[p + 1] % 32
    BY <2>2 DEF NalType
  <2>4. \A x \in 0 .. 255 : x % 32 \in 0 .. 31
    OBVIOUS
  <2>5. b[p + 1] % 32 \in 0 .. 31
    BY <2>1, <2>4
  <2>. QED BY <2>3, <2>5
<1>2. CASE ~(p < Len(b))
  <2>1. HeaderByte(b, p) = 0
    BY <1>2 DEF HeaderByte
  <2>. QED BY <2>1 DEF NalType
<1>. QED BY <1>1, <1>2

\* Closing at an end behind auStart keeps frames typed, in order, and ending
\* no later than that end.
LEMMA CloseInOrder ==
    ASSUME Inv, pass = "group", NEW end \in Nat, auOpen => auStart < end, end <= Size
    PROVE  /\ Closed(end) \in Seq(AccessUnit)
           /\ \A k \in DOMAIN Closed(end) :
                 Closed(end)[k].length > 0 /\ FrameEnd(Closed(end)[k]) <= Size
           /\ \A k \in DOMAIN Closed(end) :
                 k > 1 => FrameEnd(Closed(end)[k - 1]) <= Closed(end)[k].offset
           /\ \A k \in 1 .. Len(Closed(end)) : FrameEnd(Closed(end)[k]) <= end
PROOF
<1>. USE DEF Inv
<1>1. CASE ~(auOpen /\ auHasVcl)
  <2>1. Closed(end) = frames
    BY <1>1 DEF Closed
  <2>2. \A k \in 1 .. Len(frames) : FrameEnd(frames[k]) <= end
    <3>1. CASE auOpen
      <4>. SUFFICES ASSUME NEW k \in 1 .. Len(frames)
                    PROVE  FrameEnd(frames[k]) <= end
        OBVIOUS
      <4>1. frames[k] \in AccessUnit
        BY DEF TypeOK
      <4>2. FrameEnd(frames[k]) \in Int
        BY <4>1 DEF FrameEnd, AccessUnit
      <4>. QED BY <3>1, <4>2 DEF Collected, TypeOK
    <3>2. CASE ~auOpen
      BY <3>2 DEF Collected
    <3>. QED BY <3>1, <3>2
  <2>. QED BY <2>1, <2>2 DEF TypeOK, FramesInOrder
<1>2. CASE auOpen /\ auHasVcl
  <2>. DEFINE au == [offset |-> auStart, length |-> end - auStart,
                     is_keyframe |-> auHasIdr]
  <2>1. Closed(end) = Append(frames, au)
    BY <1>2 DEF Closed
  <2>2. au \in AccessUnit /\ au.length > 0 /\ FrameEnd(au) = end
    BY <1>2 DEF TypeOK, AccessUnit, FrameEnd
  <2>3. /\ frames \in Seq(AccessUnit)
        /\ Len(frames) \in Nat
        /\ DOMAIN frames = 1 .. Len(frames)
    BY DEF TypeOK
  <2>4. \A k \in 1 .. Len(frames) : /\ FrameEnd(frames[k]) \in Int
                                    /\ FrameEnd(frames[k]) <= auStart
                                    /\ frames[k].length > 0
    <3>1. \A k \in 1 .. Len(frames) : frames[k] \in AccessUnit
      BY <2>3
    <3>2. \A k \in 1 .. Len(frames) : FrameEnd(frames[k]) \in Int
      BY <3>1 DEF FrameEnd, AccessUnit
    <3>. QED BY <3>2, <2>3 DEF Collected, FramesInOrder
  <2>5. /\ Len(Append(frames, au)) = Len(frames) + 1
        /\ DOMAIN Append(frames, au) = 1 .. Len(frames) + 1
        /\ \A k \in 1 .. Len(frames) : Append(frames, au)[k] = frames[k]
        /\ Append(frames, au)[Len(frames) + 1] = au
        /\ Append(frames, au) \in Seq(AccessUnit)
    BY <2>2, <2>3
  <2>6. auStart \in Nat /\ Size \in Nat /\ au.offset = auStart
    BY DEF TypeOK, Size
  <2>7. \A k \in 1 .. Len(frames) + 1 :
           /\ Append(frames, au)[k].length > 0
           /\ FrameEnd(Append(frames, au)[k]) <= end
    <3>. SUFFICES ASSUME NEW k \in 1 .. Len(frames) + 1
                  PROVE  /\ Append(frames, au)[k].length > 0
                         /\ FrameEnd(Append(frames, au)[k]) <= end
      OBVIOUS
    <3>1. CASE k = Len(frames) + 1
      BY <3>1, <2>2, <2>5
    <3>2. CASE k \in 1 .. Len(frames)
      BY <3>2, <2>4, <2>5, <2>6, <1>2
    <3>. QED BY <3>1, <3>2, <2>3
  <2>8. \A k \in 1 .. Len(frames) + 1 :
           k > 1 => FrameEnd(Append(frames, au)[k - 1]) <= Append(frames, au)[k].offset
    <3>. SUFFICES ASSUME NEW k \in 1 .. Len(frames) + 1, k > 1
                  PROVE  FrameEnd(Append(frames, au)[k - 1]) <= Append(frames, au)[k].offset
      OBVIOUS
    <3>0. k - 1 \in 1 .. Len(frames)
      BY <2>3
    <3>1. CASE k = Len(frames) + 1
      BY <3>0, <3>1, <2>4, <2>5, <2>6
    <3>2. CASE k \in 1 .. Len(frames)
      BY <3>0, <3>2, <2>5, <2>3 DEF FramesInOrder
    <3>. QED BY <3>1, <3>2, <2>3
  <2>9. \A k \in 1 .. Len(frames) + 1 : FrameEnd(Append(frames, au)[k]) <= Size
    <3>. SUFFICES ASSUME NEW k \in 1 .. Len(frames) + 1
                  PROVE  FrameEnd(Append(frames, au)[k]) <= Size
      OBVIOUS
    <3>1. CASE k = Len(frames) + 1
      BY <3>1, <2>2, <2>5
    <3>2. CASE k \in 1 .. Len(frames)
      BY <3>2, <2>5, <2>3 DEF FramesInOrder
    <3>. QED BY <3>1, <3>2, <2>3
  <2>. HIDE DEF au
  <2>. QED BY <2>1, <2>5, <2>7, <2>8, <2>9
<1>. QED BY <1>1, <1>2

-----------------------------------------------------------------------------
LEMMA Initially == Init => Inv
PROOF
<1>. SUFFICES ASSUME Init PROVE Inv
  OBVIOUS
<1>1. file.bytes \in Seq(0 .. 255)
  BY FilesAssumption DEF Init
<1>2. nals \in Seq(Nal) /\ frames \in Seq(AccessUnit) /\ n \in 0 .. Len(nals)
  BY DEF Init
<1>3. TypeOK
  BY <1>1, <1>2 DEF Init, TypeOK
<1>. QED BY <1>3 DEF Init, Inv, Ascending, Collected, FramesInOrder

LEMMA StepKeeps == Inv /\ [Next]_vars => Inv'
PROOF
<1>. SUFFICES ASSUME Inv, [Next]_vars PROVE Inv'
  OBVIOUS
<1>. USE DEF Inv
<1>0. Size \in Nat /\ nals \in Seq(Nal) /\ Len(nals) \in Nat /\ i \in Nat /\ n \in Nat
  BY DEF TypeOK, Size
<1>1. CASE SkipByte
  <2>1. /\ i' = i + 1
        /\ UNCHANGED <<file, pass, nals, n, auStart, auOpen, auHasVcl, auHasIdr, frames>>
    BY <1>1 DEF SkipByte, Scan, groupVars
  <2>2. TypeOK' /\ Collected' /\ FramesInOrder'
    BY <2>1, <1>0 DEF TypeOK, Collected, FramesInOrder, Size, FrameEnd
  <2>3. \A k \in 1 .. Len(nals) : nals[k].start + 3 <= Size /\ nals[k].start < i + 1
    BY NalTyped, <1>0 DEF Ascending
  <2>4. Ascending'
    BY <2>1, <2>3 DEF Ascending, Size
  <2>. QED BY <2>2, <2>4
<1>2. CASE FindNal
  <2>. DEFINE header == i + StartCodeLen(file.bytes, i)
  <2>. DEFINE nal == [start |-> i, payload |-> header + 1, type |-> NalType(file.bytes, header)]
  <2>1. StartCodeLen(file.bytes, i) \in {3, 4} /\ header <= Size /\ header \in Nat
    BY <1>2, <1>0, StartCodeFits DEF FindNal, Size
  <2>2. nal \in Nal
    <3>1. NalType(file.bytes, header) \in 0 .. 31
      BY <2>1, TypeInRange DEF TypeOK
    <3>. QED BY <3>1, <2>1, <1>0 DEF Nal
  <2>3. nals' = Append(nals, nal) /\ i' = header + 1
    BY <1>2 DEF FindNal
  <2>4. UNCHANGED <<file, pass, n, auStart, auOpen, auHasVcl, auHasIdr, frames>>
        /\ pass = "scan"
    BY <1>2 DEF FindNal, Scan, groupVars
  <2>5. /\ Len(nals') = Len(nals) + 1
        /\ nals' \in Seq(Nal)
        /\ \A k \in 1 .. Len(nals) : nals'[k] = nals[k]
        /\ nals'[Len(nals) + 1] = nal
    BY <2>2, <2>3, <1>0
  <2>6. nal.start = i /\ i + 3 <= Size /\ i < i' /\ i' \in Nat
    BY <2>1, <2>3, <1>0
  <2>7. TypeOK'
    BY <2>4, <2>5, <2>6, <1>0 DEF TypeOK
  <2>8. Ascending'
    <3>. HIDE DEF nal
    <3>1. \A k \in 1 .. Len(nals) : nals[k].start \in Nat
      BY NalTyped
    <3>2. ASSUME NEW k \in 1 .. Len(nals) + 1
          PROVE  nals'[k].start + 3 <= Size' /\ nals'[k].start < i'
      <4>1. Size' = Size
        BY <2>4 DEF Size
      <4>2. CASE k = Len(nals) + 1
        BY <4>1, <4>2, <2>5, <2>6, <1>0
      <4>3. CASE k \in 1 .. Len(nals)
        BY <4>1, <4>3, <2>5, <2>6, <3>1, <1>0 DEF Ascending
      <4>. QED BY <4>2, <4>3, <1>0
    <3>3. ASSUME NEW k \in 1 .. Len(nals)
          PROVE  nals'[k].start < nals'[k + 1].start
      <4>1. CASE k = Len(nals)
        BY <4>1, <2>5, <2>6, <1>0 DEF Ascending
      <4>2. CASE k \in 1 .. Len(nals) - 1
        BY <4>2, <2>5, <1>0 DEF Ascending
      <4>. QED BY <4>1, <4>2, <1>0
    <3>. QED BY <3>2, <3>3, <2>5, <1>0 DEF Ascending
  <2>9. Collected'
    BY <2>4, <2>5, <1>0 DEF Collected
  <2>10. FramesInOrder'
    BY <2>4 DEF FramesInOrder, Size, FrameEnd
  <2>. QED BY <2>7, <2>8, <2>9, <2>10
<1>3. CASE ScanDone
  <2>1. UNCHANGED <<file, i, nals, n, auStart, auOpen, auHasVcl, auHasIdr, frames>>
        /\ pass = "scan" /\ pass' = "group"
    BY <1>3 DEF ScanDone, scanVars, groupVars
  <2>. QED BY <2>1, <1>0 DEF TypeOK, Ascending, Collected, FramesInOrder, Size, FrameEnd
<1>4. CASE OpenAu
  <2>. DEFINE nal == nals[n + 1]
  <2>1. /\ pass = "group" /\ n < Len(nals) /\ n' = n + 1
        /\ UNCHANGED <<file, pass, i, nals>>
        /\ frames' = Closed(nal.start)
        /\ auOpen' = TRUE /\ auStart' = nal.start
        /\ auHasVcl' = IsVcl(nal.type) /\ auHasIdr' = (nal.type = 5)
    BY <1>4 DEF OpenAu, Group, scanVars
  <2>2. nal \in Nal /\ nal.start \in Nat /\ nal.start <= Size
    <3>1. n + 1 \in 1 .. Len(nals)
      BY <2>1, <1>0
    <3>2. nal \in Nal /\ nal.start \in Nat
      BY <3>1, NalTyped
    <3>. QED BY <3>1, <3>2, <1>0 DEF Ascending
  <2>3. auOpen => auStart < nal.start
    <3>. SUFFICES ASSUME auOpen PROVE auStart < nal.start
      OBVIOUS
    <3>1. n \in 1 .. Len(nals) - 1 /\ auStart <= nals[n].start /\ auStart \in Nat
      BY <2>1, <1>0 DEF Collected, TypeOK
    <3>2. nals[n].start < nals[n + 1].start /\ nals[n].start \in Nat
      BY <3>1, <1>0, NalTyped DEF Ascending
    <3>. QED BY <3>1, <3>2, <2>2
  <2>4. Size' = Size
    BY <2>1 DEF Size
  <2>5. /\ frames' \in Seq(AccessUnit)
        /\ FramesInOrder'
        /\ \A k \in 1 .. Len(frames') : FrameEnd(frames'[k]) <= auStart'
    BY <2>1, <2>2, <2>3, <2>4, CloseInOrder DEF FramesInOrder, FrameEnd
  <2>6. TypeOK'
    BY <2>1, <2>2, <2>5, <1>0 DEF TypeOK, IsVcl
  <2>7. Ascending'
    BY <2>1, <2>4 DEF Ascending
  <2>8. Collected'
    BY <2>1, <2>2, <2>5, <1>0 DEF Collected, FrameEnd
  <2>. QED BY <2>5, <2>6, <2>7, <2>8
<1>5. CASE ExtendAu
  <2>1. /\ pass = "group" /\ n < Len(nals) /\ n' = n + 1 /\ auOpen
        /\ UNCHANGED <<file, pass, i, nals, auStart, auOpen, frames>>
        /\ auHasVcl' \in BOOLEAN /\ auHasIdr' \in BOOLEAN
    BY <1>5 DEF ExtendAu, Group, scanVars, ContinuesAu
  <2>2. auStart <= nals'[n'].start
    <3>1. n \in 1 .. Len(nals) - 1 /\ auStart <= nals[n].start /\ auStart \in Nat
      BY <2>1, <1>0 DEF Collected, TypeOK
    <3>2. /\ nals[n].start < nals[n + 1].start
          /\ nals[n].start \in Nat /\ nals[n + 1].start \in Nat
      BY <3>1, <1>0, NalTyped DEF Ascending
    <3>. QED BY <3>1, <3>2, <2>1
  <2>3. TypeOK'
    BY <2>1, <1>0 DEF TypeOK
  <2>4. Ascending' /\ FramesInOrder'
    BY <2>1 DEF Ascending, FramesInOrder, Size, FrameEnd
  <2>5. Collected'
    BY <2>1, <2>2, <1>0 DEF Collected, FrameEnd
  <2>. QED BY <2>3, <2>4, <2>5
<1>6. CASE GroupDone
  <2>1. /\ pass = "group" /\ n = Len(nals) /\ pass' = "done"
        /\ UNCHANGED <<file, i, nals, n, auStart, auOpen, auHasVcl, auHasIdr>>
        /\ frames' = Closed(Size)
    BY <1>6 DEF GroupDone, scanVars
  <2>2. auOpen => auStart < Size
    <3>. SUFFICES ASSUME auOpen PROVE auStart < Size
      OBVIOUS
    <3>1. n \in 1 .. Len(nals) /\ auStart <= nals[n].start /\ auStart \in Nat
      BY <2>1, <1>0 DEF Collected, TypeOK
    <3>2. nals[n].start \in Nat /\ nals[n].start + 3 <= Size
      BY <3>1, NalTyped DEF Ascending
    <3>. QED BY <3>1, <3>2, <1>0
  <2>3. Size' = Size
    BY <2>1 DEF Size
  <2>4. frames' \in Seq(AccessUnit) /\ FramesInOrder'
    BY <2>1, <2>2, <2>3, <1>0, CloseInOrder DEF FramesInOrder, FrameEnd
  <2>5. TypeOK'
    BY <2>1, <2>4 DEF TypeOK
  <2>6. Ascending'
    BY <2>1, <2>3 DEF Ascending
  <2>7. Collected'
    <3>1. ~auOpen => frames' = << >>
      BY <2>1 DEF Collected, Closed
    <3>. QED BY <2>1, <3>1 DEF Collected
  <2>. QED BY <2>4, <2>5, <2>6, <2>7
<1>7. CASE UNCHANGED vars
  BY <1>7 DEF vars, TypeOK, Ascending, Collected, FramesInOrder, Size, FrameEnd
<1>. QED BY <1>1, <1>2, <1>3, <1>4, <1>5, <1>6, <1>7 DEF Next

LEMMA InvariantHolds == Spec => []Inv
PROOF BY Initially, StepKeeps, PTL DEF Spec

\* The index is well typed: whatever the bytes, a type is five bits and a
\* frame has an offset in the file.
THEOREM TypeCorrect == Spec => []TypeOK
PROOF
<1>1. Inv => TypeOK
  BY DEF Inv
<1>. QED BY <1>1, InvariantHolds, PTL

\* Whatever the bytes of the file, no frame is empty, none overlaps another
\* and none leaves the mapping.
THEOREM FramesAreInOrder == Spec => []FramesInOrder
PROOF
<1>1. Inv => FramesInOrder
  BY DEF Inv
<1>. QED BY <1>1, InvariantHolds, PTL

-----------------------------------------------------------------------------
(* What an encoder writes: files that satisfy Coded *)

\* What int total_bits = int(size) * 8 is when the product fits: itself.
LEMMA BitsFit ==
    ASSUME NEW size \in Nat, size > 0, 8 * size <= IntMax, NEW bits \in TotalBits(size)
    PROVE  bits > 0
PROOF
<1>1. IntMax \in Nat
  BY FilesAssumption
<1>2. ASSUME NEW a \in Nat, NEW d \in Nat, a < d
      PROVE  a % d = a
  BY <1>2
<1>3. WrapInt(8 * size) = 8 * size
  <2>1. /\ 8 * size + IntMax + 1 \in Nat
        /\ 2 * (IntMax + 1) \in Nat
        /\ 8 * size + IntMax + 1 < 2 * (IntMax + 1)
    BY <1>1
  <2>2. (8 * size + IntMax + 1) % (2 * (IntMax + 1)) = 8 * size + IntMax + 1
    BY <2>1, <1>2
  <2>. QED BY <2>2, <1>1 DEF WrapInt
<1>. QED BY <1>3 DEF TotalBits

\* Where a unit lies.
LEMMA UnitFacts ==
    ASSUME NEW f, f.bytes \in Seq(0 .. 255), Coded(f), NEW k \in 1 .. Len(f.units)
    PROVE  /\ f.units[k].start \in Nat
           /\ f.units[k].payload \in Nat
           /\ f.units[k].type \in 0 .. 31
           /\ f.units[k].picture \in Nat
           /\ StartCodeLen(f.bytes, f.units[k].start) # 0
           /\ f.units[k].payload =
                 f.units[k].start + StartCodeLen(f.bytes, f.units[k].start) + 1
           /\ f.units[k].type = NalType(f.bytes, f.units[k].payload - 1)
           /\ f.units[k].start < f.units[k].payload
           /\ f.units[k].start + 3 <= Len(f.bytes)
PROOF
<1>1. f.units \in Seq(Unit) /\ k \in DOMAIN f.units /\ Len(f.bytes) \in Nat
  BY DEF Coded, LaidOut
<1>2. f.units[k] \in Unit
  BY <1>1, ElementIn
<1>3. /\ f.units[k].start \in Nat
      /\ f.units[k].payload \in Nat
      /\ f.units[k].type \in 0 .. 31
      /\ f.units[k].picture \in Nat
  BY <1>2 DEF Unit
<1>4. /\ StartCodeLen(f.bytes, f.units[k].start) # 0
      /\ f.units[k].payload =
            f.units[k].start + StartCodeLen(f.bytes, f.units[k].start) + 1
      /\ f.units[k].type = NalType(f.bytes, f.units[k].payload - 1)
  BY <1>1 DEF Coded, LaidOut
<1>5. /\ StartCodeLen(f.bytes, f.units[k].start) \in {3, 4}
      /\ f.units[k].start + StartCodeLen(f.bytes, f.units[k].start) <= Len(f.bytes)
  BY <1>1, <1>3, <1>4, StartCodeFits
<1>6. \A s, l \in Nat, c \in {3, 4} : s + c <= l => s < s + c + 1 /\ s + 3 <= l
  OBVIOUS
<1>7. /\ f.units[k].start <
            f.units[k].start + StartCodeLen(f.bytes, f.units[k].start) + 1
      /\ f.units[k].start + 3 <= Len(f.bytes)
  BY <1>1, <1>3, <1>5, <1>6
<1>8. f.units[k].start < f.units[k].payload
  BY <1>4, <1>7
<1>. QED BY <1>3, <1>4, <1>7, <1>8

\* Which picture a unit belongs to, and what it is there.
LEMMA PictureFacts ==
    ASSUME NEW f, Coded(f), NEW k \in 1 .. Len(f.units), NEW j, j = f.units[k].picture
    PROVE  /\ Len(f.pictures) \in Nat
           /\ j \in 1 .. Len(f.pictures) + 1
           /\ j <= Len(f.pictures) /\ OpensPicture(f, k) =>
                 f.pictures[j].offset = f.units[k].start
           /\ j <= Len(f.pictures) /\ ClosesPicture(f, k) =>
                 /\ IsVcl(f.units[k].type)
                 /\ FrameEnd(f.pictures[j]) = UnitEnd(f, k)
           /\ IsVcl(f.units[k].type) =>
                 /\ j <= Len(f.pictures)
                 /\ ClosesPicture(f, k) \/ IsVcl(f.units[k + 1].type)
                 /\ f.units[k].payload < Len(f.bytes)
                 /\ At(f.bytes, f.units[k].payload) >= 128 <=>
                       OpensPicture(f, k) \/ ~IsVcl(f.units[k - 1].type)
PROOF
<1>1. f.units \in Seq(Unit) /\ k \in DOMAIN f.units
  BY DEF Coded, LaidOut
<1>2. Len(f.pictures) \in Nat /\ DOMAIN f.pictures = 1 .. Len(f.pictures)
  BY DEF Coded, Grouped
<1>3. j \in 1 .. Len(f.pictures) + 1
  BY <1>1 DEF Coded, Grouped
<1>4. j <= Len(f.pictures) => j \in DOMAIN f.pictures
  BY <1>2, <1>3
<1>5. j \in DOMAIN f.pictures =>
         /\ OpensPicture(f, k) => f.pictures[j].offset = f.units[k].start
         /\ ClosesPicture(f, k) => /\ IsVcl(f.units[k].type)
                                   /\ FrameEnd(f.pictures[j]) = UnitEnd(f, k)
  BY <1>1 DEF Coded, Grouped
<1>6. IsVcl(f.units[k].type) =>
         /\ j \in DOMAIN f.pictures
         /\ ClosesPicture(f, k) \/ IsVcl(f.units[k + 1].type)
         /\ f.units[k].payload < Len(f.bytes)
         /\ At(f.bytes, f.units[k].payload) >= 128 <=>
               OpensPicture(f, k) \/ ~IsVcl(f.units[k - 1].type)
  BY <1>1 DEF Coded, Grouped
<1>7. j \in DOMAIN f.pictures => j <= Len(f.pictures)
  BY <1>2
<1>8. IsVcl(f.units[k].type) => j <= Len(f.pictures)
  BY <1>6, <1>7
<1>9. j <= Len(f.pictures) /\ OpensPicture(f, k) => f.pictures[j].offset = f.units[k].start
  BY <1>4, <1>5
<1>10. j <= Len(f.pictures) /\ ClosesPicture(f, k) =>
          /\ IsVcl(f.units[k].type)
          /\ FrameEnd(f.pictures[j]) = UnitEnd(f, k)
  BY <1>4, <1>5
<1>. QED BY <1>2, <1>3, <1>6, <1>8, <1>9, <1>10

\* A unit is not of an earlier picture than one before it.
LEMMA PicturesAscend ==
    ASSUME NEW f, Coded(f), NEW k \in 1 .. Len(f.units), NEW l \in 1 .. Len(f.units), k < l
    PROVE  f.units[k].picture <= f.units[l].picture
PROOF
<1>1. DOMAIN f.units = 1 .. Len(f.units)
  BY DEF Coded, LaidOut
<1>2. \A x, y \in DOMAIN f.units : x < y => f.units[x].picture <= f.units[y].picture
  BY DEF Coded, Grouped
<1>. QED BY <1>1, <1>2

\* Pictures come one after the other: the units begin with the first, and
\* where the picture changes the next one begins.
LEMMA NextPicture ==
    ASSUME NEW f, f.bytes \in Seq(0 .. 255), Coded(f), NEW k \in 1 .. Len(f.units)
    PROVE  /\ k = 1 => f.units[k].picture = 1
           /\ k > 1 => f.units[k].picture \in {f.units[k - 1].picture,
                                               f.units[k - 1].picture + 1}
PROOF
<1>. DEFINE pic(l) == f.units[l].picture
<1>0. f.units \in Seq(Unit) /\ DOMAIN f.units = 1 .. Len(f.units) /\ Len(f.units) \in Nat
  BY DEF Coded, LaidOut
<1>1. Len(f.pictures) \in Nat /\ DOMAIN f.pictures = 1 .. Len(f.pictures)
  BY DEF Coded, Grouped
<1>2. \A l \in 1 .. Len(f.units) : pic(l) \in 1 .. Len(f.pictures) + 1
  BY <1>0 DEF Coded, Grouped
<1>3. \A l, m \in 1 .. Len(f.units) : l < m => pic(l) <= pic(m)
  BY <1>0 DEF Coded, Grouped
<1>4. \A j \in 1 .. Len(f.pictures) : \E l \in 1 .. Len(f.units) : pic(l) = j
  BY <1>0, <1>1 DEF Coded, Grouped
<1>. HIDE DEF pic
<1>5. ASSUME k = 1 PROVE pic(k) = 1
  <2>. SUFFICES ASSUME pic(k) # 1 PROVE FALSE
    OBVIOUS
  <2>1. 1 \in 1 .. Len(f.pictures)
    BY <1>1, <1>2
  <2>2. PICK l \in 1 .. Len(f.units) : pic(l) = 1
    BY <2>1, <1>4
  <2>3. l = k \/ k < l
    BY <1>5
  <2>4. pic(k) \in Nat /\ pic(k) > 1
    BY <1>1, <1>2
  <2>. QED BY <1>3, <2>2, <2>3, <2>4
<1>6. ASSUME k > 1 PROVE pic(k) \in {pic(k - 1), pic(k - 1) + 1}
  <2>1. k - 1 \in 1 .. Len(f.units) /\ k - 1 < k
    BY <1>0, <1>6
  <2>2. pic(k - 1) <= pic(k)
    BY <2>1, <1>3
  <2>3. pic(k) \in 1 .. Len(f.pictures) + 1 /\ pic(k - 1) \in 1 .. Len(f.pictures) + 1
    BY <2>1, <1>2
  <2>. SUFFICES ASSUME pic(k) > pic(k - 1) + 1 PROVE FALSE
    BY <2>2, <2>3, <1>1
  <2>4. pic(k - 1) + 1 \in 1 .. Len(f.pictures)
    BY <2>3, <1>1
  <2>5. PICK l \in 1 .. Len(f.units) : pic(l) = pic(k - 1) + 1
    BY <2>4, <1>4
  <2>6. l = k - 1 \/ l < k - 1 \/ l = k \/ k < l
    BY <1>0
  <2>7. pic(l) <= pic(k - 1) \/ pic(k) <= pic(l)
    <3>1. CASE l = k - 1
      BY <3>1, <2>2, <2>3, <2>5
    <3>2. CASE l < k - 1
      BY <3>2, <2>1, <1>3
    <3>3. CASE l = k
      BY <3>3, <2>3
    <3>4. CASE k < l
      BY <3>4, <1>3
    <3>. QED BY <3>1, <3>2, <3>3, <3>4, <2>6
  <2>. QED BY <2>3, <2>5, <2>7, <1>1
<1>. QED BY <1>5, <1>6 DEF pic

\* No unit behind the k-th is of picture j.
NoneBehind(f, k, j) == \A l \in k + 1 .. Len(f.units) : f.units[l].picture # j

\* One of the first k units is an IDR slice of picture j.
IdrUpTo(f, k, j) == \E l \in 1 .. k : f.units[l].picture = j /\ f.units[l].type = 5

\* The keyframe flag of a picture that is over is settled by the units so far.
LEMMA KeyframeSettled ==
    ASSUME NEW f, Coded(f), NEW k \in 1 .. Len(f.units), NEW j \in 1 .. Len(f.pictures),
           NoneBehind(f, k, j)
    PROVE  f.pictures[j].is_keyframe <=> IdrUpTo(f, k, j)
PROOF
<1>1. DOMAIN f.units = 1 .. Len(f.units) /\ Len(f.units) \in Nat
  BY DEF Coded, LaidOut
<1>2. j \in DOMAIN f.pictures
  BY DEF Coded, Grouped
<1>3. \A x \in DOMAIN f.pictures :
         f.pictures[x].is_keyframe <=>
            \E l \in DOMAIN f.units : f.units[l].picture = x /\ f.units[l].type = 5
  BY DEF Coded, Grouped
<1>4. f.pictures[j].is_keyframe <=> IdrUpTo(f, Len(f.units), j)
  BY <1>1, <1>2, <1>3 DEF IdrUpTo
<1>5. \A l \in 1 .. Len(f.units) : l \in 1 .. k \/ l \in k + 1 .. Len(f.units)
  BY <1>1
<1>6. \A l \in 1 .. k : l \in 1 .. Len(f.units)
  BY <1>1
<1>7. IdrUpTo(f, Len(f.units), j) <=> IdrUpTo(f, k, j)
  BY <1>5, <1>6 DEF NoneBehind, IdrUpTo
<1>. QED BY <1>4, <1>7

\* Where a start code is read, the unit it begins has not been passed.
LEMMA UnitAt ==
    ASSUME NEW f, f.bytes \in Seq(0 .. 255), Coded(f),
           NEW m \in 0 .. Len(f.units), NEW p \in Nat, p + 3 <= Len(f.bytes),
           m > 0 => f.units[m].payload <= p,
           m < Len(f.units) => p <= f.units[m + 1].start,
           StartCodeLen(f.bytes, p) # 0
    PROVE  m < Len(f.units) /\ p = f.units[m + 1].start
PROOF
<1>0. f.units \in Seq(Unit) /\ DOMAIN f.units = 1 .. Len(f.units) /\ Len(f.units) \in Nat
      /\ Len(f.bytes) \in Nat
  BY DEF Coded, LaidOut
<1>1. p \in 0 .. Len(f.bytes) - 3
  BY <1>0
<1>2. PICK k \in 1 .. Len(f.units) : f.units[k].start <= p /\ p < f.units[k].payload
  BY <1>0, <1>1 DEF Coded, LaidOut
<1>3. f.units[k].start \in Nat /\ f.units[k].payload \in Nat
  BY UnitFacts
<1>4. \A l, o \in 1 .. Len(f.units) : l < o => f.units[l].payload <= f.units[o].start
  BY <1>0 DEF Coded, LaidOut
<1>5. k > m
  <2>. SUFFICES ASSUME k <= m PROVE FALSE
    BY <1>0
  <2>1. m \in 1 .. Len(f.units) /\ f.units[m].payload <= p
    BY <1>0
  <2>2. f.units[m].start \in Nat /\ f.units[m].payload \in Nat
        /\ f.units[m].start < f.units[m].payload
    BY <2>1, UnitFacts
  <2>3. CASE k = m
    BY <2>1, <2>3, <1>2, <1>3
  <2>4. CASE k < m
    <3>1. f.units[k].payload <= f.units[m].start
      BY <2>1, <2>4, <1>4
    <3>2. p < f.units[k].payload
      BY <1>2
    <3>3. p < f.units[m].start
      BY <3>1, <3>2, <2>2, <1>3
    <3>. QED BY <3>3, <2>1, <2>2
  <2>. QED BY <2>3, <2>4, <2>1, <1>0
<1>6. m + 1 \in 1 .. Len(f.units) /\ m < Len(f.units)
  BY <1>5, <1>0
<1>7. f.units[m + 1].start \in Nat /\ f.units[m + 1].payload \in Nat
      /\ f.units[m + 1].start < f.units[m + 1].payload
  BY <1>6, UnitFacts
<1>8. k = m + 1
  <2>. SUFFICES ASSUME m + 1 < k PROVE FALSE
    BY <1>5, <1>0
  <2>1. f.units[m + 1].payload <= f.units[k].start
    BY <1>4, <1>6
  <2>2. p <= f.units[m + 1].start
    BY <1>6
  <2>3. f.units[k].start <= p
    BY <1>2
  <2>4. \A a, b, c, d \in Nat : a < b /\ b <= c /\ c <= d => ~(d <= a)
    OBVIOUS
  <2>. QED BY <2>1, <2>2, <2>3, <2>4, <1>3, <1>7
<1>. QED BY <1>2, <1>3, <1>6, <1>7, <1>8

-----------------------------------------------------------------------------
(* The two passes over a coded file *)

\* The first pass has found the first of the file's units and no other.
Found ==
    /\ Len(nals) <= Len(file.units)
    /\ \A m \in 1 .. Len(nals) : /\ nals[m].start = file.units[m].start
                                 /\ nals[m].payload = file.units[m].payload
                                 /\ nals[m].type = file.units[m].type
    /\ pass = "scan" /\ Len(nals) > 0 => file.units[Len(nals)].payload <= i
    /\ pass = "scan" /\ Len(nals) < Len(file.units) => i <= file.units[Len(nals) + 1].start
    /\ pass # "scan" => Len(nals) = Len(file.units)

\* With j the picture of the last unit grouped, the frames are the pictures
\* before j, and what is being collected is j as far as it has been read.
GroupedUpTo(j) ==
    /\ Len(frames) = j - 1
    /\ \A k \in 1 .. j - 1 : frames[k] = file.pictures[k]
    /\ auHasVcl = IsVcl(file.units[n].type)
    /\ j <= Len(file.pictures) => auStart = file.pictures[j].offset
    /\ auHasIdr <=> \E k \in 1 .. n : file.units[k].picture = j /\ file.units[k].type = 5

Played ==
    /\ pass = "group" /\ n > 0 => GroupedUpTo(file.units[n].picture)
    /\ IndexesPictures

CodedInv == Inv /\ file \in Files /\ Found /\ Played

\* A file that the encoder wrote, small enough for its bits to be counted.
Usable(f) == Coded(f) /\ 8 * Len(f.bytes) <= IntMax

\* What the decision between OpenAu and ExtendAu comes to for a slice: the
\* byte read_ue looks at.
LEMMA SliceDecision ==
    ASSUME CodedInv, Usable(file), NEW k \in 1 .. Len(nals), IsVcl(nals[k].type)
    PROVE  \A bits \in TotalBits(Size - nals[k].payload) :
              FirstMbIsZero(file.bytes, nals[k].payload, bits) <=>
                 \/ OpensPicture(file, k) \/ ~IsVcl(file.units[k - 1].type)
PROOF
<1>1. /\ file.bytes \in Seq(0 .. 255) /\ Len(file.bytes) \in Nat /\ Len(nals) \in Nat
      /\ Coded(file) /\ 8 * Len(file.bytes) <= IntMax /\ IntMax \in Nat
  BY FilesAssumption DEF CodedInv, Inv, TypeOK, Usable
<1>2. k \in 1 .. Len(file.units) /\ nals[k].type = file.units[k].type
      /\ nals[k].payload = file.units[k].payload
  <2>1. Len(file.units) \in Nat /\ Len(nals) <= Len(file.units)
    BY <1>1 DEF CodedInv, Found, Coded, LaidOut
  <2>. QED BY <2>1, <1>1 DEF CodedInv, Found
<1>3. /\ file.units[k].payload < Len(file.bytes)
      /\ At(file.bytes, file.units[k].payload) >= 128 <=>
            OpensPicture(file, k) \/ ~IsVcl(file.units[k - 1].type)
  BY <1>1, <1>2, PictureFacts
<1>4. file.units[k].payload \in Nat
  BY <1>1, <1>2, UnitFacts
<1>5. /\ Size - nals[k].payload \in Nat /\ Size - nals[k].payload > 0
      /\ 8 * (Size - nals[k].payload) <= IntMax
  <2>1. Size - nals[k].payload = Len(file.bytes) - file.units[k].payload
    BY <1>2 DEF Size
  <2>2. \A l, q, max \in Nat : q < l /\ 8 * l <= max =>
           l - q \in Nat /\ l - q > 0 /\ 8 * (l - q) <= max
    OBVIOUS
  <2>3. /\ Len(file.bytes) - file.units[k].payload \in Nat
        /\ Len(file.bytes) - file.units[k].payload > 0
        /\ 8 * (Len(file.bytes) - file.units[k].payload) <= IntMax
    BY <2>2, <1>1, <1>3, <1>4
  <2>. QED BY <2>1, <2>3
<1>. SUFFICES ASSUME NEW bits \in TotalBits(Size - nals[k].payload)
              PROVE  FirstMbIsZero(file.bytes, nals[k].payload, bits) <=>
                        \/ OpensPicture(file, k) \/ ~IsVcl(file.units[k - 1].type)
  OBVIOUS
<1>6. bits > 0
  BY <1>5, BitsFit
<1>7. bits \in Int
  BY <1>1, <1>5 DEF TotalBits, WrapInt
<1>8. ~(bits <= 0)
  BY <1>6, <1>7
<1>. QED BY <1>2, <1>3, <1>8 DEF FirstMbIsZero

\* What the steps read of the unit grouped next and of the last one.
LEMMA NextUnit ==
    ASSUME CodedInv, Usable(file), pass = "group", n < Len(nals)
    PROVE  /\ n + 1 \in 1 .. Len(file.units)
           /\ n + 1 \in 1 .. Len(nals)
           /\ nals[n + 1].start = file.units[n + 1].start
           /\ nals[n + 1].type = file.units[n + 1].type
           /\ file.units[n + 1].picture \in 1 .. Len(file.pictures) + 1
           /\ n = 0 => file.units[n + 1].picture = 1 /\ ~auOpen /\ frames = << >>
           /\ n > 0 => /\ n \in 1 .. Len(file.units)
                       /\ auOpen
                       /\ GroupedUpTo(file.units[n].picture)
                       /\ file.units[n].picture \in 1 .. Len(file.pictures) + 1
                       /\ file.units[n + 1].picture \in
                             {file.units[n].picture, file.units[n].picture + 1}
           /\ Len(file.pictures) \in Nat
PROOF
<1>1. file.bytes \in Seq(0 .. 255) /\ Coded(file) /\ Len(nals) \in Nat /\ n \in Nat
  BY DEF CodedInv, Inv, TypeOK, Usable
<1>2. Len(file.units) = Len(nals)
  BY DEF CodedInv, Found
<1>3. n + 1 \in 1 .. Len(nals) /\ n + 1 \in 1 .. Len(file.units)
  BY <1>1, <1>2
<1>4. nals[n + 1].start = file.units[n + 1].start /\ nals[n + 1].type = file.units[n + 1].type
  BY <1>3 DEF CodedInv, Found
<1>5. /\ file.units[n + 1].picture \in 1 .. Len(file.pictures) + 1
      /\ Len(file.pictures) \in Nat
  BY <1>1, <1>3, PictureFacts
<1>6. ASSUME n = 0 PROVE file.units[n + 1].picture = 1 /\ ~auOpen /\ frames = << >>
  <2>1. file.units[n + 1].picture = 1
    BY <1>1, <1>3, <1>6, NextPicture
  <2>2. ~auOpen
    BY <1>6 DEF CodedInv, Inv, Collected
  <2>. QED BY <2>1, <2>2 DEF CodedInv, Inv, Collected
<1>7. ASSUME n > 0
      PROVE  /\ n \in 1 .. Len(file.units)
             /\ auOpen
             /\ GroupedUpTo(file.units[n].picture)
             /\ file.units[n].picture \in 1 .. Len(file.pictures) + 1
             /\ file.units[n + 1].picture \in
                   {file.units[n].picture, file.units[n].picture + 1}
  <2>1. n \in 1 .. Len(file.units)
    BY <1>1, <1>2, <1>7
  <2>2. auOpen
    BY <1>1, <1>7 DEF CodedInv, Inv, Collected
  <2>3. GroupedUpTo(file.units[n].picture)
    BY <1>7 DEF CodedInv, Played
  <2>4. file.units[n].picture \in 1 .. Len(file.pictures) + 1
    BY <1>1, <2>1, PictureFacts
  <2>5. n + 1 > 1 /\ (n + 1) - 1 = n
    BY <1>1, <1>7
  <2>6. file.units[n + 1].picture \in {file.units[(n + 1) - 1].picture,
                                       file.units[(n + 1) - 1].picture + 1}
    BY <1>1, <1>3, <2>5, NextPicture
  <2>. QED BY <2>1, <2>2, <2>3, <2>4, <2>5, <2>6
<1>. QED BY <1>3, <1>4, <1>5, <1>6, <1>7

\* Closing the access unit behind the last unit of a picture appends that
\* picture.
LEMMA CloseAppends ==
    ASSUME CodedInv, Usable(file), n \in 1 .. Len(file.units), auOpen,
           ClosesPicture(file, n),
           NEW j \in 1 .. Len(file.pictures), j = file.units[n].picture, GroupedUpTo(j)
    PROVE  /\ Len(Closed(UnitEnd(file, n))) = j
           /\ \A k \in 1 .. j : Closed(UnitEnd(file, n))[k] = file.pictures[k]
PROOF
<1>. DEFINE end == UnitEnd(file, n)
<1>1. /\ file.bytes \in Seq(0 .. 255) /\ Coded(file)
      /\ frames \in Seq(AccessUnit) /\ auStart \in Nat /\ auHasIdr \in BOOLEAN
  BY DEF CodedInv, Inv, TypeOK, Usable
<1>2. Len(file.pictures) \in Nat /\ j \in Nat /\ j <= Len(file.pictures)
  BY <1>1, PictureFacts
<1>3. IsVcl(file.units[n].type) /\ FrameEnd(file.pictures[j]) = end
  BY <1>1, <1>2, PictureFacts
<1>4. auHasVcl /\ auStart = file.pictures[j].offset
  BY <1>2, <1>3 DEF GroupedUpTo
<1>5. file.pictures[j] \in AccessUnit
  <2>1. file.pictures \in Seq(AccessUnit)
    BY <1>1 DEF Coded, Grouped
  <2>. QED BY <2>1, ElementIn
<1>6. file.pictures[j].is_keyframe <=> auHasIdr
  <2>1. NoneBehind(file, n, j)
    <3>. SUFFICES ASSUME NEW l \in n + 1 .. Len(file.units) PROVE file.units[l].picture # j
      BY DEF NoneBehind
    <3>0. /\ file.units \in Seq(Unit) /\ Len(file.units) \in Nat
          /\ DOMAIN file.units = 1 .. Len(file.units) /\ n \in Nat
      BY <1>1 DEF Coded, LaidOut
    <3>1. n + 1 \in 1 .. Len(file.units) /\ l \in 1 .. Len(file.units) /\ n # Len(file.units)
      BY <3>0
    <3>2. file.units[n + 1].picture # j
      BY <3>1 DEF ClosesPicture
    <3>3. file.units[n + 1].picture \in {j, j + 1}
      <4>1. n + 1 > 1 /\ (n + 1) - 1 = n
        BY <3>0
      <4>2. file.units[n + 1].picture \in {file.units[(n + 1) - 1].picture,
                                           file.units[(n + 1) - 1].picture + 1}
        BY <1>1, <3>1, <4>1, NextPicture
      <4>. QED BY <4>1, <4>2
    <3>4. l = n + 1 \/ n + 1 < l
      BY <3>0
    <3>5. file.units[n + 1].picture <= file.units[l].picture \/ l = n + 1
      BY <3>1, <3>4, <1>1, PicturesAscend
    <3>6. file.units[l].picture \in Nat
      BY <1>1, <3>1, UnitFacts
    <3>7. file.units[n + 1].picture = j + 1
      BY <3>2, <3>3
    <3>8. CASE l = n + 1
      BY <3>2, <3>8
    <3>9. CASE l # n + 1
      <4>1. j + 1 <= file.units[l].picture
        BY <3>5, <3>7, <3>9
      <4>2. \A x \in Nat : ~(x + 1 <= x)
        OBVIOUS
      <4>3. j \in Nat
        BY <1>2
      <4>. QED BY <4>1, <4>2, <4>3
    <3>. QED BY <3>8, <3>9
  <2>2. file.pictures[j].is_keyframe <=> IdrUpTo(file, n, j)
    BY <2>1, <1>1, KeyframeSettled
  <2>. QED BY <2>2 DEF GroupedUpTo, IdrUpTo
<1>7. file.pictures[j] = [offset |-> auStart, length |-> end - auStart, is_keyframe |-> auHasIdr]
  <2>. HIDE DEF end
  <2>1. /\ file.pictures[j].offset \in Nat
        /\ file.pictures[j].length \in Int
        /\ file.pictures[j].is_keyframe \in BOOLEAN
        /\ file.pictures[j] = [offset      |-> file.pictures[j].offset,
                               length      |-> file.pictures[j].length,
                               is_keyframe |-> file.pictures[j].is_keyframe]
    BY <1>5 DEF AccessUnit
  <2>2. file.pictures[j].length = end - auStart
    <3>1. file.pictures[j].offset + file.pictures[j].length = end
      BY <1>3 DEF FrameEnd
    <3>2. auStart = file.pictures[j].offset
      BY <1>4
    <3>3. \A x \in Nat, y \in Int : y = (x + y) - x
      OBVIOUS
    <3>4. file.pictures[j].length =
             (file.pictures[j].offset + file.pictures[j].length) - file.pictures[j].offset
      BY <2>1, <3>3
    <3>. QED BY <3>1, <3>2, <3>4
  <2>3. file.pictures[j].is_keyframe = auHasIdr
    BY <2>1, <1>1, <1>6
  <2>. QED BY <2>1, <2>2, <2>3, <1>4
<1>8. Closed(end) = Append(frames, file.pictures[j])
  BY <1>4, <1>7 DEF Closed
<1>9. Len(frames) = j - 1 /\ \A k \in 1 .. j - 1 : frames[k] = file.pictures[k]
  BY DEF GroupedUpTo
<1>. HIDE DEF end
<1>10. /\ Len(Append(frames, file.pictures[j])) = j
       /\ \A k \in 1 .. j - 1 : Append(frames, file.pictures[j])[k] = frames[k]
       /\ Append(frames, file.pictures[j])[j] = file.pictures[j]
  <2>1. Len(frames) \in Nat
    BY <1>1
  <2>2. /\ Len(Append(frames, file.pictures[j])) = Len(frames) + 1
        /\ \A k \in 1 .. Len(frames) : Append(frames, file.pictures[j])[k] = frames[k]
        /\ Append(frames, file.pictures[j])[Len(frames) + 1] = file.pictures[j]
    BY <1>1, <1>5, AppendFacts
  <2>3. Len(frames) + 1 = j /\ Len(frames) = j - 1
    BY <2>1, <1>2, <1>9
  <2>. QED BY <2>2, <2>3
<1>11. \A k \in 1 .. j : k \in 1 .. j - 1 \/ k = j
  BY <1>2
<1>12. Len(Closed(end)) = j /\ \A k \in 1 .. j : Closed(end)[k] = file.pictures[k]
  BY <1>8, <1>9, <1>10, <1>11
<1>. QED BY <1>12 DEF end

\* A unit that begins a picture begins an access unit, and closes the one of
\* the picture before it.
LEMMA OpenAuPlays ==
    ASSUME CodedInv, Usable(file), OpenAu
    PROVE  Played'
PROOF
<1>. DEFINE u == file.units[n + 1]
<1>0. PICK j : j = file.units[n + 1].picture
  OBVIOUS
<1>. USE <1>0
<1>1. /\ pass = "group" /\ n < Len(nals) /\ n' = n + 1
      /\ UNCHANGED <<file, pass, i, nals>>
      /\ ~auOpen \/ StartsNewAu(nals[n + 1])
      /\ frames' = Closed(nals[n + 1].start)
      /\ auStart' = nals[n + 1].start
      /\ auHasVcl' = IsVcl(nals[n + 1].type) /\ auHasIdr' = (nals[n + 1].type = 5)
  BY DEF OpenAu, Group, scanVars
<1>2. /\ n + 1 \in 1 .. Len(file.units) /\ n + 1 \in 1 .. Len(nals)
      /\ nals[n + 1].start = u.start /\ nals[n + 1].type = u.type
      /\ j \in 1 .. Len(file.pictures) + 1 /\ Len(file.pictures) \in Nat
      /\ n = 0 => j = 1 /\ ~auOpen /\ frames = << >>
  BY <1>1, NextUnit
<1>3. n > 0 => /\ n \in 1 .. Len(file.units) /\ auOpen
               /\ GroupedUpTo(file.units[n].picture)
               /\ file.units[n].picture \in 1 .. Len(file.pictures) + 1
               /\ j \in {file.units[n].picture, file.units[n].picture + 1}
  BY <1>1, NextUnit
<1>4. n \in Nat /\ Coded(file) /\ file.bytes \in Seq(0 .. 255)
  BY DEF CodedInv, Inv, TypeOK, Usable
<1>5. OpensPicture(file, n + 1)
  <2>. SUFFICES ASSUME ~OpensPicture(file, n + 1) PROVE FALSE
    OBVIOUS
  <2>1. n > 0 /\ file.units[n].picture = j
    BY <1>4 DEF OpensPicture
  <2>2. auHasVcl /\ IsVcl(file.units[n].type)
    BY <1>1, <1>3, <2>1 DEF StartsNewAu, GroupedUpTo
  <2>3. ~ClosesPicture(file, n)
    <3>1. n # Len(file.units)
      BY <1>2, <1>3, <2>1
    <3>. QED BY <3>1, <2>1 DEF ClosesPicture
  <2>4. IsVcl(u.type)
    BY <2>1, <2>2, <2>3, <1>3, <1>4, PictureFacts
  <2>5. \E bits \in TotalBits(Size - nals[n + 1].payload) :
           FirstMbIsZero(file.bytes, nals[n + 1].payload, bits)
    BY <2>1, <2>4, <1>1, <1>2, <1>3 DEF StartsNewAu
  <2>6. (n + 1) - 1 = n
    BY <1>4
  <2>7. OpensPicture(file, n + 1) \/ ~IsVcl(file.units[(n + 1) - 1].type)
    BY <2>4, <2>5, <1>2, SliceDecision
  <2>. QED BY <2>2, <2>6, <2>7
<1>6. Len(frames') = j - 1 /\ \A k \in 1 .. j - 1 : frames'[k] = file.pictures[k]
  <2>1. CASE n = 0
    <3>1. frames' = << >> /\ j = 1
      BY <2>1, <1>1, <1>2 DEF Closed
    <3>. QED BY <3>1
  <2>2. CASE n > 0
    <3>1. file.units[n].picture # j
      <4>1. n + 1 # 1 /\ (n + 1) - 1 = n
        BY <1>4, <2>2
      <4>. QED BY <4>1, <1>5 DEF OpensPicture
    <3>2. file.units[n].picture = j - 1 /\ j - 1 \in 1 .. Len(file.pictures)
      <4>1. \A p \in 1 .. Len(file.pictures) + 1 :
               p # j /\ j \in {p, p + 1} => p = j - 1 /\ j - 1 \in 1 .. Len(file.pictures)
        <5>1. j \in 1 .. Len(file.pictures) + 1 /\ Len(file.pictures) \in Nat
          BY <1>2
        <5>. QED BY <5>1
      <4>. QED BY <3>1, <4>1, <2>2, <1>3
    <3>3. ClosesPicture(file, n)
      BY <3>1 DEF ClosesPicture
    <3>4. UnitEnd(file, n) = nals[n + 1].start
      <4>1. n # Len(file.units)
        BY <1>2, <1>3, <2>2
      <4>. QED BY <4>1, <1>2 DEF UnitEnd
    <3>5. auOpen /\ GroupedUpTo(j - 1) /\ n \in 1 .. Len(file.units)
      BY <2>2, <3>2, <1>3
    <3>6. /\ Len(Closed(UnitEnd(file, n))) = j - 1
          /\ \A k \in 1 .. j - 1 : Closed(UnitEnd(file, n))[k] = file.pictures[k]
      BY <3>2, <3>3, <3>5, CloseAppends
    <3>. QED BY <3>4, <3>6, <1>1
  <2>. QED BY <2>1, <2>2, <1>4
<1>7. j <= Len(file.pictures) => auStart' = file.pictures[j].offset
  <2>1. j <= Len(file.pictures) /\ OpensPicture(file, n + 1) =>
           file.pictures[j].offset = file.units[n + 1].start
    BY <1>2, <1>4, PictureFacts
  <2>. QED BY <2>1, <1>1, <1>2, <1>5
<1>8. auHasIdr' <=> \E k \in 1 .. n + 1 : file.units[k].picture = j /\ file.units[k].type = 5
  <2>1. \A k \in 1 .. n + 1 : file.units[k].picture = j => k = n + 1
    <3>. SUFFICES ASSUME NEW k \in 1 .. n + 1, k # n + 1, file.units[k].picture = j
                  PROVE  FALSE
      OBVIOUS
    <3>1. n > 0 /\ k <= n
      BY <1>4
    <3>2. file.units[n].picture < j
      <4>1. n + 1 # 1 /\ (n + 1) - 1 = n
        BY <1>4, <3>1
      <4>2. file.units[n].picture # j
        BY <4>1, <1>5 DEF OpensPicture
      <4>. QED BY <4>2, <3>1, <1>2, <1>3
    <3>3. CASE k = n
      <4>1. file.units[n].picture \in Nat
        BY <3>1, <1>2, <1>3
      <4>. QED BY <3>2, <3>3, <4>1
    <3>4. CASE k < n
      <4>1. Len(file.units) \in Nat
        BY <1>4 DEF Coded, LaidOut
      <4>2. k \in 1 .. Len(file.units) /\ n \in 1 .. Len(file.units)
        BY <3>1, <4>1, <1>2, <1>3
      <4>3. file.units[k].picture <= file.units[n].picture
        BY <3>4, <4>2, <1>4, PicturesAscend
      <4>4. file.units[n].picture \in Nat
        BY <3>1, <1>2, <1>3
      <4>5. \A x, y \in Nat : x < y => ~(y <= x)
        OBVIOUS
      <4>6. j \in Nat
        BY <1>2
      <4>. QED BY <3>2, <4>3, <4>4, <4>5, <4>6
    <3>. QED BY <3>1, <3>3, <3>4, <1>4
  <2>2. n + 1 \in 1 .. n + 1
    BY <1>4
  <2>. QED BY <2>1, <2>2, <1>1, <1>2
<1>9. auHasVcl' = IsVcl(u.type)
  BY <1>1, <1>2
<1>10. GroupedUpTo(j)'
  BY <1>1, <1>6, <1>7, <1>8, <1>9 DEF GroupedUpTo
<1>11. (file.units[n].picture)' = j
  BY <1>1
<1>. QED BY <1>1, <1>10, <1>11 DEF Played, IndexesPictures, GroupedUpTo

\* A unit that does not begin a picture extends the access unit.
LEMMA ExtendAuPlays ==
    ASSUME CodedInv, Usable(file), ExtendAu
    PROVE  Played'
PROOF
<1>. DEFINE u == file.units[n + 1]
<1>0. PICK j : j = file.units[n + 1].picture
  OBVIOUS
<1>. USE <1>0
<1>1. /\ pass = "group" /\ n < Len(nals) /\ n' = n + 1
      /\ UNCHANGED <<file, pass, i, nals, auStart, auOpen, frames>>
      /\ ContinuesAu(nals[n + 1])
      /\ auHasVcl' = (auHasVcl \/ IsVcl(nals[n + 1].type))
      /\ auHasIdr' = (auHasIdr \/ nals[n + 1].type = 5)
  BY DEF ExtendAu, Group, scanVars
<1>2. /\ n + 1 \in 1 .. Len(file.units) /\ n + 1 \in 1 .. Len(nals)
      /\ nals[n + 1].start = u.start /\ nals[n + 1].type = u.type
      /\ j \in 1 .. Len(file.pictures) + 1 /\ Len(file.pictures) \in Nat
      /\ n = 0 => ~auOpen
  BY <1>1, NextUnit
<1>3. n \in Nat /\ Coded(file) /\ file.bytes \in Seq(0 .. 255)
      /\ auHasVcl \in BOOLEAN /\ auHasIdr \in BOOLEAN
  BY DEF CodedInv, Inv, TypeOK, Usable
<1>4. n > 0
  BY <1>1, <1>2, <1>3 DEF ContinuesAu
<1>5. /\ n \in 1 .. Len(file.units) /\ auOpen
      /\ GroupedUpTo(file.units[n].picture)
      /\ file.units[n].picture \in 1 .. Len(file.pictures) + 1
      /\ j \in {file.units[n].picture, file.units[n].picture + 1}
  BY <1>1, <1>4, NextUnit
<1>6. file.units[n].picture = j
  <2>. SUFFICES ASSUME file.units[n].picture # j PROVE FALSE
    OBVIOUS
  <2>1. file.units[n].picture <= Len(file.pictures)
    <3>1. \A q \in 1 .. Len(file.pictures) + 1 :
             q # j /\ j \in {q, q + 1} => q <= Len(file.pictures)
      <4>1. j \in 1 .. Len(file.pictures) + 1 /\ Len(file.pictures) \in Nat
        BY <1>2
      <4>. QED BY <4>1
    <3>. QED BY <3>1, <1>5
  <2>2. ClosesPicture(file, n) /\ OpensPicture(file, n + 1)
    <3>1. (n + 1) - 1 = n
      BY <1>3
    <3>. QED BY <3>1 DEF ClosesPicture, OpensPicture
  <2>3. IsVcl(file.units[n].type)
    BY <2>1, <2>2, <1>3, <1>5, PictureFacts
  <2>4. auHasVcl
    BY <2>3, <1>5 DEF GroupedUpTo
  <2>5. IsVcl(nals[n + 1].type)
        /\ \E bits \in TotalBits(Size - nals[n + 1].payload) :
              ~FirstMbIsZero(file.bytes, nals[n + 1].payload, bits)
    BY <2>4, <1>1 DEF ContinuesAu
  <2>. QED BY <2>2, <2>5, <1>2, SliceDecision
<1>7. auHasVcl' = IsVcl(u.type)
  <2>1. ASSUME IsVcl(file.units[n].type) PROVE IsVcl(u.type)
    <3>1. ~ClosesPicture(file, n)
      <4>1. n # Len(file.units)
        BY <1>2, <1>5
      <4>. QED BY <4>1, <1>6 DEF ClosesPicture
    <3>. QED BY <2>1, <3>1, <1>3, <1>5, PictureFacts
  <2>2. auHasVcl = IsVcl(file.units[n].type)
    BY <1>5 DEF GroupedUpTo
  <2>3. IsVcl(u.type) \in BOOLEAN
    BY DEF IsVcl
  <2>. QED BY <2>1, <2>2, <2>3, <1>1, <1>2
<1>8. auHasIdr' <=> \E k \in 1 .. n + 1 : file.units[k].picture = j /\ file.units[k].type = 5
  <2>1. auHasIdr <=> \E k \in 1 .. n : file.units[k].picture = j /\ file.units[k].type = 5
    BY <1>5, <1>6 DEF GroupedUpTo
  <2>2. \A k \in 1 .. n + 1 : k \in 1 .. n \/ k = n + 1
    BY <1>3
  <2>3. n + 1 \in 1 .. n + 1 /\ \A k \in 1 .. n : k \in 1 .. n + 1
    BY <1>3
  <2>. QED BY <2>1, <2>2, <2>3, <1>1, <1>2
<1>9. /\ Len(frames) = j - 1
      /\ \A k \in 1 .. j - 1 : frames[k] = file.pictures[k]
      /\ j <= Len(file.pictures) => auStart = file.pictures[j].offset
  BY <1>5, <1>6 DEF GroupedUpTo
<1>10. GroupedUpTo(j)'
  BY <1>1, <1>7, <1>8, <1>9 DEF GroupedUpTo
<1>11. (file.units[n].picture)' = j
  BY <1>1
<1>. QED BY <1>1, <1>10, <1>11 DEF Played, IndexesPictures, GroupedUpTo

\* Behind the last unit the frames are the pictures.
LEMMA GroupDonePlays ==
    ASSUME CodedInv, Usable(file), GroupDone
    PROVE  Played'
PROOF
<1>1. /\ pass = "group" /\ n = Len(nals) /\ pass' = "done"
      /\ UNCHANGED <<file, i, nals, n, auStart, auOpen, auHasVcl, auHasIdr>>
      /\ frames' = Closed(Size)
  BY DEF GroupDone, scanVars
<1>2. /\ n \in Nat /\ Coded(file) /\ file.bytes \in Seq(0 .. 255)
      /\ frames \in Seq(AccessUnit)
  BY DEF CodedInv, Inv, TypeOK, Usable
<1>3. n = Len(file.units)
  BY <1>1 DEF CodedInv, Found
<1>4. /\ file.pictures \in Seq(AccessUnit) /\ Len(file.pictures) \in Nat
      /\ DOMAIN file.pictures = 1 .. Len(file.pictures)
      /\ file.units \in Seq(Unit)
      /\ DOMAIN file.units = 1 .. Len(file.units)
  BY <1>2 DEF Coded, LaidOut, Grouped
<1>5. \A j \in 1 .. Len(file.pictures) :
         \E k \in 1 .. n : file.units[k].picture = j
  BY <1>2, <1>3, <1>4 DEF Coded, Grouped
<1>6. Len(frames') = Len(file.pictures)
      /\ \A k \in 1 .. Len(file.pictures) : frames'[k] = file.pictures[k]
  <2>1. CASE n = 0
    <3>1. ~auOpen /\ frames = << >>
      BY <2>1 DEF CodedInv, Inv, Collected
    <3>2. frames' = << >>
      BY <3>1, <1>1 DEF Closed
    <3>3. Len(file.pictures) = 0
      <4>. SUFFICES ASSUME Len(file.pictures) # 0 PROVE FALSE
        OBVIOUS
      <4>1. 1 \in 1 .. Len(file.pictures)
        BY <1>4
      <4>. QED BY <4>1, <1>5, <2>1
    <3>. QED BY <3>2, <3>3
  <2>2. CASE n > 0
    <3>. DEFINE j == file.units[n].picture
    <3>1. n \in 1 .. Len(file.units) /\ auOpen /\ GroupedUpTo(j)
      BY <2>2, <1>1, <1>2, <1>3 DEF CodedInv, Played, Inv, Collected
    <3>2. j \in 1 .. Len(file.pictures) + 1
      BY <3>1, <1>2, PictureFacts
    <3>3. j >= Len(file.pictures)
      <4>. SUFFICES ASSUME j < Len(file.pictures) PROVE FALSE
        BY <3>2, <1>4
      <4>1. Len(file.pictures) \in 1 .. Len(file.pictures)
        BY <3>2, <1>4
      <4>2. PICK k \in 1 .. n : file.units[k].picture = Len(file.pictures)
        BY <4>1, <1>5
      <4>3. k = n \/ k < n
        BY <1>2
      <4>4. k \in DOMAIN file.units /\ n \in DOMAIN file.units
        BY <3>1, <1>3, <1>4
      <4>5. k = n \/ file.units[k].picture <= j
        BY <4>3, <4>4, <1>2, <1>4, PicturesAscend
      <4>. QED BY <4>2, <4>5, <3>2, <1>4
    <3>4. ClosesPicture(file, n) /\ UnitEnd(file, n) = Size
      BY <1>3 DEF ClosesPicture, UnitEnd, Size
    <3>. HIDE DEF j
    <3>5. CASE j = Len(file.pictures)
      <4>1. j \in 1 .. Len(file.pictures)
        BY <3>2, <3>5, <1>4
      <4>2. /\ Len(Closed(UnitEnd(file, n))) = j
            /\ \A k \in 1 .. j : Closed(UnitEnd(file, n))[k] = file.pictures[k]
        BY <3>1, <3>4, <4>1, CloseAppends DEF j
      <4>. QED BY <4>2, <3>4, <3>5, <1>1
    <3>6. CASE j = Len(file.pictures) + 1
      <4>1. ~IsVcl(file.units[n].type)
        <5>. SUFFICES ASSUME IsVcl(file.units[n].type) PROVE FALSE
          OBVIOUS
        <5>1. j <= Len(file.pictures)
          BY <3>1, <1>2, PictureFacts DEF j
        <5>. QED BY <5>1, <3>6, <1>4
      <4>2. frames' = frames
        BY <4>1, <3>1, <1>1 DEF GroupedUpTo, Closed
      <4>3. j - 1 = Len(file.pictures)
        BY <3>6, <1>4
      <4>. QED BY <3>1, <4>2, <4>3 DEF GroupedUpTo
    <3>. QED BY <3>2, <3>3, <3>5, <3>6, <1>4
  <2>. QED BY <2>1, <2>2, <1>2
<1>7. frames' \in Seq(AccessUnit)
  <2>1. Inv'
    BY StepKeeps DEF CodedInv, Next
  <2>. QED BY <2>1 DEF Inv, TypeOK
<1>8. frames' = file.pictures
  BY <1>4, <1>6, <1>7
<1>. QED BY <1>1, <1>8 DEF Played, IndexesPictures

-----------------------------------------------------------------------------
\* The invariant holds when the file has been mapped.
LEMMA CodedInitially ==
    ASSUME \A f \in Files : Usable(f)
    PROVE  Init => CodedInv
PROOF
<1>. SUFFICES ASSUME Init PROVE CodedInv
  OBVIOUS
<1>1. Inv
  BY Initially
<1>2. file \in Files /\ pass = "scan" /\ i = 0 /\ Len(nals) = 0 /\ n = 0
  BY DEF Init
<1>3. Found
  <2>1. file.bytes \in Seq(0 .. 255) /\ Coded(file)
    BY <1>1, <1>2 DEF Inv, TypeOK, Usable
  <2>2. Len(file.units) \in Nat
    BY <2>1 DEF Coded, LaidOut
  <2>3. Len(file.units) > 0 => 0 <= file.units[1].start
    <3>1. Len(file.units) > 0 => 1 \in 1 .. Len(file.units)
      BY <2>2
    <3>. QED BY <3>1, <2>1, UnitFacts
  <2>. QED BY <1>2, <2>2, <2>3 DEF Found
<1>4. Played
  BY <1>2 DEF Played, IndexesPictures
<1>. QED BY <1>1, <1>2, <1>3, <1>4 DEF CodedInv

\* Every iteration of either pass keeps it.
LEMMA CodedStep ==
    ASSUME \A f \in Files : Usable(f)
    PROVE  CodedInv /\ [Next]_vars => CodedInv'
PROOF
<1>. SUFFICES ASSUME CodedInv, [Next]_vars PROVE CodedInv'
  OBVIOUS
<1>1. Usable(file)
  BY DEF CodedInv
<1>2. Inv'
  BY StepKeeps DEF CodedInv
<1>3. /\ Coded(file) /\ file.bytes \in Seq(0 .. 255) /\ Len(file.bytes) \in Nat
      /\ Len(file.units) \in Nat /\ i \in Nat /\ Len(nals) \in Nat /\ n \in Nat
      /\ nals \in Seq(Nal)
  BY <1>1 DEF CodedInv, Inv, TypeOK, Usable, Coded, LaidOut
<1>4. /\ Len(nals) <= Len(file.units)
      /\ pass = "scan" /\ Len(nals) > 0 => file.units[Len(nals)].payload <= i
      /\ pass = "scan" /\ Len(nals) < Len(file.units) => i <= file.units[Len(nals) + 1].start
  BY DEF CodedInv, Found
<1>5. pass = "scan" => n = 0
  BY DEF CodedInv, Inv, Collected
<1>6. CASE SkipByte
  <2>1. /\ pass = "scan" /\ StartCodeLen(file.bytes, i) = 0 /\ i' = i + 1
        /\ UNCHANGED <<file, pass, nals, n, auStart, auOpen, auHasVcl, auHasIdr, frames>>
    BY <1>6 DEF SkipByte, Scan, groupVars
  <2>2. Len(nals) < Len(file.units) => i + 1 <= file.units[Len(nals) + 1].start
    <3>. SUFFICES ASSUME Len(nals) < Len(file.units)
                  PROVE  i + 1 <= file.units[Len(nals) + 1].start
      OBVIOUS
    <3>1. Len(nals) + 1 \in 1 .. Len(file.units)
      BY <1>3
    <3>2. /\ file.units[Len(nals) + 1].start \in Nat
          /\ StartCodeLen(file.bytes, file.units[Len(nals) + 1].start) # 0
      BY <3>1, <1>3, UnitFacts
    <3>. QED BY <3>2, <2>1, <1>3, <1>4
  <2>3. Len(nals) > 0 => file.units[Len(nals)].payload <= i + 1
    <3>. SUFFICES ASSUME Len(nals) > 0 PROVE file.units[Len(nals)].payload <= i + 1
      OBVIOUS
    <3>1. Len(nals) \in 1 .. Len(file.units)
      BY <1>3, <1>4
    <3>2. file.units[Len(nals)].payload \in Nat
      BY <3>1, <1>3, UnitFacts
    <3>. QED BY <3>2, <2>1, <1>3, <1>4
  <2>4. Found'
    BY <2>1, <2>2, <2>3 DEF CodedInv, Found
  <2>5. Played'
    BY <2>1, <1>5 DEF Played, IndexesPictures
  <2>. QED BY <2>1, <2>4, <2>5, <1>2 DEF CodedInv
<1>7. CASE FindNal
  <2>. DEFINE header == i + StartCodeLen(file.bytes, i)
  <2>. DEFINE nal == [start |-> i, payload |-> header + 1, type |-> NalType(file.bytes, header)]
  <2>1. /\ pass = "scan" /\ StartCodeLen(file.bytes, i) # 0 /\ i + 3 <= Len(file.bytes)
        /\ nals' = Append(nals, nal) /\ i' = header + 1
        /\ UNCHANGED <<file, pass, n, auStart, auOpen, auHasVcl, auHasIdr, frames>>
    BY <1>7 DEF FindNal, Scan, groupVars, Size
  <2>2. Len(nals) \in 0 .. Len(file.units)
    BY <1>3, <1>4
  <2>3. Len(nals) < Len(file.units) /\ i = file.units[Len(nals) + 1].start
    BY <2>1, <2>2, <1>3, <1>4, UnitAt
  <2>4. Len(nals) + 1 \in 1 .. Len(file.units)
    BY <2>3, <1>3
  <2>5. /\ file.units[Len(nals) + 1].payload = header + 1
        /\ file.units[Len(nals) + 1].type =
              NalType(file.bytes, file.units[Len(nals) + 1].payload - 1)
        /\ file.units[Len(nals) + 1].payload \in Nat
    BY <2>3, <2>4, <1>3, UnitFacts
  <2>6. header \in Int
    <3>1. StartCodeLen(file.bytes, i) \in {3, 4}
      BY <2>1, <1>3, StartCodeFits
    <3>. QED BY <3>1, <1>3
  <2>7. file.units[Len(nals) + 1].type = NalType(file.bytes, header)
    <3>. HIDE DEF header
    <3>1. (header + 1) - 1 = header
      BY <2>6
    <3>. QED BY <3>1, <2>5
  <2>8. /\ nal.start = file.units[Len(nals) + 1].start
        /\ nal.payload = file.units[Len(nals) + 1].payload
        /\ nal.type = file.units[Len(nals) + 1].type
    BY <2>3, <2>5, <2>7
  <2>9. nal \in Nal
    <3>1. nal.type \in 0 .. 31 /\ nal.start \in Nat /\ nal.payload \in Nat
      BY <2>4, <2>5, <2>8, <1>3, UnitFacts
    <3>. QED BY <3>1 DEF Nal
  <2>. HIDE DEF nal
  <2>10. /\ Len(nals') = Len(nals) + 1
         /\ \A m \in 1 .. Len(nals) : nals'[m] = nals[m]
         /\ nals'[Len(nals) + 1] = nal
    BY <2>1, <2>9, <1>3, AppendFacts
  <2>11. Len(nals) + 1 < Len(file.units) => header + 1 <= file.units[Len(nals) + 2].start
    <3>. SUFFICES ASSUME Len(nals) + 1 < Len(file.units)
                  PROVE  header + 1 <= file.units[Len(nals) + 2].start
      OBVIOUS
    <3>1. Len(nals) + 2 \in DOMAIN file.units /\ Len(nals) + 1 \in DOMAIN file.units
          /\ Len(nals) + 1 < Len(nals) + 2
      BY <1>3 DEF Coded, LaidOut
    <3>2. file.units[Len(nals) + 1].payload <= file.units[Len(nals) + 2].start
      BY <3>1, <1>3 DEF Coded, LaidOut
    <3>. QED BY <3>2, <2>5
  <2>. HIDE DEF header
  <2>12. \A m \in 1 .. Len(nals) + 1 : /\ nals'[m].start = file.units[m].start
                                       /\ nals'[m].payload = file.units[m].payload
                                       /\ nals'[m].type = file.units[m].type
    <3>1. \A m \in 1 .. Len(nals) + 1 : m \in 1 .. Len(nals) \/ m = Len(nals) + 1
      BY <1>3
    <3>. QED BY <3>1, <2>8, <2>10 DEF CodedInv, Found
  <2>13. /\ Len(nals') <= Len(file.units)
         /\ file.units[Len(nals')].payload <= i'
         /\ Len(nals') < Len(file.units) => i' <= file.units[Len(nals') + 1].start
    <3>1. Len(nals') + 1 = Len(nals) + 2
      BY <2>10, <1>3
    <3>2. Len(nals') <= Len(file.units)
      BY <2>4, <2>10, <1>3
    <3>3. file.units[Len(nals')].payload <= i'
      BY <2>1, <2>5, <2>6, <2>10
    <3>4. Len(nals') < Len(file.units) => i' <= file.units[Len(nals') + 1].start
      BY <3>1, <2>1, <2>10, <2>11
    <3>. QED BY <3>2, <3>3, <3>4
  <2>14. Found'
    BY <2>1, <2>10, <2>12, <2>13 DEF Found
  <2>15. Played'
    BY <2>1, <1>5 DEF Played, IndexesPictures
  <2>. QED BY <2>1, <2>14, <2>15, <1>2 DEF CodedInv
<1>8. CASE ScanDone
  <2>1. /\ pass = "scan" /\ i + 3 > Len(file.bytes) /\ pass' = "group"
        /\ UNCHANGED <<file, i, nals, n, auStart, auOpen, auHasVcl, auHasIdr, frames>>
    BY <1>8 DEF ScanDone, scanVars, groupVars, Size
  <2>2. Len(nals) = Len(file.units)
    <3>. SUFFICES ASSUME Len(nals) < Len(file.units) PROVE FALSE
      BY <1>3, <1>4
    <3>1. Len(nals) + 1 \in 1 .. Len(file.units)
      BY <1>3
    <3>2. /\ file.units[Len(nals) + 1].start \in Nat
          /\ file.units[Len(nals) + 1].start + 3 <= Len(file.bytes)
      BY <3>1, <1>3, UnitFacts
    <3>. QED BY <3>2, <2>1, <1>3, <1>4
  <2>3. Found'
    BY <2>1, <2>2, <1>3 DEF CodedInv, Found
  <2>4. Played'
    BY <2>1, <1>5 DEF Played, IndexesPictures
  <2>. QED BY <2>1, <2>3, <2>4, <1>2 DEF CodedInv
<1>9. CASE OpenAu
  <2>1. UNCHANGED <<file, pass, i, nals>> /\ pass = "group"
    BY <1>9 DEF OpenAu, Group, scanVars
  <2>2. Found'
    BY <2>1 DEF CodedInv, Found
  <2>. QED BY <2>1, <2>2, <1>1, <1>2, <1>9, OpenAuPlays DEF CodedInv
<1>10. CASE ExtendAu
  <2>1. UNCHANGED <<file, pass, i, nals>> /\ pass = "group"
    BY <1>10 DEF ExtendAu, Group, scanVars
  <2>2. Found'
    BY <2>1 DEF CodedInv, Found
  <2>. QED BY <2>1, <2>2, <1>1, <1>2, <1>10, ExtendAuPlays DEF CodedInv
<1>11. CASE GroupDone
  <2>1. UNCHANGED <<file, i, nals>> /\ pass = "group" /\ pass' = "done"
    BY <1>11 DEF GroupDone, scanVars
  <2>2. Found'
    BY <2>1 DEF CodedInv, Found
  <2>. QED BY <2>1, <2>2, <1>1, <1>2, <1>11, GroupDonePlays DEF CodedInv
<1>12. CASE UNCHANGED vars
  <2>1. Found' /\ Played'
    BY <1>12 DEF vars, CodedInv, Found, Played, GroupedUpTo, IndexesPictures
  <2>. QED BY <2>1, <1>2, <1>12 DEF vars, CodedInv
<1>. QED BY <1>6, <1>7, <1>8, <1>9, <1>10, <1>11, <1>12 DEF Next

\* Whatever pictures an encoder wrote, of however many slices, with or without
\* parameter sets and with start codes of either length: as long as the bits
\* of the file can be counted in an int, the frames index_frames ends with are
\* those pictures, with their offsets, lengths and keyframe flags.
THEOREM FramesArePictures ==
    ASSUME \A f \in Files : Usable(f)
    PROVE  Spec => []IndexesPictures
PROOF
<1>0. \A f \in Files : Usable(f)
  OBVIOUS
<1>1. Init => CodedInv
  BY <1>0, CodedInitially
<1>2. CodedInv /\ [Next]_vars => CodedInv'
  BY <1>0, CodedStep
<1>3. CodedInv => IndexesPictures
  BY DEF CodedInv, Played
<1>. QED BY <1>1, <1>2, <1>3, PTL DEF Spec
=============================================================================
