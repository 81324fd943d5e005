------------------------------- MODULE H264Index -------------------------------
(***************************************************************************)
(* H264Reader::index_frames (src/h264_reader.cpp): how a mapped Annex-B    *)
(* file becomes the list of access units ContentPlayer plays.  The first   *)
(* pass finds the NAL units, the second groups them into pictures; each    *)
(* iteration of either loop is a step.  Offsets count from 0 as in the     *)
(* code.                                                                   *)
(***************************************************************************)
EXTENDS Integers, Sequences

CONSTANTS
    Files,   \* what is mapped: the bytes, and what an encoder wrote in them (Coded)
    IntMax   \* largest value of the C++ type int

ASSUME FilesAssumption == /\ IntMax \in Nat
                          /\ \A f \in Files : f.bytes \in Seq(0 .. 255)

VARIABLES
    file,      \* what was mapped; never changes
    pass,      \* which loop runs
    i,         \* scan position of the first pass
    nals,      \* NAL units found
    n,         \* NAL units grouped by the second pass
    auStart, auOpen, auHasVcl, auHasIdr,
    frames     \* frames_

vars == <<file, pass, i, nals, n, auStart, auOpen, auHasVcl, auHasIdr, frames>>

scanVars  == <<i, nals>>
groupVars == <<n, auStart, auOpen, auHasVcl, auHasIdr, frames>>

Nal        == [start : Nat, payload : Nat, type : 0 .. 31]
AccessUnit == [offset : Nat, length : Int, is_keyframe : BOOLEAN]

TypeOK == /\ file.bytes \in Seq(0 .. 255)
          /\ pass \in {"scan", "group", "done"}
          /\ i \in Nat
          /\ nals \in Seq(Nal)
          /\ n \in 0 .. Len(nals)
          /\ auStart \in Nat
          /\ auOpen \in BOOLEAN /\ auHasVcl \in BOOLEAN /\ auHasIdr \in BOOLEAN
          /\ frames \in Seq(AccessUnit)

Size == Len(file.bytes)

At(b, p) == b[p + 1]

\* b[p] ... b[p + Len(s) - 1] are s, and lie within the file.
Reads(b, s, p) == /\ p + Len(s) <= Len(b)
                  /\ \A k \in DOMAIN s : At(b, p + k - 1) = s[k]

StartCodeLen(b, p) == IF Reads(b, <<0, 0, 1>>, p) THEN 3
                      ELSE IF Reads(b, <<0, 0, 0, 1>>, p) THEN 4 ELSE 0

\* After a start code at the very end the code reads one byte beyond the
\* file: a zero of the last page.
HeaderByte(b, p) == IF p < Len(b) THEN At(b, p) ELSE 0

NalType(b, p) == HeaderByte(b, p) % 32

IsVcl(type) == type \in {1, 5}

-----------------------------------------------------------------------------
(* read_ue *)

WrapInt(x) == ((x + IntMax + 1) % (2 * (IntMax + 1))) - (IntMax + 1)

\* int total_bits = int(size) * 8 overflows for large files: it wraps, unless
\* the compiler kept the product in a wider register.
TotalBits(size) == {8 * size, WrapInt(8 * size)}

\* The value read is 0 exactly if no zero bit precedes the first one, be it
\* that total_bits lets no bit be looked at.
FirstMbIsZero(b, payload, bits) == bits <= 0 \/ At(b, payload) >= 128

-----------------------------------------------------------------------------
Init == /\ file \in Files
        /\ pass = "scan"
        /\ i = 0
        /\ nals = << >>
        /\ n = 0
        /\ auStart = 0
        /\ auOpen = FALSE /\ auHasVcl = FALSE /\ auHasIdr = FALSE
        /\ frames = << >>

(* First pass *)

Scan == pass = "scan" /\ i + 3 <= Size /\ UNCHANGED <<file, pass, groupVars>>

SkipByte == /\ Scan
            /\ StartCodeLen(file.bytes, i) = 0
            /\ i' = i + 1
            /\ UNCHANGED nals

FindNal == /\ Scan
           /\ StartCodeLen(file.bytes, i) # 0
           /\ LET header == i + StartCodeLen(file.bytes, i)
              IN  /\ nals' = Append(nals, [start   |-> i,
                                           payload |-> header + 1,
                                           type    |-> NalType(file.bytes, header)])
                  /\ i' = header + 1

ScanDone == /\ pass = "scan" /\ i + 3 > Size
            /\ pass' = "group"
            /\ UNCHANGED <<file, scanVars, groupVars>>

(* Second pass *)

\* Mutant: the picture reaches to the end of the file.
ClosedAtEnd(end) ==
    IF auOpen /\ auHasVcl
    THEN Append(frames, [offset |-> auStart, length |-> Size - auStart,
                         is_keyframe |-> auHasIdr])
    ELSE frames

\* close_au: what was collected is a picture if it has a slice.
Closed(end) ==
    IF auOpen /\ auHasVcl
    THEN Append(frames, [offset |-> auStart, length |-> end - auStart,
                         is_keyframe |-> auHasIdr])
    ELSE frames

\* Mutant: every slice ends the picture before it.
StartsNewAuAlways(nal) == auOpen /\ auHasVcl

StartsNewAu(nal) ==
    /\ auOpen /\ auHasVcl
    /\ IsVcl(nal.type) =>
          \E bits \in TotalBits(Size - nal.payload) :
              FirstMbIsZero(file.bytes, nal.payload, bits)

ContinuesAu(nal) ==
    /\ auOpen
    /\ auHasVcl => /\ IsVcl(nal.type)
                   /\ \E bits \in TotalBits(Size - nal.payload) :
                          ~FirstMbIsZero(file.bytes, nal.payload, bits)

Group == /\ pass = "group" /\ n < Len(nals)
         /\ n' = n + 1
         /\ UNCHANGED <<file, pass, scanVars>>

\* The NAL unit begins an access unit, after closing the one that is open.
OpenAu == /\ Group
          /\ ~auOpen \/ StartsNewAu(nals[n + 1])
          /\ frames' = Closed(nals[n + 1].start)
          /\ auOpen' = TRUE
          /\ auStart' = nals[n + 1].start
          /\ auHasVcl' = IsVcl(nals[n + 1].type)
          /\ auHasIdr' = (nals[n + 1].type = 5)

\* It belongs to the one that is open.
ExtendAu == /\ Group
            /\ ContinuesAu(nals[n + 1])
            /\ auHasVcl' = (auHasVcl \/ IsVcl(nals[n + 1].type))
            /\ auHasIdr' = (auHasIdr \/ nals[n + 1].type = 5)
            /\ UNCHANGED <<auStart, auOpen, frames>>

\* The last picture reaches to the end of the file.
GroupDone == /\ pass = "group" /\ n = Len(nals)
             /\ pass' = "done"
             /\ frames' = Closed(Size)
             /\ UNCHANGED <<file, scanVars, n, auStart, auOpen, auHasVcl, auHasIdr>>

Next == SkipByte \/ FindNal \/ ScanDone \/ OpenAu \/ ExtendAu \/ GroupDone

Spec == Init /\ [][Next]_vars

-----------------------------------------------------------------------------
FrameEnd(f) == f.offset + f.length

(***************************************************************************)
(* What an encoder writes, and prepare_content.sh asks of ffmpeg: f.units  *)
(* are the NAL units in the bytes, each with the number of the picture it  *)
(* belongs to, and f.pictures are the pictures.                            *)
(***************************************************************************)
Unit == [start : Nat, payload : Nat, type : 0 .. 31, picture : Nat]

\* A unit is a start code, a header and a payload; there is no start code
\* elsewhere: emulation prevention keeps it out of the payload.
LaidOut(f) ==
    /\ f.units \in Seq(Unit)
    /\ \A k \in DOMAIN f.units :
          LET u == f.units[k]
          IN  /\ StartCodeLen(f.bytes, u.start) # 0
              /\ u.payload = u.start + StartCodeLen(f.bytes, u.start) + 1
              /\ u.type = NalType(f.bytes, u.payload - 1)
    /\ \A k, l \in DOMAIN f.units : k < l => f.units[k].payload <= f.units[l].start
    /\ \A p \in 0 .. Len(f.bytes) - 3 :
          StartCodeLen(f.bytes, p) # 0 =>
             \E k \in DOMAIN f.units : f.units[k].start <= p /\ p < f.units[k].payload

OpensPicture(f, k)  == k = 1 \/ f.units[k - 1].picture # f.units[k].picture
ClosesPicture(f, k) == k = Len(f.units) \/ f.units[k + 1].picture # f.units[k].picture

UnitEnd(f, k) == IF k = Len(f.units) THEN Len(f.bytes) ELSE f.units[k + 1].start

\* A picture is units in a row, parameter sets and the like first and then its
\* slices, of which the first has first_mb_in_slice = 0.  What follows the
\* last picture has no slice.
Grouped(f) ==
    /\ f.pictures \in Seq(AccessUnit)
    /\ \A k \in DOMAIN f.units : f.units[k].picture \in 1 .. Len(f.pictures) + 1
    /\ \A k, l \in DOMAIN f.units : k < l => f.units[k].picture <= f.units[l].picture
    /\ \A j \in DOMAIN f.pictures :
          /\ \E k \in DOMAIN f.units : f.units[k].picture = j
          /\ f.pictures[j].is_keyframe <=>
                \E k \in DOMAIN f.units : f.units[k].picture = j /\ f.units[k].type = 5
    /\ \A k \in DOMAIN f.units : f.units[k].picture \in DOMAIN f.pictures =>
          LET picture == f.pictures[f.units[k].picture]
          IN  /\ OpensPicture(f, k) => picture.offset = f.units[k].start
              /\ ClosesPicture(f, k) => /\ IsVcl(f.units[k].type)
                                        /\ FrameEnd(picture) = UnitEnd(f, k)
    /\ \A k \in DOMAIN f.units : IsVcl(f.units[k].type) =>
          /\ f.units[k].picture \in DOMAIN f.pictures
          /\ ClosesPicture(f, k) \/ IsVcl(f.units[k + 1].type)
          /\ f.units[k].payload < Len(f.bytes)
          /\ At(f.bytes, f.units[k].payload) >= 128 <=>
                OpensPicture(f, k) \/ ~IsVcl(f.units[k - 1].type)

Coded(f) == LaidOut(f) /\ Grouped(f)

\* The index of what the encoder writes is the list of its pictures: offset,
\* length and keyframe flag of each, parameter sets with the picture they
\* precede, slices with their picture.
IndexesPictures == pass = "done" => frames = file.pictures

\* Whatever the bytes, the frames lie in the file one after the other, none
\* empty: what frame_at hands out never overlaps and never leaves the mapping.
FramesInOrder ==
    /\ \A k \in DOMAIN frames : frames[k].length > 0 /\ FrameEnd(frames[k]) <= Size
    /\ \A k \in DOMAIN frames : k > 1 => FrameEnd(frames[k - 1]) <= frames[k].offset

\* "A VCL NAL alone does NOT end a frame": there are as many frames as
\* pictures, however many slices a picture has.
SlicesStayTogether == pass = "done" => Len(frames) = Len(file.pictures)
=============================================================================
