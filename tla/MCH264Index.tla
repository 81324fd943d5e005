----------------------------- MODULE MCH264Index -----------------------------
(* Files for TLC: up to two pictures, written as an encoder writes them.  *)
EXTENDS H264Index, SequencesExt

\* Whether parameter sets precede the picture, whether it is an IDR, how many
\* slices it has, and whether its start codes are the long ones.
Pictures == [params : BOOLEAN, idr : BOOLEAN, slices : 1 .. 2, long : BOOLEAN]

StartCode(p) == IF p.long THEN <<0, 0, 0, 1>> ELSE <<0, 0, 1>>

\* Header byte and payload: an SPS and a PPS; a slice whose first bit says
\* whether it is the first of its picture.
Params(p) == IF p.params THEN StartCode(p) \o <<103, 66>> \o StartCode(p) \o <<104, 206>>
             ELSE << >>
Slice(p, k) == StartCode(p) \o <<IF p.idr THEN 101 ELSE 65>>
                            \o <<IF k = 1 THEN 136 ELSE 68, 3>>
Bytes(p) == Params(p) \o FlattenSeq([k \in 1 .. p.slices |-> Slice(p, k)])

\* A file may be cut off right behind a start code.
Tails == {<< >>, <<0, 0, 1>>}

\* The units of a picture, from the bytes before it and its number.
UnitsOf(p, before, picture) ==
    LET code == Len(StartCode(p))
        slice(at) == [start   |-> at, payload |-> at + code + 1,
                      type    |-> IF p.idr THEN 5 ELSE 1, picture |-> picture]
        params == [k \in 1 .. IF p.params THEN 2 ELSE 0 |->
                      LET at == before + (k - 1) * (code + 2)
                      IN  [start |-> at, payload |-> at + code + 1,
                           type |-> 6 + k, picture |-> picture]]
    IN  params \o [k \in 1 .. p.slices |->
                      slice(before + Len(Params(p)) + (k - 1) * (code + 3))]

FileOf(ps, tail) ==
    LET coded == [k \in DOMAIN ps |-> Bytes(ps[k])]
        upTo(k) == Len(FlattenSeq(SubSeq(coded, 1, k)))
        size == upTo(Len(ps))
        tailUnit == [start |-> size, payload |-> size + 4,
                     type |-> 0, picture |-> Len(ps) + 1]
    IN  [bytes    |-> FlattenSeq(coded) \o tail,
         units    |-> FlattenSeq([k \in DOMAIN ps |-> UnitsOf(ps[k], upTo(k - 1), k)])
                        \o (IF tail = << >> THEN << >> ELSE <<tailUnit>>),
         pictures |-> [k \in DOMAIN ps |->
                          [offset      |-> upTo(k - 1),
                           length      |-> Len(coded[k]),
                           is_keyframe |-> ps[k].idr]]]

MCFiles == {FileOf(ps, tail) : ps \in SeqOf(Pictures, 2), tail \in Tails}

\* The theorem about what an encoder writes is about these files: with IntMax
\* = 511 the bits of each can be counted, with 63 those of the longer cannot.
ASSUME MCFilesAreCoded == \A f \in MCFiles : Coded(f) /\ 8 * Len(f.bytes) <= 511
=============================================================================
