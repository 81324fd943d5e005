--------------------------- MODULE MCContentPlayer ---------------------------
(* Three-rung ladders for TLC: well prepared, and not so well. *)
EXTENDS ContentPlayer

File(n, k) == [frames |-> n, keys |-> k]

MCContents == {
    \* aligned GOPs of equal length, as prepare_content.sh makes them
    [loop |-> TRUE, files |-> [l \in 0 .. 2 |-> File(4, {0, 2})]],
    [loop |-> FALSE, files |-> [l \in 0 .. 2 |-> File(4, {0, 2})]],
    \* one file has a tail the others lack
    [loop |-> TRUE, files |-> [l \in 0 .. 2 |->
        IF l = 2 THEN File(5, {0, 2, 4}) ELSE File(4, {0, 2})]],
    \* keyframes that do not line up
    [loop |-> TRUE, files |-> [l \in 0 .. 2 |->
        IF l = 0 THEN File(4, {0, 3}) ELSE File(3, {0, l})]],
    \* one file is missing
    [loop |-> TRUE, files |-> [l \in 0 .. 2 |->
        IF l = 1 THEN File(0, {}) ELSE File(4, {0, 2})]] }
=============================================================================
