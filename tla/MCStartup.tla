------------------------------ MODULE MCStartup ------------------------------
(***************************************************************************)
(* Configuration files for TLC: written from trees, whole or damaged.  In  *)
(* a tree an object is its list of members, in the order they are written  *)
(* in; what it holds is the last member of each name.                      *)
(***************************************************************************)
EXTENDS Startup, FiniteSetsExt

Num(n) == <<"Number", n>>
Str(s) == <<"String", s>>

RECURSIVE Written(_), Holds(_), Joined(_, _)

Joined(parts, n) == IF n = 0 THEN << >>
                    ELSE IF n = 1 THEN parts[1]
                    ELSE Joined(parts, n - 1) \o << <<",">> >> \o parts[n]

\* The tokens of a tree.
Written(tree) ==
    CASE tree[1] = "Array" ->
            << <<"[">> >> \o Joined([i \in DOMAIN tree[2] |-> Written(tree[2][i])],
                                    Len(tree[2])) \o << <<"]">> >>
      [] tree[1] = "Object" ->
            << <<"{">> >> \o Joined([i \in DOMAIN tree[2] |->
                                       <<Str(tree[2][i][1]), <<":">> >> \o Written(tree[2][i][2])],
                                    Len(tree[2])) \o << <<"}">> >>
      [] OTHER -> <<tree>>

\* The value of a tree.
Holds(tree) ==
    CASE tree[1] = "Array" -> <<"Array", [i \in DOMAIN tree[2] |-> Holds(tree[2][i])]>>
      [] tree[1] = "Object" ->
            LET keys == {tree[2][i][1] : i \in DOMAIN tree[2]}
                last(k) == Max({i \in DOMAIN tree[2] : tree[2][i][1] = k})
            IN  <<"Object", [k \in keys |-> Holds(tree[2][last(k)][2])]>>
      [] OTHER -> tree

Obj(members) == <<"Object", members>>
Arr(items)   == <<"Array", items>>

Rung == Obj(<< <<"id", Num(0)>>, <<"width", Num(32000)>>, <<"height", Num(18000)>>,
               <<"bitrate_kbps", Num(20000)>>, <<"file", Str("level0.h264")>> >>)
HalfRung == Obj(<< <<"id", Num(0)>>, <<"file", Str("level0.h264")>> >>)

With(members, level) ==
    Obj(<< <<"levels", Arr(<<Rung, Rung>>)>>, <<"start_level", level>> >> \o members)

Good == {
    With(<< >>, Num(0)),
    With(<< <<"mode", Str("yuv")>>, <<"yuv", Obj(<< <<"width", Num(64000)>> >>)>> >>, Num(170)),
    With(<< <<"abr", Obj(<< >>)>>, <<"loop_content", <<"Bool", FALSE>> >> >>, Num(-50)),
    With(<< <<"abr", <<"Null">> >>, <<"mode", Str("yuv2")>> >>, Num(100)),
    \* a name twice: the latter counts
    With(<< <<"start_level", Num(0)>> >>, Num(900)) }

Bad == {
    With(<< >>, Num(200)),
    With(<< >>, Num(-100)),
    With(<< >>, Str("0")),
    With(<< <<"abr", Obj(<< <<"headroom", Str("x")>> >>)>> >>, Num(0)),
    With(<< <<"levels", Arr(<<Rung, HalfRung>>)>> >>, Num(0)),
    With(<< <<"levels", Arr(<<Arr(<< >>)>>)>> >>, Num(0)),
    With(<< <<"levels", Arr(<< >>)>> >>, Num(0)),
    Obj(<< <<"levels", Arr(<<Rung, Rung>>)>> >>),   \* the default level is 3
    Obj(<< >>), Arr(<< >>), Num(0) }

File(t, holds, fit) == [exists |-> TRUE, text |-> t, holds |-> holds, fit |-> fit]

\* Cut off anywhere, followed by more, or with something unreadable in it.
Nothing == <<"Nothing">>
Damaged(t) ==
    {File(SubSeq(t, 1, n), Nothing, FALSE) : n \in 0 .. Len(t) - 1} \cup
    {File(Append(t, x), Nothing, FALSE) : x \in { <<"}">>, Num(0)}} \cup
    {File([t EXCEPT ![n] = x], Nothing, FALSE) : n \in 1 .. Len(t), x \in { <<"?">>, <<":">> }}

Damageable == With(<< <<"abr", Obj(<< >>)>> >>, Num(0))

MCFiles ==
    {File(Written(t), Holds(t), TRUE) : t \in Good} \cup
    {File(Written(t), Holds(t), FALSE) : t \in Bad} \cup
    {f \in Damaged(Written(Damageable)) : f.text # Written(Damageable)} \cup
    {[exists |-> FALSE, text |-> << >>, holds |-> Nothing, fit |-> FALSE]}

W(s) == <<"word", s>>
Command(words, fit) == [words |-> words, fit |-> fit]

MCCommandLines == {
    Command(<<W("--appid"), W("a")>>, TRUE),
    Command(<<W("--mode"), W("encoded"), W("--appid"), W("a"), W("--channel"), W("c")>>, TRUE),
    Command(<<W("--appid"), W("a"), W("--start-level"), <<"number", 1>> >>, TRUE),
    Command(<<W("--appid"), W("a"), W("--start-level"), <<"number", -7>>, W("--uid"), W("x")>>, TRUE),
    Command(<<W("--appid"), W("a"), W("--start-level"), W("--mode")>>, TRUE),
    Command(<<W("--appid"), W("a"), W("--start-level"), <<"number", 2>> >>, FALSE),
    Command(<<W("--appid"), W("a"), W("--mode"), W("raw")>>, FALSE),
    Command(<<W("--appid"), W("a"), W("--mode")>>, FALSE),
    Command(<<W("--appid"), W("a"), W("--help")>>, FALSE),
    Command(<<W("--mode"), W("yuv")>>, FALSE) }
=============================================================================
