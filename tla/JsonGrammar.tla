----------------------------- MODULE JsonGrammar -----------------------------
(***************************************************************************)
(* What the parser of src/json.cpp promises, without its control: the      *)
(* grammar of JSON, and the value a text denotes.  A text is a sequence of *)
(* tokens, the white space between them left out:                          *)
(*    <<"{">>, <<"}">>, <<"[">>, <<"]">>, <<",">>, <<":">>   punctuation;  *)
(*    a scalar value                 the literal that denotes it;          *)
(*    <<"?">>                        what starts no value, or one that     *)
(*                                   fails: an open string, a bad literal. *)
(* A value is <<"Null">>, or its Json::Type and what it holds: a Boolean,  *)
(* a number in hundredths, a string, a sequence of values, or a function   *)
(* from keys to values.  parse_number leaves the reading of its run of     *)
(* digits, signs and points to strtod, so a number is what strtod makes of *)
(* such a run, well formed or not.                                         *)
(***************************************************************************)
EXTENDS Integers, Sequences

Scalars == {"Null", "Bool", "Number", "String"}

Token == {<<mark>> : mark \in {"{", "}", "[", "]", ",", ":", "?", "Null"}}
         \cup ({"Bool"} \X BOOLEAN) \cup ({"Number"} \X Int) \cup ({"String"} \X STRING)

\* The members f over those of g; one member.  (@@ and :> of TLC, which the
\* prover does not know.)
Over(f, g) == [key \in DOMAIN f \cup DOMAIN g |-> IF key \in DOMAIN f THEN f[key] ELSE g[key]]
Member(key, v) == [k \in {key} |-> v]

-----------------------------------------------------------------------------
(* A judgement <<is, from, to, holds>> is about the tokens from + 1 to to  *)
(* of a text.  If is = "value", they are a value, holds; if it is "Array"  *)
(* or "Object", they are what remains of one behind an element, up to its  *)
(* closing bracket, and hold these further elements or members.            *)

Bracketed == {"Array", "Object"}

Opens(of)  == IF of = "Object" THEN "{" ELSE "["
Closes(of) == IF of = "Object" THEN "}" ELSE "]"

Mark(t, p, mark) == p \in 0 .. Len(t) - 1 /\ t[p + 1] = <<mark>>

\* A name and a colon, as a member begins with.
Name(t, p) == p \in 0 .. Len(t) - 1 /\ t[p + 1][1] = "String" /\ Mark(t, p + 1, ":")

\* The value v and the remainder r behind it are the elements of an array or
\* object from the first of them on.
Adjoin(t, v, r) ==
    IF r[1] = "Object"
    THEN <<"Object", v[2] - 2, r[3], Over(r[4], Member(t[v[2] - 1][2], v[4]))>>
    ELSE <<"Array", v[2], r[3], <<v[4]>> \o r[4]>>

Elements(t, S) ==
    {Adjoin(t, p[1], p[2]) :
        p \in {q \in S \X S : /\ q[1][1] = "value" /\ q[2][1] \in Bracketed
                              /\ q[1][3] = q[2][2]
                              /\ q[2][1] = "Object" => Name(t, q[1][2] - 2)}}

\* What the rules of the grammar conclude from the judgements S.
Conclusions(t, S) ==
    LET positions == 0 .. Len(t) - 1
        following == Elements(t, S)
    IN  {<<"value", p, p + 1, t[p + 1]>> : p \in {q \in positions : t[q + 1][1] \in Scalars}}
        \cup {<<"value", e[2] - 1, e[3], <<e[1], e[4]>> >> :
                 e \in {f \in following : Mark(t, f[2] - 1, Opens(f[1]))}}
        \cup {<<e[1], e[2] - 1, e[3], e[4]>> :
                 e \in {f \in following : Mark(t, f[2] - 1, ",")}}
        \cup UNION {
           {<<"value", p, p + 2, <<of, << >>>> >> :
               p \in {q \in positions : Mark(t, q, Opens(of)) /\ Mark(t, q + 1, Closes(of))}}
           \cup {<<of, p, p + 1, << >>>> : p \in {q \in positions : Mark(t, q, Closes(of))}}
           : of \in Bracketed}

\* All there is to say of a text.  A conclusion is about more tokens than its
\* premises, so no more than Len(t) rounds yield anything.
Judgements(t) ==
    LET known[n \in 0 .. Len(t)] == IF n = 0 THEN {} ELSE Conclusions(t, known[n - 1])
    IN  known[Len(t)]

\* The value of the text as a whole, in a set; none if it is no document.
Denoted(t) ==
    {j[4] : j \in {k \in Judgements(t) : k[1] = "value" /\ k[2] = 0 /\ k[3] = Len(t)}}
=============================================================================
