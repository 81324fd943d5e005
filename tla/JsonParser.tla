------------------------------ MODULE JsonParser ------------------------------
(***************************************************************************)
(* The recursive-descent parser of src/json.cpp, with its recursion as a   *)
(* stack.  JsonGrammar says what the texts and the values are.             *)
(***************************************************************************)
EXTENDS JsonGrammar

VARIABLES
    text,   \* s_
    pos,    \* i_, as the number of tokens consumed
    stack,  \* the objects and arrays being parsed, innermost last: what has
            \* been read, and in an object the key a value is read for
    value,  \* the value returned by the parse_value that returned last
    state   \* what the parser does next

pvars == <<text, pos, stack, value, state>>

\* What peek() sees.  The end of the text is no token of a grammar rule, so
\* that each rule fails there as peek() does.
Peek == IF pos < Len(text) THEN text[pos + 1][1] ELSE "end"

Innermost == stack[Len(stack)]
Outer     == SubSeq(stack, 1, Len(stack) - 1)
InObject  == Innermost.of = "Object"
Closing   == IF InObject THEN "}" ELSE "]"

PInit(t) == /\ text = t
            /\ pos = 0
            /\ stack = << >>
            /\ value = <<"Null">>
            /\ state = "value"

Consume(n) == pos' = pos + n /\ UNCHANGED text

Fail == /\ state' = "thrown"
        /\ UNCHANGED <<text, pos, stack, value>>

\* parse_value: a scalar ...
ParseScalar == /\ state = "value" /\ Peek \in Scalars
               /\ value' = text[pos + 1]
               /\ state' = "returned"
               /\ Consume(1) /\ UNCHANGED stack

\* ... or an object or array, of which this is the opening bracket ...
Open == /\ state = "value" /\ Peek \in {"{", "["}
        /\ stack' = Append(stack, IF Peek = "{"
                                  THEN [of |-> "Object", holds |-> << >>, key |-> ""]
                                  ELSE [of |-> "Array", holds |-> << >>, key |-> ""])
        /\ state' = "open"
        /\ Consume(1) /\ UNCHANGED value

\* ... or nothing that parse_number would take.
NoValue == /\ state = "value"
           /\ Peek \notin Scalars \cup {"{", "["}
           /\ Fail

\* The innermost object or array is complete.
Close(holds) == /\ value' = <<Innermost.of, holds>>
                /\ stack' = Outer
                /\ state' = "returned"
                /\ Consume(1)

ParseEmpty == /\ state = "open" /\ Peek = Closing
              /\ Close(Innermost.holds)

ParseFirst == /\ state = "open" /\ Peek # Closing
              /\ state' = IF InObject THEN "key" ELSE "value"
              /\ UNCHANGED <<text, pos, stack, value>>

ParseKey == /\ state = "key"
            /\ IF Peek = "String" /\ pos + 2 <= Len(text) /\ text[pos + 2] = <<":">>
               THEN /\ stack' = Append(Outer, [Innermost EXCEPT !.key = text[pos + 1][2]])
                    /\ state' = "value"
                    /\ Consume(2) /\ UNCHANGED value
               ELSE Fail

\* Mutant: a key that was there stays.
AddedOnce == IF InObject THEN Over(Innermost.holds, Member(Innermost.key, value))
             ELSE Append(Innermost.holds, value)

\* The value returned goes into the object, over any of the same key, or to
\* the end of the array.
Added == IF InObject THEN Over(Member(Innermost.key, value), Innermost.holds)
         ELSE Append(Innermost.holds, value)

ParseNext == /\ state = "returned" /\ stack # << >> /\ Peek = ","
             /\ stack' = Append(Outer, [Innermost EXCEPT !.holds = Added])
             /\ state' = IF InObject THEN "key" ELSE "value"
             /\ Consume(1) /\ UNCHANGED value

ParseLast == /\ state = "returned" /\ stack # << >> /\ Peek = Closing
             /\ Close(Added)

ParseNoMore == /\ state = "returned" /\ stack # << >>
               /\ Peek \notin {",", Closing}
               /\ Fail

\* parse: the document is over; the text must be too.
ParseEnd == /\ state = "returned" /\ stack = << >>
            /\ state' = IF pos = Len(text) THEN "parsed" ELSE "thrown"
            /\ UNCHANGED <<text, pos, stack, value>>

Parse == \/ ParseScalar \/ Open \/ NoValue
         \/ ParseEmpty \/ ParseFirst \/ ParseKey
         \/ ParseNext \/ ParseLast \/ ParseNoMore
         \/ ParseEnd

-----------------------------------------------------------------------------
(* Json's accessors, apart from what they throw *)

Has(v, key) == v[1] = "Object" /\ key \in DOMAIN v[2]

\* as_int of a number in hundredths: the fraction is cut off.
AsInt(n) == IF n >= 0 THEN n \div 100 ELSE -((-n) \div 100)
=============================================================================
