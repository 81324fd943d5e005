---------------------------- MODULE StartupProofs ----------------------------
(***************************************************************************)
(* The parser against the grammar, for texts of any length and nesting,    *)
(* and the configuration it leaves to the rest of the program.             *)
(*                                                                         *)
(* First the grammar: the judgements of JsonGrammar are closed under its   *)
(* rules and well founded (each follows from judgements about fewer        *)
(* tokens), and where a value begins decides what it is.  Then the parser: *)
(* what is on its stack is what the rules have yet to be applied to, seen  *)
(* from where things begin for soundness and from where they end for       *)
(* completeness.  Then main.                                               *)
(***************************************************************************)
EXTENDS Startup, WellFoundedInduction, TLAPS

\* A set that holds 0 and the successor of each natural it holds, holds them
\* all: a least one outside would have its predecessor inside.
LEMMA NatSetInduction ==
  ASSUME NEW S, 0 \in S, \A n \in Nat : n \in S => n + 1 \in S
  PROVE  Nat \subseteq S
<1>. DEFINE Less == {ss \in Nat \X Nat : ss[1] < ss[2]}
            Out == Nat \ S
<1>. SUFFICES ASSUME Out # {}
              PROVE  FALSE
  OBVIOUS
<1>1. IsWellFoundedOn(Less, Nat)
  <2>1. OpToRel(<, Nat) = Less
    BY DEF OpToRel
  <2>. QED
    BY <2>1, NatLessThanWellFounded
<1>2. PICK x \in Out : \A y \in Out : ~ (<<y, x>> \in Less)
  BY <1>1, WFMin
<1>3. x # 0 /\ x \in Nat
  OBVIOUS
<1>4. x - 1 \in Nat /\ x - 1 < x /\ (x - 1) + 1 = x
  BY <1>3
<1>5. <<x - 1, x>> \in Less
  BY <1>3, <1>4
<1>6. x - 1 \in S
  BY <1>2, <1>4, <1>5
<1>. QED
  BY <1>3, <1>4, <1>6

-----------------------------------------------------------------------------
\* f lists what is known of t after each of the first n rounds.
Rounds(f, t, n) == /\ f = [k \in 0 .. n |-> f[k]]
                   /\ f[0] = {}
                   /\ \A k \in 1 .. n : f[k] = Conclusions(t, f[k - 1])

\* The recursive function Judgements is built on exists.
LEMMA RoundsExist ==
  ASSUME NEW t, NEW n \in Nat
  PROVE  \E f : Rounds(f, t, n)
<1>. DEFINE S == {m \in Nat : \E f : Rounds(f, t, m)}
<1>1. 0 \in S
  <2>1. Rounds([k \in 0 .. 0 |-> {}], t, 0)
    BY DEF Rounds
  <2>. QED BY <2>1
<1>2. ASSUME NEW m \in Nat, m \in S
      PROVE  m + 1 \in S
  <2>1. PICK f : Rounds(f, t, m)
    BY <1>2
  <2>. DEFINE g == [k \in 0 .. m + 1 |-> IF k = m + 1 THEN Conclusions(t, f[m]) ELSE f[k]]
  <2>2. g = [k \in 0 .. m + 1 |-> g[k]] /\ g[0] = {}
    BY <2>1 DEF Rounds
  <2>3. ASSUME NEW k \in 1 .. m + 1
        PROVE  g[k] = Conclusions(t, g[k - 1])
    <3>1. k \in 0 .. m + 1 /\ k - 1 \in 0 .. m + 1 /\ k - 1 # m + 1
      OBVIOUS
    <3>2. g[k - 1] = f[k - 1]
      BY <3>1
    <3>3. CASE k = m + 1
      BY <3>1, <3>2, <3>3
    <3>4. CASE k # m + 1
      <4>1. k \in 1 .. m /\ g[k] = f[k]
        BY <3>1, <3>4
      <4>. QED BY <2>1, <3>2, <4>1 DEF Rounds
    <3>. QED BY <3>3, <3>4
  <2>4. Rounds(g, t, m + 1)
    <3>. HIDE DEF g
    <3>. QED BY <2>2, <2>3 DEF Rounds
  <2>. QED BY <2>4
<1>3. Nat \subseteq S
  <2>. HIDE DEF S
  <2>. QED BY <1>1, <1>2, NatSetInduction
<1>. QED BY <1>3

\* Judgements are those of the last of the rounds.
LEMMA JudgementsAreRounds ==
  ASSUME NEW t, Len(t) \in Nat
  PROVE  \E f : Rounds(f, t, Len(t)) /\ Judgements(t) = f[Len(t)]
<1>. DEFINE Eq(f) == f = [n \in 0 .. Len(t) |->
                             IF n = 0 THEN {} ELSE Conclusions(t, f[n - 1])]
            known == CHOOSE f : Eq(f)
<1>1. Judgements(t) = known[Len(t)]
  BY DEF Judgements
<1>2. \E f : Eq(f)
  <2>1. PICK f : Rounds(f, t, Len(t))
    BY RoundsExist
  <2>2. \A n \in 0 .. Len(t) : f[n] = IF n = 0 THEN {} ELSE Conclusions(t, f[n - 1])
    <3>. TAKE n \in 0 .. Len(t)
    <3>1. CASE n = 0
      BY <2>1, <3>1 DEF Rounds
    <3>2. CASE n # 0
      <4>1. n \in 1 .. Len(t)
        BY <3>2
      <4>. QED BY <2>1, <3>2, <4>1 DEF Rounds
    <3>. QED BY <3>1, <3>2
  <2>3. Eq(f)
    BY <2>1, <2>2 DEF Rounds
  <2>. QED BY <2>3
<1>3. Eq(known)
  BY <1>2
<1>. HIDE DEF known
<1>4. Rounds(known, t, Len(t))
  <2>1. DOMAIN known = 0 .. Len(t) /\ known = [n \in 0 .. Len(t) |-> known[n]]
    BY <1>3
  <2>2. known[0] = {}
    BY <1>3
  <2>3. \A k \in 1 .. Len(t) : known[k] = Conclusions(t, known[k - 1])
    <3>. TAKE k \in 1 .. Len(t)
    <3>1. k \in 0 .. Len(t) /\ k # 0
      OBVIOUS
    <3>. QED BY <1>3, <3>1
  <2>. QED BY <2>1, <2>2, <2>3 DEF Rounds
<1>. QED BY <1>1, <1>4

-----------------------------------------------------------------------------
\* The value v is an element of the array or object that r is the remainder of.
Fits(t, v, r) ==
    /\ v[1] = "value" /\ r[1] \in Bracketed /\ v[3] = r[2]
    /\ r[1] = "Object" => Name(t, v[2] - 2)

\* The rules of the grammar, one by one.
ByScalar(t, j) ==
    \E p \in 0 .. Len(t) - 1 : t[p + 1][1] \in Scalars /\ j = <<"value", p, p + 1, t[p + 1]>>
ByEmpty(t, j) ==
    \E of \in Bracketed : \E p \in 0 .. Len(t) - 1 :
        Mark(t, p, Opens(of)) /\ Mark(t, p + 1, Closes(of)) /\ j = <<"value", p, p + 2, <<of, << >>>> >>
ByEnd(t, j) ==
    \E of \in Bracketed : \E p \in 0 .. Len(t) - 1 :
        Mark(t, p, Closes(of)) /\ j = <<of, p, p + 1, << >>>>
Begun(t, e, j) == Mark(t, e[2] - 1, Opens(e[1])) /\ j = <<"value", e[2] - 1, e[3], <<e[1], e[4]>> >>
Behind(t, e, j) == Mark(t, e[2] - 1, ",") /\ j = <<e[1], e[2] - 1, e[3], e[4]>>
ByFirst(t, S, j) == \E v \in S : \E r \in S : Fits(t, v, r) /\ Begun(t, Adjoin(t, v, r), j)
ByMore(t, S, j)  == \E v \in S : \E r \in S : Fits(t, v, r) /\ Behind(t, Adjoin(t, v, r), j)

\* Elements are made of a value and the remainder that fits it.
LEMMA ElementsAre ==
    ASSUME NEW t, NEW S, NEW e
    PROVE  e \in Elements(t, S) <=> \E v \in S : \E r \in S : Fits(t, v, r) /\ e = Adjoin(t, v, r)
<1>. DEFINE P == {q \in S \X S : Fits(t, q[1], q[2])}
<1>1. Elements(t, S) = {Adjoin(t, p[1], p[2]) : p \in P}
  BY DEF Elements, Fits
<1>2. ASSUME e \in Elements(t, S)
      PROVE  \E v \in S : \E r \in S : Fits(t, v, r) /\ e = Adjoin(t, v, r)
  <2>1. PICK p \in P : e = Adjoin(t, p[1], p[2])
    BY <1>1, <1>2
  <2>2. p[1] \in S /\ p[2] \in S /\ Fits(t, p[1], p[2])
    BY <2>1
  <2>. QED BY <2>1, <2>2
<1>3. ASSUME NEW v \in S, NEW r \in S, Fits(t, v, r), e = Adjoin(t, v, r)
      PROVE  e \in Elements(t, S)
  <2>1. <<v, r>> \in S \X S /\ <<v, r>>[1] = v /\ <<v, r>>[2] = r
    OBVIOUS
  <2>2. <<v, r>> \in P
    BY <1>3, <2>1
  <2>3. e = Adjoin(t, <<v, r>>[1], <<v, r>>[2])
    BY <1>3, <2>1
  <2>. HIDE DEF P
  <2>. QED BY <1>1, <2>2, <2>3
<1>. QED BY <1>2, <1>3

\* A conclusion is one by a rule.
LEMMA ConclusionsAre ==
    ASSUME NEW t, NEW S, NEW j
    PROVE  j \in Conclusions(t, S) <=>
              ByScalar(t, j) \/ ByEmpty(t, j) \/ ByEnd(t, j) \/ ByFirst(t, S, j) \/ ByMore(t, S, j)
<1>. DEFINE positions == 0 .. Len(t) - 1
            following == Elements(t, S)
            A == {<<"value", p, p + 1, t[p + 1]>> : p \in {q \in positions : t[q + 1][1] \in Scalars}}
            B(of) == {<<"value", p, p + 2, <<of, << >>>> >> :
               p \in {q \in positions : Mark(t, q, Opens(of)) /\ Mark(t, q + 1, Closes(of))}}
            C(of) == {<<of, p, p + 1, << >>>> : p \in {q \in positions : Mark(t, q, Closes(of))}}
            U == UNION {B(of) \cup C(of) : of \in Bracketed}
            D == {<<"value", e[2] - 1, e[3], <<e[1], e[4]>> >> :
                 e \in {f \in following : Mark(t, f[2] - 1, Opens(f[1]))}}
            E == {<<e[1], e[2] - 1, e[3], e[4]>> :
                 e \in {f \in following : Mark(t, f[2] - 1, ",")}}
<1>1. Conclusions(t, S) = A \cup D \cup E \cup U
  BY DEF Conclusions
<1>2. j \in A <=> ByScalar(t, j)
  BY DEF ByScalar
<1>3. j \in U <=> ByEmpty(t, j) \/ ByEnd(t, j)
  <2>1. j \in U <=> \E of \in Bracketed : j \in B(of) \/ j \in C(of)
    OBVIOUS
  <2>2. ASSUME NEW of \in Bracketed
        PROVE  j \in B(of) <=> \E p \in 0 .. Len(t) - 1 :
        Mark(t, p, Opens(of)) /\ Mark(t, p + 1, Closes(of)) /\ j = <<"value", p, p + 2, <<of, << >>>> >>
    OBVIOUS
  <2>3. ASSUME NEW of \in Bracketed
        PROVE  j \in C(of) <=> \E p \in 0 .. Len(t) - 1 :
        Mark(t, p, Closes(of)) /\ j = <<of, p, p + 1, << >>>>
    OBVIOUS
  <2>. HIDE DEF B, C, U
  <2>. QED BY <2>1, <2>2, <2>3 DEF ByEmpty, ByEnd
<1>4. j \in D <=> ByFirst(t, S, j)
  <2>1. j \in D <=> \E e \in following : Begun(t, e, j)
    BY DEF Begun
  <2>. HIDE DEF D
  <2>. QED BY <2>1, ElementsAre DEF ByFirst
<1>5. j \in E <=> ByMore(t, S, j)
  <2>1. j \in E <=> \E e \in following : Behind(t, e, j)
    BY DEF Behind
  <2>. HIDE DEF E
  <2>. QED BY <2>1, ElementsAre DEF ByMore
<1>. HIDE DEF A, U, D, E
<1>. QED BY <1>1, <1>2, <1>3, <1>4, <1>5

-----------------------------------------------------------------------------
(* What judgements look like *)

IsSequence(s) == \E X : s \in Seq(X)

\* Arrays hold sequences and numbers integers.
Flat(v) == /\ v[1] = "Array" => IsSequence(v[2])
           /\ v[1] = "Number" => v[2] \in Int

FlatMembers(f) == /\ f = [key \in DOMAIN f |-> f[key]]
                  /\ \A key \in DOMAIN f : Flat(f[key])

IsJudgement(t, j) ==
    /\ j = <<j[1], j[2], j[3], j[4]>>
    /\ j[1] \in {"value"} \cup Bracketed
    /\ j[2] \in Nat /\ j[3] \in Nat /\ j[2] < j[3] /\ j[3] <= Len(t)
    /\ j[1] = "value" => Flat(j[4]) /\ (j[4][1] = "Object" => FlatMembers(j[4][2]))
    /\ j[1] = "Array" => IsSequence(j[4])
    /\ j[1] = "Object" => FlatMembers(j[4])

\* The empty sequence is also the function without arguments.
LEMMA NothingHeld == IsSequence(<< >>) /\ FlatMembers(<< >>)
<1>1. << >> \in Seq({})
  OBVIOUS
<1>2. DOMAIN << >> = {}
  OBVIOUS
<1>. QED BY <1>1, <1>2 DEF IsSequence, FlatMembers

\* A sequence stays one with a value in front or behind.
LEMMA SequenceJoins ==
    ASSUME NEW s, IsSequence(s), NEW w
    PROVE  IsSequence(<<w>> \o s) /\ IsSequence(Append(s, w))
<1>1. PICK X : s \in Seq(X)
  BY DEF IsSequence
<1>2. s \in Seq(X \cup {w}) /\ <<w>> \in Seq(X \cup {w})
  BY <1>1
<1>. QED BY <1>2 DEF IsSequence

\* So do the members of an object with one more, over or under them.
LEMMA MemberJoins ==
    ASSUME NEW f, FlatMembers(f), NEW key, NEW w, Flat(w)
    PROVE  FlatMembers(Over(f, Member(key, w))) /\ FlatMembers(Over(Member(key, w), f))
BY DEF FlatMembers, Over, Member

\* A token is told by its mark, unless that is the type of a scalar with a value.
LEMMA TokenForm ==
    ASSUME NEW x \in Token
    PROVE  /\ x[1] = "Number" => x[2] \in Int
           /\ x[1] \notin {"Bool", "Number", "String"} => x = <<x[1]>>
<1>. DEFINE Marks == {"{", "}", "[", "]", ",", ":", "?", "Null"}
<1>1. CASE x \in {<<mark>> : mark \in Marks}
  <2>1. PICK mark \in Marks : x = <<mark>>
    BY <1>1
  <2>2. x[1] = mark
    BY <2>1
  <2>. QED BY <2>1, <2>2
<1>2. CASE x \in {"Bool"} \X BOOLEAN
  BY <1>2
<1>3. CASE x \in {"Number"} \X Int
  BY <1>3
<1>4. CASE x \in {"String"} \X STRING
  BY <1>4
<1>. QED BY <1>1, <1>2, <1>3, <1>4 DEF Token

\* An element and what is behind it span both, and hold what is due.
LEMMA AdjoinTyped ==
    ASSUME NEW t \in Seq(Token), NEW v, NEW r, NEW e,
           IsJudgement(t, v), IsJudgement(t, r), Fits(t, v, r), e = Adjoin(t, v, r)
    PROVE  /\ e[1] = r[1] /\ e[1] \in Bracketed
           /\ e[2] \in Int /\ e[2] <= v[2] /\ e[3] = r[3]
           /\ e[3] \in Nat /\ e[3] <= Len(t) /\ e[2] < e[3]
           /\ v[3] - v[2] \in 1 .. e[3] - e[2] /\ r[3] - r[2] \in 1 .. e[3] - e[2]
           /\ e[1] = "Array" => IsSequence(e[4])
           /\ e[1] = "Object" => FlatMembers(e[4])
<1>0. /\ Len(t) \in Nat /\ v[2] \in Nat /\ v[3] \in Nat /\ r[2] \in Nat /\ r[3] \in Nat
      /\ v[2] < v[3] /\ v[3] = r[2] /\ r[2] < r[3] /\ r[3] <= Len(t)
  BY DEF IsJudgement, Fits
<1>1. CASE r[1] = "Object"
  <2>1. e = <<"Object", v[2] - 2, r[3], Over(r[4], Member(t[v[2] - 1][2], v[4]))>>
    BY <1>1 DEF Adjoin
  <2>2. FlatMembers(r[4]) /\ Flat(v[4]) /\ v[2] \in Nat
    BY <1>1 DEF IsJudgement, Fits
  <2>3. FlatMembers(Over(r[4], Member(t[v[2] - 1][2], v[4])))
    BY <2>2, MemberJoins
  <2>4. e[1] = "Object" /\ e[2] = v[2] - 2 /\ e[3] = r[3] /\ e[4] = Over(r[4], Member(t[v[2] - 1][2], v[4]))
    BY <2>1
  <2>5. \A x, y, z, n \in Nat : x < y /\ y < z /\ z <= n =>
           /\ x - 2 \in Int /\ x - 2 <= x /\ x - 2 < z
           /\ y - x \in 1 .. z - (x - 2) /\ z - y \in 1 .. z - (x - 2)
    OBVIOUS
  <2>6. /\ e[2] \in Int /\ e[2] <= v[2] /\ e[2] < e[3]
        /\ e[3] \in Nat /\ e[3] <= Len(t)
        /\ v[3] - v[2] \in 1 .. e[3] - e[2] /\ r[3] - r[2] \in 1 .. e[3] - e[2]
    BY <1>0, <2>4, <2>5
  <2>7. FlatMembers(e[4]) /\ e[1] # "Array"
    BY <2>3, <2>4
  <2>. QED BY <1>1, <2>4, <2>6, <2>7 DEF Bracketed
<1>2. CASE r[1] = "Array"
  <2>1. e = <<"Array", v[2], r[3], <<v[4]>> \o r[4]>>
    BY <1>2 DEF Adjoin
  <2>2. IsSequence(r[4]) /\ v[2] \in Nat
    BY <1>2 DEF IsJudgement
  <2>3. IsSequence(<<v[4]>> \o r[4])
    BY <2>2, SequenceJoins
  <2>4. e[1] = "Array" /\ e[2] = v[2] /\ e[3] = r[3] /\ e[4] = <<v[4]>> \o r[4]
    BY <2>1
  <2>5. \A x, y, z, n \in Nat : x < y /\ y < z /\ z <= n =>
           /\ x \in Int /\ x <= x /\ x < z
           /\ y - x \in 1 .. z - x /\ z - y \in 1 .. z - x
    OBVIOUS
  <2>6. /\ e[2] \in Int /\ e[2] <= v[2] /\ e[2] < e[3]
        /\ e[3] \in Nat /\ e[3] <= Len(t)
        /\ v[3] - v[2] \in 1 .. e[3] - e[2] /\ r[3] - r[2] \in 1 .. e[3] - e[2]
    BY <1>0, <2>4, <2>5
  <2>7. IsSequence(e[4]) /\ e[1] # "Object"
    BY <2>3, <2>4
  <2>. QED BY <1>2, <2>4, <2>6, <2>7 DEF Bracketed
<1>. QED BY <1>1, <1>2 DEF Fits, Bracketed

\* The rules conclude judgements from judgements.
LEMMA ConclusionTyped ==
    ASSUME NEW t \in Seq(Token), NEW S, \A j \in S : IsJudgement(t, j), NEW j \in Conclusions(t, S)
    PROVE  IsJudgement(t, j)
<1>0. Len(t) \in Nat
  OBVIOUS
<1>1. CASE ByScalar(t, j)
  <2>1. PICK p \in 0 .. Len(t) - 1 : t[p + 1][1] \in Scalars /\ j = <<"value", p, p + 1, t[p + 1]>>
    BY <1>1 DEF ByScalar
  <2>2. t[p + 1] \in Token
    BY <1>0, <2>1
  <2>3. t[p + 1][1] \notin Bracketed
    BY <2>1 DEF Scalars, Bracketed
  <2>4. t[p + 1][1] = "Number" => t[p + 1][2] \in Int
    BY <2>2, TokenForm
  <2>5. Flat(t[p + 1])
    BY <2>3, <2>4 DEF Flat, Bracketed
  <2>. QED BY <1>0, <2>1, <2>3, <2>5 DEF IsJudgement, Bracketed
<1>2. CASE ByEmpty(t, j)
  <2>1. PICK of \in Bracketed, p \in 0 .. Len(t) - 1 :
          Mark(t, p + 1, Closes(of)) /\ j = <<"value", p, p + 2, <<of, << >>>> >>
    BY <1>2 DEF ByEmpty
  <2>2. p + 1 \in 0 .. Len(t) - 1
    BY <2>1 DEF Mark
  <2>3. <<of, << >>>>[1] = of /\ <<of, << >>>>[2] = << >> /\ of # "Number"
    BY DEF Bracketed
  <2>4. Flat(<<of, << >>>>)
    BY <2>3, NothingHeld DEF Flat
  <2>. QED BY <1>0, <2>1, <2>2, <2>3, <2>4, NothingHeld DEF IsJudgement, Bracketed
<1>3. CASE ByEnd(t, j)
  <2>1. PICK of \in Bracketed, p \in 0 .. Len(t) - 1 : j = <<of, p, p + 1, << >>>>
    BY <1>3 DEF ByEnd
  <2>. QED BY <1>0, <2>1, NothingHeld DEF IsJudgement, Bracketed
<1>4. ASSUME NEW v \in S, NEW r \in S, Fits(t, v, r), NEW e, e = Adjoin(t, v, r)
      PROVE  /\ Begun(t, e, j) => IsJudgement(t, j)
             /\ Behind(t, e, j) => IsJudgement(t, j)
  <2>1. /\ e[1] \in Bracketed
        /\ e[2] \in Int /\ e[3] \in Nat /\ e[3] <= Len(t) /\ e[2] < e[3]
        /\ e[1] = "Array" => IsSequence(e[4])
        /\ e[1] = "Object" => FlatMembers(e[4])
    BY <1>4, AdjoinTyped
  <2>2. CASE Begun(t, e, j)
    <3>1. e[2] - 1 \in 0 .. Len(t) - 1
      BY <2>2 DEF Begun, Mark
    <3>2. e[2] - 1 \in Nat /\ e[2] - 1 < e[3]
      BY <1>0, <2>1, <3>1
    <3>3. <<e[1], e[4]>>[1] = e[1] /\ <<e[1], e[4]>>[2] = e[4] /\ e[1] # "Number"
      BY <2>1 DEF Bracketed
    <3>4. Flat(<<e[1], e[4]>>)
      BY <2>1, <3>3 DEF Flat
    <3>5. /\ j[1] = "value" /\ j[2] = e[2] - 1 /\ j[3] = e[3] /\ j[4] = <<e[1], e[4]>>
          /\ j = <<j[1], j[2], j[3], j[4]>>
      BY <2>2 DEF Begun
    <3>. QED BY <2>1, <3>2, <3>3, <3>4, <3>5 DEF IsJudgement, Bracketed
  <2>3. CASE Behind(t, e, j)
    <3>1. e[2] - 1 \in 0 .. Len(t) - 1
      BY <2>3 DEF Behind, Mark
    <3>2. e[2] - 1 \in Nat /\ e[2] - 1 < e[3]
      BY <1>0, <2>1, <3>1
    <3>3. /\ j[1] = e[1] /\ j[2] = e[2] - 1 /\ j[3] = e[3] /\ j[4] = e[4]
          /\ j = <<j[1], j[2], j[3], j[4]>>
      BY <2>3 DEF Behind
    <3>. QED BY <2>1, <3>2, <3>3 DEF IsJudgement, Bracketed
  <2>. QED BY <2>2, <2>3
<1>5. ASSUME ByFirst(t, S, j) \/ ByMore(t, S, j)
      PROVE  IsJudgement(t, j)
  BY <1>4, <1>5 DEF ByFirst, ByMore
<1>. QED BY <1>1, <1>2, <1>3, <1>5, ConclusionsAre

-----------------------------------------------------------------------------
(* Judgements are what the rules yield, and nothing else *)

\* More premises, no fewer conclusions.
LEMMA ConclusionsGrow ==
    ASSUME NEW t, NEW S, NEW T, S \subseteq T
    PROVE  Conclusions(t, S) \subseteq Conclusions(t, T)
<1>. SUFFICES ASSUME NEW j \in Conclusions(t, S)
              PROVE  j \in Conclusions(t, T)
  OBVIOUS
<1>1. ByScalar(t, j) \/ ByEmpty(t, j) \/ ByEnd(t, j) \/ ByFirst(t, S, j) \/ ByMore(t, S, j)
  BY ConclusionsAre
<1>2. ByFirst(t, S, j) => ByFirst(t, T, j)
  BY DEF ByFirst
<1>3. ByMore(t, S, j) => ByMore(t, T, j)
  BY DEF ByMore
<1>. QED BY <1>1, <1>2, <1>3, ConclusionsAre

\* No round forgets what one before it knew.
LEMMA RoundsGrow ==
    ASSUME NEW f, NEW t, NEW n \in Nat, Rounds(f, t, n)
    PROVE  \A k \in 0 .. n : \A l \in k .. n : f[k] \subseteq f[l]
<1>. DEFINE S == {k \in Nat : k + 1 <= n => f[k] \subseteq f[k + 1]}
<1>1. 0 \in S
  BY DEF Rounds
<1>2. ASSUME NEW k \in Nat, k \in S
      PROVE  k + 1 \in S
  <2>. SUFFICES ASSUME (k + 1) + 1 <= n
                PROVE  f[k + 1] \subseteq f[(k + 1) + 1]
    OBVIOUS
  <2>1. k + 1 \in 1 .. n /\ (k + 1) + 1 \in 1 .. n /\ (k + 1) - 1 = k /\ ((k + 1) + 1) - 1 = k + 1
    OBVIOUS
  <2>2. f[k + 1] = Conclusions(t, f[k]) /\ f[(k + 1) + 1] = Conclusions(t, f[k + 1])
    BY <2>1 DEF Rounds
  <2>3. f[k] \subseteq f[k + 1]
    BY <1>2
  <2>. QED BY <2>2, <2>3, ConclusionsGrow
<1>3. Nat \subseteq S
  <2>. HIDE DEF S
  <2>. QED BY <1>1, <1>2, NatSetInduction
<1>. SUFFICES ASSUME NEW k \in 0 .. n
              PROVE  \A l \in k .. n : f[k] \subseteq f[l]
  OBVIOUS
<1>. DEFINE R == {d \in Nat : k + d <= n => f[k] \subseteq f[k + d]}
<1>4. 0 \in R
  OBVIOUS
<1>5. ASSUME NEW d \in Nat, d \in R
      PROVE  d + 1 \in R
  <2>. SUFFICES ASSUME k + (d + 1) <= n
                PROVE  f[k] \subseteq f[k + (d + 1)]
    OBVIOUS
  <2>1. k + d \in Nat /\ k + d <= n /\ (k + d) + 1 = k + (d + 1) /\ (k + d) + 1 <= n
    OBVIOUS
  <2>2. f[k + d] \subseteq f[(k + d) + 1]
    BY <1>3, <2>1
  <2>. QED BY <1>5, <2>1, <2>2
<1>6. Nat \subseteq R
  <2>. HIDE DEF R
  <2>. QED BY <1>4, <1>5, NatSetInduction
<1>7. ASSUME NEW l \in k .. n
      PROVE  f[k] \subseteq f[l]
  <2>1. l - k \in Nat /\ k + (l - k) = l
    OBVIOUS
  <2>. QED BY <1>6, <2>1
<1>. QED BY <1>7

\* A conclusion is known in the round its span allows, if its premises are.
LEMMA ConclusionInRound ==
    ASSUME NEW t \in Seq(Token), NEW f, Rounds(f, t, Len(t)),
           NEW S, \A i \in S : IsJudgement(t, i) /\ i \in f[i[3] - i[2]],
           NEW j \in Conclusions(t, S)
    PROVE  IsJudgement(t, j) /\ j \in f[j[3] - j[2]]
<1>. DEFINE n == Len(t)
            d == j[3] - j[2]
<1>0. n \in Nat
  OBVIOUS
<1>1. IsJudgement(t, j)
  BY ConclusionTyped
<1>2. d \in 1 .. n /\ d - 1 \in 0 .. n
  BY <1>0, <1>1 DEF IsJudgement
<1>3. ASSUME NEW v \in S, NEW r \in S, Fits(t, v, r), NEW e, e = Adjoin(t, v, r),
             j[3] = e[3] /\ j[2] = e[2] - 1
      PROVE  v \in f[d - 1] /\ r \in f[d - 1]
  <2>1. /\ IsJudgement(t, v) /\ v \in f[v[3] - v[2]]
        /\ IsJudgement(t, r) /\ r \in f[r[3] - r[2]]
    OBVIOUS
  <2>2. /\ e[2] \in Int /\ e[3] \in Int
        /\ v[3] - v[2] \in 1 .. e[3] - e[2] /\ r[3] - r[2] \in 1 .. e[3] - e[2]
    BY <1>3, <2>1, AdjoinTyped
  <2>3. d - 1 = e[3] - e[2]
    BY <1>3, <2>2
  <2>4. /\ v[3] - v[2] \in 0 .. n /\ d - 1 \in (v[3] - v[2]) .. n
        /\ r[3] - r[2] \in 0 .. n /\ d - 1 \in (r[3] - r[2]) .. n
    BY <1>0, <1>2, <2>2, <2>3
  <2>5. f[v[3] - v[2]] \subseteq f[d - 1] /\ f[r[3] - r[2]] \subseteq f[d - 1]
    BY <1>0, <2>4, RoundsGrow
  <2>. QED BY <2>1, <2>5
<1>4. \A e : Begun(t, e, j) => j[3] = e[3] /\ j[2] = e[2] - 1
  BY DEF Begun
<1>5. ASSUME NEW e, Behind(t, e, j)
      PROVE  j[3] = e[3] /\ j[2] = e[2] - 1
  <2>1. j = <<e[1], e[2] - 1, e[3], e[4]>>
    BY <1>5 DEF Behind
  <2>. QED BY <2>1
<1>6. ByFirst(t, S, j) => ByFirst(t, f[d - 1], j)
  BY <1>3, <1>4 DEF ByFirst
<1>7. ByMore(t, S, j) => ByMore(t, f[d - 1], j)
  BY <1>3, <1>5 DEF ByMore
<1>8. j \in Conclusions(t, f[d - 1])
  BY <1>6, <1>7, ConclusionsAre
<1>9. f[d] = Conclusions(t, f[d - 1])
  BY <1>2 DEF Rounds
<1>. QED BY <1>1, <1>8, <1>9

\* What is known in a round was known in the one its span allows.
LEMMA RoundOfSpan ==
    ASSUME NEW t \in Seq(Token), NEW f, Rounds(f, t, Len(t))
    PROVE  \A k \in 0 .. Len(t) : \A j \in f[k] : IsJudgement(t, j) /\ j \in f[j[3] - j[2]]
<1>. DEFINE n == Len(t)
            Good(j) == IsJudgement(t, j) /\ j \in f[j[3] - j[2]]
            S == {k \in Nat : k <= n => \A j \in f[k] : Good(j)}
<1>0. n \in Nat
  OBVIOUS
<1>1. 0 \in S
  BY DEF Rounds
<1>2. ASSUME NEW k \in Nat, k \in S
      PROVE  k + 1 \in S
  <2>. SUFFICES ASSUME k + 1 <= n, NEW j \in f[k + 1]
                PROVE  Good(j)
    OBVIOUS
  <2>1. k + 1 \in 1 .. n /\ (k + 1) - 1 = k
    BY <1>0
  <2>2. j \in Conclusions(t, f[k])
    BY <2>1 DEF Rounds
  <2>3. \A i \in f[k] : IsJudgement(t, i) /\ i \in f[i[3] - i[2]]
    BY <1>2
  <2>. QED BY <2>2, <2>3, ConclusionInRound
<1>3. Nat \subseteq S
  <2>. HIDE DEF S
  <2>. QED BY <1>1, <1>2, NatSetInduction
<1>. QED BY <1>3

\* The judgements of a text are closed under the rules, and each follows by one.
LEMMA JudgementsFixed ==
    ASSUME NEW t \in Seq(Token)
    PROVE  /\ Conclusions(t, Judgements(t)) = Judgements(t)
           /\ \A j \in Judgements(t) : IsJudgement(t, j)
<1>. DEFINE n == Len(t)
            D == Judgements(t)
<1>0. n \in Nat
  OBVIOUS
<1>1. PICK f : Rounds(f, t, n) /\ D = f[n]
  BY <1>0, JudgementsAreRounds
<1>2. \A j \in f[n] : IsJudgement(t, j) /\ j \in f[j[3] - j[2]]
  BY <1>0, <1>1, RoundOfSpan
<1>3. ASSUME NEW j \in f[n]
      PROVE  j \in Conclusions(t, f[n])
  <2>1. n # 0 /\ n \in 1 .. n /\ n - 1 \in 0 .. n /\ n \in (n - 1) .. n
    BY <1>0, <1>1 DEF Rounds
  <2>2. f[n] = Conclusions(t, f[n - 1])
    BY <1>1, <2>1 DEF Rounds
  <2>3. f[n - 1] \subseteq f[n]
    BY <1>0, <1>1, <2>1, RoundsGrow
  <2>. QED BY <2>2, <2>3, ConclusionsGrow
<1>4. ASSUME NEW j \in Conclusions(t, f[n])
      PROVE  j \in f[n]
  <2>1. IsJudgement(t, j) /\ j \in f[j[3] - j[2]]
    BY <1>1, <1>2, ConclusionInRound
  <2>2. j[3] - j[2] \in 0 .. n /\ n \in (j[3] - j[2]) .. n
    BY <2>1, <1>0 DEF IsJudgement
  <2>3. f[j[3] - j[2]] \subseteq f[n]
    BY <1>0, <1>1, <2>2, RoundsGrow
  <2>. QED BY <2>1, <2>3
<1>. HIDE DEF D
<1>5. Conclusions(t, D) = D
  BY <1>1, <1>3, <1>4
<1>6. \A j \in D : IsJudgement(t, j)
  BY <1>1, <1>2
<1>. QED BY <1>5, <1>6 DEF D

\* What the rules keep holds of all judgements.
LEMMA RuleInduction ==
    ASSUME NEW t \in Seq(Token), NEW X,
           Conclusions(t, X \cap Judgements(t)) \subseteq X
    PROVE  Judgements(t) \subseteq X
<1>. DEFINE n == Len(t)
            D == Judgements(t)
<1>0. n \in Nat
  OBVIOUS
<1>1. PICK f : Rounds(f, t, n) /\ D = f[n]
  BY <1>0, JudgementsAreRounds
<1>. HIDE DEF D
<1>. DEFINE S == {k \in Nat : k <= n => f[k] \subseteq X}
<1>2. 0 \in S
  BY <1>1 DEF Rounds
<1>3. ASSUME NEW k \in Nat, k \in S
      PROVE  k + 1 \in S
  <2>. SUFFICES ASSUME k + 1 <= n
                PROVE  f[k + 1] \subseteq X
    OBVIOUS
  <2>1. k + 1 \in 1 .. n /\ (k + 1) - 1 = k /\ k \in 0 .. n /\ n \in k .. n
    BY <1>0
  <2>2. f[k + 1] = Conclusions(t, f[k])
    BY <1>1, <2>1 DEF Rounds
  <2>3. f[k] \subseteq D
    BY <1>0, <1>1, <2>1, RoundsGrow
  <2>4. f[k] \subseteq X \cap D
    BY <1>3, <2>1, <2>3
  <2>. QED BY <2>2, <2>4, ConclusionsGrow DEF D
<1>4. Nat \subseteq S
  <2>. HIDE DEF S
  <2>. QED BY <1>2, <1>3, NatSetInduction
<1>. QED BY <1>0, <1>1, <1>4 DEF D

-----------------------------------------------------------------------------
(* The rules, read from the text *)

\* Where the value of an element that begins at p begins: behind its name.
ValueAt(of, p) == IF of = "Object" THEN p + 2 ELSE p

Named(t, of, p) == of = "Object" => Name(t, p)

\* What an element at p with the value w and what comes behind it hold.
Held(t, of, p, w, rest) ==
    IF of = "Object" THEN Over(rest, Member(t[p + 1][2], w)) ELSE <<w>> \o rest

\* From p on, the judgements S find an element and the remainder up to end.
ElementsFrom(t, S, of, p, end, held) ==
    \E m, w, rest : /\ Named(t, of, p)
                    /\ <<"value", ValueAt(of, p), m, w>> \in S
                    /\ <<of, m, end, rest>> \in S
                    /\ held = Held(t, of, p, w, rest)

IsValue(t, S, a, b, h) ==
    \/ a \in 0 .. Len(t) - 1 /\ t[a + 1][1] \in Scalars /\ b = a + 1 /\ h = t[a + 1]
    \/ \E of \in Bracketed :
          /\ Mark(t, a, Opens(of))
          /\ \/ Mark(t, a + 1, Closes(of)) /\ b = a + 2 /\ h = <<of, << >>>>
             \/ \E held : ElementsFrom(t, S, of, a + 1, b, held) /\ h = <<of, held>>

IsRemainder(t, S, of, a, b, h) ==
    \/ Mark(t, a, Closes(of)) /\ b = a + 1 /\ h = << >>
    \/ Mark(t, a, ",") /\ ElementsFrom(t, S, of, a + 1, b, h)

\* An element joined with what is behind it are the elements from there on ...
LEMMA AdjoinForm ==
    ASSUME NEW t \in Seq(Token), NEW S, NEW v \in S, NEW r \in S,
           IsJudgement(t, v), IsJudgement(t, r), Fits(t, v, r),
           NEW e, e = Adjoin(t, v, r)
    PROVE  e[1] \in Bracketed /\ e[2] \in Int /\ ElementsFrom(t, S, e[1], e[2], e[3], e[4])
<1>1. /\ v = <<"value", v[2], v[3], v[4]>> /\ r = <<r[1], v[3], r[3], r[4]>>
      /\ v[2] \in Nat
  BY DEF IsJudgement, Fits
<1>2. CASE r[1] = "Object"
  <2>1. e = <<"Object", v[2] - 2, r[3], Over(r[4], Member(t[v[2] - 1][2], v[4]))>>
    BY <1>2 DEF Adjoin
  <2>2. /\ e[1] = "Object" /\ e[2] = v[2] - 2 /\ e[3] = r[3]
        /\ e[4] = Over(r[4], Member(t[v[2] - 1][2], v[4]))
    BY <2>1
  <2>3. e[2] \in Int /\ e[2] + 1 = v[2] - 1 /\ e[2] + 2 = v[2]
    BY <1>1, <2>2
  <2>4. Name(t, e[2])
    BY <1>2, <2>2 DEF Fits
  <2>5. <<"value", e[2] + 2, v[3], v[4]>> \in S /\ <<"Object", v[3], e[3], r[4]>> \in S
    BY <1>1, <1>2, <2>2, <2>3
  <2>6. e[4] = Over(r[4], Member(t[e[2] + 1][2], v[4]))
    BY <2>2, <2>3
  <2>. QED BY <2>2, <2>3, <2>4, <2>5, <2>6 DEF ElementsFrom, Named, ValueAt, Held, Bracketed
<1>3. CASE r[1] = "Array"
  <2>1. e = <<"Array", v[2], r[3], <<v[4]>> \o r[4]>>
    BY <1>3 DEF Adjoin
  <2>2. e[1] = "Array" /\ e[2] = v[2] /\ e[3] = r[3] /\ e[4] = <<v[4]>> \o r[4]
    BY <2>1
  <2>3. <<"value", e[2], v[3], v[4]>> \in S /\ <<"Array", v[3], e[3], r[4]>> \in S
    BY <1>1, <1>3, <2>2
  <2>4. ElementsFrom(t, S, "Array", e[2], e[3], e[4])
    BY <2>2, <2>3 DEF ElementsFrom, Named, ValueAt, Held
  <2>. QED BY <1>1, <2>2, <2>4 DEF Bracketed
<1>. QED BY <1>2, <1>3 DEF Fits, Bracketed

\* ... and conversely.
LEMMA FormAdjoin ==
    ASSUME NEW t \in Seq(Token), NEW S, NEW of \in Bracketed, NEW p \in Int, NEW end, NEW held,
           ElementsFrom(t, S, of, p, end, held)
    PROVE  \E v \in S, r \in S : Fits(t, v, r) /\ Adjoin(t, v, r) = <<of, p, end, held>>
<1>1. PICK m, w, rest : /\ Named(t, of, p)
                        /\ <<"value", ValueAt(of, p), m, w>> \in S
                        /\ <<of, m, end, rest>> \in S
                        /\ held = Held(t, of, p, w, rest)
  BY DEF ElementsFrom
<1>. DEFINE v == <<"value", ValueAt(of, p), m, w>>
            r == <<of, m, end, rest>>
<1>2. /\ v[1] = "value" /\ v[2] = ValueAt(of, p) /\ v[3] = m /\ v[4] = w
      /\ r[1] = of /\ r[2] = m /\ r[3] = end /\ r[4] = rest
  OBVIOUS
<1>3. v \in S /\ r \in S
  BY <1>1
<1>. HIDE DEF v, r
<1>4. CASE of = "Object"
  <2>1. v[2] - 2 = p /\ v[2] - 1 = p + 1
    BY <1>2, <1>4 DEF ValueAt
  <2>2. Fits(t, v, r)
    BY <1>1, <1>2, <1>4, <2>1 DEF Fits, Named
  <2>3. Adjoin(t, v, r) = <<of, p, end, held>>
    BY <1>1, <1>2, <1>4, <2>1 DEF Adjoin, Held
  <2>. QED BY <1>3, <2>2, <2>3
<1>5. CASE of = "Array"
  <2>1. v[2] = p
    BY <1>2, <1>5 DEF ValueAt
  <2>2. Fits(t, v, r)
    BY <1>1, <1>2, <1>5, <2>1 DEF Fits
  <2>3. Adjoin(t, v, r) = <<of, p, end, held>>
    BY <1>1, <1>2, <1>5, <2>1 DEF Adjoin, Held
  <2>. QED BY <1>3, <2>2, <2>3
<1>. QED BY <1>4, <1>5 DEF Bracketed

\* What a rule concludes has one of the forms above.
LEMMA ConclusionForm ==
    ASSUME NEW t \in Seq(Token), NEW S, \A i \in S : IsJudgement(t, i),
           NEW j \in Conclusions(t, S)
    PROVE  \/ j[1] = "value" /\ IsValue(t, S, j[2], j[3], j[4])
           \/ j[1] \in Bracketed /\ IsRemainder(t, S, j[1], j[2], j[3], j[4])
<1>0. j[1] \in {"value"} \cup Bracketed /\ j[2] \in Nat
  BY ConclusionTyped DEF IsJudgement
<1>1. CASE ByScalar(t, j)
  <2>1. PICK p \in 0 .. Len(t) - 1 : t[p + 1][1] \in Scalars /\ j = <<"value", p, p + 1, t[p + 1]>>
    BY <1>1 DEF ByScalar
  <2>2. j[1] = "value" /\ j[2] = p /\ j[3] = p + 1 /\ j[4] = t[p + 1]
    BY <2>1
  <2>. QED BY <2>1, <2>2 DEF IsValue
<1>2. CASE ByEmpty(t, j)
  <2>1. PICK of \in Bracketed, p \in 0 .. Len(t) - 1 :
          /\ Mark(t, p, Opens(of)) /\ Mark(t, p + 1, Closes(of))
          /\ j = <<"value", p, p + 2, <<of, << >>>> >>
    BY <1>2 DEF ByEmpty
  <2>2. j[1] = "value" /\ j[2] = p /\ j[3] = p + 2 /\ j[4] = <<of, << >>>>
    BY <2>1
  <2>. QED BY <2>1, <2>2 DEF IsValue
<1>3. CASE ByEnd(t, j)
  <2>1. PICK of \in Bracketed, p \in 0 .. Len(t) - 1 :
          Mark(t, p, Closes(of)) /\ j = <<of, p, p + 1, << >>>>
    BY <1>3 DEF ByEnd
  <2>2. j[1] = of /\ j[2] = p /\ j[3] = p + 1 /\ j[4] = << >>
    BY <2>1
  <2>. QED BY <2>1, <2>2 DEF IsRemainder
<1>4. ASSUME NEW v \in S, NEW r \in S, Fits(t, v, r), NEW e, e = Adjoin(t, v, r), Begun(t, e, j)
      PROVE  j[1] = "value" /\ IsValue(t, S, j[2], j[3], j[4])
  <2>1. e[1] \in Bracketed /\ e[2] \in Int /\ ElementsFrom(t, S, e[1], e[2], e[3], e[4])
    BY <1>4, AdjoinForm
  <2>2. j[1] = "value" /\ j[2] = e[2] - 1 /\ j[3] = e[3] /\ j[4] = <<e[1], e[4]>> /\ Mark(t, j[2], Opens(e[1]))
    BY <1>4 DEF Begun
  <2>3. e[2] = j[2] + 1
    <3>1. e[2] \in Int /\ j[2] = e[2] - 1
      BY <2>1, <2>2
    <3>. QED BY <3>1
  <2>. QED BY <2>1, <2>2, <2>3 DEF IsValue
<1>5. ASSUME NEW v \in S, NEW r \in S, Fits(t, v, r), NEW e, e = Adjoin(t, v, r), Behind(t, e, j)
      PROVE  j[1] \in Bracketed /\ IsRemainder(t, S, j[1], j[2], j[3], j[4])
  <2>1. e[1] \in Bracketed /\ e[2] \in Int /\ ElementsFrom(t, S, e[1], e[2], e[3], e[4])
    BY <1>5, AdjoinForm
  <2>2. j[1] = e[1] /\ j[2] = e[2] - 1 /\ j[3] = e[3] /\ j[4] = e[4] /\ Mark(t, j[2], ",")
    BY <1>5 DEF Behind
  <2>3. e[2] = j[2] + 1
    <3>1. e[2] \in Int /\ j[2] = e[2] - 1
      BY <2>1, <2>2
    <3>. QED BY <3>1
  <2>. QED BY <2>1, <2>2, <2>3 DEF IsRemainder
<1>6. ByFirst(t, S, j) => j[1] = "value" /\ IsValue(t, S, j[2], j[3], j[4])
  BY <1>4 DEF ByFirst
<1>7. ByMore(t, S, j) => j[1] \in Bracketed /\ IsRemainder(t, S, j[1], j[2], j[3], j[4])
  BY <1>5 DEF ByMore
<1>. QED BY <1>1, <1>2, <1>3, <1>6, <1>7, ConclusionsAre

\* Every judgement has the form of the rule it follows by.
LEMMA JudgementForm ==
    ASSUME NEW t \in Seq(Token), NEW a, NEW b, NEW h
    PROVE  /\ <<"value", a, b, h>> \in Judgements(t) => IsValue(t, Judgements(t), a, b, h)
           /\ \A of \in Bracketed :
                 <<of, a, b, h>> \in Judgements(t) => IsRemainder(t, Judgements(t), of, a, b, h)
<1>1. ASSUME NEW is \in {"value"} \cup Bracketed, <<is, a, b, h>> \in Judgements(t)
      PROVE  \/ is = "value" /\ IsValue(t, Judgements(t), a, b, h)
             \/ is \in Bracketed /\ IsRemainder(t, Judgements(t), is, a, b, h)
  <2>. DEFINE j == <<is, a, b, h>>
  <2>1. j[1] = is /\ j[2] = a /\ j[3] = b /\ j[4] = h
    OBVIOUS
  <2>2. j \in Conclusions(t, Judgements(t)) /\ \A i \in Judgements(t) : IsJudgement(t, i)
    BY <1>1, JudgementsFixed
  <2>. HIDE DEF j
  <2>. QED BY <2>1, <2>2, ConclusionForm
<1>2. "value" \notin Bracketed
  BY DEF Bracketed
<1>. QED BY <1>1, <1>2

\* What has one of the forms is a judgement.
LEMMA FormsAreJudgements ==
    ASSUME NEW t \in Seq(Token), NEW a \in Int, NEW b, NEW h
    PROVE  /\ IsValue(t, Judgements(t), a, b, h) => <<"value", a, b, h>> \in Judgements(t)
           /\ \A of \in Bracketed :
                 IsRemainder(t, Judgements(t), of, a, b, h) => <<of, a, b, h>> \in Judgements(t)
<1>. DEFINE D == Judgements(t)
<1>0. Conclusions(t, D) = D
  BY JudgementsFixed
<1>. HIDE DEF D
<1>1. ASSUME a \in 0 .. Len(t) - 1, t[a + 1][1] \in Scalars, b = a + 1, h = t[a + 1]
      PROVE  <<"value", a, b, h>> \in D
  <2>1. ByScalar(t, <<"value", a, b, h>>)
    BY <1>1 DEF ByScalar
  <2>. QED BY <1>0, <2>1, ConclusionsAre
<1>2. ASSUME NEW of \in Bracketed, Mark(t, a, Opens(of)), Mark(t, a + 1, Closes(of)), b = a + 2, h = <<of, << >>>>
      PROVE  <<"value", a, b, h>> \in D
  <2>1. a \in 0 .. Len(t) - 1
    BY <1>2 DEF Mark
  <2>2. ByEmpty(t, <<"value", a, b, h>>)
    BY <1>2, <2>1 DEF ByEmpty
  <2>. QED BY <1>0, <2>2, ConclusionsAre
<1>3. ASSUME NEW of \in Bracketed, Mark(t, a, Closes(of)), b = a + 1, h = << >>
      PROVE  <<of, a, b, h>> \in D
  <2>1. a \in 0 .. Len(t) - 1
    BY <1>3 DEF Mark
  <2>2. ByEnd(t, <<of, a, b, h>>)
    BY <1>3, <2>1 DEF ByEnd
  <2>. QED BY <1>0, <2>2, ConclusionsAre
<1>4. ASSUME NEW of \in Bracketed, NEW held, ElementsFrom(t, D, of, a + 1, b, held)
      PROVE  /\ Mark(t, a, Opens(of)) => <<"value", a, b, <<of, held>> >> \in D
             /\ Mark(t, a, ",") => <<of, a, b, held>> \in D
  <2>1. PICK v \in D, r \in D : Fits(t, v, r) /\ Adjoin(t, v, r) = <<of, a + 1, b, held>>
    BY <1>4, FormAdjoin
  <2>. DEFINE e == <<of, a + 1, b, held>>
  <2>2. e[1] = of /\ e[2] - 1 = a /\ e[3] = b /\ e[4] = held
    OBVIOUS
  <2>. HIDE DEF e
  <2>3. ASSUME Mark(t, a, Opens(of))
        PROVE  <<"value", a, b, <<of, held>> >> \in D
    <3>1. Begun(t, e, <<"value", a, b, <<of, held>> >>)
      BY <2>2, <2>3 DEF Begun
    <3>2. ByFirst(t, D, <<"value", a, b, <<of, held>> >>)
      BY <2>1, <3>1 DEF ByFirst, e
    <3>. QED BY <1>0, <3>2, ConclusionsAre
  <2>4. ASSUME Mark(t, a, ",")
        PROVE  <<of, a, b, held>> \in D
    <3>1. Behind(t, e, <<of, a, b, held>>)
      BY <2>2, <2>4 DEF Behind
    <3>2. ByMore(t, D, <<of, a, b, held>>)
      BY <2>1, <3>1 DEF ByMore, e
    <3>. QED BY <1>0, <3>2, ConclusionsAre
  <2>. QED BY <2>3, <2>4
<1>5. IsValue(t, D, a, b, h) => <<"value", a, b, h>> \in D
  BY <1>1, <1>2, <1>4 DEF IsValue
<1>6. ASSUME NEW of \in Bracketed, IsRemainder(t, D, of, a, b, h)
      PROVE  <<of, a, b, h>> \in D
  BY <1>3, <1>4, <1>6 DEF IsRemainder
<1>. QED BY <1>5, <1>6 DEF D

-----------------------------------------------------------------------------
(* The grammar is unambiguous *)

\* A mark is the first component of its token.
LEMMA MarkIs ==
    ASSUME NEW t, NEW p, NEW mark, Mark(t, p, mark)
    PROVE  p \in 0 .. Len(t) - 1 /\ t[p + 1] = <<mark>> /\ t[p + 1][1] = mark
BY DEF Mark

\* A mark opens objects or arrays, or closes some, or separates elements, or
\* begins a scalar.
LEMMA MarksApart ==
    ASSUME NEW t, NEW p, NEW of \in Bracketed
    PROVE  /\ Mark(t, p, Opens(of)) => t[p + 1][1] \notin Scalars
           /\ \A fo \in Bracketed : Mark(t, p, Opens(of)) /\ Mark(t, p, Opens(fo)) => of = fo
           /\ Mark(t, p, Closes(of)) => ~Mark(t, p, ",")
<1>1. of \in {"Object", "Array"}
  BY DEF Bracketed
<1>2. Opens(of) \notin Scalars /\ Closes(of) # ","
  BY <1>1 DEF Opens, Closes, Scalars
<1>3. \A fo \in Bracketed : Opens(of) = Opens(fo) => of = fo
  <2>1. ASSUME NEW fo \in Bracketed
        PROVE  (fo = "Object" /\ Opens(fo) = "{") \/ (fo = "Array" /\ Opens(fo) = "[")
    BY DEF Bracketed, Opens
  <2>2. (of = "Object" /\ Opens(of) = "{") \/ (of = "Array" /\ Opens(of) = "[")
    BY <2>1
  <2>3. "{" # "["
    OBVIOUS
  <2>. QED BY <2>1, <2>2, <2>3
<1>4. \A m, l : Mark(t, p, m) /\ Mark(t, p, l) => m = l /\ m = t[p + 1][1]
  <2>. SUFFICES ASSUME NEW m, NEW l, Mark(t, p, m), Mark(t, p, l)
                PROVE  m = l /\ m = t[p + 1][1]
    OBVIOUS
  <2>1. t[p + 1][1] = m /\ t[p + 1][1] = l
    BY MarkIs
  <2>. QED BY <2>1
<1>5. Mark(t, p, Opens(of)) => t[p + 1][1] = Opens(of)
  BY MarkIs
<1>. QED BY <1>2, <1>3, <1>4, <1>5

\* A value begins with a literal or an opening bracket.
LEMMA ValueBegins ==
    ASSUME NEW t, NEW S, NEW a, NEW b, NEW h, IsValue(t, S, a, b, h)
    PROVE  a \in 0 .. Len(t) - 1 /\ t[a + 1][1] \in Scalars \cup {"{", "["}
<1>1. ASSUME NEW of \in Bracketed, Mark(t, a, Opens(of))
      PROVE  a \in 0 .. Len(t) - 1 /\ t[a + 1][1] \in Scalars \cup {"{", "["}
  BY <1>1, MarkIs DEF Opens
<1>. QED BY <1>1 DEF IsValue

\* An element is not the end.
LEMMA ElementsBegin ==
    ASSUME NEW t \in Seq(Token), NEW of \in Bracketed, NEW p \in Int, NEW end, NEW held,
           ElementsFrom(t, Judgements(t), of, p, end, held)
    PROVE  p \in 0 .. Len(t) - 1 /\ ~Mark(t, p, Closes(of))
<1>. DEFINE D == Judgements(t)
<1>1. PICK m, w : Named(t, of, p) /\ <<"value", ValueAt(of, p), m, w>> \in D
  BY DEF ElementsFrom
<1>2. CASE of = "Object"
  <2>1. p \in 0 .. Len(t) - 1 /\ t[p + 1][1] = "String"
    BY <1>1, <1>2 DEF Named, Name
  <2>2. "String" # "}"
    OBVIOUS
  <2>. QED BY <1>2, <2>1, <2>2, MarkIs DEF Closes
<1>3. CASE of = "Array"
  <2>2. IsValue(t, D, p, m, w)
    BY <1>1, <1>3, JudgementForm DEF ValueAt
  <2>3. p \in 0 .. Len(t) - 1 /\ t[p + 1][1] \in Scalars \cup {"{", "["}
    BY <2>2, ValueBegins
  <2>4. t[p + 1][1] # "]"
    BY <2>3 DEF Scalars
  <2>. QED BY <1>3, <2>3, <2>4, MarkIs DEF Closes
<1>. QED BY <1>2, <1>3 DEF Bracketed

\* Where a value begins, and where the remainder of an array or object does,
\* decides where it ends and what it holds.
LEMMA Unambiguous ==
    ASSUME NEW t \in Seq(Token), NEW i \in Judgements(t), NEW j \in Judgements(t),
           i[1] = j[1], i[2] = j[2]
    PROVE  i = j
<1>. DEFINE D == Judgements(t)
            X == {x \in D : \A y \in D : y[1] = x[1] /\ y[2] = x[2] => y = x}
<1>0. Conclusions(t, D) = D /\ (\A x \in D : IsJudgement(t, x)) /\ X \subseteq D
  BY JudgementsFixed
<1>1. ASSUME NEW of \in Bracketed, NEW p,
             NEW b, NEW h, ElementsFrom(t, X, of, p, b, h),
             NEW c, NEW g, ElementsFrom(t, D, of, p, c, g)
      PROVE  b = c /\ h = g
  <2>1. PICK m, w, rest : /\ <<"value", ValueAt(of, p), m, w>> \in X /\ <<of, m, b, rest>> \in X
                          /\ h = Held(t, of, p, w, rest)
    BY <1>1 DEF ElementsFrom
  <2>2. PICK n, u, last : /\ <<"value", ValueAt(of, p), n, u>> \in D /\ <<of, n, c, last>> \in D
                          /\ g = Held(t, of, p, u, last)
    BY <1>1 DEF ElementsFrom
  <2>3. <<"value", ValueAt(of, p), n, u>> = <<"value", ValueAt(of, p), m, w>>
    BY <2>1, <2>2
  <2>4. m = n /\ u = w
    BY <2>3
  <2>5. <<of, n, c, last>> = <<of, m, b, rest>>
    BY <2>1, <2>2, <2>4
  <2>6. b = c /\ last = rest
    BY <2>5
  <2>. QED BY <2>1, <2>2, <2>4, <2>6
<1>2. ASSUME NEW x \in Conclusions(t, X), NEW y \in D, y[1] = x[1], y[2] = x[2]
      PROVE  y = x
  <2>. DEFINE a == x[2]
              b == x[3]
              c == y[3]
  <2>1. x \in D /\ y \in Conclusions(t, D)
    BY <1>0, ConclusionsGrow
  <2>2. x = <<x[1], x[2], x[3], x[4]>> /\ y = <<y[1], y[2], y[3], y[4]>> /\ x[2] \in Nat
    BY <1>0, <2>1 DEF IsJudgement
  <2>. SUFFICES y[3] = x[3] /\ y[4] = x[4]
    BY <1>2, <2>2
  <2>3. \/ x[1] = "value" /\ IsValue(t, X, a, b, x[4])
        \/ x[1] \in Bracketed /\ IsRemainder(t, X, x[1], a, b, x[4])
    BY <1>0, ConclusionForm
  <2>4. \/ y[1] = "value" /\ IsValue(t, D, a, c, y[4])
        \/ y[1] \in Bracketed /\ IsRemainder(t, D, y[1], a, c, y[4])
    BY <1>0, <1>2, <2>1, ConclusionForm
  <2>5. "value" \notin Bracketed
    BY DEF Bracketed
  <2>6. \A of \in Bracketed : \A q, g : ElementsFrom(t, X, of, a + 1, q, g) => ElementsFrom(t, D, of, a + 1, q, g)
    BY <1>0 DEF ElementsFrom
  <2>7. a + 1 \in Int
    BY <2>2
  <2>8. \A of \in Bracketed : \A q, g : ElementsFrom(t, D, of, a + 1, q, g) => ~Mark(t, a + 1, Closes(of))
    BY <2>7, ElementsBegin
  <2>. HIDE DEF X, D, a, b, c
  <2>9. CASE x[1] = "value"
    <3>1. IsValue(t, X, a, b, x[4]) /\ IsValue(t, D, a, c, y[4])
      BY <1>2, <2>3, <2>4, <2>5, <2>9
    <3>2. \A of \in Bracketed : Mark(t, a, Opens(of)) => t[a + 1][1] \notin Scalars
      BY MarksApart
    <3>3. \A of, fo \in Bracketed : Mark(t, a, Opens(of)) /\ Mark(t, a, Opens(fo)) => of = fo
      BY MarksApart
    <3>4. CASE t[a + 1][1] \in Scalars
      BY <3>1, <3>2, <3>4 DEF IsValue, b, c
    <3>5. CASE t[a + 1][1] \notin Scalars
      <4>1. PICK of \in Bracketed :
              /\ Mark(t, a, Opens(of))
              /\ \/ Mark(t, a + 1, Closes(of)) /\ b = a + 2 /\ x[4] = <<of, << >>>>
                 \/ \E held : ElementsFrom(t, X, of, a + 1, b, held) /\ x[4] = <<of, held>>
        BY <3>1, <3>5 DEF IsValue
      <4>2. /\ Mark(t, a, Opens(of))
            /\ \/ Mark(t, a + 1, Closes(of)) /\ c = a + 2 /\ y[4] = <<of, << >>>>
               \/ \E held : ElementsFrom(t, D, of, a + 1, c, held) /\ y[4] = <<of, held>>
        BY <3>1, <3>3, <3>5, <4>1 DEF IsValue
      <4>3. CASE Mark(t, a + 1, Closes(of))
        BY <2>6, <2>8, <4>1, <4>2, <4>3 DEF b, c
      <4>4. CASE ~Mark(t, a + 1, Closes(of))
        <5>1. PICK held : ElementsFrom(t, X, of, a + 1, b, held) /\ x[4] = <<of, held>>
          BY <4>1, <4>4
        <5>2. PICK hold : ElementsFrom(t, D, of, a + 1, c, hold) /\ y[4] = <<of, hold>>
          BY <4>2, <4>4
        <5>3. b = c /\ held = hold
          BY <1>1, <5>1, <5>2
        <5>. QED BY <5>1, <5>2, <5>3 DEF b, c
      <4>. QED BY <4>3, <4>4
    <3>. QED BY <3>4, <3>5
  <2>10. CASE x[1] \in Bracketed
    <3>1. IsRemainder(t, X, x[1], a, b, x[4]) /\ IsRemainder(t, D, x[1], a, c, y[4])
      BY <1>2, <2>3, <2>4, <2>5, <2>10
    <3>2. Mark(t, a, Closes(x[1])) => ~Mark(t, a, ",")
      BY <2>10, MarksApart
    <3>3. CASE Mark(t, a, Closes(x[1]))
      BY <3>1, <3>2, <3>3 DEF IsRemainder, b, c
    <3>4. CASE ~Mark(t, a, Closes(x[1]))
      <4>1. ElementsFrom(t, X, x[1], a + 1, b, x[4]) /\ ElementsFrom(t, D, x[1], a + 1, c, y[4])
        BY <3>1, <3>4 DEF IsRemainder
      <4>2. b = c /\ x[4] = y[4]
        BY <1>1, <2>10, <4>1
      <4>. QED BY <4>2 DEF b, c
    <3>. QED BY <3>3, <3>4
  <2>. QED BY <2>3, <2>9, <2>10
<1>3. Conclusions(t, X) \subseteq D
  BY <1>0, ConclusionsGrow
<1>4. Conclusions(t, X) \subseteq X
  BY <1>2, <1>3
<1>5. X \cap D = X
  BY <1>0
<1>6. D \subseteq X
  <2>. HIDE DEF X
  <2>. QED BY <1>4, <1>5, RuleInduction
<1>. QED BY <1>6

\* A text denotes one value at most.
LEMMA OneValue ==
    ASSUME NEW t \in Seq(Token), NEW v \in Denoted(t), NEW w \in Denoted(t)
    PROVE  v = w
<1>1. PICK i \in Judgements(t) : i[1] = "value" /\ i[2] = 0 /\ i[4] = v
  BY DEF Denoted
<1>2. PICK j \in Judgements(t) : j[1] = "value" /\ j[2] = 0 /\ j[4] = w
  BY DEF Denoted
<1>3. i = j
  BY <1>1, <1>2, Unambiguous
<1>. QED BY <1>1, <1>2, <1>3

-----------------------------------------------------------------------------
(* Elements one after the other *)

\* Elements h with those of held behind them.
Follow(of, h, held) == IF of = "Object" THEN Over(held, h) ELSE h \o held

\* What fr holds once the value w is in it.
Plus(fr, w) == IF fr.of = "Object" THEN Over(Member(fr.key, w), fr.holds)
               ELSE Append(fr.holds, w)

\* h is what an array or object holds.
Holding(of, h) == /\ of = "Array" => IsSequence(h)
                  /\ of = "Object" => FlatMembers(h)

\* An array or object that begins at a and has the elements h before p is one,
\* whatever elements the grammar finds from p on.
GoesOn(t, of, h, a, p) ==
    \A end, held : ElementsFrom(t, Judgements(t), of, p, end, held) =>
        <<"value", a, end, <<of, Follow(of, h, held)>> >> \in Judgements(t)

\* The same where the value of an element is due at q.
Awaits(t, fr, a, q) ==
    \A m, w, end, rest :
        <<"value", q, m, w>> \in Judgements(t) /\ <<fr.of, m, end, rest>> \in Judgements(t) =>
            <<"value", a, end, <<fr.of, Follow(fr.of, Plus(fr, w), rest)>> >> \in Judgements(t)

Frame(fr) == /\ fr = [of |-> fr.of, holds |-> fr.holds, key |-> fr.key]
             /\ fr.of \in Bracketed
             /\ Holding(fr.of, fr.holds)

\* The key of fr is that of the element at p.
Keyed(t, fr, p) == fr.of = "Object" => fr.key = t[p + 1][2]

\* One more element or member.
LEMMA HoldingMore ==
    ASSUME NEW fr, Frame(fr), NEW w, Flat(w)
    PROVE  Holding(fr.of, Plus(fr, w))
<1>1. CASE fr.of = "Object"
  BY <1>1, MemberJoins DEF Frame, Holding, Plus, Bracketed
<1>2. CASE fr.of = "Array"
  BY <1>2, SequenceJoins DEF Frame, Holding, Plus, Bracketed
<1>. QED BY <1>1, <1>2 DEF Frame, Bracketed

\* Nothing before, and nothing behind.
LEMMA FollowNothing ==
    ASSUME NEW of \in Bracketed, NEW h, Holding(of, h)
    PROVE  Follow(of, << >>, h) = h /\ Follow(of, h, << >>) = h
<1>1. CASE of = "Object"
  <2>1. DOMAIN << >> = {} /\ h = [key \in DOMAIN h |-> h[key]]
    BY <1>1 DEF Holding, FlatMembers
  <2>2. Over(h, << >>) = h
    BY <2>1 DEF Over
  <2>3. Over(<< >>, h) = h
    BY <2>1 DEF Over
  <2>. QED BY <1>1, <2>2, <2>3 DEF Follow
<1>2. CASE of = "Array"
  <2>1. PICK X : h \in Seq(X)
    BY <1>2 DEF Holding, IsSequence
  <2>2. << >> \o h = h /\ h \o << >> = h
    BY <2>1
  <2>. QED BY <1>2, <2>2 DEF Follow
<1>. QED BY <1>1, <1>2 DEF Bracketed

\* An element more, put into what was there or in front of what is to come.
LEMMA FollowElement ==
    ASSUME NEW t, NEW p, NEW fr, Frame(fr), NEW w, NEW rest, Holding(fr.of, rest),
           Keyed(t, fr, p)
    PROVE  Follow(fr.of, fr.holds, Held(t, fr.of, p, w, rest)) = Follow(fr.of, Plus(fr, w), rest)
<1>1. CASE fr.of = "Object"
  <2>1. \A f, g, h : Over(Over(f, g), h) = Over(f, Over(g, h))
    BY DEF Over
  <2>. QED BY <1>1, <2>1 DEF Follow, Held, Plus, Keyed
<1>2. CASE fr.of = "Array"
  <2>1. PICK X : fr.holds \in Seq(X)
    BY <1>2 DEF Frame, Holding, IsSequence
  <2>2. PICK Y : rest \in Seq(Y)
    BY <1>2 DEF Holding, IsSequence
  <2>. DEFINE h == fr.holds
              Z == X \cup Y \cup {w}
  <2>3. h \in Seq(Z) /\ rest \in Seq(Z) /\ w \in Z
    BY <2>1, <2>2
  <2>4. h \o (<<w>> \o rest) = Append(h, w) \o rest
    <3>. HIDE DEF h, Z
    <3>. QED BY <2>3
  <2>5. fr.of # "Object"
    BY <1>2
  <2>. QED BY <2>4, <2>5 DEF Follow, Held, Plus
<1>. QED BY <1>1, <1>2 DEF Frame, Bracketed

\* What a judgement says a value or a remainder holds.
LEMMA JudgedHolding ==
    ASSUME NEW t \in Seq(Token), NEW a, NEW b, NEW h
    PROVE  /\ <<"value", a, b, h>> \in Judgements(t) =>
                 Flat(h) /\ a \in Nat /\ b \in Nat /\ a < b
           /\ \A of \in Bracketed : <<of, a, b, h>> \in Judgements(t) =>
                 Holding(of, h) /\ a \in Nat /\ b \in Nat /\ a < b
<1>1. ASSUME <<"value", a, b, h>> \in Judgements(t)
      PROVE  Flat(h) /\ a \in Nat /\ b \in Nat /\ a < b
  <2>. DEFINE j == <<"value", a, b, h>>
  <2>1. j[1] = "value" /\ j[2] = a /\ j[3] = b /\ j[4] = h
    OBVIOUS
  <2>2. IsJudgement(t, j)
    BY <1>1, JudgementsFixed
  <2>. HIDE DEF j
  <2>. QED BY <2>1, <2>2 DEF IsJudgement
<1>2. ASSUME NEW of \in Bracketed, <<of, a, b, h>> \in Judgements(t)
      PROVE  Holding(of, h) /\ a \in Nat /\ b \in Nat /\ a < b
  <2>. DEFINE j == <<of, a, b, h>>
  <2>1. j[1] = of /\ j[2] = a /\ j[3] = b /\ j[4] = h
    OBVIOUS
  <2>2. IsJudgement(t, j)
    BY <1>2, JudgementsFixed
  <2>. HIDE DEF j
  <2>. QED BY <2>1, <2>2 DEF IsJudgement, Holding
<1>. QED BY <1>1, <1>2

\* The elements from p on are due one by one.
LEMMA AwaitsNext ==
    ASSUME NEW t \in Seq(Token), NEW fr, Frame(fr), NEW a, NEW p,
           GoesOn(t, fr.of, fr.holds, a, p), Named(t, fr.of, p),
           Keyed(t, fr, p)
    PROVE  Awaits(t, fr, a, ValueAt(fr.of, p))
<1>. SUFFICES ASSUME NEW m, NEW w, NEW end, NEW rest,
                     <<"value", ValueAt(fr.of, p), m, w>> \in Judgements(t),
                     <<fr.of, m, end, rest>> \in Judgements(t)
              PROVE  <<"value", a, end, <<fr.of, Follow(fr.of, Plus(fr, w), rest)>> >> \in Judgements(t)
  BY DEF Awaits
<1>1. ElementsFrom(t, Judgements(t), fr.of, p, end, Held(t, fr.of, p, w, rest))
  BY DEF ElementsFrom
<1>2. <<"value", a, end, <<fr.of, Follow(fr.of, fr.holds, Held(t, fr.of, p, w, rest))>> >> \in Judgements(t)
  BY <1>1 DEF GoesOn
<1>3. fr.of \in Bracketed
  BY DEF Frame
<1>4. Holding(fr.of, rest)
  BY <1>3, JudgedHolding
<1>5. Follow(fr.of, fr.holds, Held(t, fr.of, p, w, rest)) = Follow(fr.of, Plus(fr, w), rest)
  BY <1>4, FollowElement
<1>. QED BY <1>2, <1>5

\* Behind an opening bracket there may be any elements ...
LEMMA GoesOnBegun ==
    ASSUME NEW t \in Seq(Token), NEW of \in Bracketed, NEW a \in Int, Mark(t, a, Opens(of))
    PROVE  GoesOn(t, of, << >>, a, a + 1)
<1>. SUFFICES ASSUME NEW end, NEW held, ElementsFrom(t, Judgements(t), of, a + 1, end, held)
              PROVE  <<"value", a, end, <<of, Follow(of, << >>, held)>> >> \in Judgements(t)
  BY DEF GoesOn
<1>1. <<"value", a, end, <<of, held>> >> \in Judgements(t)
  <2>1. IsValue(t, Judgements(t), a, end, <<of, held>>)
    BY DEF IsValue
  <2>. QED BY <2>1, FormsAreJudgements
<1>2. Holding(of, held)
  <2>. DEFINE j == <<"value", a, end, <<of, held>> >>
              h == <<of, held>>
  <2>1. j[1] = "value" /\ j[4] = h /\ h[1] = of /\ h[2] = held
    OBVIOUS
  <2>2. IsJudgement(t, j)
    BY <1>1, JudgementsFixed
  <2>. HIDE DEF j, h
  <2>. QED BY <2>1, <2>2 DEF IsJudgement, Holding, Flat
<1>. QED BY <1>1, <1>2, FollowNothing

\* ... and behind a value and a comma.
LEMMA GoesOnBehind ==
    ASSUME NEW t \in Seq(Token), NEW fr, Frame(fr), NEW a, NEW q, Awaits(t, fr, a, q),
           NEW p \in Int, NEW w, <<"value", q, p, w>> \in Judgements(t), Mark(t, p, ",")
    PROVE  GoesOn(t, fr.of, Plus(fr, w), a, p + 1)
<1>. SUFFICES ASSUME NEW end, NEW held, ElementsFrom(t, Judgements(t), fr.of, p + 1, end, held)
              PROVE  <<"value", a, end, <<fr.of, Follow(fr.of, Plus(fr, w), held)>> >> \in Judgements(t)
  BY DEF GoesOn
<1>1. fr.of \in Bracketed
  BY DEF Frame
<1>2. IsRemainder(t, Judgements(t), fr.of, p, end, held)
  BY DEF IsRemainder
<1>3. <<fr.of, p, end, held>> \in Judgements(t)
  BY <1>1, <1>2, FormsAreJudgements
<1>. QED BY <1>3 DEF Awaits

\* The closing bracket behind a value ends the array or object.
LEMMA Closed ==
    ASSUME NEW t \in Seq(Token), NEW fr, Frame(fr), NEW a, NEW q, Awaits(t, fr, a, q),
           NEW p \in Int, NEW w, <<"value", q, p, w>> \in Judgements(t), Mark(t, p, Closes(fr.of))
    PROVE  <<"value", a, p + 1, <<fr.of, Plus(fr, w)>> >> \in Judgements(t)
<1>1. fr.of \in Bracketed
  BY DEF Frame
<1>2. IsRemainder(t, Judgements(t), fr.of, p, p + 1, << >>)
  BY DEF IsRemainder
<1>3. <<fr.of, p, p + 1, << >> >> \in Judgements(t)
  BY <1>1, <1>2, FormsAreJudgements
<1>4. <<"value", a, p + 1, <<fr.of, Follow(fr.of, Plus(fr, w), << >>)>> >> \in Judgements(t)
  BY <1>3 DEF Awaits
<1>5. Holding(fr.of, Plus(fr, w))
  BY JudgedHolding, HoldingMore
<1>. QED BY <1>1, <1>4, <1>5, FollowNothing

-----------------------------------------------------------------------------
(* The parser keeps to the grammar *)

\* A sequence with one element more ...
LEMMA Appended ==
    ASSUME NEW s, IsSequence(s), NEW x
    PROVE  /\ Len(s) \in Nat /\ (s # << >> <=> Len(s) # 0)
           /\ IsSequence(Append(s, x)) /\ Len(Append(s, x)) = Len(s) + 1
           /\ Append(s, x)[Len(s) + 1] = x
           /\ \A k \in 1 .. Len(s) : Append(s, x)[k] = s[k]
<1>1. PICK X : s \in Seq(X)
  BY DEF IsSequence
<1>. DEFINE Y == X \cup {x}
<1>2. s \in Seq(Y) /\ x \in Y
  BY <1>1
<1>. HIDE DEF Y
<1>3. /\ Append(s, x) \in Seq(Y) /\ Len(Append(s, x)) = Len(s) + 1
      /\ Append(s, x)[Len(s) + 1] = x
      /\ \A k \in 1 .. Len(s) : Append(s, x)[k] = s[k]
      /\ Len(s) \in Nat /\ (s # << >> <=> Len(s) # 0)
  BY <1>2
<1>. QED BY <1>3 DEF IsSequence

\* ... one less ...
LEMMA Dropped ==
    ASSUME NEW s, IsSequence(s), s # << >>
    PROVE  /\ IsSequence(SubSeq(s, 1, Len(s) - 1)) /\ Len(SubSeq(s, 1, Len(s) - 1)) = Len(s) - 1
           /\ \A k \in 1 .. Len(s) - 1 : SubSeq(s, 1, Len(s) - 1)[k] = s[k]
<1>1. PICK X : s \in Seq(X)
  BY DEF IsSequence
<1>. DEFINE u == SubSeq(s, 1, Len(s) - 1)
            n == Len(s)
<1>2. u \in Seq(X) /\ Len(u) = Len(s) - 1 /\ \A k \in 1 .. Len(s) - 1 : u[k] = s[k]
  <2>1. n \in Nat /\ n # 0 /\ n - 1 \in 0 .. n
    BY <1>1
  <2>2. u \in Seq(X)
    BY <1>1, <2>1
  <2>3. Len(u) = n - 1
    <3>1. CASE n = 1
      <4>1. u = SubSeq(s, 1, 0)
        BY <3>1
      <4>. QED BY <1>1, <3>1, <4>1
    <3>2. CASE n # 1
      <4>0. n \in Nat /\ n # 0 /\ n # 1
        BY <2>1, <3>2
      <4>. HIDE DEF n
      <4>1. n - 1 \in 1 .. n
        BY <4>0
      <4>. QED BY <1>1, <2>1, <4>1 DEF n
    <3>. QED BY <3>1, <3>2
  <2>4. \A k \in 1 .. n - 1 : u[k] = s[k]
    BY <1>1, <2>1
  <2>. QED BY <2>2, <2>3, <2>4
<1>. QED BY <1>2 DEF IsSequence, u

\* ... or another last one.
LEMMA Swapped ==
    ASSUME NEW s, IsSequence(s), s # << >>, NEW x, NEW r, r = Append(SubSeq(s, 1, Len(s) - 1), x)
    PROVE  /\ IsSequence(r) /\ Len(r) = Len(s) /\ r[Len(s)] = x
           /\ \A k \in 1 .. Len(s) - 1 : r[k] = s[k]
<1>. DEFINE u == SubSeq(s, 1, Len(s) - 1)
<1>1. /\ Len(s) \in Nat /\ IsSequence(u) /\ Len(u) = Len(s) - 1
      /\ \A k \in 1 .. Len(s) - 1 : u[k] = s[k]
  BY Appended, Dropped
<1>2. r = Append(u, x)
  OBVIOUS
<1>. HIDE DEF u
<1>3. /\ IsSequence(r) /\ Len(r) = Len(u) + 1 /\ r[Len(u) + 1] = x
      /\ \A k \in 1 .. Len(u) : r[k] = u[k]
  <2>. DEFINE v == Append(u, x)
  <2>1. IsSequence(v) /\ Len(v) = Len(u) + 1 /\ v[Len(u) + 1] = x
    BY <1>1, Appended
  <2>2. \A k \in 1 .. Len(u) : v[k] = u[k]
    BY <1>1, Appended
  <2>. QED BY <1>2, <2>1, <2>2
<1>4. Len(u) + 1 = Len(s)
  BY <1>1
<1>. QED BY <1>1, <1>3, <1>4

ParserTyped == /\ text \in Seq(Token) /\ pos \in Nat
               /\ IsSequence(stack) /\ \A k \in 1 .. Len(stack) : Frame(stack[k])
               /\ state \in {"open", "key"} => stack # << >>

\* The array or object k on the stack begins at b[k - 1] and is due a value at
\* b[k], the whole text being the value due at b[0]; and so it is, read from the
\* other side, with where they end.
Linked(side, t, fr, outer, inner) ==
    IF side = "begins" THEN Awaits(t, fr, outer, inner)
    ELSE \E rest : <<fr.of, inner, outer, rest>> \in Judgements(t)
Around(side, b) == /\ b \in [Nat -> Int] /\ b[0] = IF side = "begins" THEN 0 ELSE Len(text)
                   /\ \A k \in 1 .. Len(stack) - 1 : Linked(side, text, stack[k], b[k - 1], b[k])

\* Where the innermost begins, or ends, and where its element does.
Start(b) == b[Len(stack) - 1]
Due(b)   == b[Len(stack)]

SoundWith(b) ==
    /\ Around("begins", b)
    /\ state \in {"value", "returned"} /\ stack # << >> => Awaits(text, Innermost, Start(b), Due(b))
    /\ state = "value" => pos = Due(b)
    /\ state = "open" => /\ Mark(text, Start(b), Opens(Innermost.of)) /\ pos = Start(b) + 1
                         /\ Innermost.holds = << >>
    /\ state = "key" => /\ Innermost.of = "Object"
                        /\ GoesOn(text, "Object", Innermost.holds, Start(b), pos)
    /\ state = "returned" => <<"value", Due(b), pos, value>> \in Judgements(text)
    /\ state = "parsed" => value \in Denoted(text)

ParserSound == ParserTyped /\ \E b : SoundWith(b)

\* What peek sees.
LEMMA PeekSees ==
    ASSUME text \in Seq(Token), pos \in Nat
    PROVE  /\ \A mark \in {"{", "}", "[", "]", ",", ":"} : Peek = mark <=> Mark(text, pos, mark)
           /\ Peek \in Scalars <=> pos \in 0 .. Len(text) - 1 /\ text[pos + 1][1] \in Scalars
<1>1. CASE pos < Len(text)
  <2>1. pos \in 0 .. Len(text) - 1 /\ text[pos + 1] \in Token
    BY <1>1
  <2>2. Peek = text[pos + 1][1]
    BY <1>1 DEF Peek
  <2>3. ASSUME NEW mark \in {"{", "}", "[", "]", ",", ":"}, Peek = mark
        PROVE  Mark(text, pos, mark)
    BY <2>1, <2>2, <2>3, TokenForm DEF Mark
  <2>. QED BY <2>1, <2>2, <2>3, MarkIs
<1>2. CASE ~(pos < Len(text))
  <2>1. Peek = "end" /\ pos \notin 0 .. Len(text) - 1
    BY <1>2 DEF Peek
  <2>. QED BY <2>1 DEF Mark, Scalars
<1>. QED BY <1>1, <1>2

\* The innermost array or object.
LEMMA OnTop ==
    ASSUME ParserTyped, stack # << >>
    PROVE  /\ Len(stack) \in Nat /\ Len(stack) # 0 /\ Len(stack) - 1 \in Nat
           /\ Frame(Innermost) /\ Innermost.of \in Bracketed
           /\ Closing = Closes(Innermost.of) /\ Closing \in {"}", "]"}
           /\ Added = Plus(Innermost, value)
           /\ \A side, b : Around(side, b) => Start(b) \in Int /\ Due(b) \in Int
<1>1. Len(stack) \in Nat /\ Len(stack) # 0
  BY Appended DEF ParserTyped
<1>2. Frame(Innermost)
  BY <1>1 DEF ParserTyped, Innermost
<1>. QED BY <1>1, <1>2 DEF Frame, Closing, Closes, InObject, Added, Plus, Around, Start, Due

\* What is around a new innermost array or object is what was around the old ...
LEMMA Replaced ==
    ASSUME ParserTyped, stack # << >>, text' = text, NEW fr, Frame(fr), stack' = Append(Outer, fr),
           NEW side, NEW b, Around(side, b), NEW q \in Int
    PROVE  /\ IsSequence(stack') /\ \A k \in 1 .. Len(stack') : Frame(stack'[k])
           /\ stack' # << >> /\ Innermost' = fr
           /\ \E c : Around(side, c)' /\ Start(c)' = Start(b) /\ Due(c)' = q
<1>. DEFINE n == Len(stack)
<1>1. n \in Nat /\ n # 0 /\ n - 1 \in Nat
  BY OnTop
<1>2. /\ IsSequence(stack') /\ Len(stack') = n /\ stack'[n] = fr
      /\ \A k \in 1 .. n - 1 : stack'[k] = stack[k]
  <2>. DEFINE s == Append(Outer, fr)
  <2>1. IsSequence(stack)
    BY DEF ParserTyped
  <2>2. s = Append(SubSeq(stack, 1, Len(stack) - 1), fr)
    BY DEF Outer
  <2>. HIDE DEF s
  <2>3. /\ IsSequence(s) /\ Len(s) = n /\ s[n] = fr
        /\ \A k \in 1 .. n - 1 : s[k] = stack[k]
    <3>1. IsSequence(s)
      BY <2>1, <2>2, Swapped
    <3>2. Len(s) = Len(stack)
      BY <2>1, <2>2, Swapped
    <3>3. s[Len(stack)] = fr
      BY <2>1, <2>2, Swapped
    <3>4. \A k \in 1 .. Len(stack) - 1 : s[k] = stack[k]
      BY <2>1, <2>2, Swapped
    <3>. QED BY <3>1, <3>2, <3>3, <3>4
  <2>4. stack' = s
    BY DEF s
  <2>. QED BY <2>3, <2>4
<1>3. \A k \in 1 .. n : Frame(stack'[k])
  <2>. TAKE k \in 1 .. n
  <2>1. CASE k = n
    BY <1>2, <2>1
  <2>2. CASE k # n
    <3>1. k \in 1 .. n - 1 /\ k \in 1 .. n
      BY <1>1, <2>2
    <3>. QED BY <1>2, <3>1 DEF ParserTyped
  <2>. QED BY <2>1, <2>2
<1>4. stack' # << >> /\ Innermost' = fr
  BY <1>1, <1>2 DEF Innermost
<1>5. PICK c : c \in [Nat -> Int] /\ c[n] = q /\ \A k \in 0 .. n - 1 : c[k] = b[k]
  <2>. DEFINE d == [b EXCEPT ![n] = q]
  <2>1. d \in [Nat -> Int] /\ d[n] = q /\ \A k \in 0 .. n - 1 : d[k] = b[k]
    BY <1>1 DEF Around
  <2>. QED BY <2>1
<1>6. ASSUME NEW k \in 1 .. n - 1
      PROVE  Linked(side, text', stack'[k], c[k - 1], c[k])
  <2>1. k - 1 \in 0 .. n - 1 /\ k \in 0 .. n - 1
    BY <1>1
  <2>2. c[k - 1] = b[k - 1] /\ c[k] = b[k] /\ stack'[k] = stack[k]
    BY <1>2, <1>5, <2>1
  <2>3. Linked(side, text, stack[k], b[k - 1], b[k])
    BY DEF Around
  <2>. QED BY <2>2, <2>3
<1>7. c[0] = IF side = "begins" THEN 0 ELSE Len(text)
  BY <1>1, <1>5 DEF Around
<1>8. Around(side, c)'
  <2>1. \A k \in 1 .. Len(stack') - 1 : Linked(side, text', stack'[k], c[k - 1], c[k])
    BY <1>2, <1>6
  <2>. QED BY <1>5, <1>7, <2>1 DEF Around
<1>9. Start(c)' = Start(b) /\ Due(c)' = q
  <2>1. n - 1 \in 0 .. n - 1
    BY <1>1
  <2>. QED BY <1>2, <1>5, <2>1 DEF Start, Due
<1>. QED BY <1>2, <1>3, <1>4, <1>8, <1>9

\* ... and so is what is left without it.
LEMMA Removed ==
    ASSUME ParserTyped, stack # << >>, text' = text, stack' = Outer, NEW side, NEW b, Around(side, b)
    PROVE  /\ IsSequence(stack') /\ \A k \in 1 .. Len(stack') : Frame(stack'[k])
           /\ Around(side, b)' /\ Due(b)' = Start(b)
           /\ stack' # << >> => Linked(side, text', Innermost', Start(b)', Due(b)')
<1>. DEFINE n == Len(stack)
<1>1. n \in Nat /\ n # 0 /\ n - 1 \in Nat
  BY OnTop
<1>2. /\ IsSequence(stack') /\ Len(stack') = n - 1
      /\ \A k \in 1 .. n - 1 : stack'[k] = stack[k]
  <2>1. IsSequence(stack)
    BY DEF ParserTyped
  <2>2. /\ IsSequence(Outer) /\ Len(Outer) = n - 1
        /\ \A k \in 1 .. n - 1 : Outer[k] = stack[k]
    BY <2>1, Dropped DEF Outer
  <2>. QED BY <2>2
<1>3. \A k \in 1 .. n - 1 : Frame(stack'[k])
  <2>. TAKE k \in 1 .. n - 1
  <2>1. k \in 1 .. n
    BY <1>1
  <2>. QED BY <1>2, <2>1 DEF ParserTyped
<1>4. \A k \in 1 .. n - 1 : Linked(side, text', stack'[k], b[k - 1], b[k])
  <2>. TAKE k \in 1 .. n - 1
  <2>1. Linked(side, text, stack[k], b[k - 1], b[k])
    BY DEF Around
  <2>. QED BY <1>2, <2>1
<1>5. Around(side, b)'
  <2>1. \A k \in 1 .. Len(stack') - 1 : Linked(side, text', stack'[k], b[k - 1], b[k])
    <3>. TAKE k \in 1 .. Len(stack') - 1
    <3>1. k \in 1 .. n - 1
      BY <1>1, <1>2
    <3>. QED BY <1>4, <3>1
  <2>2. b \in [Nat -> Int] /\ b[0] = IF side = "begins" THEN 0 ELSE Len(text)
    BY DEF Around
  <2>. QED BY <2>1, <2>2 DEF Around
<1>6. Due(b)' = Start(b)
  BY <1>2 DEF Due, Start
<1>7. ASSUME stack' # << >>
      PROVE  Linked(side, text', Innermost', Start(b)', Due(b)')
  <2>1. Len(stack') # 0 /\ n - 1 \in 1 .. n - 1
    BY <1>1, <1>2, <1>7, Appended
  <2>. QED BY <1>2, <1>4, <2>1 DEF Innermost, Start, Due
<1>. QED BY <1>2, <1>3, <1>5, <1>6, <1>7

\* A new innermost array or object is an element of the one that was.
LEMMA Pushed ==
    ASSUME ParserTyped, text' = text, NEW fr, Frame(fr), stack' = Append(stack, fr),
           NEW side, NEW b, Around(side, b),
           stack # << >> => Linked(side, text, Innermost, Start(b), Due(b))
    PROVE  /\ IsSequence(stack') /\ \A k \in 1 .. Len(stack') : Frame(stack'[k])
           /\ stack' # << >> /\ Innermost' = fr
           /\ Around(side, b)' /\ Start(b)' = Due(b)
<1>. DEFINE n == Len(stack)
<1>1. /\ n \in Nat /\ IsSequence(stack') /\ Len(stack') = n + 1 /\ stack'[n + 1] = fr
      /\ \A k \in 1 .. n : stack'[k] = stack[k]
  BY Appended DEF ParserTyped
<1>2. \A k \in 1 .. n + 1 : Frame(stack'[k])
  BY <1>1 DEF ParserTyped
<1>3. stack' # << >> /\ Innermost' = fr /\ (n + 1) - 1 = n
  BY <1>1 DEF Innermost
<1>4. ASSUME NEW k \in 1 .. n
      PROVE  Linked(side, text, stack[k], b[k - 1], b[k])
  <2>1. CASE k = n
    <3>1. stack # << >>
      BY <1>1, <2>1
    <3>. QED BY <2>1, <3>1 DEF Start, Due, Innermost
  <2>2. CASE k # n
    <3>1. k \in 1 .. n - 1
      BY <1>1, <2>2
    <3>. QED BY <3>1 DEF Around
  <2>. QED BY <2>1, <2>2
<1>5. \A k \in 1 .. Len(stack') - 1 : Linked(side, text', stack'[k], b[k - 1], b[k])
  BY <1>1, <1>3, <1>4
<1>6. Around(side, b)'
  BY <1>5 DEF Around
<1>7. Start(b)' = Due(b)
  BY <1>1, <1>3 DEF Start, Due
<1>. QED BY <1>1, <1>2, <1>3, <1>6, <1>7

\* A literal is the value due.
LEMMA ScalarSound ==
    ASSUME ParserSound, ParseScalar
    PROVE  ParserSound'
<1>1. PICK b : SoundWith(b)
  BY DEF ParserSound
<1>2. /\ text \in Seq(Token) /\ pos \in 0 .. Len(text) - 1 /\ text[pos + 1][1] \in Scalars
      /\ pos = Due(b)
  BY <1>1, PeekSees DEF ParserSound, ParserTyped, SoundWith, ParseScalar
<1>3. <<"value", pos, pos + 1, text[pos + 1]>> \in Judgements(text)
  <2>1. IsValue(text, Judgements(text), pos, pos + 1, text[pos + 1])
    BY <1>2 DEF IsValue
  <2>. QED BY <1>2, <2>1, FormsAreJudgements
<1>4. /\ text' = text /\ stack' = stack /\ pos' = pos + 1 /\ state = "value" /\ state' = "returned"
      /\ value' = text[pos + 1]
  BY DEF ParseScalar, Consume
<1>5. Around("begins", b)' /\ Due(b)' = Due(b) /\ Start(b)' = Start(b) /\ Innermost' = Innermost
  BY <1>1, <1>4 DEF SoundWith, Around, Due, Start, Innermost
<1>6. SoundWith(b)'
  BY <1>1, <1>2, <1>3, <1>4, <1>5 DEF SoundWith
<1>7. ParserTyped'
  BY <1>2, <1>4 DEF ParserSound, ParserTyped
<1>. QED BY <1>6, <1>7 DEF ParserSound

\* An opening bracket begins the value due.
LEMMA OpenSound ==
    ASSUME ParserSound, Open
    PROVE  ParserSound'
<1>1. PICK b : SoundWith(b)
  BY DEF ParserSound
<1>. DEFINE fr == [of |-> IF Peek = "{" THEN "Object" ELSE "Array", holds |-> << >>, key |-> ""]
<1>2. stack' = Append(stack, fr) /\ state' = "open" /\ pos' = pos + 1 /\ text' = text /\ state = "value"
  BY DEF Open, Consume
<1>3. Frame(fr)
  BY NothingHeld DEF Frame, Holding, Bracketed
<1>4. /\ text \in Seq(Token) /\ pos \in 0 .. Len(text) - 1 /\ pos = Due(b)
      /\ Mark(text, pos, Opens(fr.of)) /\ fr.holds = << >>
  <2>1. text \in Seq(Token) /\ pos \in Nat /\ pos = Due(b)
    BY <1>1, <1>2 DEF ParserSound, ParserTyped, SoundWith
  <2>2. Mark(text, pos, Peek)
    BY <2>1, PeekSees DEF Open
  <2>3. Peek = Opens(fr.of)
    BY DEF Open, Opens
  <2>. QED BY <2>1, <2>2, <2>3 DEF Mark
<1>. HIDE DEF fr
<1>5. /\ IsSequence(stack') /\ \A k \in 1 .. Len(stack') : Frame(stack'[k])
      /\ stack' # << >> /\ Innermost' = fr /\ Around("begins", b)' /\ Start(b)' = pos
  <2>1. stack # << >> => Linked("begins", text, Innermost, Start(b), Due(b))
    BY <1>1, <1>2 DEF SoundWith, Linked
  <2>2. Around("begins", b) /\ Due(b) = pos
    BY <1>1, <1>2 DEF SoundWith
  <2>. QED BY <1>2, <1>3, <2>1, <2>2, Pushed DEF ParserSound
<1>6. ParserTyped'
  BY <1>2, <1>4, <1>5 DEF ParserTyped
<1>7. SoundWith(b)'
  BY <1>2, <1>4, <1>5 DEF SoundWith
<1>. QED BY <1>6, <1>7 DEF ParserSound

\* An array or object is complete: the one around it, or the whole text, has
\* the value it was due.
LEMMA CloseSound ==
    ASSUME ParserTyped, stack # << >>, NEW b, Around("begins", b), NEW h, Close(h),
           <<"value", Start(b), pos + 1, <<Innermost.of, h>> >> \in Judgements(text)
    PROVE  ParserSound'
<1>1. /\ stack' = Outer /\ state' = "returned" /\ pos' = pos + 1 /\ text' = text
      /\ value' = <<Innermost.of, h>>
  BY DEF Close, Consume
<1>2. /\ IsSequence(stack') /\ \A k \in 1 .. Len(stack') : Frame(stack'[k])
      /\ Around("begins", b)' /\ Due(b)' = Start(b)
      /\ stack' # << >> => Awaits(text', Innermost', Start(b)', Due(b)')
  BY <1>1, Removed DEF Linked
<1>3. ParserTyped'
  BY <1>1, <1>2 DEF ParserTyped
<1>4. SoundWith(b)'
  BY <1>1, <1>2 DEF SoundWith
<1>. QED BY <1>3, <1>4 DEF ParserSound

\* Closed at once, it is empty.
LEMMA EmptySound ==
    ASSUME ParserSound, ParseEmpty
    PROVE  ParserSound'
<1>1. PICK b : SoundWith(b)
  BY DEF ParserSound
<1>. DEFINE of == Innermost.of
            a == Start(b)
<1>2. ParserTyped /\ stack # << >> /\ Close(Innermost.holds) /\ Peek = Closing /\ state = "open"
  BY DEF ParserSound, ParserTyped, ParseEmpty
<1>3. of \in Bracketed /\ Closing = Closes(of) /\ Closing \in {"}", "]"} /\ a \in Int
  BY <1>1, <1>2, OnTop DEF SoundWith
<1>4. /\ text \in Seq(Token) /\ Mark(text, a, Opens(of)) /\ pos = a + 1 /\ Innermost.holds = << >>
      /\ pos \in Nat
  BY <1>1, <1>2 DEF SoundWith, ParserTyped
<1>5. Mark(text, a + 1, Closes(of))
  BY <1>2, <1>3, <1>4, PeekSees
<1>. HIDE DEF of, a
<1>6. IsValue(text, Judgements(text), a, a + 2, <<of, << >>>>)
  BY <1>3, <1>4, <1>5 DEF IsValue
<1>7. <<"value", a, pos + 1, <<of, << >>>> >> \in Judgements(text)
  <2>1. pos + 1 = a + 2
    <3>1. pos = a + 1 /\ a \in Int
      BY <1>3, <1>4
    <3>. QED BY <3>1
  <2>. QED BY <1>3, <1>4, <1>6, <2>1, FormsAreJudgements
<1>. QED BY <1>1, <1>2, <1>4, <1>7, CloseSound DEF SoundWith, of, a

\* The innermost array or object is due an element at pos.
LEMMA ElementSound ==
    ASSUME ParserTyped, stack # << >>, NEW b, Around("begins", b),
           NEW fr, Frame(fr), stack' = Append(Outer, fr),
           state' = IF fr.of = "Object" THEN "key" ELSE "value", pos' \in Nat, text' = text,
           GoesOn(text, fr.of, fr.holds, Start(b), pos')
    PROVE  ParserSound'
<1>1. PICK c : Around("begins", c)' /\ Start(c)' = Start(b) /\ Due(c)' = pos'
  <2>1. ASSUME NEW q \in Nat
        PROVE  \E c : Around("begins", c)' /\ Start(c)' = Start(b) /\ Due(c)' = q
    BY Replaced
  <2>. QED BY <2>1
<1>2. /\ IsSequence(stack') /\ \A k \in 1 .. Len(stack') : Frame(stack'[k])
      /\ stack' # << >> /\ Innermost' = fr
  BY Replaced
<1>3. ParserTyped'
  BY <1>2 DEF ParserTyped
<1>4. CASE fr.of = "Object"
  <2>1. SoundWith(c)'
    BY <1>1, <1>2, <1>4 DEF SoundWith
  <2>. QED BY <1>3, <2>1 DEF ParserSound
<1>5. CASE fr.of = "Array"
  <2>1. Awaits(text, fr, Start(b), pos')
    <3>1. text \in Seq(Token) /\ Named(text, fr.of, pos') /\ Keyed(text, fr, pos')
      BY <1>5 DEF ParserTyped, Named, Keyed
    <3>2. Awaits(text, fr, Start(b), ValueAt(fr.of, pos'))
      BY <3>1, AwaitsNext
    <3>. QED BY <1>5, <3>2 DEF ValueAt
  <2>2. SoundWith(c)'
    BY <1>1, <1>2, <1>5, <2>1 DEF SoundWith
  <2>. QED BY <1>3, <2>2 DEF ParserSound
<1>. QED BY <1>4, <1>5 DEF Frame, Bracketed

\* The innermost array or object put back in its place.
LEMMA TopStays ==
    ASSUME ParserTyped, stack # << >>
    PROVE  stack = Append(Outer, Innermost)
<1>1. PICK X : stack \in Seq(X)
  BY DEF ParserTyped, IsSequence
<1>. QED BY <1>1 DEF Outer, Innermost

\* Otherwise its first element is due.
LEMMA FirstSound ==
    ASSUME ParserSound, ParseFirst
    PROVE  ParserSound'
<1>1. PICK b : SoundWith(b)
  BY DEF ParserSound
<1>. DEFINE of == Innermost.of
            a == Start(b)
<1>2. /\ ParserTyped /\ stack # << >> /\ stack' = stack /\ pos' = pos /\ text' = text /\ state = "open"
      /\ state' = IF of = "Object" THEN "key" ELSE "value"
  BY DEF ParserSound, ParserTyped, ParseFirst, InObject
<1>3. of \in Bracketed /\ Frame(Innermost) /\ a \in Int
  BY <1>1, <1>2, OnTop DEF SoundWith
<1>4. /\ text \in Seq(Token) /\ Mark(text, a, Opens(of)) /\ pos = a + 1 /\ Innermost.holds = << >>
      /\ pos \in Nat /\ Around("begins", b)
  BY <1>1, <1>2 DEF SoundWith, ParserTyped
<1>5. GoesOn(text, of, Innermost.holds, a, pos)
  BY <1>3, <1>4, GoesOnBegun
<1>6. stack' = Append(Outer, Innermost)
  BY <1>2, TopStays
<1>. QED BY <1>2, <1>3, <1>4, <1>5, <1>6, ElementSound

\* Behind a comma the next one is.
LEMMA NextSound ==
    ASSUME ParserSound, ParseNext
    PROVE  ParserSound'
<1>1. PICK b : SoundWith(b)
  BY DEF ParserSound
<1>. DEFINE fr == [Innermost EXCEPT !.holds = Added]
<1>2. /\ ParserTyped /\ stack # << >> /\ stack' = Append(Outer, fr) /\ pos' = pos + 1 /\ text' = text
      /\ state = "returned" /\ state' = IF Innermost.of = "Object" THEN "key" ELSE "value"
  BY DEF ParserSound, ParserTyped, ParseNext, InObject, Consume
<1>3. Innermost.of \in Bracketed /\ Frame(Innermost) /\ Added = Plus(Innermost, value)
  BY <1>2, OnTop
<1>4. /\ text \in Seq(Token) /\ pos \in Nat
      /\ <<"value", Due(b), pos, value>> \in Judgements(text)
      /\ Around("begins", b) /\ Awaits(text, Innermost, Start(b), Due(b))
  BY <1>1, <1>2 DEF SoundWith, ParserTyped
<1>5. Mark(text, pos, ",")
  BY <1>4, PeekSees DEF ParseNext
<1>6. GoesOn(text, Innermost.of, Added, Start(b), pos + 1)
  <2>1. pos \in Int
    BY <1>4
  <2>2. GoesOn(text, Innermost.of, Plus(Innermost, value), Start(b), pos + 1)
    BY <1>3, <1>4, <1>5, <2>1, GoesOnBehind
  <2>. QED BY <1>3, <2>2
<1>7. fr.of = Innermost.of /\ fr.holds = Added /\ Frame(fr)
  <2>1. fr.of = Innermost.of /\ fr.holds = Added /\ fr = [of |-> fr.of, holds |-> fr.holds, key |-> fr.key]
    BY <1>3 DEF Frame
  <2>2. Flat(value)
    BY <1>4, JudgedHolding
  <2>3. Holding(Innermost.of, Added)
    BY <1>3, <2>2, HoldingMore
  <2>. HIDE DEF fr
  <2>. QED BY <1>3, <2>1, <2>3 DEF Frame
<1>. HIDE DEF fr
<1>8. pos' \in Nat /\ GoesOn(text, fr.of, fr.holds, Start(b), pos')
  BY <1>2, <1>4, <1>6, <1>7
<1>. QED BY <1>2, <1>4, <1>7, <1>8, ElementSound

\* A closing bracket behind an element completes it.
LEMMA LastSound ==
    ASSUME ParserSound, ParseLast
    PROVE  ParserSound'
<1>1. PICK b : SoundWith(b)
  BY DEF ParserSound
<1>2. ParserTyped /\ stack # << >> /\ Close(Added) /\ Peek = Closing /\ state = "returned"
  BY DEF ParserSound, ParseLast
<1>3. /\ Frame(Innermost) /\ Added = Plus(Innermost, value)
      /\ Closing = Closes(Innermost.of) /\ Closing \in {"}", "]"}
  BY <1>2, OnTop
<1>4. /\ text \in Seq(Token) /\ pos \in Nat
      /\ <<"value", Due(b), pos, value>> \in Judgements(text)
      /\ Around("begins", b) /\ Awaits(text, Innermost, Start(b), Due(b))
  BY <1>1, <1>2 DEF SoundWith, ParserTyped
<1>5. Mark(text, pos, Closes(Innermost.of))
  BY <1>2, <1>3, <1>4, PeekSees
<1>6. <<"value", Start(b), pos + 1, <<Innermost.of, Added>> >> \in Judgements(text)
  <2>1. pos \in Int
    BY <1>4
  <2>2. <<"value", Start(b), pos + 1, <<Innermost.of, Plus(Innermost, value)>> >> \in Judgements(text)
    BY <1>3, <1>4, <1>5, <2>1, Closed
  <2>. QED BY <1>3, <2>2
<1>. QED BY <1>2, <1>4, <1>6, CloseSound

\* Nothing is left open: the value is that of the text, if that ends here.
LEMMA EndSound ==
    ASSUME ParserSound, ParseEnd
    PROVE  ParserSound'
<1>1. PICK b : SoundWith(b)
  BY DEF ParserSound
<1>2. /\ ParserTyped /\ stack = << >> /\ UNCHANGED <<text, pos, stack, value>>
      /\ state = "returned" /\ state' = IF pos = Len(text) THEN "parsed" ELSE "thrown"
  BY DEF ParserSound, ParseEnd
<1>3. ParserTyped'
  BY <1>2 DEF ParserTyped
<1>4. <<"value", 0, pos, value>> \in Judgements(text)
  <2>1. Len(stack) = 0
    BY <1>2
  <2>. QED BY <1>1, <1>2, <2>1 DEF SoundWith, Around, Due
<1>5. pos = Len(text) => value \in Denoted(text)
  <2>. DEFINE j == <<"value", 0, pos, value>>
  <2>1. j[1] = "value" /\ j[2] = 0 /\ j[3] = pos /\ j[4] = value /\ j \in Judgements(text)
    BY <1>4
  <2>. HIDE DEF j
  <2>. QED BY <2>1 DEF Denoted
<1>6. Around("begins", b)'
  BY <1>1, <1>2 DEF SoundWith, Around
<1>7. SoundWith(b)'
  BY <1>2, <1>5, <1>6 DEF SoundWith
<1>. QED BY <1>3, <1>7 DEF ParserSound

\* The key read, the member's value is due.
LEMMA KeySound ==
    ASSUME ParserSound, ParseKey, state' # "thrown"
    PROVE  ParserSound'
<1>1. PICK b : SoundWith(b)
  BY DEF ParserSound
<1>. DEFINE fr == [Innermost EXCEPT !.key = text[pos + 1][2]]
<1>2. /\ ParserTyped /\ stack # << >> /\ stack' = Append(Outer, fr) /\ pos' = pos + 2 /\ text' = text
      /\ state' = "value" /\ Peek = "String" /\ pos + 2 <= Len(text) /\ text[pos + 2] = <<":">>
      /\ state = "key"
  BY DEF ParserSound, ParserTyped, ParseKey, Consume, Fail
<1>3. Frame(Innermost)
  BY <1>2, OnTop
<1>4. /\ text \in Seq(Token) /\ pos \in Nat /\ Around("begins", b)
      /\ Innermost.of = "Object" /\ GoesOn(text, "Object", Innermost.holds, Start(b), pos)
  BY <1>1, <1>2 DEF SoundWith, ParserTyped
<1>5. Name(text, pos)
  <2>. DEFINE n == Len(text)
  <2>1. n \in Nat /\ pos \in Nat /\ pos + 2 <= n
    BY <1>2, <1>4
  <2>. HIDE DEF n
  <2>2. pos < n /\ pos \in 0 .. n - 1 /\ pos + 1 \in 0 .. n - 1 /\ (pos + 1) + 1 = pos + 2
    BY <2>1
  <2>3. text[pos + 1][1] = "String"
    BY <1>2, <2>2 DEF Peek, n
  <2>. QED BY <1>2, <2>2, <2>3 DEF Name, Mark, n
<1>6. fr.of = "Object" /\ fr.holds = Innermost.holds /\ fr.key = text[pos + 1][2] /\ Frame(fr)
  <2>1. /\ fr.of = "Object" /\ fr.holds = Innermost.holds /\ fr.key = text[pos + 1][2]
        /\ fr = [of |-> fr.of, holds |-> fr.holds, key |-> fr.key]
    BY <1>3, <1>4 DEF Frame
  <2>. HIDE DEF fr
  <2>. QED BY <1>3, <1>4, <2>1 DEF Frame
<1>. HIDE DEF fr
<1>7. Awaits(text, fr, Start(b), pos + 2)
  <2>1. Named(text, fr.of, pos) /\ Keyed(text, fr, pos)
    BY <1>5, <1>6 DEF Named, Keyed
  <2>2. Awaits(text, fr, Start(b), ValueAt(fr.of, pos))
    BY <1>4, <1>6, <2>1, AwaitsNext
  <2>. QED BY <1>6, <2>2 DEF ValueAt
<1>8. PICK c : Around("begins", c)' /\ Start(c)' = Start(b) /\ Due(c)' = pos'
  <2>1. ASSUME NEW q \in Nat
        PROVE  \E c : Around("begins", c)' /\ Start(c)' = Start(b) /\ Due(c)' = q
    BY <1>2, <1>4, <1>6, Replaced
  <2>2. pos' \in Nat
    BY <1>2, <1>4
  <2>. QED BY <2>1, <2>2
<1>9. /\ IsSequence(stack') /\ \A k \in 1 .. Len(stack') : Frame(stack'[k])
      /\ stack' # << >> /\ Innermost' = fr
  BY <1>2, <1>4, <1>6, Replaced
<1>10. ParserTyped'
  BY <1>2, <1>4, <1>9 DEF ParserTyped
<1>11. SoundWith(c)'
  BY <1>2, <1>7, <1>8, <1>9 DEF SoundWith
<1>. QED BY <1>10, <1>11 DEF ParserSound

\* A failure claims nothing.
LEMMA FailSound ==
    ASSUME ParserSound, Fail
    PROVE  ParserSound'
<1>1. PICK b : SoundWith(b)
  BY DEF ParserSound
<1>2. Around("begins", b)'
  BY <1>1 DEF SoundWith, Around, Fail
<1>3. SoundWith(b)' /\ ParserTyped'
  BY <1>2 DEF SoundWith, ParserSound, ParserTyped, Fail
<1>. QED BY <1>3 DEF ParserSound

\* The parser keeps to the grammar.
LEMMA ParseSound ==
    ASSUME ParserSound, Parse
    PROVE  ParserSound'
<1>1. ParseKey => ParserSound'
  BY KeySound, FailSound DEF ParseKey, Fail
<1>. QED BY <1>1, ScalarSound, OpenSound, EmptySound, FirstSound, NextSound, LastSound, EndSound, FailSound
         DEF Parse, NoValue, ParseNoMore

-----------------------------------------------------------------------------
(* The parser fails on no document *)

\* Seen from where things end: in a text that is a document, what has been read
\* is followed by what the grammar asks for.
ReadsOn(c) ==
    /\ Around("ends", c)
    /\ state \in {"value", "returned"} /\ stack # << >> =>
          \E rest : <<Innermost.of, Due(c), Start(c), rest>> \in Judgements(text)
    /\ state = "value" => \E w : <<"value", pos, Due(c), w>> \in Judgements(text)
    /\ state = "open" => /\ Mark(text, pos - 1, Opens(Innermost.of))
                         /\ \E w : <<"value", pos - 1, Start(c), w>> \in Judgements(text)
    /\ state = "key" => /\ Innermost.of = "Object"
                        /\ \E held : ElementsFrom(text, Judgements(text), "Object", pos, Start(c), held)
    /\ state = "returned" => pos = Due(c)
    /\ state # "thrown"

ParserComplete == Denoted(text) # {} => \E c : ReadsOn(c)

\* A value that begins with an opening bracket is closed at once or has elements.
LEMMA OpenedForm ==
    ASSUME NEW t \in Seq(Token), NEW of \in Bracketed, NEW a \in Int, NEW b, NEW w,
           Mark(t, a, Opens(of)), <<"value", a, b, w>> \in Judgements(t)
    PROVE  IF Mark(t, a + 1, Closes(of)) THEN b = a + 2
           ELSE \E held : ElementsFrom(t, Judgements(t), of, a + 1, b, held)
<1>1. IsValue(t, Judgements(t), a, b, w)
  BY JudgementForm
<1>2. t[a + 1][1] \notin Scalars /\ \A fo \in Bracketed : Mark(t, a, Opens(fo)) => of = fo
  BY MarksApart
<1>3. \A held : ElementsFrom(t, Judgements(t), of, a + 1, b, held) => ~Mark(t, a + 1, Closes(of))
  BY ElementsBegin
<1>. QED BY <1>1, <1>2, <1>3 DEF IsValue

\* A value that begins with a literal ends with it.
LEMMA LiteralForm ==
    ASSUME NEW t \in Seq(Token), NEW a \in Int, NEW b, NEW w,
           t[a + 1][1] \in Scalars, <<"value", a, b, w>> \in Judgements(t)
    PROVE  b = a + 1
<1>1. IsValue(t, Judgements(t), a, b, w)
  BY JudgementForm
<1>2. \A of \in Bracketed : ~Mark(t, a, Opens(of))
  BY MarksApart
<1>. QED BY <1>1, <1>2 DEF IsValue

\* A literal is all of the value due.
LEMMA ScalarComplete ==
    ASSUME ParserTyped, NEW c, ReadsOn(c), ParseScalar
    PROVE  ReadsOn(c)'
<1>1. /\ text' = text /\ stack' = stack /\ pos' = pos + 1 /\ state = "value" /\ state' = "returned"
  BY DEF ParseScalar, Consume
<1>2. Around("ends", c)' /\ Due(c)' = Due(c) /\ Start(c)' = Start(c) /\ Innermost' = Innermost
  BY <1>1 DEF ReadsOn, Around, Due, Start, Innermost
<1>3. text \in Seq(Token) /\ pos \in Int /\ text[pos + 1][1] \in Scalars
  <2>1. text \in Seq(Token) /\ pos \in Nat /\ Peek \in Scalars
    BY DEF ParserTyped, ParseScalar
  <2>2. text[pos + 1][1] \in Scalars
    BY <2>1, PeekSees
  <2>. QED BY <2>1, <2>2
<1>4. Due(c) = pos + 1
  BY <1>1, <1>3, LiteralForm DEF ReadsOn
<1>. QED BY <1>1, <1>2, <1>4 DEF ReadsOn

\* What begins with a bracket is an array or object.
LEMMA OpenComplete ==
    ASSUME ParserTyped, NEW c, ReadsOn(c), Open
    PROVE  ReadsOn(c)'
<1>. DEFINE fr == [of |-> IF Peek = "{" THEN "Object" ELSE "Array", holds |-> << >>, key |-> ""]
<1>1. stack' = Append(stack, fr) /\ state' = "open" /\ pos' = pos + 1 /\ text' = text /\ state = "value"
  BY DEF Open, Consume
<1>2. Frame(fr)
  BY NothingHeld DEF Frame, Holding, Bracketed
<1>3. Mark(text, pos, Opens(fr.of)) /\ pos' - 1 = pos
  <2>1. text \in Seq(Token) /\ pos \in Nat
    BY DEF ParserTyped
  <2>2. Mark(text, pos, Peek)
    BY <2>1, PeekSees DEF Open
  <2>3. Peek = Opens(fr.of)
    BY DEF Open, Opens
  <2>4. \A p \in Nat : (p + 1) - 1 = p
    OBVIOUS
  <2>5. pos' - 1 = pos
    BY <1>1, <2>1, <2>4
  <2>. QED BY <2>2, <2>3, <2>5
<1>. HIDE DEF fr
<1>4. Innermost' = fr /\ Around("ends", c)' /\ Start(c)' = Due(c)
  <2>1. stack # << >> => Linked("ends", text, Innermost, Start(c), Due(c))
    BY <1>1 DEF ReadsOn, Linked
  <2>2. Around("ends", c)
    BY DEF ReadsOn
  <2>. QED BY <1>1, <1>2, <2>1, <2>2, Pushed
<1>. QED BY <1>1, <1>3, <1>4 DEF ReadsOn

\* An array or object ends where it should.
LEMMA CloseComplete ==
    ASSUME ParserTyped, stack # << >>, NEW c, Around("ends", c), NEW h, Close(h),
           pos + 1 = Start(c)
    PROVE  ReadsOn(c)'
<1>1. stack' = Outer /\ state' = "returned" /\ pos' = pos + 1 /\ text' = text
  BY DEF Close, Consume
<1>2. /\ Around("ends", c)' /\ Due(c)' = Start(c)
      /\ stack' # << >> => \E rest : <<Innermost'.of, Due(c)', Start(c)', rest>> \in Judgements(text')
  BY <1>1, Removed DEF Linked
<1>. QED BY <1>1, <1>2 DEF ReadsOn

\* A closing bracket behind the opening one is its own.
LEMMA EmptyComplete ==
    ASSUME ParserTyped, NEW c, ReadsOn(c), ParseEmpty
    PROVE  ReadsOn(c)'
<1>1. stack # << >> /\ Close(Innermost.holds) /\ Peek = Closing /\ state = "open" /\ Around("ends", c)
  BY DEF ParserTyped, ParseEmpty, ReadsOn
<1>2. /\ Innermost.of \in Bracketed /\ Closing = Closes(Innermost.of) /\ Closing \in {"}", "]"}
      /\ text \in Seq(Token) /\ pos \in Nat
  BY <1>1, OnTop DEF ParserTyped
<1>3. Mark(text, pos, Closes(Innermost.of))
  BY <1>1, <1>2, PeekSees
<1>4. PICK w : /\ Mark(text, pos - 1, Opens(Innermost.of))
               /\ <<"value", pos - 1, Start(c), w>> \in Judgements(text)
  BY <1>1 DEF ReadsOn
<1>5. pos + 1 = Start(c)
  <2>1. pos - 1 \in Int /\ (pos - 1) + 1 = pos /\ (pos - 1) + 2 = pos + 1
    <3>1. pos \in Nat
      BY <1>2
    <3>. QED BY <3>1
  <2>2. Mark(text, (pos - 1) + 1, Closes(Innermost.of))
    BY <1>3, <2>1
  <2>3. Start(c) = (pos - 1) + 2
    BY <1>2, <1>4, <2>1, <2>2, OpenedForm
  <2>. QED BY <2>1, <2>3
<1>. QED BY <1>1, <1>5, CloseComplete

\* The innermost array or object is due an element at pos, and there is one.
LEMMA ElementComplete ==
    ASSUME ParserTyped, stack # << >>, NEW c, Around("ends", c),
           NEW fr, Frame(fr), stack' = Append(Outer, fr),
           state' = IF fr.of = "Object" THEN "key" ELSE "value", text' = text,
           NEW held, ElementsFrom(text, Judgements(text), fr.of, pos', Start(c), held)
    PROVE  \E d : ReadsOn(d)'
<1>1. PICK m, w, rest : /\ <<"value", ValueAt(fr.of, pos'), m, w>> \in Judgements(text)
                        /\ <<fr.of, m, Start(c), rest>> \in Judgements(text)
  BY DEF ElementsFrom
<1>2. m \in Int
  BY <1>1, JudgedHolding DEF ParserTyped
<1>3. PICK d : Around("ends", d)' /\ Start(d)' = Start(c) /\ Due(d)' = m
  BY <1>2, Replaced
<1>4. stack' # << >> /\ Innermost' = fr
  BY <1>2, Replaced
<1>5. CASE fr.of = "Object"
  BY <1>3, <1>4, <1>5 DEF ReadsOn
<1>6. CASE fr.of = "Array"
  BY <1>1, <1>3, <1>4, <1>6 DEF ReadsOn, ValueAt
<1>. QED BY <1>5, <1>6 DEF Frame, Bracketed

\* Where there is none, there is a first element.
LEMMA FirstComplete ==
    ASSUME ParserTyped, NEW c, ReadsOn(c), ParseFirst
    PROVE  \E d : ReadsOn(d)'
<1>1. /\ stack # << >> /\ stack' = stack /\ pos' = pos /\ text' = text /\ state = "open"
      /\ state' = (IF Innermost.of = "Object" THEN "key" ELSE "value") /\ Around("ends", c)
      /\ Peek # Closing
  BY DEF ParserTyped, ParseFirst, InObject, ReadsOn
<1>2. /\ Innermost.of \in Bracketed /\ Closing = Closes(Innermost.of) /\ Closing \in {"}", "]"}
      /\ text \in Seq(Token) /\ pos \in Nat /\ Frame(Innermost)
  BY <1>1, OnTop DEF ParserTyped
<1>3. ~Mark(text, pos, Closes(Innermost.of))
  <2>1. Peek = Closing <=> Mark(text, pos, Closing)
    BY <1>2, PeekSees
  <2>. QED BY <1>1, <1>2, <2>1
<1>4. PICK w : /\ Mark(text, pos - 1, Opens(Innermost.of))
               /\ <<"value", pos - 1, Start(c), w>> \in Judgements(text)
  BY <1>1 DEF ReadsOn
<1>5. \E held : ElementsFrom(text, Judgements(text), Innermost.of, pos, Start(c), held)
  <2>1. pos - 1 \in Int /\ (pos - 1) + 1 = pos
    <3>1. pos \in Nat
      BY <1>2
    <3>. QED BY <3>1
  <2>2. ~Mark(text, (pos - 1) + 1, Closes(Innermost.of))
    BY <1>3, <2>1
  <2>3. \E held : ElementsFrom(text, Judgements(text), Innermost.of, (pos - 1) + 1, Start(c), held)
    BY <1>2, <1>4, <2>1, <2>2, OpenedForm
  <2>. QED BY <2>1, <2>3
<1>6. stack' = Append(Outer, Innermost)
  BY <1>1, TopStays
<1>. QED BY <1>1, <1>2, <1>5, <1>6, ElementComplete

\* A remainder is a closing bracket, or a comma and elements.
LEMMA BehindForm ==
    ASSUME ParserTyped, stack # << >>, state = "returned", NEW c, ReadsOn(c)
    PROVE  IF Mark(text, pos, Closes(Innermost.of)) THEN Start(c) = pos + 1
           ELSE /\ Mark(text, pos, ",")
                /\ \E held : ElementsFrom(text, Judgements(text), Innermost.of, pos + 1, Start(c), held)
<1>1. PICK rest : <<Innermost.of, pos, Start(c), rest>> \in Judgements(text)
  BY DEF ReadsOn
<1>2. Innermost.of \in Bracketed /\ text \in Seq(Token)
  BY OnTop DEF ParserTyped
<1>3. IsRemainder(text, Judgements(text), Innermost.of, pos, Start(c), rest)
  BY <1>1, <1>2, JudgementForm
<1>4. Mark(text, pos, Closes(Innermost.of)) => ~Mark(text, pos, ",")
  BY <1>2, MarksApart
<1>. QED BY <1>3, <1>4 DEF IsRemainder

\* A comma is followed by an element.
LEMMA NextComplete ==
    ASSUME ParserSound, ParserTyped, NEW c, ReadsOn(c), ParseNext
    PROVE  \E d : ReadsOn(d)'
<1>. DEFINE fr == [Innermost EXCEPT !.holds = Added]
<1>1. /\ stack # << >> /\ stack' = Append(Outer, fr) /\ pos' = pos + 1 /\ text' = text
      /\ state = "returned" /\ state' = (IF Innermost.of = "Object" THEN "key" ELSE "value")
      /\ Around("ends", c)
  BY DEF ParseNext, InObject, Consume, ReadsOn
<1>2. Innermost.of \in Bracketed /\ Frame(Innermost) /\ Added = Plus(Innermost, value)
  BY <1>1, OnTop
<1>3. Mark(text, pos, ",") /\ ~Mark(text, pos, Closes(Innermost.of))
  <2>1. Mark(text, pos, ",")
    BY PeekSees DEF ParserTyped, ParseNext
  <2>. QED BY <1>2, <2>1, MarksApart
<1>4. PICK held : ElementsFrom(text, Judgements(text), Innermost.of, pos + 1, Start(c), held)
  BY <1>1, <1>3, BehindForm
<1>5. fr.of = Innermost.of /\ Frame(fr)
  <2>1. fr.of = Innermost.of /\ fr.holds = Added /\ fr = [of |-> fr.of, holds |-> fr.holds, key |-> fr.key]
    BY <1>2 DEF Frame
  <2>2. PICK b : SoundWith(b)
    BY DEF ParserSound
  <2>3. Flat(value)
    BY <1>1, <2>2, JudgedHolding DEF SoundWith, ParserTyped
  <2>4. Holding(Innermost.of, Added)
    BY <1>2, <2>3, HoldingMore
  <2>. HIDE DEF fr
  <2>. QED BY <1>2, <2>1, <2>4 DEF Frame
<1>. HIDE DEF fr
<1>6. ElementsFrom(text, Judgements(text), fr.of, pos', Start(c), held)
  BY <1>1, <1>4, <1>5
<1>. QED BY <1>1, <1>5, <1>6, ElementComplete

\* A closing bracket where one may be is the one due.
LEMMA LastComplete ==
    ASSUME ParserTyped, NEW c, ReadsOn(c), ParseLast
    PROVE  ReadsOn(c)'
<1>1. stack # << >> /\ Close(Added) /\ Peek = Closing /\ state = "returned" /\ Around("ends", c)
  BY DEF ParseLast, ReadsOn
<1>2. Closing = Closes(Innermost.of) /\ Closing \in {"}", "]"}
  BY <1>1, OnTop
<1>3. Mark(text, pos, Closes(Innermost.of))
  BY <1>1, <1>2, PeekSees DEF ParserTyped
<1>4. Start(c) = pos + 1
  BY <1>1, <1>3, BehindForm
<1>. QED BY <1>1, <1>4, CloseComplete

\* With nothing left open the text is over.
LEMMA EndComplete ==
    ASSUME ParserTyped, NEW c, ReadsOn(c), ParseEnd
    PROVE  ReadsOn(c)'
<1>1. /\ stack = << >> /\ UNCHANGED <<text, pos, stack, value>>
      /\ state = "returned" /\ state' = IF pos = Len(text) THEN "parsed" ELSE "thrown"
  BY DEF ParseEnd
<1>2. pos = Len(text)
  <2>1. Len(stack) = 0
    BY <1>1
  <2>. QED BY <1>1, <2>1 DEF ReadsOn, Around, Due
<1>3. Around("ends", c)'
  BY <1>1 DEF ReadsOn, Around
<1>. QED BY <1>1, <1>2, <1>3 DEF ReadsOn

\* The name and the colon are there, and the value behind them.
LEMMA KeyComplete ==
    ASSUME ParserTyped, NEW c, ReadsOn(c), ParseKey
    PROVE  \E d : ReadsOn(d)'
<1>. DEFINE fr == [Innermost EXCEPT !.key = text[pos + 1][2]]
<1>1. stack # << >> /\ state = "key" /\ Innermost.of = "Object" /\ Around("ends", c)
  BY DEF ParserTyped, ParseKey, ReadsOn
<1>2. Frame(Innermost) /\ text \in Seq(Token) /\ pos \in Nat
  BY <1>1, OnTop DEF ParserTyped
<1>3. PICK held : ElementsFrom(text, Judgements(text), "Object", pos, Start(c), held)
  BY <1>1 DEF ReadsOn
<1>4. PICK m, w, rest : /\ Name(text, pos)
                        /\ <<"value", pos + 2, m, w>> \in Judgements(text)
                        /\ <<"Object", m, Start(c), rest>> \in Judgements(text)
  BY <1>3 DEF ElementsFrom, Named, ValueAt
<1>5. Peek = "String" /\ pos + 2 <= Len(text) /\ text[pos + 2] = <<":">>
  <2>. DEFINE n == Len(text)
  <2>1. n \in Nat /\ pos \in Nat /\ pos + 1 \in 0 .. n - 1
    BY <1>2, <1>4 DEF Name, Mark
  <2>. HIDE DEF n
  <2>2. pos < n /\ pos + 2 <= n /\ (pos + 1) + 1 = pos + 2
    BY <2>1
  <2>. QED BY <1>4, <2>2 DEF Name, Mark, Peek, n
<1>6. stack' = Append(Outer, fr) /\ state' = "value" /\ pos' = pos + 2 /\ text' = text
  BY <1>5 DEF ParseKey, Consume
<1>7. fr.of = "Object" /\ Frame(fr)
  <2>1. /\ fr.of = "Object" /\ fr.holds = Innermost.holds
        /\ fr = [of |-> fr.of, holds |-> fr.holds, key |-> fr.key]
    BY <1>1, <1>2 DEF Frame
  <2>. HIDE DEF fr
  <2>. QED BY <1>1, <1>2, <2>1 DEF Frame
<1>. HIDE DEF fr
<1>8. m \in Int
  BY <1>2, <1>4, JudgedHolding
<1>9. PICK d : Around("ends", d)' /\ Start(d)' = Start(c) /\ Due(d)' = m
  BY <1>1, <1>6, <1>7, <1>8, Replaced
<1>10. stack' # << >> /\ Innermost' = fr
  BY <1>1, <1>6, <1>7, <1>8, Replaced
<1>11. ReadsOn(d)'
  BY <1>4, <1>6, <1>7, <1>9, <1>10 DEF ReadsOn
<1>. QED BY <1>11

\* Where a value is due there is one, and something behind an element.
LEMMA NeverFails ==
    ASSUME ParserTyped, NEW c, ReadsOn(c)
    PROVE  ~NoValue /\ ~ParseNoMore
<1>0. text \in Seq(Token) /\ pos \in Nat
  BY DEF ParserTyped
<1>1. ASSUME NoValue
      PROVE  FALSE
  <2>1. PICK w : <<"value", pos, Due(c), w>> \in Judgements(text)
    BY <1>1 DEF NoValue, ReadsOn
  <2>2. IsValue(text, Judgements(text), pos, Due(c), w)
    BY <1>0, <2>1, JudgementForm
  <2>3. pos \in 0 .. Len(text) - 1 /\ text[pos + 1][1] \in Scalars \cup {"{", "["}
    BY <2>2, ValueBegins
  <2>4. Peek = text[pos + 1][1]
    <3>1. \A n \in Nat : pos \in 0 .. n - 1 => pos < n
      OBVIOUS
    <3>2. Len(text) \in Nat
      BY <1>0
    <3>. QED BY <2>3, <3>1, <3>2 DEF Peek
  <2>. QED BY <1>1, <2>3, <2>4 DEF NoValue
<1>2. ASSUME ParseNoMore
      PROVE  FALSE
  <2>1. stack # << >> /\ state = "returned" /\ Peek \notin {",", Closing}
    BY <1>2 DEF ParseNoMore
  <2>2. Closing = Closes(Innermost.of) /\ Closing \in {"}", "]"}
    BY <2>1, OnTop
  <2>3. Mark(text, pos, Closes(Innermost.of)) \/ Mark(text, pos, ",")
    BY <2>1, BehindForm
  <2>. QED BY <1>0, <2>1, <2>2, <2>3, PeekSees
<1>. QED BY <1>1, <1>2

\* The parser fails on no document.
LEMMA ParseComplete ==
    ASSUME ParserSound, ParserComplete, Parse
    PROVE  ParserComplete'
<1>1. text' = text /\ ParserTyped
  BY DEF Parse, ParseScalar, Open, NoValue, ParseEmpty, ParseFirst, ParseKey, ParseNext, ParseLast,
         ParseNoMore, ParseEnd, Consume, Fail, Close, ParserSound
<1>. SUFFICES ASSUME Denoted(text) # {}
              PROVE  \E d : ReadsOn(d)'
  BY <1>1 DEF ParserComplete
<1>2. PICK c : ReadsOn(c)
  BY DEF ParserComplete
<1>. QED BY <1>1, <1>2, ScalarComplete, OpenComplete, EmptyComplete, FirstComplete, KeyComplete,
            NextComplete, LastComplete, EndComplete, NeverFails DEF Parse

-----------------------------------------------------------------------------
(* main *)

ParserInv == file \in Files /\ text = file.text /\ ParserSound /\ ParserComplete

\* At first the whole text is the value due.
LEMMA InitParser == Init => ParserInv
<1>. SUFFICES ASSUME Init
              PROVE  ParserInv
  OBVIOUS
<1>. USE DEF PInit
<1>1. file \in Files /\ text = file.text /\ text \in Seq(Token)
  BY StartupAssumption DEF Init
<1>2. pos = 0 /\ stack = << >> /\ state = "value" /\ Len(stack) = 0
  BY DEF Init
<1>3. Len(text) \in Nat
  BY <1>1
<1>4. ParserTyped
  BY <1>1, <1>2, NothingHeld DEF ParserTyped
<1>5. \E b : SoundWith(b)
  <2>1. PICK b : b \in [Nat -> Int] /\ b[0] = 0
    <3>. DEFINE d == [k \in Nat |-> 0]
    <3>1. d \in [Nat -> Int] /\ d[0] = 0
      OBVIOUS
    <3>. QED BY <3>1
  <2>2. Around("begins", b) /\ Due(b) = 0
    BY <1>2, <2>1 DEF Around, Due
  <2>3. SoundWith(b)
    BY <1>2, <2>2 DEF SoundWith
  <2>. QED BY <2>3
<1>6. ASSUME Denoted(text) # {}
      PROVE  \E c : ReadsOn(c)
  <2>1. PICK j \in Judgements(text) : j[1] = "value" /\ j[2] = 0 /\ j[3] = Len(text)
    BY <1>6 DEF Denoted
  <2>2. j = <<"value", 0, Len(text), j[4]>>
    BY <1>1, <2>1, JudgementsFixed DEF IsJudgement
  <2>3. PICK c : c \in [Nat -> Int] /\ c[0] = Len(text)
    <3>. DEFINE d == [k \in Nat |-> Len(text)]
    <3>1. d \in [Nat -> Int] /\ d[0] = Len(text)
      BY <1>3
    <3>. QED BY <3>1
  <2>4. Around("ends", c) /\ Due(c) = Len(text)
    BY <1>2, <2>3 DEF Around, Due
  <2>5. <<"value", pos, Due(c), j[4]>> \in Judgements(text)
    BY <1>2, <2>1, <2>2, <2>4
  <2>6. ReadsOn(c)
    BY <1>2, <2>4, <2>5 DEF ReadsOn
  <2>. QED BY <2>6
<1>. QED BY <1>1, <1>4, <1>5, <1>6 DEF ParserInv, ParserSound, ParserComplete

\* The rest of main leaves the parser and the file alone.
LEMMA StutterParser ==
    ASSUME ParserInv, UNCHANGED <<pvars, file>>
    PROVE  ParserInv'
<1>. USE DEF pvars
<1>1. PICK b : SoundWith(b)
  BY DEF ParserInv, ParserSound
<1>2. ParserTyped' /\ file' \in Files /\ text' = file'.text
  BY DEF ParserInv, ParserSound, ParserTyped
<1>3. \A side, c : Around(side, c)' <=> Around(side, c)
  BY DEF Around
<1>4. SoundWith(b)'
  BY <1>1, <1>3 DEF SoundWith, Start, Due, Innermost
<1>5. \A c : ReadsOn(c) => ReadsOn(c)'
  BY <1>3 DEF ReadsOn, Start, Due, Innermost
<1>6. ParserComplete'
  BY <1>5 DEF ParserInv, ParserComplete
<1>. QED BY <1>2, <1>4, <1>6 DEF ParserInv, ParserSound

\* Each step of main keeps the parser right.
LEMMA NextParser == ParserInv /\ [Next]_svars => ParserInv'
<1>. SUFFICES ASSUME ParserInv, [Next]_svars
              PROVE  ParserInv'
  OBVIOUS
<1>1. CASE ParseStep
  <2>1. Parse /\ file' = file /\ text' = text
    BY <1>1 DEF ParseStep, Parse, ParseScalar, Open, NoValue, ParseEmpty, ParseFirst, ParseKey, ParseNext, ParseLast,
         ParseNoMore, ParseEnd, Consume, Fail, Close
  <2>. QED BY <2>1, ParseSound, ParseComplete DEF ParserInv
<1>2. ASSUME ~ParseStep
      PROVE  UNCHANGED <<pvars, file>>
  BY <1>2 DEF Next, TakeOption, BadUsage, ArgsParsed, LoadFails, Load, BadOverride, Override, Go, svars
<1>. QED BY <1>1, <1>2, StutterParser

\* The parser is sound: when it returns a value, that is the one the grammar
\* says the text denotes.  (parse and what it calls, however deep.)
THEOREM ParserIsSound == Spec => [](state = "parsed" => Denoted(text) = {value})
<1>1. ParserInv => (state = "parsed" => Denoted(text) = {value})
  <2>. SUFFICES ASSUME ParserInv, state = "parsed"
                PROVE  Denoted(text) = {value}
    OBVIOUS
  <2>1. text \in Seq(Token) /\ value \in Denoted(text)
    BY DEF ParserInv, ParserSound, ParserTyped, SoundWith
  <2>. QED BY <2>1, OneValue
<1>. QED BY <1>1, InitParser, NextParser, PTL DEF Spec

\* The parser is complete: when it throws, the text denotes nothing.
THEOREM ParserIsComplete == Spec => [](state = "thrown" => Denoted(text) = {})
<1>1. ParserInv => (state = "thrown" => Denoted(text) = {})
  BY DEF ParserInv, ParserComplete, ReadsOn
<1>. QED BY <1>1, InitParser, NextParser, PTL DEF Spec

\* json.h: the parser returns what was written in the file, however it is nested.
THEOREM ReturnsWhatIsWritten == Spec => []ParsesWhatIsWritten
<1>1. ParserInv => ParsesWhatIsWritten
  <2>. SUFFICES ASSUME ParserInv, state = "parsed"
                PROVE  value = file.holds
    BY DEF ParsesWhatIsWritten
  <2>1. text \in Seq(Token) /\ value \in Denoted(text) /\ text = file.text /\ file \in Files
    BY DEF ParserInv, ParserSound, ParserTyped, SoundWith
  <2>2. file.holds \in Denoted(text)
    BY <2>1, StartupAssumption
  <2>. QED BY <2>1, <2>2, OneValue
<1>. QED BY <1>1, InitParser, NextParser, PTL DEF Spec

-----------------------------------------------------------------------------
(* Config::load and the overrides *)

\* (The provers do not know that "" is a string.)
Word == ({"word"} \X (STRING \cup {""})) \cup ({"number"} \X Int)

\* What Config::load lets through, and the overrides leave.
Usable(c) == /\ {"levels", "start_level"} \subseteq DOMAIN c
             /\ c.levels # << >> /\ Len(c.levels) \in Nat
             /\ c.start_level \in 0 .. Len(c.levels) - 1
             /\ \A i \in DOMAIN c.levels : IsLevel(c.levels[i])

ConfigInv == /\ argv \in Seq(Word) /\ args \in [Options -> Word]
             /\ phase \in {"override", "run"} => Usable(config)

\* A value that the parser returns is flat, and so are the members of an object.
LEMMA ParsedIsFlat ==
    ASSUME ParserInv, state = "parsed"
    PROVE  Flat(value) /\ (value[1] = "Object" => FlatMembers(value[2]))
<1>1. text \in Seq(Token) /\ value \in Denoted(text)
  BY DEF ParserInv, ParserSound, ParserTyped, SoundWith
<1>2. PICK j \in Judgements(text) : j[1] = "value" /\ j[4] = value
  BY <1>1 DEF Denoted
<1>. QED BY <1>1, <1>2, JudgementsFixed DEF IsJudgement

\* as_int yields an integer.
LEMMA AsIntTyped == \A n \in Int : AsInt(n) \in Int
BY DEF AsInt

\* What Config::load lets through.
LEMMA LoadedIsUsable ==
    ASSUME NEW root, root[1] = "Object" => FlatMembers(root[2]), ~LoadThrows(root)
    PROVE  Usable(Loaded(root))
<1>. DEFINE c == Loaded(root)
            n == Read(root, Defaults).start_level
<1>1. c.levels = Ladder(root) /\ c.start_level = AsInt(n[2]) /\ {"levels", "start_level"} \subseteq DOMAIN c
  BY DEF Loaded
<1>2. ~Mistyped(root, Defaults) /\ Ladder(root) # << >> /\ \A i \in DOMAIN Ladder(root) : IsLevel(Ladder(root)[i])
  BY DEF LoadThrows
<1>3. OnLadder(AsInt(n[2]), Ladder(root))
  BY <1>2 DEF LoadThrows
<1>4. IsSequence(Ladder(root))
  <2>1. CASE Has(root, "levels") /\ root[2]["levels"][1] = "Array"
    <3>1. Flat(root[2]["levels"])
      BY <2>1 DEF Has, FlatMembers
    <3>. QED BY <2>1, <3>1 DEF Ladder, Flat
  <2>2. CASE ~(Has(root, "levels") /\ root[2]["levels"][1] = "Array")
    BY <1>2, <2>2 DEF Ladder
  <2>. QED BY <2>1, <2>2
<1>5. Len(Ladder(root)) \in Nat
  BY <1>4, Appended
<1>6. n[2] \in Int
  <2>1. "start_level" \in DOMAIN Defaults /\ Defaults["start_level"] = <<"Number", 300>>
    BY DEF Defaults
  <2>2. n = IF Has(root, "start_level") THEN root[2]["start_level"] ELSE <<"Number", 300>>
    BY <2>1 DEF Read
  <2>3. CASE Has(root, "start_level")
    <3>1. Flat(root[2]["start_level"])
      BY <2>3 DEF Has, FlatMembers
    <3>2. root[2]["start_level"][1] = "Number"
      BY <1>2, <2>1, <2>3 DEF Mistyped
    <3>. QED BY <2>2, <2>3, <3>1, <3>2 DEF Flat
  <2>4. CASE ~Has(root, "start_level")
    BY <2>2, <2>4
  <2>. QED BY <2>3, <2>4
<1>7. AsInt(n[2]) \in 0 .. Len(Ladder(root)) - 1
  <2>. DEFINE k == AsInt(n[2])
              l == Len(Ladder(root))
  <2>1. k \in Int /\ l \in Nat /\ 0 <= k /\ k < l
    BY <1>3, <1>5, <1>6, AsIntTyped DEF OnLadder
  <2>. HIDE DEF k, l
  <2>2. k \in 0 .. l - 1
    BY <2>1
  <2>. QED BY <2>2 DEF k, l
<1>. HIDE DEF c, n
<1>8. Usable(c)
  BY <1>1, <1>2, <1>5, <1>7 DEF Usable
<1>. QED BY <1>8 DEF c

\* Words are words, and the defaults of Args are two of them.
LEMMA InitConfig == Init => ConfigInv
<1>. SUFFICES ASSUME Init
              PROVE  ConfigInv
  OBVIOUS
<1>1. argv \in Seq(Word)
  <2>. DEFINE W == ({"word"} \X STRING) \cup ({"number"} \X Int)
  <2>1. argv \in Seq(W)
    BY StartupAssumption DEF Init
  <2>2. W \subseteq Word
    BY DEF Word
  <2>. HIDE DEF W
  <2>. QED BY <2>1, <2>2
<1>2. Unset \in Word /\ <<"number", -1>> \in Word
  <2>1. -1 \in Int
    OBVIOUS
  <2>2. <<"word", "">> \in {"word"} \X (STRING \cup {""}) /\ <<"number", -1>> \in {"number"} \X Int
    BY <2>1
  <2>. QED BY <2>2 DEF Unset, Word
<1>3. args \in [Options -> Word] /\ phase = "args"
  BY <1>2 DEF Init
<1>. QED BY <1>1, <1>3 DEF ConfigInv

\* The value of an option, as a number, is one.
LEMMA AtoiTyped == \A w \in Word : Atoi(w) \in Int
<1>. TAKE w \in Word
<1>1. CASE w \in {"number"} \X Int
  <2>1. w[1] = "number" /\ w[2] \in Int
    BY <1>1
  <2>. QED BY <2>1 DEF Atoi
<1>2. CASE w \in {"word"} \X (STRING \cup {""})
  <2>1. w[1] = "word"
    BY <1>2
  <2>. QED BY <2>1 DEF Atoi
<1>. QED BY <1>1, <1>2 DEF Word

\* Config::load lets only what is usable through, and the overrides keep it so.
LEMMA NextConfig == ParserInv /\ ConfigInv /\ [Next]_svars => ConfigInv'
<1>. SUFFICES ASSUME ParserInv, ConfigInv, [Next]_svars
              PROVE  ConfigInv'
  OBVIOUS
<1>1. CASE TakeOption
  <2>1. argv' = SubSeq(argv, 3, Len(argv)) /\ Len(argv) > 1 /\ argv \in Seq(Word)
    BY <1>1 DEF TakeOption, ConfigInv
  <2>2. argv' \in Seq(Word)
    BY <2>1
  <2>3. argv[2] \in Word
    BY <2>1
  <2>4. args' \in [Options -> Word] /\ phase' = "args"
    BY <1>1, <2>3 DEF TakeOption, ConfigInv, Go
  <2>. QED BY <2>2, <2>4 DEF ConfigInv
<1>2. CASE BadUsage \/ ArgsParsed \/ LoadFails \/ BadOverride
  BY <1>2 DEF BadUsage, ArgsParsed, LoadFails, BadOverride, Go, ConfigInv
<1>3. CASE ParseStep
  BY <1>3 DEF ParseStep, ConfigInv
<1>4. CASE Load
  <2>1. Usable(Loaded(value))
    BY <1>4, ParsedIsFlat, LoadedIsUsable DEF Load
  <2>. QED BY <1>4, <2>1 DEF Load, Go, ConfigInv
<1>5. CASE Override
  <2>. DEFINE l == Atoi(args["--start-level"])
  <2>1. /\ l < 0 \/ OnLadder(l, config.levels)
        /\ Usable(config)
    BY <1>5 DEF Override, GoodOverride, ConfigInv
  <2>2. l \in Int
    BY AtoiTyped DEF ConfigInv, Options
  <2>3. /\ DOMAIN config' = DOMAIN config
        /\ config'.levels = config.levels
        /\ config'.start_level = IF l < 0 THEN config.start_level ELSE l
    BY <1>5, <2>1 DEF Override, Usable
  <2>4. config'.start_level \in 0 .. Len(config.levels) - 1
    BY <2>1, <2>2, <2>3 DEF OnLadder, Usable
  <2>5. Usable(config')
    BY <2>1, <2>3, <2>4 DEF Usable
  <2>. QED BY <1>5, <2>5 DEF Override, Go, ConfigInv
<1>6. CASE UNCHANGED svars
  BY <1>6 DEF svars, ConfigInv
<1>. QED BY <1>1, <1>2, <1>3, <1>4, <1>5, <1>6 DEF Next

\* Every file and every command line that gets the program to run leaves it a
\* ladder of complete rungs and a start level on it.
THEOREM RunsOnUsableConfig == Spec => []ConfigIsUsable
<1>1. ConfigInv => ConfigIsUsable
  BY DEF ConfigInv, Usable, ConfigIsUsable
<1>. QED BY <1>1, InitParser, NextParser, InitConfig, NextConfig, PTL DEF Spec
=============================================================================
