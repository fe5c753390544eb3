---------------------------- MODULE ParserProofs ----------------------------
(***************************************************************************)
(* Proofs about Parser, for every sequence of tokens: lib/parse.cpp reads  *)
(* behind the last token, or an expression that is missing, only at a      *)
(* source that breaks off there; every lemniParse that answers passes a    *)
(* token; and what the answers hold, read from left to right, are the      *)
(* names and literals that were passed.                                    *)
(*                                                                         *)
(* The parse functions are recursive over the positions of the tokens.     *)
(* What each promises of its answer is stated once, where it stops         *)
(* (Answered) and what it holds (Read), and proved of a position from the  *)
(* same promise about the positions behind it; the first to break it,      *)
(* counted from the end, cannot exist.                                     *)
(***************************************************************************)
EXTENDS Parser, SequenceTheorems, NaturalsInduction, WellFoundedInduction, TLAPS

-----------------------------------------------------------------------------
(* Least naturals, and where a scan stops.                                 *)

\* A set of naturals that is not empty has a least element.
LEMMA LeastNat ==
  ASSUME NEW S \in SUBSET Nat, S # {}
  PROVE  \E n \in S : \A m \in S : n <= m
<1> DEFINE R == OpToRel(<, Nat)
<1>1. IsWellFoundedOn(R, Nat)
  BY NatLessThanWellFounded
<1>2. PICK n \in S : \A m \in S : <<m, n>> \notin R
  <2> HIDE DEF R
  <2> QED BY <1>1, WFMin
<1>3. \A m \in S : ~(m < n)
  BY <1>2 DEF OpToRel
<1> QED BY <1>3

\* Min finds it.
LEMMA MinNat ==
  ASSUME NEW S \in SUBSET Nat, S # {}
  PROVE  Min(S) \in S
BY LeastNat DEF Min

\* Where the token list ends.
LEMMA EndIs ==
  ASSUME toks \in Seq(AllTokens)
  PROVE  Len(toks) \in Nat /\ End = Len(toks) + 1 /\ End \in Nat /\ End >= 1
BY LenProperties DEF End

\* Skip passes tokens of the kinds and stops at the first other.
LEMMA SkipStops ==
  ASSUME toks \in Seq(AllTokens), NEW i \in 1..End, NEW kinds
  PROVE  /\ Skip(i, kinds) \in i..End
         /\ Skip(i, kinds) = End \/ toks[Skip(i, kinds)] \notin kinds
         /\ \A k \in i..(Skip(i, kinds) - 1) : toks[k] \in kinds
<1>0. End \in Nat
  BY EndIs
<1> DEFINE S == {j \in i..End : j = End \/ toks[j] \notin kinds}
<1>1. PICK j \in S : \A m \in S : j <= m
  <2>1. S \in SUBSET Nat /\ End \in S
    BY <1>0
  <2> HIDE DEF S
  <2> QED BY <2>1, LeastNat
<1>2. \A k \in i..(j - 1) : toks[k] \in kinds
  <2> SUFFICES ASSUME NEW k \in i..(j - 1), toks[k] \notin kinds PROVE FALSE
    OBVIOUS
  <2>1. k \in S /\ ~(j <= k)
    BY <1>0
  <2> QED BY <1>1, <2>1
<1> QED BY <1>1, <1>2 DEF Skip

\* The position where a scan stops is the only one it can stop at.
LEMMA SkipIs ==
  ASSUME toks \in Seq(AllTokens), NEW i \in 1..End, NEW kinds, NEW j \in i..End,
         j = End \/ toks[j] \notin kinds, \A k \in i..(j - 1) : toks[k] \in kinds
  PROVE  Skip(i, kinds) = j
<1>0. End \in Nat
  BY EndIs
<1>1. PICK s \in i..End : /\ s = Skip(i, kinds) /\ (s = End \/ toks[s] \notin kinds)
                         /\ \A k \in i..(s - 1) : toks[k] \in kinds
  BY SkipStops
<1>2. ~(s < j)
  <2> SUFFICES ASSUME s < j PROVE FALSE
    OBVIOUS
  <2>1. s # End /\ s \in i..(j - 1)
    BY <1>0
  <2> QED BY <1>1, <2>1
<1>3. ~(j < s)
  <2> SUFFICES ASSUME j < s PROVE FALSE
    OBVIOUS
  <2>1. j # End /\ j \in i..(s - 1)
    BY <1>0
  <2> QED BY <1>1, <2>1
<1> QED BY <1>0, <1>1, <1>2, <1>3

\* Spaces and then comments are skipped together.
LEMMA SkipBoth ==
  ASSUME toks \in Seq(AllTokens), NEW i \in 1..End, NEW a \in i..End,
         \A k \in i..(a - 1) : toks[k] \in {"SPACE"},
         NEW b, b = Skip(a, {"COMMENT"}), Is(b, {")"})
  PROVE  Skip(i, {"SPACE", "COMMENT"}) = b
<1>0. End \in Nat /\ a \in 1..End
  BY EndIs
<1>1. b \in a..End /\ \A k \in a..(b - 1) : toks[k] \in {"COMMENT"}
  BY <1>0, SkipStops
<1>2. toks[b] \notin {"SPACE", "COMMENT"}
  BY DEF Is
<1>3. b \in i..End
  BY <1>0, <1>1
<1>4. ASSUME NEW k \in i..(b - 1) PROVE toks[k] \in {"SPACE", "COMMENT"}
  <2>1. k \in i..(a - 1) \/ k \in a..(b - 1)
    BY <1>0, <1>1
  <2> QED BY <1>1, <2>1
<1> QED BY <1>2, <1>3, <1>4, SkipIs

-----------------------------------------------------------------------------
(* The recursive functions are functions that satisfy their equations.     *)

Answers(f) == f = [k \in 1..End |-> ParseInner([m \in (k + 1)..End |-> f[m]], k)]

\* parseInner at one position, from what it answers further on.
LEMMA InnerSolved ==
  ASSUME toks \in Seq(AllTokens)
  PROVE  \E f : Answers(f) /\ \A i : Inner(i) = f[i]
<1>0. End \in Nat /\ End >= 1
  BY EndIs
<1> DEFINE Down(j) == \E f : f = [k \in j..End |-> ParseInner([m \in (k + 1)..End |-> f[m]], k)]
           T == {j \in 1..(End + 1) : Down(j)}
<1>1. End + 1 \in T
  <2>1. PICK f : f = [k \in (End + 1)..End |-> ParseInner([m \in (k + 1)..End |-> <<>>[m]], k)]
    OBVIOUS
  <2>2. (End + 1)..End = {}
    BY <1>0
  <2>3. f = [k \in (End + 1)..End |-> ParseInner([m \in (k + 1)..End |-> f[m]], k)]
    BY <2>1, <2>2
  <2> QED BY <1>0, <2>3
<1>2. PICK j \in T : \A m \in T : j <= m
  <2>1. T \in SUBSET Nat
    BY <1>0
  <2> HIDE DEF T
  <2> QED BY <1>1, <2>1, LeastNat
<1>3. j = 1
  <2> SUFFICES ASSUME j # 1 PROVE FALSE
    OBVIOUS
  <2>0. j \in 1..(End + 1) /\ Down(j)
    BY <1>2
  <2>1. PICK f : f = [k \in j..End |-> ParseInner([m \in (k + 1)..End |-> f[m]], k)]
    BY <2>0
  <2>2. PICK h \in Nat : h = j - 1
    BY <1>0, <2>0
  <2>3. h \in 1..(End + 1) /\ h <= End /\ ~(j <= h) /\ h + 1 = j
    BY <1>0, <2>0, <2>2
  <2>4. PICK x : x = ParseInner([m \in (h + 1)..End |-> f[m]], h)
    OBVIOUS
  <2> DEFINE g == [k \in h..End |-> IF k = h THEN x ELSE f[k]]
  <2>5. ASSUME NEW k \in h..End PROVE [m \in (k + 1)..End |-> g[m]] = [m \in (k + 1)..End |-> f[m]]
    <3>1. \A m \in (k + 1)..End : m \in h..End /\ m # h
      BY <1>0, <2>3
    <3> QED BY <3>1
  <2>6. ASSUME NEW k \in h..End PROVE g[k] = ParseInner([m \in (k + 1)..End |-> f[m]], k)
    <3>1. CASE k = h
      BY <2>4, <3>1
    <3>2. CASE k # h
      <4>1. k \in j..End
        BY <1>0, <2>3, <3>2
      <4> QED BY <2>1, <3>2, <4>1
    <3> QED BY <3>1, <3>2
  <2>7. g = [k \in h..End |-> ParseInner([m \in (k + 1)..End |-> f[m]], k)]
    BY <2>6
  <2>8. g = [k \in h..End |-> ParseInner([m \in (k + 1)..End |-> g[m]], k)]
    <3> HIDE DEF g
    <3> QED BY <2>5, <2>7
  <2>9. h \in T
    <3> HIDE DEF g
    <3> QED BY <2>3, <2>8
  <2> QED BY <1>2, <2>3, <2>9
<1>4. \E f : Answers(f)
  <2>1. Down(1)
    BY <1>2, <1>3
  <2> QED BY <2>1 DEF Answers
<1> DEFINE c == CHOOSE f : f = [k \in 1..End |-> ParseInner([m \in (k + 1)..End |-> f[m]], k)]
<1>5. c = [k \in 1..End |-> ParseInner([m \in (k + 1)..End |-> c[m]], k)]
  BY <1>4 DEF Answers
<1>6. \A i : Inner(i) = c[i]
  BY DEF Inner
<1> HIDE DEF c
<1> QED BY <1>5, <1>6 DEF Answers

Lines(inner, i, f) == f = [k \in i..End |-> CommaLine(inner, [m \in (k + 1)..End |-> f[m]], k)]

Lists(f, i, es) ==
  CASE ~(Is(i, {"NEWLINE"}) /\ Is(i + 1, {"INDENT"})) -> Ok(CommaList(es), i, i)
    [] Is(i, {"NEWLINE"}) /\ Is(i + 1, {"INDENT"}) /\ i + 2 = End ->
         Ok(CommaList(es), i + 1, i + 1)
    [] OTHER -> Then(f[i + 2], LAMBDA l : Ok(CommaList(es \o l.expr.parts), l.rem, l.delim))

\* The lines of a list, likewise (parseCommaList).
LEMMA LinesSolved ==
  ASSUME toks \in Seq(AllTokens), NEW inner, NEW i \in 1..End
  PROVE  \E f : Lines(inner, i, f) /\ \A es : CommaLines(inner, i, es) = Lists(f, i, es)
<1>0. End \in Nat /\ End >= 1
  BY EndIs
<1> DEFINE Down(j) == \E f : f = [k \in j..End |-> CommaLine(inner, [m \in (k + 1)..End |-> f[m]], k)]
           T == {j \in i..(End + 1) : Down(j)}
<1>1. End + 1 \in T
  <2>1. PICK f : f = [k \in (End + 1)..End |-> CommaLine(inner, [m \in (k + 1)..End |-> <<>>[m]], k)]
    OBVIOUS
  <2>2. (End + 1)..End = {}
    BY <1>0
  <2>3. f = [k \in (End + 1)..End |-> CommaLine(inner, [m \in (k + 1)..End |-> f[m]], k)]
    BY <2>1, <2>2
  <2> QED BY <1>0, <2>3
<1>2. PICK j \in T : \A m \in T : j <= m
  <2>1. T \in SUBSET Nat
    BY <1>0
  <2> HIDE DEF T
  <2> QED BY <1>1, <2>1, LeastNat
<1>3. j = i
  <2> SUFFICES ASSUME j # i PROVE FALSE
    OBVIOUS
  <2>0. j \in i..(End + 1) /\ Down(j)
    BY <1>2
  <2>1. PICK f : f = [k \in j..End |-> CommaLine(inner, [m \in (k + 1)..End |-> f[m]], k)]
    BY <2>0
  <2>2. PICK h \in Nat : h = j - 1
    BY <1>0, <2>0
  <2>3. h \in i..(End + 1) /\ h <= End /\ ~(j <= h) /\ h + 1 = j
    BY <1>0, <2>0, <2>2
  <2>4. PICK x : x = CommaLine(inner, [m \in (h + 1)..End |-> f[m]], h)
    OBVIOUS
  <2> DEFINE g == [k \in h..End |-> IF k = h THEN x ELSE f[k]]
  <2>5. ASSUME NEW k \in h..End PROVE [m \in (k + 1)..End |-> g[m]] = [m \in (k + 1)..End |-> f[m]]
    <3>1. \A m \in (k + 1)..End : m \in h..End /\ m # h
      BY <1>0, <2>3
    <3> QED BY <3>1
  <2>6. ASSUME NEW k \in h..End PROVE g[k] = CommaLine(inner, [m \in (k + 1)..End |-> f[m]], k)
    <3>1. CASE k = h
      BY <2>4, <3>1
    <3>2. CASE k # h
      <4>1. k \in j..End
        BY <1>0, <2>3, <3>2
      <4> QED BY <2>1, <3>2, <4>1
    <3> QED BY <3>1, <3>2
  <2>7. g = [k \in h..End |-> CommaLine(inner, [m \in (k + 1)..End |-> f[m]], k)]
    BY <2>6
  <2>8. g = [k \in h..End |-> CommaLine(inner, [m \in (k + 1)..End |-> g[m]], k)]
    <3> HIDE DEF g
    <3> QED BY <2>5, <2>7
  <2>9. h \in T
    <3> HIDE DEF g
    <3> QED BY <2>3, <2>8
  <2> QED BY <1>2, <2>3, <2>9
<1>4. Down(i)
  BY <1>2, <1>3
<1> DEFINE c == CHOOSE f : f = [k \in i..End |-> CommaLine(inner, [m \in (k + 1)..End |-> f[m]], k)]
<1>5. c = [k \in i..End |-> CommaLine(inner, [m \in (k + 1)..End |-> c[m]], k)]
  BY <1>4
<1>6. \A es : CommaLines(inner, i, es) = Lists(c, i, es)
  BY DEF CommaLines, Lists
<1> HIDE DEF c
<1>7. Lines(inner, i, c)
  BY <1>5 DEF Lines
<1> QED BY <1>6, <1>7

Values(i, e, f) ==
  f = [n \in 0..Len(toks) |-> IF n = 0 THEN [expr |-> e, at |-> i] ELSE Member(f[n - 1])]

\* The loop over the members behind a value, likewise.
LEMMA MembersSolved ==
  ASSUME toks \in Seq(AllTokens), NEW i, NEW e
  PROVE  \E f : Values(i, e, f) /\ Members(i, e) = f[Len(toks)]
<1>0. PICK L \in Nat : L = Len(toks)
  BY EndIs
<1> DEFINE v == [expr |-> e, at |-> i]
           UpTo(j) == \E f : f = [n \in 0..j |-> IF n = 0 THEN v ELSE Member(f[n - 1])]
           T == {j \in 0..L : UpTo(L - j)}
<1>1. L \in T
  <2>1. PICK f : f = [n \in {0} |-> v]
    OBVIOUS
  <2>2. 0..(L - L) = {0}
    BY <1>0
  <2>3. f = [n \in 0..(L - L) |-> IF n = 0 THEN v ELSE Member(f[n - 1])]
    <3> HIDE DEF v
    <3> QED BY <2>1, <2>2
  <2> QED BY <1>0, <2>3
<1>2. PICK j \in T : \A m \in T : j <= m
  <2>1. T \in SUBSET Nat
    BY <1>0
  <2> HIDE DEF T
  <2> QED BY <1>1, <2>1, LeastNat
<1>3. j = 0
  <2> SUFFICES ASSUME j # 0 PROVE FALSE
    OBVIOUS
  <2>0. j \in 0..L /\ UpTo(L - j)
    BY <1>2
  <2>a. L - j \in Nat
    BY <2>0
  <2>1. PICK p \in Nat : p = L - j
    BY <2>a
  <2>2. PICK f : f = [n \in 0..p |-> IF n = 0 THEN v ELSE Member(f[n - 1])]
    BY <2>0, <2>1
  <2>3. PICK h \in Nat : h = j - 1
    BY <1>0, <2>0
  <2>4. h \in 0..L /\ ~(j <= h) /\ L - h = p + 1
    BY <1>0, <2>0, <2>1, <2>3
  <2>5. PICK x : x = Member(f[p])
    OBVIOUS
  <2> DEFINE g == [n \in 0..(p + 1) |-> IF n = p + 1 THEN x ELSE f[n]]
  <2>6. ASSUME NEW n \in 0..(p + 1), n # 0 PROVE g[n - 1] = f[n - 1]
    <3>1. n - 1 \in 0..(p + 1) /\ n - 1 # p + 1
      <4> HIDE DEF g, v
      <4>1. p \in Nat /\ n \in 0..(p + 1) /\ n # 0
        BY <2>6
      <4> QED BY <4>1
    <3> QED BY <3>1
  <2>7. ASSUME NEW n \in 0..(p + 1) PROVE g[n] = IF n = 0 THEN v ELSE Member(f[n - 1])
    <3> HIDE DEF v
    <3>1. CASE n = p + 1
      <4>1. n # 0 /\ n - 1 = p
        BY <2>1, <3>1
      <4> QED BY <2>5, <3>1, <4>1
    <3>2. CASE n # p + 1
      <4>1. n \in 0..p
        BY <2>1, <3>2
      <4> QED BY <2>2, <3>2, <4>1
    <3> QED BY <3>1, <3>2
  <2>8. g = [n \in 0..(p + 1) |-> IF n = 0 THEN v ELSE Member(g[n - 1])]
    <3>1. g = [n \in 0..(p + 1) |-> IF n = 0 THEN v ELSE Member(f[n - 1])]
      BY <2>7
    <3> HIDE DEF g, v
    <3> QED BY <2>6, <3>1
  <2>9. h \in T
    <3>1. UpTo(p + 1)
      <4> HIDE DEF g, v
      <4> QED BY <2>8
    <3> HIDE DEF UpTo
    <3> QED BY <2>4, <3>1
  <2> QED BY <1>2, <2>4, <2>9
<1>4. UpTo(L)
  <2>1. L - 0 = L
    BY <1>0
  <2> HIDE DEF UpTo
  <2> QED BY <1>2, <1>3, <2>1
<1> DEFINE c == CHOOSE f : f = [n \in 0..L |-> IF n = 0 THEN v ELSE Member(f[n - 1])]
<1>5. c = [n \in 0..L |-> IF n = 0 THEN v ELSE Member(c[n - 1])]
  BY <1>4
<1>6. Members(i, e) = c[L]
  BY <1>0 DEF Members
<1> HIDE DEF c
<1>7. c = [n \in 0..Len(toks) |-> IF n = 0 THEN v ELSE Member(c[n - 1])]
  BY <1>0, <1>5
<1> QED BY <1>0, <1>6, <1>7 DEF Values

-----------------------------------------------------------------------------
(* Lists of expressions, and those with one missing.                       *)

List(s) == \E S : s \in Seq(S)
Holes(s) == \E k \in DOMAIN s : s[k] = Null

\* Lists of expressions, and when one of them is missing.
LEMMA ListEmpty == List(<<>>) /\ ~Holes(<<>>)
<1>1. <<>> \in Seq({}) /\ DOMAIN <<>> = {}
  BY EmptySeq
<1> QED BY <1>1 DEF List, Holes

\* A list of one.
LEMMA ListOne ==
  ASSUME NEW e
  PROVE  List(<<e>>) /\ (Holes(<<e>>) => e = Null)
<1>1. <<e>> \in Seq({e}) /\ DOMAIN <<e>> = {1} /\ <<e>>[1] = e
  OBVIOUS
<1> QED BY <1>1 DEF List, Holes

\* A list of two.
LEMMA ListTwo ==
  ASSUME NEW d, NEW e
  PROVE  List(<<d, e>>) /\ (Holes(<<d, e>>) => d = Null \/ e = Null)
<1>1. <<d, e>> \in Seq({d, e}) /\ DOMAIN <<d, e>> = {1, 2} /\ <<d, e>>[1] = d /\ <<d, e>>[2] = e
  OBVIOUS
<1> QED BY <1>1 DEF List, Holes

\* Two lists joined have a hole where one of them has.
LEMMA ListJoin ==
  ASSUME NEW s, NEW t, List(s), List(t)
  PROVE  List(s \o t) /\ (Holes(s \o t) => Holes(s) \/ Holes(t))
<1>1. PICK S, U : s \in Seq(S) /\ t \in Seq(U)
  BY DEF List
<1>2. PICK V : V = S \cup U
  OBVIOUS
<1>3. s \in Seq(V) /\ t \in Seq(V)
  <2>1. \A x : x \in Seq(S) => x \in Seq(S \cup U)
    OBVIOUS
  <2>2. \A x : x \in Seq(U) => x \in Seq(S \cup U)
    OBVIOUS
  <2> QED BY <1>1, <1>2, <2>1, <2>2
<1> DEFINE w == s \o t
<1>4. /\ w \in Seq(V) /\ Len(w) = Len(s) + Len(t)
      /\ \A k \in 1..(Len(s) + Len(t)) : w[k] = IF k <= Len(s) THEN s[k] ELSE t[k - Len(s)]
  BY <1>3, ConcatProperties
<1> HIDE DEF w
<1>5. Len(s) \in Nat /\ Len(t) \in Nat /\ DOMAIN s = 1..Len(s) /\ DOMAIN t = 1..Len(t)
      /\ DOMAIN w = 1..(Len(s) + Len(t))
  BY <1>3, <1>4, LenProperties
<1>6. ASSUME Holes(w) PROVE Holes(s) \/ Holes(t)
  <2>1. PICK k \in 1..(Len(s) + Len(t)) : w[k] = Null
    BY <1>5, <1>6 DEF Holes
  <2>2. CASE k <= Len(s)
    <3>1. k \in DOMAIN s /\ s[k] = Null
      BY <1>4, <1>5, <2>1, <2>2
    <3> QED BY <3>1 DEF Holes
  <2>3. CASE ~(k <= Len(s))
    <3>1. k - Len(s) \in DOMAIN t
      BY <1>5, <2>3
    <3>2. t[k - Len(s)] = Null
      BY <1>4, <2>1, <2>3
    <3> QED BY <3>1, <3>2 DEF Holes
  <2> QED BY <2>2, <2>3
<1>7. List(w)
  BY <1>4 DEF List
<1> QED BY <1>6, <1>7 DEF w

-----------------------------------------------------------------------------
(* What the answer of a parse function that starts at i promises.          *)

LooseEnd == Last(toks) \in {"SPACE", "NEWLINE"}
LooseComma == \E i \in Occurrences({"comma"}) : Is(Skip(i + 1, {"SPACE", "COMMENT"}), {")"})

\* Where an expression stops that is missing.
Shut(d) == d = End \/ Is(d, CloseBracket \cup {"DEINDENT"})

\* The elements of a list that stops at d.
Elems(es, d) == List(es) /\ (Holes(es) => Shut(d) /\ (Is(d, {")"}) => LooseComma))

Formed(e, d) ==
  /\ e.tag = "null" => Shut(d)
  /\ e.tag = "tuple" => List(e.parts) /\ (Holes(e.parts) => LooseComma)
  /\ e.tag = "comma" => Elems(e.parts, d)

Sound(r, i) ==
  /\ r.kind \in {"ok", "error", "behind", "null"}
  /\ r.kind = "behind" => LooseEnd
  /\ r.kind = "null" => LooseComma
  /\ r.kind = "ok" => r.rem \in i..End /\ r.delim \in i..End /\ Formed(r.expr, r.delim)

\* That of parseInner.
Answered(r, i) ==
  /\ Sound(r, i)
  /\ r.kind = "ok" => /\ i < End => r.rem > i
                      /\ r.expr.tag = "null" => r.delim = Skip(i, {"COMMENT"})

\* All of those from i on.
From(inner, i) == \A k \in i..End : Answered(inner[k], k)

\* A value that another expression may follow.
Value(e) ==
  /\ e.tag \in {"leaf", "access", "tuple"}
  /\ e.tag = "tuple" => List(e.parts) /\ (Holes(e.parts) => LooseComma)

\* An error is always a sound answer; the two faults are where they may be.
LEMMA Failures ==
  /\ \A i : Sound(Error, i)
  /\ LooseEnd => \A i : Sound(ReadBehind, i)
  /\ LooseComma => \A i : Sound(NullRead, i)
BY DEF Sound, Error, ReadBehind, NullRead, Failed

\* An expression is, when it stops in range and is formed for where it stops.
LEMMA AnswerSound ==
  ASSUME NEW i, NEW e, NEW rem \in i..End, NEW delim \in i..End, Formed(e, delim)
  PROVE  Sound(Ok(e, rem, delim), i)
BY DEF Sound, Ok

\* An answer that is passed on.
LEMMA PassedOn ==
  ASSUME toks \in Seq(AllTokens), NEW i \in 1..End, NEW k \in i..End, NEW r, Sound(r, k)
  PROVE  Sound(r, i)
<1>1. \A x \in k..End : x \in i..End
  BY EndIs
<1> QED BY <1>1 DEF Sound

\* The last token.
LEMMA LastIs ==
  ASSUME toks \in Seq(AllTokens), NEW k \in 1..End, k + 1 = End
  PROVE  Last(toks) = toks[k]
<1>1. k = Len(toks)
  BY EndIs
<1> QED BY <1>1 DEF Last

\* A position of a token is one, and so is the next.
LEMMA IsInside ==
  ASSUME toks \in Seq(AllTokens), NEW i \in 1..End, NEW kinds, Is(i, kinds)
  PROVE  i < End /\ i # End /\ toks[i] \in kinds /\ i + 1 \in 1..End /\ i \in Nat /\ i \in 1..Len(toks)
BY EndIs DEF Is

\* A line end does not stop a missing expression.
LEMMA NotShut ==
  ASSUME toks \in Seq(AllTokens), NEW i \in 1..End, Is(i, {"NEWLINE"})
  PROVE  ~Shut(i)
<1>1. i # End /\ toks[i] = "NEWLINE"
  BY IsInside
<1> QED BY <1>1 DEF Shut, Is, CloseBracket

-----------------------------------------------------------------------------
(* The parse functions, one by one.                                        *)

\* parseParenInner: it stops behind its ")" with a tuple, whose elements are
\* missing only behind a comma.
LEMMA ParenInnerSound ==
  ASSUME toks \in Seq(AllTokens), NEW i \in 1..End, NEW inner, From(inner, i)
  PROVE  LET p == ParenInner(inner, i) IN
         /\ Sound(p, i)
         /\ p.kind = "ok" => /\ Is(p.delim, {")"}) /\ p.rem = p.delim + 1
                             /\ p.expr.tag = "tuple"
<1>0. End \in Nat
  BY EndIs
<1>1. PICK j \in i..End : j = SkipWs(i)
  BY SkipStops DEF SkipWs
<1>2. PICK r : r = inner[j]
  OBVIOUS
<1>3. Sound(r, j) /\ Sound(r, i)
  BY <1>2, PassedOn DEF From, Answered
<1>4. CASE j = End
  <2>1. ParenInner(inner, i) = Error
    BY <1>1, <1>4 DEF ParenInner
  <2> QED BY <2>1, Failures DEF Error, Failed
<1>5. CASE j # End /\ r.kind # "ok"
  <2>1. ParenInner(inner, i) = r
    BY <1>1, <1>2, <1>5 DEF ParenInner, Then
  <2> QED BY <1>3, <1>5, <2>1
<1>6. CASE j # End /\ r.kind = "ok"
  <2>1. ParenInner(inner, i) = IF ~Is(r.delim, {")"}) THEN Unclosed(r.delim)
                              ELSE Ok(Tuple(Elements(r.expr)), r.delim + 1, r.delim)
    BY <1>1, <1>2, <1>6 DEF ParenInner, Then
  <2>2. r.delim \in i..End /\ Formed(r.expr, r.delim)
    BY <1>3, <1>6 DEF Sound
  <2>3. CASE ~Is(r.delim, {")"})
    <3>1. ParenInner(inner, i) = Error
      BY <2>1, <2>3 DEF Unclosed
    <3> QED BY <3>1, Failures DEF Error, Failed
  <2>4. CASE Is(r.delim, {")"})
    <3>1. r.delim + 1 \in i..End
      <4>1. PICK d \in i..End : d = r.delim
        BY <2>2
      <4>2. d < End
        BY <2>4, <4>1 DEF Is
      <4> QED BY <1>0, <4>1, <4>2
    <3>2. List(Elements(r.expr)) /\ (Holes(Elements(r.expr)) => LooseComma)
      <4>1. CASE r.expr.tag = "comma"
        BY <2>2, <2>4, <4>1 DEF Formed, Elements, Elems
      <4>2. CASE r.expr.tag = "tuple"
        BY <2>2, <4>2 DEF Formed, Elements
      <4>3. CASE r.expr.tag = "null"
        BY <4>3, ListEmpty DEF Elements
      <4>4. CASE r.expr.tag \notin {"comma", "tuple", "null"}
        <5>1. Elements(r.expr) = <<r.expr>> /\ r.expr # Null
          BY <4>4 DEF Elements, Null
        <5> QED BY <5>1, ListOne
      <4> QED BY <4>1, <4>2, <4>3, <4>4
    <3>3. PICK e : e = Tuple(Elements(r.expr))
      OBVIOUS
    <3>4. e.tag = "tuple" /\ Formed(e, r.delim)
      BY <3>2, <3>3 DEF Tuple, Formed, Expr
    <3>5. ParenInner(inner, i) = Ok(e, r.delim + 1, r.delim)
      BY <2>1, <2>4, <3>3
    <3>6. Sound(Ok(e, r.delim + 1, r.delim), i)
      BY <2>2, <3>1, <3>4, AnswerSound
    <3> QED BY <2>4, <3>4, <3>5, <3>6 DEF Ok
  <2> QED BY <2>3, <2>4
<1> QED BY <1>4, <1>5, <1>6

\* parseFnDef's body: it reads behind the last token only when that is a NEWLINE.
LEMMA FnBodySound ==
  ASSUME toks \in Seq(AllTokens), NEW i \in 1..End, NEW inner, From(inner, i)
  PROVE  Sound(FnBody(inner, i), i)
<1>0. End \in Nat /\ i \in i..End
  BY EndIs
<1>1. CASE ~Is(i, {"NEWLINE"})
  <2>1. FnBody(inner, i) = inner[i]
    BY <1>1 DEF FnBody
  <2> QED BY <1>0, <2>1 DEF From, Answered
<1>2. CASE Is(i, {"NEWLINE"})
  <2>1. i + 1 \in 1..End /\ i + 1 \in i..End /\ toks[i] = "NEWLINE"
    BY <1>0, <1>2, IsInside
  <2>2. CASE i + 1 = End
    <3>1. LooseEnd
      BY <2>1, <2>2, LastIs DEF LooseEnd
    <3> QED BY <1>2, <2>2, <3>1, Failures DEF FnBody
  <2>3. CASE i + 1 # End /\ ~Is(i + 1, {"INDENT"})
    BY <1>2, <2>3, Failures DEF FnBody
  <2>4. CASE i + 1 # End /\ Is(i + 1, {"INDENT"})
    <3>1. FnBody(inner, i) = inner[i + 1]
      BY <1>2, <2>4 DEF FnBody
    <3>2. Sound(inner[i + 1], i + 1)
      BY <2>1 DEF From, Answered
    <3> QED BY <2>1, <3>1, <3>2, PassedOn
  <2> QED BY <2>2, <2>3, <2>4
<1> QED BY <1>1, <1>2

\* What holds of all positions from i on holds of those from k on.
LEMMA FromLater ==
  ASSUME toks \in Seq(AllTokens), NEW i \in 1..End, NEW k \in i..End, NEW inner, From(inner, i)
  PROVE  From(inner, k)
<1>1. \A m \in k..End : m \in i..End
  BY EndIs
<1> QED BY <1>1 DEF From

\* parseFnDef: the parameter that is missing was behind a comma.
LEMMA FnDefSound ==
  ASSUME toks \in Seq(AllTokens), NEW i \in 1..End, NEW inner, From(inner, i),
         NEW name, NEW params, List(params), Holes(params) => LooseComma
  PROVE  Sound(FnDef(inner, name, params, i), i)
<1>0. End \in Nat
  BY EndIs
<1>1. PICK eq \in i..End : eq = SkipWs(i)
  BY SkipStops DEF SkipWs
<1>2. PICK bad : bad = {k \in DOMAIN params : ~IsParam(params[k])}
  OBVIOUS
<1>3. CASE ~Is(eq, {"="})
  BY <1>1, <1>3, Failures DEF FnDef
<1>4. CASE Is(eq, {"="}) /\ bad # {}
  <2>1. FnDef(inner, name, params, i) = IF params[Min(bad)] = Null THEN NullRead ELSE Error
    BY <1>1, <1>2, <1>4 DEF FnDef
  <2>2. bad \in SUBSET Nat
    <3>1. PICK S : params \in Seq(S)
      BY DEF List
    <3>2. DOMAIN params = 1..Len(params)
      BY <3>1, LenProperties
    <3> QED BY <1>2, <3>2
  <2>3. Min(bad) \in bad
    BY <1>4, <2>2, MinNat
  <2>4. params[Min(bad)] = Null => LooseComma
    BY <1>2, <2>3 DEF Holes
  <2> QED BY <2>1, <2>4, Failures
<1>5. CASE Is(eq, {"="}) /\ bad = {}
  <2>1. eq \in 1..End /\ eq + 1 \in 1..End
    <3>1. eq \in 1..End
      BY <1>0
    <3> QED BY <1>5, <3>1, IsInside
  <2>2. PICK k \in (eq + 1)..End : k = SkipWs(eq + 1)
    BY <2>1, SkipStops DEF SkipWs
  <2>3. k \in i..End /\ k \in 1..End
    BY <1>0, <2>1, <2>2
  <2>4. PICK r : r = FnBody(inner, k)
    OBVIOUS
  <2>5. From(inner, k)
    BY <2>3, FromLater
  <2>6. Sound(r, i) /\ Sound(r, k)
    BY <2>3, <2>4, <2>5, FnBodySound, PassedOn
  <2>7. FnDef(inner, name, params, i) =
          IF k = End THEN Error
          ELSE IF r.kind = "ok" THEN Ok(FnDefExpr(name, params, r.expr), Behind(r.delim), r.delim) ELSE r
    BY <1>1, <1>2, <1>5, <2>2, <2>4 DEF FnDef, Then
  <2>8. CASE k = End
    BY <2>7, <2>8, Failures
  <2>9. CASE k # End /\ r.kind # "ok"
    BY <2>6, <2>7, <2>9
  <2>10. CASE k # End /\ r.kind = "ok"
    <3>1. PICK d \in i..End : d = r.delim
      BY <2>6, <2>10 DEF Sound
    <3>2. Behind(d) \in i..End
      BY <1>0, <3>1 DEF Behind
    <3>3. Formed(FnDefExpr(name, params, r.expr), d)
      BY DEF Formed, FnDefExpr, Expr
    <3>4. Sound(Ok(FnDefExpr(name, params, r.expr), Behind(d), d), i)
      BY <3>2, <3>3, AnswerSound
    <3> QED BY <2>7, <2>10, <3>1, <3>4
  <2> QED BY <2>8, <2>9, <2>10
<1> QED BY <1>3, <1>4, <1>5

\* parseBinop: it reads behind the last token only when that is a SPACE.
LEMMA BinopSound ==
  ASSUME toks \in Seq(AllTokens), NEW i \in 1..End, NEW inner, From(inner, i), NEW lhs, i < End
  PROVE  Sound(Binop(inner, i, lhs), i)
<1>0. End \in Nat /\ i + 1 \in 1..End
  BY EndIs
<1>1. PICK f \in (i + 1)..End : /\ f = SkipWs(i + 1) /\ \A k \in (i + 1)..(f - 1) : toks[k] \in {"SPACE"}
  BY <1>0, SkipStops DEF SkipWs
<1>2. CASE i + 1 = End \/ toks[i] \notin BinaryOps
  BY <1>2, Failures DEF Binop
<1>3. CASE ~(i + 1 = End \/ toks[i] \notin BinaryOps) /\ f = End
  <2>1. i + 1 < End /\ toks[i] \in BinaryOps
    BY <1>0, <1>3
  <2>2. Binop(inner, i, lhs) = ReadBehind
    <3>1. i + 1 \in (i + 1)..(f - 1)
      BY <1>0, <1>3, <2>1
    <3>2. ~Is(i + 1, OpenBracket)
      BY <1>1, <3>1 DEF Is, OpenBracket
    <3>3. ~Is(f, {"NEWLINE"} \cup CloseBracket)
      BY <1>0, <1>3 DEF Is
    <3> QED BY <1>1, <1>3, <2>1, <3>2, <3>3 DEF Binop
  <2>3. PICK k \in Nat : k = End - 1
    BY <2>1, <1>0
  <2>4. k \in (i + 1)..(f - 1) /\ k \in 1..End /\ k + 1 = End
    BY <1>0, <1>3, <2>1, <2>3
  <2>5. LooseEnd
    BY <1>1, <2>4, LastIs DEF LooseEnd
  <2> QED BY <2>2, <2>5, Failures
<1>4. CASE ~(i + 1 = End \/ toks[i] \notin BinaryOps) /\ f # End
  <2>1. PICK r : r = inner[f]
    OBVIOUS
  <2>2. f \in i..End /\ i \in Nat
    BY <1>0
  <2>3. Sound(r, f) /\ Sound(r, i)
    BY <2>1, <2>2, PassedOn DEF From, Answered
  <2>4. Binop(inner, i, lhs) \in
          {Error, IF r.kind = "ok" THEN Ok(Binary(toks[i], lhs, r.expr), r.rem, r.delim) ELSE r}
    BY <1>1, <1>4, <2>1 DEF Binop, Then
  <2>5. ASSUME r.kind = "ok" PROVE Sound(Ok(Binary(toks[i], lhs, r.expr), r.rem, r.delim), i)
    <3>1. r.rem \in i..End /\ r.delim \in i..End
      BY <2>3, <2>5 DEF Sound
    <3>2. Formed(Binary(toks[i], lhs, r.expr), r.delim)
      <4>1. Binary(toks[i], lhs, r.expr).tag = "binary"
        BY DEF Binary, BinaryExpr
      <4> QED BY <4>1 DEF Formed
    <3> QED BY <3>1, <3>2, AnswerSound
  <2> QED BY <2>3, <2>4, <2>5, Failures
<1> QED BY <1>2, <1>3, <1>4

\* parseUnaryOp.
LEMMA UnaryOpSound ==
  ASSUME toks \in Seq(AllTokens), NEW i \in 1..End, NEW inner, i < End, From(inner, i + 1)
  PROVE  /\ Sound(UnaryOp(inner, i), i + 1)
         /\ UnaryOp(inner, i).kind = "ok" => UnaryOp(inner, i).expr.tag # "null"
<1>0. End \in Nat /\ i + 1 \in 1..End
  BY EndIs
<1>1. PICK f \in (i + 1)..End : f = SkipWs(i + 1)
  BY <1>0, SkipStops DEF SkipWs
<1>2. PICK r : r = inner[f]
  OBVIOUS
<1>3. Sound(r, i + 1)
  BY <1>0, <1>2, PassedOn DEF From, Answered
<1>4. UnaryOp(inner, i) \in
        {Error, IF r.kind = "ok" THEN Ok(Unary(toks[i], r.expr), r.rem, r.delim) ELSE r}
  BY <1>1, <1>2 DEF UnaryOp, Then
<1>5. CASE UnaryOp(inner, i) = Error
  BY <1>5, Failures DEF Error, Failed
<1>6. CASE UnaryOp(inner, i) # Error /\ r.kind # "ok"
  BY <1>3, <1>4, <1>6
<1>7. CASE UnaryOp(inner, i) # Error /\ r.kind = "ok"
  <2>1. UnaryOp(inner, i) = Ok(Unary(toks[i], r.expr), r.rem, r.delim)
    BY <1>4, <1>7
  <2>2. r.rem \in (i + 1)..End /\ r.delim \in (i + 1)..End
    BY <1>3, <1>7 DEF Sound
  <2>3. Unary(toks[i], r.expr).tag \in {"binary", "unary"}
    BY DEF Unary, BinaryExpr, UnaryExpr
  <2>4. Formed(Unary(toks[i], r.expr), r.delim)
    BY <2>3 DEF Formed
  <2>5. Sound(Ok(Unary(toks[i], r.expr), r.rem, r.delim), i + 1)
    BY <2>2, <2>4, AnswerSound
  <2> QED BY <2>1, <2>3, <2>5 DEF Ok
<1> QED BY <1>5, <1>6, <1>7

\* A comma with nothing behind it but a ")".
LEMMA CommaIsLoose ==
  ASSUME toks \in Seq(AllTokens), NEW i \in 1..End, Is(i, {"comma"}), NEW a \in (i + 1)..End,
         \A k \in (i + 1)..(a - 1) : toks[k] \in {"SPACE"}, Is(Skip(a, {"COMMENT"}), {")"})
  PROVE  LooseComma
<1>1. i + 1 \in 1..End /\ toks[i] = "comma" /\ i \in 1..Len(toks)
  <2>1. toks[i] \in {"comma"} /\ i + 1 \in 1..End /\ i \in 1..Len(toks)
    BY IsInside
  <2> QED BY <2>1
<1>2. Skip(i + 1, {"SPACE", "COMMENT"}) = Skip(a, {"COMMENT"})
  BY <1>1, SkipBoth
<1> QED BY <1>1, <1>2 DEF LooseComma, Occurrences

\* A line that continues a list.
LEMMA CommaLineSound ==
  ASSUME toks \in Seq(AllTokens), NEW i \in 1..End, NEW inner, From(inner, i), i = End => LooseEnd,
         NEW line,
         \A k \in (i + 1)..End : (k = End => LooseEnd) =>
           Sound(line[k], k) /\ (line[k].kind = "ok" => line[k].expr.tag = "comma")
  PROVE  LET c == CommaLine(inner, line, i) IN
         Sound(c, i) /\ (c.kind = "ok" => c.expr.tag = "comma")
<1>0. End \in Nat
  BY EndIs
<1> DEFINE c == CommaLine(inner, line, i)
<1>1. CASE i = End
  <2>1. c = ReadBehind
    BY <1>1 DEF CommaLine
  <2> QED BY <1>1, <2>1, Failures DEF ReadBehind, Failed
<1>2. CASE i # End /\ ~Is(i, {"comma"})
  <2>1. c = Error
    BY <1>2 DEF CommaLine
  <2> QED BY <2>1, Failures DEF Error, Failed
<1>3. CASE i # End /\ Is(i, {"comma"})
  <2>1. i + 1 \in 1..End /\ i + 1 \in i..End /\ i + 1 \in (i + 1)..End
    <3>1. i + 1 \in 1..End
      BY <1>3, IsInside
    <3> QED BY <1>0, <3>1
  <2>2. PICK r : r = inner[i + 1]
    OBVIOUS
  <2>3. Answered(r, i + 1) /\ Sound(r, i + 1) /\ Sound(r, i)
    BY <2>1, <2>2, PassedOn DEF From, Answered
  <2>4. PICK es : es = IF r.expr.tag = "comma" THEN r.expr.parts ELSE <<r.expr>>
    OBVIOUS
  <2>5. c = IF r.kind = "ok"
            THEN IF ~Is(r.delim, {"NEWLINE"}) THEN Ok(CommaList(es), r.delim, r.delim)
                 ELSE Then(line[r.delim + 1], LAMBDA l : Ok(CommaList(es \o l.expr.parts), l.rem, l.delim))
            ELSE r
    BY <1>3, <2>2, <2>4 DEF CommaLine, Then
  <2>6. CASE r.kind # "ok"
    BY <2>3, <2>5, <2>6
  <2>7. CASE r.kind = "ok"
    <3>1. PICK d \in (i + 1)..End : d = r.delim
      BY <2>3, <2>7 DEF Sound
    <3>2. Formed(r.expr, d)
      BY <2>3, <2>7, <3>1 DEF Sound
    <3>3. Elems(es, d)
      <4>1. CASE r.expr.tag = "comma"
        BY <2>4, <3>2, <4>1 DEF Formed
      <4>2. CASE r.expr.tag # "comma"
        <5>1. es = <<r.expr>>
          BY <2>4, <4>2
        <5>2. ASSUME Holes(es) PROVE Shut(d) /\ (Is(d, {")"}) => LooseComma)
          <6>1. r.expr.tag = "null"
            BY <5>1, <5>2, ListOne DEF Null
          <6>2. d = Skip(i + 1, {"COMMENT"})
            BY <2>3, <2>7, <3>1, <6>1 DEF Answered
          <6>3. Is(d, {")"}) => LooseComma
            <7>1. PICK a : a = i + 1
              OBVIOUS
            <7>2. a \in (i + 1)..End /\ d = Skip(a, {"COMMENT"})
              BY <2>1, <6>2, <7>1
            <7>3. \A k \in (i + 1)..(a - 1) : toks[k] \in {"SPACE"}
              BY <1>0, <7>1
            <7> QED BY <1>3, <7>2, <7>3, CommaIsLoose
          <6> QED BY <3>2, <6>1, <6>3 DEF Formed
        <5> QED BY <5>1, <5>2, ListOne DEF Elems
      <4> QED BY <4>1, <4>2
    <3>4. d \in i..End /\ d \in 1..End
      BY <1>0, <3>1
    <3>5. CASE ~Is(d, {"NEWLINE"})
      <4>1. c = Ok(CommaList(es), d, d)
        BY <2>5, <2>7, <3>1, <3>5
      <4>2. Formed(CommaList(es), d) /\ CommaList(es).tag = "comma"
        BY <3>3 DEF Formed, CommaList, Expr
      <4>3. Sound(Ok(CommaList(es), d, d), i)
        BY <3>4, <4>2, AnswerSound
      <4> QED BY <4>1, <4>2, <4>3 DEF Ok
    <3>6. CASE Is(d, {"NEWLINE"})
      <4>1. PICK l : l = line[d + 1]
        OBVIOUS
      <4>2. c = IF l.kind = "ok" THEN Ok(CommaList(es \o l.expr.parts), l.rem, l.delim) ELSE l
        BY <2>5, <2>7, <3>1, <3>6, <4>1 DEF Then
      <4>3. d + 1 \in (i + 1)..End /\ d + 1 \in i..End /\ (d + 1 = End => LooseEnd)
        <5>1. d + 1 \in 1..End /\ toks[d] \in {"NEWLINE"}
          BY <3>4, <3>6, IsInside
        <5>2. d + 1 = End => LooseEnd
          BY <3>4, <5>1, LastIs DEF LooseEnd
        <5> QED BY <1>0, <3>1, <5>1, <5>2
      <4>4. Sound(l, d + 1) /\ Sound(l, i) /\ (l.kind = "ok" => l.expr.tag = "comma")
        BY <4>1, <4>3, PassedOn
      <4>5. CASE l.kind # "ok"
        BY <4>2, <4>4, <4>5
      <4>6. CASE l.kind = "ok"
        <5>1. l.rem \in i..End /\ l.delim \in i..End /\ Elems(l.expr.parts, l.delim)
          BY <4>4, <4>6 DEF Sound, Formed
        <5>2. ~Shut(d)
          BY <3>4, <3>6, NotShut
        <5>3. Elems(es \o l.expr.parts, l.delim)
          BY <3>3, <5>1, <5>2, ListJoin DEF Elems
        <5>4. Formed(CommaList(es \o l.expr.parts), l.delim) /\ CommaList(es \o l.expr.parts).tag = "comma"
          BY <5>3 DEF Formed, CommaList, Expr
        <5>5. Sound(Ok(CommaList(es \o l.expr.parts), l.rem, l.delim), i)
          BY <5>1, <5>4, AnswerSound
        <5> QED BY <4>2, <4>6, <5>4, <5>5 DEF Ok
      <4> QED BY <4>5, <4>6
    <3> QED BY <3>5, <3>6
  <2> QED BY <2>6, <2>7
<1> QED BY <1>1, <1>2, <1>3

\* All of them (parseCommaList).
LEMMA CommaLinesSound ==
  ASSUME toks \in Seq(AllTokens), NEW i \in 1..End, NEW inner, From(inner, i), NEW es, Elems(es, i)
  PROVE  Sound(CommaLines(inner, i, es), i)
<1>0. End \in Nat /\ i \in i..End
  BY EndIs
<1>1. PICK f : Lines(inner, i, f) /\ CommaLines(inner, i, es) = Lists(f, i, es)
  BY LinesSolved
<1> DEFINE Fine(k) == (k = End => LooseEnd) => Sound(f[k], k) /\ (f[k].kind = "ok" => f[k].expr.tag = "comma")
<1>2. \A k \in i..End : Fine(k)
  <2> SUFFICES ASSUME NEW b \in i..End, ~Fine(b) PROVE FALSE
    OBVIOUS
  <2> DEFINE T == {n \in 0..(End - i) : ~Fine(End - n)}
  <2>1. End - b \in T
    <3>1. End - (End - b) = b /\ End - b \in 0..(End - i)
      BY <1>0
    <3> HIDE DEF Fine
    <3> QED BY <3>1
  <2>2. PICK n \in T : \A m \in T : n <= m
    <3>1. T \in SUBSET Nat
      BY <1>0
    <3> HIDE DEF T
    <3> QED BY <2>1, <3>1, LeastNat
  <2>3. PICK k \in Nat : k = End - n
    BY <1>0, <2>2
  <2>4. k \in i..End /\ k \in 1..End /\ ~Fine(k)
    <3>1. n \in 0..(End - i) /\ ~Fine(End - n)
      BY <2>2
    <3> HIDE DEF Fine
    <3> QED BY <1>0, <2>3, <3>1
  <2>5. \A m \in (k + 1)..End : Fine(m)
    <3> SUFFICES ASSUME NEW m \in (k + 1)..End, ~Fine(m) PROVE FALSE
      OBVIOUS
    <3> HIDE DEF Fine
    <3>1. End - (End - m) = m /\ End - m \in 0..(End - i) /\ ~(n <= End - m)
      BY <1>0, <2>2, <2>3, <2>4
    <3>2. End - m \in T
      BY <3>1
    <3> QED BY <2>2, <3>1, <3>2
  <2>6. PICK line : line = [m \in (k + 1)..End |-> f[m]]
    OBVIOUS
  <2>7. f[k] = CommaLine(inner, line, k)
    BY <1>1, <2>4, <2>6 DEF Lines
  <2>8. \A m \in (k + 1)..End : (m = End => LooseEnd) =>
           Sound(line[m], m) /\ (line[m].kind = "ok" => line[m].expr.tag = "comma")
    BY <2>5, <2>6
  <2>9. From(inner, k)
    BY <2>4, FromLater
  <2>10. Fine(k)
    BY <2>4, <2>7, <2>8, <2>9, CommaLineSound
  <2> QED BY <2>4, <2>10
<1> HIDE DEF Fine
<1>3. CASE ~(Is(i, {"NEWLINE"}) /\ Is(i + 1, {"INDENT"}))
  <2>1. CommaLines(inner, i, es) = Ok(CommaList(es), i, i)
    BY <1>1, <1>3 DEF Lists
  <2>2. Formed(CommaList(es), i)
    BY DEF Formed, CommaList, Expr
  <2> QED BY <1>0, <2>1, <2>2, AnswerSound
<1>4. CASE Is(i, {"NEWLINE"}) /\ Is(i + 1, {"INDENT"})
  <2>1. i + 1 \in 1..End /\ i + 2 \in 1..End /\ i + 1 \in i..End /\ i + 2 \in i..End
    <3>1. i + 1 \in 1..End
      BY <1>4, IsInside
    <3>2. i + 1 + 1 \in 1..End
      BY <1>4, <3>1, IsInside
    <3> QED BY <1>0, <3>1, <3>2
  <2>2. ~Holes(es) /\ List(es)
    BY <1>4, NotShut DEF Elems
  <2>3. CASE i + 2 = End
    <3>1. CommaLines(inner, i, es) = Ok(CommaList(es), i + 1, i + 1)
      BY <1>1, <1>4, <2>3 DEF Lists
    <3>2. Formed(CommaList(es), i + 1)
      BY <2>2 DEF Formed, CommaList, Elems, Expr
    <3> QED BY <2>1, <3>1, <3>2, AnswerSound
  <2>4. CASE i + 2 # End
    <3>1. PICK l : l = f[i + 2]
      OBVIOUS
    <3>2. CommaLines(inner, i, es) =
            IF l.kind = "ok" THEN Ok(CommaList(es \o l.expr.parts), l.rem, l.delim) ELSE l
      BY <1>1, <1>4, <2>4, <3>1 DEF Lists, Then
    <3>3. Sound(l, i + 2) /\ Sound(l, i) /\ (l.kind = "ok" => l.expr.tag = "comma")
      BY <1>2, <2>1, <2>4, <3>1, PassedOn DEF Fine
    <3>4. CASE l.kind # "ok"
      BY <3>2, <3>3, <3>4
    <3>5. CASE l.kind = "ok"
      <4>1. l.rem \in i..End /\ l.delim \in i..End /\ Elems(l.expr.parts, l.delim)
        BY <3>3, <3>5 DEF Sound, Formed
      <4>2. Elems(es \o l.expr.parts, l.delim)
        BY <2>2, <4>1, ListJoin DEF Elems
      <4>3. Formed(CommaList(es \o l.expr.parts), l.delim)
        BY <4>2 DEF Formed, CommaList, Expr
      <4> QED BY <3>2, <3>5, <4>1, <4>3, AnswerSound
    <3> QED BY <3>4, <3>5
  <2> QED BY <2>3, <2>4
<1> QED BY <1>3, <1>4

\* A value is not missing.
LEMMA ValueIsThere ==
  ASSUME NEW e, Value(e)
  PROVE  e # Null
<1>1. Null.tag = "null"
  BY DEF Null
<1>2. e.tag # "null"
  BY DEF Value
<1> QED BY <1>1, <1>2

\* parseCommaList, called behind a comma: an element that is missing has only
\* spaces and comments between its comma and the ")".
LEMMA CommaListFromSound ==
  ASSUME toks \in Seq(AllTokens), NEW b \in 1..End, NEW inner, From(inner, b),
         \E i \in 1..End : i + 1 = b /\ Is(i, {"comma"}),
         NEW head, Value(head)
  PROVE  Sound(CommaListFrom(inner, b, head), b)
<1>0. End \in Nat /\ b \in 1..End /\ b \in Nat
  <2>1. End \in Nat
    BY EndIs
  <2> QED BY <2>1
<1>1. PICK a \in b..End : /\ a = SkipWs(b) /\ \A k \in b..(a - 1) : toks[k] \in {"SPACE"}
  BY <1>0, SkipStops DEF SkipWs
<1>2. PICK r : r = inner[a]
  OBVIOUS
<1>a. a \in 1..End
  BY <1>0
<1>b. Answered(r, a) /\ Sound(r, a)
  BY <1>2 DEF From, Answered
<1>3. Answered(r, a) /\ Sound(r, b) /\ a \in 1..End
  BY <1>0, <1>a, <1>b, PassedOn
<1>4. CommaListFrom(inner, b, head) =
        IF a = End THEN Error
        ELSE IF r.kind = "ok" THEN CommaLines(inner, r.delim, JoinTail(head, r.expr)) ELSE r
  BY <1>1, <1>2 DEF CommaListFrom, Then
<1>5. CASE a = End
  BY <1>4, <1>5, Failures
<1>6. CASE a # End /\ r.kind # "ok"
  BY <1>3, <1>4, <1>6
<1>7. CASE a # End /\ r.kind = "ok"
  <2>1. PICK d \in b..End : d = r.delim
    BY <1>3, <1>7 DEF Sound
  <2>2. Formed(r.expr, d)
    BY <1>3, <1>7, <2>1 DEF Sound
  <2>3. head # Null
    BY ValueIsThere
  <2>4. Elems(JoinTail(head, r.expr), d)
    <3>1. CASE r.expr.tag = "comma"
      <4>1. JoinTail(head, r.expr) = r.expr.parts \o <<head>>
        BY <3>1 DEF JoinTail
      <4>2. Elems(r.expr.parts, d)
        BY <2>2, <3>1 DEF Formed
      <4>3. PICK t : t = <<head>>
        OBVIOUS
      <4>4. List(t) /\ ~Holes(t)
        BY <2>3, <4>3, ListOne
      <4>5. PICK s : s = r.expr.parts
        OBVIOUS
      <4>6. Elems(s \o t, d)
        BY <4>2, <4>4, <4>5, ListJoin DEF Elems
      <4> QED BY <4>1, <4>3, <4>5, <4>6
    <3>2. CASE r.expr.tag # "comma"
      <4>1. JoinTail(head, r.expr) = <<head, r.expr>>
        BY <3>2 DEF JoinTail
      <4>2. ASSUME Holes(<<head, r.expr>>) PROVE Shut(d) /\ (Is(d, {")"}) => LooseComma)
        <5>1. r.expr.tag = "null"
          <6>1. r.expr = Null
            BY <2>3, <4>2, ListTwo
          <6>2. Null.tag = "null"
            BY DEF Null
          <6> QED BY <6>1, <6>2
        <5>2. d = Skip(a, {"COMMENT"})
          BY <1>3, <1>7, <2>1, <5>1 DEF Answered
        <5>3. Is(d, {")"}) => LooseComma
          <6>0. PICK i \in 1..End : i + 1 = b /\ Is(i, {"comma"})
            OBVIOUS
          <6>1. a \in (i + 1)..End /\ \A k \in (i + 1)..(a - 1) : toks[k] \in {"SPACE"}
            BY <1>1, <6>0
          <6> QED BY <5>2, <6>0, <6>1, CommaIsLoose
        <5> QED BY <2>2, <5>1, <5>3 DEF Formed
      <4> QED BY <4>1, <4>2, ListTwo DEF Elems
    <3> QED BY <3>1, <3>2
  <2>5. From(inner, d) /\ d \in 1..End
    BY <1>0, <2>1, FromLater
  <2>6. Sound(CommaLines(inner, d, JoinTail(head, r.expr)), d)
    BY <2>4, <2>5, CommaLinesSound
  <2> QED BY <1>0, <1>4, <1>7, <2>1, <2>6, PassedOn
<1> QED BY <1>5, <1>6, <1>7

\* The members behind a value.
LEMMA MembersSound ==
  ASSUME toks \in Seq(AllTokens), NEW i \in 1..End, NEW e, Value(e)
  PROVE  Members(i, e).at \in i..End /\ Value(Members(i, e).expr)
<1>0. End \in Nat
  BY EndIs
<1>1. PICK f : Values(i, e, f) /\ Members(i, e) = f[Len(toks)]
  BY MembersSolved
<1>2. PICK L \in Nat : L = Len(toks)
  BY EndIs
<1> DEFINE v == [expr |-> e, at |-> i]
           Fine(n) == f[n].at \in i..End /\ Value(f[n].expr)
<1>3. f = [n \in 0..L |-> IF n = 0 THEN v ELSE Member(f[n - 1])]
  BY <1>1, <1>2 DEF Values
<1>4. \A n \in 0..L : Fine(n)
  <2> SUFFICES ASSUME NEW b \in 0..L, ~Fine(b) PROVE FALSE
    OBVIOUS
  <2> DEFINE T == {n \in 0..L : ~Fine(n)}
  <2>1. PICK n \in T : \A m \in T : n <= m
    <3>1. T \in SUBSET Nat /\ T # {}
      OBVIOUS
    <3> HIDE DEF T
    <3> QED BY <3>1, LeastNat
  <2>2. n \in 0..L /\ ~Fine(n)
    BY <2>1
  <2>3. n # 0
    <3> SUFFICES ASSUME n = 0 PROVE Fine(0)
      BY <2>2
    <3>1. f[0] = v
      <4> HIDE DEF v
      <4> QED BY <1>3
    <3>2. f[0].at = i /\ f[0].expr = e
      BY <3>1
    <3>3. i \in i..End
      BY <1>0
    <3> QED BY <3>2, <3>3
  <2>4. PICK h \in Nat : h = n - 1
    BY <2>2, <2>3
  <2>5. h \in 0..L /\ ~(n <= h)
    BY <2>2, <2>4
  <2>6. Fine(h)
    <3> HIDE DEF Fine
    <3> QED BY <2>1, <2>5
  <2>7. f[n] = Member(f[h])
    <3> HIDE DEF v
    <3> QED BY <1>3, <2>2, <2>3, <2>4
  <2>8. PICK x, j : x = f[h] /\ j = x.at
    OBVIOUS
  <2>9. j \in i..End /\ j \in 1..End /\ Value(x.expr)
    BY <1>0, <2>6, <2>8
  <2>10. PICK name : name = SkipWs(j + 1)
    OBVIOUS
  <2>11. CASE Is(j, {"."}) /\ Is(name, Ids)
    <3>1. j + 1 \in 1..End
      BY <2>9, <2>11, IsInside
    <3>2. name \in (j + 1)..End
      BY <2>10, <3>1, SkipStops DEF SkipWs
    <3>3. name \in 1..End /\ name \in i..End
      BY <1>0, <2>9, <3>1, <3>2
    <3>4. name + 1 \in 1..End
      BY <2>11, <3>3, IsInside
    <3>5. f[n] = [expr |-> Access(x.expr, name), at |-> name + 1]
      BY <2>7, <2>8, <2>10, <2>11 DEF Member
    <3>6. Value(Access(x.expr, name))
      BY DEF Value, Access, Expr
    <3>7. f[n].at = name + 1 /\ f[n].expr = Access(x.expr, name)
      BY <3>5
    <3>8. name + 1 \in i..End
      BY <1>0, <3>3, <3>4
    <3> QED BY <2>2, <3>6, <3>7, <3>8
  <2>12. CASE ~(Is(j, {"."}) /\ Is(name, Ids))
    <3>1. f[n] = x
      BY <2>7, <2>8, <2>10, <2>12 DEF Member
    <3> QED BY <2>2, <2>8, <2>9, <3>1
  <2> QED BY <2>11, <2>12
<1>5. Fine(L)
  BY <1>2, <1>4
<1> QED BY <1>1, <1>2, <1>5

\* A value is formed wherever it stops.
LEMMA ValueFormed ==
  ASSUME NEW e, Value(e), NEW d
  PROVE  Formed(e, d)
BY DEF Value, Formed

\* What follows a value: parseLeading, and the functions it hands on to.
LEMMA LeadingSound ==
  ASSUME toks \in Seq(AllTokens), NEW i \in 1..End, NEW inner, From(inner, i), NEW e, Value(e)
  PROVE  Sound(Leading(inner, i, e), i)
<1>0. End \in Nat /\ i \in Nat
  BY EndIs
<1>1. PICK m, w : m \in i..End /\ m = Members(i, e).at /\ w = Members(i, e).expr /\ Value(w)
  BY MembersSound
<1>2. m \in 1..End
  BY <1>0, <1>1
<1>3. PICK j \in m..End : j = SkipWs(m)
  BY <1>2, SkipStops DEF SkipWs
<1>4. j \in i..End /\ j \in 1..End /\ j \in Nat
  BY <1>0, <1>1, <1>3
<1>5. Leading(inner, i, e) =
        CASE Is(j, {"COMMENT"}) -> LET k == Skip(j, {"COMMENT"}) IN Ok(w, k, k)
          [] j = End -> Ok(w, End, End)
          [] Is(j, {"NEWLINE"} \cup CloseBracket) -> Ok(w, j + 1, j)
          [] Is(j, {"."}) /\ m = j -> Error
          [] Is(j, {"comma"}) -> CommaListFrom(inner, j + 1, w)
          [] Is(j, Operators \ {"comma"}) /\ ~(Is(j, {"."}) /\ m = j) -> Binop(inner, j, w)
          [] OTHER -> Then(inner[j], LAMBDA r : Ok(Apply(w, r.expr), r.rem, r.delim))
  BY <1>1, <1>3 DEF Leading
<1>6. From(inner, j)
  BY <1>4, FromLater
<1>7. \A d : Formed(w, d)
  BY <1>1, ValueFormed
<1>8. CASE j = End
  <2>1. \A kinds : ~Is(j, kinds)
    BY <1>8, <1>4 DEF Is
  <2>2. Leading(inner, i, e) = Ok(w, End, End)
    BY <1>5, <1>8, <2>1
  <2>3. End \in i..End
    BY <1>4, <1>8
  <2> QED BY <1>7, <2>2, <2>3, AnswerSound
<1>9. CASE j # End
  <2>0. j < End /\ j + 1 \in i..End /\ j + 1 \in 1..End
    BY <1>0, <1>4, <1>9
  <2>1. \A kinds : Is(j, kinds) <=> toks[j] \in kinds
    BY <2>0 DEF Is
  <2>2. CASE toks[j] = "COMMENT"
    <3>1. PICK k \in j..End : k = Skip(j, {"COMMENT"})
      BY <1>4, SkipStops
    <3>2. Leading(inner, i, e) = Ok(w, k, k)
      BY <1>5, <1>9, <2>1, <2>2, <3>1 DEF CloseBracket, Operators, BinaryOps, UnaryOps
    <3>3. k \in i..End
      BY <1>0, <1>4, <3>1
    <3> QED BY <1>7, <3>2, <3>3, AnswerSound
  <2>3. CASE toks[j] \in {"NEWLINE"} \cup CloseBracket
    <3>1. Leading(inner, i, e) = Ok(w, j + 1, j)
      BY <1>5, <1>9, <2>1, <2>3 DEF CloseBracket, Operators, BinaryOps, UnaryOps
    <3> QED BY <1>4, <1>7, <2>0, <3>1, AnswerSound
  <2>4. CASE toks[j] = "." /\ m = j
    <3>1. Leading(inner, i, e) = Error
      BY <1>5, <1>9, <2>1, <2>4 DEF CloseBracket, Operators, BinaryOps, UnaryOps
    <3> QED BY <3>1, Failures
  <2>5. CASE toks[j] = "comma"
    <3>1. Leading(inner, i, e) = CommaListFrom(inner, j + 1, w)
      BY <1>5, <1>9, <2>1, <2>5 DEF CloseBracket, Operators, BinaryOps, UnaryOps
    <3>2. PICK b \in 1..End : b = j + 1 /\ b \in i..End
      BY <2>0
    <3>3. Is(j, {"comma"}) /\ From(inner, b)
      BY <2>1, <2>5, <3>2, FromLater
    <3>4. Sound(CommaListFrom(inner, b, w), b)
      BY <1>1, <1>4, <3>2, <3>3, CommaListFromSound
    <3> QED BY <3>1, <3>2, <3>4, PassedOn
  <2>6. CASE toks[j] \in Operators \ {"comma"} /\ ~(toks[j] = "." /\ m = j)
    <3>1. Leading(inner, i, e) = Binop(inner, j, w)
      BY <1>5, <1>9, <2>1, <2>6 DEF CloseBracket, Operators, BinaryOps, UnaryOps
    <3>2. Sound(Binop(inner, j, w), j)
      BY <1>4, <1>6, <2>0, BinopSound
    <3> QED BY <1>4, <3>1, <3>2, PassedOn
  <2>7. CASE toks[j] \notin {"COMMENT", "NEWLINE"} \cup CloseBracket \cup Operators
    <3>1. PICK r : r = inner[j]
      OBVIOUS
    <3>2. Leading(inner, i, e) = IF r.kind = "ok" THEN Ok(Apply(w, r.expr), r.rem, r.delim) ELSE r
      BY <1>5, <1>9, <2>1, <2>7, <3>1 DEF Then, Operators
    <3>3. Sound(r, i)
      BY <1>4, <3>1, PassedOn DEF From, Answered
    <3>4. Apply(w, r.expr).tag \in {"binary", "app"}
      BY DEF Apply, BinaryExpr, App, Expr
    <3>5. CASE r.kind # "ok"
      BY <3>2, <3>3, <3>5
    <3>6. CASE r.kind = "ok"
      <4>1. r.rem \in i..End /\ r.delim \in i..End
        BY <3>3, <3>6 DEF Sound
      <4>2. Formed(Apply(w, r.expr), r.delim)
        BY <3>4 DEF Formed
      <4> QED BY <3>2, <3>6, <4>1, <4>2, AnswerSound
    <3> QED BY <3>5, <3>6
  <2> QED BY <2>2, <2>3, <2>4, <2>5, <2>6, <2>7
<1> QED BY <1>8, <1>9

\* An answer that is an expression, not a missing one.
Named(r) == r.kind = "ok" => r.expr.tag # "null"

\* Only parseInner itself answers a missing expression: not the lists,
LEMMA CommaListNamed ==
  ASSUME toks \in Seq(AllTokens), NEW inner, NEW b \in 1..End, From(inner, b), NEW head
  PROVE  Named(CommaListFrom(inner, b, head))
<1>0. End \in Nat
  BY EndIs
<1>1. ASSUME NEW i \in 1..End, NEW es PROVE Named(CommaLines(inner, i, es))
  <2>1. PICK f : CommaLines(inner, i, es) = Lists(f, i, es)
    BY LinesSolved
  <2>2. PICK l : l = f[i + 2]
    OBVIOUS
  <2>3. Lists(f, i, es) \in {Ok(CommaList(es), i, i), Ok(CommaList(es), i + 1, i + 1),
          IF l.kind = "ok" THEN Ok(CommaList(es \o l.expr.parts), l.rem, l.delim) ELSE l}
    BY <2>2 DEF Lists, Then
  <2>4. \A s, rem, delim : Named(Ok(CommaList(s), rem, delim))
    BY DEF Named, Ok, CommaList, Expr
  <2>5. l.kind # "ok" => Named(l)
    BY DEF Named
  <2> QED BY <2>1, <2>3, <2>4, <2>5
<1>2. PICK a \in b..End : a = SkipWs(b)
  BY SkipStops DEF SkipWs
<1>3. PICK r : r = inner[a]
  OBVIOUS
<1>4. CommaListFrom(inner, b, head) =
        IF a = End THEN Error
        ELSE IF r.kind = "ok" THEN CommaLines(inner, r.delim, JoinTail(head, r.expr)) ELSE r
  BY <1>2, <1>3 DEF CommaListFrom, Then
<1>5. r.kind = "ok" => r.delim \in a..End
  BY <1>3 DEF From, Answered, Sound
<1>6. r.kind = "ok" => r.delim \in 1..End
  BY <1>0, <1>5
<1>7. Named(Error)
  BY DEF Named, Error, Failed
<1>8. r.kind # "ok" => Named(r)
  BY DEF Named
<1> QED BY <1>1, <1>4, <1>6, <1>7, <1>8

\* nor anything that follows a value.
LEMMA LeadingNamed ==
  ASSUME toks \in Seq(AllTokens), NEW i \in 1..End, NEW inner, From(inner, i), NEW e, Value(e)
  PROVE  Named(Leading(inner, i, e))
<1>0. End \in Nat
  BY EndIs
<1>1. PICK m, w : m \in i..End /\ m = Members(i, e).at /\ w = Members(i, e).expr /\ Value(w)
  BY MembersSound
<1>2. PICK j \in m..End : j = SkipWs(m)
  <2>1. m \in 1..End
    BY <1>0, <1>1
  <2> QED BY <2>1, SkipStops DEF SkipWs
<1>3. PICK r : r = inner[j]
  OBVIOUS
<1>4. PICK k : k = Skip(j, {"COMMENT"})
  OBVIOUS
<1>5. Leading(inner, i, e) =
        CASE Is(j, {"COMMENT"}) -> Ok(w, k, k)
          [] j = End -> Ok(w, End, End)
          [] Is(j, {"NEWLINE"} \cup CloseBracket) -> Ok(w, j + 1, j)
          [] Is(j, {"."}) /\ m = j -> Error
          [] Is(j, {"comma"}) -> CommaListFrom(inner, j + 1, w)
          [] Is(j, Operators \ {"comma"}) /\ ~(Is(j, {"."}) /\ m = j) -> Binop(inner, j, w)
          [] OTHER -> IF r.kind = "ok" THEN Ok(Apply(w, r.expr), r.rem, r.delim) ELSE r
  BY <1>1, <1>2, <1>3, <1>4 DEF Leading, Then
<1>6. \A rem, delim : Named(Ok(w, rem, delim))
  BY <1>1 DEF Named, Ok, Value
<1>7. Named(Error) /\ Named(ReadBehind)
  BY DEF Named, Error, ReadBehind, Failed
<1>8. Is(j, {"comma"}) => Named(CommaListFrom(inner, j + 1, w))
  <2> SUFFICES ASSUME Is(j, {"comma"}) PROVE Named(CommaListFrom(inner, j + 1, w))
    OBVIOUS
  <2>1. j \in 1..End /\ j \in i..End
    BY <1>0, <1>1, <1>2
  <2>2. PICK b \in 1..End : b = j + 1
    BY <2>1, IsInside
  <2>3. b \in i..End
    BY <1>0, <2>1, <2>2
  <2>4. From(inner, b)
    BY <2>3, FromLater
  <2>5. Named(CommaListFrom(inner, b, w))
    BY <2>4, CommaListNamed
  <2> QED BY <2>2, <2>5
<1>9. Named(Binop(inner, j, w))
  <2>1. PICK s : s = inner[SkipWs(j + 1)]
    OBVIOUS
  <2>2. Binop(inner, j, w) \in {Error, ReadBehind,
          IF s.kind = "ok" THEN Ok(Binary(toks[j], w, s.expr), s.rem, s.delim) ELSE s}
    BY <2>1 DEF Binop, Then
  <2>3. Binary(toks[j], w, s.expr).tag = "binary"
    BY DEF Binary, BinaryExpr
  <2>4. Named(Ok(Binary(toks[j], w, s.expr), s.rem, s.delim))
    BY <2>3 DEF Named, Ok
  <2>5. s.kind # "ok" => Named(s)
    BY DEF Named
  <2> QED BY <1>7, <2>2, <2>4, <2>5
<1>10. Named(IF r.kind = "ok" THEN Ok(Apply(w, r.expr), r.rem, r.delim) ELSE r)
  <2>1. Apply(w, r.expr).tag \in {"binary", "app"}
    BY DEF Apply, BinaryExpr, App, Expr
  <2>2. Named(Ok(Apply(w, r.expr), r.rem, r.delim))
    BY <2>1 DEF Named, Ok
  <2>3. r.kind # "ok" => Named(r)
    BY DEF Named
  <2> QED BY <2>2, <2>3
<1>11. Leading(inner, i, e) \in {Ok(w, k, k), Ok(w, End, End), Ok(w, j + 1, j), Error, Binop(inner, j, w),
          IF r.kind = "ok" THEN Ok(Apply(w, r.expr), r.rem, r.delim) ELSE r}
       \/ (Is(j, {"comma"}) /\ Leading(inner, i, e) = CommaListFrom(inner, j + 1, w))
  BY <1>5
<1> QED BY <1>6, <1>7, <1>8, <1>9, <1>10, <1>11

\* References and literals are values.
LEMMA LeafValue ==
  ASSUME NEW i
  PROVE  Value(Leaf(i))
BY DEF Value, Leaf

\* parseId, and the function definition an id with a "(" begins.
LEMMA IdSound ==
  ASSUME toks \in Seq(AllTokens), NEW i \in 1..End, NEW inner, i < End, From(inner, i + 1)
  PROVE  Sound(Id(inner, i), i + 1) /\ Named(Id(inner, i))
<1>0. End \in Nat /\ i \in Nat
  BY EndIs
<1>1. PICK n \in 1..End : n = i + 1
  BY <1>0
<1>e. n \in n..End /\ End \in n..End
  BY <1>0
<1>2. Value(Leaf(i)) /\ \A d : Formed(Leaf(i), d)
  BY LeafValue, ValueFormed
<1>3. PICK p : p = ParenInner(inner, n + 1)
  OBVIOUS
<1>4. Id(inner, i) =
        CASE n = End -> IF toks[i] = "import" THEN Error ELSE LastValue(Leaf(i), i)
          [] Is(n, OpenBracket) ->
               IF toks[i] # "id" THEN Error
               ELSE IF p.kind = "ok" THEN FnDef(inner, i, p.expr.parts, p.rem) ELSE p
          [] OTHER -> Leading(inner, n, Leaf(i))
  <2>1. n + 1 = i + 2
    BY <1>0, <1>1
  <2>2. p = ParenInner(inner, i + 2)
    BY <1>3, <2>1
  <2> QED BY <1>1, <2>2 DEF Id, Then
<1>5. Sound(Error, n) /\ Named(Error)
  BY Failures DEF Named, Error, Failed
<1>6. CASE n = End
  <2>1. Sound(LastValue(Leaf(i), i), n)
    BY <1>e, <1>2, AnswerSound DEF LastValue
  <2>2. Named(LastValue(Leaf(i), i))
    BY DEF LastValue, Named, Ok, Leaf
  <2>3. ~Is(n, OpenBracket)
    BY <1>0, <1>6 DEF Is
  <2> QED BY <1>1, <1>4, <1>5, <1>6, <2>1, <2>2, <2>3
<1>7. CASE n # End /\ Is(n, OpenBracket)
  <2>1. PICK q \in 1..End : q = n + 1 /\ q \in n..End
    <3>1. n + 1 \in 1..End /\ n \in Nat
      BY <1>7, IsInside
    <3> QED BY <1>0, <3>1
  <2>2. From(inner, q)
    BY <1>1, <2>1, FromLater
  <2>3. p = ParenInner(inner, q)
    BY <1>3, <2>1
  <2>4. Sound(p, q) /\ (p.kind = "ok" => p.expr.tag = "tuple")
    BY <2>2, <2>3, ParenInnerSound
  <2>5. Sound(p, n)
    BY <2>1, <2>4, PassedOn
  <2>6. CASE toks[i] # "id"
    BY <1>1, <1>4, <1>5, <1>7, <2>6
  <2>7. CASE toks[i] = "id" /\ p.kind # "ok"
    <3>1. Id(inner, i) = p
      BY <1>4, <1>7, <2>7
    <3> QED BY <1>1, <2>5, <2>7, <3>1 DEF Named
  <2>8. CASE toks[i] = "id" /\ p.kind = "ok"
    <3>1. Id(inner, i) = FnDef(inner, i, p.expr.parts, p.rem)
      BY <1>4, <1>7, <2>8
    <3>2. PICK x \in q..End : x = p.rem
      BY <2>4, <2>8 DEF Sound
    <3>3. x \in 1..End /\ x \in n..End
      BY <1>0, <2>1, <3>2
    <3>4. From(inner, x)
      BY <2>2, <3>2, FromLater
    <3>5. List(p.expr.parts) /\ (Holes(p.expr.parts) => LooseComma)
      BY <2>4, <2>8 DEF Sound, Formed
    <3>6. Sound(FnDef(inner, i, p.expr.parts, x), x)
      BY <3>3, <3>4, <3>5, FnDefSound
    <3>7. Sound(FnDef(inner, i, p.expr.parts, x), n)
      BY <3>3, <3>6, PassedOn
    <3>8. Named(FnDef(inner, i, p.expr.parts, x))
      <4>1. PICK b : b = FnBody(inner, SkipWs(SkipWs(x) + 1))
        OBVIOUS
      <4>2. FnDef(inner, i, p.expr.parts, x) \in {Error, NullRead,
              IF b.kind = "ok" THEN Ok(FnDefExpr(i, p.expr.parts, b.expr), Behind(b.delim), b.delim) ELSE b}
        BY <4>1 DEF FnDef, Then
      <4>3. Named(NullRead)
        BY DEF Named, NullRead, Failed
      <4>4. Named(Ok(FnDefExpr(i, p.expr.parts, b.expr), Behind(b.delim), b.delim))
        BY DEF Named, Ok, FnDefExpr, Expr
      <4>5. b.kind # "ok" => Named(b)
        BY DEF Named
      <4> QED BY <1>5, <4>2, <4>3, <4>4, <4>5
    <3> QED BY <1>1, <3>1, <3>2, <3>7, <3>8
  <2> QED BY <2>6, <2>7, <2>8
<1>8. CASE n # End /\ ~Is(n, OpenBracket)
  <2>1. Id(inner, i) = Leading(inner, n, Leaf(i))
    BY <1>4, <1>8
  <2> QED BY <1>1, <1>2, <2>1, LeadingSound, LeadingNamed
<1> QED BY <1>6, <1>7, <1>8

\* parseInt, parseReal and parseStr.
LEMMA LiteralSound ==
  ASSUME toks \in Seq(AllTokens), NEW i \in 1..End, NEW inner, i < End, From(inner, i + 1)
  PROVE  Sound(Literal(inner, i), i + 1) /\ Named(Literal(inner, i))
<1>0. End \in Nat /\ i \in Nat
  BY EndIs
<1>1. PICK n \in 1..End : n = i + 1
  BY <1>0
<1>e. End \in n..End
  BY <1>0
<1>2. Value(Leaf(i)) /\ \A d : Formed(Leaf(i), d)
  BY LeafValue, ValueFormed
<1>3. Literal(inner, i) \in {LastValue(Leaf(i), i), Error, Leading(inner, n, Leaf(i))}
  BY <1>1 DEF Literal
<1>4. Sound(LastValue(Leaf(i), i), n) /\ Named(LastValue(Leaf(i), i))
  <2>1. Sound(LastValue(Leaf(i), i), n)
    BY <1>e, <1>2, AnswerSound DEF LastValue
  <2>2. Named(LastValue(Leaf(i), i))
    BY DEF LastValue, Named, Ok, Leaf
  <2> QED BY <2>1, <2>2
<1>5. Sound(Error, n) /\ Named(Error)
  BY Failures DEF Named, Error, Failed
<1>6. Sound(Leading(inner, n, Leaf(i)), n) /\ Named(Leading(inner, n, Leaf(i)))
  BY <1>1, <1>2, LeadingSound, LeadingNamed
<1> QED BY <1>1, <1>3, <1>4, <1>5, <1>6

\* A sound, named answer of something further on is an answer of parseInner.
LEMMA FurtherOn ==
  ASSUME toks \in Seq(AllTokens), NEW i \in 1..End, NEW k \in (i + 1)..End, NEW r, Sound(r, k), Named(r)
  PROVE  Answered(r, i)
<1>0. End \in Nat /\ i \in Nat
  BY EndIs
<1>1. k \in i..End
  BY <1>0
<1>2. Sound(r, i)
  BY <1>1, PassedOn
<1>3. ASSUME r.kind = "ok" PROVE r.rem > i
  <2>1. PICK x \in k..End : x = r.rem
    BY <1>3 DEF Sound
  <2>2. x > i
    BY <1>0, <2>1
  <2> QED BY <2>1, <2>2
<1> QED BY <1>2, <1>3 DEF Answered, Named

\* parseInner keeps its promise where it is kept further on.
LEMMA ParseInnerAnswered ==
  ASSUME toks \in Seq(AllTokens), NEW i \in 1..End, NEW inner, \A k \in (i + 1)..End : Answered(inner[k], k)
  PROVE  Answered(ParseInner(inner, i), i)
<1>0. End \in Nat /\ i \in Nat
  BY EndIs
<1>1. PICK j \in i..End : j = Skip(i, {"COMMENT"})
  BY SkipStops
<1>2. PICK p : p = ParenInner(inner, j + 1)
  OBVIOUS
<1>3. j \in 1..End /\ j \in Nat
  BY <1>0, <1>1
<1>4. ParseInner(inner, i) =
        CASE j = End -> Ok(Null, End, End)
          [] Is(j, {"("}) -> IF p.kind = "ok" THEN Leading(inner, p.delim + 1, p.expr) ELSE p
          [] Is(j, CloseBracket \cup {"DEINDENT"}) -> Ok(Null, j + 1, j)
          [] Is(j, Ids) -> Id(inner, j)
          [] Is(j, Literals) -> Literal(inner, j)
          [] Is(j, Operators \ {"macro"}) -> UnaryOp(inner, j)
          [] OTHER -> Error
  BY <1>1, <1>2 DEF ParseInner, Then
<1>5. Null.tag = "null"
  BY DEF Null
<1>6. CASE j = End
  <2>1. \A kinds : ~Is(j, kinds)
    BY <1>0, <1>6 DEF Is
  <2>2. ParseInner(inner, i) = Ok(Null, End, End)
    BY <1>4, <1>6, <2>1
  <2>3. Formed(Null, End)
    BY <1>5 DEF Formed, Shut
  <2>4. End \in i..End
    BY <1>0
  <2>5. Sound(Ok(Null, End, End), i)
    BY <2>3, <2>4, AnswerSound
  <2>6. i < End => End > i
    BY <1>0
  <2> QED BY <1>1, <1>6, <2>2, <2>5, <2>6 DEF Answered, Ok
<1>7. CASE j # End
  <2>0. j < End /\ j + 1 \in (i + 1)..End /\ j + 1 \in 1..End
    BY <1>0, <1>1, <1>3, <1>7
  <2>1. \A kinds : Is(j, kinds) <=> toks[j] \in kinds
    BY <2>0 DEF Is
  <2>a. PICK n \in 1..End : n = j + 1 /\ n \in (i + 1)..End
    BY <2>0
  <2>b. From(inner, n)
    <3>1. \A k \in n..End : k \in (i + 1)..End
      BY <1>0, <2>a
    <3> QED BY <3>1 DEF From
  <2>2. CASE toks[j] = "("
    <3>1. ParseInner(inner, i) = IF p.kind = "ok" THEN Leading(inner, p.delim + 1, p.expr) ELSE p
      BY <1>4, <1>7, <2>1, <2>2 DEF CloseBracket, Ids, Literals, Operators, BinaryOps, UnaryOps
    <3>2. /\ Sound(p, n)
          /\ p.kind = "ok" => Is(p.delim, {")"}) /\ p.rem = p.delim + 1 /\ p.expr.tag = "tuple"
      <4>1. p = ParenInner(inner, n)
        BY <1>2, <2>a
      <4> QED BY <2>b, <4>1, ParenInnerSound
    <3>3. CASE p.kind # "ok"
      <4>1. Named(p)
        BY <3>3 DEF Named
      <4> QED BY <2>a, <3>1, <3>2, <3>3, <4>1, FurtherOn
    <3>4. CASE p.kind = "ok"
      <4>1. PICK x \in n..End : x = p.rem
        BY <3>2, <3>4 DEF Sound
      <4>2. x \in 1..End /\ x \in (i + 1)..End
        BY <1>0, <2>a, <4>1
      <4>3. From(inner, x)
        BY <2>a, <2>b, <4>1, FromLater
      <4>4. Value(p.expr)
        BY <3>2, <3>4 DEF Value, Sound, Formed
      <4>5. Sound(Leading(inner, x, p.expr), x) /\ Named(Leading(inner, x, p.expr))
        BY <4>2, <4>3, <4>4, LeadingSound, LeadingNamed
      <4>6. ParseInner(inner, i) = Leading(inner, x, p.expr)
        BY <3>1, <3>2, <3>4, <4>1
      <4> QED BY <4>2, <4>5, <4>6, FurtherOn
    <3> QED BY <3>3, <3>4
  <2>3. CASE toks[j] \in CloseBracket \cup {"DEINDENT"}
    <3>1. ParseInner(inner, i) = Ok(Null, n, j)
      BY <1>4, <1>7, <2>1, <2>3, <2>a DEF CloseBracket, Ids, Literals, Operators, BinaryOps, UnaryOps
    <3>2. Formed(Null, j)
      BY <1>5, <2>1, <2>3 DEF Formed, Shut
    <3>3. n \in i..End /\ n > i
      BY <1>0, <2>a
    <3>4. Sound(Ok(Null, n, j), i)
      BY <1>1, <3>2, <3>3, AnswerSound
    <3> QED BY <1>1, <3>1, <3>3, <3>4 DEF Answered, Ok
  <2>4. CASE toks[j] \in Ids
    <3>1. ParseInner(inner, i) = Id(inner, j)
      BY <1>4, <1>7, <2>1, <2>4 DEF CloseBracket, Ids, Literals, Operators, BinaryOps, UnaryOps
    <3>2. Sound(Id(inner, j), n) /\ Named(Id(inner, j))
      BY <1>3, <2>0, <2>a, <2>b, IdSound
    <3> QED BY <2>a, <3>1, <3>2, FurtherOn
  <2>5. CASE toks[j] \in Literals
    <3>1. ParseInner(inner, i) = Literal(inner, j)
      BY <1>4, <1>7, <2>1, <2>5 DEF CloseBracket, Ids, Literals, Operators, BinaryOps, UnaryOps
    <3>2. Sound(Literal(inner, j), n) /\ Named(Literal(inner, j))
      BY <1>3, <2>0, <2>a, <2>b, LiteralSound
    <3> QED BY <2>a, <3>1, <3>2, FurtherOn
  <2>6. CASE toks[j] \in Operators \ {"macro"}
    <3>1. ParseInner(inner, i) = UnaryOp(inner, j)
      BY <1>4, <1>7, <2>1, <2>6 DEF CloseBracket, Ids, Literals, Operators, BinaryOps, UnaryOps
    <3>2. Sound(UnaryOp(inner, j), n) /\ Named(UnaryOp(inner, j))
      BY <1>3, <2>0, <2>a, <2>b, UnaryOpSound DEF Named
    <3> QED BY <2>a, <3>1, <3>2, FurtherOn
  <2>7. CASE toks[j] \notin {"("} \cup CloseBracket \cup {"DEINDENT"} \cup Ids \cup Literals
                             \cup (Operators \ {"macro"})
    <3>1. ParseInner(inner, i) = Error
      <4> DEFINE paren == Is(j, {"(" })
                 closes == Is(j, CloseBracket \cup {"DEINDENT"})
                 id == Is(j, Ids)
                 lit == Is(j, Literals)
                 op == Is(j, Operators \ {"macro"})
      <4>1. ~paren /\ ~closes /\ ~id /\ ~lit /\ ~op
        BY <2>1, <2>7
      <4> QED BY <1>4, <1>7, <4>1
    <3>2. Sound(Error, n) /\ Named(Error)
      BY Failures DEF Named, Error, Failed
    <3> QED BY <2>a, <3>1, <3>2, FurtherOn
  <2> QED BY <2>2, <2>3, <2>4, <2>5, <2>6, <2>7
<1> QED BY <1>6, <1>7

\* parseInner answers at every position of every sequence of tokens: inside the
\* tokens, behind its own position, reading behind the last token or a missing
\* expression only where FaultsOnlyAtLooseEnds says.
THEOREM InnerAnswers ==
  ASSUME toks \in Seq(AllTokens)
  PROVE  \A i \in 1..End : Answered(Inner(i), i)
<1>0. End \in Nat
  BY EndIs
<1>1. PICK f : Answers(f) /\ \A i : Inner(i) = f[i]
  BY InnerSolved
<1> DEFINE Fine(k) == Answered(f[k], k)
<1> SUFFICES ASSUME NEW b \in 1..End, ~Fine(b) PROVE FALSE
  BY <1>1
<1> DEFINE T == {n \in 0..(End - 1) : ~Fine(End - n)}
<1>2. End - b \in T
  <2>1. End - (End - b) = b /\ End - b \in 0..(End - 1)
    BY <1>0
  <2> HIDE DEF Fine
  <2> QED BY <2>1
<1>3. PICK n \in T : \A m \in T : n <= m
  <2>1. T \in SUBSET Nat
    BY <1>0
  <2> HIDE DEF T
  <2> QED BY <1>2, <2>1, LeastNat
<1>4. PICK k \in Nat : k = End - n
  BY <1>0, <1>3
<1>5. k \in 1..End /\ ~Fine(k)
  <2>1. n \in 0..(End - 1) /\ ~Fine(End - n)
    BY <1>3
  <2> HIDE DEF Fine
  <2> QED BY <1>0, <1>4, <2>1
<1>6. \A m \in (k + 1)..End : Fine(m)
  <2> SUFFICES ASSUME NEW m \in (k + 1)..End, ~Fine(m) PROVE FALSE
    OBVIOUS
  <2> HIDE DEF Fine
  <2>1. End - (End - m) = m /\ End - m \in 0..(End - 1) /\ ~(n <= End - m)
    BY <1>0, <1>3, <1>4, <1>5
  <2>2. End - m \in T
    BY <2>1
  <2> QED BY <1>3, <2>1, <2>2
<1>7. PICK inner : inner = [m \in (k + 1)..End |-> f[m]]
  OBVIOUS
<1>8. f[k] = ParseInner(inner, k)
  BY <1>1, <1>5, <1>7 DEF Answers
<1>9. \A m \in (k + 1)..End : Answered(inner[m], m)
  BY <1>6, <1>7
<1>10. Fine(k)
  BY <1>5, <1>8, <1>9, ParseInnerAnswered
<1> QED BY <1>5, <1>10

\* lemniParse.
LEMMA ParseAnswers ==
  ASSUME toks \in Seq(AllTokens), NEW i \in 1..End, i < End
  PROVE  LET r == Parse(i) IN
         /\ r.kind \in {"ok", "error", "behind", "null"}
         /\ r.kind = "behind" => LooseEnd
         /\ r.kind = "null" => LooseComma
         /\ r.kind = "ok" => r.rem \in 1..End /\ r.rem > i
<1>0. End \in Nat
  BY EndIs
<1>1. PICK s : s = Inner(i)
  OBVIOUS
<1>2. Answered(s, i) /\ Sound(s, i)
  BY <1>1, InnerAnswers DEF Answered
<1>3. Parse(i) = IF s.kind = "ok"
                 THEN IF Is(s.delim, CloseBracket \cup {"DEINDENT"}) THEN Error ELSE s
                 ELSE s
  BY <1>1 DEF Parse, Then
<1>4. s.kind = "ok" => s.rem \in 1..End /\ s.rem > i
  <2> SUFFICES ASSUME s.kind = "ok" PROVE s.rem \in 1..End /\ s.rem > i
    OBVIOUS
  <2>1. PICK x \in i..End : x = s.rem /\ x > i
    BY <1>2 DEF Answered, Sound
  <2>2. x \in 1..End
    BY <1>0, <2>1
  <2> QED BY <2>1, <2>2
<1>5. CASE Parse(i) = Error
  BY <1>5 DEF Error, Failed
<1>6. CASE Parse(i) # Error
  <2>1. Parse(i) = s
    BY <1>3, <1>6
  <2> QED BY <1>2, <1>4, <2>1 DEF Sound
<1> QED BY <1>5, <1>6

-----------------------------------------------------------------------------
(* The loop over a module's tokens.                                        *)

\* The inductive invariant.
Loose == /\ toks \in Seq(AllTokens)
         /\ at \in 1..End
         /\ status \in {"parsing", "parsed", "error", "behind", "null"}
         /\ FaultsOnlyAtLooseEnds

\* The property, with its two parts named.
LEMMA LooseIs == FaultsOnlyAtLooseEnds <=> (status = "behind" => LooseEnd) /\ (status = "null" => LooseComma)
BY DEF FaultsOnlyAtLooseEnds, LooseEnd, LooseComma

\* It holds before the first call,
LEMMA LooseInit == Init => Loose
<1> SUFFICES ASSUME Init PROVE Loose
  OBVIOUS
<1>0. PICK f \in Families : \E n \in 0..f.longest : toks \in [1..n -> f.tokens]
  BY DEF Init
<1>1. PICK n \in 0..f.longest : toks \in [1..n -> f.tokens]
  BY <1>0
<1>2. f.tokens \subseteq AllTokens /\ n \in Nat
  BY FamiliesAssumption
<1>3. toks \in Seq(AllTokens)
  <2>1. PICK S : S = f.tokens
    OBVIOUS
  <2>2. toks \in [1..n -> AllTokens]
    BY <1>1, <1>2, <2>1
  <2> QED BY <1>2, <2>2, SeqDef
<1>4. at \in 1..End
  BY <1>3, EndIs DEF Init
<1>5. status = "parsing"
  BY DEF Init
<1> QED BY <1>3, <1>4, <1>5 DEF Loose, FaultsOnlyAtLooseEnds

\* The tokens stay: so does what is loose in them.
LEMMA TokensStay ==
  ASSUME toks' = toks
  PROVE  End' = End /\ LooseEnd' = LooseEnd /\ LooseComma' = LooseComma
BY DEF End, LooseEnd, LooseComma, Occurrences, Is, Skip

\* and after every call; a call that answers has passed a token.
LEMMA LooseStep ==
  ASSUME Loose, [Next]_vars
  PROVE  Loose' /\ (status' = "parsing" /\ vars' # vars => at' > at)
<1>0. toks \in Seq(AllTokens) /\ at \in 1..End /\ End \in Nat
  BY EndIs DEF Loose
<1>1. toks' = toks
  BY DEF Next, ParseOne, Finish, vars
<1>2. /\ FaultsOnlyAtLooseEnds' <=> (status' = "behind" => LooseEnd) /\ (status' = "null" => LooseComma)
      /\ End' = End
  BY <1>1, TokensStay DEF FaultsOnlyAtLooseEnds, LooseEnd, LooseComma
<1>3. CASE ParseOne
  <2>1. PICK i \in 1..End : i = at /\ i < End
    BY <1>0, <1>3 DEF ParseOne
  <2>2. PICK r : r = Parse(i)
    OBVIOUS
  <2>3. IF r.kind = "ok" THEN at' = r.rem /\ status' = status ELSE status' = r.kind /\ at' = at
    BY <1>3, <2>1, <2>2 DEF ParseOne
  <2>4. /\ r.kind \in {"ok", "error", "behind", "null"}
        /\ r.kind = "behind" => LooseEnd
        /\ r.kind = "null" => LooseComma
        /\ r.kind = "ok" => r.rem \in 1..End /\ r.rem > i
    BY <1>0, <2>1, <2>2, ParseAnswers
  <2>5. status = "parsing"
    BY <1>3 DEF ParseOne
  <2>6. CASE r.kind = "ok"
    <3>1. at' \in 1..End /\ at' > at /\ status' = "parsing"
      BY <2>1, <2>3, <2>4, <2>5, <2>6
    <3> QED BY <1>0, <1>1, <1>2, <3>1 DEF Loose
  <2>7. CASE r.kind # "ok"
    <3>1. at' = at /\ status' \in {"error", "behind", "null"}
          /\ (status' = "behind" => LooseEnd) /\ (status' = "null" => LooseComma)
      BY <2>3, <2>4, <2>7
    <3> QED BY <1>0, <1>1, <1>2, <3>1 DEF Loose
  <2> QED BY <2>6, <2>7
<1>4. CASE Finish
  <2>1. at' = at /\ status' = "parsed"
    BY <1>4 DEF Finish
  <2> QED BY <1>0, <1>1, <1>2, <2>1 DEF Loose
<1>5. CASE UNCHANGED vars
  <2>1. at' = at /\ status' = status /\ vars' = vars
    BY <1>5 DEF vars
  <2>2. FaultsOnlyAtLooseEnds'
    BY <1>2, <2>1, LooseIs DEF Loose
  <2>3. status' \in {"parsing", "parsed", "error", "behind", "null"}
    BY <2>1 DEF Loose
  <2> QED BY <1>0, <1>1, <1>2, <2>1, <2>2, <2>3 DEF Loose
<1> QED BY <1>3, <1>4, <1>5 DEF Next

\* lemniParse, called over a module's tokens as lemniLoadModule does, reads
\* behind the last token only in a source that breaks off in a SPACE or a
\* NEWLINE, and a null expression only behind a comma that a ")" follows:
\* whatever the tokens and however many.
THEOREM FaultsAtLooseEnds == Spec => []FaultsOnlyAtLooseEnds
<1>1. Loose /\ [Next]_vars => Loose'
  BY LooseStep
<1>2. Loose => FaultsOnlyAtLooseEnds
  BY DEF Loose
<1> QED BY LooseInit, <1>1, <1>2, PTL DEF Spec

\* Every lemniParse that answers leaves the loader's loop fewer tokens.
THEOREM CallsConsume == Spec => EveryCallConsumes
<1>1. Loose /\ [Next]_vars => Loose'
  BY LooseStep
<1>2. Loose /\ [Next]_vars => [status' = "parsing" => at' > at]_vars
  BY LooseStep
<1> QED BY LooseInit, <1>1, <1>2, PTL DEF Spec, EveryCallConsumes

-----------------------------------------------------------------------------
(* The leaves of a list of expressions.                                    *)

\* Sequences of positions join in any grouping.
LEMMA Associates ==
  ASSUME NEW x \in Seq(Nat), NEW y \in Seq(Nat), NEW z \in Seq(Nat)
  PROVE  (x \o y) \o z = x \o (y \o z)
BY ConcatAssociative, SMTT(40)

Readable(e) == e.leaves \in Seq(Nat)
AllReadable(es) == List(es) /\ \A k \in DOMAIN es : Readable(es[k])

Sums(es, F) == /\ F \in [0..Len(es) -> Seq(Nat)] /\ F[0] = <<>>
               /\ \A k \in 1..Len(es) : F[k] = F[k - 1] \o es[k].leaves

\* A list of expressions is the function of its positions.
LEMMA ListIs ==
  ASSUME NEW es, List(es)
  PROVE  Len(es) \in Nat /\ DOMAIN es = 1..Len(es) /\ es = [k \in 1..Len(es) |-> es[k]]
<1>1. PICK S : es \in Seq(S)
  BY DEF List
<1> QED BY <1>1, LenProperties

\* Its leaves are those of its elements, summed from the left.
LEMMA LeavesSummed ==
  ASSUME NEW es, AllReadable(es)
  PROVE  \E F : Sums(es, F) /\ LeavesOf(es) = F[Len(es)]
<1>1. PICK L \in Nat : L = Len(es) /\ DOMAIN es = 1..L
  BY ListIs DEF AllReadable
<1>2. PICK ss : ss = [k \in 1..L |-> es[k].leaves]
  OBVIOUS
<1>3. ss \in Seq(Seq(Nat)) /\ Len(ss) = L /\ \A k \in 1..L : ss[k] \in Seq(Nat) /\ ss[k] = es[k].leaves
  BY <1>1, <1>2 DEF AllReadable, Readable
<1>4. LeavesOf(es) = FlattenSeq(ss)
  BY <1>1, <1>2 DEF LeavesOf
<1> DEFINE UpTo(j) == \E f : f = [i \in 1..j |-> IF i = 1 THEN ss[i] ELSE f[i - 1] \o ss[i]]
           T == {j \in 0..L : UpTo(L - j)}
<1>5. L \in T
  <2>1. PICK f : f = [i \in {} |-> ss]
    OBVIOUS
  <2>2. 1..(L - L) = {}
    BY <1>1
  <2>3. f = [i \in 1..(L - L) |-> IF i = 1 THEN ss[i] ELSE f[i - 1] \o ss[i]]
    BY <2>1, <2>2
  <2>4. UpTo(L - L) /\ L \in 0..L
    BY <1>1, <2>3
  <2> HIDE DEF UpTo
  <2> QED BY <2>4
<1>6. PICK j \in T : \A m \in T : j <= m
  <2>1. T \in SUBSET Nat
    <3> HIDE DEF UpTo
    <3> QED BY <1>1
  <2> HIDE DEF T
  <2> QED BY <1>5, <2>1, LeastNat
<1>7. j = 0
  <2> SUFFICES ASSUME j # 0 PROVE FALSE
    OBVIOUS
  <2>0. j \in 0..L /\ UpTo(L - j)
    BY <1>6
  <2>a. L - j \in Nat
    BY <2>0
  <2>1. PICK p \in Nat : p = L - j
    BY <2>a
  <2>2. PICK f : f = [i \in 1..p |-> IF i = 1 THEN ss[i] ELSE f[i - 1] \o ss[i]]
    BY <2>0, <2>1
  <2>3. PICK h \in Nat : h = j - 1
    BY <1>1, <2>0
  <2>4. h \in 0..L /\ ~(j <= h) /\ L - h = p + 1
    BY <1>1, <2>0, <2>1, <2>3
  <2>5. PICK x : x = IF p + 1 = 1 THEN ss[p + 1] ELSE f[p] \o ss[p + 1]
    OBVIOUS
  <2> DEFINE g == [i \in 1..(p + 1) |-> IF i = p + 1 THEN x ELSE f[i]]
  <2>6. ASSUME NEW i \in 1..(p + 1), i # 1 PROVE g[i - 1] = f[i - 1]
    <3>1. i - 1 \in 1..(p + 1) /\ i - 1 # p + 1
      <4> HIDE DEF g
      <4>1. p \in Nat /\ i \in 1..(p + 1) /\ i # 1
        BY <2>6
      <4> QED BY <4>1
    <3> QED BY <3>1
  <2>7. ASSUME NEW i \in 1..(p + 1) PROVE g[i] = IF i = 1 THEN ss[i] ELSE f[i - 1] \o ss[i]
    <3>1. CASE i = p + 1
      <4>1. i - 1 = p
        BY <2>1, <3>1
      <4> QED BY <2>5, <3>1, <4>1
    <3>2. CASE i # p + 1
      <4>1. i \in 1..p
        BY <2>1, <3>2
      <4> QED BY <2>2, <3>2, <4>1
    <3> QED BY <3>1, <3>2
  <2>8. g = [i \in 1..(p + 1) |-> IF i = 1 THEN ss[i] ELSE g[i - 1] \o ss[i]]
    <3>1. g = [i \in 1..(p + 1) |-> IF i = 1 THEN ss[i] ELSE f[i - 1] \o ss[i]]
      BY <2>7
    <3> HIDE DEF g
    <3> QED BY <2>6, <3>1
  <2>9. h \in T
    <3>1. UpTo(p + 1)
      <4> HIDE DEF g
      <4> QED BY <2>8
    <3> HIDE DEF UpTo
    <3> QED BY <2>4, <3>1
  <2> QED BY <1>6, <2>4, <2>9
<1>8. UpTo(L)
  <2>1. L - 0 = L
    BY <1>1
  <2> HIDE DEF UpTo
  <2> QED BY <1>6, <1>7, <2>1
<1> DEFINE c == CHOOSE f : f = [i \in 1..L |-> IF i = 1 THEN ss[i] ELSE f[i - 1] \o ss[i]]
<1>9. c = [i \in 1..L |-> IF i = 1 THEN ss[i] ELSE c[i - 1] \o ss[i]]
  BY <1>8
<1>10. FlattenSeq(ss) = IF L = 0 THEN ss ELSE c[L]
  BY <1>3 DEF FlattenSeq
<1> HIDE DEF c
<1> DEFINE F == [k \in 0..L |-> IF k = 0 THEN <<>> ELSE c[k]]
<1>11. \A k \in 1..L : F[k] = IF k = 1 THEN ss[k] ELSE F[k - 1] \o ss[k]
  <2> SUFFICES ASSUME NEW k \in 1..L PROVE F[k] = IF k = 1 THEN ss[k] ELSE F[k - 1] \o ss[k]
    OBVIOUS
  <2>1. k \in 0..L /\ k # 0 /\ k - 1 \in 0..L /\ (k # 1 => k - 1 # 0)
    BY <1>1
  <2>2. F[k] = c[k] /\ (k # 1 => F[k - 1] = c[k - 1])
    BY <2>1
  <2> HIDE DEF F
  <2> QED BY <1>9, <2>2
<1>12. F[0] = <<>>
  BY <1>1
<1>13. DOMAIN F = 0..L /\ F = [k \in 0..L |-> F[k]]
  OBVIOUS
<1>14. LeavesOf(es) = F[L]
  <2>1. L \in 0..L
    BY <1>1
  <2>2. L = 0 => ss = <<>>
    BY <1>2
  <2> QED BY <1>4, <1>10, <2>1, <2>2
<1> HIDE DEF F
<1>15. \A k \in 0..L : F[k] \in Seq(Nat)
  <2> SUFFICES ASSUME NEW b \in 0..L, F[b] \notin Seq(Nat) PROVE FALSE
    OBVIOUS
  <2> DEFINE W == {k \in 0..L : F[k] \notin Seq(Nat)}
  <2>1. PICK k \in W : \A m \in W : k <= m
    <3>1. W \in SUBSET Nat /\ W # {}
      OBVIOUS
    <3> HIDE DEF W
    <3> QED BY <3>1, LeastNat
  <2>2. k \in 0..L /\ F[k] \notin Seq(Nat)
    BY <2>1
  <2>3. k # 0
    <3>1. <<>> \in Seq(Nat)
      BY EmptySeq
    <3> QED BY <1>12, <2>2, <3>1
  <2>4. k \in 1..L /\ k - 1 \in 0..L /\ ~(k <= k - 1)
    BY <2>2, <2>3
  <2>5. F[k - 1] \in Seq(Nat)
    BY <2>1, <2>4
  <2>6. ss[k] \in Seq(Nat)
    BY <1>3, <2>4
  <2>7. F[k] = IF k = 1 THEN ss[k] ELSE F[k - 1] \o ss[k]
    BY <1>11, <2>4
  <2>8. F[k - 1] \o ss[k] \in Seq(Nat)
    BY <2>5, <2>6, ConcatProperties
  <2> QED BY <2>2, <2>6, <2>7, <2>8
<1>16. \A k \in 1..L : F[k] = F[k - 1] \o es[k].leaves
  <2> SUFFICES ASSUME NEW k \in 1..L PROVE F[k] = F[k - 1] \o es[k].leaves
    OBVIOUS
  <2>1. ss[k] = es[k].leaves /\ ss[k] \in Seq(Nat)
    BY <1>3
  <2>2. CASE k = 1
    <3>1. F[k - 1] = <<>> /\ F[k] = ss[k]
      BY <1>11, <1>12, <2>2
    <3>2. <<>> \o ss[k] = ss[k]
      BY <2>1, ConcatEmptySeq
    <3> QED BY <2>1, <3>1, <3>2
  <2>3. CASE k # 1
    BY <1>11, <2>1, <2>3
  <2> QED BY <2>2, <2>3
<1> QED BY <1>1, <1>12, <1>13, <1>14, <1>15, <1>16 DEF Sums

\* They are positions of tokens.
LEMMA LeavesReadable ==
  ASSUME NEW es, AllReadable(es)
  PROVE  LeavesOf(es) \in Seq(Nat)
<1>1. PICK F : Sums(es, F) /\ LeavesOf(es) = F[Len(es)]
  BY LeavesSummed
<1>2. Len(es) \in 0..Len(es)
  BY ListIs DEF AllReadable
<1> QED BY <1>1, <1>2 DEF Sums

\* A list of none has none,
LEMMA LeavesEmpty == AllReadable(<<>>) /\ LeavesOf(<<>>) = <<>>
<1>1. AllReadable(<<>>)
  BY ListEmpty DEF AllReadable
<1>2. PICK F : Sums(<<>>, F) /\ LeavesOf(<<>>) = F[Len(<<>>)]
  BY <1>1, LeavesSummed
<1> QED BY <1>1, <1>2 DEF Sums

\* a list of one has those of that one,
LEMMA LeavesOne ==
  ASSUME NEW e, Readable(e)
  PROVE  AllReadable(<<e>>) /\ LeavesOf(<<e>>) = e.leaves
<1>0. PICK es : es = <<e>>
  OBVIOUS
<1>1. List(es) /\ DOMAIN es = {1} /\ es[1] = e /\ Len(es) = 1
  BY <1>0, ListOne
<1>2. AllReadable(es)
  BY <1>1 DEF AllReadable
<1>3. PICK F : Sums(es, F) /\ LeavesOf(es) = F[Len(es)]
  BY <1>2, LeavesSummed
<1>4. F[1] = F[0] \o e.leaves /\ F[0] = <<>>
  <2>1. F[0] = <<>> /\ \A k \in 1..Len(es) : F[k] = F[k - 1] \o es[k].leaves
    BY <1>3 DEF Sums
  <2>2. 1 \in 1..Len(es) /\ 1 - 1 = 0
    BY <1>1
  <2>3. F[1] = F[1 - 1] \o es[1].leaves
    BY <2>1, <2>2
  <2> QED BY <1>1, <2>1, <2>2, <2>3
<1>5. <<>> \o e.leaves = e.leaves
  BY ConcatEmptySeq DEF Readable
<1> QED BY <1>0, <1>1, <1>2, <1>3, <1>4, <1>5

\* and two lists joined have those of the first, then those of the second.
LEMMA LeavesJoin ==
  ASSUME NEW es, NEW fs, AllReadable(es), AllReadable(fs)
  PROVE  AllReadable(es \o fs) /\ LeavesOf(es \o fs) = LeavesOf(es) \o LeavesOf(fs)
<1>1. PICK m, n : m = Len(es) /\ n = Len(fs)
  OBVIOUS
<1>2. /\ m \in Nat /\ DOMAIN es = 1..m
      /\ n \in Nat /\ DOMAIN fs = 1..n
  BY <1>1, ListIs DEF AllReadable
<1>3. PICK w : w = es \o fs
  OBVIOUS
<1>4. /\ List(w) /\ Len(w) = m + n /\ DOMAIN w = 1..(m + n)
      /\ \A k \in 1..(m + n) : w[k] = IF k <= m THEN es[k] ELSE fs[k - m]
  <2>1. PICK S, U : es \in Seq(S) /\ fs \in Seq(U)
    BY DEF AllReadable, List
  <2>2. PICK V : V = S \cup U
    OBVIOUS
  <2>3. es \in Seq(V) /\ fs \in Seq(V)
    <3>1. \A x : x \in Seq(S) => x \in Seq(S \cup U)
      OBVIOUS
    <3>2. \A x : x \in Seq(U) => x \in Seq(S \cup U)
      OBVIOUS
    <3> QED BY <2>1, <2>2, <3>1, <3>2
  <2>4. /\ w \in Seq(V) /\ Len(w) = m + n
        /\ \A k \in 1..(m + n) : w[k] = IF k <= m THEN es[k] ELSE fs[k - m]
    BY <1>1, <1>3, <2>3, ConcatProperties
  <2> QED BY <2>4, LenProperties DEF List
<1>5. AllReadable(w)
  <2> SUFFICES ASSUME NEW k \in 1..(m + n) PROVE Readable(w[k])
    BY <1>4 DEF AllReadable
  <2>1. CASE k <= m
    BY <1>2, <1>4, <2>1 DEF AllReadable
  <2>2. CASE ~(k <= m)
    <3>1. k - m \in 1..n
      BY <1>2, <2>2
    <3> QED BY <1>2, <1>4, <2>2, <3>1 DEF AllReadable
  <2> QED BY <2>1, <2>2
<1>6. PICK F : Sums(es, F) /\ LeavesOf(es) = F[m]
  BY <1>1, LeavesSummed
<1>7. PICK G : Sums(fs, G) /\ LeavesOf(fs) = G[n]
  BY <1>1, LeavesSummed
<1>8. PICK H : Sums(w, H) /\ LeavesOf(w) = H[m + n]
  BY <1>4, <1>5, LeavesSummed
<1>9. /\ F[0] = <<>> /\ \A k \in 1..m : F[k] = F[k - 1] \o es[k].leaves
      /\ G[0] = <<>> /\ \A k \in 1..n : G[k] = G[k - 1] \o fs[k].leaves
      /\ H[0] = <<>> /\ \A k \in 1..(m + n) : H[k] = H[k - 1] \o w[k].leaves
      /\ \A k \in 0..m : F[k] \in Seq(Nat)
      /\ \A k \in 0..n : G[k] \in Seq(Nat)
  BY <1>1, <1>4, <1>6, <1>7, <1>8 DEF Sums
<1>10. \A k \in 0..m : H[k] = F[k]
  <2> SUFFICES ASSUME NEW b \in 0..m, H[b] # F[b] PROVE FALSE
    OBVIOUS
  <2> DEFINE W == {k \in 0..m : H[k] # F[k]}
  <2>1. PICK k \in W : \A x \in W : k <= x
    <3>1. W \in SUBSET Nat /\ W # {}
      OBVIOUS
    <3> HIDE DEF W
    <3> QED BY <3>1, LeastNat
  <2>2. k \in 0..m /\ H[k] # F[k]
    BY <2>1
  <2>3. k # 0
    BY <1>9, <2>2
  <2>4. k \in 1..m /\ k - 1 \in 0..m /\ ~(k <= k - 1) /\ k \in 1..(m + n) /\ k <= m
    BY <1>2, <2>2, <2>3
  <2>5. H[k - 1] = F[k - 1]
    BY <2>1, <2>4
  <2>6. w[k] = es[k]
    BY <1>4, <2>4
  <2> QED BY <1>9, <2>2, <2>4, <2>5, <2>6
<1>11. \A k \in 0..n : H[m + k] = F[m] \o G[k]
  <2> SUFFICES ASSUME NEW b \in 0..n, H[m + b] # F[m] \o G[b] PROVE FALSE
    OBVIOUS
  <2> DEFINE Off(k) == H[m + k] # F[m] \o G[k]
             W == {k \in 0..n : Off(k)}
  <2>1. PICK k \in W : \A x \in W : k <= x
    <3>1. W \in SUBSET Nat /\ W # {}
      <4>1. Off(b)
        OBVIOUS
      <4> HIDE DEF Off
      <4> QED BY <4>1
    <3> HIDE DEF W
    <3> QED BY <3>1, LeastNat
  <2>2. k \in 0..n /\ H[m + k] # F[m] \o G[k]
    BY <2>1
  <2>a. m \in 0..m /\ F[m] \in Seq(Nat)
    BY <1>2, <1>9
  <2>3. k # 0
    <3> SUFFICES ASSUME k = 0 PROVE FALSE
      OBVIOUS
    <3>1. m + 0 = m
      BY <1>2
    <3>2. F[m] \o <<>> = F[m]
      BY <2>a, ConcatEmptySeq
    <3> QED BY <1>9, <1>10, <2>2, <2>a, <3>1, <3>2
  <2>4. /\ k \in 1..n /\ k - 1 \in 0..n /\ ~(k <= k - 1) /\ m + k \in 1..(m + n) /\ ~(m + k <= m)
        /\ (m + k) - m = k /\ (m + k) - 1 = m + (k - 1)
    BY <1>2, <2>2, <2>3
  <2>5. H[m + (k - 1)] = F[m] \o G[k - 1]
    BY <2>1, <2>4
  <2>6. w[m + k] = fs[k]
    BY <1>4, <2>4
  <2>7. H[m + k] = H[m + (k - 1)] \o fs[k].leaves
    BY <1>9, <2>4, <2>6
  <2>8. G[k] = G[k - 1] \o fs[k].leaves /\ G[k - 1] \in Seq(Nat)
    BY <1>9, <2>4
  <2>9. fs[k].leaves \in Seq(Nat)
    BY <1>2, <2>4 DEF AllReadable, Readable
  <2>10. (F[m] \o G[k - 1]) \o fs[k].leaves = F[m] \o (G[k - 1] \o fs[k].leaves)
    <3>1. PICK x, y, z : x = F[m] /\ y = G[k - 1] /\ z = fs[k].leaves
      OBVIOUS
    <3>2. x \in Seq(Nat) /\ y \in Seq(Nat) /\ z \in Seq(Nat)
      BY <2>a, <2>8, <2>9, <3>1
    <3>3. (x \o y) \o z = x \o (y \o z)
      BY <3>2, Associates, Zenon
    <3> QED BY <3>1, <3>3
  <2> QED BY <2>2, <2>5, <2>7, <2>8, <2>10
<1>12. LeavesOf(w) = F[m] \o G[n]
  <2>1. n \in 0..n
    BY <1>2
  <2>2. H[m + n] = F[m] \o G[n]
    BY <1>11, <2>1
  <2> QED BY <1>8, <2>2
<1> QED BY <1>3, <1>5, <1>6, <1>7, <1>12

-----------------------------------------------------------------------------
(* Leaves that are the operands of an interval.                            *)

\* No name or literal from one position to before another.
Free(from, to) == \A k \in from..(to - 1) : toks[k] \notin Operands

\* Layout and operators hold no operand.
LEMMA FreeOf ==
  ASSUME NEW a, NEW b, NEW kinds, \A k \in a..(b - 1) : toks[k] \in kinds, kinds \cap Operands = {}
  PROVE  Free(a, b)
BY DEF Free

\* Intervals with the same operands are spelled alike.
LEMMA SpellsSame ==
  ASSUME NEW s, NEW a, NEW b, NEW c, NEW d, Spells(s, a, b),
         {k \in a..(b - 1) : toks[k] \in Operands} = {k \in c..(d - 1) : toks[k] \in Operands}
  PROVE  Spells(s, c, d)
BY DEF Spells

\* So an interval grows and shrinks by what is free, at its end
LEMMA SpellsUpTo ==
  ASSUME NEW s, NEW a \in Nat, NEW b \in Nat, NEW d \in Nat, a <= b, b <= d, Free(b, d)
  PROVE  Spells(s, a, b) <=> Spells(s, a, d)
<1>1. ASSUME NEW k, toks[k] \in Operands PROVE k \in a..(b - 1) <=> k \in a..(d - 1)
  <2>1. k \notin b..(d - 1)
    BY <1>1 DEF Free
  <2> QED BY <2>1
<1>2. {k \in a..(b - 1) : toks[k] \in Operands} = {k \in a..(d - 1) : toks[k] \in Operands}
  BY <1>1
<1> QED BY <1>2, SpellsSame

\* and at its front.
LEMMA SpellsFrom ==
  ASSUME NEW s, NEW a \in Nat, NEW b \in Nat, NEW d \in Nat, a <= b, b <= d, Free(a, b)
  PROVE  Spells(s, b, d) <=> Spells(s, a, d)
<1>1. ASSUME NEW k, toks[k] \in Operands PROVE k \in b..(d - 1) <=> k \in a..(d - 1)
  <2>1. k \notin a..(b - 1)
    BY <1>1 DEF Free
  <2> QED BY <2>1
<1>2. {k \in b..(d - 1) : toks[k] \in Operands} = {k \in a..(d - 1) : toks[k] \in Operands}
  BY <1>1
<1> QED BY <1>2, SpellsSame

\* An interval without one has no leaves,
LEMMA SpellsNone ==
  ASSUME NEW a, NEW b, Free(a, b)
  PROVE  Spells(<<>>, a, b)
<1>1. DOMAIN <<>> = {} /\ {k \in a..(b - 1) : toks[k] \in Operands} = {}
  BY DEF Free
<1>2. ToSet(<<>>) = {}
  BY <1>1 DEF ToSet
<1> QED BY <1>1, <1>2 DEF Spells

\* and that of an operand itself.
LEMMA SpellsOne ==
  ASSUME NEW a \in Nat, toks[a] \in Operands
  PROVE  Spells(<<a>>, a, a + 1)
<1>1. DOMAIN <<a>> = {1} /\ <<a>>[1] = a
  OBVIOUS
<1>2. ToSet(<<a>>) = {a}
  BY <1>1 DEF ToSet
<1>3. {k \in a..((a + 1) - 1) : toks[k] \in Operands} = {a}
  <2>1. a..((a + 1) - 1) = {a}
    OBVIOUS
  <2> QED BY <2>1
<1> QED BY <1>1, <1>2, <1>3 DEF Spells

\* Leaves of adjacent intervals are those of both.
LEMMA SpellsJoin ==
  ASSUME NEW s \in Seq(Nat), NEW t \in Seq(Nat), NEW a \in Nat, NEW b \in Nat, NEW c \in Nat,
         a <= b, b <= c, Spells(s, a, b), Spells(t, b, c)
  PROVE  Spells(s \o t, a, c)
<1>1. PICK m \in Nat, n \in Nat : /\ m = Len(s) /\ n = Len(t)
                                  /\ DOMAIN s = 1..m /\ DOMAIN t = 1..n
  BY LenProperties
<1>2. PICK w : w = s \o t
  OBVIOUS
<1>3. /\ w \in Seq(Nat) /\ DOMAIN w = 1..(m + n)
      /\ \A k \in 1..(m + n) : w[k] = IF k <= m THEN s[k] ELSE t[k - m]
  <2>1. w \in Seq(Nat) /\ Len(w) = m + n
    BY <1>1, <1>2, ConcatProperties
  <2> QED BY <1>1, <1>2, <2>1, ConcatProperties, LenProperties
<1>4. PICK S, T : S = {k \in a..(b - 1) : toks[k] \in Operands} /\ T = {k \in b..(c - 1) : toks[k] \in Operands}
  OBVIOUS
<1>5. /\ \A k \in 1..m : s[k] \in S
      /\ \A k \in 1..n : t[k] \in T
      /\ \A x \in S : \E k \in 1..m : x = s[k]
      /\ \A x \in T : \E k \in 1..n : x = t[k]
  <2>1. ToSet(s) = S /\ ToSet(t) = T
    BY <1>4 DEF Spells
  <2> QED BY <1>1, <2>1 DEF ToSet
<1>6. \A x \in S, y \in T : x < y
  BY <1>4
<1>7. \A j, k \in 1..m : j < k => s[j] < s[k]
  BY <1>1 DEF Spells
<1>8. \A j, k \in 1..n : j < k => t[j] < t[k]
  BY <1>1 DEF Spells
<1>9. ASSUME NEW j \in 1..(m + n), NEW k \in 1..(m + n), j < k PROVE w[j] < w[k]
  <2>1. CASE k <= m
    <3>1. j \in 1..m /\ k \in 1..m
      BY <1>9, <2>1
    <3>2. w[j] = s[j] /\ w[k] = s[k]
      BY <1>3, <3>1
    <3> QED BY <1>7, <1>9, <3>1, <3>2
  <2>2. CASE j <= m /\ ~(k <= m)
    <3>1. j \in 1..m /\ k - m \in 1..n
      BY <2>2
    <3>2. w[j] = s[j] /\ w[k] = t[k - m]
      BY <1>3, <2>2
    <3>3. s[j] \in S /\ t[k - m] \in T
      BY <1>5, <3>1
    <3> QED BY <1>6, <3>2, <3>3
  <2>3. CASE ~(j <= m) /\ ~(k <= m)
    <3>1. j - m \in 1..n /\ k - m \in 1..n /\ j - m < k - m
      BY <1>9, <2>3
    <3>2. w[j] = t[j - m] /\ w[k] = t[k - m]
      BY <1>3, <2>3
    <3> QED BY <1>8, <3>1, <3>2
  <2> QED BY <1>9, <2>1, <2>2, <2>3
<1>10. ToSet(w) = S \cup T
  <2>1. ASSUME NEW x \in ToSet(w) PROVE x \in S \cup T
    <3>1. PICK k \in 1..(m + n) : x = w[k]
      BY <1>3 DEF ToSet
    <3>2. CASE k <= m
      <4>1. k \in 1..m
        BY <3>2
      <4> QED BY <1>3, <1>5, <3>1, <3>2, <4>1
    <3>3. CASE ~(k <= m)
      <4>1. k - m \in 1..n
        BY <3>3
      <4> QED BY <1>3, <1>5, <3>1, <3>3, <4>1
    <3> QED BY <3>2, <3>3
  <2>2. ASSUME NEW x \in S PROVE x \in ToSet(w)
    <3>1. PICK k \in 1..m : x = s[k]
      BY <1>5
    <3>2. k \in 1..(m + n) /\ w[k] = x
      BY <1>3, <3>1
    <3> QED BY <1>3, <3>2 DEF ToSet
  <2>3. ASSUME NEW x \in T PROVE x \in ToSet(w)
    <3>1. PICK k \in 1..n : x = t[k]
      BY <1>5
    <3>2. m + k \in 1..(m + n) /\ ~(m + k <= m) /\ (m + k) - m = k
      OBVIOUS
    <3>3. w[m + k] = x
      BY <1>3, <3>1, <3>2
    <3> QED BY <1>3, <3>2, <3>3 DEF ToSet
  <2> QED BY <2>1, <2>2, <2>3
<1>11. S \cup T = {k \in a..(c - 1) : toks[k] \in Operands}
  BY <1>4
<1> QED BY <1>2, <1>3, <1>9, <1>10, <1>11 DEF Spells

-----------------------------------------------------------------------------
(* Expressions whose parts account for their leaves.                       *)

Whole(e) ==
  /\ Readable(e)
  /\ e.tag = "binary" => /\ Readable(e.parts[1]) /\ Readable(e.parts[2])
                         /\ e.leaves = e.parts[1].leaves \o e.parts[2].leaves
  /\ e.tag \in {"app", "comma", "tuple"} => AllReadable(e.parts) /\ e.leaves = LeavesOf(e.parts)
  /\ e.tag = "null" => e.leaves = <<>>

\* A missing expression has no leaves,
LEMMA NullWhole == Whole(Null)
<1>1. <<>> \in Seq(Nat)
  BY EmptySeq
<1> QED BY <1>1 DEF Whole, Null, Readable

\* and a reference or a literal has itself.
LEMMA LeafWhole ==
  ASSUME NEW i \in Nat
  PROVE  Whole(Leaf(i)) /\ Leaf(i).leaves = <<i>>
<1>1. <<i>> \in Seq(Nat)
  OBVIOUS
<1> QED BY <1>1 DEF Whole, Leaf, Readable

\* An expression of a list of others.
LEMMA ExprWhole ==
  ASSUME NEW tag, tag \notin {"binary", "null"}, NEW es, AllReadable(es)
  PROVE  Whole(Expr(tag, es)) /\ Expr(tag, es).leaves = LeavesOf(es) /\ Expr(tag, es).tag = tag
<1>1. LeavesOf(es) \in Seq(Nat)
  BY LeavesReadable
<1>2. PICK ls : ls = LeavesOf(es)
  OBVIOUS
<1>3. PICK e : e = Expr(tag, es)
  OBVIOUS
<1>4. e.tag = tag /\ e.parts = es /\ e.leaves = ls
  BY <1>2, <1>3 DEF Expr
<1> QED BY <1>1, <1>2, <1>3, <1>4 DEF Whole, Readable

\* An operation, of operands that are readable.
LEMMA BinaryExprWhole ==
  ASSUME NEW op, NEW l, NEW r, Readable(l), Readable(r)
  PROVE  Whole(BinaryExpr(op, l, r)) /\ BinaryExpr(op, l, r).leaves = l.leaves \o r.leaves
<1>1. PICK x, y : x = l.leaves /\ y = r.leaves
  OBVIOUS
<1>2. x \o y \in Seq(Nat)
  BY <1>1, ConcatProperties DEF Readable
<1>3. PICK e : e = BinaryExpr(op, l, r)
  OBVIOUS
<1>4. e.tag = "binary" /\ e.parts[1] = l /\ e.parts[2] = r /\ e.leaves = x \o y
  BY <1>1, <1>3 DEF BinaryExpr
<1> QED BY <1>1, <1>2, <1>3, <1>4 DEF Whole, Readable

\* parseBinop's rotation keeps the leaves in their order.
LEMMA BinaryWhole ==
  ASSUME NEW op, NEW l, NEW r, Readable(l), Whole(r)
  PROVE  Whole(Binary(op, l, r)) /\ Binary(op, l, r).leaves = l.leaves \o r.leaves
<1>1. CASE r.tag = "binary" /\ Precedence(op) < Precedence(r.op)
  <2>1. PICK p, q, o : p = r.parts[1] /\ q = r.parts[2] /\ o = r.op
    OBVIOUS
  <2>2. Readable(p) /\ Readable(q)
    BY <1>1, <2>1 DEF Whole
  <2>r. r.leaves = p.leaves \o q.leaves
    BY <1>1, <2>1 DEF Whole
  <2>3. PICK b : b = BinaryExpr(op, l, p)
    OBVIOUS
  <2>w. Whole(BinaryExpr(op, l, p)) /\ BinaryExpr(op, l, p).leaves = l.leaves \o p.leaves
    BY <2>2, BinaryExprWhole
  <2>4. Whole(b) /\ b.leaves = l.leaves \o p.leaves
    BY <2>3, <2>w
  <2>b. Readable(b)
    BY <2>4 DEF Whole
  <2>5. Binary(op, l, r) = BinaryExpr(o, b, q)
    BY <1>1, <2>1, <2>3 DEF Binary
  <2>6. Whole(BinaryExpr(o, b, q)) /\ BinaryExpr(o, b, q).leaves = b.leaves \o q.leaves
    BY <2>2, <2>b, BinaryExprWhole
  <2>7. PICK x, y, z : x = l.leaves /\ y = p.leaves /\ z = q.leaves
    OBVIOUS
  <2>a. x \in Seq(Nat) /\ y \in Seq(Nat) /\ z \in Seq(Nat)
    BY <2>2, <2>7 DEF Readable
  <2>8. (x \o y) \o z = x \o (y \o z)
    BY <2>a, Associates, Zenon
  <2> QED BY <2>r, <2>4, <2>5, <2>6, <2>7, <2>8
<1>2. CASE ~(r.tag = "binary" /\ Precedence(op) < Precedence(r.op))
  <2>1. Binary(op, l, r) = BinaryExpr(op, l, r)
    BY <1>2 DEF Binary
  <2>2. Readable(r)
    BY DEF Whole
  <2>3. Whole(BinaryExpr(op, l, r)) /\ BinaryExpr(op, l, r).leaves = l.leaves \o r.leaves
    BY <2>2, BinaryExprWhole
  <2> QED BY <2>1, <2>3
<1> QED BY <1>1, <1>2

\* A unary operation has its operand's.
LEMMA UnaryExprWhole ==
  ASSUME NEW op, NEW e, Readable(e)
  PROVE  Whole(UnaryExpr(op, e)) /\ UnaryExpr(op, e).leaves = e.leaves
BY DEF Whole, Readable, UnaryExpr

\* parseUnaryOp.
LEMMA UnaryWhole ==
  ASSUME NEW op, NEW e, Whole(e)
  PROVE  Whole(Unary(op, e)) /\ Unary(op, e).leaves = e.leaves
<1>1. CASE e.tag = "binary"
  <2>1. PICK p, q, o : p = e.parts[1] /\ q = e.parts[2] /\ o = e.op
    OBVIOUS
  <2>2. Readable(p) /\ Readable(q)
    BY <1>1, <2>1 DEF Whole
  <2>r. e.leaves = p.leaves \o q.leaves
    BY <1>1, <2>1 DEF Whole
  <2>3. PICK u : u = UnaryExpr(op, p)
    OBVIOUS
  <2>w. Whole(UnaryExpr(op, p)) /\ UnaryExpr(op, p).leaves = p.leaves
    BY <2>2, UnaryExprWhole
  <2>4. u.leaves = p.leaves
    BY <2>3, <2>w
  <2>b. Readable(u)
    BY <2>3, <2>w DEF Whole
  <2>5. Unary(op, e) = BinaryExpr(o, u, q)
    BY <1>1, <2>1, <2>3 DEF Unary
  <2>6. Whole(BinaryExpr(o, u, q)) /\ BinaryExpr(o, u, q).leaves = u.leaves \o q.leaves
    BY <2>2, <2>b, BinaryExprWhole
  <2> QED BY <2>r, <2>4, <2>5, <2>6
<1>2. CASE e.tag # "binary"
  <2>1. Unary(op, e) = UnaryExpr(op, e)
    BY <1>2 DEF Unary
  <2>2. Readable(e)
    BY DEF Whole
  <2> QED BY <2>1, <2>2, UnaryExprWhole
<1> QED BY <1>1, <1>2

\* An application of a function to a list.
LEMMA AppWhole ==
  ASSUME NEW fn, Readable(fn), NEW es, AllReadable(es)
  PROVE  Whole(App(fn, es)) /\ App(fn, es).leaves = fn.leaves \o LeavesOf(es)
<1>1. PICK f : f = <<fn>> /\ AllReadable(f) /\ LeavesOf(f) = fn.leaves
  BY LeavesOne
<1>2. AllReadable(f \o es) /\ LeavesOf(f \o es) = fn.leaves \o LeavesOf(es)
  BY <1>1, LeavesJoin
<1>3. PICK w : w = f \o es
  OBVIOUS
<1>4. App(fn, es) = Expr("app", w)
  BY <1>1, <1>3 DEF App
<1>5. Whole(Expr("app", w)) /\ Expr("app", w).leaves = LeavesOf(w)
  BY <1>2, <1>3, ExprWhole
<1> QED BY <1>2, <1>3, <1>4, <1>5

\* parseApplication, whether it flattens, splits or neither.
LEMMA ApplyWhole ==
  ASSUME NEW fn, Readable(fn), NEW e, Whole(e)
  PROVE  Whole(Apply(fn, e)) /\ Apply(fn, e).leaves = fn.leaves \o e.leaves
<1>1. CASE e.tag = "binary"
  <2>1. PICK p, q, o : p = e.parts[1] /\ q = e.parts[2] /\ o = e.op
    OBVIOUS
  <2>2. Readable(p) /\ Readable(q)
    BY <1>1, <2>1 DEF Whole
  <2>r. e.leaves = p.leaves \o q.leaves
    BY <1>1, <2>1 DEF Whole
  <2>3. PICK ps : ps = <<p>> /\ AllReadable(ps) /\ LeavesOf(ps) = p.leaves
    BY <2>2, LeavesOne
  <2>4. PICK a : a = App(fn, ps)
    OBVIOUS
  <2>5. Whole(a) /\ a.leaves = fn.leaves \o p.leaves
    BY <2>3, <2>4, AppWhole
  <2>b. Readable(a)
    BY <2>5 DEF Whole
  <2>6. Apply(fn, e) = BinaryExpr(o, a, q)
    BY <1>1, <2>1, <2>3, <2>4 DEF Apply
  <2>7. Whole(BinaryExpr(o, a, q)) /\ BinaryExpr(o, a, q).leaves = a.leaves \o q.leaves
    BY <2>2, <2>b, BinaryExprWhole
  <2>8. PICK x, y, z : x = fn.leaves /\ y = p.leaves /\ z = q.leaves
    OBVIOUS
  <2>a. x \in Seq(Nat) /\ y \in Seq(Nat) /\ z \in Seq(Nat)
    BY <2>2, <2>8 DEF Readable
  <2>9. (x \o y) \o z = x \o (y \o z)
    BY <2>a, Associates, Zenon
  <2> QED BY <2>r, <2>5, <2>6, <2>7, <2>8, <2>9
<1>2. CASE e.tag # "binary"
  <2>1. PICK es : es = IF e.tag = "app" THEN e.parts ELSE <<e>>
    OBVIOUS
  <2>2. Apply(fn, e) = App(fn, es)
    BY <1>2, <2>1 DEF Apply
  <2>3. AllReadable(es) /\ LeavesOf(es) = e.leaves
    <3>1. CASE e.tag = "app"
      BY <2>1, <3>1 DEF Whole
    <3>2. CASE e.tag # "app"
      BY <2>1, <3>2, LeavesOne DEF Whole
    <3> QED BY <3>1, <3>2
  <2> QED BY <2>2, <2>3, AppWhole
<1> QED BY <1>1, <1>2

\* What a "(" holds.
LEMMA ElementsWhole ==
  ASSUME NEW e, Whole(e)
  PROVE  AllReadable(Elements(e)) /\ LeavesOf(Elements(e)) = e.leaves
<1>1. CASE e.tag \in {"comma", "tuple"}
  BY <1>1 DEF Elements, Whole
<1>2. CASE e.tag = "null"
  BY <1>2, LeavesEmpty DEF Elements, Whole
<1>3. CASE e.tag \notin {"comma", "tuple", "null"}
  <2>1. Elements(e) = <<e>>
    BY <1>3 DEF Elements
  <2> QED BY <2>1, LeavesOne DEF Whole
<1> QED BY <1>1, <1>2, <1>3

\* A list of two.
LEMMA LeavesTwo ==
  ASSUME NEW d, NEW e, Readable(d), Readable(e)
  PROVE  AllReadable(<<d, e>>) /\ LeavesOf(<<d, e>>) = d.leaves \o e.leaves
<1>1. PICK f : f = <<d>> /\ AllReadable(f) /\ LeavesOf(f) = d.leaves
  BY LeavesOne
<1>2. PICK g : g = <<e>> /\ AllReadable(g) /\ LeavesOf(g) = e.leaves
  BY LeavesOne
<1>3. f \o g = <<d, e>>
  <2>1. PICK S : S = {d, e}
    OBVIOUS
  <2>2. f \in Seq(S) /\ Len(f) = 1 /\ f[1] = d /\ g \in Seq(S) /\ Len(g) = 1 /\ g[1] = e
    BY <1>1, <1>2, <2>1
  <2>3. PICK u : u = <<d, e>>
    OBVIOUS
  <2>4. u \in Seq(S) /\ Len(u) = 2 /\ u[1] = d /\ u[2] = e
    BY <2>1, <2>3
  <2>5. PICK w : w = f \o g
    OBVIOUS
  <2>6. w \in Seq(S) /\ Len(w) = 2 /\ \A k \in 1..2 : w[k] = IF k <= 1 THEN f[k] ELSE g[k - 1]
    BY <2>2, <2>5, ConcatProperties
  <2>7. w[1] = d /\ w[2] = e
    BY <2>2, <2>6
  <2>8. \A k \in 1..Len(w) : w[k] = u[k]
    BY <2>4, <2>6, <2>7
  <2>9. w = u
    BY <2>4, <2>6, <2>8, SeqEqual
  <2> QED BY <2>3, <2>5, <2>9
<1>4. AllReadable(f \o g) /\ LeavesOf(f \o g) = d.leaves \o e.leaves
  BY <1>1, <1>2, LeavesJoin
<1> QED BY <1>3, <1>4

-----------------------------------------------------------------------------
(* What an answer accounts for, when it began at s.                        *)

Read(r, s) ==
  r.kind = "ok" =>
    /\ Whole(r.expr)
    /\ Spells(r.expr.leaves, s, r.rem)
    /\ r.rem \in {r.delim, r.delim + 1}
    /\ ~Is(r.delim, Operands)
    /\ r.expr.tag = "comma" => \E c \in s..Len(toks) : toks[c] = "comma"

\* What parseInner promises of every position from i on.
Reads(inner, i) == \A k \in i..End : Answered(inner[k], k) /\ Read(inner[k], k)

\* The two promises apart.
LEMMA ReadsIs ==
  ASSUME NEW i, NEW inner, Reads(inner, i)
  PROVE  From(inner, i) /\ \A k \in i..End : Sound(inner[k], k) /\ Read(inner[k], k)
BY DEF Reads, From, Answered

\* What is promised of all positions from i on is of those from k on.
LEMMA ReadsLater ==
  ASSUME toks \in Seq(AllTokens), NEW i \in 1..End, NEW k \in i..End, NEW inner, Reads(inner, i)
  PROVE  Reads(inner, k)
<1>1. \A m \in k..End : m \in i..End
  BY EndIs
<1> QED BY <1>1 DEF Reads

\* The tokens that stand for something else.
LEMMA LayoutFree ==
  /\ \A a, b : (\A k \in a..(b - 1) : toks[k] \in {"SPACE"}) => Free(a, b)
  /\ \A a, b : (\A k \in a..(b - 1) : toks[k] \in {"COMMENT"}) => Free(a, b)
  /\ \A x \in Operators \cup OpenBracket \cup CloseBracket \cup Layout : x \notin Operands
BY DEF Free, Operands, Ids, Literals, Operators, BinaryOps, UnaryOps, OpenBracket, CloseBracket, Layout

\* One token that is none.
LEMMA StepFree ==
  ASSUME NEW i \in Nat, ~Is(i, Operands), i < End
  PROVE  Free(i, i + 1)
<1>1. i..((i + 1) - 1) = {i}
  OBVIOUS
<1> QED BY <1>1 DEF Free, Is

\* An answer that begins behind what is free.
LEMMA ReadEarlier ==
  ASSUME toks \in Seq(AllTokens), NEW i \in 1..End, NEW k \in i..End, Free(i, k),
         NEW r, Sound(r, k), Read(r, k)
  PROVE  Read(r, i)
<1> SUFFICES ASSUME r.kind = "ok" PROVE Read(r, i)
  BY DEF Read
<1>0. End \in Nat /\ i \in Nat /\ k \in Nat /\ i <= k
  BY EndIs
<1>e. PICK e : e = r.expr
  OBVIOUS
<1>m. PICK m \in k..End : m = r.rem
  BY DEF Sound
<1>1. e = r.expr /\ m = r.rem
  BY <1>e, <1>m
<1>2. m \in Nat /\ k <= m
  BY <1>0
<1>3. Spells(e.leaves, k, m)
  BY <1>1 DEF Read
<1>4. Spells(e.leaves, i, m)
  BY <1>0, <1>2, <1>3, SpellsFrom
<1>5. e.tag = "comma" => \E c \in i..Len(toks) : toks[c] = "comma"
  <2> SUFFICES ASSUME e.tag = "comma" PROVE \E c \in i..Len(toks) : toks[c] = "comma"
    OBVIOUS
  <2>1. PICK c \in k..Len(toks) : toks[c] = "comma"
    BY <1>1 DEF Read
  <2>2. c \in i..Len(toks)
    BY <1>0, EndIs
  <2> QED BY <2>1, <2>2
<1> QED BY <1>1, <1>4, <1>5 DEF Read

\* The leaves are those before the token an answer stopped at, as they are those
\* before the token its caller resumes at.
LEMMA ReadTo ==
  ASSUME toks \in Seq(AllTokens), NEW i \in 1..End, NEW k \in i..End, NEW r, Sound(r, k), Read(r, i),
         r.kind = "ok"
  PROVE  Spells(r.expr.leaves, i, r.delim)
<1>0. End \in Nat /\ i \in Nat /\ k \in Nat /\ i <= k
  BY EndIs
<1>e. PICK e : e = r.expr
  OBVIOUS
<1>m. PICK m \in k..End, d \in k..End : m = r.rem /\ d = r.delim
  BY DEF Sound
<1>1. e = r.expr /\ m = r.rem /\ d = r.delim
  BY <1>e, <1>m
<1>2. Spells(e.leaves, i, m) /\ m \in {d, d + 1} /\ ~Is(d, Operands)
  BY <1>1 DEF Read
<1>3. CASE m = d
  BY <1>1, <1>2, <1>3
<1>4. CASE m # d
  <2>1. m = d + 1 /\ d < End /\ d \in Nat /\ m \in Nat /\ i <= d /\ d <= m
    BY <1>0, <1>2, <1>4
  <2>2. Free(d, m)
    BY <1>2, <2>1, StepFree
  <2>3. Spells(e.leaves, i, d)
    BY <1>0, <1>2, <2>1, <2>2, SpellsUpTo
  <2> QED BY <1>1, <2>3
<1> QED BY <1>3, <1>4

\* An error accounts for nothing.
LEMMA FailuresRead ==
  \A s : Read(Error, s) /\ Read(ReadBehind, s) /\ Read(NullRead, s)
BY DEF Read, Error, ReadBehind, NullRead, Failed

\* parseParenInner.
LEMMA ParenInnerRead ==
  ASSUME toks \in Seq(AllTokens), NEW i \in 1..End, NEW inner, Reads(inner, i),
         ParenInner(inner, i).kind = "ok"
  PROVE  LET p == ParenInner(inner, i) IN
         /\ Whole(p.expr) /\ p.expr.tag = "tuple" /\ AllReadable(p.expr.parts)
         /\ p.expr.leaves = LeavesOf(p.expr.parts)
         /\ Spells(p.expr.leaves, i, p.delim)
<1>0. End \in Nat
  BY EndIs
<1>1. PICK j \in i..End : j = SkipWs(i) /\ \A k \in i..(j - 1) : toks[k] \in {"SPACE"}
  BY SkipStops DEF SkipWs
<1>2. PICK r : r = inner[j]
  OBVIOUS
<1>3. Sound(r, j) /\ Read(r, i)
  <2>1. Sound(r, j) /\ Read(r, j)
    BY <1>2, ReadsIs
  <2>2. Free(i, j)
    BY <1>1, LayoutFree
  <2> QED BY <2>1, <2>2, ReadEarlier
<1>4. j # End /\ r.kind = "ok" /\ Is(r.delim, {")"})
  <2>1. ParenInner(inner, i) =
          IF j = End THEN Error
          ELSE IF r.kind = "ok"
               THEN IF ~Is(r.delim, {")"}) THEN Error
                    ELSE Ok(Tuple(Elements(r.expr)), r.delim + 1, r.delim)
               ELSE r
    BY <1>1, <1>2 DEF ParenInner, Then, Unclosed
  <2>2. Error.kind # "ok"
    BY DEF Error, Failed
  <2> QED BY <2>1, <2>2
<1>5. ParenInner(inner, i) = Ok(Tuple(Elements(r.expr)), r.delim + 1, r.delim)
  BY <1>1, <1>2, <1>4 DEF ParenInner, Then
<1>6. PICK x : x = r.expr /\ Whole(x)
  BY <1>3, <1>4 DEF Read
<1>7. PICK es : es = Elements(x)
  OBVIOUS
<1>8. AllReadable(es) /\ LeavesOf(es) = x.leaves
  BY <1>6, <1>7, ElementsWhole
<1>9. PICK t : t = Tuple(es)
  OBVIOUS
<1>10. t = Expr("tuple", es) /\ t.parts = es
  BY <1>9 DEF Tuple, Expr
<1>11. Whole(t) /\ t.leaves = LeavesOf(es) /\ t.tag = "tuple"
  <2>1. "tuple" \notin {"binary", "null"}
    OBVIOUS
  <2> QED BY <1>8, <1>10, <2>1, ExprWhole
<1>12. Spells(x.leaves, i, r.delim)
  BY <1>3, <1>4, <1>6, ReadTo
<1>13. ParenInner(inner, i).expr = t /\ ParenInner(inner, i).delim = r.delim
  BY <1>5, <1>6, <1>7, <1>9 DEF Ok
<1> QED BY <1>8, <1>10, <1>11, <1>12, <1>13

\* parseFnDef's body.
LEMMA FnBodyRead ==
  ASSUME toks \in Seq(AllTokens), NEW i \in 1..End, NEW inner, Reads(inner, i)
  PROVE  Read(FnBody(inner, i), i)
<1>0. End \in Nat /\ i \in i..End /\ i \in Nat
  BY EndIs
<1>1. CASE ~Is(i, {"NEWLINE"})
  <2>1. FnBody(inner, i) = inner[i]
    BY <1>1 DEF FnBody
  <2> QED BY <1>0, <2>1, ReadsIs
<1>2. CASE Is(i, {"NEWLINE"}) /\ i + 1 # End /\ Is(i + 1, {"INDENT"})
  <2>1. PICK k \in i..End : k = i + 1
    <3>1. i + 1 \in 1..End
      BY <1>2, IsInside
    <3> QED BY <1>0, <3>1
  <2>2. FnBody(inner, i) = inner[k]
    BY <1>2, <2>1 DEF FnBody
  <2>3. Sound(inner[k], k) /\ Read(inner[k], k)
    BY ReadsIs
  <2>4. i < End /\ ~Is(i, Operands)
    <3>1. i < End /\ toks[i] = "NEWLINE"
      <4>1. i < End /\ toks[i] \in {"NEWLINE"}
        BY <1>2, IsInside
      <4> QED BY <4>1
    <3>2. "NEWLINE" \notin Operands
      BY LayoutFree DEF Layout
    <3> QED BY <3>1, <3>2 DEF Is
  <2>5. Free(i, k)
    BY <1>0, <2>1, <2>4, StepFree
  <2> QED BY <2>2, <2>3, <2>5, ReadEarlier
<1>3. CASE Is(i, {"NEWLINE"}) /\ ~(i + 1 # End /\ Is(i + 1, {"INDENT"}))
  <2>1. FnBody(inner, i) \in {Error, ReadBehind}
    BY <1>3 DEF FnBody
  <2> QED BY <2>1, FailuresRead
<1> QED BY <1>1, <1>2, <1>3

\* A token that is no operand, and the spaces behind it.
LEMMA GapFree ==
  ASSUME toks \in Seq(AllTokens), NEW i \in 1..End, NEW kinds, kinds \cap Operands = {}, Is(i, kinds)
  PROVE  /\ i < End /\ i + 1 \in 1..End /\ Free(i, i + 1)
         /\ SkipWs(i + 1) \in (i + 1)..End /\ Free(i, SkipWs(i + 1))
<1>0. End \in Nat
  BY EndIs
<1>1. i < End /\ toks[i] \in kinds /\ i + 1 \in 1..End /\ i \in Nat
  BY IsInside
<1>2. Free(i, i + 1)
  BY <1>1, StepFree DEF Is
<1>3. PICK k \in (i + 1)..End : k = SkipWs(i + 1) /\ \A x \in (i + 1)..(k - 1) : toks[x] \in {"SPACE"}
  BY <1>1, SkipStops DEF SkipWs
<1>4. Free(i + 1, k)
  BY <1>3, LayoutFree
<1>5. Free(i, k)
  <2> SUFFICES ASSUME NEW x \in i..(k - 1) PROVE toks[x] \notin Operands
    BY DEF Free
  <2>1. x \in i..((i + 1) - 1) \/ x \in (i + 1)..(k - 1)
    BY <1>0, <1>1
  <2> QED BY <1>2, <1>4, <2>1 DEF Free
<1> QED BY <1>1, <1>2, <1>3, <1>5

\* What was read before an answer, and the answer.
LEMMA ReadJoin ==
  ASSUME toks \in Seq(AllTokens), NEW i \in 1..End, NEW s \in 1..i, NEW k \in i..End, Free(i, k),
         NEW ls \in Seq(Nat), Spells(ls, s, i),
         NEW r, Sound(r, k), Read(r, k), r.kind = "ok"
  PROVE  /\ Spells(ls \o r.expr.leaves, s, r.rem)
         /\ Spells(ls \o r.expr.leaves, s, r.delim)
<1>0. End \in Nat /\ i \in Nat /\ k \in Nat /\ s \in Nat /\ s <= i /\ i <= k
  BY EndIs
<1>e. PICK e : e = r.expr
  OBVIOUS
<1>m. PICK m \in k..End, d \in k..End : m = r.rem /\ d = r.delim
  BY DEF Sound
<1>1. m \in Nat /\ k <= m /\ d \in Nat /\ k <= d
  BY <1>0
<1>2. k \in 1..End /\ k \in k..End
  BY <1>0
<1>3. e.leaves \in Seq(Nat)
  BY <1>e DEF Read, Whole, Readable
<1>4. Spells(e.leaves, k, m)
  BY <1>e, <1>m DEF Read
<1>5. Spells(e.leaves, k, d)
  BY <1>2, <1>e, <1>m, ReadTo
<1>6. Spells(ls, s, k)
  BY <1>0, SpellsUpTo
<1>7. PICK t \in Seq(Nat) : t = e.leaves
  BY <1>3
<1>8. s <= k
  BY <1>0
<1>9. Spells(ls \o t, s, m)
  BY <1>0, <1>1, <1>4, <1>6, <1>7, <1>8, SpellsJoin
<1>10. Spells(ls \o t, s, d)
  BY <1>0, <1>1, <1>5, <1>6, <1>7, <1>8, SpellsJoin
<1> QED BY <1>e, <1>m, <1>7, <1>9, <1>10

\* parseFnDef, behind the name and the parameters.
LEMMA FnDefRead ==
  ASSUME toks \in Seq(AllTokens), NEW i \in 1..End, NEW inner, Reads(inner, i),
         NEW name \in Nat, NEW params, AllReadable(params),
         NEW s \in 1..i, Spells(<<name>> \o LeavesOf(params), s, i)
  PROVE  Read(FnDef(inner, name, params, i), s)
<1>0. End \in Nat /\ i \in Nat /\ s \in Nat
  BY EndIs
<1>1. PICK eq \in i..End : eq = SkipWs(i) /\ \A x \in i..(eq - 1) : toks[x] \in {"SPACE"}
  BY SkipStops DEF SkipWs
<1>2. PICK k : k = SkipWs(eq + 1)
  OBVIOUS
<1>3. PICK r : r = FnBody(inner, k)
  OBVIOUS
<1>4. \/ FnDef(inner, name, params, i) \in {Error, NullRead}
      \/ /\ Is(eq, {"="})
         /\ FnDef(inner, name, params, i) =
              IF r.kind = "ok" THEN Ok(FnDefExpr(name, params, r.expr), Behind(r.delim), r.delim) ELSE r
  BY <1>1, <1>2, <1>3 DEF FnDef, Then
<1>5. CASE FnDef(inner, name, params, i) \in {Error, NullRead}
  BY <1>5, FailuresRead
<1>6. CASE Is(eq, {"="}) /\ FnDef(inner, name, params, i) =
              IF r.kind = "ok" THEN Ok(FnDefExpr(name, params, r.expr), Behind(r.delim), r.delim) ELSE r
  <2>1. CASE r.kind # "ok"
    BY <1>6, <2>1 DEF Read
  <2>2. CASE r.kind = "ok"
    <3>1. eq \in 1..End
      BY <1>0
    <3>2. {"="} \cap Operands = {}
      BY LayoutFree DEF Operators
    <3>3. k \in (eq + 1)..End /\ Free(eq, k) /\ eq < End
      BY <1>2, <1>6, <3>1, <3>2, GapFree
    <3>4. Free(i, eq)
      BY <1>1, LayoutFree
    <3>5. k \in 1..End /\ k \in i..End /\ k \in Nat /\ i <= k /\ k \in eq..End
      BY <1>0, <3>1, <3>3
    <3>6. Free(i, k)
      <4> SUFFICES ASSUME NEW x \in i..(k - 1) PROVE toks[x] \notin Operands
        BY DEF Free
      <4>1. x \in i..(eq - 1) \/ x \in eq..(k - 1)
        BY <1>0, <3>1, <3>5
      <4> QED BY <3>3, <3>4, <4>1 DEF Free
    <3>7. Reads(inner, k) /\ From(inner, k)
      BY <3>5, ReadsLater, ReadsIs
    <3>8. Sound(r, k) /\ Read(r, k)
      BY <1>3, <3>5, <3>7, FnBodySound, FnBodyRead
    <3>9. PICK body : body = r.expr /\ Whole(body) /\ Readable(body)
      BY <2>2, <3>8 DEF Read, Whole
    <3>10. PICK ps : ps = LeavesOf(params) /\ ps \in Seq(Nat)
      BY LeavesReadable
    <3>11. PICK ls \in Seq(Nat) : ls = <<name>> \o ps
      <4>1. <<name>> \in Seq(Nat)
        OBVIOUS
      <4> QED BY <3>10, <4>1, ConcatProperties
    <3>12. Spells(ls \o body.leaves, s, r.delim)
      <4>1. Spells(ls, s, i)
        BY <3>10, <3>11
      <4> QED BY <2>2, <3>5, <3>6, <3>8, <3>9, <4>1, ReadJoin
    <3>13. PICK d \in k..End : d = r.delim
      BY <2>2, <3>8 DEF Sound
    <3>14. ~Is(d, Operands)
      BY <2>2, <3>8, <3>13 DEF Read
    <3>15. Spells(ls \o body.leaves, s, Behind(d)) /\ Behind(d) \in {d, d + 1}
      <4>1. CASE d = End
        BY <3>12, <3>13, <4>1 DEF Behind
      <4>2. CASE d # End
        <5>1. d \in Nat /\ d < End /\ d + 1 \in Nat /\ s <= d /\ d <= d + 1
          BY <1>0, <3>5, <4>2
        <5>2. Free(d, d + 1)
          BY <3>14, <5>1, StepFree
        <5>3. Spells(ls \o body.leaves, s, d + 1)
          BY <1>0, <3>12, <3>13, <5>1, <5>2, SpellsUpTo
        <5> QED BY <4>2, <5>3 DEF Behind
      <4> QED BY <4>1, <4>2
    <3>16. PICK f : f = FnDefExpr(name, params, body)
      OBVIOUS
    <3>17. Whole(f) /\ f.leaves = ls \o body.leaves /\ f.tag = "fndef"
      <4>1. PICK h : h = <<Leaf(name)>> /\ AllReadable(h) /\ LeavesOf(h) = <<name>>
        <5>1. Readable(Leaf(name)) /\ Leaf(name).leaves = <<name>>
          BY LeafWhole DEF Whole
        <5> QED BY <5>1, LeavesOne
      <4>2. PICK hp : hp = h \o params /\ AllReadable(hp) /\ LeavesOf(hp) = ls
        BY <3>10, <3>11, <4>1, LeavesJoin
      <4>3. PICK b : b = <<body>> /\ AllReadable(b) /\ LeavesOf(b) = body.leaves
        BY <3>9, LeavesOne
      <4>a. AllReadable(hp) /\ AllReadable(b)
        BY <4>2, <4>3
      <4>b. AllReadable(hp \o b) /\ LeavesOf(hp \o b) = LeavesOf(hp) \o LeavesOf(b)
        BY <4>a, LeavesJoin
      <4>4. PICK es : es = hp \o b /\ AllReadable(es) /\ LeavesOf(es) = ls \o body.leaves
        BY <4>2, <4>3, <4>b
      <4>5. f = Expr("fndef", es)
        BY <3>16, <4>1, <4>2, <4>3, <4>4 DEF FnDefExpr
      <4>6. "fndef" \notin {"binary", "null"}
        OBVIOUS
      <4> QED BY <4>4, <4>5, <4>6, ExprWhole
    <3>18. FnDef(inner, name, params, i) = Ok(f, Behind(d), d)
      BY <1>6, <2>2, <3>9, <3>13, <3>16
    <3>19. Read(Ok(f, Behind(d), d), s)
      BY <3>14, <3>15, <3>17 DEF Read, Ok
    <3> QED BY <3>18, <3>19
  <2> QED BY <2>1, <2>2
<1> QED BY <1>4, <1>5, <1>6

\* parseBinop, behind its left operand.
LEMMA BinopRead ==
  ASSUME toks \in Seq(AllTokens), NEW i \in 1..End, NEW inner, Reads(inner, i), i < End,
         NEW lhs, Readable(lhs), NEW s \in 1..i, Spells(lhs.leaves, s, i)
  PROVE  Read(Binop(inner, i, lhs), s)
<1>0. End \in Nat /\ i \in Nat /\ s \in Nat
  BY EndIs
<1>1. PICK k : k = SkipWs(i + 1)
  OBVIOUS
<1>2. PICK r : r = inner[k]
  OBVIOUS
<1>3. \/ Binop(inner, i, lhs) \in {Error, ReadBehind}
      \/ /\ toks[i] \in BinaryOps
         /\ Binop(inner, i, lhs) =
              IF r.kind = "ok" THEN Ok(Binary(toks[i], lhs, r.expr), r.rem, r.delim) ELSE r
  BY <1>1, <1>2 DEF Binop, Then
<1>4. CASE Binop(inner, i, lhs) \in {Error, ReadBehind}
  BY <1>4, FailuresRead
<1>5. CASE r.kind # "ok" /\ Binop(inner, i, lhs) = r
  BY <1>5 DEF Read
<1>6. CASE /\ r.kind = "ok" /\ toks[i] \in BinaryOps
           /\ Binop(inner, i, lhs) = Ok(Binary(toks[i], lhs, r.expr), r.rem, r.delim)
  <2>1. k \in (i + 1)..End /\ Free(i, k)
    <3>1. BinaryOps \cap Operands = {}
      BY LayoutFree DEF Operators
    <3>2. Is(i, BinaryOps)
      BY <1>6 DEF Is
    <3> QED BY <1>1, <3>1, <3>2, GapFree
  <2>2. k \in i..End
    BY <1>0, <2>1
  <2>3. Sound(r, k) /\ Read(r, k)
    BY <1>2, <2>2, ReadsIs
  <2>4. PICK e : e = r.expr /\ Whole(e)
    BY <1>6, <2>3 DEF Read
  <2>5. PICK ls \in Seq(Nat) : ls = lhs.leaves
    BY DEF Readable
  <2>6. Spells(ls \o e.leaves, s, r.rem)
    BY <1>6, <2>1, <2>2, <2>3, <2>4, <2>5, ReadJoin
  <2>7. PICK op, b : op = toks[i] /\ b = Binary(op, lhs, e)
    OBVIOUS
  <2>a. Whole(e)
    BY <2>4
  <2>8. Whole(Binary(op, lhs, e)) /\ Binary(op, lhs, e).leaves = lhs.leaves \o e.leaves
    BY <2>a, BinaryWhole
  <2>9. Whole(b) /\ b.leaves = ls \o e.leaves
    BY <2>5, <2>7, <2>8
  <2>10. b.tag = "binary"
    BY <2>7 DEF Binary, BinaryExpr
  <2>11. Binop(inner, i, lhs) = Ok(b, r.rem, r.delim)
    BY <1>6, <2>4, <2>7
  <2>12. r.rem \in {r.delim, r.delim + 1} /\ ~Is(r.delim, Operands)
    BY <1>6, <2>3 DEF Read
  <2>13. Read(Ok(b, r.rem, r.delim), s)
    BY <2>6, <2>9, <2>10, <2>12 DEF Read, Ok
  <2> QED BY <2>11, <2>13
<1> QED BY <1>3, <1>4, <1>5, <1>6

\* parseUnaryOp.
LEMMA UnaryOpRead ==
  ASSUME toks \in Seq(AllTokens), NEW i \in 1..End, NEW inner, i < End, Reads(inner, i + 1)
  PROVE  Read(UnaryOp(inner, i), i)
<1>0. End \in Nat /\ i \in Nat
  BY EndIs
<1>1. PICK k : k = SkipWs(i + 1)
  OBVIOUS
<1>2. PICK r : r = inner[k]
  OBVIOUS
<1>3. \/ UnaryOp(inner, i) = Error
      \/ /\ toks[i] \in UnaryOps
         /\ UnaryOp(inner, i) =
              IF r.kind = "ok" THEN Ok(Unary(toks[i], r.expr), r.rem, r.delim) ELSE r
  BY <1>1, <1>2 DEF UnaryOp, Then
<1>4. CASE UnaryOp(inner, i) = Error
  BY <1>4, FailuresRead
<1>5. CASE r.kind # "ok" /\ UnaryOp(inner, i) = r
  BY <1>5 DEF Read
<1>6. CASE /\ r.kind = "ok" /\ toks[i] \in UnaryOps
           /\ UnaryOp(inner, i) = Ok(Unary(toks[i], r.expr), r.rem, r.delim)
  <2>1. k \in (i + 1)..End /\ Free(i, k)
    <3>1. UnaryOps \cap Operands = {}
      BY LayoutFree DEF Operators
    <3>2. Is(i, UnaryOps)
      BY <1>6 DEF Is
    <3> QED BY <1>1, <3>1, <3>2, GapFree
  <2>2. k \in i..End
    BY <1>0, <2>1
  <2>3. Sound(r, k) /\ Read(r, k)
    BY <1>2, <2>1, ReadsIs
  <2>4. Read(r, i)
    BY <2>1, <2>2, <2>3, ReadEarlier
  <2>5. PICK e : e = r.expr /\ Whole(e)
    BY <1>6, <2>3 DEF Read
  <2>6. PICK op, u : op = toks[i] /\ u = Unary(op, e)
    OBVIOUS
  <2>7. Whole(Unary(op, e)) /\ Unary(op, e).leaves = e.leaves
    BY <2>5, UnaryWhole
  <2>8. Whole(u) /\ u.leaves = e.leaves
    BY <2>6, <2>7
  <2>9. u.tag \in {"binary", "unary"}
    BY <2>6 DEF Unary, BinaryExpr, UnaryExpr
  <2>10. UnaryOp(inner, i) = Ok(u, r.rem, r.delim)
    BY <1>6, <2>5, <2>6
  <2>11. r.rem \in {r.delim, r.delim + 1} /\ ~Is(r.delim, Operands) /\ Spells(e.leaves, i, r.rem)
    BY <1>6, <2>4, <2>5 DEF Read
  <2>12. Read(Ok(u, r.rem, r.delim), i)
    BY <2>8, <2>9, <2>11 DEF Read, Ok
  <2> QED BY <2>10, <2>12
<1> QED BY <1>3, <1>4, <1>5, <1>6

\* An expression that stops where no operand is, and has no comma of its own.
LEMMA OkRead ==
  ASSUME NEW e, Whole(e), NEW s, NEW rem, NEW delim, Spells(e.leaves, s, rem),
         rem \in {delim, delim + 1}, ~Is(delim, Operands),
         e.tag = "comma" => \E c \in s..Len(toks) : toks[c] = "comma"
  PROVE  Read(Ok(e, rem, delim), s)
BY DEF Read, Ok

\* There is no second comma.
LEMMA OneComma ==
  ASSUME toks \in Seq(AllTokens), AtMostOneComma, NEW c \in 1..Len(toks), toks[c] = "comma",
         NEW x \in 1..Len(toks), toks[x] = "comma"
  PROVE  x = c
<1>1. c \in Occurrences({"comma"}) /\ x \in Occurrences({"comma"})
  BY DEF Occurrences
<1> QED BY <1>1 DEF AtMostOneComma

\* The end of a list: lines that continue it would begin with another comma.
LEMMA CommaLinesRead ==
  ASSUME toks \in Seq(AllTokens), AtMostOneComma, NEW i \in 1..End, NEW inner, ~Is(i, Operands),
         NEW es, AllReadable(es), NEW s \in 1..i, Spells(LeavesOf(es), s, i),
         NEW c \in s..(i - 1), Is(c, {"comma"})
  PROVE  Read(CommaLines(inner, i, es), s)
<1>0. End \in Nat /\ i \in Nat /\ s \in Nat /\ End = Len(toks) + 1 /\ Len(toks) \in Nat
  BY EndIs
<1>1. PICK f : Lines(inner, i, f) /\ CommaLines(inner, i, es) = Lists(f, i, es)
  BY LinesSolved
<1>2. c \in s..Len(toks) /\ c \in 1..Len(toks) /\ toks[c] = "comma"
  <2>1. toks[c] \in {"comma"} /\ c < End
    BY DEF Is
  <2> QED BY <1>0, <2>1
<1>3. PICK e : e = CommaList(es)
  OBVIOUS
<1>4. Whole(e) /\ e.leaves = LeavesOf(es)
  <2>1. "comma" \notin {"binary", "null"}
    OBVIOUS
  <2>2. e = Expr("comma", es)
    BY <1>3 DEF CommaList
  <2> QED BY <2>1, <2>2, ExprWhole
<1>5. CASE ~(Is(i, {"NEWLINE"}) /\ Is(i + 1, {"INDENT"}))
  <2>1. CommaLines(inner, i, es) = Ok(e, i, i)
    BY <1>1, <1>3, <1>5 DEF Lists
  <2>2. Read(Ok(e, i, i), s)
    BY <1>2, <1>4, OkRead
  <2> QED BY <2>1, <2>2
<1>6. CASE Is(i, {"NEWLINE"}) /\ Is(i + 1, {"INDENT"})
  <2>1. PICK n \in 1..End : n = i + 1 /\ i < End
    <3>1. i + 1 \in 1..End /\ i < End
      BY <1>6, IsInside
    <3> QED BY <3>1
  <2>2. n + 1 \in 1..End /\ ~Is(n, Operands)
    <3>1. Is(n, {"INDENT"})
      BY <1>6, <2>1
    <3>2. n + 1 \in 1..End /\ toks[n] \in {"INDENT"}
      BY <3>1, IsInside
    <3>3. "INDENT" \notin Operands
      BY LayoutFree DEF Layout
    <3> QED BY <3>2, <3>3 DEF Is
  <2>3. CASE i + 2 = End
    <3>1. CommaLines(inner, i, es) = Ok(e, n, n)
      BY <1>1, <1>3, <1>6, <2>1, <2>3 DEF Lists
    <3>2. Free(i, n)
      BY <1>0, <2>1, StepFree
    <3>3. s <= i /\ i <= n /\ n \in Nat
      BY <1>0, <2>1
    <3>4. Spells(e.leaves, s, n)
      BY <1>0, <1>4, <3>2, <3>3, SpellsUpTo
    <3>5. Read(Ok(e, n, n), s)
      BY <1>2, <1>4, <2>2, <3>4, OkRead
    <3> QED BY <3>1, <3>5
  <2>4. CASE i + 2 # End
    <3>1. PICK l, k : k = i + 2 /\ l = f[k]
      OBVIOUS
    <3>2. k \in i..End /\ k \in 1..End /\ k \in 1..Len(toks) /\ k # c
      <4>1. k = n + 1 /\ k # End
        BY <1>0, <2>1, <2>4, <3>1
      <4> QED BY <1>0, <2>1, <2>2, <4>1
    <3>3. CommaLines(inner, i, es) =
            IF l.kind = "ok" THEN Ok(CommaList(es \o l.expr.parts), l.rem, l.delim) ELSE l
      BY <1>1, <1>6, <2>4, <3>1 DEF Lists, Then
    <3>4. ~Is(k, {"comma"})
      <4> SUFFICES ASSUME Is(k, {"comma"}) PROVE FALSE
        OBVIOUS
      <4>1. toks[k] = "comma"
        <5>1. toks[k] \in {"comma"}
          BY DEF Is
        <5> QED BY <5>1
      <4> QED BY <1>2, <3>2, <4>1, OneComma
    <3>5. l \in {Error, ReadBehind}
      <4>1. l = CommaLine(inner, [m \in (k + 1)..End |-> f[m]], k)
        BY <1>1, <3>1, <3>2 DEF Lines
      <4> QED BY <3>4, <4>1 DEF CommaLine
    <3>6. l.kind # "ok"
      BY <3>5 DEF Error, ReadBehind, Failed
    <3> QED BY <3>3, <3>5, <3>6, FailuresRead
  <2> QED BY <2>3, <2>4
<1> QED BY <1>5, <1>6

\* parseCommaList, behind the comma at c.
LEMMA CommaListFromRead ==
  ASSUME toks \in Seq(AllTokens), AtMostOneComma, NEW c \in 1..End, Is(c, {"comma"}),
         NEW inner, Reads(inner, c + 1),
         NEW head, Readable(head), NEW s \in 1..c, Spells(head.leaves, s, c)
  PROVE  Read(CommaListFrom(inner, c + 1, head), s)
<1>0. End \in Nat /\ c \in Nat /\ s \in Nat /\ End = Len(toks) + 1 /\ Len(toks) \in Nat
  BY EndIs
<1>1. PICK a : a = SkipWs(c + 1)
  OBVIOUS
<1>2. a \in (c + 1)..End /\ Free(c, a) /\ c < End
  <2>1. {"comma"} \cap Operands = {}
    BY LayoutFree DEF Operators
  <2> QED BY <1>1, <2>1, GapFree
<1>3. PICK r : r = inner[a]
  OBVIOUS
<1>4. a \in c..End /\ a \in Nat /\ c < a
  BY <1>0, <1>2
<1>5. Sound(r, a) /\ Read(r, a)
  BY <1>2, <1>3, ReadsIs
<1>6. CommaListFrom(inner, c + 1, head) =
        IF a = End THEN Error
        ELSE IF r.kind = "ok" THEN CommaLines(inner, r.delim, JoinTail(head, r.expr)) ELSE r
  BY <1>1, <1>3 DEF CommaListFrom, Then
<1>7. CASE a = End
  BY <1>6, <1>7, FailuresRead
<1>8. CASE a # End /\ r.kind # "ok"
  BY <1>6, <1>8 DEF Read
<1>9. CASE a # End /\ r.kind = "ok"
  <2>1. PICK e : e = r.expr /\ Whole(e)
    BY <1>5, <1>9 DEF Read
  <2>2. PICK d \in a..End : d = r.delim
    BY <1>5, <1>9 DEF Sound
  <2>3. e.tag # "comma"
    <3> SUFFICES ASSUME e.tag = "comma" PROVE FALSE
      OBVIOUS
    <3>1. PICK x \in a..Len(toks) : toks[x] = "comma"
      BY <1>5, <1>9, <2>1 DEF Read
    <3>2. x \in 1..Len(toks) /\ c \in 1..Len(toks) /\ x # c
      BY <1>0, <1>2, <1>4
    <3>3. toks[c] = "comma"
      <4>1. toks[c] \in {"comma"}
        BY DEF Is
      <4> QED BY <4>1
    <3> QED BY <3>1, <3>2, <3>3, OneComma
  <2>4. PICK es : es = <<head, e>>
    OBVIOUS
  <2>5. JoinTail(head, r.expr) = es
    BY <2>1, <2>3, <2>4 DEF JoinTail
  <2>6. Readable(e)
    BY <2>1 DEF Whole
  <2>7. AllReadable(<<head, e>>) /\ LeavesOf(<<head, e>>) = head.leaves \o e.leaves
    BY <2>6, LeavesTwo
  <2>8. PICK ls \in Seq(Nat) : ls = head.leaves
    BY DEF Readable
  <2>9. Spells(ls \o e.leaves, s, d)
    BY <1>2, <1>4, <1>5, <1>9, <2>1, <2>2, <2>8, ReadJoin
  <2>10. AllReadable(es) /\ Spells(LeavesOf(es), s, d)
    BY <2>4, <2>7, <2>8, <2>9
  <2>11. ~Is(d, Operands)
    BY <1>5, <1>9, <2>2 DEF Read
  <2>12. d \in 1..End /\ s \in 1..d /\ c \in s..(d - 1)
    BY <1>0, <1>4, <2>2
  <2>13. Read(CommaLines(inner, d, es), s)
    BY <2>10, <2>11, <2>12, CommaLinesRead
  <2> QED BY <1>6, <1>9, <2>2, <2>5, <2>13
<1> QED BY <1>7, <1>8, <1>9

\* A member access reads its name.
LEMMA AccessWhole ==
  ASSUME NEW e, Readable(e), NEW i \in Nat
  PROVE  Whole(Access(e, i)) /\ Access(e, i).leaves = e.leaves \o <<i>>
<1>1. PICK l : l = Leaf(i) /\ Readable(l) /\ l.leaves = <<i>>
  BY LeafWhole DEF Whole
<1>2. PICK es : es = <<e, l>> /\ AllReadable(es) /\ LeavesOf(es) = e.leaves \o l.leaves
  <2>1. Readable(l)
    BY <1>1
  <2>2. AllReadable(<<e, l>>) /\ LeavesOf(<<e, l>>) = e.leaves \o l.leaves
    BY <2>1, LeavesTwo
  <2> QED BY <2>2
<1>3. Access(e, i) = Expr("access", es)
  BY <1>1, <1>2 DEF Access
<1>4. "access" \notin {"binary", "null"}
  OBVIOUS
<1>5. Whole(Expr("access", es)) /\ Expr("access", es).leaves = LeavesOf(es)
  BY <1>2, <1>4, ExprWhole
<1> QED BY <1>1, <1>2, <1>3, <1>5

\* The members behind a value.
LEMMA MembersRead ==
  ASSUME toks \in Seq(AllTokens), NEW i \in 1..End, NEW e, Value(e), Whole(e),
         NEW s \in 1..i, Spells(e.leaves, s, i)
  PROVE  /\ Whole(Members(i, e).expr)
         /\ Spells(Members(i, e).expr.leaves, s, Members(i, e).at)
<1>0. End \in Nat /\ s \in Nat /\ i \in Nat /\ s <= i
  BY EndIs
<1>1. PICK f : Values(i, e, f) /\ Members(i, e) = f[Len(toks)]
  BY MembersSolved
<1>2. PICK L \in Nat : L = Len(toks)
  BY EndIs
<1> DEFINE v == [expr |-> e, at |-> i]
           Fine(n) == f[n].at \in i..End /\ Whole(f[n].expr) /\ Spells(f[n].expr.leaves, s, f[n].at)
<1>3. f = [n \in 0..L |-> IF n = 0 THEN v ELSE Member(f[n - 1])]
  BY <1>1, <1>2 DEF Values
<1>4. \A n \in 0..L : Fine(n)
  <2> SUFFICES ASSUME NEW b \in 0..L, ~Fine(b) PROVE FALSE
    OBVIOUS
  <2> DEFINE T == {n \in 0..L : ~Fine(n)}
  <2>1. PICK n \in T : \A m \in T : n <= m
    <3>1. T \in SUBSET Nat /\ T # {}
      <4> HIDE DEF Fine
      <4> QED OBVIOUS
    <3> HIDE DEF T
    <3> QED BY <3>1, LeastNat
  <2>2. n \in 0..L /\ ~Fine(n)
    BY <2>1
  <2>3. n # 0
    <3> SUFFICES ASSUME n = 0 PROVE Fine(0)
      BY <2>2
    <3>1. f[0] = v
      <4> HIDE DEF v
      <4> QED BY <1>3
    <3>2. f[0].at = i /\ f[0].expr = e
      BY <3>1
    <3>3. i \in i..End
      BY <1>0
    <3> QED BY <3>2, <3>3
  <2>4. PICK h \in Nat : h = n - 1
    BY <2>2, <2>3
  <2>5. h \in 0..L /\ ~(n <= h)
    BY <2>2, <2>4
  <2>6. Fine(h)
    <3> HIDE DEF Fine
    <3> QED BY <2>1, <2>5
  <2>7. f[n] = Member(f[h])
    <3> HIDE DEF v
    <3> QED BY <1>3, <2>2, <2>3, <2>4
  <2>8. PICK x : x = f[h]
    OBVIOUS
  <2>j. PICK j \in i..End : j = x.at
    BY <2>6, <2>8
  <2>w. PICK w : w = x.expr
    OBVIOUS
  <2>9. j \in 1..End /\ j \in Nat /\ s <= j /\ Whole(w) /\ Spells(w.leaves, s, j)
    BY <1>0, <2>6, <2>8, <2>j, <2>w
  <2>10. PICK name : name = SkipWs(j + 1)
    OBVIOUS
  <2>11. CASE Is(j, {"."}) /\ Is(name, Ids)
    <3>1. name \in (j + 1)..End /\ Free(j, name)
      <4>1. {"."} \cap Operands = {}
        BY LayoutFree DEF Operators
      <4> QED BY <2>9, <2>10, <2>11, <4>1, GapFree
    <3>2. name \in 1..End /\ name \in Nat /\ j <= name
      BY <1>0, <2>9, <3>1
    <3>3. name + 1 \in 1..End /\ toks[name] \in Operands
      BY <2>11, <3>2, IsInside DEF Operands
    <3>4. PICK a : a = Access(w, name)
      OBVIOUS
    <3>5. f[n] = [expr |-> a, at |-> name + 1]
      BY <2>7, <2>8, <2>j, <2>w, <2>10, <2>11, <3>4 DEF Member
    <3>6. PICK ls \in Seq(Nat) : ls = w.leaves
      BY <2>9 DEF Whole, Readable
    <3>7. Readable(w)
      BY <2>9 DEF Whole
    <3>8. Whole(a) /\ a.leaves = ls \o <<name>>
      <4>1. Whole(Access(w, name)) /\ Access(w, name).leaves = w.leaves \o <<name>>
        BY <3>2, <3>7, AccessWhole
      <4> QED BY <3>4, <3>6, <4>1
    <3>9. Spells(ls, s, name)
      <4>1. Spells(ls, s, j)
        BY <2>9, <3>6
      <4> QED BY <1>0, <2>9, <3>1, <3>2, <4>1, SpellsUpTo
    <3>10. Spells(<<name>>, name, name + 1)
      BY <3>2, <3>3, SpellsOne
    <3>11. Spells(ls \o <<name>>, s, name + 1)
      <4>1. <<name>> \in Seq(Nat) /\ name + 1 \in Nat /\ s <= name /\ name <= name + 1
        BY <1>0, <2>9, <3>2
      <4>2. PICK t \in Seq(Nat) : t = <<name>>
        BY <4>1
      <4>3. PICK q \in Nat : q = name + 1
        BY <4>1
      <4>4. Spells(ls \o t, s, q)
        BY <1>0, <3>2, <3>9, <3>10, <4>1, <4>2, <4>3, SpellsJoin
      <4> QED BY <4>2, <4>3, <4>4
    <3>12. name + 1 \in i..End
      BY <1>0, <2>j, <3>2, <3>3
    <3>13. f[n].expr = a /\ f[n].at = name + 1
      BY <3>5
    <3> QED BY <2>2, <3>8, <3>11, <3>12, <3>13
  <2>12. CASE ~(Is(j, {"."}) /\ Is(name, Ids))
    <3>1. f[n] = x
      BY <2>7, <2>8, <2>j, <2>10, <2>12 DEF Member
    <3> QED BY <2>2, <2>6, <2>8, <3>1
  <2> QED BY <2>11, <2>12
<1>5. Fine(L)
  <2> HIDE DEF Fine
  <2> QED BY <1>2, <1>4
<1> QED BY <1>1, <1>2, <1>5

\* What follows a value: parseLeading, and the functions it hands on to.
LEMMA LeadingRead ==
  ASSUME toks \in Seq(AllTokens), AtMostOneComma, CommentsEndLines,
         NEW i \in 1..End, NEW inner, Reads(inner, i),
         NEW e, Value(e), Whole(e), NEW s \in 1..i, Spells(e.leaves, s, i)
  PROVE  Read(Leading(inner, i, e), s)
<1>0. End \in Nat /\ i \in Nat /\ s \in Nat /\ s <= i /\ End = Len(toks) + 1 /\ Len(toks) \in Nat
  BY EndIs
<1>1. PICK m, w : m \in i..End /\ m = Members(i, e).at /\ w = Members(i, e).expr /\ Value(w)
  BY MembersSound
<1>2. m \in 1..End /\ m \in Nat /\ s <= m
  BY <1>0, <1>1
<1>w. Whole(w) /\ Readable(w) /\ Spells(w.leaves, s, m)
  BY <1>1, MembersRead DEF Whole
<1>3. PICK j \in m..End : j = SkipWs(m) /\ \A k \in m..(j - 1) : toks[k] \in {"SPACE"}
  BY <1>2, SkipStops DEF SkipWs
<1>4. j \in i..End /\ j \in 1..End /\ j \in Nat /\ s <= j /\ m <= j
  BY <1>0, <1>1, <1>2, <1>3
<1>5. Leading(inner, i, e) =
        CASE Is(j, {"COMMENT"}) -> LET k == Skip(j, {"COMMENT"}) IN Ok(w, k, k)
          [] j = End -> Ok(w, End, End)
          [] Is(j, {"NEWLINE"} \cup CloseBracket) -> Ok(w, j + 1, j)
          [] Is(j, {"."}) /\ m = j -> Error
          [] Is(j, {"comma"}) -> CommaListFrom(inner, j + 1, w)
          [] Is(j, Operators \ {"comma"}) /\ ~(Is(j, {"."}) /\ m = j) -> Binop(inner, j, w)
          [] OTHER -> Then(inner[j], LAMBDA r : Ok(Apply(w, r.expr), r.rem, r.delim))
  BY <1>1, <1>3 DEF Leading
<1>6. Reads(inner, j)
  BY <1>4, ReadsLater
<1>7. Spells(w.leaves, s, j)
  <2>1. Free(m, j)
    BY <1>3, LayoutFree
  <2> QED BY <1>0, <1>2, <1>4, <1>w, <2>1, SpellsUpTo
<1>t. w.tag # "comma"
  BY <1>1 DEF Value
<1>8. CASE j = End
  <2>1. \A kinds : ~Is(j, kinds)
    BY <1>8, <1>4 DEF Is
  <2>2. Leading(inner, i, e) = Ok(w, j, j)
    BY <1>5, <1>8, <2>1
  <2>3. Read(Ok(w, j, j), s)
    BY <1>7, <1>t, <1>w, <2>1, OkRead
  <2> QED BY <2>2, <2>3
<1>9. CASE j # End
  <2>0. j < End /\ j + 1 \in i..End /\ j + 1 \in 1..End
    BY <1>0, <1>4, <1>9
  <2>1. \A kinds : Is(j, kinds) <=> toks[j] \in kinds
    BY <2>0 DEF Is
  <2>2. CASE toks[j] = "COMMENT"
    <3>1. PICK k \in j..End : /\ k = Skip(j, {"COMMENT"})
                              /\ k = End \/ toks[k] \notin {"COMMENT"}
                              /\ \A x \in j..(k - 1) : toks[x] \in {"COMMENT"}
      BY <1>4, SkipStops
    <3>2. Leading(inner, i, e) = Ok(w, k, k)
      BY <1>5, <1>9, <2>1, <2>2, <3>1 DEF CloseBracket, Operators, BinaryOps, UnaryOps
    <3>3. Free(j, k)
      BY <3>1, LayoutFree
    <3>4. k \in Nat /\ j < k
      <4>1. k # j
        BY <1>9, <2>2, <3>1
      <4> QED BY <1>0, <1>4, <4>1
    <3>5. ~Is(k, Operands)
      <4>1. PICK x \in Nat : x = k - 1
        BY <1>4, <3>4
      <4>2. x \in j..(k - 1) /\ x \in 1..Len(toks) /\ x + 1 = k
        BY <1>0, <1>4, <3>1, <3>4, <4>1
      <4>3. toks[x] \in {"COMMENT"}
        BY <3>1, <4>2
      <4>4. x \in Occurrences({"COMMENT"})
        BY <4>2, <4>3 DEF Occurrences
      <4> QED BY <4>2, <4>4 DEF CommentsEndLines
    <3>6. Spells(w.leaves, s, k)
      <4>1. j <= k
        BY <1>4, <3>4
      <4> QED BY <1>0, <1>4, <1>7, <3>3, <3>4, <4>1, SpellsUpTo
    <3>7. Read(Ok(w, k, k), s)
      BY <1>t, <1>w, <3>5, <3>6, OkRead
    <3> QED BY <3>2, <3>7
  <2>3. CASE toks[j] \in {"NEWLINE"} \cup CloseBracket
    <3>1. Leading(inner, i, e) = Ok(w, j + 1, j)
      BY <1>5, <1>9, <2>1, <2>3 DEF CloseBracket, Operators, BinaryOps, UnaryOps
    <3>2. toks[j] \notin Operands
      BY <2>3, LayoutFree DEF Layout
    <3>3. ~Is(j, Operands) /\ Free(j, j + 1)
      BY <1>4, <2>0, <3>2, StepFree DEF Is
    <3>4. j + 1 \in Nat /\ j <= j + 1
      BY <1>4
    <3>5. Spells(w.leaves, s, j + 1)
      BY <1>0, <1>4, <1>7, <3>3, <3>4, SpellsUpTo
    <3>6. Read(Ok(w, j + 1, j), s)
      BY <1>t, <1>w, <3>3, <3>5, OkRead
    <3> QED BY <3>1, <3>6
  <2>4. CASE toks[j] = "." /\ m = j
    <3>1. Leading(inner, i, e) = Error
      BY <1>5, <1>9, <2>1, <2>4 DEF CloseBracket, Operators, BinaryOps, UnaryOps
    <3> QED BY <3>1, FailuresRead
  <2>5. CASE toks[j] = "comma"
    <3>1. Leading(inner, i, e) = CommaListFrom(inner, j + 1, w)
      BY <1>5, <1>9, <2>1, <2>5 DEF CloseBracket, Operators, BinaryOps, UnaryOps
    <3>2. Reads(inner, j + 1)
      BY <2>0, ReadsLater
    <3>3. Is(j, {"comma"}) /\ s \in 1..j
      BY <1>0, <1>4, <2>1, <2>5
    <3>4. Read(CommaListFrom(inner, j + 1, w), s)
      BY <1>4, <1>7, <1>w, <3>2, <3>3, CommaListFromRead
    <3> QED BY <3>1, <3>4
  <2>6. CASE toks[j] \in Operators \ {"comma"} /\ ~(toks[j] = "." /\ m = j)
    <3>1. Leading(inner, i, e) = Binop(inner, j, w)
      BY <1>5, <1>9, <2>1, <2>6 DEF CloseBracket, Operators, BinaryOps, UnaryOps
    <3>2. s \in 1..j
      BY <1>0, <1>4
    <3>3. Read(Binop(inner, j, w), s)
      BY <1>4, <1>6, <1>7, <1>w, <2>0, <3>2, BinopRead
    <3> QED BY <3>1, <3>3
  <2>7. CASE toks[j] \notin {"COMMENT", "NEWLINE"} \cup CloseBracket \cup Operators
    <3>1. PICK r : r = inner[j]
      OBVIOUS
    <3>2. Leading(inner, i, e) = IF r.kind = "ok" THEN Ok(Apply(w, r.expr), r.rem, r.delim) ELSE r
      BY <1>5, <1>9, <2>1, <2>7, <3>1 DEF Then, Operators
    <3>3. Sound(r, j) /\ Read(r, j)
      BY <1>4, <3>1, ReadsIs
    <3>4. CASE r.kind # "ok"
      BY <3>2, <3>4 DEF Read
    <3>5. CASE r.kind = "ok"
      <4>1. PICK x : x = r.expr /\ Whole(x)
        BY <3>3, <3>5 DEF Read
      <4>2. PICK ls \in Seq(Nat) : ls = w.leaves
        BY <1>w DEF Readable
      <4>3. PICK a : a = Apply(w, x)
        OBVIOUS
      <4>4. Whole(a) /\ a.leaves = ls \o x.leaves
        <5>1. Whole(x) /\ Readable(w)
          BY <1>w, <4>1
        <5>2. Whole(Apply(w, x)) /\ Apply(w, x).leaves = w.leaves \o x.leaves
          BY <5>1, ApplyWhole
        <5> QED BY <4>2, <4>3, <5>2
      <4>5. a.tag # "comma"
        BY <4>3 DEF Apply, BinaryExpr, App, Expr
      <4>6. Spells(ls \o x.leaves, s, r.rem)
        <5>1. Free(j, j)
          BY <1>4 DEF Free
        <5>2. s \in 1..j /\ j \in j..End
          BY <1>0, <1>4
        <5> QED BY <1>4, <1>7, <3>3, <3>5, <4>1, <4>2, <5>1, <5>2, ReadJoin
      <4>7. r.rem \in {r.delim, r.delim + 1} /\ ~Is(r.delim, Operands)
        BY <3>3, <3>5 DEF Read
      <4>8. Read(Ok(a, r.rem, r.delim), s)
        BY <4>4, <4>5, <4>6, <4>7, OkRead
      <4> QED BY <3>2, <3>5, <4>1, <4>3, <4>8
    <3> QED BY <3>4, <3>5
  <2> QED BY <2>2, <2>3, <2>4, <2>5, <2>6, <2>7
<1> QED BY <1>8, <1>9

\* A reference or a literal reads its own token.
LEMMA LeafRead ==
  ASSUME toks \in Seq(AllTokens), NEW i \in 1..End, Is(i, Operands)
  PROVE  /\ i < End /\ i + 1 \in 1..End /\ i \in 1..(i + 1)
         /\ Value(Leaf(i)) /\ Whole(Leaf(i)) /\ Leaf(i).tag = "leaf"
         /\ Spells(Leaf(i).leaves, i, i + 1)
<1>1. i < End /\ toks[i] \in Operands /\ i + 1 \in 1..End /\ i \in Nat
  BY IsInside
<1>2. i \in 1..(i + 1)
  BY <1>1
<1>3. Spells(<<i>>, i, i + 1)
  BY <1>1, SpellsOne
<1>4. Leaf(i).tag = "leaf"
  BY DEF Leaf
<1> QED BY <1>1, <1>2, <1>3, <1>4, LeafValue, LeafWhole

\* The last token, when it is one.
LEMMA LastValueRead ==
  ASSUME toks \in Seq(AllTokens), NEW i \in 1..End, Is(i, Operands), i + 1 = End
  PROVE  Read(LastValue(Leaf(i), i), i)
<1>1. Whole(Leaf(i)) /\ Leaf(i).tag = "leaf" /\ Spells(Leaf(i).leaves, i, End)
  BY LeafRead
<1>2. ~Is(End, Operands)
  BY EndIs DEF Is
<1> QED BY <1>1, <1>2, OkRead DEF LastValue

\* parseId, and the function definition an id with a "(" begins.
LEMMA IdRead ==
  ASSUME toks \in Seq(AllTokens), AtMostOneComma, CommentsEndLines,
         NEW i \in 1..End, NEW inner, Is(i, Ids), Reads(inner, i + 1)
  PROVE  Read(Id(inner, i), i)
<1>0. End \in Nat /\ i \in Nat
  BY EndIs
<1>1. Is(i, Operands)
  BY DEF Is, Operands
<1>2. /\ i < End /\ i + 1 \in 1..End /\ i \in 1..(i + 1)
      /\ Value(Leaf(i)) /\ Whole(Leaf(i)) /\ Spells(Leaf(i).leaves, i, i + 1)
  BY <1>1, LeafRead
<1>3. PICK n \in 1..End : n = i + 1
  BY <1>2
<1>4. PICK p : p = ParenInner(inner, n + 1)
  OBVIOUS
<1>5. Id(inner, i) =
        CASE n = End -> IF toks[i] = "import" THEN Error ELSE LastValue(Leaf(i), i)
          [] Is(n, OpenBracket) ->
               IF toks[i] # "id" THEN Error
               ELSE IF p.kind = "ok" THEN FnDef(inner, i, p.expr.parts, p.rem) ELSE p
          [] OTHER -> Leading(inner, n, Leaf(i))
  <2>1. n + 1 = i + 2
    BY <1>0, <1>3
  <2>2. p = ParenInner(inner, i + 2)
    BY <1>4, <2>1
  <2> QED BY <1>3, <2>2 DEF Id, Then
<1>6. CASE n = End
  <2>1. Read(LastValue(Leaf(i), i), i)
    BY <1>1, <1>3, <1>6, LastValueRead
  <2>2. ~Is(n, OpenBracket)
    BY <1>0, <1>6 DEF Is
  <2> QED BY <1>5, <1>6, <2>1, <2>2, FailuresRead
<1>7. CASE n # End /\ Is(n, OpenBracket)
  <2>1. PICK q \in 1..End : q = n + 1 /\ q \in n..End
    <3>1. n + 1 \in 1..End /\ n \in Nat
      BY <1>7, IsInside
    <3> QED BY <1>0, <3>1
  <2>2. Reads(inner, q) /\ From(inner, q)
    BY <1>3, <2>1, ReadsLater, ReadsIs
  <2>3. p = ParenInner(inner, q)
    BY <1>4, <2>1
  <2>4. CASE toks[i] # "id"
    BY <1>5, <1>7, <2>4, FailuresRead
  <2>5. CASE toks[i] = "id" /\ p.kind # "ok"
    BY <1>5, <1>7, <2>5 DEF Read
  <2>6. CASE toks[i] = "id" /\ p.kind = "ok"
    <3>1. Sound(p, q) /\ Is(p.delim, {")"}) /\ p.rem = p.delim + 1
      BY <2>2, <2>3, <2>6, ParenInnerSound
    <3>2. /\ AllReadable(p.expr.parts) /\ p.expr.leaves = LeavesOf(p.expr.parts)
          /\ Spells(p.expr.leaves, q, p.delim)
      BY <2>2, <2>3, <2>6, ParenInnerRead
    <3>3. PICK ps, ls : ps = p.expr.parts /\ ls = LeavesOf(ps)
      OBVIOUS
    <3>4. AllReadable(ps) /\ ls \in Seq(Nat) /\ Spells(ls, q, p.delim)
      BY <3>2, <3>3, LeavesReadable
    <3>5. PICK d \in q..End : d = p.delim
      BY <2>6, <3>1 DEF Sound
    <3>6. d \in 1..End /\ Is(d, {")"}) /\ p.rem = d + 1
      BY <1>0, <2>1, <3>1, <3>5
    <3>7. d < End /\ d + 1 \in 1..End /\ Free(d, d + 1)
      <4>1. {")"} \cap Operands = {}
        BY LayoutFree DEF CloseBracket
      <4> QED BY <3>6, <4>1, GapFree
    <3>8. PICK x \in 1..End : x = d + 1
      BY <3>7
    <3>9. /\ i <= n /\ n <= q /\ q <= d /\ d <= x /\ i <= q /\ q <= x /\ i \in 1..x
          /\ n \in Nat /\ q \in Nat /\ d \in Nat /\ x \in Nat
      BY <1>0, <1>3, <2>1, <3>5, <3>8
    <3>10. Spells(ls, q, x)
      <4>1. Spells(ls, q, d)
        BY <3>4, <3>5
      <4> QED BY <3>7, <3>8, <3>9, <4>1, SpellsUpTo
    <3>11. Free(n, q)
      <4>1. OpenBracket \cap Operands = {}
        BY LayoutFree
      <4> QED BY <1>7, <2>1, <4>1, GapFree
    <3>12. Spells(<<i>>, i, q)
      <4>1. Spells(<<i>>, i, n)
        <5>1. Leaf(i).leaves = <<i>>
          BY <1>0, LeafWhole
        <5> QED BY <1>2, <1>3, <5>1
      <4> QED BY <1>0, <3>9, <3>11, <4>1, SpellsUpTo
    <3>13. Spells(<<i>> \o ls, i, x)
      <4>1. PICK h \in Seq(Nat) : h = <<i>>
        <5>1. <<i>> \in Seq(Nat)
          BY <1>0
        <5> QED BY <5>1
      <4>2. Spells(h \o ls, i, x)
        BY <1>0, <3>4, <3>9, <3>10, <3>12, <4>1, SpellsJoin
      <4> QED BY <4>1, <4>2
    <3>14. Reads(inner, x)
      <4>1. x \in q..End
        BY <3>9
      <4> QED BY <2>2, <4>1, ReadsLater
    <3>15. Read(FnDef(inner, i, ps, x), i)
      BY <1>0, <3>3, <3>4, <3>9, <3>13, <3>14, FnDefRead
    <3>16. Id(inner, i) = FnDef(inner, i, ps, x)
      BY <1>5, <1>7, <2>6, <3>3, <3>6, <3>8
    <3> QED BY <3>15, <3>16
  <2> QED BY <2>4, <2>5, <2>6
<1>8. CASE n # End /\ ~Is(n, OpenBracket)
  <2>1. Id(inner, i) = Leading(inner, n, Leaf(i))
    BY <1>5, <1>8
  <2> QED BY <1>2, <1>3, <2>1, LeadingRead
<1> QED BY <1>6, <1>7, <1>8

\* parseInt, parseReal and parseStr.
LEMMA LiteralRead ==
  ASSUME toks \in Seq(AllTokens), AtMostOneComma, CommentsEndLines,
         NEW i \in 1..End, NEW inner, Is(i, Literals), Reads(inner, i + 1)
  PROVE  Read(Literal(inner, i), i)
<1>1. Is(i, Operands)
  BY DEF Is, Operands
<1>2. /\ i < End /\ i + 1 \in 1..End /\ i \in 1..(i + 1)
      /\ Value(Leaf(i)) /\ Whole(Leaf(i)) /\ Spells(Leaf(i).leaves, i, i + 1)
  BY <1>1, LeafRead
<1>3. CASE i + 1 = End
  <2>1. ~Is(i + 1, OpenBracket)
    BY <1>3, EndIs DEF Is
  <2>2. Literal(inner, i) = LastValue(Leaf(i), i)
    BY <1>3, <2>1 DEF Literal
  <2> QED BY <1>1, <1>3, <2>2, LastValueRead
<1>4. CASE i + 1 # End
  <2>1. Literal(inner, i) \in {Error, Leading(inner, i + 1, Leaf(i))}
    BY <1>4 DEF Literal
  <2>2. Read(Leading(inner, i + 1, Leaf(i)), i)
    BY <1>2, LeadingRead
  <2> QED BY <2>1, <2>2, FailuresRead
<1> QED BY <1>3, <1>4

\* parseInner accounts for what it reads where it does so further on.
LEMMA ParseInnerRead ==
  ASSUME toks \in Seq(AllTokens), AtMostOneComma, CommentsEndLines,
         NEW i \in 1..End, NEW inner, Reads(inner, i + 1)
  PROVE  Read(ParseInner(inner, i), i)
<1>0. End \in Nat /\ i \in Nat
  BY EndIs
<1>1. PICK j \in i..End : j = Skip(i, {"COMMENT"}) /\ \A k \in i..(j - 1) : toks[k] \in {"COMMENT"}
  BY SkipStops
<1>2. PICK p : p = ParenInner(inner, j + 1)
  OBVIOUS
<1>3. j \in 1..End /\ j \in Nat /\ i <= j /\ Free(i, j)
  <2>1. Free(i, j)
    BY <1>1, LayoutFree
  <2> QED BY <1>0, <1>1, <2>1
<1>4. ParseInner(inner, i) =
        CASE j = End -> Ok(Null, End, End)
          [] Is(j, {"("}) -> IF p.kind = "ok" THEN Leading(inner, p.delim + 1, p.expr) ELSE p
          [] Is(j, CloseBracket \cup {"DEINDENT"}) -> Ok(Null, j + 1, j)
          [] Is(j, Ids) -> Id(inner, j)
          [] Is(j, Literals) -> Literal(inner, j)
          [] Is(j, Operators \ {"macro"}) -> UnaryOp(inner, j)
          [] OTHER -> Error
  BY <1>1, <1>2 DEF ParseInner, Then
<1>5. Null.tag = "null" /\ Null.leaves = <<>> /\ Whole(Null)
  BY NullWhole DEF Null
<1>a. \A x \in i..End : Free(i, x) /\ ~Is(x, Operands) => Read(Ok(Null, x, x), i)
  <2> SUFFICES ASSUME NEW x \in i..End, Free(i, x), ~Is(x, Operands) PROVE Read(Ok(Null, x, x), i)
    OBVIOUS
  <2>1. Spells(Null.leaves, i, x)
    BY <1>5, SpellsNone
  <2> QED BY <1>5, <2>1, OkRead
<1>6. CASE j = End
  <2>1. \A kinds : ~Is(j, kinds)
    BY <1>0, <1>6 DEF Is
  <2>2. ParseInner(inner, i) = Ok(Null, j, j)
    BY <1>4, <1>6, <2>1
  <2> QED BY <1>a, <1>3, <2>1, <2>2
<1>7. CASE j # End
  <2>0. j < End /\ j + 1 \in (i + 1)..End /\ j + 1 \in 1..End /\ i + 1 \in 1..End
    BY <1>0, <1>1, <1>3, <1>7
  <2>1. \A kinds : Is(j, kinds) <=> toks[j] \in kinds
    BY <2>0 DEF Is
  <2>a. PICK n \in 1..End : n = j + 1 /\ n \in (i + 1)..End
    BY <2>0
  <2>b. Reads(inner, n) /\ From(inner, n)
    BY <2>0, <2>a, ReadsLater, ReadsIs
  <2>c. \A k \in j..End : \A r : Sound(r, k) /\ Read(r, j) => Read(r, i)
    <3> SUFFICES ASSUME NEW k \in j..End, NEW r, Sound(r, k), Read(r, j) PROVE Read(r, i)
      OBVIOUS
    <3>1. Sound(r, j)
      BY <1>3, PassedOn
    <3> QED BY <1>3, <3>1, ReadEarlier
  <2>n. n \in j..End
    BY <2>a, <1>0, <1>3
  <2>2. CASE toks[j] = "("
    <3>1. ParseInner(inner, i) = IF p.kind = "ok" THEN Leading(inner, p.delim + 1, p.expr) ELSE p
      BY <1>4, <1>7, <2>1, <2>2 DEF CloseBracket, Ids, Literals, Operators, BinaryOps, UnaryOps
    <3>2. p = ParenInner(inner, n)
      BY <1>2, <2>a
    <3>3. CASE p.kind # "ok"
      BY <3>1, <3>3 DEF Read
    <3>4. CASE p.kind = "ok"
      <4>1. Sound(p, n) /\ Is(p.delim, {")"}) /\ p.rem = p.delim + 1 /\ p.expr.tag = "tuple"
        BY <2>b, <3>2, <3>4, ParenInnerSound
      <4>2. PICK e : e = p.expr /\ Whole(e) /\ Spells(e.leaves, n, p.delim)
        BY <2>b, <3>2, <3>4, ParenInnerRead
      <4>3. PICK d \in n..End : d = p.delim
        BY <3>4, <4>1 DEF Sound
      <4>4. d \in 1..End /\ Is(d, {")"}) /\ d \in Nat
        BY <1>0, <2>a, <4>1, <4>3
      <4>5. d < End /\ d + 1 \in 1..End /\ Free(d, d + 1)
        <5>1. {")"} \cap Operands = {}
          BY LayoutFree DEF CloseBracket
        <5> QED BY <4>4, <5>1, GapFree
      <4>6. PICK x \in 1..End : x = d + 1
        BY <4>5
      <4>7. /\ j <= n /\ n <= d /\ d <= x /\ j <= x /\ n <= x /\ j \in 1..x /\ x \in n..End
            /\ n \in Nat /\ x \in Nat
        BY <1>0, <1>3, <2>a, <4>3, <4>6
      <4>8. Spells(e.leaves, n, x)
        BY <4>2, <4>3, <4>4, <4>5, <4>6, <4>7, SpellsUpTo
      <4>9. Free(j, n)
        <5>1. {"("} \cap Operands = {}
          BY LayoutFree DEF OpenBracket
        <5>2. Is(j, {"("})
          BY <2>1, <2>2
        <5> QED BY <1>3, <2>a, <5>1, <5>2, GapFree
      <4>10. Spells(e.leaves, j, x)
        BY <1>3, <4>7, <4>8, <4>9, SpellsFrom
      <4>11. Value(e)
        BY <3>4, <4>1, <4>2 DEF Value, Sound, Formed
      <4>12. Reads(inner, x) /\ From(inner, x)
        BY <2>b, <4>7, ReadsLater, ReadsIs
      <4>13. Read(Leading(inner, x, e), j)
        BY <4>2, <4>7, <4>10, <4>11, <4>12, LeadingRead
      <4>14. Sound(Leading(inner, x, e), x)
        BY <4>11, <4>12, LeadingSound
      <4>15. x \in j..End
        BY <4>7
      <4>16. ParseInner(inner, i) = Leading(inner, x, e)
        BY <3>1, <3>4, <4>2, <4>3, <4>6
      <4> QED BY <2>c, <4>13, <4>14, <4>15, <4>16
    <3> QED BY <3>3, <3>4
  <2>3. CASE toks[j] \in CloseBracket \cup {"DEINDENT"}
    <3>1. ParseInner(inner, i) = Ok(Null, n, j)
      BY <1>4, <1>7, <2>1, <2>3, <2>a DEF CloseBracket, Ids, Literals, Operators, BinaryOps, UnaryOps
    <3>2. toks[j] \notin Operands
      BY <2>3, LayoutFree DEF Layout
    <3>3. ~Is(j, Operands) /\ Free(j, n)
      BY <1>3, <2>0, <2>a, <3>2, StepFree DEF Is
    <3>4. Spells(<<>>, i, j)
      BY <1>3, SpellsNone
    <3>5. j <= n /\ n \in Nat
      BY <1>3, <2>a
    <3>6. Spells(Null.leaves, i, n)
      BY <1>0, <1>3, <1>5, <3>3, <3>4, <3>5, SpellsUpTo
    <3>7. Read(Ok(Null, n, j), i)
      BY <1>5, <2>a, <3>3, <3>6, OkRead
    <3> QED BY <3>1, <3>7
  <2>4. CASE toks[j] \in Ids
    <3>1. ParseInner(inner, i) = Id(inner, j)
      BY <1>4, <1>7, <2>1, <2>4 DEF CloseBracket, Ids, Literals, Operators, BinaryOps, UnaryOps
    <3>2. Sound(Id(inner, j), n)
      BY <1>3, <2>0, <2>a, <2>b, IdSound
    <3>3. Read(Id(inner, j), j)
      BY <1>3, <2>1, <2>4, <2>a, <2>b, IdRead
    <3> QED BY <2>c, <2>n, <3>1, <3>2, <3>3
  <2>5. CASE toks[j] \in Literals
    <3>1. ParseInner(inner, i) = Literal(inner, j)
      BY <1>4, <1>7, <2>1, <2>5 DEF CloseBracket, Ids, Literals, Operators, BinaryOps, UnaryOps
    <3>2. Sound(Literal(inner, j), n)
      BY <1>3, <2>0, <2>a, <2>b, LiteralSound
    <3>3. Read(Literal(inner, j), j)
      BY <1>3, <2>1, <2>5, <2>a, <2>b, LiteralRead
    <3> QED BY <2>c, <2>n, <3>1, <3>2, <3>3
  <2>6. CASE toks[j] \in Operators \ {"macro"}
    <3>1. ParseInner(inner, i) = UnaryOp(inner, j)
      BY <1>4, <1>7, <2>1, <2>6 DEF CloseBracket, Ids, Literals, Operators, BinaryOps, UnaryOps
    <3>2. Sound(UnaryOp(inner, j), n)
      BY <1>3, <2>0, <2>a, <2>b, UnaryOpSound
    <3>3. Read(UnaryOp(inner, j), j)
      BY <1>3, <2>0, <2>a, <2>b, UnaryOpRead
    <3> QED BY <2>c, <2>n, <3>1, <3>2, <3>3
  <2>7. CASE toks[j] \notin {"("} \cup CloseBracket \cup {"DEINDENT"} \cup Ids \cup Literals
                             \cup (Operators \ {"macro"})
    <3>1. ParseInner(inner, i) = Error
      <4> DEFINE paren == Is(j, {"(" })
                 closes == Is(j, CloseBracket \cup {"DEINDENT"})
                 id == Is(j, Ids)
                 lit == Is(j, Literals)
                 op == Is(j, Operators \ {"macro"})
      <4>1. ~paren /\ ~closes /\ ~id /\ ~lit /\ ~op
        BY <2>1, <2>7
      <4> QED BY <1>4, <1>7, <4>1
    <3> QED BY <3>1, FailuresRead
  <2> QED BY <2>2, <2>3, <2>4, <2>5, <2>6, <2>7
<1> QED BY <1>6, <1>7

\* Nor does any position of any sequence of tokens break that promise.
THEOREM InnerReads ==
  ASSUME toks \in Seq(AllTokens), AtMostOneComma, CommentsEndLines
  PROVE  \A i \in 1..End : Read(Inner(i), i)
<1>0. End \in Nat
  BY EndIs
<1>1. PICK f : Answers(f) /\ \A i : Inner(i) = f[i]
  BY InnerSolved
<1>a. \A k \in 1..End : Answered(f[k], k)
  BY <1>1, InnerAnswers
<1> DEFINE Fine(k) == Read(f[k], k)
<1> SUFFICES ASSUME NEW b \in 1..End, ~Fine(b) PROVE FALSE
  BY <1>1
<1> DEFINE T == {n \in 0..(End - 1) : ~Fine(End - n)}
<1>2. End - b \in T
  <2>1. End - (End - b) = b /\ End - b \in 0..(End - 1)
    BY <1>0
  <2> HIDE DEF Fine
  <2> QED BY <2>1
<1>3. PICK n \in T : \A m \in T : n <= m
  <2>1. T \in SUBSET Nat
    BY <1>0
  <2> HIDE DEF T
  <2> QED BY <1>2, <2>1, LeastNat
<1>4. PICK k \in Nat : k = End - n
  BY <1>0, <1>3
<1>5. k \in 1..End /\ ~Fine(k)
  <2>1. n \in 0..(End - 1) /\ ~Fine(End - n)
    BY <1>3
  <2> HIDE DEF Fine
  <2> QED BY <1>0, <1>4, <2>1
<1>6. \A m \in (k + 1)..End : Fine(m)
  <2> SUFFICES ASSUME NEW m \in (k + 1)..End, ~Fine(m) PROVE FALSE
    OBVIOUS
  <2> HIDE DEF Fine
  <2>1. End - (End - m) = m /\ End - m \in 0..(End - 1) /\ ~(n <= End - m)
    BY <1>0, <1>3, <1>4, <1>5
  <2>2. End - m \in T
    BY <2>1
  <2> QED BY <1>3, <2>1, <2>2
<1>7. PICK inner : inner = [m \in (k + 1)..End |-> f[m]]
  OBVIOUS
<1>8. f[k] = ParseInner(inner, k)
  BY <1>1, <1>5, <1>7 DEF Answers
<1>9. Reads(inner, k + 1)
  <2>1. \A m \in (k + 1)..End : m \in 1..End
    BY <1>5
  <2> QED BY <1>a, <1>6, <1>7, <2>1 DEF Reads
<1>10. Fine(k)
  BY <1>5, <1>8, <1>9, ParseInnerRead
<1> QED BY <1>5, <1>10

-----------------------------------------------------------------------------
(* What the loop has read.                                                 *)

\* The inductive invariant, on top of Loose.
Kept == AtMostOneComma /\ CommentsEndLines => AllReadable(exprs) /\ Spells(LeavesOf(exprs), 1, at)

\* Nothing before the first call,
LEMMA KeptInit == Init => Kept
<1> SUFFICES ASSUME Init PROVE Kept
  OBVIOUS
<1>1. at = 1 /\ exprs = <<>>
  BY DEF Init
<1>2. Free(1, 1)
  BY DEF Free
<1> QED BY <1>1, <1>2, LeavesEmpty, SpellsNone DEF Kept

\* and what a call reads comes behind what the calls before it read.
LEMMA KeptStep ==
  ASSUME Loose, Kept, [Next]_vars
  PROVE  Kept'
<1>0. toks \in Seq(AllTokens) /\ at \in 1..End /\ End \in Nat
  BY EndIs DEF Loose
<1>1. toks' = toks
  BY DEF Next, ParseOne, Finish, vars
<1>2. (AtMostOneComma /\ CommentsEndLines)' <=> AtMostOneComma /\ CommentsEndLines
  BY <1>1 DEF AtMostOneComma, CommentsEndLines, Occurrences, Is, End
<1>3. SUFFICES ASSUME AtMostOneComma, CommentsEndLines
               PROVE  (AllReadable(exprs) /\ Spells(LeavesOf(exprs), 1, at))'
  BY <1>2 DEF Kept
<1>4. AllReadable(exprs) /\ Spells(LeavesOf(exprs), 1, at)
  BY <1>3 DEF Kept
<1>5. \A ls, b : Spells(ls, 1, b)' <=> Spells(ls, 1, b)
  BY <1>1 DEF Spells
<1>6. CASE UNCHANGED <<at, exprs>>
  <2>1. PICK ls, b : ls = LeavesOf(exprs) /\ b = at
    OBVIOUS
  <2>2. LeavesOf(exprs)' = ls /\ at' = b /\ exprs' = exprs
    BY <1>6, <2>1
  <2>3. Spells(ls, 1, b)'
    BY <1>4, <1>5, <2>1
  <2> QED BY <1>4, <2>2, <2>3
<1>7. CASE ParseOne /\ ~UNCHANGED <<at, exprs>>
  <2>1. PICK i \in 1..End : i = at /\ i < End
    BY <1>0, <1>7 DEF ParseOne
  <2>2. PICK r : r = Inner(i)
    OBVIOUS
  <2>3. r.kind = "ok" /\ at' = r.rem /\ exprs' = Append(exprs, r.expr)
    <3>1. PICK q : q = Parse(i)
      OBVIOUS
    <3>2. IF q.kind = "ok" THEN at' = q.rem /\ exprs' = Append(exprs, q.expr)
                           ELSE at' = at /\ exprs' = exprs
      BY <1>7, <2>1, <3>1 DEF ParseOne
    <3>3. q.kind = "ok"
      BY <1>7, <3>2
    <3>4. q = IF r.kind = "ok" THEN IF Is(r.delim, CloseBracket \cup {"DEINDENT"}) THEN Error ELSE r ELSE r
      BY <2>2, <3>1 DEF Parse, Then
    <3>5. Error.kind # "ok"
      BY DEF Error, Failed
    <3> QED BY <3>2, <3>3, <3>4, <3>5
  <2>4. Sound(r, i) /\ Read(r, i)
    BY <1>0, <1>3, <2>2, InnerAnswers, InnerReads DEF Answered
  <2>5. PICK e : e = r.expr /\ Whole(e) /\ Readable(e)
    BY <2>3, <2>4 DEF Read, Whole
  <2>6. PICK es, ls : es = exprs /\ ls = LeavesOf(es)
    OBVIOUS
  <2>7. AllReadable(es) /\ ls \in Seq(Nat) /\ Spells(ls, 1, i)
    BY <1>4, <2>1, <2>6, LeavesReadable
  <2>8. PICK t : t = <<e>> /\ AllReadable(t) /\ LeavesOf(t) = e.leaves
    BY <2>5, LeavesOne
  <2>9. AllReadable(es \o t) /\ LeavesOf(es \o t) = LeavesOf(es) \o LeavesOf(t)
    BY <2>7, <2>8, LeavesJoin
  <2>10. Append(es, e) = es \o t
    <3>1. PICK S : es \in Seq(S)
      BY <2>7 DEF AllReadable, List
    <3>2. PICK V : V = S \cup {e}
      OBVIOUS
    <3>3. \A x : x \in Seq(S) => x \in Seq(S \cup {e})
      OBVIOUS
    <3>4. es \in Seq(V) /\ e \in V
      BY <3>1, <3>2, <3>3
    <3>5. Append(es, e) = es \o <<e>>
      BY <3>4, AppendIsConcat
    <3> QED BY <2>8, <3>5
  <2>11. PICK w, ws : w = es \o t /\ ws = ls \o e.leaves /\ AllReadable(w) /\ LeavesOf(w) = ws
    BY <2>6, <2>8, <2>9
  <2>12. PICK b : b = r.rem
    OBVIOUS
  <2>13. Spells(ws, 1, b)
    <3>1. Free(i, i) /\ i \in i..End /\ 1 \in 1..i
      BY <1>0 DEF Free
    <3>2. Spells(ls \o r.expr.leaves, 1, r.rem)
      BY <1>0, <2>3, <2>4, <2>7, <3>1, ReadJoin
    <3> QED BY <2>5, <2>11, <2>12, <3>2
  <2>14. exprs' = w /\ at' = b
    BY <2>3, <2>5, <2>6, <2>10, <2>11, <2>12
  <2>15. Spells(ws, 1, b)'
    BY <1>5, <2>13
  <2> QED BY <2>11, <2>14, <2>15
<1> QED BY <1>6, <1>7 DEF Next, Finish, vars

\* Read from left to right, the expressions that lemniParse answered hold exactly
\* the names and literals before the token it resumes at, each once and in order:
\* no rotation, flattening or splitting loses, repeats or moves one.  For every
\* sequence of tokens with one comma at most whose comments end their lines.
THEOREM OperandsStayInOrder == Spec => []OperandsInOrder
<1>1. Init => Loose /\ Kept
  BY LooseInit, KeptInit
<1>2. Loose /\ Kept /\ [Next]_vars => Loose' /\ Kept'
  BY LooseStep, KeptStep
<1>3. Loose /\ Kept => OperandsInOrder
  BY DEF Kept, OperandsInOrder
<1> QED BY <1>1, <1>2, <1>3, PTL DEF Spec
=============================================================================
