---------------------------- MODULE LexerProofs ----------------------------
(***************************************************************************)
(* What the lexer promises of every source text: no character is lost or   *)
(* read twice, the loader loses no token, locations are counted right, and *)
(* the open levels spell the leading whitespace of the line being read.    *)
(***************************************************************************)
EXTENDS Lexer, SequenceTheorems, FiniteSetTheorems, TLAPS

-----------------------------------------------------------------------------
(* Least and greatest elements.                                            *)

\* A set of naturals that is not empty has a least element.
LEMMA LeastNat ==
  ASSUME NEW S \in SUBSET Nat, S # {}
  PROVE  \E n \in S : \A m \in S : n <= m
<1> DEFINE R == OpToRel(<, Nat)
<1>1. IsWellFoundedOn(R, Nat)
  BY NatLessThanWellFounded
<1>2. PICK n \in S : \A m \in S : <<m, n>> \notin R
  <2> HIDE DEF R
  <2> QED BY <1>1, WFMin
<1>3. \A m \in S : ~(m < n)
  BY <1>2 DEF OpToRel
<1> QED BY <1>3

\* Min finds it.
LEMMA MinNat ==
  ASSUME NEW S \in SUBSET Nat, S # {}
  PROVE  Min(S) \in S /\ \A m \in S : Min(S) <= m
BY LeastNat DEF Min

\* Max finds the greatest element of a set that has a bound.
LEMMA MaxNat ==
  ASSUME NEW S \in SUBSET Nat, S # {}, NEW b \in Nat, \A m \in S : m <= b
  PROVE  Max(S) \in S /\ \A m \in S : m <= Max(S)
<1> DEFINE U == {n \in Nat : \A m \in S : m <= n}
<1>1. PICK n \in U : \A m \in U : n <= m
  BY LeastNat
<1>2. n \in S
  <2> SUFFICES ASSUME n \notin S PROVE FALSE
    OBVIOUS
  <2>1. n \in Nat /\ \A m \in S : m < n /\ m <= n - 1
    BY <1>1
  <2>2. PICK m \in S : TRUE
    OBVIOUS
  <2>3. n - 1 \in Nat
    BY <2>1, <2>2
  <2>4. n - 1 \in U
    BY <2>1, <2>3
  <2>5. n <= n - 1
    BY <1>1, <2>4
  <2> QED BY <2>1, <2>5
<1> QED BY <1>1, <1>2 DEF Max

-----------------------------------------------------------------------------
(* How far the scans reach.                                                *)

\* SkipWhile passes characters of the class and stops at the first other.
LEMMA SkipWhileStops ==
  ASSUME src \in Seq(Chars), NEW i \in 1..End, NEW class
  PROVE  /\ SkipWhile(i, class) \in i..End
         /\ \A k \in i..(SkipWhile(i, class) - 1) : k < End /\ src[k] \in class
         /\ SkipWhile(i, class) < End => src[SkipWhile(i, class)] \notin class
         /\ i < End /\ src[i] \in class => SkipWhile(i, class) > i
<1> DEFINE S == {k \in i..End : k = End \/ src[k] \notin class}
<1>1. End \in Nat /\ i \in Nat /\ S \in SUBSET Nat /\ End \in S
  BY DEF End
<1>2. SkipWhile(i, class) = Min(S)
  BY DEF SkipWhile
<1>3. Min(S) \in S /\ \A m \in S : Min(S) <= m
  BY <1>1, MinNat
<1> DEFINE j == Min(S)
<1>4. j \in i..End /\ (j = End \/ src[j] \notin class)
  BY <1>3
<1>5. \A k \in i..(j - 1) : k < End /\ src[k] \in class
  <2> SUFFICES ASSUME NEW k \in i..(j - 1) PROVE k < End /\ src[k] \in class
    OBVIOUS
  <2>1. k \in i..End /\ k < j /\ k < End
    BY <1>1, <1>4
  <2>2. k \notin S
    BY <1>3, <1>1, <2>1
  <2> QED BY <2>1, <2>2
<1>6. i < End /\ src[i] \in class => j > i
  BY <1>1, <1>4
<1> HIDE DEF S
<1> QED BY <1>2, <1>4, <1>5, <1>6

\* The loop that looks for the end of a string is well defined.
LEMMA StringEndFacts ==
  ASSUME src \in Seq(Chars), NEW i \in 1..Len(src)
  PROVE  StringEnd(i) = 0 \/ StringEnd(i) \in (i + 1)..End
<1> DEFINE close == Mirror(src[i])
           c(k) == IF src[k] = "bs" THEN k + 2 ELSE k
           Dom == 1..(End + 2)
           Body(f, k) == IF k >= End THEN 0
                         ELSE IF c(k) >= End THEN 0
                         ELSE IF src[c(k)] = close THEN c(k) + 1 ELSE f[c(k) + 1]
           Loop(f) == f = [k \in Dom |-> Body(f, k)]
           scan == CHOOSE f : Loop(f)
<1>0. End \in Nat /\ End = Len(src) + 1 /\ i < End
  BY DEF End
<1>1. \E f : Loop(f)
  \* functions that are a solution from n on
  <2> DEFINE Solved(n) == \E f \in [Dom -> Int] : \A k \in n..(End + 2) : f[k] = Body(f, k)
             Open == {m \in 0..(End + 1) : ~Solved(End + 2 - m)}
  <2>0. \A k \in Dom : c(k) \in Nat /\ c(k) >= k /\ (c(k) < End => c(k) + 1 \in Dom)
    BY <1>0
  <2> HIDE DEF c
  <2>1. Solved(End + 2)
    <3> DEFINE f == [k \in Dom |-> 0]
    <3>1. f \in [Dom -> Int]
      OBVIOUS
    <3>2. \A k \in (End + 2)..(End + 2) : k \in Dom /\ k >= End
      BY <1>0
    <3>3. \A k \in (End + 2)..(End + 2) : f[k] = Body(f, k)
      BY <3>2
    <3> QED BY <3>1, <3>3
  <2>2. ASSUME NEW n \in 1..(End + 1), Solved(n + 1)
        PROVE  Solved(n)
    <3>1. PICK f \in [Dom -> Int] : \A k \in (n + 1)..(End + 2) : f[k] = Body(f, k)
      BY <2>2
    <3>0. n \in Dom
      BY <1>0
    <3> DEFINE g == [f EXCEPT ![n] = Body(f, n)]
    <3>2. Body(f, n) \in Int
      BY <1>0, <2>0, <3>0
    <3> HIDE DEF Body
    <3>3. g \in [Dom -> Int] /\ g[n] = Body(f, n) /\ \A k \in Dom : k # n => g[k] = f[k]
      BY <3>0, <3>2
    <3>4. \A k \in n..(End + 2) : Body(g, k) = Body(f, k)
      <4> SUFFICES ASSUME NEW k \in n..(End + 2) PROVE Body(g, k) = Body(f, k)
        OBVIOUS
      <4>1. k \in Dom /\ (c(k) < End => c(k) + 1 # n /\ c(k) + 1 \in Dom)
        BY <1>0, <2>0
      <4>2. c(k) < End => g[c(k) + 1] = f[c(k) + 1]
        BY <3>3, <4>1
      <4>3. c(k) < End \/ c(k) >= End
        BY <1>0, <2>0, <4>1
      <4> HIDE DEF g
      <4> QED BY <4>2, <4>3 DEF Body
    <3>5. \A k \in n..(End + 2) : g[k] = Body(g, k)
      <4> SUFFICES ASSUME NEW k \in n..(End + 2) PROVE g[k] = Body(g, k)
        OBVIOUS
      <4>1. CASE k = n
        BY <3>3, <3>4, <4>1
      <4>2. CASE k # n
        <5>1. k \in (n + 1)..(End + 2) /\ k \in Dom
          BY <1>0, <4>2
        <5> QED BY <3>1, <3>3, <3>4, <4>2, <5>1
      <4> QED BY <4>1, <4>2
    <3> QED BY <3>3, <3>5
  <2>3. Open = {}
    <3> SUFFICES ASSUME Open # {} PROVE FALSE
      OBVIOUS
    <3> HIDE DEF Solved
    <3>0. Open \in SUBSET Nat
      BY <1>0
    <3>1. PICK m \in Open : \A l \in Open : m <= l
      BY <3>0, LeastNat
    <3>2. m # 0
      BY <1>0, <2>1
    <3>3. m \in 0..(End + 1) /\ ~Solved(End + 2 - m)
      BY <3>1
    <3>4. m - 1 \in 0..(End + 1) /\ ~(m <= m - 1)
      <4> HIDE DEF Open
      <4> QED BY <1>0, <3>2, <3>3
    <3>5. Solved(End + 2 - (m - 1))
      <4>1. m - 1 \notin Open
        <5> HIDE DEF Open
        <5> QED BY <3>1, <3>4
      <4> QED BY <3>4, <4>1
    <3>6. End + 2 - m \in 1..(End + 1) /\ End + 2 - (m - 1) = (End + 2 - m) + 1
      <4> HIDE DEF Open
      <4> QED BY <1>0, <3>2, <3>3
    <3> QED BY <2>2, <3>3, <3>5, <3>6
  <2>4. Solved(1)
    <3> HIDE DEF Solved
    <3>1. End + 1 \in 0..(End + 1) /\ End + 2 - (End + 1) = 1
      BY <1>0
    <3> QED BY <2>3, <3>1
  <2>5. PICK f \in [Dom -> Int] : \A k \in 1..(End + 2) : f[k] = Body(f, k)
    BY <2>4
  <2>6. Loop(f)
    BY <2>5
  <2> QED BY <2>6
<1>2. Loop(scan)
  <2> HIDE DEF Loop
  <2> QED BY <1>1
<1>3. StringEnd(i) = scan[i + 1]
  BY DEF StringEnd
<1>4. \A k \in Dom : scan[k] = Body(scan, k)
  <2> HIDE DEF Body, scan
  <2> QED BY <1>2
<1>5. \A k \in Dom : c(k) \in Nat /\ c(k) >= k /\ (c(k) < End => c(k) + 1 \in Dom)
  BY <1>0
<1> DEFINE Wrong == {m \in 0..(End + 1) : ~(scan[End + 2 - m] = 0 \/ scan[End + 2 - m] \in (End + 3 - m)..End)}
<1> HIDE DEF scan, c
<1>6. Wrong = {}
  <2> SUFFICES ASSUME Wrong # {} PROVE FALSE
    OBVIOUS
  <2>1. Wrong \in SUBSET Nat
    BY <1>0
  <2>2. PICK m \in Wrong : \A l \in Wrong : m <= l
    BY <2>1, LeastNat
  <2> DEFINE k == End + 2 - m
             l == End + 2 - (c(k) + 1)
  <2>3. k \in Dom /\ ~(scan[k] = 0 \/ scan[k] \in (k + 1)..End)
    <3>1. m \in 0..(End + 1) /\ ~(scan[k] = 0 \/ scan[k] \in (End + 3 - m)..End)
      BY <2>2
    <3>2. End + 3 - m = k + 1 /\ k \in 1..(End + 2)
      BY <1>0, <3>1
    <3> QED BY <3>1, <3>2
  <2>4. scan[k] = Body(scan, k)
    BY <1>4, <2>3
  <2>5. /\ c(k) \in Nat /\ c(k) >= k /\ c(k) < End
        /\ scan[k] = scan[c(k) + 1]
    <3> HIDE DEF Wrong, k
    <3>1. k \in Dom /\ scan[k] # 0
      BY <2>3
    <3>2. c(k) \in Nat /\ c(k) >= k /\ k \in Nat
      BY <1>0, <1>5, <3>1
    <3>3. k < End /\ c(k) < End
      BY <1>0, <2>4, <3>1, <3>2
    <3>4. c(k) + 1 \in (k + 1)..End
      BY <1>0, <3>2, <3>3
    <3>5. scan[k] = IF src[c(k)] = close THEN c(k) + 1 ELSE scan[c(k) + 1]
      BY <1>0, <2>4, <3>2, <3>3
    <3>6. scan[k] = scan[c(k) + 1]
      BY <2>3, <3>4, <3>5
    <3> QED BY <3>2, <3>3, <3>6
  <2>6. l \in 0..(End + 1) /\ l < m /\ End + 2 - l = c(k) + 1 /\ End + 3 - l = c(k) + 2
    <3>1. ASSUME NEW e \in Nat, NEW n \in 0..(e + 1), NEW d \in Nat, d >= e + 2 - n, d < e
          PROVE  LET x == e + 2 - (d + 1)
                 IN  x \in 0..(e + 1) /\ x < n /\ e + 2 - x = d + 1 /\ e + 3 - x = d + 2
      BY <3>1
    <3>2. m \in 0..(End + 1)
      BY <2>2
    <3>3. c(k) \in Nat /\ c(k) >= End + 2 - m /\ c(k) < End
      BY <2>5
    <3> HIDE DEF Wrong, k
    <3> QED BY <1>0, <3>1, <3>2, <3>3
  <2>7. l \notin Wrong
    BY <2>1, <2>2, <2>6
  <2>8. scan[c(k) + 1] = 0 \/ scan[c(k) + 1] \in (c(k) + 2)..End
    BY <2>6, <2>7
  <2>9. k \in Nat /\ ~(scan[k] = 0 \/ scan[k] \in (k + 1)..End)
    BY <1>0, <2>3
  <2> HIDE DEF Wrong, k, l
  <2> QED BY <1>0, <2>5, <2>8, <2>9
<1>7. scan[i + 1] = 0 \/ scan[i + 1] \in (i + 2)..End
  <2> DEFINE m == End + 1 - i
  <2>1. m \in 0..(End + 1) /\ End + 2 - m = i + 1 /\ End + 3 - m = i + 2
    BY <1>0
  <2> QED BY <1>6, <2>1
<1> QED BY <1>0, <1>3, <1>7

-----------------------------------------------------------------------------
(* How many levels a line matches.                                         *)

\* A part of the text between two positions of it.
Slices == {s \in [from : 1..End, to : 1..End] : s.from <= s.to}

LEMMA TextIsSeq ==
  ASSUME src \in Seq(Chars), NEW s \in Slices
  PROVE  /\ Text(s) \in Seq(Chars) /\ Len(Text(s)) = s.to - s.from
         /\ \A k \in 1..(s.to - s.from) : Text(s)[k] = src[s.from + k - 1]
<1>1. /\ Len(src) \in Nat /\ s.from \in 1..(Len(src) + 1) /\ s.to - 1 \in (s.from - 1)..Len(src)
      /\ s.to \in Int /\ s.from \in Int
  BY DEF Slices, End
<1> DEFINE m == s.from
           n == s.to - 1
<1>2. m \in Int /\ n \in Int /\ n - m + 1 = s.to - s.from /\ (m <= n \/ s.to - s.from = 0)
  BY <1>1 DEF Slices
<1>3. \A k \in m..n : src[k] \in Chars
  <2> SUFFICES ASSUME NEW k \in m..n PROVE src[k] \in Chars
    OBVIOUS
  <2>1. k \in 1..Len(src)
    BY <1>1
  <2> QED BY <2>1, ElementOfSeq
<1>4. Text(s) = SubSeq(src, m, n)
  BY DEF Text
<1> HIDE DEF m, n
<1>5. /\ SubSeq(src, m, n) \in Seq(Chars)
      /\ Len(SubSeq(src, m, n)) = IF m <= n THEN n - m + 1 ELSE 0
      /\ \A k \in 1..(n - m + 1) : SubSeq(src, m, n)[k] = src[m + k - 1]
  BY <1>2, <1>3, SubSeqProperties
<1>6. Len(Text(s)) = s.to - s.from
  BY <1>2, <1>4, <1>5
<1>7. Text(s) \in Seq(Chars)
  BY <1>4, <1>5
<1>8. \A k \in 1..(s.to - s.from) : Text(s)[k] = src[s.from + k - 1]
  BY <1>2, <1>4, <1>5 DEF m
<1> QED BY <1>6, <1>7, <1>8

\* The characters that agree are counted from the start.
LEMMA AgreeIsNat ==
  ASSUME NEW a \in Seq(Chars), NEW b \in Seq(Chars)
  PROVE  /\ Agree(a, b) \in Nat /\ Agree(a, b) <= Len(a) /\ Agree(a, b) <= Len(b)
         /\ SubSeq(a, 1, Agree(a, b)) = SubSeq(b, 1, Agree(a, b))
<1> DEFINE n == Min({Len(a), Len(b)})
           S == {k \in 0..n : SubSeq(a, 1, k) = SubSeq(b, 1, k)}
<1>0. {Len(a), Len(b)} \in SUBSET Nat /\ {Len(a), Len(b)} # {}
  OBVIOUS
<1>1. n \in {Len(a), Len(b)} /\ n <= Len(a) /\ n <= Len(b) /\ n \in Nat
  BY <1>0, MinNat
<1> HIDE DEF n
<1>2. 0 \in S
  <2>1. SubSeq(a, 1, 0) = <<>> /\ SubSeq(b, 1, 0) = <<>>
    BY SubSeqEmpty
  <2> QED BY <1>1, <2>1
<1>3. S \in SUBSET Nat /\ S # {} /\ \A m \in S : m <= n
  <2>1. S \subseteq 0..n
    OBVIOUS
  <2> HIDE DEF S
  <2> QED BY <1>1, <1>2, <2>1
<1>4. Max(S) \in S
  <2> HIDE DEF S
  <2> QED BY <1>1, <1>3, MaxNat
<1>6. /\ Max(S) \in 0..n
      /\ SubSeq(a, 1, Max(S)) = SubSeq(b, 1, Max(S))
  BY <1>4
<1>5. Agree(a, b) = Max(S)
  BY DEF Agree, n
<1> HIDE DEF S
<1> QED BY <1>1, <1>6, <1>5

\* One round of the comparison loop: how much of level i is read, and what follows.
Read(i, at, to) ==
  LET level == Text(indents[i])
  IN  Min({Agree(level, SubSeq(src, at, to - 1)) + 1, Len(level), to - at})
Round(f, i, at, to) ==
  LET read == Read(i, at, to) IN
  IF i > Len(indents) \/ at = to THEN [levels |-> i - 1, rest |-> at]
  ELSE IF at + read = to
       THEN [levels |-> IF read = Len(Text(indents[i])) THEN i ELSE i - 1, rest |-> to]
       ELSE IF Agree(Text(indents[i]), SubSeq(src, at, to - 1)) < Len(Text(indents[i]))
       THEN [levels |-> i - 1, rest |-> at + read]
       ELSE f[<<i + 1, at + read>>]

\* The comparison loop is well defined, and it stops within the whitespace and
\* at one of the levels.
LEMMA MatchSolved ==
  ASSUME src \in Seq(Chars), indents \in Seq(Slices),
         NEW to \in 1..End, pos \in 1..to
  PROVE  /\ Match(to) \in [levels : 0..Len(indents), rest : pos..to]
         /\ \E from : /\ Match(to) = from[<<1, pos>>]
                      /\ \A i \in 1..(Len(indents) + 1), at \in pos..to :
                           from[<<i, at>>] = Round(from, i, at, to)
<1> DEFINE L == Len(indents)
           Dom == (1..(L + 1)) \X (pos..to)
           level(i) == Text(indents[i])
           same(i, at) == Agree(level(i), SubSeq(src, at, to - 1))
           read(i, at) == Min({same(i, at) + 1, Len(level(i)), to - at})
           Body(f, i, at) ==
             IF i > L \/ at = to THEN [levels |-> i - 1, rest |-> at]
             ELSE IF at + read(i, at) = to
                  THEN [levels |-> IF read(i, at) = Len(level(i)) THEN i ELSE i - 1, rest |-> to]
                  ELSE IF same(i, at) < Len(level(i))
                  THEN [levels |-> i - 1, rest |-> at + read(i, at)]
                  ELSE f[<<i + 1, at + read(i, at)>>]
           Loop(f) == f = [p \in Dom |-> Body(f, p[1], p[2])]
           from == CHOOSE f : Loop(f)
<1>0. L \in Nat /\ pos \in Nat /\ to \in Nat /\ pos <= to /\ to <= Len(src) + 1 /\ pos >= 1
  BY DEF End
<1>1. \A i \in 1..L, at \in pos..to : at < to => read(i, at) \in 0..(to - at)
  <2> SUFFICES ASSUME NEW i \in 1..L, NEW at \in pos..to, at < to
               PROVE  read(i, at) \in 0..(to - at)
    OBVIOUS
  <2>1. Len(level(i)) \in Nat /\ level(i) \in Seq(Chars)
    <3>1. indents[i] \in Slices
      OBVIOUS
    <3> QED BY <3>1, TextIsSeq
  <2>2. SubSeq(src, at, to - 1) \in Seq(Chars)
    BY <1>0, SubSeqProperties
  <2>3. same(i, at) \in Nat
    BY <2>1, <2>2, AgreeIsNat
  <2> HIDE DEF same, level
  <2>4. {same(i, at) + 1, Len(level(i)), to - at} \in SUBSET Nat
    BY <1>0, <2>1, <2>3
  <2>5. read(i, at) \in Nat /\ read(i, at) <= to - at
    BY <2>4, MinNat
  <2> QED BY <1>0, <2>5
<1> HIDE DEF same, level, read
<1> DEFINE Ans == [levels : 0..L, rest : pos..to]
<1>2. \A f \in [Dom -> Ans] : \A i \in 1..(L + 1), at \in pos..to : Body(f, i, at) \in Ans
  <2> SUFFICES ASSUME NEW f \in [Dom -> Ans], NEW i \in 1..(L + 1), NEW at \in pos..to
               PROVE  Body(f, i, at) \in Ans
    OBVIOUS
  <2>1. CASE i > L \/ at = to
    BY <1>0, <2>1
  <2>2. CASE ~(i > L \/ at = to)
    <3>1. i \in 1..L /\ at < to /\ read(i, at) \in 0..(to - at) /\ i - 1 \in 0..L
          /\ at + read(i, at) \in pos..to /\ i + 1 \in 1..(L + 1)
      BY <1>0, <1>1, <2>2
    <3>2. <<i + 1, at + read(i, at)>> \in Dom
      BY <3>1
    <3>3. f[<<i + 1, at + read(i, at)>>] \in Ans
      BY <3>2
    <3> QED BY <1>0, <2>2, <3>1, <3>3
  <2> QED BY <2>1, <2>2
<1>3. ASSUME NEW f, NEW g, NEW i \in 1..(L + 1), NEW at \in pos..to,
             \A a \in pos..to : i + 1 \in 1..(L + 1) => f[<<i + 1, a>>] = g[<<i + 1, a>>]
      PROVE  Body(f, i, at) = Body(g, i, at)
  <2>1. CASE i > L \/ at = to
    BY <2>1
  <2>2. CASE ~(i > L \/ at = to)
    <3>1. i \in 1..L /\ at < to
      BY <1>0, <2>2
    <3>2. read(i, at) \in 0..(to - at)
      BY <1>1, <3>1
    <3>3. at + read(i, at) \in pos..to /\ i + 1 \in 1..(L + 1)
      BY <1>0, <3>1, <3>2
    <3>4. f[<<i + 1, at + read(i, at)>>] = g[<<i + 1, at + read(i, at)>>]
      BY <1>3, <3>3
    <3> QED BY <2>2, <3>4
  <2> QED BY <2>1, <2>2
<1> HIDE DEF Body
<1>4. \E f \in [Dom -> Ans] : Loop(f)
  <2> DEFINE Solved(n) == \E f \in [Dom -> Ans] : \A i \in n..(L + 1), at \in pos..to : f[<<i, at>>] = Body(f, i, at)
             Open == {m \in 0..(L + 1) : ~Solved(L + 2 - m)}
  <2>1. Solved(L + 2)
    <3> DEFINE f == [p \in Dom |-> [levels |-> 0, rest |-> pos]]
    <3>1. f \in [Dom -> Ans]
      BY <1>0
    <3>2. \A i \in (L + 2)..(L + 1), at \in pos..to : f[<<i, at>>] = Body(f, i, at)
      BY <1>0
    <3> QED BY <3>1, <3>2
  <2>2. ASSUME NEW n \in 1..(L + 1), Solved(n + 1)
        PROVE  Solved(n)
    <3>1. PICK f \in [Dom -> Ans] : \A i \in (n + 1)..(L + 1), at \in pos..to : f[<<i, at>>] = Body(f, i, at)
      BY <2>2
    <3> DEFINE g == [p \in Dom |-> IF p[1] = n THEN Body(f, n, p[2]) ELSE f[p]]
    <3>2. g \in [Dom -> Ans]
      <4> SUFFICES ASSUME NEW p \in Dom PROVE (IF p[1] = n THEN Body(f, n, p[2]) ELSE f[p]) \in Ans
        OBVIOUS
      <4>1. p[2] \in pos..to
        OBVIOUS
      <4>2. Body(f, n, p[2]) \in Ans
        BY <1>2, <4>1
      <4> QED BY <4>2
    <3>3. \A i \in 1..(L + 1), at \in pos..to :
             g[<<i, at>>] = IF i = n THEN Body(f, n, at) ELSE f[<<i, at>>]
      OBVIOUS
    <3> HIDE DEF g
    <3>4. \A i \in n..(L + 1), at \in pos..to : g[<<i, at>>] = Body(g, i, at)
      <4> SUFFICES ASSUME NEW i \in n..(L + 1), NEW at \in pos..to PROVE g[<<i, at>>] = Body(g, i, at)
        OBVIOUS
      <4>1. i \in 1..(L + 1) /\ i + 1 # n /\ i \in Nat /\ n \in Nat
        BY <1>0
      <4>2. \A a \in pos..to : i + 1 \in 1..(L + 1) => f[<<i + 1, a>>] = g[<<i + 1, a>>]
        BY <3>3, <4>1
      <4>3. Body(f, i, at) = Body(g, i, at)
        BY <1>3, <4>1, <4>2
      <4>4. g[<<i, at>>] = Body(f, i, at)
        <5>1. CASE i = n
          BY <3>3, <4>1, <5>1
        <5>2. CASE i # n
          <6>1. i \in (n + 1)..(L + 1)
            BY <1>0, <5>2
          <6> QED BY <3>1, <3>3, <4>1, <5>2, <6>1
        <5> QED BY <5>1, <5>2
      <4> QED BY <4>3, <4>4
    <3> QED BY <3>2, <3>4
  <2>3. Open = {}
    <3> SUFFICES ASSUME Open # {} PROVE FALSE
      OBVIOUS
    <3> HIDE DEF Solved
    <3>0. Open \in SUBSET Nat
      BY <1>0
    <3>1. PICK m \in Open : \A l \in Open : m <= l
      BY <3>0, LeastNat
    <3>2. m # 0
      BY <1>0, <2>1
    <3>3. m \in 0..(L + 1) /\ ~Solved(L + 2 - m)
      BY <3>1
    <3>4. m - 1 \in 0..(L + 1) /\ ~(m <= m - 1)
      <4> HIDE DEF Open
      <4> QED BY <1>0, <3>2, <3>3
    <3>5. Solved(L + 2 - (m - 1))
      <4>1. m - 1 \notin Open
        <5> HIDE DEF Open
        <5> QED BY <3>1, <3>4
      <4> QED BY <3>4, <4>1
    <3>6. L + 2 - m \in 1..(L + 1) /\ L + 2 - (m - 1) = (L + 2 - m) + 1
      <4> HIDE DEF Open
      <4> QED BY <1>0, <3>2, <3>3
    <3> QED BY <2>2, <3>3, <3>5, <3>6
  <2>4. Solved(1)
    <3> HIDE DEF Solved
    <3>1. L + 1 \in 0..(L + 1) /\ L + 2 - (L + 1) = 1
      BY <1>0
    <3> QED BY <2>3, <3>1
  <2>5. PICK f \in [Dom -> Ans] : \A i \in 1..(L + 1), at \in pos..to : f[<<i, at>>] = Body(f, i, at)
    BY <2>4
  <2>6. \A p \in Dom : f[p] = Body(f, p[1], p[2])
    <3> SUFFICES ASSUME NEW p \in Dom PROVE f[p] = Body(f, p[1], p[2])
      OBVIOUS
    <3>1. p[1] \in 1..(L + 1) /\ p[2] \in pos..to /\ p = <<p[1], p[2]>>
      OBVIOUS
    <3> QED BY <2>5, <3>1
  <2>7. Loop(f)
    BY <2>6
  <2> QED BY <2>6
<1>5. Loop(from)
  <2> HIDE DEF Loop
  <2> QED BY <1>4
<1>6. Match(to) = from[<<1, pos>>]
  BY DEF Match, Body, read, same, level
<1>7. \A i \in 1..(L + 1), at \in pos..to : from[<<i, at>>] = Body(from, i, at)
  <2> HIDE DEF from
  <2> SUFFICES ASSUME NEW i \in 1..(L + 1), NEW at \in pos..to PROVE from[<<i, at>>] = Body(from, i, at)
    OBVIOUS
  <2>1. <<i, at>> \in Dom
    OBVIOUS
  <2> QED BY <1>5, <2>1
<1> HIDE DEF from
<1> DEFINE Wrong == {m \in 0..L : ~\A at \in pos..to : from[<<L + 1 - m, at>>] \in Ans}
<1>8. Wrong = {}
  <2> SUFFICES ASSUME Wrong # {} PROVE FALSE
    OBVIOUS
  <2>0. Wrong \in SUBSET Nat
    BY <1>0
  <2>1. PICK m \in Wrong : \A l \in Wrong : m <= l
    BY <2>0, LeastNat
  <2>2. m \in 0..L /\ L + 1 - m \in 1..(L + 1)
    BY <1>0, <2>1
  <2>3. PICK at \in pos..to : from[<<L + 1 - m, at>>] \notin Ans
    BY <2>1
  <2> DEFINE i == L + 1 - m
  <2>4. from[<<i, at>>] = Body(from, i, at)
    BY <1>7, <2>2
  <2>5. CASE i > L \/ at = to
    BY <1>0, <2>2, <2>3, <2>4, <2>5 DEF Body
  <2>6. CASE ~(i > L \/ at = to)
    <3>1. i \in 1..L /\ at < to /\ m - 1 \in 0..L /\ L + 1 - (m - 1) = i + 1 /\ i - 1 \in 0..L /\ i \in 0..L
      BY <1>0, <2>2, <2>6
    <3>2. m - 1 \notin Wrong
      <4> HIDE DEF Wrong
      <4>1. m \in Nat /\ ~(m <= m - 1)
        BY <2>2
      <4> QED BY <2>1, <4>1
    <3>3. \A a \in pos..to : from[<<i + 1, a>>] \in Ans
      BY <3>1, <3>2
    <3>4. read(i, at) \in 0..(to - at)
      BY <1>1, <3>1
    <3>5. at + read(i, at) \in pos..to
      <4>1. ASSUME NEW a \in pos..to, NEW d \in 0..(to - a) PROVE a + d \in pos..to
        BY <1>0
      <4> HIDE DEF read, Wrong
      <4> QED BY <3>4, <4>1
    <3>6. /\ from[<<i + 1, at + read(i, at)>>] \in Ans
          /\ [levels |-> i - 1, rest |-> at + read(i, at)] \in Ans
          /\ [levels |-> i - 1, rest |-> to] \in Ans /\ [levels |-> i, rest |-> to] \in Ans
      <4>1. to \in pos..to
        BY <1>0
      <4> HIDE DEF read, Wrong
      <4> QED BY <3>1, <3>3, <3>5, <4>1
    <3>7. Body(from, i, at) \in Ans
      <4> HIDE DEF i, Ans
      <4> QED BY <2>6, <3>6 DEF Body
    <3> QED BY <2>3, <2>4, <3>7
  <2> QED BY <2>5, <2>6
<1>9. from[<<1, pos>>] \in Ans
  <2>1. L \in 0..L /\ L + 1 - L = 1 /\ pos \in pos..to
    BY <1>0
  <2> QED BY <1>8, <2>1
<1>10. \A i \in 1..(L + 1), at \in pos..to : Body(from, i, at) = Round(from, i, at, to)
  BY DEF Body, Round, Read, read, same, level
<1>11. \A i \in 1..(L + 1), at \in pos..to : from[<<i, at>>] = Round(from, i, at, to)
  BY <1>7, <1>10
<1> QED BY <1>6, <1>9, <1>11

-----------------------------------------------------------------------------
(* The inductive invariant.                                                *)

Locations == [line : Nat, col : Int]
Indentation == {"INDENT", "DEINDENT"}
Measured == {"ID", "OP", "COMMENT", "SPACE"}      \* the tokens LocationsTrue is about
Kinds == Indentation \cup Measured
         \cup {"NEWLINE", "INT", "REAL", "BINARY", "OPEN", "CLOSE", "STR"}
Tokens == [kind : Kinds, from : 1..End, to : 1..End, loc : Locations]

TypeOK ==
  /\ src \in Seq(Chars)
  /\ pos \in 1..End
  /\ loc \in Locations
  /\ onNewLine \in BOOLEAN
  /\ indents \in Seq(Slices)
  /\ backlog \in Seq(Tokens)
  /\ status \in {"lexing", "eof", "error", "thrown"}
  /\ out \in Seq(Tokens)

\* The tokens of s come in the order of the text, before the remainder.
InOrder(s) ==
  /\ \A i \in DOMAIN s : s[i].from <= s[i].to /\ s[i].to <= pos
  /\ \A i, j \in DOMAIN s : i < j => s[i].to <= s[j].from

\* So do the answered tokens and then the queued ones, which are indentation.
TokensInOrder ==
  /\ InOrder(out)
  /\ InOrder(backlog)
  /\ \A i \in DOMAIN out, j \in DOMAIN backlog : out[i].to <= backlog[j].from
  /\ \A j \in DOMAIN backlog : backlog[j].kind \in Indentation

\* Only whitespace is passed over.
NothingSkipped ==
  \A k \in 1..(pos - 1) :
    src[k] \notin Space => \E i \in DOMAIN out : out[i].from <= k /\ k < out[i].to

\* Tokens are queued behind whitespace other than a newline.
QueueBehindSpace == backlog # <<>> => pos > 1 /\ src[pos - 1] # "nl"

\* The lexer knows when a line starts.
KnowsLineStarts == onNewLine => pos = 1 \/ src[pos - 1] = "nl"

\* The location of position k in the text.
Newlines(k) == {j \in 1..(k - 1) : src[j] = "nl"}
LocationOf(k) == [line |-> Cardinality(Newlines(k)), col |-> k - LineStart(k)]

\* The texts LocationsTrue is about, and what holds of them.
PlainText == NoBlankLine /\ ToSet(src) \cap (Digit \cup Bracket \cup Quote) = {}
LocationsCounted ==
  PlainText => /\ loc = LocationOf(pos)
               /\ \A i \in DOMAIN out :
                    out[i].kind \in Measured => out[i].loc = LocationOf(out[i].from)

IInv == /\ TypeOK
        /\ TokensInOrder
        /\ NothingSkipped
        /\ QueueBehindSpace
        /\ KnowsLineStarts
        /\ LocationsCounted

\* Only the text and the locations decide whether a step keeps the count.
LEMMA LocationsStep ==
  ASSUME src' = src,
         PlainText => /\ loc' = LocationOf(pos')
                      /\ \A j \in DOMAIN out' :
                           out'[j].kind \in Measured => out'[j].loc = LocationOf(out'[j].from)
  PROVE  LocationsCounted'
<1>1. PlainText' <=> PlainText
  BY DEF PlainText, NoBlankLine, LineStarts, SkipWhile, End
<1>2. LocationOf(pos)' = LocationOf(pos')
  BY DEF LocationOf, LineStart, Newlines
<1>3. \A i \in DOMAIN out' : LocationOf(out[i].from)' = LocationOf(out'[i].from)
  BY DEF LocationOf, LineStart, Newlines
<1> QED BY <1>1, <1>2, <1>3 DEF LocationsCounted

-----------------------------------------------------------------------------
(* Locations.                                                              *)

LEMMA NewlinesFinite ==
  ASSUME NEW k \in Nat
  PROVE  IsFiniteSet(Newlines(k)) /\ Cardinality(Newlines(k)) \in Nat
<1>1. IsFiniteSet(1..(k - 1))
  BY FS_Interval
<1>2. Newlines(k) \subseteq 1..(k - 1)
  BY DEF Newlines
<1> QED BY <1>1, <1>2, FS_Subset, FS_CardinalityType

\* A stretch without newlines stays on its line.
LEMMA SameLine ==
  ASSUME src \in Seq(Chars), NEW a \in 1..End, NEW b \in a..End,
         \A k \in a..(b - 1) : src[k] # "nl"
  PROVE  LocationOf(b) = [LocationOf(a) EXCEPT !.col = @ + (b - a)]
<1>0. a \in Nat /\ b \in Nat /\ a <= b
  BY DEF End
<1>1. Newlines(b) = Newlines(a)
  BY <1>0 DEF Newlines
<1>2. LineStart(b) = LineStart(a)
  BY <1>1 DEF LineStart, Newlines
<1>3. LineStart(a) \in Nat
  <2> DEFINE S == {0} \cup {j \in 1..(a - 1) : src[j] = "nl"}
  <2>1. S \in SUBSET Nat /\ S # {} /\ \A m \in S : m <= a
    BY <1>0
  <2>2. Max(S) \in S
    BY <1>0, <2>1, MaxNat
  <2> QED BY <2>1, <2>2 DEF LineStart
<1> QED BY <1>0, <1>1, <1>2, <1>3 DEF LocationOf

\* Behind newlines only, a line starts.
LEMMA LinesPassed ==
  ASSUME src \in Seq(Chars), NEW a \in 1..End, NEW b \in (a + 1)..End,
         \A k \in a..(b - 1) : src[k] = "nl"
  PROVE  LocationOf(b) = [line |-> LocationOf(a).line + (b - a), col |-> 0]
<1>0. a \in Nat /\ b \in Nat /\ a < b
  BY DEF End
<1>1. Newlines(b) = Newlines(a) \cup a..(b - 1) /\ Newlines(a) \cap a..(b - 1) = {}
  BY <1>0 DEF Newlines
<1>2. Cardinality(Newlines(b)) = Cardinality(Newlines(a)) + (b - a)
  <2>1. IsFiniteSet(a..(b - 1)) /\ Cardinality(a..(b - 1)) = b - a
    <3> DEFINE c == b - 1
    <3>1. a \in Int /\ c \in Int /\ ~(a > c) /\ c - a + 1 = b - a
      BY <1>0
    <3> HIDE DEF c
    <3>2. IsFiniteSet(a..c) /\ Cardinality(a..c) = b - a
      BY <3>1, FS_Interval
    <3> QED BY <3>2 DEF c
  <2>2. IsFiniteSet({}) /\ Cardinality({}) = 0
    BY FS_EmptySet
  <2>3. IsFiniteSet(Newlines(a)) /\ Cardinality(Newlines(a)) \in Nat
    BY <1>0, NewlinesFinite
  <2> DEFINE more == a..(b - 1)
  <2> HIDE DEF Newlines, more
  <2>4. Cardinality(Newlines(a) \cup more)
          = Cardinality(Newlines(a)) + Cardinality(more) - Cardinality(Newlines(a) \cap more)
    BY <2>1, <2>3, FS_Union DEF more
  <2>5. /\ Newlines(b) = Newlines(a) \cup more /\ Newlines(a) \cap more = {}
        /\ Cardinality(more) = b - a
    BY <1>1, <2>1 DEF more
  <2>6. Cardinality(Newlines(a) \cap more) = 0
    BY <2>2, <2>5
  <2>7. Cardinality(Newlines(b)) = Cardinality(Newlines(a)) + Cardinality(more) - 0
    BY <2>4, <2>5, <2>6
  <2> DEFINE n == Cardinality(Newlines(a))
             d == Cardinality(more)
  <2>8. n + d - 0 = n + (b - a)
    <3>1. n \in Nat /\ d = b - a
      BY <2>3, <2>5
    <3> HIDE DEF n, d
    <3> QED BY <1>0, <3>1
  <2> QED BY <2>7, <2>8
<1>3. LineStart(b) = b
  <2> DEFINE S == {0} \cup {j \in 1..(b - 1) : src[j] = "nl"}
  <2>1. S \in SUBSET Nat /\ S # {} /\ (\A m \in S : m <= b - 1) /\ b - 1 \in S /\ b - 1 \in Nat
    BY <1>0
  <2>2. Max(S) \in S /\ \A m \in S : m <= Max(S)
    <3> HIDE DEF S
    <3> QED BY <2>1, MaxNat
  <2>3. Max(S) = b - 1
    <3> DEFINE x == Max(S)
    <3>1. x \in Nat /\ x <= b - 1 /\ b - 1 <= x
      <4> HIDE DEF S
      <4> QED BY <2>1, <2>2
    <3> HIDE DEF x
    <3>2. x = b - 1
      BY <1>0, <3>1
    <3> QED BY <3>2 DEF x
  <2> QED BY <1>0, <2>3 DEF LineStart
<1> QED BY <1>0, <1>2, <1>3 DEF LocationOf

\* The text starts on line 0, in column 0.
LEMMA FirstLocation == LocationOf(1) = [line |-> 0, col |-> 0]
<1>1. Newlines(1) = {}
  BY DEF Newlines
<1>2. Cardinality(Newlines(1)) = 0
  BY <1>1, FS_EmptySet
<1>3. LineStart(1) = 1
  <2> DEFINE S == {0} \cup {j \in 1..(1 - 1) : src[j] = "nl"}
  <2>1. S = {0}
    BY <1>1 DEF Newlines
  <2>2. S \in SUBSET Nat /\ S # {} /\ \A m \in S : m <= 0
    BY <2>1
  <2>3. Max(S) \in S
    <3> HIDE DEF S
    <3> QED BY <2>2, MaxNat
  <2>4. Max(S) = 0
    BY <2>1, <2>3
  <2> QED BY <2>4 DEF LineStart
<1> QED BY <1>2, <1>3 DEF LocationOf

-----------------------------------------------------------------------------
(* What a visible text becomes: one token that starts where it does.       *)

LEMMA IntEndBounds ==
  ASSUME src \in Seq(Chars), NEW i \in 1..End
  PROVE  IntEnd(i) = 0 \/ IntEnd(i) \in i..End
<1> DEFINE class == XDigit \cup {"_"}
           j == SkipWhile(i, class)
<1>0. End \in Nat
  BY DEF End
<1>1. j \in i..End
  BY SkipWhileStops
<1>2. ASSUME NEW n \in 1..End
      PROVE  RealEnd(n) = 0 \/ RealEnd(n) \in n..End
  <2>1. SkipWhile(n, class) \in n..End
    BY SkipWhileStops
  <2> QED BY <2>1 DEF RealEnd
<1>3. j < End => j + 1 \in 1..End /\ \A k \in (j + 1)..End : k \in i..End
  <2> HIDE DEF j
  <2> QED BY <1>0, <1>1
<1>4. j < End => RealEnd(j + 1) = 0 \/ RealEnd(j + 1) \in i..End
  <2> HIDE DEF j
  <2> QED BY <1>2, <1>3
<1>5. IntEnd(i) = CASE j < End /\ src[j] = "." -> RealEnd(j + 1)
                    [] j < End /\ src[j] \in Letter -> 0
                    [] OTHER -> j
  BY DEF IntEnd
<1> HIDE DEF j
<1> QED BY <1>1, <1>4, <1>5

LEMMA NumberKinds ==
  ASSUME NEW num, NEW to
  PROVE  NumberKind(num, to) \in {"BAD", "REAL", "INT", "BINARY"}
<1> DEFINE based == to - num > 1 /\ src[num] = "0"
<1>1. NumberKind(num, to) =
        CASE IsReal(num) -> IF based /\ src[num + 1] # "." THEN "BAD" ELSE "REAL"
          [] ~IsReal(num) /\ ~based -> "INT"
          [] OTHER -> IF src[num + 1] = "b" THEN "BINARY" ELSE "BAD"
  BY DEF NumberKind
<1> HIDE DEF based
<1> DEFINE real == IsReal(num)
<1> HIDE DEF real
<1>2. NumberKind(num, to) =
        CASE real -> IF based /\ src[num + 1] # "." THEN "BAD" ELSE "REAL"
          [] ~real /\ ~based -> "INT"
          [] OTHER -> IF src[num + 1] = "b" THEN "BINARY" ELSE "BAD"
  BY <1>1 DEF real
<1> QED BY <1>2

\* Where a token of a plain text ends, its width is the text's.
Wide(i, to, cols) == cols = to - i /\ \A k \in i..(to - 1) : src[k] # "nl"

LEMMA VisibleEmits ==
  ASSUME src \in Seq(Chars), NEW i \in 1..Len(src), NEW at \in Locations, Visible(i, at)
  PROVE  \/ Fail("error")
         \/ \E kind \in Kinds \ Indentation, to \in i..End, cols \in Int :
              /\ Emit(kind, i, to, at, cols)
              /\ PlainText => Wide(i, to, cols)
<1>0. /\ Len(src) \in Nat /\ End = Len(src) + 1 /\ i \in 1..End /\ i < End
      /\ End \in Nat /\ i \in Nat /\ i + 1 \in i..End
  BY DEF End
<1> DEFINE Good == \E kind \in Kinds \ Indentation, to \in i..End, cols \in Int :
                      /\ Emit(kind, i, to, at, cols)
                      /\ PlainText => Wide(i, to, cols)
<1> SUFFICES Fail("error") \/ Good
  OBVIOUS
<1>P. PlainText => \A k \in 1..Len(src) : src[k] \notin Digit \cup Bracket \cup Quote
  BY DEF PlainText, ToSet
<1>1. ASSUME NEW class, "nl" \notin class, NEW kind \in Kinds \ Indentation,
             LET to == SkipWhile(i, class) IN Emit(kind, i, to, at, to - i)
      PROVE  Good
  <2> DEFINE to == SkipWhile(i, class)
  <2>1. to \in i..End /\ \A k \in i..(to - 1) : src[k] \in class
    BY <1>0, SkipWhileStops
  <2>2. Emit(kind, i, to, at, to - i)
    BY <1>1
  <2> HIDE DEF to
  <2>3. to - i \in Int /\ Wide(i, to, to - i)
    BY <1>0, <1>1, <2>1 DEF Wide
  <2> QED BY <2>1, <2>2, <2>3
<1>2. ASSUME NEW num \in i..End, src[i] \in Digit \/ src[num] \in Digit, num < End, Number(i, num, at)
      PROVE  Fail("error") \/ Good
  <2> DEFINE to == IntEnd(num)
             kind == NumberKind(num, to)
             cols == IF i = num THEN to - i - 1 ELSE to - i
  <2>1. to = 0 \/ to \in num..End
    BY <1>0, IntEndBounds
  <2>2. kind \in {"BAD", "REAL", "INT", "BINARY"}
    BY NumberKinds
  <2>3. CASE to = 0 \/ kind = "BAD"
    BY <1>2, <2>3 DEF Number
  <2>4. CASE ~(to = 0 \/ kind = "BAD")
    <3>1. Emit(kind, i, to, at, cols)
      BY <1>2, <2>4 DEF Number, NumberFrom
    <3> HIDE DEF to, kind, cols
    <3>2. to \in i..End /\ cols \in Int /\ kind \in Kinds \ Indentation
      BY <1>0, <2>1, <2>2, <2>4 DEF cols, Kinds, Indentation, Measured
    <3>3. num \in 1..Len(src)
      BY <1>0, <1>2
    <3>4. ~PlainText
      BY <1>2, <1>P, <3>3
    <3> QED BY <3>1, <3>2, <3>4
  <2> QED BY <2>3, <2>4
<1>3. CASE Word(i, at)
  <2>1. "nl" \notin Alnum \cup {"_"} /\ "ID" \in Kinds \ Indentation
    BY DEF Alnum, Digit, Letter, Kinds, Indentation, Measured
  <2>2. LET to == SkipWhile(i, Alnum \cup {"_"}) IN Emit("ID", i, to, at, to - i)
    BY <1>3 DEF Word
  <2> HIDE DEF Good
  <2> QED BY <1>1, <2>1, <2>2
<1>4. CASE src[i] \in Digit /\ Number(i, i, at)
  BY <1>0, <1>2, <1>4
<1>5. CASE Bracketed(i, at)
  <2> DEFINE kind == IF src[i] = "(" THEN "OPEN" ELSE "CLOSE"
  <2>1. src[i] \in Bracket /\ Emit(kind, i, i + 1, at, 0)
    BY <1>5 DEF Bracketed
  <2>2. ~PlainText /\ kind \in Kinds \ Indentation
    BY <1>P, <2>1 DEF Kinds, Indentation, Measured
  <2> QED BY <1>0, <2>1, <2>2
<1>6. CASE StringLiteral(i, at)
  <2> DEFINE to == StringEnd(i)
  <2>1. src[i] \in Quote /\ (to = 0 \/ to \in (i + 1)..End)
    BY <1>6, StringEndFacts DEF StringLiteral
  <2>2. CASE to = 0
    BY <1>6, <2>2 DEF StringLiteral
  <2>3. CASE to # 0
    <3>1. Emit("STR", i, to, at, to - i)
      BY <1>6, <2>3 DEF StringLiteral
    <3> HIDE DEF to
    <3>2. ~PlainText /\ "STR" \in Kinds \ Indentation /\ to \in i..End /\ to - i \in Int
      BY <1>0, <1>P, <2>1, <2>3 DEF Kinds, Indentation, Measured
    <3> QED BY <3>1, <3>2
  <2> QED BY <2>2, <2>3
<1>7. CASE Operator(i, at)
  <2> DEFINE next == IF i + 1 < End THEN src[i + 1] ELSE "nl"
  <2>1. CASE src[i] = "-" /\ next \in Digit
    <3>1. i + 1 < End /\ src[i + 1] \in Digit /\ i + 1 \in i..End
      BY <1>0, <2>1 DEF Digit
    <3>2. Number(i, i + 1, at)
      BY <1>7, <2>1 DEF Operator
    <3> HIDE DEF Good
    <3> QED BY <1>2, <3>1, <3>2
  <2>2. CASE ~(src[i] = "-" /\ next \in Digit) /\ src[i] = "/" /\ next = "/"
    <3>1. LET to == SkipWhile(i, Chars \ {"nl"}) IN Emit("COMMENT", i, to, at, to - i)
      BY <1>7, <2>2 DEF Operator, CommentEnd
    <3>2. "nl" \notin Chars \ {"nl"} /\ "COMMENT" \in Kinds \ Indentation
      BY DEF Kinds, Indentation, Measured
    <3> HIDE DEF Good
    <3> QED BY <1>1, <3>1, <3>2
  <2>3. CASE ~(src[i] = "-" /\ next \in Digit) /\ ~(src[i] = "/" /\ next = "/")
    <3>1. LET to == SkipWhile(i, Punct) IN Emit("OP", i, to, at, to - i)
      BY <1>7, <2>3 DEF Operator
    <3>2. "nl" \notin Punct /\ "OP" \in Kinds \ Indentation
      BY DEF Punct, Quote, Bracket, Kinds, Indentation, Measured
    <3> HIDE DEF Good
    <3> QED BY <1>1, <3>1, <3>2
  <2> QED BY <2>1, <2>2, <2>3
<1>8. CASE src[i] = "ctl" /\ Fail("error")
  BY <1>8
<1> HIDE DEF Good
<1> QED BY <1>3, <1>4, <1>5, <1>6, <1>7, <1>8 DEF Visible

-----------------------------------------------------------------------------
(* The steps.                                                              *)

\* What is said of the source alone stays.
LEMMA SourceStays ==
  ASSUME src' = src
  PROVE  /\ End' = End /\ Slices' = Slices /\ Tokens' = Tokens
         /\ PlainText' = PlainText
         /\ \A k : LocationOf(k)' = LocationOf(k)
<1>1. End' = End
  BY DEF End
<1>2. Slices' = Slices
  BY <1>1 DEF Slices
<1>3. Tokens' = Tokens
  BY <1>1 DEF Tokens
<1>4. LineStarts' = LineStarts
  BY DEF LineStarts
<1>5. \A k : SkipWhile(k, Space \ {"nl"})' = SkipWhile(k, Space \ {"nl"})
  BY <1>1 DEF SkipWhile
<1>6. NoBlankLine' = NoBlankLine
  BY <1>1, <1>4, <1>5 DEF NoBlankLine
<1>7. PlainText' = PlainText
  BY <1>6 DEF PlainText, ToSet
<1>8. \A k : LineStart(k)' = LineStart(k) /\ Newlines(k)' = Newlines(k)
  BY DEF LineStart, Newlines
<1>9. \A k : LocationOf(k)' = LocationOf(k)
  BY <1>8 DEF LocationOf
<1> QED BY <1>1, <1>2, <1>3, <1>7, <1>9

\* A token behind all others, up to the new remainder.
LEMMA AppendStep ==
  ASSUME IInv, src' = src, pos' \in pos..End, NEW t \in Tokens, out' = Append(out, t),
         backlog = <<>>, backlog' = <<>>,
         pos <= t.from, t.from <= t.to, t.to <= pos',
         \A k \in pos..(pos' - 1) : src[k] \in Space \/ (t.from <= k /\ k < t.to)
  PROVE  /\ out' \in Seq(Tokens) /\ backlog' \in Seq(Tokens) /\ pos' \in 1..End
         /\ TokensInOrder' /\ NothingSkipped' /\ QueueBehindSpace'
<1>0. /\ out \in Seq(Tokens) /\ pos \in 1..End /\ End \in Nat /\ pos \in Nat /\ pos' \in Nat /\ pos <= pos'
      /\ InOrder(out)
  BY DEF IInv, TypeOK, TokensInOrder, End
<1>1. /\ out' \in Seq(Tokens) /\ Len(out') = Len(out) + 1 /\ out'[Len(out) + 1] = t
      /\ \A i \in 1..Len(out) : out'[i] = out[i]
      /\ DOMAIN out' = 1..(Len(out) + 1) /\ DOMAIN out = 1..Len(out) /\ Len(out) \in Nat
  BY <1>0
<1>2. \A i \in DOMAIN out : /\ out[i].from <= out[i].to /\ out[i].to <= pos
                            /\ out[i].from \in Nat /\ out[i].to \in Nat
  <2> SUFFICES ASSUME NEW i \in DOMAIN out
               PROVE  /\ out[i].from <= out[i].to /\ out[i].to <= pos
                      /\ out[i].from \in Nat /\ out[i].to \in Nat
    OBVIOUS
  <2>1. out[i] \in Tokens
    BY <1>0
  <2> QED BY <1>0, <2>1 DEF InOrder, Tokens
<1>3. t.from \in Nat /\ t.to \in Nat
  BY <1>0 DEF Tokens
<1>4. InOrder(out)'
  <2>1. \A i \in DOMAIN out' : out'[i].from <= out'[i].to /\ out'[i].to <= pos'
    <3> SUFFICES ASSUME NEW i \in DOMAIN out' PROVE out'[i].from <= out'[i].to /\ out'[i].to <= pos'
      OBVIOUS
    <3>1. CASE i = Len(out) + 1
      BY <1>1, <3>1
    <3>2. CASE i # Len(out) + 1
      <4>1. i \in DOMAIN out /\ out'[i] = out[i]
        BY <1>1, <3>2
      <4> QED BY <1>0, <1>2, <4>1
    <3> QED BY <3>1, <3>2
  <2>2. \A i, j \in DOMAIN out' : i < j => out'[i].to <= out'[j].from
    <3> SUFFICES ASSUME NEW i \in DOMAIN out', NEW j \in DOMAIN out', i < j
                 PROVE  out'[i].to <= out'[j].from
      OBVIOUS
    <3>1. i \in DOMAIN out /\ out'[i] = out[i]
      BY <1>1
    <3>2. CASE j = Len(out) + 1
      BY <1>0, <1>1, <1>2, <1>3, <3>1, <3>2
    <3>3. CASE j # Len(out) + 1
      <4>1. j \in DOMAIN out /\ out'[j] = out[j]
        BY <1>1, <3>3
      <4> QED BY <1>0, <3>1, <4>1 DEF InOrder
    <3> QED BY <3>2, <3>3
  <2> QED BY <2>1, <2>2 DEF InOrder
<1>5. TokensInOrder' /\ QueueBehindSpace' /\ backlog' \in Seq(Tokens)
  BY <1>4 DEF TokensInOrder, QueueBehindSpace, InOrder
<1>6. NothingSkipped'
  <2> SUFFICES ASSUME NEW k \in 1..(pos' - 1), src[k] \notin Space
               PROVE  \E i \in DOMAIN out' : out'[i].from <= k /\ k < out'[i].to
    BY DEF NothingSkipped
  <2>1. CASE k < pos
    <3>1. k \in 1..(pos - 1)
      BY <1>0, <2>1
    <3>2. PICK i \in DOMAIN out : out[i].from <= k /\ k < out[i].to
      BY <3>1 DEF IInv, NothingSkipped
    <3> QED BY <1>1, <3>2
  <2>2. CASE ~(k < pos)
    <3>0. ASSUME NEW p \in Nat, NEW q \in Nat, NEW n \in 1..(q - 1), ~(n < p)
          PROVE  n \in p..(q - 1)
      BY <3>0
    <3>1. k \in pos..(pos' - 1)
      BY <1>0, <2>2, <3>0
    <3>2. t.from <= k /\ k < t.to
      BY <3>1
    <3>3. Len(out) + 1 \in DOMAIN out'
      BY <1>1
    <3> QED BY <1>1, <3>2, <3>3
  <2> QED BY <2>1, <2>2
<1> QED BY <1>0, <1>1, <1>4, <1>5, <1>6


\* A token [i, to) behind whitespace.
LEMMA EmitStep ==
  ASSUME IInv, backlog = <<>>, status \in {"lexing", "eof", "error", "thrown"},
         NEW kind \in Kinds, NEW i \in pos..End, NEW to \in i..End,
         NEW at \in Locations, NEW cols \in Int, Emit(kind, i, to, at, cols),
         \A k \in pos..(i - 1) : src[k] \in Space,
         indents' \in Seq(Slices),
         PlainText => kind \in Indentation \/ at = LocationOf(i),
         PlainText => LocationOf(to) = [at EXCEPT !.col = @ + cols]
  PROVE  IInv'
<1> DEFINE t == Token(kind, i, to, at)
<1>0. /\ pos' = to /\ loc' = [at EXCEPT !.col = @ + cols] /\ out' = Append(out, t)
      /\ onNewLine' = FALSE /\ src' = src /\ backlog' = backlog /\ status' = status
  BY DEF Emit
<1>1. /\ End' = End /\ Slices' = Slices /\ Tokens' = Tokens /\ PlainText' = PlainText
      /\ \A k : LocationOf(k)' = LocationOf(k)
  BY <1>0, SourceStays
<1>2. pos \in Nat /\ End \in Nat /\ pos \in 1..End /\ i \in 1..End /\ to \in 1..End /\ to \in pos..End
  BY DEF IInv, TypeOK, End
<1>3. t \in Tokens /\ t.from = i /\ t.to = to /\ t.kind = kind /\ t.loc = at
  BY <1>2 DEF Token, Tokens
<1>4. \A k \in pos..(to - 1) : src[k] \in Space \/ (t.from <= k /\ k < t.to)
  <2> SUFFICES ASSUME NEW k \in pos..(to - 1), ~(i <= k) PROVE src[k] \in Space
    BY <1>2, <1>3
  <2>1. k \in pos..(i - 1)
    BY <1>2
  <2> QED BY <2>1
<1>5. /\ out' \in Seq(Tokens) /\ backlog' \in Seq(Tokens) /\ pos' \in 1..End
      /\ TokensInOrder' /\ NothingSkipped' /\ QueueBehindSpace'
  <2>1. /\ pos <= t.from /\ t.from <= t.to /\ t.to <= pos' /\ pos' \in pos..End
        /\ \A k \in pos..(pos' - 1) : src[k] \in Space \/ (t.from <= k /\ k < t.to)
    BY <1>0, <1>2, <1>3, <1>4
  <2>2. src' = src /\ out' = Append(out, t) /\ backlog' = <<>> /\ t \in Tokens
    BY <1>0, <1>3
  <2> HIDE DEF t
  <2> QED BY <2>1, <2>2, AppendStep
<1>6. TypeOK'
  <2>1. loc' \in Locations
    <3>1. at.col + cols \in Int
      BY DEF Locations
    <3> QED BY <1>0, <3>1 DEF Locations
  <2>2. src' \in Seq(Chars) /\ indents' \in Seq(Slices') /\ onNewLine' \in BOOLEAN
    BY <1>0, <1>1 DEF IInv, TypeOK
  <2>3. /\ pos' \in 1..(End') /\ backlog' \in Seq(Tokens') /\ out' \in Seq(Tokens')
        /\ status' \in {"lexing", "eof", "error", "thrown"}
    BY <1>0, <1>1, <1>5
  <2> QED BY <2>1, <2>2, <2>3 DEF TypeOK
<1>7. KnowsLineStarts'
  BY <1>0 DEF KnowsLineStarts
<1>8. LocationsCounted'
  <2> SUFFICES ASSUME PlainText
               PROVE  /\ loc' = LocationOf(pos')
                      /\ \A j \in DOMAIN out' :
                           out'[j].kind \in Measured => out'[j].loc = LocationOf(out'[j].from)
    BY <1>0, <1>1, LocationsStep
  <2>1. loc' = LocationOf(pos')
    BY <1>0
  <2>2. ASSUME NEW j \in DOMAIN out', out'[j].kind \in Measured
        PROVE  out'[j].loc = LocationOf(out'[j].from)
    <3>0. out \in Seq(Tokens)
      BY DEF IInv, TypeOK
    <3>1. CASE j = Len(out) + 1
      <4>1. out'[j] = t
        BY <1>0, <3>0, <3>1
      <4>2. kind \notin Indentation
        BY <1>3, <2>2, <4>1 DEF Measured, Indentation
      <4> QED BY <1>3, <4>1, <4>2
    <3>2. CASE j # Len(out) + 1
      <4>1. j \in DOMAIN out /\ out'[j] = out[j]
        BY <1>0, <2>2, <3>0, <3>2
      <4> QED BY <2>2, <4>1 DEF IInv, LocationsCounted
    <3> QED BY <3>1, <3>2
  <2> QED BY <2>1, <2>2
<1> QED BY <1>5, <1>6, <1>7, <1>8 DEF IInv

\* An answer that leaves the text where it is.
LEMMA FailStep ==
  ASSUME IInv, NEW why \in {"error", "thrown"}, Fail(why), UNCHANGED indents
  PROVE  IInv'
<1>0. UNCHANGED <<src, pos, loc, onNewLine, indents, backlog, out>> /\ status' = why
  BY DEF Fail
<1>1. /\ End' = End /\ Slices' = Slices /\ Tokens' = Tokens /\ PlainText' = PlainText
      /\ \A k : LocationOf(k)' = LocationOf(k)
  BY <1>0, SourceStays
<1>2. TypeOK'
  BY <1>0, <1>1 DEF IInv, TypeOK
<1>3. TokensInOrder' /\ NothingSkipped' /\ QueueBehindSpace' /\ KnowsLineStarts'
  BY <1>0 DEF IInv, TokensInOrder, InOrder, NothingSkipped, QueueBehindSpace, KnowsLineStarts
<1>4. LocationsCounted'
  BY <1>0, LocationsStep DEF IInv, LocationsCounted
<1> QED BY <1>2, <1>3, <1>4 DEF IInv

\* A visible text, behind whitespace without newlines.
LEMMA VisibleStep ==
  ASSUME IInv, backlog = <<>>, NEW i \in pos..Len(src), NEW at \in Locations,
         Visible(i, at), UNCHANGED indents,
         \A k \in pos..(i - 1) : src[k] \in Space,
         PlainText => at = LocationOf(i)
  PROVE  IInv'
<1>0. /\ src \in Seq(Chars) /\ pos \in 1..End /\ End = Len(src) + 1 /\ Len(src) \in Nat
      /\ i \in 1..Len(src) /\ i \in pos..End /\ indents \in Seq(Slices) /\ i \in 1..End
      /\ status \in {"lexing", "eof", "error", "thrown"}
  BY DEF IInv, TypeOK, End
<1>1. CASE Fail("error")
  BY <1>1, FailStep
<1>2. ASSUME NEW kind \in Kinds \ Indentation, NEW to \in i..End, NEW cols \in Int,
             Emit(kind, i, to, at, cols), PlainText => Wide(i, to, cols)
      PROVE  IInv'
  <2>1. indents' \in Seq(Slices)
    BY <1>0
  <2>2. PlainText => LocationOf(to) = [at EXCEPT !.col = @ + cols]
    <3> SUFFICES ASSUME PlainText PROVE LocationOf(to) = [at EXCEPT !.col = @ + cols]
      OBVIOUS
    <3>1. cols = to - i /\ \A k \in i..(to - 1) : src[k] # "nl"
      BY <1>2 DEF Wide
    <3>2. LocationOf(to) = [LocationOf(i) EXCEPT !.col = @ + (to - i)]
      BY <1>0, <3>1, SameLine
    <3> QED BY <3>1, <3>2
  <2> QED BY <1>0, <1>2, <2>1, <2>2, EmitStep
<1>3. \/ Fail("error")
      \/ \E kind \in Kinds \ Indentation, to \in i..End, cols \in Int :
           Emit(kind, i, to, at, cols) /\ (PlainText => Wide(i, to, cols))
  BY <1>0, VisibleEmits
<1> QED BY <1>1, <1>2, <1>3


\* Whitespace of one line, from the remainder on.
LEMMA Blanks ==
  ASSUME IInv, At(Space \ {"nl"}), NEW to, to = SkipWhile(pos, Space \ {"nl"})
  PROVE  /\ to \in (pos + 1)..End /\ to \in pos..End
         /\ to < End => src[to] \notin Space \ {"nl"}
         /\ \A k \in pos..(to - 1) : src[k] \in Space /\ src[k] # "nl"
         /\ LocationOf(to) = [LocationOf(pos) EXCEPT !.col = @ + (to - pos)]
         /\ [loc EXCEPT !.col = @ + (to - pos)] \in Locations
         /\ PlainText => [loc EXCEPT !.col = @ + (to - pos)] = LocationOf(to)
<1>0. src \in Seq(Chars) /\ pos \in 1..End /\ End \in Nat /\ pos < End /\ loc \in Locations /\ pos \in Nat
  BY DEF IInv, TypeOK, End, At
<1>1. /\ to \in pos..End /\ to > pos
      /\ \A k \in pos..(to - 1) : src[k] \in Space \ {"nl"}
      /\ to < End => src[to] \notin Space \ {"nl"}
  BY <1>0, SkipWhileStops DEF At
<1>2. LocationOf(to) = [LocationOf(pos) EXCEPT !.col = @ + (to - pos)]
  BY <1>0, <1>1, SameLine
<1>3. [loc EXCEPT !.col = @ + (to - pos)] \in Locations
  BY <1>0, <1>1 DEF Locations
<1>4. PlainText => loc = LocationOf(pos)
  BY DEF IInv, LocationsCounted
<1>5. PlainText => [loc EXCEPT !.col = @ + (to - pos)] = LocationOf(to)
  BY <1>2, <1>4
<1>6. to \in (pos + 1)..End
  BY <1>0, <1>1
<1>7. \A k \in pos..(to - 1) : src[k] \in Space /\ src[k] # "nl"
  BY <1>1
<1> QED BY <1>1, <1>2, <1>3, <1>5, <1>6, <1>7

\* FirstIndent and Spaces.
LEMMA BlanksStep ==
  ASSUME IInv, FirstIndent \/ Spaces
  PROVE  IInv'
<1> DEFINE to == SkipWhile(pos, Space \ {"nl"})
<1>0. /\ backlog = <<>> /\ At(Space \ {"nl"}) /\ indents \in Seq(Slices) /\ pos \in 1..End /\ loc \in Locations
      /\ End \in Nat /\ status \in {"lexing", "eof", "error", "thrown"}
  BY DEF IInv, TypeOK, FirstIndent, Spaces, Ready, End
<1>1. /\ to \in (pos + 1)..End /\ to \in pos..End
      /\ PlainText => LocationOf(to) = [loc EXCEPT !.col = @ + (to - pos)]
      /\ PlainText => loc = LocationOf(pos)
  BY <1>0, Blanks DEF IInv, LocationsCounted
<1>2. PICK kind \in {"INDENT", "SPACE"} : Emit(kind, pos, to, loc, to - pos)
  BY DEF FirstIndent, Spaces
<1>3. indents' \in Seq(Slices)
  <2>1. CASE FirstIndent
    <3>1. [from |-> pos, to |-> to] \in Slices
      <4> HIDE DEF to
      <4> QED BY <1>0, <1>1 DEF Slices
    <3>2. indents' = <<[from |-> pos, to |-> to]>>
      BY <2>1 DEF FirstIndent
    <3> QED BY <3>1, <3>2
  <2>2. CASE Spaces
    BY <1>0, <2>2 DEF Spaces
  <2> QED BY <2>1, <2>2
<1>4. kind \in Kinds /\ pos \in pos..End /\ to - pos \in Int /\ \A k \in pos..(pos - 1) : src[k] \in Space
  <2> HIDE DEF to
  <2> QED BY <1>0, <1>1, <1>2 DEF Kinds, Indentation, Measured
<1> HIDE DEF to
<1> QED BY <1>0, <1>1, <1>2, <1>3, <1>4, EmitStep

LEMMA NewlineStep ==
  ASSUME IInv, Newline
  PROVE  IInv'
<1> DEFINE to == SkipWhile(pos, {"nl"})
           t == Token("NEWLINE", pos, pos, loc)
<1>0. /\ src \in Seq(Chars) /\ pos \in 1..End /\ End \in Nat /\ pos < End /\ loc \in Locations /\ pos \in Nat
      /\ backlog = <<>> /\ src[pos] = "nl" /\ indents \in Seq(Slices) /\ out \in Seq(Tokens)
      /\ status \in {"lexing", "eof", "error", "thrown"}
  BY DEF IInv, TypeOK, End, Newline, At, Ready
<1>1. /\ pos' = to /\ out' = Append(out, t) /\ loc' = [line |-> loc.line + (to - pos), col |-> 0]
      /\ onNewLine' = TRUE
      /\ src' = src /\ indents' = indents /\ backlog' = backlog /\ status' = status
  BY DEF Newline, NextLine
<1>2. /\ to \in pos..End /\ to > pos /\ to \in 1..End /\ to - 1 \in pos..(to - 1)
      /\ \A k \in pos..(to - 1) : src[k] = "nl"
  <2>1. to \in pos..End /\ to > pos /\ \A k \in pos..(to - 1) : src[k] = "nl"
    BY <1>0, SkipWhileStops
  <2> HIDE DEF to
  <2> QED BY <1>0, <2>1
<1> HIDE DEF to
<1>3. /\ End' = End /\ Slices' = Slices /\ Tokens' = Tokens /\ PlainText' = PlainText
      /\ \A k : LocationOf(k)' = LocationOf(k)
  BY <1>1, SourceStays
<1>4. t \in Tokens /\ t.from = pos /\ t.to = pos /\ t.kind = "NEWLINE"
  BY <1>0 DEF Token, Tokens, Kinds
<1> HIDE DEF t
<1>5. /\ out' \in Seq(Tokens) /\ backlog' \in Seq(Tokens) /\ pos' \in 1..End
      /\ TokensInOrder' /\ NothingSkipped' /\ QueueBehindSpace'
  <2>1. \A k \in pos..(pos' - 1) : src[k] \in Space
    BY <1>1, <1>2 DEF Space
  <2>2. pos <= t.from /\ t.from <= t.to /\ t.to <= pos' /\ pos' \in pos..End
    BY <1>0, <1>1, <1>2, <1>4
  <2>3. backlog = <<>> /\ backlog' = <<>> /\ src' = src /\ out' = Append(out, t) /\ t \in Tokens
    BY <1>0, <1>1, <1>4
  <2>4. \A k \in pos..(pos' - 1) : src[k] \in Space \/ (t.from <= k /\ k < t.to)
    BY <2>1
  <2> QED BY <2>2, <2>3, <2>4, AppendStep
<1>6. TypeOK'
  <2>1. loc' \in Locations
    BY <1>0, <1>1, <1>2 DEF Locations
  <2> QED BY <1>0, <1>1, <1>3, <1>5, <2>1 DEF TypeOK
<1>7. KnowsLineStarts'
  <2>1. src'[pos' - 1] = "nl"
    BY <1>1, <1>2
  <2> QED BY <2>1 DEF KnowsLineStarts
<1>8. LocationsCounted'
  <2> SUFFICES ASSUME PlainText
               PROVE  /\ loc' = LocationOf(pos')
                      /\ \A j \in DOMAIN out' :
                           out'[j].kind \in Measured => out'[j].loc = LocationOf(out'[j].from)
    BY <1>1, <1>3, LocationsStep
  <2>1. loc' = LocationOf(pos')
    <3>1. loc = LocationOf(pos)
      BY DEF IInv, LocationsCounted
    <3>2. LocationOf(to) = [line |-> LocationOf(pos).line + (to - pos), col |-> 0]
      BY <1>0, <1>2, LinesPassed
    <3> QED BY <1>1, <3>1, <3>2
  <2>2. ASSUME NEW j \in DOMAIN out', out'[j].kind \in Measured
        PROVE  out'[j].loc = LocationOf(out'[j].from)
    <3>1. j # Len(out) + 1
      BY <1>0, <1>1, <1>4, <2>2 DEF Measured
    <3>2. j \in DOMAIN out /\ out'[j] = out[j]
      BY <1>0, <1>1, <2>2, <3>1
    <3> QED BY <2>2, <3>2 DEF IInv, LocationsCounted
  <2> QED BY <2>1, <2>2
<1> QED BY <1>5, <1>6, <1>7, <1>8 DEF IInv


LEMMA FromBacklogStep ==
  ASSUME IInv, FromBacklog
  PROVE  IInv'
<1> DEFINE t == Head(backlog)
<1>0. /\ backlog # <<>> /\ out' = Append(out, t) /\ backlog' = Tail(backlog)
      /\ UNCHANGED <<src, pos, loc, onNewLine, indents, status>>
      /\ out \in Seq(Tokens) /\ backlog \in Seq(Tokens) /\ pos \in 1..End
  BY DEF IInv, TypeOK, FromBacklog
<1>1. /\ End' = End /\ Slices' = Slices /\ Tokens' = Tokens /\ PlainText' = PlainText
      /\ \A k : LocationOf(k)' = LocationOf(k)
  BY <1>0, SourceStays
<1>2. /\ out' \in Seq(Tokens) /\ backlog' \in Seq(Tokens) /\ t = backlog[1] /\ 1 \in DOMAIN backlog
      /\ DOMAIN out' = 1..(Len(out) + 1) /\ DOMAIN out = 1..Len(out) /\ Len(out) \in Nat
      /\ out'[Len(out) + 1] = t /\ \A i \in DOMAIN out : out'[i] = out[i]
      /\ \A j \in DOMAIN backlog' : j + 1 \in DOMAIN backlog /\ backlog'[j] = backlog[j + 1] /\ j \in 1..Len(backlog)
      /\ DOMAIN backlog = 1..Len(backlog) /\ Len(backlog) \in Nat
  BY <1>0
<1> HIDE DEF t
<1>3. TypeOK'
  BY <1>0, <1>1, <1>2 DEF IInv, TypeOK
<1>4. InOrder(out) /\ InOrder(backlog) /\ TokensInOrder
  BY DEF IInv, TokensInOrder
<1>5. InOrder(out)'
  <2>1. ASSUME NEW i \in DOMAIN out' PROVE out'[i].from <= out'[i].to /\ out'[i].to <= pos'
    <3>1. CASE i = Len(out) + 1
      BY <1>0, <1>2, <1>4, <3>1 DEF InOrder
    <3>2. CASE i # Len(out) + 1
      <4>1. i \in DOMAIN out
        BY <1>2, <2>1, <3>2
      <4> QED BY <1>0, <1>2, <1>4, <4>1 DEF InOrder
    <3> QED BY <3>1, <3>2
  <2>2. ASSUME NEW i \in DOMAIN out', NEW j \in DOMAIN out', i < j
        PROVE  out'[i].to <= out'[j].from
    <3>1. i \in DOMAIN out
      BY <1>2, <2>2
    <3>2. CASE j = Len(out) + 1
      BY <1>2, <1>4, <3>1, <3>2 DEF TokensInOrder
    <3>3. CASE j # Len(out) + 1
      <4>1. j \in DOMAIN out
        BY <1>2, <2>2, <3>3
      <4> QED BY <1>2, <1>4, <2>2, <3>1, <4>1 DEF InOrder
    <3> QED BY <3>2, <3>3
  <2> QED BY <2>1, <2>2 DEF InOrder
<1>6. InOrder(backlog)'
  <2>1. ASSUME NEW i \in DOMAIN backlog' PROVE backlog'[i].from <= backlog'[i].to /\ backlog'[i].to <= pos'
    BY <1>0, <1>2, <1>4, <2>1 DEF InOrder
  <2>2. ASSUME NEW i \in DOMAIN backlog', NEW j \in DOMAIN backlog', i < j
        PROVE  backlog'[i].to <= backlog'[j].from
    BY <1>2, <1>4, <2>2 DEF InOrder
  <2> QED BY <2>1, <2>2 DEF InOrder
<1>7. \A i \in DOMAIN out', j \in DOMAIN backlog' : out'[i].to <= backlog'[j].from
  <2> SUFFICES ASSUME NEW i \in DOMAIN out', NEW j \in DOMAIN backlog'
               PROVE  out'[i].to <= backlog'[j].from
    OBVIOUS
  <2>1. CASE i = Len(out) + 1
    <3>1. 1 < j + 1 /\ j + 1 \in DOMAIN backlog
      BY <1>2
    <3> QED BY <1>2, <1>4, <2>1, <3>1 DEF InOrder
  <2>2. CASE i # Len(out) + 1
    <3>1. i \in DOMAIN out
      BY <1>2, <2>2
    <3> QED BY <1>2, <1>4, <3>1 DEF TokensInOrder
  <2> QED BY <2>1, <2>2
<1>8. TokensInOrder'
  <2>1. \A j \in DOMAIN backlog' : backlog'[j].kind \in Indentation
    BY <1>2, <1>4 DEF TokensInOrder
  <2> QED BY <1>5, <1>6, <1>7, <2>1 DEF TokensInOrder
<1>9. NothingSkipped' /\ QueueBehindSpace' /\ KnowsLineStarts'
  <2>1. NothingSkipped'
    <3> SUFFICES ASSUME NEW k \in 1..(pos - 1), src[k] \notin Space
                 PROVE  \E i \in DOMAIN out' : out'[i].from <= k /\ k < out'[i].to
      BY <1>0 DEF NothingSkipped
    <3>1. PICK i \in DOMAIN out : out[i].from <= k /\ k < out[i].to
      BY DEF IInv, NothingSkipped
    <3>2. i \in DOMAIN out'
      BY <1>2
    <3> QED BY <1>2, <3>1, <3>2
  <2> QED BY <1>0, <2>1 DEF IInv, QueueBehindSpace, KnowsLineStarts
<1>10. LocationsCounted'
  <2> SUFFICES ASSUME PlainText
               PROVE  /\ loc' = LocationOf(pos')
                      /\ \A j \in DOMAIN out' :
                           out'[j].kind \in Measured => out'[j].loc = LocationOf(out'[j].from)
    BY <1>0, <1>1, LocationsStep
  <2>1. loc' = LocationOf(pos')
    BY <1>0 DEF IInv, LocationsCounted
  <2>2. ASSUME NEW j \in DOMAIN out', out'[j].kind \in Measured
        PROVE  out'[j].loc = LocationOf(out'[j].from)
    <3>1. j # Len(out) + 1
      BY <1>2, <1>4, <2>2 DEF TokensInOrder, Measured, Indentation
    <3>2. j \in DOMAIN out /\ out'[j] = out[j]
      BY <1>2, <2>2, <3>1
    <3> QED BY <2>2, <3>2 DEF IInv, LocationsCounted
  <2> QED BY <2>1, <2>2
<1> QED BY <1>3, <1>8, <1>9, <1>10 DEF IInv

\* The single token of ClearIndents.
LEMMA ClearIndentsStep ==
  ASSUME IInv, ClearIndents
  PROVE  IInv'
<1> DEFINE t == Token("DEINDENT", pos, pos, loc)
<1>0. /\ backlog = <<>> /\ out' = Append(out, t) /\ indents' = <<>>
      /\ UNCHANGED <<src, pos, loc, onNewLine, backlog, status>>
      /\ out \in Seq(Tokens) /\ pos \in 1..End /\ loc \in Locations /\ End \in Nat
  BY DEF IInv, TypeOK, ClearIndents, Ready, AllClosed, End
<1>1. /\ End' = End /\ Slices' = Slices /\ Tokens' = Tokens /\ PlainText' = PlainText
      /\ \A k : LocationOf(k)' = LocationOf(k)
  BY <1>0, SourceStays
<1>2. t \in Tokens /\ t.from = pos /\ t.to = pos /\ t.kind = "DEINDENT"
  BY <1>0 DEF Token, Tokens, Kinds, Indentation
<1> HIDE DEF t
<1>3. /\ out' \in Seq(Tokens) /\ backlog' \in Seq(Tokens) /\ pos' \in 1..End
      /\ TokensInOrder' /\ NothingSkipped' /\ QueueBehindSpace'
  <2>1. pos <= t.from /\ t.from <= t.to /\ t.to <= pos' /\ pos' \in pos..End
    BY <1>0, <1>2
  <2>2. \A k \in pos..(pos' - 1) : src[k] \in Space
    BY <1>0
  <2> QED BY <1>0, <1>2, <2>1, <2>2, AppendStep
<1>4. TypeOK'
  BY <1>0, <1>1, <1>3 DEF IInv, TypeOK
<1>5. KnowsLineStarts'
  BY <1>0 DEF IInv, KnowsLineStarts
<1>6. LocationsCounted'
  <2> SUFFICES ASSUME PlainText
               PROVE  /\ loc' = LocationOf(pos')
                      /\ \A j \in DOMAIN out' :
                           out'[j].kind \in Measured => out'[j].loc = LocationOf(out'[j].from)
    BY <1>0, <1>1, LocationsStep
  <2>1. loc' = LocationOf(pos')
    BY <1>0 DEF IInv, LocationsCounted
  <2>2. ASSUME NEW j \in DOMAIN out', out'[j].kind \in Measured
        PROVE  out'[j].loc = LocationOf(out'[j].from)
    <3>1. j # Len(out) + 1
      BY <1>0, <1>2, <2>2 DEF Measured
    <3>2. j \in DOMAIN out /\ out'[j] = out[j]
      BY <1>0, <2>2, <3>1
    <3> QED BY <2>2, <3>2 DEF IInv, LocationsCounted
  <2> QED BY <2>1, <2>2
<1> QED BY <1>3, <1>4, <1>5, <1>6 DEF IInv


\* The line goes on as the open levels do.
LEMMA SameIndentationStep ==
  ASSUME IInv, Ready, Checking, At(Space \ {"nl"}),
         NEW to, to = SkipWhile(pos, Space \ {"nl"}), SameIndentation(to), UNCHANGED indents
  PROVE  IInv'
<1> DEFINE at == [loc EXCEPT !.col = @ + (to - pos)]
<1>0. /\ src \in Seq(Chars) /\ pos \in 1..End /\ End = Len(src) + 1 /\ Len(src) \in Nat /\ backlog = <<>>
      /\ status \in {"lexing", "eof", "error", "thrown"} /\ indents \in Seq(Slices)
      /\ pos = 1 \/ src[pos - 1] = "nl"
  BY DEF IInv, TypeOK, End, Ready, Checking, KnowsLineStarts
<1>1. /\ to \in (pos + 1)..End /\ to \in pos..End
      /\ \A k \in pos..(to - 1) : src[k] \in Space /\ src[k] # "nl"
      /\ at \in Locations
      /\ PlainText => at = LocationOf(to)
  BY Blanks
<1>2. CASE to = End /\ Fail("thrown")
  BY <1>2, FailStep
<1>3. CASE to < End /\ src[to] = "nl"
  <2> DEFINE behind == SkipWhile(to + 1, Space \ {"nl"})
  <2>1. Emit("SPACE", to, behind, at, behind - to)
    BY <1>0, <1>3 DEF SameIndentation
  <2>2. behind \in (to + 1)..End
    <3>1. to + 1 \in 1..End
      BY <1>0, <1>1, <1>3
    <3> QED BY <1>0, <3>1, SkipWhileStops
  <2>3. behind \in to..End /\ behind - to \in Int
    <3> HIDE DEF behind
    <3> QED BY <1>0, <1>1, <2>2
  \* a line of whitespace only
  <2>4. ~PlainText
    <3>1. pos \in LineStarts /\ to > pos
      <4>1. CASE pos = 1
        BY <1>0, <1>1, <4>1 DEF LineStarts
      <4>2. CASE pos # 1
        <5>1. pos \in 2..Len(src)
          BY <1>0, <1>1, <1>3, <4>2
        <5> QED BY <1>0, <1>1, <4>2, <5>1 DEF LineStarts
      <4> QED BY <4>1, <4>2
    <3>2. ~NoBlankLine
      BY <1>3, <3>1 DEF NoBlankLine
    <3> QED BY <3>2 DEF PlainText
  <2>5. "SPACE" \in Kinds /\ to \in pos..End
    BY <1>1 DEF Kinds, Measured
  <2> HIDE DEF behind, at
  <2>6. \A k \in pos..(to - 1) : src[k] \in Space
    BY <1>1
  <2> QED BY <1>0, <1>1, <2>1, <2>3, <2>4, <2>5, <2>6, EmitStep
<1>4. CASE to < End /\ src[to] # "nl" /\ Visible(to, at)
  <2>1. to \in pos..Len(src) /\ \A k \in pos..(to - 1) : src[k] \in Space
    <3>1. to \in pos..End /\ to < End /\ \A k \in pos..(to - 1) : src[k] \in Space
      BY <1>1, <1>4
    <3>2. to \in pos..Len(src)
      BY <1>0, <3>1
    <3> QED BY <3>1, <3>2
  <2> HIDE DEF at
  <2> QED BY <1>0, <1>1, <1>4, <2>1, VisibleStep
<1> QED BY <1>2, <1>3, <1>4 DEF SameIndentation

LEMMA PlainTokenStep ==
  ASSUME IInv, PlainToken
  PROVE  IInv'
<1>1. /\ backlog = <<>> /\ pos < End /\ Visible(pos, loc) /\ UNCHANGED indents
      /\ loc \in Locations /\ pos \in 1..End /\ End = Len(src) + 1 /\ Len(src) \in Nat
      /\ PlainText => loc = LocationOf(pos)
  BY DEF PlainToken, Ready, IInv, TypeOK, LocationsCounted, End
<1>2. pos \in pos..Len(src) /\ \A k \in pos..(pos - 1) : src[k] \in Space
  BY <1>1
<1> QED BY <1>1, <1>2, VisibleStep


\* The levels that were closed and the one that was opened.
LEMMA ChangeTokens ==
  ASSUME IInv, NEW to \in (pos + 1)..End, NEW levels \in 0..Len(indents), NEW from \in pos..to,
         ~(levels = Len(indents) /\ from = to)
  PROVE  LET closed == Len(indents) - levels
             close  == Token("DEINDENT", pos, pos, loc)
             open   == IF from < to THEN <<Token("INDENT", from, to, loc)>> ELSE <<>>
             tokens == [k \in 1..(IF closed = 0 THEN 0 ELSE 1 + Queued(closed)) |-> close] \o open
         IN  /\ tokens \in Seq(Tokens) /\ tokens # <<>>
             /\ \A k \in DOMAIN tokens : /\ tokens[k].kind \in Indentation
                                         /\ pos <= tokens[k].from /\ tokens[k].from <= tokens[k].to
                                         /\ tokens[k].to <= to
             /\ \A j, k \in DOMAIN tokens : j < k => tokens[j].to <= tokens[k].from
             /\ SubSeq(indents, 1, levels) \o [k \in DOMAIN open |-> [from |-> from, to |-> to]] \in Seq(Slices)
<1> DEFINE closed == Len(indents) - levels
           close  == Token("DEINDENT", pos, pos, loc)
           n      == IF closed = 0 THEN 0 ELSE 1 + Queued(closed)
           closes == [k \in 1..n |-> close]
           open   == IF from < to THEN <<Token("INDENT", from, to, loc)>> ELSE <<>>
           tokens == closes \o open
<1>0. pos \in 1..End /\ End \in Nat /\ loc \in Locations /\ indents \in Seq(Slices) /\ pos \in Nat /\ to \in 1..End
      /\ from \in 1..End /\ pos < to /\ pos <= from /\ from <= to /\ Len(indents) \in Nat /\ from \in Nat /\ to \in Nat
  BY DEF IInv, TypeOK, End
<1>1. n \in Nat /\ (n = 0 => levels = Len(indents))
  BY <1>0 DEF Queued
<1> HIDE DEF n
<1>2. close \in Tokens /\ close.from = pos /\ close.to = pos /\ close.kind \in Indentation
  BY <1>0 DEF Token, Tokens, Kinds, Indentation
<1> HIDE DEF close
<1>3. closes \in Seq(Tokens) /\ Len(closes) = n /\ \A k \in 1..n : closes[k] = close
  BY <1>1, <1>2
<1> DEFINE t == Token("INDENT", from, to, loc)
<1>4. t \in Tokens /\ t.from = from /\ t.to = to /\ t.kind \in Indentation
  BY <1>0 DEF Token, Tokens, Kinds, Indentation
<1> HIDE DEF t
<1>5. /\ open \in Seq(Tokens) /\ Len(open) = (IF from < to THEN 1 ELSE 0)
      /\ \A k \in 1..Len(open) : open[k] = t /\ k = 1
  BY <1>0, <1>4 DEF t
<1> DEFINE m == Len(open)
<1> HIDE DEF closes, open
<1>6. /\ tokens \in Seq(Tokens) /\ Len(tokens) = n + m /\ DOMAIN tokens = 1..(n + m)
      /\ \A k \in 1..n : tokens[k] = close
      /\ \A k \in (n + 1)..(n + m) : tokens[k] = t /\ k = n + 1
  <2>1. tokens \in Seq(Tokens) /\ Len(tokens) = Len(closes) + Len(open)
    BY <1>3, <1>5, ConcatProperties
  <2>2. \A k \in 1..Len(tokens) : tokens[k] = IF k <= Len(closes) THEN closes[k] ELSE open[k - Len(closes)]
    BY <1>3, <1>5
  <2>3. m \in Nat /\ (m = 0 \/ m = 1)
    BY <1>5
  <2>4. \A k \in (n + 1)..(n + m) : k - n \in 1..m /\ k \in 1..(n + m) /\ k = n + 1 /\ ~(k <= n)
    BY <1>1, <2>3
  <2>5. \A k \in 1..n : k \in 1..(n + m) /\ k <= n
    BY <1>1, <2>3
  <2>6. DOMAIN tokens = 1..(n + m)
    BY <1>3, <2>1
  <2> HIDE DEF m, tokens
  <2> QED BY <1>3, <1>5, <2>1, <2>2, <2>4, <2>5, <2>6 DEF m
<1>7. tokens # <<>>
  <2>1. n + m # 0
    BY <1>1, <1>5, <1>0
  <2> HIDE DEF tokens
  <2> QED BY <1>6, <2>1
<1> HIDE DEF tokens
<1>8. \A k \in DOMAIN tokens : tokens[k] \in {close, t}
  <2>1. m \in Nat
    BY <1>5
  <2> HIDE DEF m
  <2>2. \A k \in DOMAIN tokens : k \in 1..n \/ k \in (n + 1)..(n + m)
    BY <1>1, <1>6, <2>1
  <2> QED BY <1>6, <2>2
<1>9. \A k \in DOMAIN tokens : /\ tokens[k].kind \in Indentation
                               /\ pos <= tokens[k].from /\ tokens[k].from <= tokens[k].to
                               /\ tokens[k].to <= to
  BY <1>0, <1>2, <1>4, <1>8
<1>10. ASSUME NEW j \in DOMAIN tokens, NEW k \in DOMAIN tokens, j < k
       PROVE  tokens[j].to <= tokens[k].from
  <2>1. m \in Nat
    BY <1>5
  <2> HIDE DEF m
  <2>2. j \in 1..n
    <3>1. j \in 1..n \/ j \in (n + 1)..(n + m)
      BY <1>1, <1>6, <2>1
    <3>2. k \in (n + 1)..(n + m) => k = n + 1
      BY <1>6
    <3> QED BY <1>1, <1>6, <1>10, <2>1, <3>1, <3>2
  <2>3. tokens[j].to = pos
    BY <1>2, <1>6, <2>2
  <2> QED BY <1>9, <2>3
<1>11. SubSeq(indents, 1, levels) \o [k \in DOMAIN open |-> [from |-> from, to |-> to]] \in Seq(Slices)
  <2>1. SubSeq(indents, 1, levels) \in Seq(Slices)
    BY <1>0, SubSeqProperties
  <2>2. [from |-> from, to |-> to] \in Slices
    BY <1>0 DEF Slices
  <2>3. [k \in DOMAIN open |-> [from |-> from, to |-> to]] \in Seq(Slices)
    BY <1>5, <2>2
  <2> QED BY <2>1, <2>3
<1> QED BY <1>6, <1>7, <1>9, <1>10, <1>11 DEF tokens, closes, open, n, close


LEMMA ChangeIndentationStep ==
  ASSUME IInv, Ready, At(Space \ {"nl"}),
         NEW to, to = SkipWhile(pos, Space \ {"nl"}),
         NEW levels \in 0..Len(indents), NEW from \in pos..to,
         ~(levels = Len(indents) /\ from = to), ChangeIndentation(to, levels, from)
  PROVE  IInv'
<1> DEFINE closed == Len(indents) - levels
           close  == Token("DEINDENT", pos, pos, loc)
           open   == IF from < to THEN <<Token("INDENT", from, to, loc)>> ELSE <<>>
           tokens == [k \in 1..(IF closed = 0 THEN 0 ELSE 1 + Queued(closed)) |-> close] \o open
           opened == [k \in DOMAIN open |-> [from |-> from, to |-> to]]
<1>0. /\ src \in Seq(Chars) /\ pos \in 1..End /\ End \in Nat /\ backlog = <<>> /\ pos \in Nat
      /\ status \in {"lexing", "eof", "error", "thrown"} /\ out \in Seq(Tokens)
  BY DEF IInv, TypeOK, End, Ready
<1>1. /\ indents' = SubSeq(indents, 1, levels) \o opened
      /\ pos' = to /\ loc' = [loc EXCEPT !.col = @ + (to - pos)] /\ onNewLine' = FALSE
      /\ out' = Append(out, Head(tokens)) /\ backlog' = backlog \o Tail(tokens)
      /\ src' = src /\ status' = status
  BY DEF ChangeIndentation, Kept
<1>2. /\ to \in (pos + 1)..End /\ to \in pos..End
      /\ \A k \in pos..(to - 1) : src[k] \in Space /\ src[k] # "nl"
      /\ loc' \in Locations
      /\ PlainText => loc' = LocationOf(to)
  BY <1>1, Blanks
<1>3. /\ tokens \in Seq(Tokens) /\ tokens # <<>>
      /\ \A k \in DOMAIN tokens : /\ tokens[k].kind \in Indentation
                                  /\ pos <= tokens[k].from /\ tokens[k].from <= tokens[k].to
                                  /\ tokens[k].to <= to
      /\ \A j, k \in DOMAIN tokens : j < k => tokens[j].to <= tokens[k].from
      /\ SubSeq(indents, 1, levels) \o opened \in Seq(Slices)
  BY <1>2, ChangeTokens
<1> HIDE DEF tokens, opened
<1> DEFINE t    == Head(tokens)
           rest == Tail(tokens)
<1>4. /\ t \in Tokens /\ t = tokens[1] /\ 1 \in DOMAIN tokens /\ rest \in Seq(Tokens)
      /\ \A j \in DOMAIN rest : j + 1 \in DOMAIN tokens /\ rest[j] = tokens[j + 1] /\ 1 < j + 1 /\ j \in Nat
  BY <1>3
<1>5. out' = Append(out, t) /\ backlog' = rest
  BY <1>0, <1>1, <1>4
<1> HIDE DEF t, rest
<1>6. /\ End' = End /\ Slices' = Slices /\ Tokens' = Tokens /\ PlainText' = PlainText
      /\ \A k : LocationOf(k)' = LocationOf(k)
  BY <1>1, SourceStays
<1>7. /\ out' \in Seq(Tokens) /\ DOMAIN out' = 1..(Len(out) + 1) /\ DOMAIN out = 1..Len(out) /\ Len(out) \in Nat
      /\ out'[Len(out) + 1] = t /\ \A i \in DOMAIN out : out'[i] = out[i]
      /\ \A i \in DOMAIN out : out[i] \in Tokens
  BY <1>0, <1>4, <1>5
<1>8. \A i \in DOMAIN out : /\ out[i].from <= out[i].to /\ out[i].to <= pos
                            /\ out[i].from \in Nat /\ out[i].to \in Nat
  <2> SUFFICES ASSUME NEW i \in DOMAIN out
               PROVE  /\ out[i].from <= out[i].to /\ out[i].to <= pos
                      /\ out[i].from \in Nat /\ out[i].to \in Nat
    OBVIOUS
  <2>1. out[i] \in Tokens
    BY <1>7
  <2>2. out[i].from <= out[i].to /\ out[i].to <= pos
    BY DEF IInv, TokensInOrder, InOrder
  <2> QED BY <1>0, <2>1, <2>2 DEF Tokens
<1>9. \A k \in DOMAIN tokens : tokens[k] \in Tokens /\ tokens[k].from \in Nat /\ tokens[k].to \in Nat
  <2> SUFFICES ASSUME NEW k \in DOMAIN tokens
               PROVE  tokens[k] \in Tokens /\ tokens[k].from \in Nat /\ tokens[k].to \in Nat
    OBVIOUS
  <2>1. tokens[k] \in Tokens
    BY <1>3
  <2> QED BY <1>0, <2>1 DEF Tokens
<1>10. InOrder(out)'
  <2>1. ASSUME NEW i \in DOMAIN out' PROVE out'[i].from <= out'[i].to /\ out'[i].to <= pos'
    <3>1. CASE i = Len(out) + 1
      BY <1>1, <1>3, <1>4, <1>7, <3>1
    <3>2. CASE i # Len(out) + 1
      <4>1. i \in DOMAIN out
        BY <1>7, <2>1, <3>2
      <4> QED BY <1>0, <1>1, <1>2, <1>7, <1>8, <4>1
    <3> QED BY <3>1, <3>2
  <2>2. ASSUME NEW i \in DOMAIN out', NEW j \in DOMAIN out', i < j
        PROVE  out'[i].to <= out'[j].from
    <3>1. i \in DOMAIN out
      BY <1>7, <2>2
    <3>2. CASE j = Len(out) + 1
      <4>1. out[i].to <= pos /\ pos <= t.from /\ t.from \in Nat /\ out[i].to \in Nat
        BY <1>3, <1>4, <1>8, <1>9, <3>1
      <4> QED BY <1>0, <1>7, <3>1, <3>2, <4>1
    <3>3. CASE j # Len(out) + 1
      <4>1. j \in DOMAIN out
        BY <1>7, <2>2, <3>3
      <4> QED BY <1>7, <2>2, <3>1, <4>1 DEF IInv, TokensInOrder, InOrder
    <3> QED BY <3>2, <3>3
  <2> QED BY <2>1, <2>2 DEF InOrder
<1>11. InOrder(backlog)'
  <2>1. ASSUME NEW i \in DOMAIN rest PROVE rest[i].from <= rest[i].to /\ rest[i].to <= to
    BY <1>3, <1>4, <2>1
  <2>2. ASSUME NEW i \in DOMAIN rest, NEW j \in DOMAIN rest, i < j
        PROVE  rest[i].to <= rest[j].from
    <3>1. i + 1 < j + 1
      BY <1>4, <2>2
    <3> QED BY <1>3, <1>4, <2>2, <3>1
  <2> QED BY <1>1, <1>5, <2>1, <2>2 DEF InOrder
<1>12. \A i \in DOMAIN out', j \in DOMAIN backlog' : out'[i].to <= backlog'[j].from
  <2> SUFFICES ASSUME NEW i \in DOMAIN out', NEW j \in DOMAIN rest
               PROVE  out'[i].to <= rest[j].from
    BY <1>5
  <2>1. CASE i = Len(out) + 1
    BY <1>3, <1>4, <1>7, <2>1
  <2>2. CASE i # Len(out) + 1
    <3>1. i \in DOMAIN out
      BY <1>7, <2>2
    <3>2. out[i].to <= pos /\ pos <= rest[j].from /\ rest[j].from \in Nat /\ out[i].to \in Nat
      BY <1>3, <1>4, <1>8, <1>9, <3>1
    <3> QED BY <1>0, <1>7, <3>1, <3>2
  <2> QED BY <2>1, <2>2
<1>13. TokensInOrder'
  <2>1. \A j \in DOMAIN backlog' : backlog'[j].kind \in Indentation
    BY <1>3, <1>4, <1>5
  <2> QED BY <1>10, <1>11, <1>12, <2>1 DEF TokensInOrder
<1>14. TypeOK'
  <2>0. src' \in Seq(Chars) /\ onNewLine' \in BOOLEAN /\ status' \in {"lexing", "eof", "error", "thrown"}
    BY <1>0, <1>1
  <2>1. pos' \in 1..End
    <3>1. to \in 1..End
      BY <1>0, <1>2
    <3> QED BY <1>1, <3>1
  <2>2. indents' \in Seq(Slices)
    BY <1>1, <1>3
  <2>3. backlog' \in Seq(Tokens) /\ out' \in Seq(Tokens) /\ loc' \in Locations
    BY <1>2, <1>4, <1>5, <1>7
  <2> QED BY <1>6, <2>0, <2>1, <2>2, <2>3 DEF TypeOK
<1>15. NothingSkipped'
  <2> SUFFICES ASSUME NEW k \in 1..(to - 1), src[k] \notin Space
               PROVE  \E i \in DOMAIN out' : out'[i].from <= k /\ k < out'[i].to
    BY <1>1 DEF NothingSkipped
  <2>1. k \in 1..(pos - 1)
    <3>1. k \notin pos..(to - 1)
      BY <1>2
    <3> QED BY <1>0, <1>2, <3>1
  <2>2. PICK i \in DOMAIN out : out[i].from <= k /\ k < out[i].to
    BY <2>1 DEF IInv, NothingSkipped
  <2>3. i \in DOMAIN out'
    BY <1>7
  <2> QED BY <1>7, <2>2, <2>3
<1>16. QueueBehindSpace' /\ KnowsLineStarts'
  <2>1. to - 1 \in pos..(to - 1) /\ to > 1
    BY <1>0, <1>2
  <2> QED BY <1>1, <1>2, <2>1 DEF QueueBehindSpace, KnowsLineStarts
<1>17. LocationsCounted'
  <2> SUFFICES ASSUME PlainText
               PROVE  /\ loc' = LocationOf(pos')
                      /\ \A j \in DOMAIN out' :
                           out'[j].kind \in Measured => out'[j].loc = LocationOf(out'[j].from)
    <3>1. src' = src
      BY <1>1
    <3> QED BY <3>1, LocationsStep
  <2>1. loc' = LocationOf(pos')
    BY <1>1, <1>2
  <2>2. ASSUME NEW j \in DOMAIN out', out'[j].kind \in Measured
        PROVE  out'[j].loc = LocationOf(out'[j].from)
    <3>1. j # Len(out) + 1
      BY <1>3, <1>4, <1>7, <2>2 DEF Measured, Indentation
    <3>2. j \in DOMAIN out /\ out'[j] = out[j]
      BY <1>7, <2>2, <3>1
    <3> QED BY <2>2, <3>2 DEF IInv, LocationsCounted
  <2> QED BY <2>1, <2>2
<1> QED BY <1>13, <1>14, <1>15, <1>16, <1>17 DEF IInv

LEMMA CheckIndentationStep ==
  ASSUME IInv, CheckIndentation
  PROVE  IInv'
<1> DEFINE to    == SkipWhile(pos, Space \ {"nl"})
           match == Match(to)
           from  == NewLevel(match)
<1>0. /\ src \in Seq(Chars) /\ indents \in Seq(Slices) /\ End \in Nat /\ pos \in 1..End /\ Len(indents) \in Nat
      /\ Ready /\ Checking /\ At(Space \ {"nl"})
  BY DEF IInv, TypeOK, CheckIndentation, End
<1>1. to \in (pos + 1)..End
  BY <1>0, Blanks
<1>2. IF match.levels = Len(indents) /\ from = to
      THEN SameIndentation(to) /\ UNCHANGED indents
      ELSE ChangeIndentation(to, match.levels, from)
  BY DEF CheckIndentation
<1>3. match.levels \in 0..Len(indents) /\ from \in pos..to
  <2>1. to \in 1..End /\ pos \in 1..to
    <3> HIDE DEF to
    <3> QED BY <1>0, <1>1
  <2>2. match \in [levels : 0..Len(indents), rest : pos..to]
    BY <1>0, <2>1, MatchSolved
  <2> HIDE DEF match, to
  <2> QED BY <2>1, <2>2 DEF NewLevel
<1>4. CASE match.levels = Len(indents) /\ from = to
  BY <1>0, <1>2, <1>4, SameIndentationStep
<1>5. CASE ~(match.levels = Len(indents) /\ from = to)
  <2>1. ChangeIndentation(to, match.levels, from)
    BY <1>2, <1>5
  <2> DEFINE levels == match.levels
  <2>2. levels \in 0..Len(indents) /\ ~(levels = Len(indents) /\ from = to)
    BY <1>3, <1>5
  <2> HIDE DEF from, levels
  <2>3. ChangeIndentation(to, levels, from)
    BY <2>1 DEF levels
  <2> QED BY <1>0, <1>3, <2>2, <2>3, ChangeIndentationStep
<1> QED BY <1>4, <1>5


-----------------------------------------------------------------------------
(* The theorems.                                                           *)

LEMMA Initially == Init => IInv
<1> SUFFICES ASSUME Init PROVE IInv
  OBVIOUS
<1>1. src \in Seq(Chars)
  <2>1. PICK f \in Families : \E n \in 0..f.longest : src \in [1..n -> f.chars]
    BY DEF Init
  <2>2. PICK n \in 0..f.longest : src \in [1..n -> f.chars]
    BY <2>1
  <2>3. f.chars \subseteq Chars /\ f.longest \in Nat
    BY FamiliesAssumption
  <2>4. n \in Nat /\ src \in [1..n -> Chars]
    BY <2>2, <2>3
  <2> QED BY <2>4
<1>2. /\ pos = 1 /\ loc = [line |-> 0, col |-> 0] /\ onNewLine = TRUE /\ indents = <<>> /\ backlog = <<>>
      /\ status = "lexing" /\ out = <<>>
  BY DEF Init
<1>3. 1 \in 1..End
  BY <1>1 DEF End
<1>4. TypeOK
  BY <1>1, <1>2, <1>3 DEF TypeOK, Locations
<1>5. TokensInOrder /\ NothingSkipped /\ QueueBehindSpace /\ KnowsLineStarts
  BY <1>2 DEF TokensInOrder, InOrder, NothingSkipped, QueueBehindSpace, KnowsLineStarts
<1>6. LocationsCounted
  BY <1>2, FirstLocation DEF LocationsCounted
<1> QED BY <1>4, <1>5, <1>6 DEF IInv

LEMMA Steps == IInv /\ [Next]_vars => IInv'
<1> SUFFICES ASSUME IInv, [Next]_vars PROVE IInv'
  OBVIOUS
<1>1. CASE FromBacklog
  BY <1>1, FromBacklogStep
<1>2. CASE AtEnd
  <2>1. UNCHANGED <<src, pos, loc, onNewLine, indents, backlog, out>> /\ status' = "eof"
    BY <1>2 DEF AtEnd
  <2>2. /\ End' = End /\ Slices' = Slices /\ Tokens' = Tokens /\ PlainText' = PlainText
        /\ \A k : LocationOf(k)' = LocationOf(k)
    BY <2>1, SourceStays
  <2>3. TypeOK'
    BY <2>1, <2>2 DEF IInv, TypeOK
  <2>4. TokensInOrder' /\ NothingSkipped' /\ QueueBehindSpace' /\ KnowsLineStarts'
    BY <2>1 DEF IInv, TokensInOrder, InOrder, NothingSkipped, QueueBehindSpace, KnowsLineStarts
  <2>5. LocationsCounted'
    BY <2>1, LocationsStep DEF IInv, LocationsCounted
  <2> QED BY <2>3, <2>4, <2>5 DEF IInv
<1>3. CASE Newline
  BY <1>3, NewlineStep
<1>4. CASE ClearIndents
  BY <1>4, ClearIndentsStep
<1>5. CASE CheckIndentation
  BY <1>5, CheckIndentationStep
<1>6. CASE FirstIndent \/ Spaces
  BY <1>6, BlanksStep
<1>7. CASE PlainToken
  BY <1>7, PlainTokenStep
<1>8. CASE UNCHANGED vars
  <2>1. UNCHANGED <<src, pos, loc, onNewLine, indents, backlog, status, out>>
    BY <1>8 DEF vars
  <2>2. /\ End' = End /\ Slices' = Slices /\ Tokens' = Tokens /\ PlainText' = PlainText
        /\ \A k : LocationOf(k)' = LocationOf(k)
    BY <2>1, SourceStays
  <2>3. TypeOK'
    BY <2>1, <2>2 DEF IInv, TypeOK
  <2>4. TokensInOrder' /\ NothingSkipped' /\ QueueBehindSpace' /\ KnowsLineStarts'
    BY <2>1 DEF IInv, TokensInOrder, InOrder, NothingSkipped, QueueBehindSpace, KnowsLineStarts
  <2>5. LocationsCounted'
    BY <2>1, LocationsStep DEF IInv, LocationsCounted
  <2> QED BY <2>3, <2>4, <2>5 DEF IInv
<1> QED BY <1>1, <1>2, <1>3, <1>4, <1>5, <1>6, <1>7, <1>8 DEF Next

\* Whatever the text, the lexer's state is well formed: the tokens answered and
\* those queued come in the order of the text, none reaches past the remainder,
\* and nothing but whitespace lies between them.
THEOREM LexerInvariant == Spec => []IInv
BY Initially, Steps, PTL DEF Spec

\* Every character that is not whitespace is in exactly one of lemniLex's
\* tokens, and the tokens come in the order of the text, for every text.
THEOREM CharactersOnce == Spec => []EveryCharOnce
<1>1. ASSUME IInv PROVE EveryCharOnce
  <2>0. /\ out \in Seq(Tokens) /\ InOrder(out) /\ pos \in 1..End /\ End \in Nat
    BY <1>1 DEF IInv, TypeOK, TokensInOrder, End
  <2>1. \A i, j \in DOMAIN out : i < j => out[i].to <= out[j].from
    BY <2>0 DEF InOrder
  <2>2. ASSUME NEW k \in 1..(pos - 1), src[k] \notin Space
        PROVE  Cardinality({i \in DOMAIN out : out[i].from <= k /\ k < out[i].to}) = 1
    <3> DEFINE S == {i \in DOMAIN out : out[i].from <= k /\ k < out[i].to}
    <3>1. PICK i \in DOMAIN out : out[i].from <= k /\ k < out[i].to
      BY <1>1, <2>2 DEF IInv, NothingSkipped
    <3>2. ASSUME NEW j \in S PROVE j = i
      <4>1. out[i] \in Tokens /\ out[j] \in Tokens /\ i \in Nat /\ j \in Nat
        BY <2>0
      <4>2. /\ out[i].from \in Nat /\ out[i].to \in Nat /\ out[j].from \in Nat /\ out[j].to \in Nat
            /\ k \in Nat
        BY <2>0, <4>1 DEF Tokens
      <4>3. ~(i < j) /\ ~(j < i)
        BY <2>1, <3>1, <4>2
      <4> QED BY <4>1, <4>3
    <3>3. S = {i}
      BY <3>1, <3>2
    <3> QED BY <3>3, FS_Singleton
  <2> QED BY <2>1, <2>2 DEF EveryCharOnce
<1> QED BY <1>1, LexerInvariant, PTL

\* lemniLoadModule, which stops when nothing remains, loses no queued token of
\* a text that ends in a newline.
THEOREM LoaderComplete == Spec => []LoaderLosesNothing
<1>1. ASSUME IInv PROVE LoaderLosesNothing
  <2> SUFFICES ASSUME pos = End, src # <<>>, Last(src) = "nl", backlog # <<>> PROVE FALSE
    BY DEF LoaderLosesNothing
  <2>1. src \in Seq(Chars) /\ src[pos - 1] # "nl"
    BY <1>1 DEF IInv, TypeOK, QueueBehindSpace
  <2>2. pos - 1 = Len(src)
    BY <2>1 DEF End
  <2> QED BY <2>1, <2>2 DEF Last
<1> QED BY <1>1, LexerInvariant, PTL

\* In every text whose tokens are all as wide as they are recorded, lemniLex
\* gives words, operators, comments and spaces the line and column they have.
THEOREM LocationsRight == Spec => []LocationsTrue
<1>1. ASSUME IInv PROVE LocationsTrue
  BY <1>1 DEF IInv, LocationsCounted, LocationsTrue, PlainText, LocationOf, Newlines, Measured
<1> QED BY <1>1, LexerInvariant, PTL

-----------------------------------------------------------------------------
(* Lines and their leading whitespace.                                     *)

Blank == Space \ {"nl"}

\* A prefix agrees with the sequence as far as it goes.
LEMMA PrefixPointwise ==
  ASSUME NEW S, NEW s \in Seq(S), NEW t \in Seq(S)
  PROVE  IsPrefix(s, t) <=> Len(s) <= Len(t) /\ \A k \in 1..Len(s) : s[k] = t[k]
<1>0. Len(s) \in Nat /\ Len(t) \in Nat
  BY LenProperties
<1>1. SubSeq(s, 1, Len(s)) = s
  BY SubSeqFull
<1>2. CASE Len(s) <= Len(t)
  <2> DEFINE u == SubSeq(t, 1, Len(s))
  <2>1. \A k \in 1..Len(s) : t[k] \in S
    BY <1>0, <1>2, ElementOfSeq
  <2>2. u \in Seq(S) /\ Len(u) = Len(s) /\ \A k \in 1..Len(s) : u[k] = t[k]
    <3>1. /\ u \in Seq(S)
          /\ Len(u) = IF 1 <= Len(s) THEN Len(s) - 1 + 1 ELSE 0
          /\ \A k \in 1..(Len(s) - 1 + 1) : u[k] = t[1 + k - 1]
      BY <1>0, <2>1, SubSeqProperties
    <3> HIDE DEF u
    <3>2. Len(u) = Len(s)
      BY <1>0, <3>1
    <3>3. ASSUME NEW k \in 1..Len(s) PROVE u[k] = t[k]
      <4>1. k \in 1..(Len(s) - 1 + 1) /\ 1 + k - 1 = k
        BY <1>0
      <4> QED BY <3>1, <4>1
    <3> QED BY <3>1, <3>2, <3>3
  <2> HIDE DEF u
  <2>3. s = u <=> \A k \in 1..Len(s) : s[k] = t[k]
    BY <2>2, SeqEqual
  <2> QED BY <1>1, <1>2, <2>3 DEF IsPrefix, u
<1>3. CASE ~(Len(s) <= Len(t))
  BY <1>3 DEF IsPrefix
<1> QED BY <1>2, <1>3

\* Where the line of a position starts.
LEMMA LineStartFacts ==
  ASSUME src \in Seq(Chars), NEW k \in 1..End
  PROVE  /\ LineStart(k) \in 1..k /\ LineStart(k) \in 1..End
         /\ \A j \in LineStart(k)..(k - 1) : src[j] # "nl"
         /\ k = 1 \/ src[k - 1] = "nl" => LineStart(k) = k
<1> DEFINE S == {0} \cup {j \in 1..(k - 1) : src[j] = "nl"}
<1>0. End \in Nat /\ k \in Nat /\ k >= 1 /\ k <= End /\ k - 1 \in Nat
  BY DEF End
<1>1. S \in SUBSET Nat /\ S # {} /\ \A m \in S : m <= k - 1
  BY <1>0
<1>2. Max(S) \in S /\ \A m \in S : m <= Max(S)
  <2> HIDE DEF S
  <2> QED BY <1>0, <1>1, MaxNat
<1> DEFINE x == Max(S)
<1>3. LineStart(k) = x + 1
  BY DEF LineStart
<1>4. x \in Nat /\ x <= k - 1
  <2> HIDE DEF S
  <2> QED BY <1>1, <1>2
<1>5. \A j \in (x + 1)..(k - 1) : src[j] # "nl"
  <2> SUFFICES ASSUME NEW j \in (x + 1)..(k - 1), src[j] = "nl" PROVE FALSE
    OBVIOUS
  <2> HIDE DEF x
  <2>1. j \in 1..(k - 1) /\ ~(j <= x)
    BY <1>0, <1>4
  <2>2. j \in S
    BY <2>1
  <2> QED BY <1>2, <2>1, <2>2 DEF x
<1>6. k = 1 \/ src[k - 1] = "nl" => x = k - 1
  <2> HIDE DEF x
  <2>1. CASE k = 1
    BY <1>4, <2>1
  <2>2. CASE k # 1 /\ src[k - 1] = "nl"
    <3>1. k - 1 \in S
      BY <1>0, <2>2
    <3>2. k - 1 <= x
      BY <1>2, <3>1 DEF x
    <3> QED BY <1>0, <1>4, <3>2
  <2> QED BY <2>1, <2>2
<1> HIDE DEF x
<1> QED BY <1>0, <1>3, <1>4, <1>5, <1>6

\* Positions with no newline between them have the same line.
LEMMA LineKept ==
  ASSUME src \in Seq(Chars), NEW a \in 1..End, NEW b \in a..End,
         \A k \in a..(b - 1) : src[k] # "nl"
  PROVE  LineStart(b) = LineStart(a) /\ Leading(b) = Leading(a)
<1>0. a \in Nat /\ b \in Nat /\ a <= b
  BY DEF End
<1>1. {j \in 1..(b - 1) : src[j] = "nl"} = {j \in 1..(a - 1) : src[j] = "nl"}
  BY <1>0
<1>2. LineStart(b) = LineStart(a)
  BY <1>1 DEF LineStart
<1> QED BY <1>2 DEF Leading

\* The leading whitespace of a position's line.
LEMMA LeadingIsSeq ==
  ASSUME src \in Seq(Chars), NEW k \in 1..End
  PROVE  Leading(k) \in Seq(Chars) /\ Len(Leading(k)) \in Nat
<1> DEFINE from == LineStart(k)
           to == SkipWhile(from, Blank)
           s == [from |-> from, to |-> to]
<1>1. from \in 1..End
  BY LineStartFacts
<1>2. to \in from..End
  <2> HIDE DEF from
  <2> QED BY <1>1, SkipWhileStops
<1>3. s \in Slices
  <2> HIDE DEF from, to
  <2> QED BY <1>1, <1>2 DEF Slices, End
<1>4. Leading(k) = Text(s)
  BY DEF Leading, Text, Blank
<1> HIDE DEF s
<1> QED BY <1>3, <1>4, TextIsSeq, LenProperties

\* Of a position where a line starts.
LEMMA LeadingOfLine ==
  ASSUME src \in Seq(Chars), NEW k \in 1..End, k = 1 \/ src[k - 1] = "nl",
         NEW to, to = SkipWhile(k, Blank)
  PROVE  /\ to \in k..End
         /\ Leading(k) = SubSeq(src, k, to - 1)
         /\ Leading(k) \in Seq(Chars) /\ Len(Leading(k)) = to - k
         /\ \A j \in 1..(to - k) : Leading(k)[j] = src[k + j - 1]
         /\ to = k => Leading(k) = <<>>
<1>1. LineStart(k) = k
  BY LineStartFacts
<1>2. to \in k..End
  BY SkipWhileStops
<1> DEFINE s == [from |-> k, to |-> to]
<1>3. s \in Slices /\ s.from = k /\ s.to = to
  BY <1>2 DEF Slices, End
<1>4. Leading(k) = Text(s) /\ Leading(k) = SubSeq(src, k, to - 1)
  BY <1>1, <1>3 DEF Leading, Text, Blank
<1> HIDE DEF s
<1>5. Leading(k) \in Seq(Chars) /\ Len(Leading(k)) = to - k
      /\ \A j \in 1..(to - k) : Leading(k)[j] = src[k + j - 1]
  BY <1>3, <1>4, TextIsSeq
<1>6. to = k => Len(Leading(k)) = 0
  BY <1>2, <1>5 DEF End
<1> QED BY <1>2, <1>4, <1>5, <1>6, EmptySeq

-----------------------------------------------------------------------------
(* The open levels from line to line.                                      *)

\* A line that is not empty starts in the text.
LEMMA LinesInText ==
  ASSUME src \in Seq(Chars), NEW k \in Lines
  PROVE  k \in 1..End /\ k \in Nat /\ k < End /\ src[k] # "nl" /\ (k = 1 \/ src[k - 1] = "nl")
<1>1. k \in LineStarts /\ k < End /\ src[k] # "nl"
  BY DEF Lines
<1>2. CASE k = 1
  BY <1>1, <1>2 DEF End
<1>3. CASE k # 1
  <2>1. k \in 2..Len(src) /\ src[k - 1] = "nl"
    BY <1>1, <1>3 DEF LineStarts
  <2> QED BY <1>1, <2>1 DEF End
<1> QED BY <1>2, <1>3

\* They stay open where no line starts.
LEMMA OpenStays ==
  ASSUME src \in Seq(Chars), NEW a \in 1..End, NEW b \in a..End,
         \A m \in Lines : ~(a <= m /\ m < b)
  PROVE  OpenLevels(b) = OpenLevels(a)
<1>0. a \in Nat /\ b \in Nat /\ a <= b
  BY DEF End
<1>1. \A m \in Lines : m < b <=> m < a
  BY <1>0, LinesInText
<1> DEFINE Behind(p) == {k \in Lines : k < p /\ \A m \in Lines : k <= m /\ m < p => IsPrefix(Leading(k), Leading(m))}
<1>2. Behind(b) = Behind(a)
  BY <1>1
<1>3. \A p : OpenLevels(p) = {Leading(k) : k \in Behind(p)} \ {<<>>}
  BY DEF OpenLevels
<1> HIDE DEF Behind
<1> QED BY <1>2, <1>3

\* A sequence is its own prefix.
LEMMA PrefixOfItself ==
  ASSUME NEW S, NEW s \in Seq(S)
  PROVE  IsPrefix(s, s)
BY PrefixPointwise, LenProperties

\* A line closes those it does not start with, and opens its own.
LEMMA OpenStep ==
  ASSUME src \in Seq(Chars), NEW k \in Lines, NEW p \in (k + 1)..End,
         \A m \in Lines : ~(k < m /\ m < p)
  PROVE  OpenLevels(p) = ({l \in OpenLevels(k) : IsPrefix(l, Leading(k))} \cup {Leading(k)}) \ {<<>>}
<1> DEFINE Since(j, q) == \A m \in Lines : j <= m /\ m < q => IsPrefix(Leading(j), Leading(m))
           Behind(q) == {j \in Lines : j < q /\ Since(j, q)}
<1>0. k \in Nat /\ k \in 1..End /\ p \in Nat /\ k < p
  BY LinesInText DEF End
<1>1. \A m \in Lines : m < p <=> m < k \/ m = k
  BY <1>0, LinesInText
<1>2. \A q : OpenLevels(q) = {Leading(j) : j \in Behind(q)} \ {<<>>}
  BY DEF OpenLevels
<1>3. Since(k, p)
  <2>1. IsPrefix(Leading(k), Leading(k))
    BY <1>0, LeadingIsSeq, PrefixOfItself
  <2> QED BY <1>0, <1>1, <2>1, LinesInText
<1>4. \A j \in Lines : j < k => (Since(j, p) <=> Since(j, k) /\ IsPrefix(Leading(j), Leading(k)))
  BY <1>0, <1>1, LinesInText
<1>5. Behind(p) = {j \in Behind(k) : IsPrefix(Leading(j), Leading(k))} \cup {k}
  <2> HIDE DEF Since
  <2> QED BY <1>1, <1>3, <1>4
<1>6. {Leading(j) : j \in Behind(p)} = {l \in {Leading(j) : j \in Behind(k)} : IsPrefix(l, Leading(k))} \cup {Leading(k)}
  <2> HIDE DEF Behind
  <2> QED BY <1>5
<1> HIDE DEF Behind
<1> QED BY <1>2, <1>6

-----------------------------------------------------------------------------
(* The open levels as the lexer holds them: F[i] is what the first i spell. *)

Spells(F) ==
  /\ F \in [0..Len(indents) -> Seq(Chars)]
  /\ F[0] = <<>>
  /\ \A i \in 1..Len(indents) : F[i] = F[i - 1] \o Text(indents[i])

NoneEmpty == \A i \in 1..Len(indents) : indents[i].from < indents[i].to

\* A prefix of a prefix.
LEMMA PrefixTrans ==
  ASSUME NEW S, NEW s \in Seq(S), NEW t \in Seq(S), NEW u \in Seq(S),
         IsPrefix(s, t), IsPrefix(t, u)
  PROVE  IsPrefix(s, u)
<1>1. Len(s) \in Nat /\ Len(t) \in Nat /\ Len(u) \in Nat
  BY LenProperties
<1>2. Len(s) <= Len(t) /\ \A k \in 1..Len(s) : s[k] = t[k]
  BY PrefixPointwise
<1>3. Len(t) <= Len(u) /\ \A k \in 1..Len(t) : t[k] = u[k]
  BY PrefixPointwise
<1>4. Len(s) <= Len(u) /\ \A k \in 1..Len(s) : s[k] = u[k]
  BY <1>1, <1>2, <1>3
<1> QED BY <1>4, PrefixPointwise

\* One level more is longer and starts with those before.
LEMMA SpellsOne ==
  ASSUME src \in Seq(Chars), indents \in Seq(Slices), NoneEmpty, NEW F, Spells(F),
         NEW i \in 1..Len(indents)
  PROVE  /\ F[i] \in Seq(Chars) /\ F[i - 1] \in Seq(Chars) /\ Text(indents[i]) \in Seq(Chars)
         /\ F[i] = F[i - 1] \o Text(indents[i]) /\ Len(F[i - 1]) \in Nat
         /\ Len(F[i]) = Len(F[i - 1]) + Len(Text(indents[i]))
         /\ Len(Text(indents[i])) \in Nat /\ Len(Text(indents[i])) > 0
         /\ Len(F[i - 1]) < Len(F[i])
         /\ IsPrefix(F[i - 1], F[i])
<1>0. i \in 0..Len(indents) /\ i - 1 \in 0..Len(indents)
  BY LenProperties
<1>1. F[i] \in Seq(Chars) /\ F[i - 1] \in Seq(Chars) /\ F[i] = F[i - 1] \o Text(indents[i])
  BY <1>0 DEF Spells
<1>2. indents[i] \in Slices /\ indents[i].from < indents[i].to
  BY ElementOfSeq DEF NoneEmpty
<1>3. Text(indents[i]) \in Seq(Chars) /\ Len(Text(indents[i])) = indents[i].to - indents[i].from
  BY <1>2, TextIsSeq
<1>4. Len(Text(indents[i])) > 0
  BY <1>2, <1>3 DEF Slices, End
<1> DEFINE u == F[i - 1]
           t == Text(indents[i])
           w == F[i]
<1>5. /\ u \in Seq(Chars) /\ t \in Seq(Chars) /\ w = u \o t /\ Len(t) > 0 /\ w \in Seq(Chars)
  BY <1>1, <1>3, <1>4
<1> SUFFICES /\ w \in Seq(Chars) /\ Len(w) = Len(u) + Len(t) /\ Len(t) \in Nat /\ Len(u) \in Nat
             /\ Len(u) < Len(w) /\ IsPrefix(u, w)
  BY <1>5
<1> HIDE DEF u, t, w
<1>6. Len(u) \in Nat /\ Len(t) \in Nat
  BY <1>5, LenProperties
<1>7. /\ Len(w) = Len(u) + Len(t)
      /\ \A k \in 1..(Len(u) + Len(t)) : w[k] = IF k <= Len(u) THEN u[k] ELSE t[k - Len(u)]
  BY <1>5, ConcatProperties
<1>8. ASSUME NEW k \in 1..Len(u) PROVE u[k] = w[k]
  <2>1. k \in 1..(Len(u) + Len(t)) /\ k <= Len(u)
    BY <1>6
  <2> QED BY <1>7, <2>1
<1>9. Len(u) < Len(w) /\ Len(u) <= Len(w)
  BY <1>5, <1>6, <1>7
<1>10. IsPrefix(u, w)
  BY <1>5, <1>8, <1>9, PrefixPointwise
<1> QED BY <1>5, <1>6, <1>7, <1>9, <1>10

\* The more levels, the longer, and each starts with those before.
LEMMA SpellsChain ==
  ASSUME src \in Seq(Chars), indents \in Seq(Slices), NoneEmpty, NEW F, Spells(F)
  PROVE  \A j \in 0..Len(indents) : \A i \in 0..j :
           IsPrefix(F[i], F[j]) /\ (i < j => Len(F[i]) < Len(F[j]))
<1> DEFINE L == Len(indents)
           Good(i, j) == IsPrefix(F[i], F[j]) /\ (i < j => Len(F[i]) < Len(F[j]))
           Wrong == {j \in 0..L : \E i \in 0..j : ~Good(i, j)}
<1>0. L \in Nat
  BY LenProperties
<1>1. \A j \in 0..L : F[j] \in Seq(Chars) /\ Len(F[j]) \in Nat
  BY LenProperties DEF Spells
<1>2. ASSUME NEW j \in 1..L
      PROVE  Len(F[j - 1]) < Len(F[j]) /\ IsPrefix(F[j - 1], F[j])
  BY SpellsOne
<1>3. Wrong = {}
  <2> SUFFICES ASSUME Wrong # {} PROVE FALSE
    OBVIOUS
  <2> HIDE DEF Good
  <2>1. Wrong \in SUBSET Nat
    BY <1>0
  <2>2. PICK j \in Wrong : \A m \in Wrong : j <= m
    BY <2>1, LeastNat
  <2>3. PICK i \in 0..j : ~Good(i, j)
    BY <2>2
  <2>4. j \in 0..L /\ i \in 0..L /\ j \in Nat /\ i \in Nat /\ i <= j
    BY <1>0, <2>2, <2>3
  <2>5. i # j
    <3> SUFFICES ASSUME i = j PROVE FALSE
      OBVIOUS
    <3>1. Good(j, j)
      BY <1>1, <2>4, PrefixOfItself DEF Good
    <3> QED BY <2>3, <3>1
  <2>6. j \in 1..L /\ j - 1 \in 0..L /\ i \in 0..(j - 1) /\ i < j /\ ~(j <= j - 1)
    BY <1>0, <2>4, <2>5
  <2>7. Good(i, j - 1)
    <3>1. j - 1 \notin Wrong
      BY <2>2, <2>6
    <3> HIDE DEF Wrong
    <3> QED BY <2>6, <3>1 DEF Wrong
  <2>8. Good(i, j)
    <3> DEFINE a == F[i]
               b == F[j - 1]
               c == F[j]
    <3>1. /\ a \in Seq(Chars) /\ b \in Seq(Chars) /\ c \in Seq(Chars)
          /\ Len(a) \in Nat /\ Len(b) \in Nat /\ Len(c) \in Nat
      BY <1>1, <2>4, <2>6
    <3>2. IsPrefix(a, b) /\ IsPrefix(b, c) /\ Len(b) < Len(c)
      BY <1>2, <2>6, <2>7 DEF Good
    <3> HIDE DEF a, b, c
    <3>3. IsPrefix(a, c) /\ Len(a) <= Len(b)
      BY <3>1, <3>2, PrefixTrans, PrefixPointwise
    <3>4. Len(a) < Len(c)
      BY <3>1, <3>2, <3>3
    <3> QED BY <3>3, <3>4 DEF Good, a, c
  <2> QED BY <2>3, <2>8
<1>4. ASSUME NEW j \in 0..L, NEW i \in 0..j PROVE Good(i, j)
  <2> HIDE DEF Good
  <2>1. j \notin Wrong
    BY <1>3
  <2> QED BY <1>0, <2>1
<1> QED BY <1>4

\* What the levels spell together.
LEMMA FlattenIs ==
  ASSUME src \in Seq(Chars), indents \in Seq(Slices), NEW F, Spells(F)
  PROVE  FlattenSeq([i \in DOMAIN indents |-> Text(indents[i])]) = F[Len(indents)]
<1> DEFINE s == [i \in DOMAIN indents |-> Text(indents[i])]
           L == Len(indents)
           Loop(f) == f = [i \in 1..L |-> IF i = 1 THEN s[i] ELSE f[i - 1] \o s[i]]
           flatten == CHOOSE f : Loop(f)
<1>0. L \in Nat /\ DOMAIN indents = 1..L
  BY LenProperties
<1>1. s = [i \in 1..L |-> Text(indents[i])] /\ Len(s) = L
  BY <1>0
<1>2. CASE L = 0
  <2>1. FlattenSeq(s) = s
    BY <1>1, <1>2 DEF FlattenSeq
  <2>2. s = <<>>
    BY <1>1, <1>2
  <2> QED BY <1>2, <2>1, <2>2 DEF Spells
<1>3. CASE L # 0
  <2>1. FlattenSeq(s) = flatten[L]
    <3> HIDE DEF s
    <3>1. FlattenSeq(s) = (CHOOSE f : f = [i \in 1..Len(s) |-> IF i = 1 THEN s[i] ELSE f[i - 1] \o s[i]])[Len(s)]
      BY <1>1, <1>3 DEF FlattenSeq
    <3> QED BY <1>1, <3>1
  <2>2. \A i \in 1..L : F[i] = F[i - 1] \o s[i]
    BY <1>1 DEF Spells
  <2>3. F[1] = s[1]
    <3>1. 1 \in 1..L /\ 1 - 1 = 0
      BY <1>0, <1>3
    <3>2. indents[1] \in Slices
      BY <3>1, ElementOfSeq
    <3>3. Text(indents[1]) \in Seq(Chars) /\ s[1] = Text(indents[1])
      BY <1>1, <3>1, <3>2, TextIsSeq
    <3>4. F[1] = <<>> \o s[1]
      BY <2>2, <3>1 DEF Spells
    <3> HIDE DEF s
    <3> QED BY <3>3, <3>4, ConcatEmptySeq
  <2> HIDE DEF s
  <2>4. Loop([i \in 1..L |-> F[i]])
    <3> DEFINE g == [i \in 1..L |-> F[i]]
    <3>1. ASSUME NEW i \in 1..L PROVE F[i] = IF i = 1 THEN s[i] ELSE g[i - 1] \o s[i]
      <4>1. CASE i = 1
        BY <2>3, <4>1
      <4>2. CASE i # 1
        <5>1. i - 1 \in 1..L
          BY <1>0, <4>2
        <5>2. g[i - 1] = F[i - 1]
          BY <5>1
        <5> QED BY <2>2, <4>2, <5>2
      <4> QED BY <4>1, <4>2
    <3> QED BY <3>1
  <2>5. Loop(flatten)
    <3> HIDE DEF Loop
    <3> QED BY <2>4
  <2>6. \A i \in 1..L : flatten[i] = IF i = 1 THEN s[i] ELSE flatten[i - 1] \o s[i]
    <3> HIDE DEF flatten
    <3> QED BY <2>5
  <2> HIDE DEF flatten
  <2> DEFINE Wrong == {i \in 1..L : flatten[i] # F[i]}
  <2>7. Wrong = {}
    <3> SUFFICES ASSUME Wrong # {} PROVE FALSE
      OBVIOUS
    <3>1. Wrong \in SUBSET Nat
      BY <1>0
    <3>2. PICK i \in Wrong : \A m \in Wrong : i <= m
      BY <3>1, LeastNat
    <3>3. i \in 1..L /\ flatten[i] # F[i]
      BY <3>2
    <3>4. i # 1
      BY <2>3, <2>6, <3>3
    <3>5. i - 1 \in 1..L /\ ~(i <= i - 1)
      BY <1>0, <3>3, <3>4
    <3>6. flatten[i - 1] = F[i - 1]
      BY <3>2, <3>5
    <3> QED BY <2>2, <2>6, <3>3, <3>4, <3>6
  <2>8. flatten[L] = F[L]
    <3>1. L \in 1..L
      BY <1>0, <1>3
    <3> QED BY <2>7, <3>1
  <2> QED BY <2>1, <2>8 DEF s
<1> QED BY <1>2, <1>3

-----------------------------------------------------------------------------
(* A line that continues or goes back to open levels matches just those.   *)

\* A sequence agrees with one it is a prefix of to its end.
LEMMA AgreeAll ==
  ASSUME NEW a \in Seq(Chars), NEW b \in Seq(Chars), IsPrefix(a, b)
  PROVE  Agree(a, b) = Len(a)
<1> DEFINE n == Min({Len(a), Len(b)})
           S == {k \in 0..n : SubSeq(a, 1, k) = SubSeq(b, 1, k)}
<1>0. Len(a) \in Nat /\ Len(b) \in Nat /\ Len(a) <= Len(b)
  BY LenProperties DEF IsPrefix
<1>1. {Len(a), Len(b)} \in SUBSET Nat /\ {Len(a), Len(b)} # {}
  BY <1>0
<1>2. n = Len(a)
  <2>1. n \in {Len(a), Len(b)} /\ n <= Len(a)
    BY <1>1, MinNat
  <2> HIDE DEF n
  <2> QED BY <1>0, <2>1
<1>3. Agree(a, b) = Max(S)
  BY DEF Agree
<1> HIDE DEF n
<1>4. Len(a) \in S
  BY <1>0, <1>2 DEF IsPrefix
<1>5. S \in SUBSET Nat /\ S # {} /\ \A m \in S : m <= Len(a)
  BY <1>0, <1>2, <1>4
<1>6. Max(S) \in S /\ \A m \in S : m <= Max(S)
  <2> HIDE DEF S
  <2> QED BY <1>0, <1>5, MaxNat
<1> DEFINE x == Max(S)
<1>7. x <= Len(a) /\ Len(a) <= x /\ x \in Nat
  <2> HIDE DEF S
  <2> QED BY <1>4, <1>5, <1>6
<1> HIDE DEF x
<1>8. x = Len(a)
  BY <1>0, <1>7
<1> QED BY <1>3, <1>8 DEF x

\* Level p of a line whose whitespace starts with the first p levels is read whole.
LEMMA LevelRead ==
  ASSUME src \in Seq(Chars), indents \in Seq(Slices), NoneEmpty, NEW F, Spells(F),
         pos \in 1..End, NEW to \in (pos + 1)..End,
         NEW lead \in Seq(Chars), Len(lead) = to - pos,
         \A k \in 1..(to - pos) : lead[k] = src[pos + k - 1],
         NEW p \in 1..Len(indents), IsPrefix(F[p], lead),
         NEW at, at = pos + Len(F[p - 1])
  PROVE  /\ at \in pos..to /\ at < to
         /\ Len(F[p]) \in Nat /\ pos + Len(F[p]) \in pos..to
         /\ Agree(Text(indents[p]), SubSeq(src, at, to - 1)) = Len(Text(indents[p]))
         /\ Read(p, at, to) = Len(Text(indents[p]))
         /\ at + Len(Text(indents[p])) = pos + Len(F[p])
<1> DEFINE t == Text(indents[p])
           u == F[p - 1]
           w == F[p]
           s == SubSeq(src, at, to - 1)
<1>1. /\ w \in Seq(Chars) /\ u \in Seq(Chars) /\ t \in Seq(Chars)
      /\ w = u \o t /\ Len(u) \in Nat /\ Len(w) = Len(u) + Len(t) /\ Len(t) \in Nat /\ Len(t) > 0
      /\ IsPrefix(w, lead)
  BY SpellsOne
<1>2. at = pos + Len(u)
  OBVIOUS
<1>3. Agree(Text(indents[p]), SubSeq(src, at, to - 1)) = Agree(t, s)
  OBVIOUS
<1>4. Read(p, at, to) = Min({Agree(t, s) + 1, Len(t), to - at})
  BY DEF Read
<1> SUFFICES /\ at \in pos..to /\ at < to /\ Len(w) \in Nat /\ pos + Len(w) \in pos..to
             /\ Agree(t, s) = Len(t) /\ Min({Agree(t, s) + 1, Len(t), to - at}) = Len(t)
             /\ at + Len(t) = pos + Len(w)
  BY <1>4
<1>s. s = SubSeq(src, at, to - 1)
  OBVIOUS
<1> HIDE DEF t, u, w, s
<1>0. pos \in Nat /\ to \in Nat /\ End \in Nat /\ End = Len(src) + 1 /\ pos >= 1 /\ to <= End /\ Len(src) \in Nat /\ pos < to
  BY LenProperties DEF End
<1>5. Len(w) <= to - pos /\ \A k \in 1..Len(w) : w[k] = lead[k]
  <2>1. IsPrefix(w, lead) /\ w \in Seq(Chars) /\ lead \in Seq(Chars)
    BY <1>1
  <2>2. Len(w) <= Len(lead) /\ \A k \in 1..Len(w) : w[k] = lead[k]
    BY <2>1, PrefixPointwise
  <2> QED BY <2>2
<1> DEFINE lu == Len(u)
           lt == Len(t)
<1>e. lu \in Nat /\ lt \in Nat /\ lt > 0 /\ Len(w) = lu + lt /\ lu + lt <= to - pos /\ at = pos + lu
  BY <1>1, <1>2, <1>5
<1> HIDE DEF lu, lt
<1>6. /\ at \in pos..to /\ at < to /\ at \in 1..End /\ to \in 1..End /\ at <= to /\ pos + (lu + lt) \in pos..to
      /\ at + lt = pos + (lu + lt) /\ lt <= to - at /\ at \in Nat
      /\ lt + 1 \in Nat /\ to - at \in Nat /\ to - at >= lt /\ lt + 1 >= lt
      /\ \A k \in 1..lt : /\ lu + k \in 1..(lu + lt) /\ ~(lu + k <= lu) /\ (lu + k) - lu = k
                          /\ lu + k \in 1..(to - pos) /\ k \in 1..(to - at)
                          /\ pos + (lu + k) - 1 = at + k - 1
  <2>0. at \in Nat
    BY <1>0, <1>e
  <2>1. PICK x \in Nat, y \in Nat, e \in Nat, m \in Nat, n \in Nat, a \in Nat :
          a = at /\ x = pos /\ y = to /\ e = End /\ m = lu /\ n = lt
    BY <1>0, <1>e, <2>0
  <2>2. x < y /\ x >= 1 /\ n > 0 /\ m + n <= y - x /\ y <= e /\ a = x + m
    BY <1>0, <1>e, <2>1
  <2>3. /\ a \in x..y /\ a < y /\ a \in 1..e /\ y \in 1..e /\ a <= y /\ x + (m + n) \in x..y
        /\ a + n = x + (m + n) /\ n <= y - a /\ a \in Nat
        /\ n + 1 \in Nat /\ y - a \in Nat /\ y - a >= n /\ n + 1 >= n
        /\ \A k \in 1..n : /\ m + k \in 1..(m + n) /\ ~(m + k <= m) /\ (m + k) - m = k
                           /\ m + k \in 1..(y - x) /\ k \in 1..(y - a)
                           /\ x + (m + k) - 1 = a + k - 1
    BY <2>2
  <2> QED BY <2>1, <2>3
<1>7. s \in Seq(Chars) /\ Len(s) = to - at /\ \A k \in 1..(to - at) : s[k] = src[at + k - 1]
  <2>1. [from |-> at, to |-> to] \in Slices
    BY <1>0, <1>6 DEF Slices
  <2>2. s = Text([from |-> at, to |-> to])
    BY <1>s DEF Text
  <2> QED BY <2>1, <2>2, TextIsSeq
<1>8. \A k \in 1..(Len(u) + Len(t)) : w[k] = IF k <= Len(u) THEN u[k] ELSE t[k - Len(u)]
  BY <1>1, ConcatProperties
<1>9. ASSUME NEW k \in 1..Len(t) PROVE t[k] = s[k]
  <2>0. k \in 1..lt
    BY DEF lt
  <2>1. /\ lu + k \in 1..(lu + lt) /\ ~(lu + k <= lu) /\ (lu + k) - lu = k
        /\ lu + k \in 1..(to - pos) /\ k \in 1..(to - at)
        /\ pos + (lu + k) - 1 = at + k - 1
    BY <1>6, <2>0
  <2>2. w[lu + k] = t[k]
    BY <1>8, <2>1 DEF lu, lt
  <2>3. w[lu + k] = lead[lu + k]
    BY <1>5, <1>e, <2>1
  <2>4. lead[lu + k] = src[at + k - 1]
    BY <2>1
  <2> QED BY <1>7, <2>1, <2>2, <2>3, <2>4
<1>10. IsPrefix(t, s)
  <2>1. Len(t) <= Len(s)
    BY <1>6, <1>7 DEF lt
  <2> QED BY <1>1, <1>7, <1>9, <2>1, PrefixPointwise
<1>11. Agree(t, s) = Len(t)
  BY <1>1, <1>7, <1>10, AgreeAll
<1>12. Min({Len(t) + 1, Len(t), to - at}) = Len(t)
  <2> DEFINE S == {Len(t) + 1, Len(t), to - at}
             m == Min(S)
  <2>0. Len(t) \in Nat /\ Len(t) + 1 \in Nat /\ to - at \in Nat /\ to - at >= Len(t) /\ Len(t) + 1 >= Len(t)
    BY <1>e, <1>6 DEF lt
  <2>1. S \in SUBSET Nat /\ S # {} /\ Len(t) \in S /\ \A x \in S : x >= Len(t)
    BY <2>0
  <2>2. m \in S /\ m <= Len(t)
    <3> HIDE DEF S
    <3> QED BY <2>1, MinNat
  <2> HIDE DEF S, m
  <2>3. m = Len(t)
    BY <1>1, <2>1, <2>2
  <2> QED BY <2>3 DEF m, S
<1>13. Len(w) \in Nat /\ pos + Len(w) \in pos..to /\ at + Len(t) = pos + Len(w)
  BY <1>e, <1>6 DEF lt
<1> QED BY <1>6, <1>11, <1>12, <1>13

\* The comparison loop of lemniLex, on whitespace that starts with the first i
\* levels and is either those or deeper than all, matches i levels.
LEMMA MatchFollows ==
  ASSUME src \in Seq(Chars), indents \in Seq(Slices), NoneEmpty, NEW F, Spells(F),
         pos \in 1..End, NEW to \in (pos + 1)..End,
         NEW lead \in Seq(Chars), Len(lead) = to - pos,
         \A k \in 1..(to - pos) : lead[k] = src[pos + k - 1],
         NEW i \in 1..Len(indents), IsPrefix(F[i], lead), F[i] = lead \/ i = Len(indents)
  PROVE  /\ Match(to) = [levels |-> i, rest |-> pos + Len(F[i])]
         /\ Len(F[i]) \in Nat /\ pos + Len(F[i]) \in pos..to
<1> DEFINE L == Len(indents)
           ans == [levels |-> i, rest |-> pos + Len(F[i])]
           At_(p) == pos + Len(F[p - 1])
<1>0. L \in Nat /\ pos \in Nat /\ to \in Nat /\ pos < to /\ to \in 1..End /\ pos \in 1..to /\ i \in Nat
  BY LenProperties DEF End
<1>1. PICK from : /\ Match(to) = from[<<1, pos>>]
                  /\ \A p \in 1..(L + 1), at \in pos..to : from[<<p, at>>] = Round(from, p, at, to)
  BY <1>0, MatchSolved
<1>2. \A p \in 1..i : F[p] \in Seq(Chars) /\ IsPrefix(F[p], lead) /\ (p < i => Len(F[p]) < Len(F[i]))
  <2> SUFFICES ASSUME NEW p \in 1..i
               PROVE  F[p] \in Seq(Chars) /\ IsPrefix(F[p], lead) /\ (p < i => Len(F[p]) < Len(F[i]))
    OBVIOUS
  <2>1. p \in 0..i /\ i \in 0..L /\ p \in 0..L
    BY <1>0
  <2>2. F[p] \in Seq(Chars) /\ F[i] \in Seq(Chars)
    BY <2>1 DEF Spells
  <2>3. IsPrefix(F[p], F[i]) /\ (p < i => Len(F[p]) < Len(F[i]))
    BY <2>1, SpellsChain
  <2> QED BY <2>2, <2>3, PrefixTrans
<1>3. ASSUME NEW p \in 1..i
      PROVE  /\ At_(p) \in pos..to /\ At_(p) < to
             /\ Len(F[p]) \in Nat /\ pos + Len(F[p]) \in pos..to
             /\ Agree(Text(indents[p]), SubSeq(src, At_(p), to - 1)) = Len(Text(indents[p]))
             /\ Read(p, At_(p), to) = Len(Text(indents[p]))
             /\ At_(p) + Len(Text(indents[p])) = pos + Len(F[p])
  <2>1. p \in 1..L /\ IsPrefix(F[p], lead)
    BY <1>0, <1>2
  <2>2. PICK at : at = At_(p)
    OBVIOUS
  <2> QED BY <2>1, <2>2, LevelRead
<1>4. Len(F[i]) \in Nat /\ pos + Len(F[i]) \in pos..to
  <2>1. i \in 1..i
    BY <1>0
  <2> QED BY <1>3, <2>1
\* a level before the last one matched
<1>5. ASSUME NEW p \in 1..i, p < i
      PROVE  from[<<p, At_(p)>>] = from[<<p + 1, At_(p + 1)>>]
  <2>1. p \in 1..(L + 1) /\ ~(p > L) /\ p + 1 - 1 = p
    BY <1>0, <1>5
  <2>2. At_(p + 1) = pos + Len(F[p])
    BY <2>1
  <2>3. Len(F[p]) < Len(F[i]) /\ Len(F[p]) \in Nat
    BY <1>2, <1>3, <1>5
  <2> DEFINE at == At_(p)
             n == Len(Text(indents[p]))
             y == Len(F[i])
             x == Len(F[p])
  <2>4. /\ at \in pos..to /\ at < to /\ Read(p, at, to) = n /\ at + n = pos + x
        /\ Agree(Text(indents[p]), SubSeq(src, at, to - 1)) = n
    BY <1>3
  <2>5. x < y /\ x \in Nat /\ y \in Nat /\ pos + y <= to
    BY <1>4, <2>3
  <2>6. At_(p + 1) = at + n
    BY <2>2, <2>4
  <2>7. at \in Nat /\ pos + x # to /\ at # to /\ n = n
    <3> HIDE DEF x, y, at, n
    <3> QED BY <1>0, <2>4, <2>5
  <2>8. from[<<p, at>>] = Round(from, p, at, to)
    <3> HIDE DEF at
    <3> QED BY <1>1, <2>1, <2>4
  <2>9. ~(n < n)
    <3>1. p \in 1..L
      BY <1>0
    <3>2. n \in Nat
      BY <3>1, SpellsOne
    <3> HIDE DEF n
    <3> QED BY <3>2
  <2>10. Round(from, p, at, to) = from[<<p + 1, at + n>>]
    <3> HIDE DEF at, x, y
    <3> QED BY <2>1, <2>4, <2>7, <2>9 DEF Round
  <2> QED BY <2>6, <2>8, <2>10
\* the last one
<1>6. from[<<i, At_(i)>>] = ans
  <2> DEFINE at == At_(i)
             n == Len(Text(indents[i]))
             y == Len(F[i])
  <2>1. i \in 1..i /\ i \in 1..(L + 1) /\ ~(i > L) /\ i \in 1..L
    BY <1>0
  <2>2. /\ at \in pos..to /\ at < to /\ Read(i, at, to) = n /\ at + n = pos + y
        /\ Agree(Text(indents[i]), SubSeq(src, at, to - 1)) = n
    BY <1>3, <2>1
  <2>3. n \in Nat
    BY <2>1, SpellsOne
  <2>4. from[<<i, at>>] = Round(from, i, at, to)
    <3> HIDE DEF at
    <3> QED BY <1>1, <2>1, <2>2
  <2>5. at \in Nat /\ at # to /\ y \in Nat /\ pos + y <= to
    <3>1. y \in Nat /\ pos + y \in pos..to
      BY <1>4
    <3>2. at \in pos..to /\ at < to
      BY <2>2
    <3> HIDE DEF at, y
    <3>3. pos \in Nat /\ to \in Nat
      BY <1>0
    <3> QED BY <3>1, <3>2, <3>3
  <2>6. CASE pos + y = to
    <3> HIDE DEF at, y
    <3>1. Round(from, i, at, to) = [levels |-> i, rest |-> to]
      BY <2>1, <2>2, <2>5, <2>6 DEF Round
    <3> QED BY <2>4, <2>6, <3>1 DEF y, at
  <2>7. CASE pos + y # to
    <3>1. i = L
      <4> SUFFICES ASSUME F[i] = lead PROVE FALSE
        OBVIOUS
      <4>1. y = to - pos
        OBVIOUS
      <4> HIDE DEF y
      <4> QED BY <1>0, <2>7, <4>1
    <3>2. i + 1 \in 1..(L + 1) /\ pos + y \in pos..to /\ i + 1 > L /\ i + 1 - 1 = i
      BY <1>0, <1>4, <3>1
    <3>3. ~(n < n)
      <4> HIDE DEF n
      <4> QED BY <2>3
    <3> HIDE DEF at, y, n
    <3>4. Round(from, i, at, to) = from[<<i + 1, pos + y>>]
      <4>1. /\ Agree(Text(indents[i]), SubSeq(src, at, to - 1)) = n /\ Read(i, at, to) = n
            /\ n = Len(Text(indents[i]))
        BY <2>2 DEF n
      <4> QED BY <2>1, <2>2, <2>5, <2>7, <3>3, <4>1 DEF Round
    <3>5. from[<<i + 1, pos + y>>] = Round(from, i + 1, pos + y, to)
      BY <1>1, <3>2
    <3>6. Round(from, i + 1, pos + y, to) = [levels |-> i, rest |-> pos + y]
      BY <3>2 DEF Round
    <3> QED BY <2>4, <3>4, <3>5, <3>6 DEF at, y
  <2> QED BY <2>6, <2>7
<1> DEFINE Wrong == {m \in 0..(i - 1) : from[<<i - m, At_(i - m)>>] # ans}
<1>7. Wrong = {}
  <2> SUFFICES ASSUME Wrong # {} PROVE FALSE
    OBVIOUS
  <2>1. Wrong \in SUBSET Nat
    BY <1>0
  <2>0. from[<<i - 0, At_(i - 0)>>] = ans
    <3>1. i - 0 = i
      BY <1>0
    <3> QED BY <1>6, <3>1
  <2> HIDE DEF At_, ans
  <2>2. PICK m \in Wrong : \A l \in Wrong : m <= l
    BY <2>1, LeastNat
  <2>3. m \in 0..(i - 1) /\ from[<<i - m, At_(i - m)>>] # ans
    BY <2>2
  <2>4. m # 0
    BY <2>0, <2>3
  <2>5. /\ m - 1 \in 0..(i - 1) /\ ~(m <= m - 1) /\ i - m \in 1..i /\ i - m < i
        /\ i - (m - 1) = (i - m) + 1
    BY <1>0, <2>3, <2>4
  <2>6. from[<<i - (m - 1), At_(i - (m - 1))>>] = ans
    BY <2>2, <2>5
  <2>7. from[<<i - m, At_(i - m)>>] = from[<<(i - m) + 1, At_((i - m) + 1)>>]
    BY <1>5, <2>5
  <2> QED BY <2>3, <2>5, <2>6, <2>7
<1>8. from[<<1, At_(1)>>] = ans
  <2>1. i - 1 \in 0..(i - 1) /\ i - (i - 1) = 1
    BY <1>0
  <2> HIDE DEF At_, ans
  <2> QED BY <1>7, <2>1
<1>9. At_(1) = pos
  <2>1. Len(F[1 - 1]) = 0
    BY DEF Spells
  <2> QED BY <1>0, <2>1
<1> QED BY <1>1, <1>4, <1>8, <1>9

-----------------------------------------------------------------------------
(* Without quotes a token stays on its line.                               *)

NoQuotes == \A k \in 1..Len(src) : src[k] \notin Quote

\* A number stays on its line.
LEMMA IntEndOnLine ==
  ASSUME src \in Seq(Chars), NEW i \in 1..Len(src), src[i] \in Digit, IntEnd(i) # 0
  PROVE  IntEnd(i) \in (i + 1)..End /\ \A k \in i..(IntEnd(i) - 1) : src[k] # "nl"
<1> DEFINE class == XDigit \cup {"_"}
           j == SkipWhile(i, class)
<1>0. End \in Nat /\ End = Len(src) + 1 /\ Len(src) \in Nat /\ i \in 1..End /\ i < End /\ i \in Nat
  BY LenProperties DEF End
<1>1. "nl" \notin class /\ src[i] \in class
  BY DEF XDigit, Digit
<1>2. j \in i..End /\ j > i /\ \A k \in i..(j - 1) : src[k] \in class
  BY <1>0, <1>1, SkipWhileStops
<1>3. IntEnd(i) = CASE j < End /\ src[j] = "." -> RealEnd(j + 1)
                    [] j < End /\ src[j] \in Letter -> 0
                    [] OTHER -> j
  BY DEF IntEnd
<1>4. j \in Nat /\ (j < End => j + 1 \in 1..End)
  <2> HIDE DEF j
  <2>1. j \in i..End /\ j > i
    BY <1>2
  <2> QED BY <1>0, <2>1
<1>5. CASE j < End /\ src[j] = "."
  <2> DEFINE n == j + 1
             e == SkipWhile(n, class)
  <2>1. n \in 1..End
    BY <1>4, <1>5
  <2>2. e \in n..End /\ \A k \in n..(e - 1) : src[k] \in class
    <3> HIDE DEF n, class
    <3> QED BY <2>1, SkipWhileStops
  <2>3. RealEnd(n) = IF e < End /\ src[e] \in {"."} \cup Letter THEN 0 ELSE e
    BY DEF RealEnd
  <2>4. IntEnd(i) = RealEnd(n)
    <3> HIDE DEF j
    <3> QED BY <1>3, <1>5
  <2> HIDE DEF e, j, class
  <2>5. IntEnd(i) = e
    BY <2>3, <2>4
  <2>6. e \in (i + 1)..End
    BY <1>0, <1>2, <1>4, <2>2
  <2>7. ASSUME NEW k \in i..(e - 1) PROVE src[k] # "nl"
    <3>1. k < j \/ k = j \/ k >= n
      BY <1>0, <1>4, <2>6
    <3>2. CASE k < j
      <4>1. k \in i..(j - 1)
        BY <1>0, <1>4, <2>6, <3>2
      <4> QED BY <1>1, <1>2, <4>1
    <3>3. CASE k = j
      BY <1>5, <3>3
    <3>4. CASE k >= n
      <4>1. k \in n..(e - 1)
        BY <1>0, <1>4, <2>6, <3>4
      <4> QED BY <1>1, <2>2, <4>1
    <3> QED BY <3>1, <3>2, <3>3, <3>4
  <2> QED BY <2>5, <2>6, <2>7
<1>6. CASE ~(j < End /\ src[j] = ".")
  <2> HIDE DEF j, class
  <2>1. IntEnd(i) = j
    BY <1>3, <1>6
  <2>2. j \in (i + 1)..End
    BY <1>0, <1>2, <1>4
  <2> QED BY <1>1, <1>2, <2>1, <2>2
<1> QED BY <1>5, <1>6

\* The step stays on the line of i and goes past it.
StaysOnLine(i) ==
  /\ onNewLine' = FALSE /\ src' = src
  /\ pos' \in (i + 1)..End
  /\ \A k \in i..(pos' - 1) : src[k] # "nl"

\* So does every token that is not a string.
LEMMA VisibleStaysOnLine ==
  ASSUME src \in Seq(Chars), NoQuotes, NEW i \in 1..Len(src), NEW at, Visible(i, at)
  PROVE  Fail("error") \/ StaysOnLine(i)
<1>0. /\ Len(src) \in Nat /\ End = Len(src) + 1 /\ i \in 1..End /\ i < End
      /\ End \in Nat /\ i \in Nat /\ i + 1 \in (i + 1)..End
  BY LenProperties DEF End
<1>1. ASSUME NEW to \in (i + 1)..End, NEW kind, NEW cols, Emit(kind, i, to, at, cols),
             \A k \in i..(to - 1) : src[k] # "nl"
      PROVE  StaysOnLine(i)
  BY <1>1 DEF Emit, StaysOnLine
<1>2. ASSUME NEW class, "nl" \notin class, src[i] \in class, NEW kind,
             LET to == SkipWhile(i, class) IN Emit(kind, i, to, at, to - i)
      PROVE  StaysOnLine(i)
  <2> DEFINE to == SkipWhile(i, class)
  <2>1. to \in i..End /\ to > i /\ \A k \in i..(to - 1) : src[k] \in class
    BY <1>0, <1>2, SkipWhileStops
  <2>2. Emit(kind, i, to, at, to - i)
    BY <1>2
  <2> HIDE DEF to
  <2>3. to \in (i + 1)..End /\ \A k \in i..(to - 1) : src[k] # "nl"
    BY <1>0, <1>2, <2>1
  <2> QED BY <1>1, <2>2, <2>3
<1>3. ASSUME NEW num \in 1..Len(src), src[num] \in Digit, num = i \/ (num = i + 1 /\ src[i] # "nl"),
             Number(i, num, at)
      PROVE  Fail("error") \/ StaysOnLine(i)
  <2> DEFINE to == IntEnd(num)
             kind == NumberKind(num, to)
             cols == IF i = num THEN to - i - 1 ELSE to - i
  <2>1. CASE to = 0 \/ kind = "BAD"
    BY <1>3, <2>1 DEF Number
  <2>2. CASE ~(to = 0 \/ kind = "BAD")
    <3>1. Emit(kind, i, to, at, cols)
      BY <1>3, <2>2 DEF Number, NumberFrom
    <3>2. to \in (num + 1)..End /\ \A k \in num..(to - 1) : src[k] # "nl"
      BY <1>3, <2>2, IntEndOnLine
    <3> HIDE DEF to, kind, cols
    <3>3. to \in (i + 1)..End /\ to \in Nat /\ num \in Nat
      BY <1>0, <1>3, <3>2
    <3>4. ASSUME NEW k \in i..(to - 1) PROVE src[k] # "nl"
      <4>1. CASE k \in num..(to - 1)
        BY <3>2, <4>1
      <4>2. CASE k \notin num..(to - 1)
        <5>1. k = i /\ num = i + 1
          BY <1>0, <1>3, <3>3, <4>2
        <5> QED BY <1>3, <5>1
      <4> QED BY <4>1, <4>2
    <3> QED BY <1>1, <3>1, <3>3, <3>4
  <2> QED BY <2>1, <2>2
<1>4. CASE Word(i, at)
  <2>1. "nl" \notin Alnum \cup {"_"} /\ src[i] \in Alnum \cup {"_"}
    BY <1>4 DEF Alnum, Digit, Letter, Word
  <2>2. LET to == SkipWhile(i, Alnum \cup {"_"}) IN Emit("ID", i, to, at, to - i)
    BY <1>4 DEF Word
  <2> QED BY <1>2, <2>1, <2>2
<1>5. CASE src[i] \in Digit /\ Number(i, i, at)
  <2>1. i = i \/ (i = i + 1 /\ src[i] # "nl")
    OBVIOUS
  <2> QED BY <1>3, <1>5, <2>1
<1>6. CASE Bracketed(i, at)
  <2> DEFINE kind == IF src[i] = "(" THEN "OPEN" ELSE "CLOSE"
  <2>1. src[i] \in Bracket /\ Emit(kind, i, i + 1, at, 0)
    BY <1>6 DEF Bracketed
  <2>2. \A k \in i..(i + 1 - 1) : src[k] # "nl"
    BY <1>0, <2>1 DEF Bracket
  <2> HIDE DEF kind
  <2> QED BY <1>0, <1>1, <2>1, <2>2
<1>7. CASE StringLiteral(i, at)
  BY <1>7 DEF StringLiteral, NoQuotes
<1>8. CASE Operator(i, at)
  <2> DEFINE next == IF i + 1 < End THEN src[i + 1] ELSE "nl"
  <2>0. src[i] \in Punct \ (Bracket \cup Quote \cup {"_"}) /\ src[i] # "nl" /\ src[i] \in Punct
    BY <1>8 DEF Operator, Punct, Bracket, Quote
  <2>1. CASE src[i] = "-" /\ next \in Digit
    <3>1. i + 1 < End /\ src[i + 1] \in Digit /\ i + 1 \in 1..Len(src)
      BY <1>0, <2>1 DEF Digit
    <3>2. Number(i, i + 1, at)
      BY <1>8, <2>1 DEF Operator
    <3> QED BY <1>3, <2>0, <3>1, <3>2
  <2>2. CASE ~(src[i] = "-" /\ next \in Digit) /\ src[i] = "/" /\ next = "/"
    <3>1. LET to == SkipWhile(i, Chars \ {"nl"}) IN Emit("COMMENT", i, to, at, to - i)
      BY <1>8, <2>2 DEF Operator, CommentEnd
    <3>2. "nl" \notin Chars \ {"nl"} /\ src[i] \in Chars \ {"nl"}
      BY <2>0, ElementOfSeq
    <3> QED BY <1>2, <3>1, <3>2
  <2>3. CASE ~(src[i] = "-" /\ next \in Digit) /\ ~(src[i] = "/" /\ next = "/")
    <3>1. LET to == SkipWhile(i, Punct) IN Emit("OP", i, to, at, to - i)
      BY <1>8, <2>3 DEF Operator
    <3>2. "nl" \notin Punct
      BY DEF Punct, Quote, Bracket
    <3> QED BY <1>2, <2>0, <3>1, <3>2
  <2> QED BY <2>1, <2>2, <2>3
<1>9. CASE src[i] = "ctl" /\ Fail("error")
  BY <1>9
<1> QED BY <1>4, <1>5, <1>6, <1>7, <1>8, <1>9 DEF Visible

-----------------------------------------------------------------------------
(* The open levels of the lexer are those of the text.                     *)

\* In a well indented text the levels held spell the open levels of the text, the
\* last of them the line being read; between ClearIndents and the token of the
\* line it is called on, none are held and that line has no whitespace.
LevelsHeld ==
  /\ NoneEmpty
  /\ WellIndented =>
       /\ ~onNewLine => pos > 1 /\ src[pos - 1] # "nl"
       /\ \E F : /\ Spells(F)
                 /\ \/ /\ {F[i] : i \in 1..Len(indents)} = OpenLevels(pos)
                       /\ ~onNewLine => F[Len(indents)] = Leading(pos)
                    \/ onNewLine /\ indents = <<>> /\ At(Chars \ Space)

\* The lines of a text are those of the text.
LEMMA LinesStay ==
  ASSUME src' = src
  PROVE  /\ WellIndented' = WellIndented
         /\ \A k : Leading(k)' = Leading(k) /\ OpenLevels(k)' = OpenLevels(k)
<1>1. End' = End
  BY DEF End
<1>2. LineStarts' = LineStarts /\ \A k : LineStart(k)' = LineStart(k)
  BY DEF LineStarts, LineStart
<1>3. \A k, class : SkipWhile(k, class)' = SkipWhile(k, class)
  BY <1>1 DEF SkipWhile
<1>4. \A k : Leading(k)' = Leading(k)
  <2> SUFFICES ASSUME NEW k PROVE Leading(k)' = Leading(k)
    OBVIOUS
  <2>1. PICK s : s = LineStart(k)
    OBVIOUS
  <2>2. SkipWhile(s, Space \ {"nl"})' = SkipWhile(s, Space \ {"nl"}) /\ LineStart(k)' = s
    BY <1>2, <1>3, <2>1
  <2>3. Leading(k)' = SubSeq(src', LineStart(k)', SkipWhile(LineStart(k), Space \ {"nl"})' - 1)
    BY DEF Leading
  <2>4. SkipWhile(LineStart(k), Space \ {"nl"})' = SkipWhile(s, Space \ {"nl"})'
    BY <2>2 DEF SkipWhile
  <2> QED BY <2>1, <2>2, <2>3, <2>4 DEF Leading
<1>5. Lines' = Lines
  BY <1>1, <1>2 DEF Lines
<1>6. \A k : OpenLevels(k)' = OpenLevels(k)
  BY <1>4, <1>5 DEF OpenLevels
<1>7. WellIndentedLines' = WellIndentedLines
  BY <1>4, <1>5, <1>6 DEF WellIndentedLines
<1>8. NoBlankLine' = NoBlankLine
  BY <1>1, <1>2, <1>3 DEF NoBlankLine
<1>9. WellIndented' = WellIndented
  BY <1>7, <1>8 DEF WellIndented, ToSet
<1> QED BY <1>4, <1>6, <1>9

\* A text that is not well indented is promised nothing.
LEMMA LevelsVacuous ==
  ASSUME src' = src, ~WellIndented, NoneEmpty'
  PROVE  LevelsHeld'
BY LinesStay DEF LevelsHeld

\* LevelsHeld after a step, of what the step leaves.
LEMMA LevelsNext ==
  ASSUME src' = src, WellIndented, NoneEmpty',
         NEW ids, ids = indents', NEW q, q = pos', NEW b \in BOOLEAN, b = onNewLine',
         NEW F \in [0..Len(ids) -> Seq(Chars)], F[0] = <<>>,
         \A i \in 1..Len(ids) : F[i] = F[i - 1] \o Text(ids[i]),
         ~b => q > 1 /\ src[q - 1] # "nl",
         \/ {F[i] : i \in 1..Len(ids)} = OpenLevels(q) /\ (~b => F[Len(ids)] = Leading(q))
         \/ b /\ ids = <<>> /\ q < End /\ src[q] \in Chars \ Space
  PROVE  LevelsHeld'
<1>1. \A s : Text(s)' = Text(s)
  BY DEF Text
<1>2. Spells(F)'
  BY <1>1 DEF Spells
<1>3. OpenLevels(pos)' = OpenLevels(q)
  <2>1. OpenLevels(pos)' = OpenLevels(q)'
    BY DEF OpenLevels
  <2> QED BY <2>1, LinesStay
<1>4. Leading(pos)' = Leading(q)
  <2>1. Leading(pos)' = Leading(q)'
    BY DEF Leading, LineStart, SkipWhile
  <2> QED BY <2>1, LinesStay
<1>5. b /\ ids = <<>> /\ q < End /\ src[q] \in Chars \ Space => (onNewLine /\ indents = <<>> /\ At(Chars \ Space))'
  BY DEF At, End
<1>6. ~onNewLine' => pos' > 1 /\ src'[pos' - 1] # "nl"
  OBVIOUS
<1>7. (\/ /\ {F[i] : i \in 1..Len(indents)} = OpenLevels(pos)
          /\ ~onNewLine => F[Len(indents)] = Leading(pos)
       \/ onNewLine /\ indents = <<>> /\ At(Chars \ Space))'
  BY <1>3, <1>4, <1>5
<1> QED BY <1>2, <1>6, <1>7 DEF LevelsHeld

\* Nothing that matters changes.
LEMMA LevelsStay ==
  ASSUME IInv, LevelsHeld, UNCHANGED <<src, pos, onNewLine, indents>>
  PROVE  LevelsHeld'
<1>0. src \in Seq(Chars) /\ onNewLine \in BOOLEAN
  BY DEF IInv, TypeOK
<1>1. NoneEmpty'
  BY DEF LevelsHeld, NoneEmpty
<1>2. CASE ~WellIndented
  BY <1>1, <1>2, LevelsVacuous
<1>3. CASE WellIndented
  <2>1. PICK F : /\ Spells(F)
                 /\ \/ /\ {F[i] : i \in 1..Len(indents)} = OpenLevels(pos)
                       /\ ~onNewLine => F[Len(indents)] = Leading(pos)
                    \/ onNewLine /\ indents = <<>> /\ At(Chars \ Space)
    BY <1>3 DEF LevelsHeld
  <2>2. ~onNewLine => pos > 1 /\ src[pos - 1] # "nl"
    BY <1>3 DEF LevelsHeld
  <2>3. PICK ids, q, b : ids = indents' /\ q = pos' /\ b = onNewLine'
    OBVIOUS
  <2>4. /\ F \in [0..Len(ids) -> Seq(Chars)] /\ F[0] = <<>>
        /\ \A i \in 1..Len(ids) : F[i] = F[i - 1] \o Text(ids[i])
    BY <2>1, <2>3 DEF Spells
  <2>5. \/ {F[i] : i \in 1..Len(ids)} = OpenLevels(q) /\ (~b => F[Len(ids)] = Leading(q))
        \/ b /\ ids = <<>> /\ q < End /\ src[q] \in Chars \ Space
    BY <2>1, <2>3 DEF At
  <2>6. (~b => q > 1 /\ src[q - 1] # "nl") /\ b \in BOOLEAN
    BY <1>0, <2>2, <2>3
  <2> QED BY <1>1, <1>3, <2>3, <2>4, <2>5, <2>6, LevelsNext
<1> QED BY <1>2, <1>3

\* A line goes on.
LEMMA LineGoesOn ==
  ASSUME IInv, LevelsHeld, WellIndented, ~onNewLine, StaysOnLine(pos), UNCHANGED indents
  PROVE  LevelsHeld'
<1>0. src \in Seq(Chars) /\ pos \in 1..End /\ src' = src /\ End \in Nat /\ pos \in Nat
  BY DEF IInv, TypeOK, StaysOnLine, End
<1>1. NoneEmpty'
  BY DEF LevelsHeld, NoneEmpty
<1>2. pos > 1 /\ src[pos - 1] # "nl"
  BY DEF LevelsHeld
<1>3. PICK F : Spells(F) /\ {F[i] : i \in 1..Len(indents)} = OpenLevels(pos) /\ F[Len(indents)] = Leading(pos)
  BY DEF LevelsHeld
<1>4. PICK ids, q, b : ids = indents' /\ q = pos' /\ b = onNewLine' /\ b = FALSE
  BY DEF StaysOnLine
<1>5. q \in (pos + 1)..End /\ q \in pos..End /\ q \in Nat /\ \A k \in pos..(q - 1) : src[k] # "nl"
  <2>1. q \in (pos + 1)..End /\ \A k \in pos..(q - 1) : src[k] # "nl"
    BY <1>4 DEF StaysOnLine
  <2>2. q \in pos..End /\ q \in Nat
    BY <1>0, <2>1
  <2> QED BY <2>1, <2>2
<1>6. \A m \in Lines : ~(pos <= m /\ m < q)
  <2> SUFFICES ASSUME NEW m \in Lines, pos <= m, m < q PROVE FALSE
    OBVIOUS
  <2>1. m \in Nat /\ src[m - 1] = "nl"
    BY <1>0, <1>2, LinesInText
  <2>2. m = pos \/ m - 1 \in pos..(q - 1)
    BY <1>0, <1>5, <2>1
  <2> QED BY <1>2, <1>5, <2>1, <2>2
<1>7. OpenLevels(q) = OpenLevels(pos) /\ Leading(q) = Leading(pos)
  BY <1>0, <1>5, <1>6, OpenStays, LineKept
<1>8. q > 1 /\ src[q - 1] # "nl"
  <2>1. q - 1 \in pos..(q - 1) /\ q > 1
    BY <1>0, <1>2, <1>5
  <2> QED BY <1>5, <2>1
<1>9. /\ F \in [0..Len(ids) -> Seq(Chars)] /\ F[0] = <<>>
      /\ \A i \in 1..Len(ids) : F[i] = F[i - 1] \o Text(ids[i])
  BY <1>3, <1>4 DEF Spells
<1>10. {F[i] : i \in 1..Len(ids)} = OpenLevels(q) /\ F[Len(ids)] = Leading(q)
  BY <1>3, <1>4, <1>7
<1> QED BY <1>0, <1>1, <1>4, <1>8, <1>9, <1>10, LevelsNext

\* A line begins.
LEMMA LineBegins ==
  ASSUME IInv, WellIndented, pos \in Lines, StaysOnLine(pos), NoneEmpty', NEW ids, ids = indents',
         NEW F \in [0..Len(ids) -> Seq(Chars)], F[0] = <<>>,
         \A i \in 1..Len(ids) : F[i] = F[i - 1] \o Text(ids[i]),
         {F[i] : i \in 1..Len(ids)}
           = ({l \in OpenLevels(pos) : IsPrefix(l, Leading(pos))} \cup {Leading(pos)}) \ {<<>>},
         F[Len(ids)] = Leading(pos)
  PROVE  LevelsHeld'
<1>0. src \in Seq(Chars) /\ pos \in 1..End /\ src' = src /\ End \in Nat /\ pos \in Nat
  BY DEF IInv, TypeOK, StaysOnLine, End
<1>4. PICK q, b : q = pos' /\ b = onNewLine' /\ b = FALSE
  BY DEF StaysOnLine
<1>5. q \in (pos + 1)..End /\ q \in pos..End /\ q \in Nat /\ \A k \in pos..(q - 1) : src[k] # "nl"
  <2>1. q \in (pos + 1)..End /\ \A k \in pos..(q - 1) : src[k] # "nl"
    BY <1>4 DEF StaysOnLine
  <2>2. q \in pos..End /\ q \in Nat
    BY <1>0, <2>1
  <2> QED BY <2>1, <2>2
<1>6. \A m \in Lines : ~(pos < m /\ m < q)
  <2> SUFFICES ASSUME NEW m \in Lines, pos < m, m < q PROVE FALSE
    OBVIOUS
  <2>1. m \in Nat /\ (m = 1 \/ src[m - 1] = "nl")
    BY <1>0, LinesInText
  <2>2. m # 1 /\ m - 1 \in pos..(q - 1)
    BY <1>0, <1>5, <2>1
  <2> QED BY <1>5, <2>1, <2>2
<1>7. /\ OpenLevels(q) = ({l \in OpenLevels(pos) : IsPrefix(l, Leading(pos))} \cup {Leading(pos)}) \ {<<>>}
      /\ Leading(q) = Leading(pos)
  BY <1>0, <1>5, <1>6, OpenStep, LineKept
<1>8. q > 1 /\ src[q - 1] # "nl"
  <2>1. q - 1 \in pos..(q - 1) /\ q > 1
    BY <1>0, <1>5
  <2> QED BY <1>5, <2>1
<1>10. {F[i] : i \in 1..Len(ids)} = OpenLevels(q) /\ F[Len(ids)] = Leading(q)
  BY <1>7
<1>11. b \in BOOLEAN
  BY <1>4
<1>12. /\ \/ {F[i] : i \in 1..Len(ids)} = OpenLevels(q) /\ (~b => F[Len(ids)] = Leading(q))
          \/ b /\ ids = <<>> /\ q < End /\ src[q] \in Chars \ Space
       /\ ~b => q > 1 /\ src[q - 1] # "nl"
  BY <1>8, <1>10
<1>13. /\ F \in [0..Len(ids) -> Seq(Chars)] /\ F[0] = <<>>
       /\ \A i \in 1..Len(ids) : F[i] = F[i - 1] \o Text(ids[i])
  OBVIOUS
<1>14. src' = src /\ ids = indents' /\ q = pos' /\ b = onNewLine'
  BY <1>0, <1>4
<1> QED BY <1>11, <1>12, <1>13, <1>14, LevelsNext

\* An open level is whitespace of the text.
LEMMA OpenAreSeqs ==
  ASSUME src \in Seq(Chars), NEW p, NEW l \in OpenLevels(p)
  PROVE  l \in Seq(Chars) /\ l # <<>>
<1>1. PICK k \in Lines : l = Leading(k) /\ l # <<>>
  BY DEF OpenLevels
<1>2. k \in 1..End
  BY LinesInText
<1> QED BY <1>1, <1>2, LeadingIsSeq

\* Only the empty sequence is a prefix of the empty one.
LEMMA OnlyEmptyInEmpty ==
  ASSUME NEW S, NEW l \in Seq(S), IsPrefix(l, <<>>)
  PROVE  l = <<>>
<1>1. Len(l) \in Nat /\ Len(l) <= 0
  BY LenProperties DEF IsPrefix
<1> QED BY <1>1, EmptySeq

\* The line at the remainder, when nothing of it was read.
LEMMA LineAtRemainder ==
  ASSUME IInv, onNewLine, pos < End, src[pos] # "nl"
  PROVE  /\ pos \in Lines /\ (pos = 1 \/ src[pos - 1] = "nl")
         /\ src[pos] \notin Blank => Leading(pos) = <<>>
<1>0. src \in Seq(Chars) /\ pos \in 1..End /\ End \in Nat /\ pos \in Nat /\ (pos = 1 \/ src[pos - 1] = "nl")
      /\ End = Len(src) + 1 /\ Len(src) \in Nat
  BY LenProperties DEF IInv, TypeOK, KnowsLineStarts, End
<1>1. pos \in LineStarts
  <2>1. CASE pos = 1
    BY <2>1 DEF LineStarts
  <2>2. CASE pos # 1
    <3>1. pos \in 2..Len(src)
      BY <1>0, <2>2
    <3> QED BY <1>0, <2>2, <3>1 DEF LineStarts
  <2> QED BY <2>1, <2>2
<1>2. ASSUME src[pos] \notin Blank PROVE Leading(pos) = <<>>
  <2> DEFINE to == SkipWhile(pos, Blank)
  <2>1. to \in pos..End /\ \A k \in pos..(to - 1) : src[k] \in Blank
    BY <1>0, SkipWhileStops
  <2>2. to = pos => Leading(pos) = <<>>
    BY <1>0, LeadingOfLine
  <2> HIDE DEF to
  <2>3. to = pos
    <3> SUFFICES ASSUME to # pos PROVE FALSE
      OBVIOUS
    <3>1. pos \in pos..(to - 1)
      BY <1>0, <2>1
    <3> QED BY <1>2, <2>1, <3>1
  <2> QED BY <2>2, <2>3
<1> QED BY <1>0, <1>1, <1>2 DEF Lines

\* Levels that stay are not empty.
LEMMA IndentsPlain ==
  ASSUME LevelsHeld, UNCHANGED indents
  PROVE  NoneEmpty'
BY DEF LevelsHeld, NoneEmpty

\* What a well indented text is.
LEMMA QuotesOut ==
  ASSUME WellIndented
  PROVE  NoQuotes /\ NoBlankLine /\ WellIndentedLines
BY DEF WellIndented, NoQuotes, ToSet

\* A newline closes nothing.
LEMMA NewlineLevels ==
  ASSUME IInv, LevelsHeld, Newline
  PROVE  LevelsHeld'
<1> DEFINE to == SkipWhile(pos, {"nl"})
<1>0. src \in Seq(Chars) /\ pos \in 1..End /\ End \in Nat /\ pos \in Nat /\ onNewLine \in BOOLEAN
  BY DEF IInv, TypeOK, End
<1>1. /\ pos < End /\ src[pos] = "nl" /\ pos' = to /\ onNewLine' = TRUE
      /\ src' = src /\ indents' = indents
  BY DEF Newline, At
<1>2. to \in pos..End /\ \A k \in pos..(to - 1) : src[k] = "nl"
  BY <1>0, SkipWhileStops
<1>3. NoneEmpty'
  BY <1>1, IndentsPlain
<1>4. CASE ~WellIndented
  BY <1>1, <1>3, <1>4, LevelsVacuous
<1>5. CASE WellIndented
  <2>1. PICK F : Spells(F) /\ {F[i] : i \in 1..Len(indents)} = OpenLevels(pos)
    BY <1>1, <1>5 DEF LevelsHeld, At, Space
  <2>2. PICK ids, q, b : b \in BOOLEAN /\ ids = indents' /\ q = pos' /\ b = onNewLine' /\ b
    BY <1>1
  <2>3. q \in pos..End /\ q \in Nat /\ \A k \in pos..(q - 1) : src[k] = "nl"
    <3>1. q = to
      BY <1>1, <2>2
    <3> HIDE DEF to
    <3> QED BY <1>0, <1>2, <3>1
  <2>4. \A m \in Lines : ~(pos <= m /\ m < q)
    <3> SUFFICES ASSUME NEW m \in Lines, pos <= m, m < q PROVE FALSE
      OBVIOUS
    <3>1. m \in Nat /\ src[m] # "nl"
      BY <1>0, LinesInText
    <3>2. m \in pos..(q - 1)
      BY <1>0, <2>3, <3>1
    <3> QED BY <2>3, <3>1, <3>2
  <2>5. OpenLevels(q) = OpenLevels(pos)
    BY <1>0, <2>3, <2>4, OpenStays
  <2>6. /\ F \in [0..Len(ids) -> Seq(Chars)] /\ F[0] = <<>>
        /\ \A i \in 1..Len(ids) : F[i] = F[i - 1] \o Text(ids[i])
    BY <1>1, <2>1, <2>2 DEF Spells
  <2>7. {F[i] : i \in 1..Len(ids)} = OpenLevels(q)
    BY <1>1, <2>1, <2>2, <2>5
  <2> HIDE DEF to
  <2> QED BY <1>1, <1>3, <1>5, <2>2, <2>6, <2>7, LevelsNext
<1> QED BY <1>4, <1>5

\* A line without whitespace closes every level.
LEMMA ClearIndentsLevels ==
  ASSUME IInv, LevelsHeld, ClearIndents
  PROVE  LevelsHeld'
<1>0. src \in Seq(Chars) /\ pos \in 1..End /\ End = Len(src) + 1 /\ Len(src) \in Nat /\ onNewLine \in BOOLEAN
  BY LenProperties DEF IInv, TypeOK, End
<1>1. /\ indents' = <<>> /\ pos' = pos /\ onNewLine' = onNewLine /\ src' = src /\ onNewLine
      /\ pos < End /\ src[pos] \notin Space
  BY DEF ClearIndents, AllClosed, Checking, At
<1>2. NoneEmpty'
  BY <1>1 DEF NoneEmpty
<1>3. CASE ~WellIndented
  BY <1>1, <1>2, <1>3, LevelsVacuous
<1>4. CASE WellIndented
  <2> DEFINE F == [i \in {0} |-> <<>>]
  <2>1. PICK ids, q, b : b \in BOOLEAN /\ ids = indents' /\ q = pos' /\ b = onNewLine' /\ b /\ ids = <<>>
    BY <1>0, <1>1
  <2>2. 0..Len(ids) = {0} /\ 1..Len(ids) = {}
    BY <2>1
  <2>3. F \in [0..Len(ids) -> Seq(Chars)] /\ F[0] = <<>>
    BY <2>2
  <2>4. \A i \in 1..Len(ids) : F[i] = F[i - 1] \o Text(ids[i])
    BY <2>2
  <2>5. src[pos] \in Chars
    <3>1. pos \in 1..Len(src)
      BY <1>0, <1>1
    <3> QED BY <1>0, <3>1, ElementOfSeq
  <2>6. q < End /\ src[q] \in Chars \ Space
    BY <1>1, <2>1, <2>5
  <2> HIDE DEF F
  <2> QED BY <1>1, <1>2, <1>4, <2>1, <2>3, <2>4, <2>6, LevelsNext
<1> QED BY <1>3, <1>4

\* Space within a line.
LEMMA SpacesLevels ==
  ASSUME IInv, LevelsHeld, Spaces
  PROVE  LevelsHeld'
<1> DEFINE to == SkipWhile(pos, Space \ {"nl"})
<1>0. /\ At(Space \ {"nl"}) /\ ~onNewLine /\ UNCHANGED indents /\ pos' = to /\ onNewLine' = FALSE /\ src' = src
  BY DEF Spaces, Emit
<1>1. to \in (pos + 1)..End /\ \A k \in pos..(to - 1) : src[k] # "nl"
  BY <1>0, Blanks
<1>2. StaysOnLine(pos)
  BY <1>0, <1>1 DEF StaysOnLine
<1>3. NoneEmpty'
  BY <1>0, IndentsPlain
<1> HIDE DEF to
<1>4. CASE ~WellIndented
  BY <1>0, <1>3, <1>4, LevelsVacuous
<1>5. CASE WellIndented
  BY <1>0, <1>2, <1>5, LineGoesOn
<1> QED BY <1>4, <1>5

\* The first level is the whitespace of its line.
LEMMA FirstIndentLevels ==
  ASSUME IInv, LevelsHeld, FirstIndent
  PROVE  LevelsHeld'
<1> DEFINE to == SkipWhile(pos, Space \ {"nl"})
           t == [from |-> pos, to |-> to]
<1>0. /\ At(Space \ {"nl"}) /\ onNewLine /\ indents = <<>> /\ indents' = <<t>>
      /\ pos' = to /\ onNewLine' = FALSE /\ src' = src
      /\ src \in Seq(Chars) /\ pos \in 1..End /\ End \in Nat /\ pos \in Nat
      /\ pos < End /\ src[pos] # "nl" /\ src[pos] \in Space
  BY DEF FirstIndent, Emit, IInv, TypeOK, End, At
<1>1. to \in (pos + 1)..End /\ \A k \in pos..(to - 1) : src[k] # "nl"
  BY <1>0, Blanks
<1>2. StaysOnLine(pos)
  BY <1>0, <1>1 DEF StaysOnLine
<1>a. t.from = pos /\ t.to = to
  OBVIOUS
<1> HIDE DEF t
<1>3. NoneEmpty'
  <2>1. \A i \in 1..Len(indents') : indents'[i] = t
    BY <1>0
  <2>2. t.from < t.to
    <3> HIDE DEF to
    <3> QED BY <1>0, <1>1, <1>a
  <2> QED BY <2>1, <2>2 DEF NoneEmpty
<1>4. CASE ~WellIndented
  BY <1>0, <1>3, <1>4, LevelsVacuous
<1>5. CASE WellIndented
  <2>1. pos \in Lines /\ (pos = 1 \/ src[pos - 1] = "nl")
    BY <1>0, LineAtRemainder
  <2>2. OpenLevels(pos) = {}
    <3>1. PICK F : {F[i] : i \in 1..Len(indents)} = OpenLevels(pos)
      BY <1>0, <1>5 DEF LevelsHeld, At
    <3>2. 1..Len(indents) = {}
      BY <1>0
    <3> QED BY <3>1, <3>2
  <2>3. PICK lead : lead = Leading(pos)
    OBVIOUS
  <2>4. lead \in Seq(Chars) /\ lead = Text(t) /\ lead # <<>>
    <3>1. to = SkipWhile(pos, Blank)
      BY DEF Blank
    <3> HIDE DEF to
    <3>2. lead = SubSeq(src, pos, to - 1) /\ lead \in Seq(Chars) /\ Len(lead) = to - pos
      BY <1>0, <2>1, <2>3, <3>1, LeadingOfLine
    <3>3. Len(lead) # 0
      BY <1>0, <1>1, <3>2
    <3> QED BY <1>a, <3>2, <3>3 DEF Text
  <2> DEFINE F == [i \in 0..1 |-> IF i = 0 THEN <<>> ELSE lead]
  <2>5. PICK ids : ids = indents' /\ ids = <<t>>
    BY <1>0
  <2>6. Len(ids) = 1 /\ ids[1] = t /\ 1..1 = {1}
    BY <2>5
  <2>7. F \in [0..Len(ids) -> Seq(Chars)] /\ F[0] = <<>> /\ F[1] = lead /\ F[Len(ids)] = lead
    BY <2>4, <2>6
  <2> HIDE DEF F
  <2>8. \A i \in 1..Len(ids) : F[i] = F[i - 1] \o Text(ids[i])
    <3>1. F[1] = F[0] \o Text(ids[1])
      BY <2>4, <2>6, <2>7, ConcatEmptySeq
    <3>2. 1 - 1 = 0
      OBVIOUS
    <3> QED BY <2>6, <3>1, <3>2
  <2>9. {F[i] : i \in 1..Len(ids)}
          = ({l \in OpenLevels(pos) : IsPrefix(l, Leading(pos))} \cup {Leading(pos)}) \ {<<>>}
    <3>1. {F[i] : i \in 1..Len(ids)} = {lead}
      BY <2>6, <2>7
    <3> QED BY <2>2, <2>3, <2>4, <3>1
  <2>10. F[Len(ids)] = Leading(pos)
    BY <2>3, <2>7
  <2> QED BY <1>2, <1>3, <1>5, <2>1, <2>5, <2>7, <2>8, <2>9, <2>10, LineBegins
<1> QED BY <1>4, <1>5

\* A token within a line, or at the start of one with no level open.
LEMMA PlainTokenLevels ==
  ASSUME IInv, LevelsHeld, PlainToken
  PROVE  LevelsHeld'
<1>0. /\ src \in Seq(Chars) /\ pos \in 1..Len(src) /\ Visible(pos, loc) /\ UNCHANGED indents
      /\ pos < End /\ src[pos] \notin Space /\ src[pos] # "nl" /\ src[pos] \notin Blank
      /\ ~onNewLine \/ indents = <<>>
  <2>1. /\ src \in Seq(Chars) /\ pos \in 1..End /\ Visible(pos, loc) /\ UNCHANGED indents
        /\ pos < End /\ src[pos] \notin Space
        /\ ~onNewLine \/ indents = <<>>
    BY DEF IInv, TypeOK, PlainToken, Checking, At
  <2>2. Len(src) \in Nat /\ End = Len(src) + 1
    BY <2>1, LenProperties DEF End
  <2> QED BY <2>1, <2>2 DEF Space, Blank
<1>1. src' = src
  <2>1. Fail("error") \/ \E kind \in Kinds \ Indentation, to \in pos..End, cols \in Int :
              Emit(kind, pos, to, loc, cols) /\ (PlainText => Wide(pos, to, cols))
    <3>1. loc \in Locations
      BY DEF IInv, TypeOK
    <3> QED BY <1>0, <3>1, VisibleEmits
  <2> QED BY <2>1 DEF Fail, Emit
<1>2. NoneEmpty'
  BY <1>0, IndentsPlain
<1>3. CASE ~WellIndented
  BY <1>1, <1>2, <1>3, LevelsVacuous
<1>4. CASE WellIndented
  <2>1. Fail("error") \/ StaysOnLine(pos)
    BY <1>0, <1>4, QuotesOut, VisibleStaysOnLine
  <2>2. CASE Fail("error")
    BY <1>0, <2>2, LevelsStay DEF Fail
  <2>3. CASE StaysOnLine(pos) /\ ~onNewLine
    BY <1>0, <1>4, <2>3, LineGoesOn
  <2>4. CASE StaysOnLine(pos) /\ onNewLine
    <3>1. pos \in Lines /\ Leading(pos) = <<>>
      BY <1>0, <2>4, LineAtRemainder
    <3> DEFINE F == [i \in {0} |-> <<>>]
    <3>2. PICK ids : ids = indents' /\ ids = <<>>
      BY <1>0, <2>4
    <3>3. 0..Len(ids) = {0} /\ 1..Len(ids) = {} /\ Len(ids) = 0
      BY <3>2
    <3>4. F \in [0..Len(ids) -> Seq(Chars)] /\ F[0] = <<>>
      BY <3>3
    <3>5. \A i \in 1..Len(ids) : F[i] = F[i - 1] \o Text(ids[i])
      BY <3>3
    <3>6. {l \in OpenLevels(pos) : IsPrefix(l, <<>>)} = {}
      BY <1>0, OpenAreSeqs, OnlyEmptyInEmpty
    <3> HIDE DEF F
    <3>7. {F[i] : i \in 1..Len(ids)}
            = ({l \in OpenLevels(pos) : IsPrefix(l, Leading(pos))} \cup {Leading(pos)}) \ {<<>>}
      BY <3>1, <3>3, <3>6
    <3>8. F[Len(ids)] = Leading(pos)
      BY <3>1, <3>3, <3>4
    <3> QED BY <1>2, <1>4, <2>4, <3>1, <3>2, <3>4, <3>5, <3>7, <3>8, LineBegins
  <2> QED BY <2>1, <2>2, <2>3, <2>4
<1> QED BY <1>3, <1>4

\* The levels that stay open, and the one that is opened.
LEMMA ChangedIndents ==
  ASSUME IInv, NEW to \in (pos + 1)..End, NEW levels \in 0..Len(indents), NEW from \in pos..to,
         ChangeIndentation(to, levels, from), NEW ids, ids = indents'
  PROVE  /\ from = to => Len(ids) = levels
         /\ from < to => Len(ids) = levels + 1 /\ ids[levels + 1] = [from |-> from, to |-> to]
         /\ \A i \in 1..levels : ids[i] = indents[i]
<1> DEFINE open == IF from < to THEN <<Token("INDENT", from, to, loc)>> ELSE <<>>
           opened == [k \in DOMAIN open |-> [from |-> from, to |-> to]]
           kept == SubSeq(indents, 1, levels)
           s == [from |-> from, to |-> to]
<1>0. /\ indents \in Seq(Slices) /\ Len(indents) \in Nat /\ levels \in Nat /\ levels <= Len(indents)
      /\ from \in Nat /\ to \in Nat /\ from <= to /\ from \in 1..End /\ to \in 1..End
  <2>1. indents \in Seq(Slices) /\ pos \in 1..End /\ End \in Nat /\ Len(indents) \in Nat
    BY LenProperties DEF IInv, TypeOK, End
  <2> QED BY <2>1
<1>1. ids = kept \o opened
  BY DEF ChangeIndentation, Kept
<1>2. kept \in Seq(Slices) /\ Len(kept) = levels /\ \A i \in 1..levels : kept[i] = indents[i]
  <2>1. \A i \in 1..levels : indents[i] \in Slices
    BY <1>0, ElementOfSeq
  <2>2. /\ kept \in Seq(Slices)
        /\ Len(kept) = IF 1 <= levels THEN levels - 1 + 1 ELSE 0
        /\ \A i \in 1..(levels - 1 + 1) : kept[i] = indents[1 + i - 1]
    BY <1>0, <2>1, SubSeqProperties
  <2> HIDE DEF kept
  <2>3. Len(kept) = levels
    BY <1>0, <2>2
  <2>4. ASSUME NEW i \in 1..levels PROVE kept[i] = indents[i]
    <3>1. i \in 1..(levels - 1 + 1) /\ 1 + i - 1 = i
      BY <1>0
    <3> QED BY <2>2, <3>1
  <2> QED BY <2>2, <2>3, <2>4
<1>3. s \in Slices
  BY <1>0 DEF Slices
<1> HIDE DEF s
<1>4. opened = IF from < to THEN <<s>> ELSE <<>>
  <2>1. CASE from < to
    <3>1. DOMAIN open = 1..1
      BY <2>1
    <3>2. opened = [k \in 1..1 |-> s]
      BY <3>1 DEF s
    <3> QED BY <2>1, <3>2
  <2>2. CASE ~(from < to)
    <3>1. DOMAIN open = 1..0
      BY <2>2
    <3>2. opened = [k \in 1..0 |-> s]
      BY <3>1 DEF s
    <3> QED BY <2>2, <3>2
  <2> QED BY <2>1, <2>2
<1> HIDE DEF opened, kept
<1>5. opened \in Seq(Slices) /\ Len(opened) = (IF from < to THEN 1 ELSE 0) /\ (from < to => opened[1] = s)
  BY <1>3, <1>4
<1>6. /\ Len(ids) = Len(kept) + Len(opened)
      /\ \A i \in 1..(Len(kept) + Len(opened)) : ids[i] = IF i <= Len(kept) THEN kept[i] ELSE opened[i - Len(kept)]
  BY <1>1, <1>2, <1>5, ConcatProperties
<1>7. ASSUME NEW i \in 1..levels PROVE ids[i] = indents[i]
  <2>1. i \in 1..(Len(kept) + Len(opened)) /\ i <= Len(kept)
    BY <1>0, <1>2, <1>5
  <2> QED BY <1>2, <1>6, <2>1
<1>8. ASSUME from = to PROVE Len(ids) = levels
  BY <1>0, <1>2, <1>5, <1>6, <1>8
<1>9. ASSUME from < to PROVE Len(ids) = levels + 1 /\ ids[levels + 1] = s
  <2>1. Len(ids) = levels + 1 /\ levels + 1 \in 1..(Len(kept) + Len(opened)) /\ ~(levels + 1 <= Len(kept))
        /\ levels + 1 - Len(kept) = 1
    BY <1>0, <1>2, <1>5, <1>6, <1>9
  <2> QED BY <1>5, <1>6, <1>9, <2>1
<1> QED BY <1>7, <1>8, <1>9 DEF s

\* No level that is kept or opened is empty.
LEMMA ChangedNoneEmpty ==
  ASSUME IInv, LevelsHeld, NEW to \in (pos + 1)..End, NEW levels \in 0..Len(indents), NEW from \in pos..to,
         ChangeIndentation(to, levels, from)
  PROVE  NoneEmpty'
<1>0. Len(indents) \in Nat /\ \A i \in 1..Len(indents) : indents[i].from < indents[i].to
  BY LenProperties DEF LevelsHeld, NoneEmpty, IInv, TypeOK
<1>1. PICK ids : ids = indents'
  OBVIOUS
<1>2. /\ from = to => Len(ids) = levels
      /\ from < to => Len(ids) = levels + 1 /\ ids[levels + 1] = [from |-> from, to |-> to]
      /\ \A i \in 1..levels : ids[i] = indents[i]
  BY <1>1, ChangedIndents
<1>3. levels \in Nat /\ levels <= Len(indents) /\ (from = to \/ from < to)
  <2>1. pos \in Nat /\ End \in Nat
    BY DEF IInv, TypeOK, End
  <2> QED BY <1>0, <2>1
<1>4. ASSUME NEW i \in 1..Len(ids) PROVE ids[i].from < ids[i].to
  <2>1. CASE i \in 1..levels
    <3>1. i \in 1..Len(indents) /\ ids[i] = indents[i]
      BY <1>0, <1>2, <1>3, <2>1
    <3> QED BY <1>0, <3>1
  <2>2. CASE i \notin 1..levels
    <3>1. from < to /\ i = levels + 1
      BY <1>2, <1>3, <2>2
    <3> QED BY <1>2, <3>1
  <2> QED BY <2>1, <2>2
<1> QED BY <1>1, <1>4 DEF NoneEmpty

\* A line that starts with whitespace below open levels goes back to one of
\* them or deepens all, and the comparison loop finds which.
LEMMA LineFollows ==
  ASSUME IInv, LevelsHeld, WellIndented, onNewLine, indents # <<>>, At(Blank),
         NEW to, to = SkipWhile(pos, Blank), NEW lead, lead = Leading(pos)
  PROVE  /\ pos \in Lines /\ to \in (pos + 1)..End /\ to < End /\ src[to] # "nl"
         /\ lead \in Seq(Chars) /\ Len(lead) = to - pos
         /\ lead = SubSeq(src, pos, to - 1) /\ lead # <<>>
         /\ \A k \in 1..(to - pos) : lead[k] = src[pos + k - 1]
         /\ \E F, i :
              /\ Spells(F) /\ {F[j] : j \in 1..Len(indents)} = OpenLevels(pos)
              /\ i \in 1..Len(indents) /\ IsPrefix(F[i], lead) /\ (F[i] = lead \/ i = Len(indents))
<1>0. /\ src \in Seq(Chars) /\ pos \in 1..End /\ End \in Nat /\ pos \in Nat /\ Len(indents) \in Nat
      /\ pos < End /\ src[pos] # "nl" /\ src[pos] \in Space /\ indents \in Seq(Slices)
  BY LenProperties DEF IInv, TypeOK, End, At, Blank
<1>1. pos \in Lines /\ (pos = 1 \/ src[pos - 1] = "nl")
  BY <1>0, LineAtRemainder
<1>2. to \in (pos + 1)..End
  BY Blanks DEF Blank
<1>3. /\ lead = SubSeq(src, pos, to - 1) /\ lead \in Seq(Chars) /\ Len(lead) = to - pos
      /\ \A k \in 1..(to - pos) : lead[k] = src[pos + k - 1]
  BY <1>0, <1>1, LeadingOfLine
<1>4. lead # <<>>
  <2>1. Len(lead) # 0
    BY <1>0, <1>2, <1>3
  <2> QED BY <2>1
<1>5. to < End /\ src[to] # "nl"
  <2>1. pos \in LineStarts /\ to > pos
    BY <1>0, <1>1, <1>2 DEF Lines
  <2> QED BY <2>1, QuotesOut DEF NoBlankLine, Blank
<1>6. PICK F : Spells(F) /\ {F[i] : i \in 1..Len(indents)} = OpenLevels(pos)
  BY <1>0 DEF LevelsHeld, At
<1>7. lead \in OpenLevels(pos) \/ \A l \in OpenLevels(pos) : IsStrictPrefix(l, lead)
  BY <1>1, <1>4, QuotesOut DEF WellIndentedLines
<1>8. \E i \in 1..Len(indents) : IsPrefix(F[i], lead) /\ (F[i] = lead \/ i = Len(indents))
  <2>1. CASE lead \in OpenLevels(pos)
    <3>1. PICK i \in 1..Len(indents) : F[i] = lead
      BY <1>6, <2>1
    <3>2. IsPrefix(lead, lead)
      BY <1>3, PrefixOfItself
    <3> QED BY <3>1, <3>2
  <2>2. CASE \A l \in OpenLevels(pos) : IsStrictPrefix(l, lead)
    <3>1. Len(indents) \in 1..Len(indents)
      <4>1. Len(indents) # 0
        BY <1>0, EmptySeq
      <4> QED BY <1>0, <4>1
    <3>2. F[Len(indents)] \in OpenLevels(pos)
      BY <1>6, <3>1
    <3> QED BY <2>2, <3>1, <3>2 DEF IsStrictPrefix
  <2> QED BY <1>7, <2>1, <2>2
<1> QED BY <1>1, <1>2, <1>3, <1>4, <1>5, <1>6, <1>8

\* Of the open levels, a line starts with the first i, and no others.
LEMMA LevelsOfLine ==
  ASSUME src \in Seq(Chars), indents \in Seq(Slices), NoneEmpty, NEW F, Spells(F),
         NEW lead \in Seq(Chars), NEW i \in 1..Len(indents), IsPrefix(F[i], lead),
         F[i] = lead \/ i = Len(indents)
  PROVE  /\ {l \in {F[j] : j \in 1..Len(indents)} : IsPrefix(l, lead)} = {F[j] : j \in 1..i}
         /\ \A j \in 1..i : F[j] # <<>>
<1> DEFINE L == Len(indents)
<1>0. L \in Nat /\ i \in Nat /\ i <= L
  BY LenProperties
<1>1. \A j \in 0..L : F[j] \in Seq(Chars) /\ Len(F[j]) \in Nat
  BY LenProperties DEF Spells
<1>2. ASSUME NEW j \in 1..i PROVE IsPrefix(F[j], lead) /\ F[j] # <<>>
  <2>1. j \in 0..i /\ i \in 0..L /\ j \in 0..L /\ 0 \in 0..j /\ 0 < j
    BY <1>0
  <2>2. IsPrefix(F[j], F[i]) /\ Len(F[0]) < Len(F[j])
    BY <2>1, SpellsChain
  <2>3. F[j] \in Seq(Chars) /\ F[i] \in Seq(Chars) /\ F[0] = <<>>
    BY <1>1, <2>1 DEF Spells
  <2> QED BY <2>2, <2>3, PrefixTrans
<1>3. ASSUME NEW j \in 1..L, j \notin 1..i PROVE ~IsPrefix(F[j], lead)
  <2>1. i < j /\ i \in 0..j /\ j \in 0..L /\ i \in 0..L /\ i # L
    BY <1>0, <1>3
  <2>2. Len(F[i]) < Len(F[j]) /\ Len(F[i]) \in Nat /\ Len(F[j]) \in Nat
    BY <1>1, <2>1, SpellsChain
  <2>3. F[i] = lead
    BY <2>1
  <2>4. ~(Len(F[j]) <= Len(lead))
    BY <2>2, <2>3
  <2> QED BY <2>4 DEF IsPrefix
<1>4. \A j \in 1..i : j \in 1..L
  BY <1>0
<1> QED BY <1>2, <1>3, <1>4

\* A prefix of a stretch of the text and what is left of it make the stretch.
LEMMA PrefixAndRest ==
  ASSUME src \in Seq(Chars), pos \in 1..End, NEW to \in (pos + 1)..End,
         NEW lead \in Seq(Chars), Len(lead) = to - pos,
         \A k \in 1..(to - pos) : lead[k] = src[pos + k - 1],
         NEW u \in Seq(Chars), IsPrefix(u, lead), NEW from, from = pos + Len(u)
  PROVE  lead = u \o Text([from |-> from, to |-> to])
<1> DEFINE s == [from |-> from, to |-> to]
           t == Text(s)
<1>0. /\ pos \in Nat /\ to \in Nat /\ pos >= 1 /\ Len(u) \in Nat /\ from \in Nat /\ pos < to /\ to <= End /\ End \in Nat
  BY LenProperties DEF End
<1>1. Len(u) <= to - pos /\ \A k \in 1..Len(u) : u[k] = lead[k]
  <2>1. Len(u) <= Len(lead) /\ \A k \in 1..Len(u) : u[k] = lead[k]
    BY PrefixPointwise
  <2> QED BY <2>1
<1>2. PICK x \in Nat, y \in Nat, m \in Nat, f \in Nat, e \in Nat : x = pos /\ y = to /\ m = Len(u) /\ f = from /\ e = End
  BY <1>0
<1>3. x < y /\ x >= 1 /\ m <= y - x /\ y <= e /\ f = x + m
  BY <1>0, <1>1, <1>2
<1>4. f \in 1..e /\ y \in 1..e /\ f <= y /\ m + (y - f) = y - x /\ y - f \in Nat
  BY <1>3
<1>5. s \in Slices /\ s.from = f /\ s.to = y
  BY <1>2, <1>4 DEF Slices
<1> HIDE DEF s
<1>6. t \in Seq(Chars) /\ Len(t) = y - f /\ \A k \in 1..(y - f) : t[k] = src[f + k - 1]
  BY <1>5, TextIsSeq
<1> HIDE DEF t
<1> DEFINE w == u \o t
<1>7. /\ w \in Seq(Chars) /\ Len(w) = y - x
      /\ \A k \in 1..(y - x) : w[k] = IF k <= m THEN u[k] ELSE t[k - m]
  <2>1. /\ w \in Seq(Chars) /\ Len(w) = Len(u) + Len(t)
        /\ \A k \in 1..(Len(u) + Len(t)) : w[k] = IF k <= Len(u) THEN u[k] ELSE t[k - Len(u)]
    BY <1>6, ConcatProperties
  <2> HIDE DEF w
  <2>2. Len(u) + Len(t) = y - x
    BY <1>2, <1>4, <1>6
  <2> QED BY <1>2, <2>1, <2>2
<1> HIDE DEF w
<1>8. \A k \in 1..(y - x) : lead[k] = src[x + k - 1]
  BY <1>2
<1>9. ASSUME NEW k \in 1..(y - x) PROVE w[k] = lead[k]
  <2>1. CASE k <= m
    <3>1. k \in 1..m
      BY <1>3, <2>1
    <3>2. w[k] = u[k] /\ k \in 1..Len(u)
      BY <1>2, <1>7, <2>1, <3>1
    <3> QED BY <1>1, <3>2
  <2>2. CASE ~(k <= m)
    <3>1. k - m \in 1..(y - f) /\ f + (k - m) - 1 = x + k - 1
      BY <1>3, <2>2
    <3>2. w[k] = t[k - m]
      BY <1>7, <2>2
    <3>3. t[k - m] = src[x + k - 1]
      BY <1>6, <3>1
    <3> QED BY <1>8, <3>2, <3>3
  <2> QED BY <2>1, <2>2
<1>10. Len(lead) = y - x
  BY <1>2
<1>11. lead = w
  BY <1>7, <1>9, <1>10, SeqEqual
<1> QED BY <1>11 DEF w, t, s

\* A line that goes back to a level closes those behind it, and one that deepens
\* all of them opens what is left of its whitespace.
LEMMA CheckIndentationLevels ==
  ASSUME IInv, LevelsHeld, CheckIndentation
  PROVE  LevelsHeld'
<1> DEFINE to    == SkipWhile(pos, Blank)
           match == Match(to)
           from  == NewLevel(match)
           at    == [loc EXCEPT !.col = @ + (to - pos)]
<1>0. /\ src \in Seq(Chars) /\ indents \in Seq(Slices) /\ End \in Nat /\ pos \in 1..End /\ Len(indents) \in Nat
      /\ Ready /\ Checking /\ At(Blank) /\ At(Space \ {"nl"}) /\ onNewLine /\ indents # <<>> /\ pos \in Nat
      /\ End = Len(src) + 1 /\ Len(src) \in Nat
  BY LenProperties DEF IInv, TypeOK, CheckIndentation, End, Checking, Blank
<1>b. to = SkipWhile(pos, Space \ {"nl"})
  BY DEF Blank
<1>1. to \in (pos + 1)..End /\ (\A k \in pos..(to - 1) : src[k] # "nl") /\ at \in Locations
  <2> HIDE DEF to
  <2> QED BY <1>0, <1>b, Blanks
<1>2. IF match.levels = Len(indents) /\ from = to
      THEN SameIndentation(to) /\ UNCHANGED indents
      ELSE ChangeIndentation(to, match.levels, from)
  BY DEF CheckIndentation, Blank
<1>3. match.levels \in 0..Len(indents) /\ from \in pos..to
  <2>1. to \in 1..End /\ pos \in 1..to
    <3> HIDE DEF to
    <3> QED BY <1>0, <1>1
  <2>2. match \in [levels : 0..Len(indents), rest : pos..to]
    BY <1>0, <2>1, MatchSolved
  <2> HIDE DEF match, to
  <2> QED BY <2>1, <2>2 DEF NewLevel
<1> HIDE DEF from, match, to, at
<1>4. src' = src
  <2>1. CASE match.levels = Len(indents) /\ from = to
    <3>1. SameIndentation(to)
      BY <1>2, <2>1
    <3>2. Fail("thrown") \/ (\E behind : Emit("SPACE", to, behind, at, behind - to)) \/ (to < End /\ Visible(to, at))
      BY <3>1 DEF SameIndentation, at
    <3>3. to < End /\ Visible(to, at) => src' = src
      <4> SUFFICES ASSUME to < End, Visible(to, at) PROVE src' = src
        OBVIOUS
      <4>1. to \in 1..Len(src)
        BY <1>0, <1>1
      <4>2. Fail("error") \/ \E kind \in Kinds \ Indentation, e \in to..End, cols \in Int :
                 Emit(kind, to, e, at, cols) /\ (PlainText => Wide(to, e, cols))
        BY <1>0, <1>1, <4>1, VisibleEmits
      <4> QED BY <4>2 DEF Fail, Emit
    <3> QED BY <3>2, <3>3 DEF Fail, Emit
  <2>2. CASE ~(match.levels = Len(indents) /\ from = to)
    BY <1>2, <2>2 DEF ChangeIndentation
  <2> QED BY <2>1, <2>2
<1>5. NoneEmpty'
  <2>1. CASE match.levels = Len(indents) /\ from = to
    BY <1>2, <2>1, IndentsPlain
  <2>2. CASE ~(match.levels = Len(indents) /\ from = to)
    <3>1. PICK levels \in 0..Len(indents) : levels = match.levels
      BY <1>3
    <3>2. ChangeIndentation(to, levels, from)
      BY <1>2, <2>2, <3>1
    <3> QED BY <1>1, <1>3, <3>2, ChangedNoneEmpty
  <2> QED BY <2>1, <2>2
<1>6. CASE ~WellIndented
  BY <1>4, <1>5, <1>6, LevelsVacuous
<1>7. CASE WellIndented
  <2>1. PICK lead : lead = Leading(pos)
    OBVIOUS
  <2>2. /\ pos \in Lines /\ to < End /\ src[to] # "nl"
        /\ lead \in Seq(Chars) /\ Len(lead) = to - pos /\ lead # <<>>
        /\ \A k \in 1..(to - pos) : lead[k] = src[pos + k - 1]
        /\ \E F, i :
              /\ Spells(F) /\ {F[j] : j \in 1..Len(indents)} = OpenLevels(pos)
              /\ i \in 1..Len(indents) /\ IsPrefix(F[i], lead) /\ (F[i] = lead \/ i = Len(indents))
    BY <1>0, <1>7, <2>1, LineFollows DEF to
  <2>3. PICK F, i :
              /\ Spells(F) /\ {F[j] : j \in 1..Len(indents)} = OpenLevels(pos)
              /\ i \in 1..Len(indents) /\ IsPrefix(F[i], lead) /\ (F[i] = lead \/ i = Len(indents))
    BY <2>2
  <2>4. NoneEmpty
    BY DEF LevelsHeld
  <2>5. match = [levels |-> i, rest |-> pos + Len(F[i])] /\ Len(F[i]) \in Nat /\ pos + Len(F[i]) \in pos..to
    BY <1>0, <1>1, <2>2, <2>3, <2>4, MatchFollows DEF match
  <2>6. match.levels = i /\ from = pos + Len(F[i]) /\ i \in Nat /\ i # 0
    <3>1. i \in Nat /\ i # 0
      BY <1>0, <2>3
    <3> QED BY <2>5, <3>1 DEF from, NewLevel
  <2>7. /\ {l \in OpenLevels(pos) : IsPrefix(l, lead)} = {F[j] : j \in 1..i}
        /\ \A j \in 1..i : F[j] # <<>>
    <3>1. /\ src \in Seq(Chars) /\ indents \in Seq(Slices) /\ NoneEmpty /\ Spells(F)
          /\ lead \in Seq(Chars) /\ i \in 1..Len(indents) /\ IsPrefix(F[i], lead)
          /\ F[i] = lead \/ i = Len(indents)
      BY <1>0, <2>2, <2>3, <2>4
    <3>2. /\ {l \in {F[j] : j \in 1..Len(indents)} : IsPrefix(l, lead)} = {F[j] : j \in 1..i}
          /\ \A j \in 1..i : F[j] # <<>>
      BY <3>1, LevelsOfLine
    <3>3. {F[j] : j \in 1..Len(indents)} = OpenLevels(pos)
      BY <2>3
    <3> QED BY <3>2, <3>3
  <2>8. /\ F \in [0..Len(indents) -> Seq(Chars)] /\ F[0] = <<>>
        /\ \A j \in 1..Len(indents) : F[j] = F[j - 1] \o Text(indents[j])
    BY <2>3 DEF Spells
  <2>9. \A j \in 0..i : j \in 0..Len(indents)
    BY <1>0, <2>3, <2>6
  <2>10. PICK ids : ids = indents'
    OBVIOUS
  <2>11. ~(match.levels = Len(indents) /\ from = to) => StaysOnLine(pos)
    <3>1. ~(match.levels = Len(indents) /\ from = to) => onNewLine' = FALSE /\ pos' = to
      BY <1>2 DEF ChangeIndentation
    <3> QED BY <1>1, <1>4, <3>1 DEF StaysOnLine
  \* the line goes back to level i, or stays on it
  <2>12. CASE F[i] = lead
    <3>1. from = to
      BY <1>0, <1>1, <2>2, <2>6, <2>12
    <3>2. CASE Fail("error") /\ UNCHANGED indents
      BY <3>2, LevelsStay DEF Fail
    <3>3. \/ Fail("error") /\ UNCHANGED indents
          \/ StaysOnLine(pos) /\ Len(ids) = i /\ \A j \in 1..i : ids[j] = indents[j]
      <4>1. CASE i = Len(indents)
        <5>1. SameIndentation(to) /\ UNCHANGED indents
          BY <1>2, <2>6, <3>1, <4>1
        <5>2. Visible(to, at)
          <6>1. to # End /\ ~(to < End /\ src[to] = "nl")
            <7> SUFFICES to # End /\ src[to] # "nl"
              OBVIOUS
            <7> QED BY <1>0, <1>1, <2>2
          <6>2. to < End /\ src[to] # "nl" /\ Visible(to, [loc EXCEPT !.col = @ + (to - pos)])
            BY <5>1, <6>1 DEF SameIndentation
          <6> QED BY <6>2 DEF at
        <5>3. to \in 1..Len(src)
          BY <1>0, <1>1, <2>2
        <5>4. Fail("error") \/ StaysOnLine(to)
          BY <1>0, <1>7, <5>2, <5>3, QuotesOut, VisibleStaysOnLine
        <5>5. StaysOnLine(to) => StaysOnLine(pos)
          <6> SUFFICES ASSUME StaysOnLine(to) PROVE StaysOnLine(pos)
            OBVIOUS
          <6>1. PICK q : q = pos'
            OBVIOUS
          <6>2. q \in (to + 1)..End /\ onNewLine' = FALSE /\ \A k \in to..(q - 1) : src[k] # "nl"
            BY <6>1 DEF StaysOnLine
          <6>3. to \in Nat /\ q \in (pos + 1)..End
            BY <1>0, <1>1, <6>2
          <6>4. ASSUME NEW k \in pos..(q - 1) PROVE src[k] # "nl"
            <7>1. k \in pos..(to - 1) \/ k \in to..(q - 1)
              BY <1>0, <6>3
            <7> QED BY <1>1, <6>2, <7>1
          <6> QED BY <1>4, <6>1, <6>2, <6>3, <6>4 DEF StaysOnLine
        <5> QED BY <2>10, <4>1, <5>1, <5>4, <5>5
      <4>2. CASE i # Len(indents)
        <5>1. ChangeIndentation(to, i, from)
          BY <1>2, <2>6, <4>2
        <5>2. i \in 0..Len(indents)
          BY <1>0, <2>3, <2>6
        <5>3. Len(ids) = i /\ \A j \in 1..i : ids[j] = indents[j]
          <6>1. from \in pos..to /\ to \in (pos + 1)..End
            BY <1>1, <1>3
          <6>2. /\ from = to => Len(ids) = i
                /\ from < to => Len(ids) = i + 1 /\ ids[i + 1] = [from |-> from, to |-> to]
                /\ \A j \in 1..i : ids[j] = indents[j]
            BY <2>10, <5>1, <5>2, <6>1, ChangedIndents
          <6> QED BY <3>1, <6>2
        <5> QED BY <2>6, <2>11, <4>2, <5>3
      <4> QED BY <4>1, <4>2
    <3>4. CASE StaysOnLine(pos) /\ Len(ids) = i /\ \A j \in 1..i : ids[j] = indents[j]
      <4> DEFINE G == [j \in 0..i |-> F[j]]
      <4>1. G \in [0..Len(ids) -> Seq(Chars)] /\ \A j \in 0..i : G[j] = F[j]
        BY <2>8, <2>9, <3>4
      <4> HIDE DEF G
      <4>2. 0 \in 0..i /\ i \in 0..i /\ \A j \in 1..i : j \in 0..i /\ j - 1 \in 0..i /\ j \in 1..Len(indents)
        BY <1>0, <2>3, <2>6
      <4>3. G[0] = <<>> /\ G[Len(ids)] = lead
        BY <2>8, <2>12, <3>4, <4>1, <4>2
      <4>4. \A j \in 1..Len(ids) : G[j] = G[j - 1] \o Text(ids[j])
        BY <2>8, <3>4, <4>1, <4>2
      <4>5. {G[j] : j \in 1..Len(ids)} = {F[j] : j \in 1..i}
        BY <3>4, <4>1, <4>2
      <4>6. {G[j] : j \in 1..Len(ids)}
              = ({l \in OpenLevels(pos) : IsPrefix(l, Leading(pos))} \cup {Leading(pos)}) \ {<<>>}
        <5>1. i \in 1..i
          BY <2>6
        <5>2. lead \in {F[j] : j \in 1..i}
          BY <2>12, <5>1
        <5>3. PICK S : S = {F[j] : j \in 1..i}
          OBVIOUS
        <5>4. <<>> \notin S /\ lead \in S
          BY <2>7, <5>2, <5>3
        <5>5. {l \in OpenLevels(pos) : IsPrefix(l, Leading(pos))} = S
          BY <2>1, <2>7, <5>3
        <5>6. S = (S \cup {lead}) \ {<<>>}
          BY <5>4
        <5>7. {G[j] : j \in 1..Len(ids)} = S
          BY <4>5, <5>3
        <5> QED BY <2>1, <5>5, <5>6, <5>7
      <4> QED BY <1>5, <1>7, <2>1, <2>2, <2>10, <3>4, <4>1, <4>3, <4>4, <4>6, LineBegins
    <3> QED BY <3>2, <3>3, <3>4
  \* the line deepens all levels
  <2>13. CASE F[i] # lead
    <3>1. i = Len(indents)
      BY <2>3, <2>13
    <3>2. i \in 0..i /\ i \in 1..i /\ F[i] \in Seq(Chars)
      <4>1. i \in 0..i /\ i \in 1..i
        BY <2>6
      <4> QED BY <2>8, <2>9, <4>1
    <3>3. from < to
      <4>1. Len(F[i]) # Len(lead)
        <5> SUFFICES ASSUME Len(F[i]) = Len(lead) PROVE FALSE
          OBVIOUS
        <5>1. \A k \in 1..Len(F[i]) : F[i][k] = lead[k]
          BY <2>2, <2>3, <3>2, PrefixPointwise
        <5>2. F[i] = lead
          BY <2>2, <3>2, <5>1, SeqEqual
        <5> QED BY <2>13, <5>2
      <4>2. PICK n \in Nat : n = Len(F[i])
        BY <2>5
      <4> QED BY <1>0, <1>1, <2>2, <2>5, <2>6, <4>1, <4>2
    <3>4. StaysOnLine(pos) /\ ChangeIndentation(to, i, from)
      <4>1. from # to
        BY <1>0, <1>1, <1>3, <3>3
      <4> QED BY <1>2, <2>6, <2>11, <4>1
    <3>5. i \in 0..Len(indents)
      BY <1>0, <2>3, <2>6
    <3>6. /\ Len(ids) = i + 1 /\ ids[i + 1] = [from |-> from, to |-> to]
          /\ \A j \in 1..i : ids[j] = indents[j]
      BY <1>1, <1>3, <2>10, <3>3, <3>4, <3>5, ChangedIndents
    <3>7. lead = F[i] \o Text(ids[i + 1])
      <4>1. PICK u \in Seq(Chars) : u = F[i]
        BY <3>2
      <4>2. IsPrefix(u, lead) /\ from = pos + Len(u)
        BY <2>3, <2>6, <4>1
      <4>3. lead = u \o Text([from |-> from, to |-> to])
        <5>1. /\ src \in Seq(Chars) /\ pos \in 1..End /\ to \in (pos + 1)..End
              /\ lead \in Seq(Chars) /\ Len(lead) = to - pos
              /\ \A k \in 1..(to - pos) : lead[k] = src[pos + k - 1]
          BY <1>0, <1>1, <2>2
        <5>2. PICK t, f : t = to /\ f = from
          OBVIOUS
        <5>3. /\ t \in (pos + 1)..End /\ Len(lead) = t - pos /\ f = pos + Len(u)
              /\ \A k \in 1..(t - pos) : lead[k] = src[pos + k - 1]
          BY <4>2, <5>1, <5>2
        <5>4. lead = u \o Text([from |-> f, to |-> t])
          BY <4>2, <5>1, <5>3, PrefixAndRest
        <5> QED BY <5>2, <5>4
      <4> QED BY <3>6, <4>1, <4>3
    <3> DEFINE G == [j \in 0..(i + 1) |-> IF j = i + 1 THEN lead ELSE F[j]]
    <3>8. \A j \in 0..(i + 1) : j = i + 1 \/ j \in 0..i
      BY <2>6
    <3>9. \A j \in 0..i : j # i + 1 /\ j \in 0..(i + 1)
      BY <2>6
    <3>10. i + 1 \in 0..(i + 1) /\ i + 1 \in 1..(i + 1) /\ i + 1 - 1 = i /\ 0 \in 0..i
      BY <2>6
    <3>11. G \in [0..Len(ids) -> Seq(Chars)] /\ G[i + 1] = lead /\ \A j \in 0..i : G[j] = F[j]
      BY <2>2, <2>8, <2>9, <3>6, <3>8, <3>9, <3>10
    <3> HIDE DEF G
    <3>12. G[0] = <<>> /\ G[Len(ids)] = lead
      BY <2>8, <3>6, <3>10, <3>11
    <3>13. \A j \in 1..i : j \in 0..i /\ j - 1 \in 0..i /\ j \in 1..Len(indents) /\ j \in 1..(i + 1)
      BY <1>0, <2>3, <2>6
    <3>14. \A j \in 1..(i + 1) : j = i + 1 \/ j \in 1..i
      BY <2>6
    <3>15. \A j \in 1..Len(ids) : G[j] = G[j - 1] \o Text(ids[j])
      <4> SUFFICES ASSUME NEW j \in 1..(i + 1) PROVE G[j] = G[j - 1] \o Text(ids[j])
        BY <3>6
      <4>1. CASE j = i + 1
        <5>1. G[j] = lead /\ j - 1 = i
          <6>1. j - 1 = i
            BY <2>6, <4>1
          <6> QED BY <3>11, <4>1, <6>1
        <5>2. G[j - 1] = F[i]
          BY <3>2, <3>11, <5>1
        <5>3. G[j - 1] \o Text(ids[j]) = F[i] \o Text(ids[i + 1])
          BY <4>1, <5>2
        <5> QED BY <3>7, <5>1, <5>3
      <4>2. CASE j \in 1..i
        BY <2>8, <3>6, <3>11, <3>13, <4>2
      <4> QED BY <3>14, <4>1, <4>2
    <3>16. {G[j] : j \in 1..Len(ids)} = {F[j] : j \in 1..i} \cup {lead}
      BY <3>6, <3>10, <3>11, <3>13, <3>14
    <3>17. {G[j] : j \in 1..Len(ids)}
              = ({l \in OpenLevels(pos) : IsPrefix(l, Leading(pos))} \cup {Leading(pos)}) \ {<<>>}
      BY <2>1, <2>2, <2>7, <3>16
    <3> QED BY <1>5, <1>7, <2>1, <2>2, <2>10, <3>4, <3>11, <3>12, <3>15, <3>17, LineBegins
  <2> QED BY <2>12, <2>13
<1> QED BY <1>6, <1>7

-----------------------------------------------------------------------------

\* No line, no level.
LEMMA LevelsInitially == Init => LevelsHeld
<1> SUFFICES ASSUME Init PROVE LevelsHeld
  OBVIOUS
<1>1. indents = <<>> /\ onNewLine = TRUE /\ pos = 1
  BY DEF Init
<1>2. src \in Seq(Chars)
  BY Initially DEF IInv, TypeOK
<1> DEFINE F == [i \in {0} |-> <<>>]
<1>3. 0..Len(indents) = {0} /\ 1..Len(indents) = {}
  BY <1>1
<1>4. Spells(F)
  BY <1>3 DEF Spells
<1>5. OpenLevels(pos) = {}
  <2>1. \A k \in Lines : ~(k < pos)
    BY <1>1, <1>2, LinesInText
  <2> QED BY <2>1 DEF OpenLevels
<1>6. NoneEmpty
  BY <1>3 DEF NoneEmpty
<1> HIDE DEF F
<1>7. {F[i] : i \in 1..Len(indents)} = OpenLevels(pos)
  BY <1>3, <1>5
<1> QED BY <1>1, <1>4, <1>6, <1>7 DEF LevelsHeld

\* Every call of lemniLex keeps the open levels.
LEMMA LevelsSteps == IInv /\ LevelsHeld /\ [Next]_vars => LevelsHeld'
<1> SUFFICES ASSUME IInv, LevelsHeld, [Next]_vars PROVE LevelsHeld'
  OBVIOUS
<1>1. CASE FromBacklog
  BY <1>1, LevelsStay DEF FromBacklog
<1>2. CASE AtEnd
  BY <1>2, LevelsStay DEF AtEnd
<1>3. CASE Newline
  BY <1>3, NewlineLevels
<1>4. CASE ClearIndents
  BY <1>4, ClearIndentsLevels
<1>5. CASE CheckIndentation
  BY <1>5, CheckIndentationLevels
<1>6. CASE FirstIndent
  BY <1>6, FirstIndentLevels
<1>7. CASE Spaces
  BY <1>7, SpacesLevels
<1>8. CASE PlainToken
  BY <1>8, PlainTokenLevels
<1>9. CASE UNCHANGED vars
  BY <1>9, LevelsStay DEF vars
<1> QED BY <1>1, <1>2, <1>3, <1>4, <1>5, <1>6, <1>7, <1>8, <1>9 DEF Next

\* While the lines of a text deepen the open levels, stay on one or go back to
\* one, the levels lemniLex holds are those whose whitespace every line since
\* has started with, and together they spell that of the line being read.
THEOREM LevelsAlwaysSpell == Spec => []LevelsSpellTheLine
<1>1. ASSUME IInv, LevelsHeld PROVE LevelsSpellTheLine
  <2> SUFFICES ASSUME WellIndented, ~onNewLine
               PROVE  FlattenSeq([i \in DOMAIN indents |-> Text(indents[i])]) = Leading(pos)
    BY DEF LevelsSpellTheLine
  <2>1. PICK F : Spells(F) /\ F[Len(indents)] = Leading(pos)
    BY <1>1 DEF LevelsHeld
  <2> QED BY <1>1, <2>1, FlattenIs DEF IInv, TypeOK
<1>2. Spec => []LevelsHeld
  BY LevelsInitially, LevelsSteps, LexerInvariant, PTL DEF Spec
<1> QED BY <1>1, <1>2, LexerInvariant, PTL
=============================================================================
