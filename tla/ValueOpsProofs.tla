--------------------------- MODULE ValueOpsProofs ---------------------------
(***************************************************************************)
(* What the rules of types and the operators on values keep, whatever the  *)
(* types of a block, the operands of an expression and their number.       *)
(***************************************************************************)
EXTENDS ValueOps, FiniteSetTheorems, TLAPS

-----------------------------------------------------------------------------
(* Powers of two, counted as the subsets of a set.                         *)

LEMMA FirstNumbers ==
  ASSUME NEW n \in Nat
  PROVE  IsFiniteSet(1..n) /\ Cardinality(1..n) = n
BY FS_Interval

LEMMA PowerPositive ==
  ASSUME NEW a \in Nat
  PROVE  2 ^ a \in Nat \ {0}
<1>1. IsFiniteSet(SUBSET (1..a)) /\ Cardinality(SUBSET (1..a)) = 2 ^ a
  BY FirstNumbers, FS_SUBSET
<1>2. SUBSET (1..a) # {}
  OBVIOUS
<1> QED BY <1>1, <1>2, FS_EmptySet, FS_CardinalityType

LEMMA PowerOfOne == 2 ^ 1 = 2
<1>1. ASSUME NEW x, NEW y, x # y
      PROVE  Cardinality({x, y}) = 2
  <2>1. IsFiniteSet({x}) /\ Cardinality({x}) = 1
    BY FS_Singleton
  <2>2. Cardinality({x} \cup {y}) = 2
    BY <1>1, <2>1, FS_AddElement
  <2>3. {x} \cup {y} = {x, y}
    OBVIOUS
  <2> QED BY <2>2, <2>3
<1>2. IsFiniteSet({0}) /\ Cardinality({0}) = 1
  BY FS_Singleton
<1>3. Cardinality(SUBSET {0}) = 2 ^ 1
  BY <1>2, FS_SUBSET
<1>4. SUBSET {0} = {{}, {0}} /\ {} # {0}
  OBVIOUS
<1> QED BY <1>1, <1>3, <1>4

LEMMA PowerOfSum ==
  ASSUME NEW a \in Nat, NEW b \in Nat
  PROVE  2 ^ (a + b) = 2 ^ a * 2 ^ b
<1> DEFINE A == 1..a
           B == (a + 1)..(a + b)
           C == A \cup B
           f == [T \in SUBSET C |-> <<T \cap A, T \cap B>>]
<1>1. IsFiniteSet(A) /\ Cardinality(A) = a
  BY FirstNumbers
<1>2. IsFiniteSet(B) /\ Cardinality(B) = b
  <2>1. a + 1 \in Int /\ a + b \in Int /\ ((a + 1 > a + b) <=> b = 0) /\ (a + b) - (a + 1) + 1 = b
    OBVIOUS
  <2> QED BY <2>1, FS_Interval
<1>3. A \cap B = {} /\ C = 1..(a + b)
  OBVIOUS
<1>4. IsFiniteSet(C) /\ Cardinality(C) = a + b
  <2>1. a + b \in Nat
    OBVIOUS
  <2> HIDE DEF C
  <2> QED BY <1>3, <2>1, FirstNumbers
<1> HIDE DEF A, B
<1>5. f \in Bijection(SUBSET C, (SUBSET A) \X (SUBSET B))
  <2>1. f \in [SUBSET C -> (SUBSET A) \X (SUBSET B)]
    OBVIOUS
  <2>2. ASSUME NEW S \in SUBSET C, NEW T \in SUBSET C, f[S] = f[T] PROVE S = T
    <3>1. S \cap A = T \cap A /\ S \cap B = T \cap B
      BY <2>2
    <3> QED BY <3>1
  <2>3. ASSUME NEW p \in (SUBSET A) \X (SUBSET B) PROVE \E T \in SUBSET C : f[T] = p
    <3>1. PICK S \in SUBSET A, T \in SUBSET B : p = <<S, T>>
      OBVIOUS
    <3>2. S \cup T \in SUBSET C /\ (S \cup T) \cap A = S /\ (S \cup T) \cap B = T
      BY <1>3
    <3>3. f[S \cup T] = p
      BY <3>1, <3>2
    <3> QED BY <3>2, <3>3
  <2> QED BY <2>1, <2>2, <2>3 DEF Bijection, Injection, Surjection, IsInjective
<1>6. IsFiniteSet(SUBSET C) /\ Cardinality(SUBSET C) = 2 ^ (a + b)
  BY <1>4, FS_SUBSET
<1>7. /\ IsFiniteSet(SUBSET A) /\ Cardinality(SUBSET A) = 2 ^ a
      /\ IsFiniteSet(SUBSET B) /\ Cardinality(SUBSET B) = 2 ^ b
  BY <1>1, <1>2, FS_SUBSET
<1>8. Cardinality((SUBSET A) \X (SUBSET B)) = 2 ^ a * 2 ^ b
  BY <1>7, FS_Product
<1>9. Cardinality(SUBSET C) = Cardinality((SUBSET A) \X (SUBSET B))
  BY <1>5, <1>6, FS_Bijection DEF ExistsBijection
<1> QED BY <1>6, <1>8, <1>9

\* The next power is twice as large.
LEMMA PowerDoubles ==
  ASSUME NEW a \in Nat \ {0}
  PROVE  2 ^ a = 2 * 2 ^ (a - 1) /\ 2 ^ (a - 1) \in Nat \ {0}
<1>1. a - 1 \in Nat /\ 1 \in Nat /\ 1 + (a - 1) = a
  OBVIOUS
<1>2. 2 ^ (1 + (a - 1)) = 2 ^ 1 * 2 ^ (a - 1)
  BY <1>1, PowerOfSum
<1> QED BY <1>1, <1>2, PowerOfOne, PowerPositive

LEMMA PowersGrow ==
  ASSUME NEW a \in Nat, NEW b \in Nat, a <= b
  PROVE  2 ^ a <= 2 ^ b
<1>1. b - a \in Nat /\ a + (b - a) = b
  OBVIOUS
<1>2. 2 ^ (a + (b - a)) = 2 ^ a * 2 ^ (b - a)
  BY <1>1, PowerOfSum
<1>3. 2 ^ a \in Nat \ {0} /\ 2 ^ (b - a) \in Nat \ {0}
  BY <1>1, PowerPositive
<1>4. ASSUME NEW x \in Nat \ {0}, NEW y \in Nat \ {0} PROVE x <= x * y
  BY <1>4
<1> QED BY <1>1, <1>2, <1>3, <1>4

-----------------------------------------------------------------------------
(* Numbers kept in so many bits.                                           *)

LEMMA ModFits ==
  ASSUME NEW m \in Nat \ {0}, NEW x \in Int
  PROVE  /\ x % m \in 0..(m - 1)
         /\ x \in 0..(m - 1) => x % m = x
         /\ x \in (-m)..(-1) => x % m = x + m
         /\ (x % m) % m = x % m
<1>1. x % m \in 0..(m - 1)
  OBVIOUS
<1>2. ASSUME NEW y \in 0..(m - 1) PROVE y % m = y
  OBVIOUS
<1>3. x \in (-m)..(-1) => x % m = x + m
  OBVIOUS
<1> QED BY <1>1, <1>2, <1>3


-----------------------------------------------------------------------------
(* The kinds in their order.                                               *)

LEMMA MaxIs ==
  ASSUME NEW S \in SUBSET Int, NEW m \in S, \A x \in S : x <= m
  PROVE  Max(S) = m
<1>1. \A n \in S : (\A x \in S : x <= n) => n = m
  OBVIOUS
<1> QED BY <1>1 DEF Max

LEMMA TowerRanks ==
  ASSUME NEW t
  PROVE  /\ t.kind \in ToSet(Tower) <=> t.kind \in {"nat", "int", "ratio", "real"}
         /\ t.kind = "nat" => Rank(Tower, t) = 1
         /\ t.kind = "int" => Rank(Tower, t) = 2
         /\ t.kind = "ratio" => Rank(Tower, t) = 3
         /\ t.kind = "real" => Rank(Tower, t) = 4
<1>1. /\ DOMAIN Tower = 1..4
      /\ Tower[1] = "nat" /\ Tower[2] = "int" /\ Tower[3] = "ratio" /\ Tower[4] = "real"
  BY DEF Tower
<1>2. 1..4 = {1, 2, 3, 4}
  OBVIOUS
<1> HIDE DEF Tower
<1>3. ToSet(Tower) = {"nat", "int", "ratio", "real"}
  BY <1>1, <1>2 DEF ToSet
<1> QED BY <1>1, <1>2, <1>3 DEF Rank

LEMMA TextRanks ==
  ASSUME NEW t
  PROVE  /\ IsText(t) <=> t.kind \in {"ascii", "utf8", "str"}
         /\ t.kind = "ascii" => Rank(Texts, t) = 1
         /\ t.kind = "utf8" => Rank(Texts, t) = 2
         /\ t.kind = "str" => Rank(Texts, t) = 3
<1>1. /\ DOMAIN Texts = 1..3
      /\ Texts[1] = "ascii" /\ Texts[2] = "utf8" /\ Texts[3] = "str"
  BY DEF Texts
<1>2. 1..3 = {1, 2, 3}
  OBVIOUS
<1> HIDE DEF Texts
<1> QED BY <1>1, <1>2 DEF Rank, IsText

-----------------------------------------------------------------------------
(* lemniTypePromote.                                                       *)

IsNumeric(t) == t.kind \in ToSet(Tower)
\* A ratio whose half has no bits is taken for one of arbitrary precision.
AnyBits(t) == t.bits = 0 \/ (t.kind = "ratio" /\ t.bits \div 2 = 0)
FloatWidth(t) == t.kind = "real" => t.bits \in {0, 32, 64}

\* The promotion of two numeric types has the higher kind of the two, and any
\* precision that one of them has, if there is one.
LEMMA PromotionJoins ==
  ASSUME NEW a, NEW b, IsNumeric(a), IsNumeric(b), Promote(a, b) # NULL
  PROVE  /\ Promote(a, b).kind = IF Rank(Tower, a) > Rank(Tower, b) THEN a.kind ELSE b.kind
         /\ AnyBits(a) \/ b.bits = 0 => AnyBits(Promote(a, b))
<1> DEFINE p == Promote(a, b)
<1>0. /\ a.kind \in {"nat", "int", "ratio", "real"} /\ b.kind \in {"nat", "int", "ratio", "real"}
      /\ p = PromoteRange(a, b) /\ p # NULL
  BY TowerRanks DEF IsNumeric, Promote, IsText, IsRange
<1> HIDE DEF p
<1>1. \A n : Nat_(n).kind = "nat" /\ Int_(n).kind = "int" /\ Ratio_(n).kind = "ratio" /\ Real_(n).kind = "real"
             /\ Nat_(n).bits = n /\ Int_(n).bits = n /\ Ratio_(n).bits = n /\ Real_(n).bits = n
  BY DEF Nat_, Int_, Ratio_, Real_, Sized
<1>2. 0 \div 2 = 0
  OBVIOUS
<1>3. \A real, bits : real.kind = "real" /\ FloatFor(real, bits) # NULL => FloatFor(real, bits).kind = "real"
  BY <1>1 DEF FloatFor
<1>4. CASE a.kind = "nat"
  <2>1. p = PromoteNat(a, b)
    BY <1>0, <1>4 DEF PromoteRange
  <2>2. p.kind = b.kind
    BY <1>0, <1>1, <1>3, <1>4, <2>1 DEF PromoteNat
  <2>3. a.bits = 0 \/ b.bits = 0 => p.bits = 0
    BY <1>0, <1>1, <1>4, <2>1 DEF PromoteNat
  <2> QED BY <1>0, <1>4, <2>2, <2>3, TowerRanks DEF AnyBits, p
<1>5. CASE a.kind = "int"
  <2>1. p = PromoteInt(a, b)
    BY <1>0, <1>5 DEF PromoteRange
  <2>2. p.kind = IF b.kind = "nat" THEN "int" ELSE b.kind
    BY <1>0, <1>1, <1>3, <1>5, <2>1 DEF PromoteInt
  <2>3. a.bits = 0 \/ b.bits = 0 => p.bits = 0
    BY <1>0, <1>1, <1>5, <2>1 DEF PromoteInt
  <2> QED BY <1>0, <1>5, <2>2, <2>3, TowerRanks DEF AnyBits, p
<1>6. CASE a.kind = "ratio"
  <2>1. p = PromoteRatio(a, b)
    BY <1>0, <1>6 DEF PromoteRange
  <2>2. p.kind = IF b.kind = "real" THEN "real" ELSE "ratio"
    BY <1>0, <1>1, <1>3, <1>6, <2>1 DEF PromoteRatio
  <2>3. AnyBits(a) \/ b.bits = 0 => AnyBits(p)
    <3>1. AnyBits(a) <=> a.bits \div 2 = 0
      BY <1>2, <1>6 DEF AnyBits
    <3> QED BY <1>0, <1>1, <1>2, <1>6, <2>1, <3>1 DEF PromoteRatio, AnyBits
  <2> QED BY <1>0, <1>6, <2>2, <2>3, TowerRanks DEF p
<1>7. CASE a.kind = "real"
  <2>1. p = PromoteReal(a, b)
    BY <1>0, <1>7 DEF PromoteRange
  <2>2. p.kind = "real"
    BY <1>0, <1>1, <1>3, <1>7, <2>1 DEF PromoteReal
  <2>3. a.bits = 0 \/ b.bits = 0 => p.bits = 0
    BY <1>0, <1>1, <1>7, <2>1 DEF PromoteReal
  <2> QED BY <1>0, <1>7, <2>2, <2>3, TowerRanks DEF AnyBits, p
<1> QED BY <1>0, <1>4, <1>5, <1>6, <1>7

\* nextPow2 leaves a power of two as it is.
LEMMA NextPow2Of ==
  ASSUME NEW k \in 0 .. 30
  PROVE  NextPow2(2 ^ k) = 2 ^ k
<1> DEFINE n == 2 ^ k
           S == {2 ^ i : i \in {j \in 0 .. 30 : 2 ^ j >= n}}
<1>1. n \in Nat \ {0} /\ n \in S
  BY PowerPositive
<1>2. \A p \in S : p \in Nat /\ n <= p
  BY PowerPositive, <1>1
<1>3. NextPow2(n) = Min(S)
  BY <1>1 DEF NextPow2
<1>4. Min(S) = n
  <2> HIDE DEF n, S
  <2>1. \A p \in S : (\A q \in S : p <= q) => p = n
    BY <1>1, <1>2
  <2> QED BY <1>1, <1>2, <2>1 DEF Min
<1> QED BY <1>3, <1>4

LEMMA FloatWidthsArePowers == NextPow2(32) = 32 /\ NextPow2(64) = 64
<1>1. 2 ^ 0 = 1 /\ 2 ^ 1 = 2
  BY PowerOfOne, PowerDoubles
<1>2. /\ 2 ^ 2 = 2 * 2 ^ (2 - 1) /\ 2 ^ 3 = 2 * 2 ^ (3 - 1) /\ 2 ^ 4 = 2 * 2 ^ (4 - 1)
      /\ 2 ^ 5 = 2 * 2 ^ (5 - 1) /\ 2 ^ 6 = 2 * 2 ^ (6 - 1)
  BY PowerDoubles
<1>3. 2 ^ 5 = 32 /\ 2 ^ 6 = 64
  BY <1>1, <1>2
<1> QED BY <1>3, NextPow2Of

\* Two numeric types, of float widths, promote to a type unless a ratio of known
\* size meets a real of known size from behind.
LEMMA PromotionDefined ==
  ASSUME NEW a, NEW b, IsNumeric(a), IsNumeric(b),
         FloatWidth(a), FloatWidth(b),
         ~(a.kind = "real" /\ a.bits # 0 /\ b.kind = "ratio" /\ b.bits # 0)
  PROVE  Promote(a, b) # NULL /\ FloatWidth(Promote(a, b))
<1> DEFINE p == Promote(a, b)
           Fine(t) == t # NULL /\ FloatWidth(t)
<1> SUFFICES Fine(p)
  OBVIOUS
<1>0. /\ a.kind \in {"nat", "int", "ratio", "real"} /\ b.kind \in {"nat", "int", "ratio", "real"}
      /\ p = PromoteRange(a, b)
  BY TowerRanks DEF IsNumeric, Promote, IsText, IsRange
<1> HIDE DEF p
<1>1. \A n : Fine(Nat_(n)) /\ Fine(Int_(n)) /\ Fine(Ratio_(n))
  BY DEF Nat_, Int_, Ratio_, Sized, NULL, Plain, FloatWidth
<1>2. Fine(Real_(0)) /\ Fine(Real_(32)) /\ Fine(Real_(64))
  BY DEF Real_, Sized, NULL, Plain, FloatWidth
<1>3. Fine(a) /\ Fine(b)
  BY <1>0 DEF NULL, Plain, Sized
<1>4. ASSUME NEW real, FloatWidth(real), real.kind = "real", real.bits # 0, real # NULL, NEW bits
      PROVE  Fine(FloatFor(real, bits))
  <2>1. CASE real.bits = 32
    BY <1>2, <1>4, <2>1, FloatWidthsArePowers DEF FloatFor
  <2>2. CASE real.bits = 64
    BY <1>2, <1>4, <2>2, FloatWidthsArePowers DEF FloatFor
  <2> QED BY <1>4, <2>1, <2>2 DEF FloatWidth
<1>5. CASE a.kind = "nat"
  <2>1. p = PromoteNat(a, b)
    BY <1>0, <1>5 DEF PromoteRange
  <2>2. CASE b.kind = "nat"
    <3>1. p \in {a, b}
      BY <2>1, <2>2 DEF PromoteNat
    <3> QED BY <1>3, <3>1
  <2>3. CASE b.kind = "int"
    <3>1. p \in {Int_(0), Int_(NextPow2(a.bits)), b}
      BY <2>1, <2>3 DEF PromoteNat
    <3> QED BY <1>1, <1>3, <3>1
  <2>4. CASE b.kind = "ratio"
    <3>1. p \in {Ratio_(0), Ratio_(NextPow2(b.bits)), b}
      BY <2>1, <2>4 DEF PromoteNat
    <3> QED BY <1>1, <1>3, <3>1
  <2>5. CASE b.kind = "real"
    <3>1. p \in {Real_(0), b} \/ (b.bits # 0 /\ p = FloatFor(b, a.bits))
      BY <2>1, <2>5 DEF PromoteNat
    <3> QED BY <1>2, <1>3, <1>4, <2>5, <3>1
  <2> QED BY <1>0, <2>2, <2>3, <2>4, <2>5
<1>6. CASE a.kind = "int"
  <2>1. p = PromoteInt(a, b)
    BY <1>0, <1>6 DEF PromoteRange
  <2>2. CASE b.kind = "nat"
    <3>1. p \in {a, Int_(0), Int_(NextPow2(b.bits))}
      BY <2>1, <2>2 DEF PromoteInt
    <3> QED BY <1>1, <1>3, <3>1
  <2>3. CASE b.kind = "int"
    <3>1. p \in {a, b}
      BY <2>1, <2>3 DEF PromoteInt
    <3> QED BY <1>3, <3>1
  <2>4. CASE b.kind = "ratio"
    <3>1. p \in {Ratio_(0), Ratio_(NextPow2(b.bits)), b}
      BY <2>1, <2>4 DEF PromoteInt
    <3> QED BY <1>1, <1>3, <3>1
  <2>5. CASE b.kind = "real"
    <3>1. p \in {Real_(0), b} \/ (b.bits # 0 /\ p = FloatFor(b, a.bits))
      BY <2>1, <2>5 DEF PromoteInt
    <3> QED BY <1>2, <1>3, <1>4, <2>5, <3>1
  <2> QED BY <1>0, <2>2, <2>3, <2>4, <2>5
<1>7. CASE a.kind = "ratio"
  <2> DEFINE half == a.bits \div 2
  <2>1. p = PromoteRatio(a, b)
    BY <1>0, <1>7 DEF PromoteRange
  <2>2. CASE b.kind = "real"
    <3>1. b.bits \in {0, 32, 64}
      BY <2>2 DEF FloatWidth
    <3>2. p \in {Real_(0), b} \/ (b.bits # 0 /\ p = FloatFor(b, half))
      BY <2>1, <2>2, <3>1 DEF PromoteRatio
    <3> QED BY <1>2, <1>3, <1>4, <2>2, <3>2
  <2>3. CASE b.kind = "nat"
    <3>1. p \in {a, Ratio_(0), Ratio_(NextPow2(half))}
      BY <2>1, <2>3 DEF PromoteRatio
    <3> QED BY <1>1, <1>3, <3>1
  <2>4. CASE b.kind = "int"
    <3>1. p \in {a, Ratio_(0), Ratio_(b.bits * 2)}
      BY <2>1, <2>4 DEF PromoteRatio
    <3> QED BY <1>1, <1>3, <3>1
  <2>5. CASE b.kind = "ratio"
    <3>1. p \in {a, b}
      BY <2>1, <2>5 DEF PromoteRatio
    <3> QED BY <1>3, <3>1
  <2> QED BY <1>0, <2>2, <2>3, <2>4, <2>5
<1>8. CASE a.kind = "real"
  <2>1. p = PromoteReal(a, b)
    BY <1>0, <1>8 DEF PromoteRange
  <2>2. CASE a.bits = 0 \/ b.bits = 0
    <3>1. p \in {a, Real_(0)}
      BY <2>1, <2>2 DEF PromoteReal
    <3> QED BY <1>2, <1>3, <3>1
  <2>3. CASE a.bits # 0 /\ b.bits # 0
    <3>1. b.kind \in {"nat", "int", "real"}
      BY <1>0, <1>8, <2>3
    <3>2. b.kind = "nat" => p = FloatFor(a, b.bits)
      BY <2>1, <2>3 DEF PromoteReal
    <3>3. b.kind = "int" => p = FloatFor(a, b.bits + 1)
      BY <2>1, <2>3 DEF PromoteReal
    <3>4. b.kind = "real" => p \in {a, b}
      BY <2>1, <2>3 DEF PromoteReal
    <3>5. Fine(FloatFor(a, b.bits)) /\ Fine(FloatFor(a, b.bits + 1))
      BY <1>3, <1>4, <1>8, <2>3
    <3> QED BY <1>3, <3>1, <3>2, <3>3, <3>4, <3>5
  <2> QED BY <2>2, <2>3
<1> QED BY <1>0, <1>5, <1>6, <1>7, <1>8

\* The promotion of two string types is the wider of them.
LEMMA TextPromotionJoins ==
  ASSUME NEW a, NEW b, IsText(a), IsText(b)
  PROVE  /\ IsText(Promote(a, b)) /\ Promote(a, b) # NULL
         /\ Promote(a, b).kind = IF Rank(Texts, a) > Rank(Texts, b) THEN a.kind ELSE b.kind
<1>1. a.kind \in {"ascii", "utf8", "str"} /\ b.kind \in {"ascii", "utf8", "str"}
  BY DEF IsText
<1>2. Promote(a, b) = PromoteText(a, b)
  BY <1>1 DEF Promote, IsText, IsRange
<1>3. /\ Promote(a, b).kind \in {a.kind, b.kind}
      /\ Promote(a, b).kind = IF Rank(Texts, a) > Rank(Texts, b) THEN a.kind ELSE b.kind
  BY <1>1, <1>2, TextRanks DEF PromoteText
<1> QED BY <1>1, <1>3 DEF IsText, NULL, Plain, Sized


-----------------------------------------------------------------------------
(* LemniBlockExprT::typecheck.                                             *)

\* The kind of the result is one of the kinds returned, and no kind returned
\* is higher.
Leads(order) ==
  /\ result.kind \in {t.kind : t \in Seen}
  /\ \A t \in Seen : Rank(order, t) <= Rank(order, result)

NumbersOnly == \A t \in Seen : IsNumeric(t)
StringsOnly == \A t \in Seen : IsText(t)

\* What is known of a result promoted from numbers only, or from strings only.
NumberJoin ==
  /\ IsNumeric(result) /\ Leads(Tower)
  /\ (\E t \in Seen : t.bits = 0) => AnyBits(result)
StringJoin == IsText(result) /\ Leads(Texts)

BlockInv ==
  /\ returns \in Seq(Types)
  /\ returns # <<>> =>
       /\ NumbersOnly /\ FloatWidths /\ ~RatioBehindReal =>
            result # NULL /\ ~fault /\ NumberJoin /\ FloatWidth(result)
       /\ StringsOnly => result # NULL /\ ~fault /\ StringJoin

LEMMA SeenAppended ==
  ASSUME returns \in Seq(Types), NEW t \in Types, returns' = Append(returns, t)
  PROVE  returns' \in Seq(Types) /\ returns' # <<>> /\ Seen' = Seen \cup {t}
<1>1. /\ returns' \in Seq(Types) /\ DOMAIN returns' = 1..(Len(returns) + 1)
      /\ DOMAIN returns = 1..Len(returns) /\ Len(returns) \in Nat
      /\ returns'[Len(returns) + 1] = t /\ \A i \in 1..Len(returns) : returns'[i] = returns[i]
  OBVIOUS
<1>2. Seen' = {returns'[i] : i \in DOMAIN returns'} /\ Seen = {returns[i] : i \in DOMAIN returns}
  BY DEF Seen, ToSet
<1>3. Len(returns) + 1 \in DOMAIN returns' /\ \A i \in DOMAIN returns' : i \in DOMAIN returns \/ i = Len(returns) + 1
  BY <1>1
<1> QED BY <1>1, <1>2, <1>3

\* A ratio that stood behind a real still does.
LEMMA BehindStays ==
  ASSUME returns \in Seq(Types), NEW t \in Types, returns' = Append(returns, t), RatioBehindReal
  PROVE  RatioBehindReal'
<1>1. /\ DOMAIN returns = 1..Len(returns) /\ DOMAIN returns' = 1..(Len(returns) + 1)
      /\ Len(returns) \in Nat /\ \A i \in 1..Len(returns) : returns'[i] = returns[i]
  OBVIOUS
<1>2. PICK i \in 1..Len(returns), j \in 1..Len(returns) :
        /\ i < j /\ returns[i].kind = "real" /\ returns[j].kind = "ratio"
        /\ \A k \in 1..j : returns[k].bits # 0
  BY <1>1 DEF RatioBehindReal
<1>3. /\ i \in DOMAIN returns' /\ j \in DOMAIN returns'
      /\ \A k \in 1..j : k \in 1..Len(returns)
  BY <1>1
<1>4. /\ returns'[i] = returns[i] /\ returns'[j] = returns[j]
      /\ \A k \in 1..j : returns'[k] = returns[k]
  BY <1>1, <1>3
<1> QED BY <1>2, <1>3, <1>4 DEF RatioBehindReal

\* A sized ratio comes behind what promoted to a sized real.
LEMMA BehindSizedReal ==
  ASSUME returns \in Seq(Types), NEW t \in Types, returns' = Append(returns, t),
         NumberJoin, result.kind = "real", result.bits # 0, t.kind = "ratio", t.bits # 0
  PROVE  RatioBehindReal'
<1> DEFINE j == Len(returns) + 1
<1>1. /\ DOMAIN returns = 1..Len(returns) /\ DOMAIN returns' = 1..j
      /\ Len(returns) \in Nat /\ returns'[j] = t
      /\ \A i \in 1..Len(returns) : returns'[i] = returns[i]
  OBVIOUS
<1>2. Seen = {returns[i] : i \in DOMAIN returns}
  BY DEF Seen, ToSet
<1>3. PICK i \in 1..Len(returns) : returns[i].kind = "real"
  BY <1>1, <1>2 DEF NumberJoin, Leads
<1>4. \A k \in 1..Len(returns) : returns[k].bits # 0
  BY <1>1, <1>2 DEF NumberJoin, AnyBits
<1>5. i \in DOMAIN returns' /\ j \in DOMAIN returns' /\ i < j
  BY <1>1
<1>6. \A k \in 1..j : k \in 1..Len(returns) \/ k = j
  BY <1>1
<1>7. \A k \in 1..j : returns'[k].bits # 0
  BY <1>1, <1>4, <1>6
<1>8. returns'[i].kind = "real" /\ returns'[j].kind = "ratio"
  BY <1>1, <1>3
<1> HIDE DEF j
<1> QED BY <1>5, <1>7, <1>8 DEF RatioBehindReal

LEMMA BlockInvHolds == BlockSpec => []BlockInv
<1>1. BlockInit => BlockInv
  BY DEF BlockInit, BlockInv
<1>2. BlockInv /\ [BlockNext]_blockVars => BlockInv'
  <2> SUFFICES ASSUME BlockInv, [BlockNext]_blockVars PROVE BlockInv'
    OBVIOUS
  <2>1. CASE UNCHANGED blockVars
    BY <2>1 DEF blockVars, BlockInv, NumbersOnly, StringsOnly, NumberJoin, StringJoin, FloatWidths, FloatWidth,
                RatioBehindReal, Leads, Seen, ToSet, Rank, IsNumeric, IsText, AnyBits
  <2>2. ASSUME NEW t \in Types, FirstReturn(t), ~fault PROVE BlockInv'
    <3>1. returns' = <<t>> /\ result' = t /\ ~fault'
      BY <2>2 DEF FirstReturn
    <3>2. Seen' = {t} /\ t # NULL
      BY <3>1, NullAssumption DEF Seen, ToSet
    <3>3. Rank(Tower, t) \in Nat \/ ~IsNumeric(t)
      BY TowerRanks DEF IsNumeric
    <3>4. Rank(Texts, t) \in Nat \/ ~IsText(t)
      BY TextRanks
    <3>5. NumbersOnly' /\ FloatWidths' => NumberJoin' /\ FloatWidth(result)'
      BY <3>1, <3>2, <3>3 DEF NumbersOnly, FloatWidths, NumberJoin, FloatWidth, Leads, Rank, IsNumeric, AnyBits
    <3>6. StringsOnly' => StringJoin'
      BY <3>1, <3>2, <3>4 DEF StringsOnly, StringJoin, Leads, Rank, IsText
    <3>7. returns' \in Seq(Types)
      BY <3>1
    <3> QED BY <3>1, <3>2, <3>5, <3>6, <3>7 DEF BlockInv
  <2>3. ASSUME NEW t \in Types, NextReturn(t), ~fault PROVE BlockInv'
    <3>1. returns' = Append(returns, t) /\ returns \in Seq(Types) /\ returns # <<>>
      BY <2>3 DEF NextReturn, BlockInv
    <3>2. returns' \in Seq(Types) /\ returns' # <<>> /\ Seen' = Seen \cup {t}
      BY <3>1, SeenAppended
    <3>3. result # NULL => result' = Promote(result, t) /\ ~fault'
      BY <2>3 DEF NextReturn
    <3>4. ASSUME NumbersOnly', FloatWidths', ~RatioBehindReal'
          PROVE  result' # NULL /\ ~fault' /\ NumberJoin' /\ FloatWidth(result)'
      <4>1. IsNumeric(t) /\ FloatWidth(t) /\ NumbersOnly /\ FloatWidths
        BY <3>2, <3>4 DEF NumbersOnly, FloatWidths, FloatWidth, IsNumeric
      <4>2. ~RatioBehindReal
        BY <3>1, <3>4, BehindStays
      <4>3. result # NULL /\ NumberJoin /\ FloatWidth(result)
        BY <3>1, <4>1, <4>2 DEF BlockInv
      <4>4. ~(result.kind = "real" /\ result.bits # 0 /\ t.kind = "ratio" /\ t.bits # 0)
        BY <3>1, <3>4, <4>3, BehindSizedReal
      <4>5. result' = Promote(result, t) /\ ~fault'
        BY <3>3, <4>3
      <4>6. IsNumeric(result) /\ Leads(Tower) /\ ((\E u \in Seen : u.bits = 0) => AnyBits(result))
        BY <4>3 DEF NumberJoin
      <4>7. Promote(result, t) # NULL /\ FloatWidth(Promote(result, t))
        BY <4>1, <4>3, <4>4, <4>6, PromotionDefined
      <4>8. /\ result'.kind = IF Rank(Tower, result) > Rank(Tower, t) THEN result.kind ELSE t.kind
            /\ AnyBits(result) \/ t.bits = 0 => AnyBits(result')
        BY <4>1, <4>5, <4>6, <4>7, PromotionJoins
      <4>9. IsNumeric(result')
        BY <4>1, <4>6, <4>8 DEF IsNumeric
      <4>10. \A u : IsNumeric(u) => Rank(Tower, u) \in 1..4
        BY TowerRanks DEF IsNumeric
      <4>11. \A u, v : u.kind = v.kind => Rank(Tower, u) = Rank(Tower, v)
        BY DEF Rank
      <4>12. Rank(Tower, result') >= Rank(Tower, result) /\ Rank(Tower, result') >= Rank(Tower, t)
        BY <4>1, <4>6, <4>8, <4>10, <4>11
      <4>13. Leads(Tower)'
        <5>1. result'.kind \in {u.kind : u \in Seen'}
          BY <3>2, <4>6, <4>8 DEF Leads
        <5>2. \A u \in Seen' : Rank(Tower, u) <= Rank(Tower, result')
          BY <3>2, <4>1, <4>6, <4>9, <4>10, <4>12 DEF Leads, NumbersOnly
        <5> QED BY <5>1, <5>2 DEF Leads, Rank
      <4>14. (\E u \in Seen' : u.bits = 0) => AnyBits(result')
        BY <3>2, <4>6, <4>8
      <4>15. NumberJoin' /\ FloatWidth(result)'
        BY <4>5, <4>7, <4>9, <4>13, <4>14 DEF NumberJoin, FloatWidth, IsNumeric, AnyBits
      <4> QED BY <4>5, <4>7, <4>15
    <3>5. ASSUME StringsOnly'
          PROVE  result' # NULL /\ ~fault' /\ StringJoin'
      <4>1. IsText(t) /\ StringsOnly
        BY <3>2, <3>5 DEF StringsOnly, IsText
      <4>2. result # NULL /\ IsText(result) /\ Leads(Texts)
        BY <3>1, <4>1 DEF BlockInv, StringJoin
      <4>3. result' = Promote(result, t) /\ ~fault'
        BY <3>3, <4>2
      <4>4. /\ result'.kind = IF Rank(Texts, result) > Rank(Texts, t) THEN result.kind ELSE t.kind
            /\ IsText(result') /\ result' # NULL
        BY <4>1, <4>2, <4>3, TextPromotionJoins
      <4>5. \A u : IsText(u) => Rank(Texts, u) \in 1..3
        BY TextRanks
      <4>6. \A u, v : u.kind = v.kind => Rank(Texts, u) = Rank(Texts, v)
        BY DEF Rank
      <4>7. Rank(Texts, result') >= Rank(Texts, result) /\ Rank(Texts, result') >= Rank(Texts, t)
        BY <4>1, <4>2, <4>4, <4>5, <4>6
      <4>8. result'.kind \in {u.kind : u \in Seen'}
        BY <3>2, <4>2, <4>4 DEF Leads
      <4>9. \A u \in Seen' : Rank(Texts, u) <= Rank(Texts, result')
        BY <3>2, <4>1, <4>2, <4>4, <4>5, <4>7 DEF Leads, StringsOnly
      <4>10. StringJoin'
        BY <4>4, <4>8, <4>9 DEF StringJoin, Leads, Rank, IsText
      <4> QED BY <4>3, <4>4, <4>10
    <3> QED BY <3>2, <3>4, <3>5 DEF BlockInv
  <2> QED BY <2>1, <2>2, <2>3 DEF BlockNext
<1> QED BY <1>1, <1>2, PTL DEF BlockSpec

\* The type of a block is of the highest kind of the numeric tower, or of the
\* string types, that the block returns, and of any precision if a returned
\* number is - unless promoteRatio halved it away.  Only a sized ratio returned
\* behind a sized real leaves the block without a type, which the real behind
\* the ratio does not.
THEOREM BlockTypes == BlockSpec => []BlockTypeIsJoin
<1>1. ASSUME BlockInv PROVE BlockTypeIsJoin
  <2>0. Seen # {} => returns # <<>>
    BY DEF Seen, ToSet
  <2>1. ASSUME NEW order, Leads(order), \A t \in Seen \cup {result} : Rank(order, t) \in Nat
        PROVE  Highest(order) = order[Rank(order, result)]
    <3> DEFINE S == {Rank(order, t) : t \in Seen}
    <3>1. Rank(order, result) \in S
      BY <2>1 DEF Leads, Rank
    <3>2. S \in SUBSET Int /\ \A x \in S : x <= Rank(order, result)
      BY <2>1 DEF Leads
    <3>3. Max(S) = Rank(order, result)
      <4> HIDE DEF S
      <4> QED BY <3>1, <3>2, MaxIs
    <3> QED BY <3>3 DEF Highest
  <2>2. ASSUME Seen # {}, NumbersOnly, FloatWidths, ~RatioBehindReal
        PROVE  /\ result # NULL /\ ~fault
               /\ result.kind = Highest(Tower)
               /\ (\E t \in Seen : t.bits = 0) => AnyBits(result)
    <3>1. /\ result # NULL /\ ~fault /\ IsNumeric(result) /\ Leads(Tower)
          /\ (\E t \in Seen : t.bits = 0) => AnyBits(result)
      BY <1>1, <2>0, <2>2 DEF BlockInv, NumberJoin
    <3>2. \A t \in Seen \cup {result} : Rank(Tower, t) \in Nat
      BY <2>2, <3>1, TowerRanks DEF IsNumeric, NumbersOnly
    <3>3. Highest(Tower) = Tower[Rank(Tower, result)]
      BY <2>1, <3>1, <3>2
    <3>4. Tower[Rank(Tower, result)] = result.kind
      BY <3>1, TowerRanks DEF IsNumeric, Tower
    <3> QED BY <3>1, <3>3, <3>4
  <2>3. ASSUME Seen # {}, StringsOnly
        PROVE  result # NULL /\ ~fault /\ result.kind = Highest(Texts)
    <3>1. result # NULL /\ ~fault /\ IsText(result) /\ Leads(Texts)
      BY <1>1, <2>0, <2>3 DEF BlockInv, StringJoin
    <3>2. \A t \in Seen \cup {result} : Rank(Texts, t) \in Nat
      BY <2>3, <3>1, TextRanks DEF StringsOnly
    <3>3. Highest(Texts) = Texts[Rank(Texts, result)]
      BY <2>1, <3>1, <3>2
    <3>4. Texts[Rank(Texts, result)] = result.kind
      BY <3>1, TextRanks DEF Texts
    <3> QED BY <3>1, <3>3, <3>4
  <2> QED BY <2>2, <2>3 DEF BlockTypeIsJoin, NumbersOnly, StringsOnly, IsNumeric, AnyBits
<1> QED BY <1>1, BlockInvHolds, PTL

-----------------------------------------------------------------------------
(* lemniTypeIsCastable.                                                    *)

\* A whole number of known size is castable only to types that hold it.
LEMMA WholeCasts ==
  ASSUME NEW a, NEW b, a.kind \in {"nat", "int"}, IsNumeric(b), a.bits \in Nat \ {0}, b.bits \in Nat,
         Roomy(a), Roomy(b), Castable(a, b)
  PROVE  HoldsWhole(b, a)
<1>0. b.kind \in {"nat", "int", "ratio", "real"}
  BY TowerRanks DEF IsNumeric
<1>1. Castable(a, b) = ScalarCastable(a, b)
  BY DEF Castable
<1>2. b.bits \div 2 \in Nat /\ b.bits \div 2 <= b.bits
  OBVIOUS
<1>3. b.kind = "real" => SameOrPseudo(a, b) = FALSE
  BY DEF SameOrPseudo
<1>4. CASE a.kind = "nat"
  <2>1. NatCastable(a, b) /\ WholeBits(a) = a.bits
    BY <1>1, <1>4 DEF ScalarCastable, WholeBits
  <2>2. CASE b.kind = "nat"
    BY <1>4, <2>1, <2>2 DEF NatCastable, HoldsWhole, WholeBits
  <2>3. CASE b.kind = "int"
    BY <1>4, <2>1, <2>3 DEF NatCastable, HoldsWhole, WholeBits, AtLeast0, Roomy
  <2>4. CASE b.kind = "ratio"
    <3>1. b.bits # 0 => b.bits \div 2 >= 2
      BY <2>4 DEF Roomy
    <3> QED BY <1>2, <1>4, <2>1, <2>4, <3>1 DEF NatCastable, HoldsWhole, WholeBits, AtLeast0
  <2>5. CASE b.kind = "real"
    BY <1>4, <2>1, <2>5 DEF NatCastable, HoldsWhole, WholeBits
  <2> QED BY <1>0, <2>2, <2>3, <2>4, <2>5
<1>5. CASE a.kind = "int"
  <2>1. IntCastable(a, b) /\ WholeBits(a) = a.bits - 1
    BY <1>1, <1>5 DEF ScalarCastable, WholeBits
  <2>2. CASE b.kind = "nat"
    BY <1>5, <2>1, <2>2 DEF IntCastable, SameOrPseudo
  <2>3. CASE b.kind = "int"
    BY <1>5, <2>1, <2>3 DEF IntCastable, HoldsWhole, WholeBits
  <2>4. CASE b.kind = "ratio"
    <3>1. b.bits # 0 => b.bits \div 2 >= 2
      BY <2>4 DEF Roomy
    <3> QED BY <1>2, <1>5, <2>1, <2>4, <3>1 DEF IntCastable, HoldsWhole, WholeBits
  <2>5. CASE b.kind = "real"
    BY <1>5, <2>1, <2>5 DEF IntCastable, HoldsWhole, WholeBits
  <2> QED BY <1>0, <2>2, <2>3, <2>4, <2>5
<1> QED BY <1>4, <1>5

\* Type.h:269, where the code keeps it, of all the types there are: a whole
\* number of known size is cast without loss to every numeric type it is
\* castable to.
THEOREM CastsLossless == BlockSpec => []SizedCastLossless
<1>1. ASSUME BlockInv PROVE SizedCastLossless
  <2> SUFFICES ASSUME NEW a \in Seen, NEW b \in Seen,
                      a.kind \in {"nat", "int"}, a.bits # 0, b.kind \in ToSet(Tower),
                      Roomy(a), Roomy(b), Castable(a, b)
               PROVE  HoldsWhole(b, a)
    BY DEF SizedCastLossless
  <2>1. a \in Types /\ b \in Types
    BY <1>1 DEF BlockInv, Seen, ToSet
  <2>2. a.kind \in ToSet(Tower)
    BY TowerRanks
  <2>3. a.bits \in Nat /\ b.bits \in Nat
    BY <2>1, <2>2, TypesAssumption
  <2> QED BY <2>3, WholeCasts DEF IsNumeric
<1> QED BY <1>1, BlockInvHolds, PTL


-----------------------------------------------------------------------------
(* Widths, and numbers that fit them.                                      *)

LEMMA WidthFacts ==
  /\ W16 \in Nat /\ W16 >= 2
  /\ W32 = 2 * W16 /\ W64 = 2 * W32 /\ W128 = 2 * W64
BY UnitAssumption DEF W16, W32, W64, W128

LEMMA AsUnsignedFits ==
  ASSUME NEW bits \in Nat, NEW n \in Int
  PROVE  /\ AsUnsigned(n, bits) \in 0 .. 2 ^ bits - 1
         /\ n \in 0 .. 2 ^ bits - 1 => AsUnsigned(n, bits) = n
         /\ AsUnsigned(n, bits) % 2 ^ bits = n % 2 ^ bits
<1> DEFINE m == 2 ^ bits
<1>1. m \in Nat \ {0}
  BY PowerPositive
<1>2. AsUnsigned(n, bits) = n % m
  BY DEF AsUnsigned
<1> HIDE DEF m
<1>3. /\ n % m \in 0..(m - 1)
      /\ n \in 0..(m - 1) => n % m = n
      /\ (n % m) % m = n % m
  BY <1>1, ModFits
<1> QED BY <1>2, <1>3 DEF m

LEMMA AsSignedFits ==
  ASSUME NEW bits \in Nat \ {0}, NEW n \in Int
  PROVE  /\ AsSigned(n, bits) \in -(2 ^ (bits - 1)) .. 2 ^ (bits - 1) - 1
         /\ n \in -(2 ^ (bits - 1)) .. 2 ^ (bits - 1) - 1 => AsSigned(n, bits) = n
<1> DEFINE m == 2 ^ bits
           h == 2 ^ (bits - 1)
           u == n % m
<1>1. m = 2 * h /\ h \in Nat \ {0} /\ m \in Nat \ {0}
  BY PowerDoubles, PowerPositive
<1>2. AsSigned(n, bits) = IF u >= h THEN u - m ELSE u
  BY DEF AsSigned, AsUnsigned
<1> HIDE DEF m, h
<1>3. /\ u \in 0..(m - 1)
      /\ n \in 0..(m - 1) => u = n
      /\ n \in (-m)..(-1) => u = n + m
  BY <1>1, ModFits
<1>4. n \in (-h)..(h - 1) => n \in 0..(m - 1) \/ n \in (-m)..(-1)
  BY <1>1
<1> HIDE DEF u
<1> QED BY <1>1, <1>2, <1>3, <1>4 DEF h

LEMMA MeaningIsInt ==
  ASSUME NEW op \in {"add", "sub", "mul"}, NEW a \in Int, NEW b \in Int
  PROVE  /\ Meaning(op, a, b) \in Int
         /\ a \in Nat /\ b \in Nat /\ op # "sub" => Meaning(op, a, b) \in Nat
BY DEF Meaning

LEMMA WiderIs ==
  ASSUME NEW l, NEW r, l.bits \in Nat, r.bits \in Nat
  PROVE  Wider(l, r) = IF l.bits >= r.bits THEN l.bits ELSE r.bits
<1> DEFINE S == {l.bits, r.bits}
           m == IF l.bits >= r.bits THEN l.bits ELSE r.bits
<1>1. S \in SUBSET Int /\ m \in S /\ \A x \in S : x <= m
  OBVIOUS
<1>2. Max(S) = m
  <2> HIDE DEF S, m
  <2> QED BY <1>1, MaxIs
<1> QED BY <1>2 DEF Wider

-----------------------------------------------------------------------------
(* Values that are well formed.                                            *)

LEMMA KindsOfValues ==
  ValueKinds = {"nat", "int", "ratio", "real", "bool", "ascii", "utf8", "str", "unit", "null", "crash"}
<1>1. \A t : t.kind \in ToSet(Tower) <=> t.kind \in {"nat", "int", "ratio", "real"}
  BY TowerRanks
<1>2. \A k : k \in ToSet(Tower) <=> k \in {"nat", "int", "ratio", "real"}
  <2> TAKE k
  <2>1. [kind |-> k].kind = k
    OBVIOUS
  <2> QED BY <1>1, <2>1
<1> QED BY <1>2 DEF ValueKinds

LEMMA ValueFields ==
  ASSUME NEW kind, NEW bits, NEW n
  PROVE  /\ Value(kind, bits, n).kind = kind /\ Value(kind, bits, n).bits = bits
         /\ Value(kind, bits, n).n = n
BY DEF Value

LEMMA NatFormed ==
  ASSUME NEW bits \in {0, W16, W32, W64}, NEW n \in Nat, bits # 0 => n <= 2 ^ bits - 1
  PROVE  WellFormed(Value("nat", bits, n))
<1>1. bits \in Nat
  BY WidthFacts
<1>2. n \in NumbersOf("nat", bits)
  <2>1. CASE bits = 0
    BY <2>1 DEF NumbersOf
  <2>2. CASE bits # 0
    BY <1>1, <2>2, PowerPositive DEF NumbersOf
  <2> QED BY <2>1, <2>2
<1> QED BY <1>1, <1>2, KindsOfValues DEF WellFormed, Value, Widths

LEMMA IntFormed ==
  ASSUME NEW bits \in {0, W16, W32, W64}, NEW n \in Int,
         bits # 0 => n \in -(2 ^ (bits - 1)) .. 2 ^ (bits - 1) - 1
  PROVE  WellFormed(Value("int", bits, n))
<1>1. bits \in Nat
  BY WidthFacts
<1>2. n \in NumbersOf("int", bits)
  BY DEF NumbersOf
<1> QED BY <1>1, <1>2, KindsOfValues DEF WellFormed, Value, Widths

LEMMA FractionFormed ==
  /\ \A bits \in {0, W32, W64, W128} : WellFormed(Value("ratio", bits, 0))
  /\ \A bits \in {0, W32, W64} : WellFormed(Value("real", bits, 0))
<1>1. {0, W32, W64, W128} \subseteq Nat
  BY WidthFacts
<1> QED BY <1>1, KindsOfValues DEF WellFormed, Value, Widths, NumbersOf

LEMMA PlainFormed ==
  /\ \A b : WellFormed(Truth(b)) /\ Truth(b).kind = "bool"
  /\ WellFormed(Nothing) /\ Nothing.kind = "null"
  /\ WellFormed(Crash) /\ Crash.kind = "crash"
BY KindsOfValues DEF WellFormed, Truth, Nothing, Crash, Value, Widths, NumbersOf

\* What a well-formed number is.
LEMMA FormedNat ==
  ASSUME NEW v, WellFormed(v), v.kind = "nat"
  PROVE  /\ v.bits \in {0, W16, W32, W64} /\ v.bits \in Nat /\ v.n \in Nat
         /\ v.bits # 0 => v.n <= 2 ^ v.bits - 1
<1>1. v.bits \in {0, W16, W32, W64} /\ v.bits \in Nat /\ v.n \in NumbersOf("nat", v.bits) /\ v.n \in Int
  BY DEF WellFormed, Widths
<1>2. CASE v.bits = 0
  BY <1>1, <1>2 DEF NumbersOf
<1>3. CASE v.bits # 0
  <2>1. v.n \in 0 .. 2 ^ v.bits - 1 /\ 2 ^ v.bits \in Nat
    BY <1>1, <1>3, PowerPositive DEF NumbersOf
  <2> QED BY <1>1, <2>1
<1> QED BY <1>2, <1>3

LEMMA FormedInt ==
  ASSUME NEW v, WellFormed(v), v.kind = "int"
  PROVE  v.bits \in {0, W16, W32, W64} /\ v.bits \in Nat /\ v.n \in Int
BY DEF WellFormed, Widths


-----------------------------------------------------------------------------
(* performOpNatNat: twice the wider width has room for every result.       *)

LEMMA Products ==
  ASSUME NEW p \in Nat, p >= 2, NEW x \in 0..(p - 1), NEW y \in 0..(p - 1)
  PROVE  /\ x + y \in 0..(p * p - 1) /\ x * y \in 0..(p * p - 1)
         /\ p * p >= 2 * p
<1>1. p * p >= 2 * p
  <2>1. (p - 2) * p >= 0 /\ (p - 2) * p = p * p - 2 * p
    OBVIOUS
  <2> QED BY <2>1
<1>2. x * y >= 0 /\ x * y <= p * p - 1
  <2>1. x * y >= 0
    OBVIOUS
  <2>2. x * y <= x * (p - 1)
    <3>1. x * (p - 1 - y) >= 0 /\ x * (p - 1 - y) = x * (p - 1) - x * y
      OBVIOUS
    <3> QED BY <3>1
  <2>3. x * (p - 1) <= (p - 1) * (p - 1)
    <3>1. (p - 1 - x) * (p - 1) >= 0 /\ (p - 1 - x) * (p - 1) = (p - 1) * (p - 1) - x * (p - 1)
      OBVIOUS
    <3> QED BY <3>1
  <2>4. (p - 1) * (p - 1) = p * p - 2 * p + 1
    OBVIOUS
  <2> QED BY <2>1, <2>2, <2>3, <2>4
<1>3. x + y \in 0..(2 * p - 2) /\ p * p \in Int /\ x * y \in Int
  OBVIOUS
<1> DEFINE q == p * p
           z == x * y
<1> HIDE DEF q, z
<1>4. q >= 2 * p /\ z >= 0 /\ z <= q - 1 /\ q \in Int /\ z \in Int
  BY <1>1, <1>2, <1>3 DEF q, z
<1>5. x + y \in 0..(q - 1) /\ z \in 0..(q - 1)
  BY <1>3, <1>4
<1> QED BY <1>4, <1>5 DEF q, z

LEMMA SizedNatNatExact ==
  ASSUME NEW l, NEW r, WellFormed(l), WellFormed(r), l.kind = "nat", r.kind = "nat",
         Narrow(l), Narrow(r), NEW op \in {"add", "sub", "mul"}
  PROVE  SizedNatNat(op, l, r).n = Meaning(op, l.n, r.n) /\ WellFormed(SizedNatNat(op, l, r))
<1> DEFINE w == Wider(l, r)
           p == 2 ^ w
<1>1. l.bits \in {W16, W32} /\ r.bits \in {W16, W32} /\ l.n \in Nat /\ r.n \in Nat
      /\ l.bits \in Nat /\ r.bits \in Nat /\ l.bits # 0 /\ r.bits # 0
  BY FormedNat, WidthFacts DEF Narrow
<1>2. w \in {W16, W32} /\ w >= l.bits /\ w >= r.bits
  BY <1>1, WiderIs
<1> HIDE DEF w
<1>3. w \in Nat \ {0} /\ 2 * w \in {0, W16, W32, W64} /\ 2 * w \in Nat \ {0} /\ w - 1 \in Nat /\ w + w = 2 * w
  BY <1>2, WidthFacts
<1>4. p \in Nat /\ p >= 2
  <2>1. p = 2 * 2 ^ (w - 1) /\ 2 ^ (w - 1) \in Nat \ {0}
    BY <1>3, PowerDoubles
  <2> HIDE DEF p
  <2> QED BY <2>1
<1>5. l.n \in 0..(p - 1) /\ r.n \in 0..(p - 1)
  <2>1. 2 ^ l.bits <= p /\ 2 ^ r.bits <= p /\ 2 ^ l.bits \in Nat /\ 2 ^ r.bits \in Nat
    BY <1>1, <1>2, <1>3, PowersGrow, PowerPositive
  <2>2. l.n <= 2 ^ l.bits - 1 /\ r.n <= 2 ^ r.bits - 1
    BY <1>1, FormedNat
  <2> HIDE DEF p
  <2> QED BY <1>1, <1>4, <2>1, <2>2
<1>6. 2 ^ (2 * w) = p * p
  BY <1>3, PowerOfSum
<1> DEFINE q == 2 ^ (2 * w)
           h == 2 ^ (2 * w - 1)
<1>7. q = 2 * h /\ h \in Nat \ {0}
  BY <1>3, PowerDoubles
<1>8. /\ l.n + r.n \in 0..(q - 1) /\ l.n * r.n \in 0..(q - 1)
      /\ q >= 2 * p
  <2> HIDE DEF p
  <2> QED BY <1>4, <1>5, <1>6, Products
<1>9. l.n - r.n \in -h .. h - 1
  <2> HIDE DEF p, q, h
  <2> QED BY <1>4, <1>5, <1>7, <1>8
<1>10. CASE op \in {"add", "mul"}
  <2> DEFINE n == Meaning(op, l.n, r.n)
  <2>1. n \in 0 .. 2 ^ (2 * w) - 1 /\ n \in Nat /\ n \in Int
    BY <1>1, <1>8, <1>10, MeaningIsInt DEF Meaning
  <2>2. SizedNatNat(op, l, r) = Value("nat", 2 * w, AsUnsigned(n, 2 * w))
    BY <1>10 DEF SizedNatNat, w
  <2> HIDE DEF n
  <2>3. AsUnsigned(n, 2 * w) = n
    BY <1>3, <2>1, AsUnsignedFits
  <2>4. n <= 2 ^ (2 * w) - 1
    BY <2>1, <1>3, PowerPositive
  <2>5. WellFormed(Value("nat", 2 * w, n))
    BY <1>3, <2>1, <2>4, NatFormed
  <2> QED BY <2>2, <2>3, <2>5, ValueFields DEF n
<1>11. CASE op = "sub"
  <2> DEFINE n == l.n - r.n
  <2>1. Meaning(op, l.n, r.n) = n /\ n \in Int
    BY <1>1, <1>11 DEF Meaning
  <2>2. SizedNatNat(op, l, r) = Value("int", 2 * w, AsSigned(n, 2 * w))
    BY <1>11 DEF SizedNatNat, w
  <2> HIDE DEF n
  <2>3. n \in -(2 ^ (2 * w - 1)) .. 2 ^ (2 * w - 1) - 1
    BY <1>9 DEF n
  <2>4. AsSigned(n, 2 * w) = n
    BY <1>3, <2>1, <2>3, AsSignedFits
  <2>5. WellFormed(Value("int", 2 * w, n))
    BY <1>3, <2>1, <2>3, IntFormed
  <2> QED BY <2>1, <2>2, <2>4, <2>5, ValueFields
<1> QED BY <1>10, <1>11

LEMMA NatNatFormed ==
  ASSUME NEW l, NEW r, WellFormed(l), WellFormed(r), l.kind = "nat", r.kind = "nat", NEW op
  PROVE  WellFormed(NatNat(op, l, r))
<1>1. CASE op \in Comparisons
  <2>1. NatNat(op, l, r) = Truth(Compared(op, l.n, r.n))
    BY <1>1 DEF NatNat, Comparisons, Arithmetic
  <2> QED BY <2>1, PlainFormed
<1>2. CASE op \notin Arithmetic \cup Comparisons
  <2>1. NatNat(op, l, r) = Nothing
    BY <1>2 DEF NatNat
  <2> QED BY <2>1, PlainFormed
<1>3. CASE op \in Arithmetic
  <2>0. op \in {"add", "sub", "mul", "div"} /\ op \notin Comparisons
    BY <1>3 DEF Arithmetic, Comparisons
  <2>1. CASE Narrow(l) /\ Narrow(r)
    <3>1. NatNat(op, l, r) = SizedNatNat(op, l, r)
      BY <1>3, <2>0, <2>1 DEF NatNat
    <3>2. CASE op = "div"
      <4>1. SizedNatNat(op, l, r) = Value("ratio", 2 * (2 * Wider(l, r)), 0)
        BY <3>2 DEF SizedNatNat
      <4>2. 2 * (2 * Wider(l, r)) \in {W64, W128}
        BY <2>1, FormedNat, WiderIs, WidthFacts DEF Narrow
      <4> QED BY <3>1, <4>1, <4>2, FractionFormed
    <3>3. CASE op # "div"
      BY <2>0, <2>1, <3>1, <3>3, SizedNatNatExact
    <3> QED BY <3>2, <3>3
  <2>2. CASE ~(Narrow(l) /\ Narrow(r))
    <3>1. NatNat(op, l, r) = WideNatNat(op, l, r)
      BY <1>3, <2>0, <2>2 DEF NatNat
    <3>2. l.n \in Nat /\ r.n \in Nat
      BY FormedNat
    <3>3. CASE op = "div"
      BY <3>1, <3>3, FractionFormed DEF WideNatNat
    <3>4. CASE op = "sub"
      <4>1. WideNatNat(op, l, r) = Value("int", 0, l.n - r.n) /\ l.n - r.n \in Int
        BY <3>2, <3>4 DEF WideNatNat
      <4> QED BY <3>1, <4>1, IntFormed
    <3>5. CASE op \in {"add", "mul"}
      <4>1. WideNatNat(op, l, r) = Value("nat", 0, Meaning(op, l.n, r.n)) /\ Meaning(op, l.n, r.n) \in Nat
        BY <3>2, <3>5, MeaningIsInt DEF WideNatNat
      <4> QED BY <3>1, <4>1, NatFormed
    <3> QED BY <2>0, <3>3, <3>4, <3>5
  <2> QED BY <2>1, <2>2
<1> QED BY <1>1, <1>2, <1>3


-----------------------------------------------------------------------------
(* performOpIntInt, performOpRatioRatio and performOpRealReal.             *)

\* A whole number as an integer.
Integral(v) == v.kind = "int" /\ v.bits \in {0, W16, W32, W64} /\ v.n \in Int

LEMMA AsIntIs ==
  ASSUME NEW v, WellFormed(v), Whole(v)
  PROVE  Integral(AsInt(v)) /\ AsInt(v).n = v.n /\ (v.bits = 0 => AsInt(v).bits = 0)
<1>1. CASE v.kind = "int"
  BY <1>1, FormedInt DEF AsInt, Integral
<1>2. CASE v.kind = "nat"
  <2>1. v.bits \in {0, W16, W32, W64} /\ v.n \in Nat
    BY <1>2, FormedNat
  <2> DEFINE b == IF Narrow(v) THEN 2 * v.bits ELSE 0
  <2>2. b \in {0, W16, W32, W64} /\ (v.bits = 0 => b = 0)
    BY <2>1, WidthFacts DEF Narrow
  <2>3. AsInt(v) = Value("int", b, v.n)
    BY <1>2 DEF AsInt
  <2> QED BY <2>1, <2>2, <2>3, ValueFields DEF Integral
<1> QED BY <1>1, <1>2 DEF Whole

LEMMA ReadsInts ==
  ASSUME NEW l, NEW r, Integral(l), Integral(r)
  PROVE  ReadLeft(l, r) \subseteq Int /\ ReadRight(l, r) \in Int
<1>1. W64 - 1 \in Nat /\ W32 \in Nat \ {0} /\ W32 - 1 \in Nat
  BY WidthFacts
<1>2. 2 ^ (W64 - 1) \in Nat /\ 2 ^ (W32 - 1) \in Nat
  BY <1>1, PowerPositive
<1>3. ReadLeft(l, r) \subseteq Int
  BY <1>2 DEF ReadLeft, Integral
<1>4. AsSigned(r.n, W32) \in Int
  <2>1. AsSigned(r.n, W32) \in -(2 ^ (W32 - 1)) .. 2 ^ (W32 - 1) - 1
    BY <1>1, AsSignedFits DEF Integral
  <2> QED BY <1>2, <2>1
<1> QED BY <1>3, <1>4 DEF ReadRight, Integral

LEMMA IntIntFormed ==
  ASSUME NEW l, NEW r, Integral(l), Integral(r), NEW op, NEW v \in IntInt(op, l, r)
  PROVE  WellFormed(v)
<1>1. CASE op \in Comparisons
  <2>1. IntInt(op, l, r) = {Truth(Compared(op, n, ReadRight(l, r))) : n \in ReadLeft(l, r)}
    BY <1>1 DEF IntInt, Comparisons, Arithmetic
  <2> QED BY <2>1, PlainFormed
<1>2. CASE op \notin Arithmetic \cup Comparisons
  <2>1. IntInt(op, l, r) = {Nothing}
    BY <1>2 DEF IntInt
  <2> QED BY <2>1, PlainFormed
<1>3. CASE op \in Arithmetic
  <2>0. op \in {"add", "sub", "mul", "div"} /\ op \notin Comparisons
    BY <1>3 DEF Arithmetic, Comparisons
  <2>1. CASE Narrow(l) /\ Narrow(r)
    <3> DEFINE b == 2 * Wider(l, r)
    <3>1. v = SizedIntInt(op, l, r)
      BY <1>3, <2>0, <2>1 DEF IntInt
    <3>2. b \in {W32, W64} /\ b \in Nat /\ b \in {0, W16, W32, W64}
      BY <2>1, WiderIs, WidthFacts DEF Narrow
    <3>3. CASE op = "div"
      <4>1. v = Value("ratio", b, 0)
        BY <3>1, <3>3 DEF SizedIntInt
      <4> HIDE DEF b
      <4> QED BY <3>2, <4>1, FractionFormed
    <3>4. CASE op # "div"
      <4> DEFINE n == AsUnsigned(Meaning(op, l.n, r.n), b)
      <4>1. v = Value("nat", b, n)
        BY <3>1, <3>4 DEF SizedIntInt
      <4>2. Meaning(op, l.n, r.n) \in Int
        BY <2>0, <3>4, MeaningIsInt DEF Integral
      <4>3. n \in 0 .. 2 ^ b - 1 /\ 2 ^ b \in Nat
        <5> HIDE DEF b
        <5> QED BY <3>2, <4>2, AsUnsignedFits, PowerPositive
      <4> HIDE DEF n, b
      <4>4. n \in Nat /\ n <= 2 ^ b - 1
        BY <4>3
      <4> QED BY <3>2, <4>1, <4>4, NatFormed
    <3> QED BY <3>3, <3>4
  <2>2. CASE ~(Narrow(l) /\ Narrow(r))
    <3>1. v \in WideIntInt(op, l, r)
      BY <1>3, <2>0, <2>2 DEF IntInt
    <3>2. CASE op = "div"
      BY <3>1, <3>2, FractionFormed DEF WideIntInt
    <3>3. CASE op # "div"
      <4>1. PICK n \in ReadLeft(l, r) : v = Value("int", 0, Meaning(op, n, ReadRight(l, r)))
        BY <3>1, <3>3 DEF WideIntInt
      <4>2. Meaning(op, n, ReadRight(l, r)) \in Int
        BY <2>0, <3>3, ReadsInts, MeaningIsInt
      <4> QED BY <4>1, <4>2, IntFormed
    <3> QED BY <3>2, <3>3
  <2> QED BY <2>1, <2>2
<1> QED BY <1>1, <1>2, <1>3

LEMMA RatioRatioFormed ==
  ASSUME NEW l, NEW r, NEW op, NEW v \in RatioRatio(op, l, r)
  PROVE  WellFormed(v)
<1>1. CASE op \in Comparisons
  <2>1. v \in {Truth(TRUE), Truth(FALSE), Crash}
    BY <1>1 DEF RatioRatio, Comparisons, Arithmetic
  <2> QED BY <2>1, PlainFormed
<1>2. CASE op \notin Arithmetic \cup Comparisons
  <2>1. v = Nothing
    BY <1>2 DEF RatioRatio
  <2> QED BY <2>1, PlainFormed
<1>3. CASE op \in Arithmetic
  <2>0. op \notin Comparisons
    BY <1>3 DEF Arithmetic, Comparisons
  <2>1. CASE {l.bits, r.bits} \subseteq {W32, W64}
    <3>1. v = Value("ratio", 2 * Wider(l, r), 0)
      BY <1>3, <2>0, <2>1 DEF RatioRatio
    <3>2. 2 * Wider(l, r) \in {W64, W128}
      BY <2>1, WiderIs, WidthFacts
    <3> QED BY <3>1, <3>2, FractionFormed
  <2>2. CASE ~({l.bits, r.bits} \subseteq {W32, W64})
    <3>1. v \in {Value("ratio", 0, 0), Crash}
      BY <1>3, <2>0, <2>2 DEF RatioRatio, WideRatioRatio
    <3> QED BY <3>1, FractionFormed, PlainFormed
  <2> QED BY <2>1, <2>2
<1> QED BY <1>1, <1>2, <1>3

LEMMA RealRealFormed ==
  ASSUME NEW l, NEW r, NEW op, NEW v \in RealReal(op, l, r)
  PROVE  WellFormed(v)
<1>1. CASE op \in Comparisons
  <2>1. v \in {Truth(TRUE), Truth(FALSE)}
    BY <1>1 DEF RealReal, Comparisons, Arithmetic
  <2> QED BY <2>1, PlainFormed
<1>2. CASE op \notin Arithmetic \cup Comparisons
  <2>1. v = Nothing
    BY <1>2 DEF RealReal
  <2> QED BY <2>1, PlainFormed
<1>3. CASE op \in Arithmetic
  <2>1. v \in {Value("real", W64, 0), Value("real", 0, 0)}
    BY <1>3 DEF RealReal, Comparisons, Arithmetic
  <2> QED BY <2>1, FractionFormed
<1> QED BY <1>1, <1>2, <1>3

-----------------------------------------------------------------------------
(* Any two values, and one.                                                *)

LEMMA NumbersFormed ==
  ASSUME NEW l, NEW r, WellFormed(l), WellFormed(r), Numeric(l), Numeric(r),
         NEW op, NEW v \in Numbers(op, l, r)
  PROVE  WellFormed(v)
<1> DEFINE kinds == {l.kind, r.kind}
<1>0. kinds \subseteq {"nat", "int", "ratio", "real"}
  BY TowerRanks DEF Numeric
<1>1. CASE "real" \in kinds
  <2>1. Numbers(op, l, r) = RealReal(op, AsReal(l), AsReal(r))
    BY <1>1 DEF Numbers
  <2> QED BY <2>1, RealRealFormed
<1>2. CASE "real" \notin kinds /\ "ratio" \in kinds
  <2>1. v = Crash \/ v \in RatioRatio(op, AsRatio(l), AsRatio(r))
    BY <1>2 DEF Numbers
  <2> QED BY <2>1, RatioRatioFormed, PlainFormed
<1>3. CASE "int" \in kinds /\ kinds \subseteq {"nat", "int"}
  <2>1. Numbers(op, l, r) = IntInt(op, AsInt(l), AsInt(r))
    BY <1>3 DEF Numbers
  <2>2. Integral(AsInt(l)) /\ Integral(AsInt(r))
    BY <1>3, AsIntIs DEF Whole
  <2> QED BY <2>1, <2>2, IntIntFormed
<1>4. CASE kinds = {"nat"}
  <2>1. v = NatNat(op, l, r)
    BY <1>4 DEF Numbers
  <2> QED BY <1>4, <2>1, NatNatFormed
<1> QED BY <1>0, <1>1, <1>2, <1>3, <1>4

LEMMA BinaryOpFormed ==
  ASSUME NEW l, NEW r, WellFormed(l), WellFormed(r), NEW op, NEW v \in BinaryOp(op, l, r)
  PROVE  WellFormed(v)
<1>0. /\ l.kind = "null" => ~Numeric(l) /\ ~IsText(l)
      /\ r.kind = "null" => ~Numeric(r) /\ ~IsText(r)
      /\ Numeric(l) => l.kind # "bool" /\ ~IsText(l)
  BY TowerRanks DEF Numeric, IsText
<1>1. CASE "null" \in {l.kind, r.kind}
  <2>1. v = Crash
    BY <1>0, <1>1 DEF BinaryOp
  <2> QED BY <2>1, PlainFormed
<1>2. CASE Numeric(l) /\ Numeric(r)
  <2>1. v \in Numbers(op, l, r)
    BY <1>0, <1>2 DEF BinaryOp
  <2> QED BY <1>2, <2>1, NumbersFormed
<1>3. CASE l.kind = "bool" /\ r.kind = "bool"
  <2>1. v = Booleans(op, l, r)
    BY <1>0, <1>3 DEF BinaryOp, IsText
  <2>2. \/ \E b : v = Truth(b)
        \/ v = Nothing
    BY <2>1 DEF Booleans
  <2> QED BY <2>2, PlainFormed
<1>4. CASE IsText(l) /\ IsText(r)
  <2>1. v = Strings(op, l, r)
    BY <1>0, <1>4 DEF BinaryOp, IsText
  <2>2. v \in {l, r, Nothing}
    BY <1>4, <2>1 DEF Strings, PromoteText, IsText
  <2> QED BY <2>2, PlainFormed
<1>5. CASE /\ "null" \notin {l.kind, r.kind} /\ ~(Numeric(l) /\ Numeric(r))
           /\ ~(l.kind = "bool" /\ r.kind = "bool") /\ ~(IsText(l) /\ IsText(r))
  <2>1. v = Nothing
    BY <1>5 DEF BinaryOp
  <2> QED BY <2>1, PlainFormed
<1> QED BY <1>1, <1>2, <1>3, <1>4, <1>5

LEMMA UnaryOpFormed ==
  ASSUME NEW v, WellFormed(v), NEW op
  PROVE  WellFormed(UnaryOpResult(op, v))
<1>1. CASE UnaryOpResult(op, v) \in {Crash, Nothing, Truth(v.n = 0)}
  BY <1>1, PlainFormed
<1>2. CASE UnaryOpResult(op, v) = Negated(v)
  <2>1. CASE v.kind = "nat"
    <3> DEFINE b == IF Narrow(v) THEN 2 * v.bits ELSE 0
    <3>1. v.bits \in {0, W16, W32, W64} /\ v.n \in Nat /\ (v.bits # 0 => v.n <= 2 ^ v.bits - 1)
      BY <2>1, FormedNat
    <3>2. b \in {0, W16, W32, W64}
      BY <3>1, WidthFacts DEF Narrow
    <3>3. b # 0 => -v.n \in -(2 ^ (b - 1)) .. 2 ^ (b - 1) - 1
      <4> SUFFICES ASSUME b # 0 PROVE -v.n \in -(2 ^ (b - 1)) .. 2 ^ (b - 1) - 1
        OBVIOUS
      <4>1. Narrow(v) /\ b = 2 * v.bits
        OBVIOUS
      <4>2. v.bits \in Nat /\ b - 1 \in Nat /\ v.bits <= b - 1 /\ v.bits # 0
        BY <4>1, WidthFacts DEF Narrow
      <4>3. 2 ^ v.bits <= 2 ^ (b - 1) /\ 2 ^ (b - 1) \in Nat /\ 2 ^ v.bits \in Nat \ {0} /\ 2 ^ (b - 1) \in Nat \ {0}
        BY <4>2, PowersGrow, PowerPositive
      <4> HIDE DEF b
      <4> QED BY <3>1, <4>2, <4>3
    <3>4. Negated(v) = Value("int", b, -v.n)
      BY <2>1 DEF Negated
    <3> HIDE DEF b
    <3> QED BY <1>2, <3>1, <3>2, <3>3, <3>4, IntFormed
  <2>2. CASE v.kind = "int"
    <3> DEFINE n == IF v.bits = 0 THEN -v.n ELSE AsSigned(-v.n, v.bits)
    <3>1. v.bits \in {0, W16, W32, W64} /\ v.bits \in Nat /\ v.n \in Int
      BY <2>2, FormedInt
    <3>2. Negated(v) = Value("int", v.bits, n)
      BY <2>2 DEF Negated
    <3>3. v.bits # 0 => n \in -(2 ^ (v.bits - 1)) .. 2 ^ (v.bits - 1) - 1
      <4> SUFFICES ASSUME v.bits # 0 PROVE n \in -(2 ^ (v.bits - 1)) .. 2 ^ (v.bits - 1) - 1
        OBVIOUS
      <4>1. v.bits \in Nat \ {0} /\ -v.n \in Int /\ n = AsSigned(-v.n, v.bits)
        BY <3>1
      <4> HIDE DEF n
      <4>2. AsSigned(-v.n, v.bits) \in -(2 ^ (v.bits - 1)) .. 2 ^ (v.bits - 1) - 1
        BY <4>1, AsSignedFits
      <4> QED BY <4>1, <4>2
    <3>4. n \in Int
      <4>1. CASE v.bits = 0
        BY <3>1, <4>1
      <4>2. CASE v.bits # 0
        <5>1. 2 ^ (v.bits - 1) \in Nat
          BY <3>1, <4>2, PowerPositive
        <5> HIDE DEF n
        <5> QED BY <3>3, <4>2, <5>1
      <4> QED BY <4>1, <4>2
    <3> HIDE DEF n
    <3> QED BY <1>2, <3>1, <3>2, <3>3, <3>4, IntFormed
  <2>3. CASE v.kind = "ratio"
    BY <1>2, <2>3 DEF Negated
  <2>4. CASE v.kind = "real"
    <3>1. Negated(v) = Value("real", IF v.bits = W32 THEN W64 ELSE 0, 0)
      BY <2>4 DEF Negated
    <3> QED BY <1>2, <3>1, FractionFormed
  <2>5. CASE v.kind \notin {"nat", "int", "ratio", "real"}
    <3>1. Negated(v) = Nothing
      BY <2>5 DEF Negated
    <3> QED BY <1>2, <3>1, PlainFormed
  <2> QED BY <2>1, <2>2, <2>3, <2>4, <2>5
<1> QED BY <1>1, <1>2 DEF UnaryOpResult


-----------------------------------------------------------------------------
(* Evaluation.                                                             *)

\* The value so far is well formed, and of a binary operator under way it is
\* one of the outcomes, of well-formed operands.
ValueInv ==
  /\ WellFormed(acc)
  /\ \/ call.rhs = Nothing
     \/ /\ WellFormed(call.lhs) /\ WellFormed(call.rhs)
        /\ acc \in BinaryOp(call.op, call.lhs, call.rhs)

\* Every value an expression goes through is one the classes of lib/Value.hpp
\* can hold, of a width there is and with a number that fits it; and it is what
\* the operator makes of its operands.
THEOREM ValuesFormed == ValueSpec => []ValueInv
<1>1. ValueInit => ValueInv
  BY GivenValuesAssumption DEF ValueInit, ValueInv, NoCall
<1>2. ValueInv /\ [ValueNext]_valueVars => ValueInv'
  <2> SUFFICES ASSUME ValueInv, [ValueNext]_valueVars PROVE ValueInv'
    OBVIOUS
  <2>1. CASE UNCHANGED valueVars
    <3>1. acc' = acc /\ call' = call
      BY <2>1 DEF valueVars
    <3> QED BY <3>1 DEF ValueInv
  <2>2. ASSUME NEW op \in {"neg", "not"}, CallUnary(op) PROVE ValueInv'
    <3>1. call' = [op |-> op, lhs |-> acc, rhs |-> Nothing] /\ acc' = UnaryOpResult(op, acc)
      BY <2>2 DEF CallUnary, Called
    <3>2. WellFormed(UnaryOpResult(op, acc))
      BY UnaryOpFormed DEF ValueInv
    <3> QED BY <3>1, <3>2 DEF ValueInv
  <2>3. ASSUME NEW op \in BinaryOpKinds, NEW l, NEW r, WellFormed(l), WellFormed(r),
               call' = [op |-> op, lhs |-> l, rhs |-> r], acc' \in BinaryOp(op, l, r)
        PROVE  ValueInv'
    <3>1. WellFormed(acc')
      BY <2>3, BinaryOpFormed
    <3>2. call'.op = op /\ call'.lhs = l /\ call'.rhs = r
      BY <2>3
    <3> QED BY <2>3, <3>1, <3>2 DEF ValueInv
  <2>4. ASSUME NEW op \in BinaryOpKinds, NEW v \in GivenValues, BinaryLeft(op, v) \/ BinaryRight(op, v)
        PROVE  ValueInv'
    <3>1. WellFormed(v) /\ WellFormed(acc)
      BY GivenValuesAssumption DEF ValueInv
    <3>2. CASE BinaryLeft(op, v)
      <4>1. call' = [op |-> op, lhs |-> acc, rhs |-> v] /\ acc' \in BinaryOp(op, acc, v)
        BY <3>2 DEF BinaryLeft, Called
      <4> QED BY <2>3, <3>1, <4>1
    <3>3. CASE BinaryRight(op, v)
      <4>1. call' = [op |-> op, lhs |-> v, rhs |-> acc] /\ acc' \in BinaryOp(op, v, acc)
        BY <3>3 DEF BinaryRight, Called
      <4> QED BY <2>3, <3>1, <4>1
    <3> QED BY <2>4, <3>2, <3>3
  <2>5. CASE Return
    <3>1. acc' = acc /\ call'.rhs = Nothing
      BY <2>5 DEF Return, NoCall
    <3> QED BY <3>1 DEF ValueInv
  <2> QED BY <2>1, <2>2, <2>4, <2>5 DEF ValueNext
<1> QED BY <1>1, <1>2, PTL DEF ValueSpec

\* performOpNatNat: sums, differences, products and comparisons of naturals are
\* exact whatever their widths, and have the kind and at least the bits that
\* lemniBinaryOpResultType gives the expression.
THEOREM NaturalsStayExact == ValueSpec => []NaturalsExact
<1>1. ASSUME ValueInv PROVE NaturalsExact
  <2> DEFINE l == call.lhs
             r == call.rhs
             op == call.op
             type == OpResult(TypeOf(l), TypeOf(r), op)
  <2> SUFFICES ASSUME l.kind = "nat", r.kind = "nat"
               PROVE  /\ op \in (Arithmetic \ {"div"}) \cup Comparisons => acc.n = Result(op, l, r)
                      /\ op \in Arithmetic /\ l.bits # 0 /\ r.bits # 0 =>
                           acc.kind = type.kind /\ (acc.bits = 0 \/ acc.bits >= type.bits)
    BY DEF NaturalsExact
  <2> HIDE DEF type
  <2>1. WellFormed(l) /\ WellFormed(r) /\ acc \in BinaryOp(op, l, r)
    BY <1>1, PlainFormed DEF ValueInv
  <2>2. acc = NatNat(op, l, r)
    <3>1. Numeric(l) /\ Numeric(r)
      BY TowerRanks DEF Numeric
    <3>2. BinaryOp(op, l, r) = Numbers(op, l, r)
      BY <3>1 DEF BinaryOp, IsText
    <3>3. Numbers(op, l, r) = {NatNat(op, l, r)}
      BY DEF Numbers
    <3> QED BY <2>1, <3>2, <3>3
  <2>3. /\ l.bits \in {0, W16, W32, W64} /\ r.bits \in {0, W16, W32, W64} /\ l.bits \in Nat /\ r.bits \in Nat
        /\ l.n \in Nat /\ r.n \in Nat
    BY <2>1, FormedNat
  <2> HIDE DEF l, r, op
  <2>4. ASSUME op \in Comparisons PROVE acc.n = Result(op, l, r)
    <3>1. acc = Truth(Compared(op, l.n, r.n))
      BY <2>2, <2>4 DEF NatNat, Comparisons, Arithmetic
    <3> QED BY <2>4, <3>1, ValueFields DEF Truth, Result
  <2>5. ASSUME op \in Arithmetic
        PROVE  /\ op \notin Comparisons
               /\ acc = IF Narrow(l) /\ Narrow(r) THEN SizedNatNat(op, l, r) ELSE WideNatNat(op, l, r)
    BY <2>2, <2>5 DEF NatNat, Comparisons, Arithmetic
  <2>6. ASSUME op \in Arithmetic \ {"div"} PROVE acc.n = Result(op, l, r)
    <3>1. op \in {"add", "sub", "mul"} /\ Result(op, l, r) = Meaning(op, l.n, r.n)
      BY <2>5, <2>6 DEF Arithmetic, Result
    <3>2. CASE Narrow(l) /\ Narrow(r)
      <4>1. SizedNatNat(op, l, r).n = Meaning(op, l.n, r.n)
        BY <2>1, <3>1, <3>2, SizedNatNatExact DEF l, r
      <4> QED BY <2>5, <2>6, <3>1, <3>2, <4>1
    <3>3. CASE ~(Narrow(l) /\ Narrow(r))
      <4>1. acc = WideNatNat(op, l, r)
        BY <2>5, <2>6, <3>3
      <4>2. WideNatNat(op, l, r).n = Meaning(op, l.n, r.n)
        BY <3>1, ValueFields DEF WideNatNat, Meaning
      <4> QED BY <3>1, <4>1, <4>2
    <3> QED BY <3>2, <3>3
  <2>7. ASSUME op \in Arithmetic, l.bits # 0, r.bits # 0
        PROVE  acc.kind = type.kind /\ (acc.bits = 0 \/ acc.bits >= type.bits)
    <3> DEFINE w == IF l.bits >= r.bits THEN l.bits ELSE r.bits
    <3>1. w \in Nat /\ w >= 2
      BY <2>3, <2>7, WidthFacts
    <3>2. type = NatResult(w, op)
      <4> DEFINE t == Promote(TypeOf(l), TypeOf(r))
      <4>1. TypeOf(l) = Sized("nat", l.bits) /\ TypeOf(r) = Sized("nat", r.bits)
        BY DEF TypeOf, l, r
      <4>2. t = Sized("nat", w)
        BY <2>3, <2>7, <4>1 DEF Promote, IsText, IsRange, PromoteRange, PromoteNat, Sized
      <4> HIDE DEF w
      <4>3. t # NULL /\ t.kind = "nat" /\ t.bits = w /\ t.kind \in ToSet(Tower)
        <5>1. t.kind = "nat" /\ t.bits = w
          BY <4>2 DEF Sized
        <5>2. "nat" \in ToSet(Tower)
          BY <5>1, TowerRanks
        <5> QED BY <5>1, <5>2 DEF NULL, Plain, Sized
      <4> HIDE DEF t
      <4>4. op \notin {"mod", "pow"}
        BY <2>7 DEF Arithmetic
      <4>5. OpResult(TypeOf(l), TypeOf(r), op) = NatResult(t.bits, op)
        BY <4>3, <4>4 DEF OpResult, t
      <4> QED BY <4>3, <4>5 DEF type
    <3>3. op \in {"add", "sub", "mul", "div"}
      BY <2>7 DEF Arithmetic
    <3>4. CASE Narrow(l) /\ Narrow(r)
      <4>1. acc = SizedNatNat(op, l, r) /\ Wider(l, r) = w
        BY <2>3, <2>5, <2>7, <3>4, WiderIs
      <4> HIDE DEF w
      <4>2. CASE op = "add"
        BY <3>1, <3>2, <4>1, <4>2, ValueFields DEF SizedNatNat, NatResult, Nat_, Sized
      <4>3. CASE op = "sub"
        BY <3>1, <3>2, <4>1, <4>3, ValueFields DEF SizedNatNat, NatResult, Int_, Sized
      <4>4. CASE op = "mul"
        BY <3>1, <3>2, <4>1, <4>4, ValueFields DEF SizedNatNat, NatResult, Nat_, Sized
      <4>5. CASE op = "div"
        BY <3>1, <3>2, <4>1, <4>5, ValueFields DEF SizedNatNat, NatResult, Ratio_, Sized
      <4> QED BY <3>3, <4>2, <4>3, <4>4, <4>5
    <3>5. CASE ~(Narrow(l) /\ Narrow(r))
      <4>1. acc = WideNatNat(op, l, r)
        BY <2>5, <2>7, <3>5
      <4> HIDE DEF w
      <4> QED BY <3>2, <3>3, <4>1, ValueFields DEF WideNatNat, NatResult, Nat_, Int_, Ratio_, Sized
    <3> QED BY <3>4, <3>5
  <2> QED BY <2>4, <2>6, <2>7 DEF l, r, op
<1> QED BY <1>1, ValuesFormed, PTL

\* performOpIntInt, where no slip of its switches is met: exact in arbitrary
\* precision, else exact in as many bits as the result has.
THEOREM IntegersStayExact == ValueSpec => []IntegersExactOrWrapped
<1>1. ASSUME ValueInv PROVE IntegersExactOrWrapped
  <2> DEFINE l == call.lhs
             r == call.rhs
             op == call.op
             right == AsInt(r)
             misread == (Narrow(l) /\ right.bits = 0) \/ (l.bits = W32 /\ right.bits = W64)
             modulus == 2 ^ acc.bits
  <2> SUFFICES ASSUME l.kind = "int", Whole(r), ~misread
               PROVE  /\ op \in Comparisons => acc.n = Result(op, l, r)
                      /\ op \in Arithmetic \ {"div"} =>
                           IF acc.bits = 0 THEN acc.n = Result(op, l, r)
                           ELSE acc.n % modulus = Result(op, l, r) % modulus
    BY DEF IntegersExactOrWrapped
  <2>1. WellFormed(l) /\ WellFormed(r) /\ acc \in BinaryOp(op, l, r)
    BY <1>1, PlainFormed DEF ValueInv, Whole
  <2>2. acc \in IntInt(op, l, right)
    <3>1. r.kind \in {"nat", "int"} /\ Numeric(l) /\ Numeric(r) /\ AsInt(l) = l
      BY TowerRanks DEF Whole, Numeric, AsInt
    <3>2. BinaryOp(op, l, r) = Numbers(op, l, r)
      BY <3>1 DEF BinaryOp, IsText
    <3>3. Numbers(op, l, r) = IntInt(op, AsInt(l), AsInt(r))
      BY <3>1 DEF Numbers
    <3> QED BY <2>1, <3>1, <3>2, <3>3
  <2>3. /\ l.bits \in {0, W16, W32, W64} /\ l.bits \in Nat /\ l.n \in Int
        /\ right.bits \in {0, W16, W32, W64} /\ right.bits \in Nat /\ right.n = r.n /\ r.n \in Int
    BY <2>1, FormedInt, AsIntIs, WidthFacts DEF Integral
  <2>4. ReadLeft(l, right) = {l.n} /\ ReadRight(l, right) = r.n
    BY <2>3 DEF ReadLeft, ReadRight
  <2> HIDE DEF l, r, op, right, misread
  <2>5. ASSUME op \in Comparisons PROVE acc.n = Result(op, l, r)
    <3>1. IntInt(op, l, right) = {Truth(Compared(op, n, ReadRight(l, right))) : n \in ReadLeft(l, right)}
      BY <2>5 DEF IntInt, Comparisons, Arithmetic
    <3>2. acc = Truth(Compared(op, l.n, r.n))
      BY <2>2, <2>4, <3>1
    <3> QED BY <2>5, <3>2, ValueFields DEF Truth, Result
  <2>6. ASSUME op \in Arithmetic \ {"div"}
        PROVE  IF acc.bits = 0 THEN acc.n = Result(op, l, r)
               ELSE acc.n % modulus = Result(op, l, r) % modulus
    <3> DEFINE n == Meaning(op, l.n, r.n)
    <3>0. op \in {"add", "sub", "mul"} /\ op \in Arithmetic /\ op \notin Comparisons /\ Result(op, l, r) = n
      BY <2>6 DEF Arithmetic, Comparisons, Result
    <3>1. n \in Int
      BY <2>3, <3>0, MeaningIsInt
    <3>2. CASE Narrow(l) /\ Narrow(right)
      <4> DEFINE b == 2 * Wider(l, right)
      <4>1. acc = SizedIntInt(op, l, right)
        BY <2>2, <3>0, <3>2 DEF IntInt
      <4>2. b \in Nat /\ b # 0
        BY <3>2, WiderIs, WidthFacts DEF Narrow
      <4>3. acc = Value("nat", b, AsUnsigned(n, b))
        BY <2>3, <3>0, <4>1 DEF SizedIntInt
      <4> HIDE DEF n, b
      <4>4. acc.bits = b /\ acc.n = AsUnsigned(n, b)
        BY <4>3, ValueFields
      <4>5. AsUnsigned(n, b) % 2 ^ b = n % 2 ^ b
        BY <3>1, <4>2, AsUnsignedFits
      <4> QED BY <3>0, <4>2, <4>4, <4>5
    <3>3. CASE ~(Narrow(l) /\ Narrow(right))
      <4>1. acc \in WideIntInt(op, l, right)
        BY <2>2, <3>0, <3>3 DEF IntInt
      <4>2. acc = Value("int", 0, n)
        BY <2>4, <3>0, <4>1 DEF WideIntInt
      <4> HIDE DEF n
      <4> QED BY <3>0, <4>2, ValueFields
    <3> QED BY <3>2, <3>3
  <2> QED BY <2>5, <2>6 DEF l, r, op
<1> QED BY <1>1, ValuesFormed, PTL

\* Of numbers one of which has arbitrary precision, arithmetic makes one of
\* arbitrary precision, or the process ends.
LEMMA ArbitraryResult ==
  ASSUME NEW l, NEW r, Numeric(l), Numeric(r), 0 \in {l.bits, r.bits},
         NEW op \in Arithmetic, NEW v \in Numbers(op, l, r), v # Crash
  PROVE  /\ v.bits = 0
         /\ v.kind = IF "real" \in {l.kind, r.kind} THEN "real"
                     ELSE IF "ratio" \in {l.kind, r.kind} \/ op = "div" THEN "ratio"
                     ELSE IF "int" \in {l.kind, r.kind} \/ op = "sub" THEN "int"
                     ELSE "nat"
<1> DEFINE kinds == {l.kind, r.kind}
<1>0. /\ l.kind \in {"nat", "int", "ratio", "real"} /\ r.kind \in {"nat", "int", "ratio", "real"}
      /\ op \in {"add", "sub", "mul", "div"} /\ op \notin Comparisons
  BY TowerRanks DEF Numeric, Arithmetic, Comparisons
<1>1. 0 \notin {W16, W32, W64}
  BY WidthFacts
<1>2. CASE "real" \in kinds
  <2>1. \A u : u.kind \in {"nat", "int", "ratio", "real"} /\ u.bits = 0 => AsReal(u).bits = 0
    BY <1>1, ValueFields DEF AsReal, Whole, Narrow
  <2>2. v \in RealReal(op, AsReal(l), AsReal(r))
    BY <1>2 DEF Numbers
  <2>3. AsReal(l).bits = 0 \/ AsReal(r).bits = 0
    BY <1>0, <2>1
  <2>4. v = Value("real", 0, 0)
    BY <1>0, <1>1, <2>2, <2>3 DEF RealReal
  <2> QED BY <1>2, <2>4, ValueFields
<1>3. CASE "real" \notin kinds /\ "ratio" \in kinds
  <2>1. \A u : u.kind \in {"nat", "int", "ratio"} /\ u.bits = 0 => AsRatio(u).bits = 0
    BY <1>1, ValueFields DEF AsRatio, Narrow
  <2>2. v \in RatioRatio(op, AsRatio(l), AsRatio(r))
    BY <1>3 DEF Numbers
  <2>3. AsRatio(l).bits = 0 \/ AsRatio(r).bits = 0
    BY <1>0, <1>3, <2>1
  <2>4. v = Value("ratio", 0, 0)
    BY <1>0, <1>1, <2>2, <2>3 DEF RatioRatio, WideRatioRatio
  <2> QED BY <1>3, <2>4, ValueFields
<1>4. CASE "int" \in kinds /\ kinds \subseteq {"nat", "int"}
  <2>1. \A u : u.kind \in {"nat", "int"} /\ u.bits = 0 => AsInt(u).bits = 0
    BY <1>1, ValueFields DEF AsInt, Narrow
  <2>2. v \in IntInt(op, AsInt(l), AsInt(r))
    BY <1>4 DEF Numbers
  <2>3. AsInt(l).bits = 0 \/ AsInt(r).bits = 0
    BY <1>4, <2>1
  <2>4. v \in WideIntInt(op, AsInt(l), AsInt(r))
    BY <1>0, <1>1, <2>2, <2>3 DEF IntInt, Narrow
  <2>5. \E n : v = IF op = "div" THEN Value("ratio", 0, 0) ELSE Value("int", 0, n)
    BY <2>4 DEF WideIntInt
  <2> QED BY <1>4, <2>5, ValueFields
<1>5. CASE kinds = {"nat"}
  <2>1. v = NatNat(op, l, r)
    BY <1>5 DEF Numbers
  <2>2. v = WideNatNat(op, l, r)
    BY <1>0, <1>1, <2>1 DEF NatNat, Narrow
  <2> QED BY <1>0, <1>5, <2>2, ValueFields DEF WideNatNat
<1> QED BY <1>0, <1>2, <1>3, <1>4, <1>5

\* Arbitrary precision stays, with the higher kind of the operands, whatever
\* the kinds and on whichever side it is: no digits are lost silently.
THEOREM ArbitraryPrecisionStays == ValueSpec => []ArbitraryStays
<1>1. ASSUME ValueInv PROVE ArbitraryStays
  <2> DEFINE l == call.lhs
             r == call.rhs
             op == call.op
             kinds == {Rank(Tower, l), Rank(Tower, r)}
             named == {l.kind, r.kind}
  <2> SUFFICES ASSUME Numeric(l), Numeric(r), 0 \in {l.bits, r.bits}, op \in Arithmetic, acc # Crash
               PROVE  /\ Numeric(acc)
                      /\ acc.bits = 0
                      /\ Rank(Tower, acc) =
                             CASE op = "sub" -> Max(kinds \cup {2})
                               [] op = "div" -> Max(kinds \cup {3})
                               [] OTHER -> Max(kinds)
    BY DEF ArbitraryStays
  <2>0. /\ l.kind \in {"nat", "int", "ratio", "real"} /\ r.kind \in {"nat", "int", "ratio", "real"}
        /\ op \in {"add", "sub", "mul", "div"}
    BY TowerRanks DEF Numeric, Arithmetic
  <2>1. acc \in BinaryOp(op, l, r)
    BY <1>1, <2>0, PlainFormed DEF ValueInv
  <2>2. BinaryOp(op, l, r) = Numbers(op, l, r)
    BY <2>0 DEF BinaryOp, IsText
  <2>3. /\ acc.bits = 0
        /\ acc.kind = IF "real" \in named THEN "real"
                      ELSE IF "ratio" \in named \/ op = "div" THEN "ratio"
                      ELSE IF "int" \in named \/ op = "sub" THEN "int"
                      ELSE "nat"
    BY <2>1, <2>2, ArbitraryResult
  <2> DEFINE top == IF "real" \in named THEN 4 ELSE IF "ratio" \in named THEN 3
                    ELSE IF "int" \in named THEN 2 ELSE 1
  <2> HIDE DEF l, r, op
  <2>4. /\ kinds \in SUBSET {1, 2, 3, 4} /\ top \in kinds /\ \A x \in kinds : x <= top
        /\ Rank(Tower, acc) = IF op = "div" /\ top < 3 THEN 3
                              ELSE IF op = "sub" /\ top < 2 THEN 2 ELSE top
    <3>1. Rank(Tower, l) = (CASE l.kind = "nat" -> 1 [] l.kind = "int" -> 2 [] l.kind = "ratio" -> 3 [] l.kind = "real" -> 4)
      BY <2>0, TowerRanks
    <3>2. Rank(Tower, r) = (CASE r.kind = "nat" -> 1 [] r.kind = "int" -> 2 [] r.kind = "ratio" -> 3 [] r.kind = "real" -> 4)
      BY <2>0, TowerRanks
    <3>3. /\ acc.kind = "nat" => Rank(Tower, acc) = 1
          /\ acc.kind = "int" => Rank(Tower, acc) = 2
          /\ acc.kind = "ratio" => Rank(Tower, acc) = 3
          /\ acc.kind = "real" => Rank(Tower, acc) = 4
      BY TowerRanks
    <3>4. kinds \in SUBSET {1, 2, 3, 4} /\ top \in kinds /\ \A x \in kinds : x <= top
      BY <2>0, <3>1, <3>2
    <3>5. Rank(Tower, acc) = IF op = "div" /\ top < 3 THEN 3
                             ELSE IF op = "sub" /\ top < 2 THEN 2 ELSE top
      BY <2>0, <2>3, <3>3
    <3> QED BY <3>4, <3>5
  <2>5. Numeric(acc)
    BY <2>3, TowerRanks DEF Numeric
  <2> HIDE DEF kinds, top, named
  <2>6. top \in 1..4 /\ kinds \in SUBSET Int
    BY <2>4
  <2>7. Max(kinds) = top
    BY <2>4, <2>6, MaxIs
  <2>8. ASSUME NEW n \in {2, 3}
        PROVE  Max(kinds \cup {n}) = IF top < n THEN n ELSE top
    <3> DEFINE S == kinds \cup {n}
               m == IF top < n THEN n ELSE top
    <3>1. S \in SUBSET Int /\ m \in S /\ \A x \in S : x <= m
      BY <2>4, <2>6
    <3> HIDE DEF S, m
    <3>2. Max(S) = m
      BY <3>1, MaxIs
    <3> QED BY <3>2 DEF S, m
  <2>9. Rank(Tower, acc) =
          CASE op = "sub" -> Max(kinds \cup {2})
            [] op = "div" -> Max(kinds \cup {3})
            [] OTHER -> Max(kinds)
    BY <2>0, <2>4, <2>7, <2>8
  <2> QED BY <2>3, <2>5, <2>9 DEF kinds, l, r, op
<1> QED BY <1>1, ValuesFormed, PTL
=============================================================================
