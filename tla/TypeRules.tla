----------------------------- MODULE TypeRules -----------------------------
(***************************************************************************)
(* The rules of lib/Type.cpp that relate types: lemniTypeIsCastable,       *)
(* lemniTypePromote, lemniTypeMakeSigned; the result type of an operator   *)
(* (lemniBinaryOpResultType of lib/typecheck.cpp); and the one place where *)
(* promotion runs over a list, the return types of a block                 *)
(* (LemniBlockExprT::typecheck).                                           *)
(*                                                                         *)
(* A type is a record of its kind and its bit count, 0 for arbitrary       *)
(* precision; a sum has its set of cases, a product its components.        *)
(* Interning is left to TypeSet: equal types are equal records here.       *)
(***************************************************************************)
EXTENDS Integers, SequencesExt

CONSTANTS Types,         \* the types of the return expressions of a block
          MaxReturns     \* return expressions in a block

ASSUME MaxReturnsAssumption == MaxReturns \in Nat

VARIABLES returns,    \* the return types seen so far, in order
          result,     \* their promotion: LemniBlockExprT::typecheck's retType
          fault       \* lemniTypePromote was given no type and dereferenced it

blockVars == <<returns, result, fault>>

Sized(kind, bits) == [kind |-> kind, bits |-> bits]
Nat_(n) == Sized("nat", n)
Int_(n) == Sized("int", n)
Ratio_(n) == Sized("ratio", n)
Real_(n) == Sized("real", n)
Plain(kind) == Sized(kind, 0)      \* a type without a bit count of its own
SumOf(cases) == [kind |-> "sum", cases |-> cases]

Tower == <<"nat", "int", "ratio", "real">>
Texts == <<"ascii", "utf8", "str">>

ASSUME TypesAssumption == \A t \in Types : t.kind \in ToSet(Tower) => t.bits \in Nat

\* The null pointer: lemniTypePromote found no type.
NULL == Plain("none")
ASSUME NullAssumption == NULL \notin Types

\* LEMNI_SCALAR_RANGE and LEMNI_SCALAR_TEXTUAL.
IsRange(t) == t.kind \in {"nat", "int", "ratio", "real", "number", "bool"}
IsText(t) == t.kind \in {"ascii", "utf8", "str"}

-----------------------------------------------------------------------------
(* lemniTypeIsCastable.                                                    *)

SameOrPseudo(from, to) == from = to \/ to.kind = "pseudo"

AtLeast0(n) == IF n < 0 THEN 0 ELSE n

\* A slip: the sign bit is not taken off.
NatCastableSign(from, to) ==
    CASE to.kind \in {"nat", "int"} -> to.bits = 0 \/ from.bits <= to.bits
      [] to.kind = "ratio" -> to.bits \div 2 = 0 \/ from.bits <= to.bits \div 2
      [] OTHER -> SameOrPseudo(from, to)

NatCastable(from, to) ==
    CASE to.kind = "nat"   -> to.bits = 0 \/ from.bits <= to.bits
      [] to.kind = "int"   -> LET natBits == AtLeast0(to.bits - 1)
                              IN  natBits = 0 \/ from.bits <= natBits
      [] to.kind = "ratio" -> LET natBits == AtLeast0(to.bits \div 2 - 1)
                              IN  natBits = 0 \/ from.bits <= natBits
      [] to.kind = "real"  -> \/ to.bits = 0
                              \/ from.bits # 0 /\ to.bits = 32 /\ from.bits < 23
                              \/ from.bits # 0 /\ to.bits = 64 /\ from.bits < 52
      [] OTHER -> SameOrPseudo(from, to)

IntCastable(from, to) ==
    CASE to.kind = "int"   -> to.bits = 0 \/ from.bits <= to.bits
      [] to.kind = "ratio" -> to.bits \div 2 = 0 \/ from.bits <= to.bits \div 2
      [] to.kind = "real"  -> \/ to.bits = 0
                              \/ from.bits # 0 /\ to.bits >= 32 /\ from.bits < 23
                              \/ from.bits # 0 /\ to.bits >= 64 /\ from.bits < 52
      [] OTHER -> SameOrPseudo(from, to)

RatioCastable(from, to) ==
    CASE to.kind = "ratio" -> to.bits \div 2 = 0 \/ from.bits <= to.bits \div 2
      [] to.kind = "real"  -> to.bits = 0 \/ (from.bits # 0 /\ from.bits <= to.bits)
      [] OTHER -> SameOrPseudo(from, to)

RealCastable(from, to) ==
    CASE to.kind = "real" -> to.bits = 0 \/ (from.bits # 0 /\ from.bits <= to.bits)
      [] OTHER -> SameOrPseudo(from, to)

TextCastable(from, to) ==
    \/ from.kind = "ascii" /\ to.kind \in {"utf8", "str"}
    \/ from.kind = "utf8" /\ to.kind = "str"
    \/ SameOrPseudo(from, to)

ScalarCastable(from, to) ==
    CASE from.kind = "nat"   -> NatCastable(from, to)
      [] from.kind = "int"   -> IntCastable(from, to)
      [] from.kind = "ratio" -> RatioCastable(from, to)
      [] from.kind = "real"  -> RealCastable(from, to)
      [] OTHER -> TextCastable(from, to)

\* An array is castable to one that is no longer, a product if each of its
\* components is.
Castable(from, to) ==
    IF from.kind = "array" /\ to.kind = "array"
    THEN from.element = to.element /\ to.length <= from.length
    ELSE IF from.kind = "product" /\ to.kind = "product"
    THEN /\ Len(from.components) = Len(to.components)
         /\ \A i \in DOMAIN from.components :
               ScalarCastable(from.components[i], to.components[i])
    ELSE ScalarCastable(from, to)

-----------------------------------------------------------------------------
(* lemniTypePromote.                                                       *)

NextPow2(n) == IF n = 0 THEN 0 ELSE Min({2 ^ k : k \in {j \in 0 .. 30 : 2 ^ j >= n}})

\* A sized real of b's width if it holds the bits, else the next power of
\* two, which for the two widths there are is the same width again.
FloatFor(real, bits) ==
    CASE real.bits = 32 -> IF bits >= 24 THEN Real_(NextPow2(32)) ELSE real
      [] real.bits = 64 -> IF bits >= 53 THEN Real_(NextPow2(64)) ELSE real
      [] OTHER -> NULL

PromoteNat(a, b) ==
    CASE b.kind = "nat"   -> IF a.bits = 0 \/ (b.bits # 0 /\ a.bits > b.bits) THEN a ELSE b
      [] b.kind = "int"   -> IF a.bits = 0 THEN Int_(0)
                             ELSE IF b.bits # 0 /\ a.bits > b.bits THEN Int_(NextPow2(a.bits))
                             ELSE b
      [] b.kind = "ratio" -> IF a.bits = 0 THEN Ratio_(0)
                             ELSE IF b.bits # 0 /\ b.bits \div 2 < a.bits + 1
                             THEN Ratio_(NextPow2(b.bits))
                             ELSE b
      [] b.kind = "real"  -> IF a.bits = 0 THEN Real_(0)
                             ELSE IF b.bits = 0 THEN b ELSE FloatFor(b, a.bits)
      [] OTHER -> NULL

\* A slip: an arbitrary precision natural number is forgotten.
PromoteIntNarrow(a, b) ==
    IF a.bits = 0 \/ b.bits <= a.bits THEN a ELSE Int_(NextPow2(b.bits))

PromoteInt(a, b) ==
    CASE b.kind = "nat"   -> IF a.bits = 0 THEN a
                             ELSE IF b.bits = 0 THEN Int_(0)
                             ELSE IF b.bits > a.bits THEN Int_(NextPow2(b.bits)) ELSE a
      [] b.kind = "int"   -> IF a.bits = 0 \/ (b.bits # 0 /\ a.bits > b.bits) THEN a ELSE b
      [] b.kind = "ratio" -> IF a.bits = 0 THEN Ratio_(0)
                             ELSE IF b.bits # 0 /\ a.bits > b.bits \div 2
                             THEN Ratio_(NextPow2(b.bits))
                             ELSE b
      [] b.kind = "real"  -> IF a.bits = 0 THEN Real_(0)
                             ELSE IF b.bits = 0 THEN b ELSE FloatFor(b, a.bits)
      [] OTHER -> NULL

PromoteRatio(a, b) ==
    LET half == a.bits \div 2
    IN  IF b.kind = "real"
        THEN IF b.bits \notin {0, 32, 64} THEN NULL
             ELSE IF b.bits = 0 THEN b
             ELSE IF half = 0 THEN Real_(0) ELSE FloatFor(b, half)
        ELSE IF half = 0 THEN a
        ELSE CASE b.kind = "nat"   -> IF b.bits = 0 THEN Ratio_(0)
                                      ELSE IF half < b.bits + 1 THEN Ratio_(NextPow2(half))
                                      ELSE a
               [] b.kind = "int"   -> IF b.bits = 0 THEN Ratio_(0)
                                      ELSE IF b.bits > half THEN Ratio_(b.bits * 2) ELSE a
               [] b.kind = "ratio" -> IF b.bits # 0 /\ a.bits > b.bits THEN a ELSE b
               [] OTHER -> NULL

\* The branch meant for a ratio asks whether b is an integer again.
PromoteReal(a, b) ==
    IF a.bits = 0 THEN a
    ELSE IF b.bits = 0 THEN Real_(0)
    ELSE CASE b.kind = "nat"  -> FloatFor(a, b.bits)
           [] b.kind = "int"  -> FloatFor(a, b.bits + 1)
           [] b.kind = "real" -> IF a.bits > b.bits THEN a ELSE b
           [] OTHER -> NULL

PromoteText(a, b) ==
    CASE a.kind = "str"  -> a
      [] a.kind = "utf8" -> IF b.kind = "str" THEN b ELSE a
      [] OTHER -> b

PromoteRange(a, b) ==
    CASE a.kind = "nat"   -> PromoteNat(a, b)
      [] a.kind = "int"   -> PromoteInt(a, b)
      [] a.kind = "ratio" -> PromoteRatio(a, b)
      [] a.kind = "real"  -> PromoteReal(a, b)
      [] OTHER -> a

Promote(a, b) ==
    CASE a.kind = "unit" /\ b.kind = "unit" -> a
      [] IsText(a) /\ IsText(b) -> PromoteText(a, b)
      [] IsRange(a) /\ IsRange(b) -> PromoteRange(a, b)
      [] OTHER -> SumOf({a, b})

\* lemniTypeMakeSigned.
MakeSigned(t) ==
    CASE t.kind = "nat" -> Int_(t.bits + 1)
      [] t.kind \in {"int", "ratio", "real", "number"} -> t
      [] OTHER -> NULL

-----------------------------------------------------------------------------
(* lemniBinaryOpResultType on types that are not pseudo types.             *)

Ops == {"add", "sub", "mul", "div", "mod", "pow"}

NatResult(bits, op) ==
    CASE op = "add" -> Nat_(bits + 1)
      [] op = "sub" -> Int_(bits + 2)
      [] op = "mul" -> Nat_(bits * 2)
      [] op = "div" -> Ratio_(bits * 2)

IntResult(bits, op) ==
    CASE op \in {"add", "sub"} -> Int_(bits + 1)
      [] op = "mul" -> Nat_(bits * 2)
      [] op = "div" -> Ratio_(bits * 2)

FractionResult(bits, op) ==      \* ratios and reals
    IF op \in {"add", "sub"} THEN Int_(bits + 2) ELSE Nat_(bits * 2)

OpResult(lhs, rhs, op) ==
    LET t == Promote(lhs, rhs)
    IN  IF t = NULL \/ t.kind \notin ToSet(Tower) \cup {"number"} THEN NULL
        ELSE CASE t.kind = "number" \/ op \in {"mod", "pow"} -> t
               [] t.kind = "nat" -> NatResult(t.bits, op)
               [] t.kind = "int" -> IntResult(t.bits, op)
               [] OTHER -> FractionResult(t.bits, op)

-----------------------------------------------------------------------------
(* LemniBlockExprT::typecheck: the type of a block is the promotion of the *)
(* types of its return expressions and of its last expression, left to     *)
(* right.                                                                  *)

BlockInit == returns = <<>> /\ result = NULL /\ fault = FALSE

FirstReturn(t) ==
    /\ returns = <<>>
    /\ returns' = <<t>>
    /\ result' = t
    /\ UNCHANGED fault

NextReturn(t) ==
    /\ returns # <<>>
    /\ returns' = Append(returns, t)
    /\ IF result = NULL
       THEN fault' = TRUE /\ UNCHANGED result
       ELSE result' = Promote(result, t) /\ UNCHANGED fault

BlockNext ==
    /\ ~fault
    /\ Len(returns) < MaxReturns
    /\ \E t \in Types : FirstReturn(t) \/ NextReturn(t)

BlockSpec == BlockInit /\ [][BlockNext]_blockVars

-----------------------------------------------------------------------------
Seen == ToSet(returns)
Rank(order, t) == CHOOSE i \in DOMAIN order : order[i] = t.kind
Highest(order) == order[Max({Rank(order, t) : t \in Seen})]

\* promoteReal has no branch that a ratio reaches: a ratio of known size behind
\* a real promotes to no type - unless a number of arbitrary precision went
\* before, which gave the real arbitrary precision.  The real behind the ratio
\* promotes to a real.
RatioBehindReal ==
    \E i, j \in DOMAIN returns :
        /\ i < j /\ returns[i].kind = "real" /\ returns[j].kind = "ratio"
        /\ \A k \in 1 .. j : returns[k].bits # 0

\* Promotion knows the two float types of the target.
FloatWidths == \A t \in Seen : t.kind = "real" => t.bits \in {0, 32, 64}

\* LemniBlockExprT::typecheck promotes the returns pairwise, left to right.  A
\* block of numbers has a type, whatever their order, unless it returns a sized
\* ratio behind a sized real; a block of strings always has one.  The type is of
\* the highest kind of the numeric tower (or of the string types) returned
\* anywhere in the block, and it has arbitrary precision if one of the returned
\* numbers has - unless it is a ratio whose half has no bits.  promoteRatio
\* halves a ratio beside a natural that does not fit it; one bit is left in the
\* end, and halved again that is taken for arbitrary precision.
BlockTypeIsJoin ==
    Seen # {} =>
        /\ (\A t \in Seen : t.kind \in ToSet(Tower)) /\ FloatWidths /\ ~RatioBehindReal =>
              /\ result # NULL /\ ~fault
              /\ result.kind = Highest(Tower)
              /\ (\E t \in Seen : t.bits = 0) =>
                     result.bits = 0 \/ (result.kind = "ratio" /\ result.bits \div 2 = 0)
        /\ (\A t \in Seen : IsText(t)) =>
              result # NULL /\ ~fault /\ result.kind = Highest(Texts)

\* Types that hold every value: whole numbers of a bit count in types for
\* whole numbers, or in the integer part of a ratio or real.
WholeBits(t) ==       \* bits of the magnitude of the largest whole number
    CASE t.kind = "nat" -> t.bits
      [] t.kind = "int" -> t.bits - 1
      [] t.kind = "ratio" -> t.bits \div 2 - 1
      [] t.kind = "real" -> IF t.bits >= 64 THEN 53 ELSE IF t.bits >= 32 THEN 24 ELSE 0
HoldsWhole(to, from) ==
    \/ to.bits = 0
    \/ /\ from.bits # 0
       /\ from.kind = "int" => to.kind # "nat"
       /\ WholeBits(from) <= WholeBits(to)

\* A width with room for a sign and a magnitude.
Roomy(t) == CASE t.kind = "int" -> t.bits # 1
              [] t.kind = "ratio" -> t.bits \notin 1 .. 3
              [] OTHER -> TRUE

\* Type.h:269, where the code keeps it: a whole number of known size is cast
\* without loss to every numeric type it is castable to.
SizedCastLossless ==
    \A a, b \in Seen :
        /\ a.kind \in {"nat", "int"} /\ a.bits # 0 /\ b.kind \in ToSet(Tower)
        /\ Roomy(a) /\ Roomy(b) /\ Castable(a, b)
        => HoldsWhole(b, a)
=============================================================================
