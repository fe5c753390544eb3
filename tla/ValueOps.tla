------------------------------ MODULE ValueOps ------------------------------
(***************************************************************************)
(* Values and what operators do to them: lib/Value.cpp, as the evaluator   *)
(* of lib/eval.cpp calls it for one operand after the other.               *)
(*                                                                         *)
(* A value is described by a type of TypeRules, its kind and bit count (0  *)
(* for arbitrary precision), and a number: exact for naturals, integers    *)
(* and truth values, 0 for the others, whose numbers are left out.  What   *)
(* depends on a number that is left out, or on memory the code reads       *)
(* without writing it first, is any of the possible outcomes: an operator  *)
(* answers a set of values.                                                *)
(*                                                                         *)
(* Unit bits stand for the 16 bits of the smallest width, so that the      *)
(* widths 16, 32, 64 and 128 are 1, 2, 4 and 8 units.                      *)
(***************************************************************************)
EXTENDS TypeRules

CONSTANTS Unit,         \* bits in the model for 16 bits in the program
          GivenValues,  \* values an expression is made of
          MaxOps        \* operators in an expression

ASSUME UnitAssumption == Unit \in Nat \ {0, 1}
ASSUME MaxOpsAssumption == MaxOps \in Nat

VARIABLES acc,      \* the value of the expression so far
          call,     \* the operator under way and its operands
          left      \* operators the expression may still have

valueVars == <<acc, call, left>>

W16 == Unit
W32 == 2 * Unit
W64 == 4 * Unit
W128 == 8 * Unit

\* The values there are: the classes of lib/Value.hpp, with a number that fits
\* its width.
Widths(kind) ==
    CASE kind \in {"nat", "int"} -> {0, W16, W32, W64}
      [] kind = "ratio" -> {0, W32, W64, W128}
      [] kind = "real" -> {0, W32, W64}
      [] kind = "bool" -> {1}
      [] kind \in {"ascii", "utf8", "str", "unit", "null", "crash"} -> {0}
NumbersOf(kind, bits) ==
    CASE kind = "nat" -> IF bits = 0 THEN Nat ELSE 0 .. 2 ^ bits - 1
      [] kind = "int" -> IF bits = 0 THEN Int ELSE -(2 ^ (bits - 1)) .. 2 ^ (bits - 1) - 1
      [] kind = "bool" -> {0, 1}
      [] OTHER -> {0}
ValueKinds ==
    ToSet(Tower) \cup {"bool", "ascii", "utf8", "str", "unit", "null", "crash"}
WellFormed(v) ==
    /\ v \in [kind : ValueKinds, bits : Nat, n : Int]
    /\ v.bits \in Widths(v.kind)
    /\ v.n \in NumbersOf(v.kind, v.bits)

ASSUME GivenValuesAssumption == \A v \in GivenValues : WellFormed(v)

Value(kind, bits, n) == [kind |-> kind, bits |-> bits, n |-> n]
Truth(b) == Value("bool", 1, IF b THEN 1 ELSE 0)
Nothing == Value("null", 0, 0)     \* a null handle
Crash == Value("crash", 0, 0)      \* a null handle followed, or a division by zero

Whole(v) == v.kind \in {"nat", "int"}
Numeric(v) == v.kind \in ToSet(Tower)
Narrow(v) == v.bits \in {W16, W32}

Arithmetic == {"add", "sub", "mul", "div"}
Comparisons == {"lt", "gt", "lteq", "gteq", "eq", "neq"}
BinaryOpKinds == Arithmetic \cup Comparisons \cup {"and", "or", "mod", "pow", "concat"}

\* A number kept in that many bits, two's complement.
AsUnsigned(n, bits) == n % 2 ^ bits
AsSigned(n, bits) ==
    LET u == AsUnsigned(n, bits) IN IF u >= 2 ^ (bits - 1) THEN u - 2 ^ bits ELSE u

\* The result of + - *, and of a comparison, on whole numbers.
Meaning(op, a, b) ==
    CASE op = "add" -> a + b
      [] op = "sub" -> a - b
      [] op = "mul" -> a * b
Compared(op, a, b) ==
    CASE op = "lt" -> a < b
      [] op = "gt" -> a > b
      [] op = "lteq" -> a <= b
      [] op = "gteq" -> a >= b
      [] op = "eq" -> a = b
      [] op = "neq" -> a # b

Wider(l, r) == Max({l.bits, r.bits})

-----------------------------------------------------------------------------
(* performOpNatNat.                                                        *)

\* A slip: the width of the left operand is promoted, whichever is wider.
SizedNatNatLeft(op, l, r) ==
    LET promoted == 2 * l.bits
    IN  CASE op \in {"add", "mul"} -> Value("nat", promoted, AsUnsigned(Meaning(op, l.n, r.n), promoted))
          [] op = "sub" -> Value("int", promoted, AsSigned(l.n - r.n, promoted))
          [] op = "div" -> Value("ratio", 2 * promoted, 0)

\* performOpSizedNatNat, on widths 16 and 32: the next width of the wider.
SizedNatNat(op, l, r) ==
    LET promoted == 2 * Wider(l, r)
    IN  CASE op \in {"add", "mul"} -> Value("nat", promoted, AsUnsigned(Meaning(op, l.n, r.n), promoted))
          [] op = "sub" -> Value("int", promoted, AsSigned(l.n - r.n, promoted))
          [] op = "div" -> Value("ratio", 2 * promoted, 0)

\* The cases with 64 bits or more: in arbitrary precision.
WideNatNat(op, l, r) ==
    CASE op = "div" -> Value("ratio", 0, 0)
      [] op = "sub" -> Value("int", 0, l.n - r.n)
      [] OTHER -> Value("nat", 0, Meaning(op, l.n, r.n))

NatNat(op, l, r) ==
    CASE op \in Comparisons -> Truth(Compared(op, l.n, r.n))
      [] op \in Arithmetic -> IF Narrow(l) /\ Narrow(r) THEN SizedNatNat(op, l, r)
                             ELSE WideNatNat(op, l, r)
      [] op \notin Arithmetic \cup Comparisons -> Nothing

-----------------------------------------------------------------------------
(* performOpIntInt.                                                        *)

\* performOpSizedIntInt: LhsT and RhsT are naturals, and so are the sum, the
\* difference and the product.
SizedIntInt(op, l, r) ==
    LET promoted == 2 * Wider(l, r)
    IN  IF op = "div" THEN Value("ratio", promoted, 0)
        ELSE Value("nat", promoted, AsUnsigned(Meaning(op, l.n, r.n), promoted))

\* The number read from the left operand: the cases 16 and 32 have none for
\* arbitrary precision on the right and fall through to case 64, which reads
\* memory beyond the number.
ReadLeft(l, r) ==
    IF Narrow(l) /\ r.bits = 0
    THEN {n \in -(2 ^ (W64 - 1)) .. 2 ^ (W64 - 1) - 1 :
             AsUnsigned(n, l.bits) = AsUnsigned(l.n, l.bits)}
    ELSE {l.n}

\* A slip: case 32 under case 64 casts to a natural.
ReadRightNat(l, r) ==
    CASE l.bits = W32 /\ r.bits = W64 -> AsSigned(r.n, W32)
      [] l.bits = W64 /\ r.bits = W32 -> AsUnsigned(r.n, W32)
      [] OTHER -> r.n

\* From the right one, case 64 under case 32 casts it to 32 bits.
ReadRight(l, r) == IF l.bits = W32 /\ r.bits = W64 THEN AsSigned(r.n, W32) ELSE r.n

WideIntInt(op, l, r) ==
    IF op = "div" THEN {Value("ratio", 0, 0)}
    ELSE {Value("int", 0, Meaning(op, n, ReadRight(l, r))) : n \in ReadLeft(l, r)}

IntInt(op, l, r) ==
    CASE op \in Comparisons -> {Truth(Compared(op, n, ReadRight(l, r))) : n \in ReadLeft(l, r)}
      [] op \in Arithmetic -> IF Narrow(l) /\ Narrow(r) THEN {SizedIntInt(op, l, r)}
                             ELSE WideIntInt(op, l, r)
      [] op \notin Arithmetic \cup Comparisons -> {Nothing}

-----------------------------------------------------------------------------
(* performOpRatioRatio and performOpRealReal.                              *)

\* A slip: the widest sized ratio is promoted as the others are.
WideRatioRatioSized(l, r) ==
    IF 0 \in {l.bits, r.bits} THEN {Value("ratio", Wider(l, r), 0), Crash}
    ELSE {Value("ratio", 2 * Wider(l, r), 0)}

\* 128 bits or more: GMP, which does not survive dividing by zero, nor adding
\* two ratios with zero denominators.
WideRatioRatio(l, r) == {Value("ratio", 0, 0), Crash}

\* Sized ratios are compared with std::div, which does not survive a zero
\* denominator.
RatioRatio(op, l, r) ==
    CASE op \in Comparisons ->
           {Truth(TRUE), Truth(FALSE)} \cup (IF 0 \in {l.bits, r.bits} THEN {} ELSE {Crash})
      [] op \in Arithmetic -> IF {l.bits, r.bits} \subseteq {W32, W64}
                             THEN {Value("ratio", 2 * Wider(l, r), 0)}
                             ELSE WideRatioRatio(l, r)
      [] op \notin Arithmetic \cup Comparisons -> {Nothing}

RealReal(op, l, r) ==
    CASE op \in Comparisons -> {Truth(TRUE), Truth(FALSE)}
      [] op \in Arithmetic -> {Value("real", IF l.bits = W32 /\ r.bits = W32 THEN W64 ELSE 0, 0)}
      [] op \notin Arithmetic \cup Comparisons -> {Nothing}

-----------------------------------------------------------------------------
(* performUnaryOp and performBinaryOp of every class of values.            *)

\* What a natural is made into beside an integer, a whole number beside a
\* ratio, any number beside a real.  16 and 32 bits double, 64 become any.
AsInt(v) == IF v.kind = "int" THEN v
            ELSE Value("int", IF Narrow(v) THEN 2 * v.bits ELSE 0, v.n)
AsRatio(v) ==
    CASE v.kind = "ratio" -> v
      [] v.kind = "nat" -> Value("ratio", IF Narrow(v) THEN 4 * v.bits ELSE 0, 0)
      [] v.kind = "int" -> Value("ratio", 2 * v.bits, 0)
AsReal(v) ==
    CASE v.kind = "real" -> v
      [] Whole(v) -> Value("real", IF Narrow(v) THEN 2 * v.bits ELSE 0, 0)
      [] v.kind = "ratio" -> Value("real", IF v.bits \in {W32, W64} THEN v.bits ELSE 0, 0)

\* A ratio looks for an integer on its right in rhsNat, which is null then.
Numbers(op, l, r) ==
    LET kinds == {l.kind, r.kind}
    IN  CASE "real" \in kinds -> RealReal(op, AsReal(l), AsReal(r))
          [] "real" \notin kinds /\ "ratio" \in kinds ->
               IF l.kind = "ratio" /\ r.kind = "int" THEN {Crash}
               ELSE RatioRatio(op, AsRatio(l), AsRatio(r))
          [] "int" \in kinds /\ kinds \subseteq {"nat", "int"} -> IntInt(op, AsInt(l), AsInt(r))
          [] kinds = {"nat"} -> {NatNat(op, l, r)}

Booleans(op, l, r) ==
    CASE op = "and" -> Truth(l.n = 1 /\ r.n = 1)
      [] op = "or" -> Truth(l.n = 1 \/ r.n = 1)
      [] op \in {"eq", "neq"} -> Truth(Compared(op, l.n, r.n))
      [] OTHER -> Nothing

Strings(op, l, r) ==
    IF op = "concat" THEN PromoteText(l, r) ELSE Nothing

\* lemniValueBinaryOp and lemniValueUnaryOp; a reference does what the value
\* it refers to does.
BinaryOp(op, l, r) ==
    CASE "null" \in {l.kind, r.kind} -> {Crash}
      [] Numeric(l) /\ Numeric(r) -> Numbers(op, l, r)
      [] l.kind = "bool" /\ r.kind = "bool" -> {Booleans(op, l, r)}
      [] IsText(l) /\ IsText(r) -> {Strings(op, l, r)}
      [] OTHER -> {Nothing}

Negated(v) ==
    CASE v.kind = "nat" -> Value("int", IF Narrow(v) THEN 2 * v.bits ELSE 0, -v.n)
      [] v.kind = "int" -> Value("int", v.bits, IF v.bits = 0 THEN -v.n ELSE AsSigned(-v.n, v.bits))
      [] v.kind = "ratio" -> v
      [] v.kind = "real" -> Value("real", IF v.bits = W32 THEN W64 ELSE 0, 0)
      [] OTHER -> Nothing

UnaryOpResult(op, v) ==
    IF v.kind = "null" THEN Crash
    ELSE IF op = "neg" THEN Negated(v)
    ELSE IF v.kind = "bool" THEN Truth(v.n = 0) ELSE Nothing

-----------------------------------------------------------------------------
(* Evaluation of an expression: LemniTypedUnaryOpExprT::eval and           *)
(* LemniTypedBinaryOpExprT::eval.                                          *)

NoCall == [op |-> "none", lhs |-> Nothing, rhs |-> Nothing]

ValueInit == acc \in GivenValues /\ call = NoCall /\ left = MaxOps

Called(op, l, r) ==
    /\ call' = [op |-> op, lhs |-> l, rhs |-> r]
    /\ left' = left - 1

CallUnary(op) == Called(op, acc, Nothing) /\ acc' = UnaryOpResult(op, acc)

\* The other operand comes second, or first.
BinaryLeft(op, v) == Called(op, acc, v) /\ acc' \in BinaryOp(op, acc, v)
BinaryRight(op, v) == Called(op, v, acc) /\ acc' \in BinaryOp(op, v, acc)

\* makeResult: the value goes to the enclosing expression.
Return ==
    /\ call # NoCall
    /\ acc # Crash
    /\ call' = NoCall
    /\ UNCHANGED <<acc, left>>

ValueNext ==
    \/ /\ call = NoCall
       /\ left > 0
       /\ \/ \E op \in {"neg", "not"} : CallUnary(op)
          \/ \E op \in BinaryOpKinds, v \in GivenValues : BinaryLeft(op, v) \/ BinaryRight(op, v)
    \/ Return

ValueSpec == ValueInit /\ [][ValueNext]_valueVars

-----------------------------------------------------------------------------
Result(op, l, r) == IF op \in Comparisons THEN (IF Compared(op, l.n, r.n) THEN 1 ELSE 0)
                    ELSE Meaning(op, l.n, r.n)
TypeOf(v) == Sized(v.kind, v.bits)

\* performOpNatNat: sums, differences, products and comparisons of naturals
\* of any widths are exact, at the limits of the widths too; and they have
\* the kind the typechecker gives the expression (lemniBinaryOpResultType)
\* and at least its bits.
NaturalsExact ==
    LET l == call.lhs
        r == call.rhs
        type == OpResult(TypeOf(l), TypeOf(r), call.op)
    IN  l.kind = "nat" /\ r.kind = "nat" =>
            /\ call.op \in (Arithmetic \ {"div"}) \cup Comparisons => acc.n = Result(call.op, l, r)
            /\ call.op \in Arithmetic /\ l.bits # 0 /\ r.bits # 0 =>
                   acc.kind = type.kind /\ (acc.bits = 0 \/ acc.bits >= type.bits)

\* performOpIntInt, where an integer is on the left and neither of its two
\* slips is met: exact if an operand has 64 bits or more, else exact in as
\* many bits as the result has; comparisons are exact.
IntegersExactOrWrapped ==
    LET l == call.lhs
        r == call.rhs
        misread == (Narrow(l) /\ AsInt(r).bits = 0) \/ (l.bits = W32 /\ AsInt(r).bits = W64)
        modulus == 2 ^ acc.bits
    IN  l.kind = "int" /\ Whole(r) /\ ~misread =>
            /\ call.op \in Comparisons => acc.n = Result(call.op, l, r)
            /\ call.op \in Arithmetic \ {"div"} =>
                   IF acc.bits = 0 THEN acc.n = Result(call.op, l, r)
                   ELSE acc.n % modulus = Result(call.op, l, r) % modulus

\* An operand of arbitrary precision makes the result of arithmetic one of
\* arbitrary precision, and of the higher kind of the two, whatever the kinds
\* and on whichever side it is; only a difference of naturals and a quotient
\* of whole numbers are of a higher kind still.
ArbitraryStays ==
    LET l == call.lhs
        r == call.rhs
        kinds == {Rank(Tower, l), Rank(Tower, r)}
    IN  Numeric(l) /\ Numeric(r) /\ 0 \in {l.bits, r.bits} /\ call.op \in Arithmetic /\ acc # Crash =>
            /\ Numeric(acc)
            /\ acc.bits = 0
            /\ Rank(Tower, acc) =
                   CASE call.op = "sub" -> Max(kinds \cup {2})
                     [] call.op = "div" -> Max(kinds \cup {3})
                     [] OTHER -> Max(kinds)
=============================================================================
