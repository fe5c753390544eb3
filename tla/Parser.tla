------------------------------- MODULE Parser -------------------------------
(***************************************************************************)
(* The parser of lib/parse.cpp, driven as lemniLoadModule drives it: one   *)
(* lemniParse after another over the tokens that remain, until none do.    *)
(*                                                                         *)
(* A token is its kind, or its text where the code compares the text; its  *)
(* position is its identity.  A parse function answers an expression with  *)
(* `rem', where the caller would resume, and `delim', the token it stopped *)
(* at: the two pointers the code carries side by side.                     *)
(***************************************************************************)
EXTENDS Integers, Sequences, FiniteSets, FiniteSetsExt, SequencesExt

CONSTANT Families     \* kinds of sources: [tokens, longest]

Ids         == {"id", "_", "import"}
Literals    == {"lit"}                        \* INT, HEX, ..., REAL and STR
Operands    == Ids \cup Literals
BinaryOps   == {"+", "-", "*", "^"}           \* one of each precedence, and "-"
UnaryOps    == {"-", "!"}
Operators   == BinaryOps \cup UnaryOps \cup {"=", ".", "comma", "macro"}   \* "comma" is ","
OpenBracket  == {"(", "["}
CloseBracket == {")", "]"}
Layout      == {"SPACE", "NEWLINE", "INDENT", "DEINDENT", "COMMENT"}
AllTokens   == Ids \cup Literals \cup Operators \cup OpenBracket \cup CloseBracket \cup Layout

ASSUME FamiliesAssumption ==
  \A f \in Families : f.tokens \subseteq AllTokens /\ f.longest \in Nat

VARIABLES toks,     \* the tokens of the source
          at,       \* where the next lemniParse starts
          exprs,    \* what the calls so far answered
          status    \* "parsing", "parsed", or how a call failed

vars == <<toks, at, exprs, status>>

End == Len(toks) + 1
Is(i, kinds) == i < End /\ toks[i] \in kinds

\* The first position from i on that is not of one of `kinds'.
Skip(i, kinds) == CHOOSE j \in i..End : /\ j = End \/ toks[j] \notin kinds
                                        /\ \A k \in i..(j - 1) : toks[k] \in kinds
SkipWs(i) == Skip(i, {"SPACE"})

-----------------------------------------------------------------------------
(* Expressions and the answers of the parse functions.  An expression has  *)
(* its class, its parts, and the names and literals that are its leaves,   *)
(* from left to right.                                                     *)

LeavesOf(es) == FlattenSeq([k \in DOMAIN es |-> es[k].leaves])
Expr(tag, es) == [tag |-> tag, parts |-> es, leaves |-> LeavesOf(es)]

Null == [tag |-> "null", leaves |-> <<>>]
Leaf(i) == [tag |-> "leaf", tok |-> i, leaves |-> <<i>>]   \* reference, placeholder, literal
Tuple(es) == Expr("tuple", es)
CommaList(es) == Expr("comma", es)
App(fn, args) == Expr("app", <<fn>> \o args)
Access(e, i) == Expr("access", <<e, Leaf(i)>>)
FnDefExpr(name, params, body) == Expr("fndef", <<Leaf(name)>> \o params \o <<body>>)
UnaryExpr(op, e) == [tag |-> "unary", op |-> op, parts |-> <<e>>, leaves |-> e.leaves]
BinaryExpr(op, l, r) ==
  [tag |-> "binary", op |-> op, parts |-> <<l, r>>, leaves |-> l.leaves \o r.leaves]

Ok(e, rem, delim) == [kind |-> "ok", expr |-> e, rem |-> rem, delim |-> delim]
Failed(why) == [kind |-> why, expr |-> Null, rem |-> End, delim |-> End]
Error == Failed("error")
ReadBehind == Failed("behind")                \* *it is read with it == end
NullRead == Failed("null")                    \* a null expression is read

\* A value that is the last token: nothing remains.
LastValueKept(e, i) == Ok(e, i, End)     \* a slip
LastValue(e, i) == Ok(e, End, End)

Then(r, Cont(_)) == IF r.kind = "ok" THEN Cont(r) ELSE r

\* lemniBinaryOpPrecedence: the lower binds the tighter.
Precedence(op) == CASE op = "^" -> 1 [] op = "*" -> 2 [] OTHER -> 3

\* parseBinop's ordering: an operator that binds tighter than the first one of
\* its right operand takes that one's left operand.
BinaryReversed(op, lhs, rhs) ==     \* a slip
  IF rhs.tag = "binary" /\ Precedence(op) < Precedence(rhs.op)
  THEN BinaryExpr(rhs.op, BinaryExpr(op, rhs.parts[1], lhs), rhs.parts[2])
  ELSE BinaryExpr(op, lhs, rhs)
Binary(op, lhs, rhs) ==
  IF rhs.tag = "binary" /\ Precedence(op) < Precedence(rhs.op)
  THEN BinaryExpr(rhs.op, BinaryExpr(op, lhs, rhs.parts[1]), rhs.parts[2])
  ELSE BinaryExpr(op, lhs, rhs)

\* parseApplication: what follows is flattened when it is an application, and
\* split when it is an operation.
Apply(fn, e) ==
  IF e.tag = "binary" THEN BinaryExpr(e.op, App(fn, <<e.parts[1]>>), e.parts[2])
  ELSE App(fn, IF e.tag = "app" THEN e.parts ELSE <<e>>)

\* parseUnaryOp: of an operation it takes the left operand only.
Unary(op, e) ==
  IF e.tag = "binary" THEN BinaryExpr(e.op, UnaryExpr(op, e.parts[1]), e.parts[2])
  ELSE UnaryExpr(op, e)

\* The elements of a parenthesised expression.
Elements(e) == CASE e.tag \in {"comma", "tuple"} -> e.parts
                 [] e.tag = "null" -> <<>>
                 [] OTHER -> <<e>>

-----------------------------------------------------------------------------
(* The parse functions.  Those the code hands a pointer behind their first *)
(* token are given its position.  They call parseInner again further on:   *)
(* `inner' is what it answers there.                                       *)

\* The inside of a "(" stopped at something else, or at the end.
UnclosedRead(i) == IF i = End THEN ReadBehind ELSE Error     \* a slip
Unclosed(i) == Error

\* Behind the "(": the matching ")" must be where the inside stops.
ParenInner(inner, i) ==
  IF SkipWs(i) = End THEN Error
  ELSE Then(inner[SkipWs(i)], LAMBDA r :
         IF ~Is(r.delim, {")"}) THEN Unclosed(r.delim)
         ELSE Ok(Tuple(Elements(r.expr)), r.delim + 1, r.delim))

\* A body on its own lines is handed to parseInner with the INDENT in front,
\* which parseInner rejects: the loop over its lines is never entered twice.
FnBody(inner, i) ==
  IF ~Is(i, {"NEWLINE"}) THEN inner[i]
  ELSE IF i + 1 = End THEN ReadBehind
  ELSE IF ~Is(i + 1, {"INDENT"}) THEN Error
  ELSE inner[i + 1]

\* A parameter is a reference; anything else is an error at its location, which
\* a missing one does not have.
IsParam(e) == e.tag = "leaf" /\ toks[e.tok] \in {"id", "import"}

\* The definition takes the token its body stopped at, if there is one.
Behind(delim) == IF delim = End THEN End ELSE delim + 1

FnDef(inner, name, params, i) ==
  LET eq   == SkipWs(i)
      bad  == {k \in DOMAIN params : ~IsParam(params[k])}
  IN  CASE ~Is(eq, {"="}) -> Error
        [] Is(eq, {"="}) /\ bad # {} -> IF params[Min(bad)] = Null THEN NullRead ELSE Error
        [] OTHER ->
             IF SkipWs(eq + 1) = End THEN Error
             ELSE Then(FnBody(inner, SkipWs(eq + 1)), LAMBDA r :
                    Ok(FnDefExpr(name, params, r.expr), Behind(r.delim), r.delim))

\* With spaces behind the operator the code looks at the token behind them
\* without asking whether there is one.
Binop(inner, i, lhs) ==
  LET from == SkipWs(i + 1) IN
  CASE i + 1 = End \/ toks[i] \notin BinaryOps -> Error
    [] i + 1 < End /\ toks[i] \in BinaryOps /\ from = End -> ReadBehind
    [] Is(i + 1, OpenBracket) -> Error
    [] Is(from, {"NEWLINE"} \cup CloseBracket) -> Error
    [] OTHER -> Then(inner[from], LAMBDA r : Ok(Binary(toks[i], lhs, r.expr), r.rem, r.delim))

UnaryOp(inner, i) ==
  LET from == SkipWs(i + 1) IN
  IF from = End \/ toks[i] \notin UnaryOps THEN Error
  ELSE Then(inner[from], LAMBDA r : Ok(Unary(toks[i], r.expr), r.rem, r.delim))

\* A line that continues the list: a comma and elements.  `line' is what the
\* lines behind it add.
CommaLine(inner, line, i) ==
  IF i = End THEN ReadBehind
  ELSE IF ~Is(i, {"comma"}) THEN Error
  ELSE Then(inner[i + 1], LAMBDA r :
         LET es == IF r.expr.tag = "comma" THEN r.expr.parts ELSE <<r.expr>>
         IN  IF ~Is(r.delim, {"NEWLINE"}) THEN Ok(CommaList(es), r.delim, r.delim)
             ELSE Then(line[r.delim + 1], LAMBDA l :
                    Ok(CommaList(es \o l.expr.parts), l.rem, l.delim)))

\* The first of them is indented.
CommaLines(inner, i, es) ==
  LET line[k \in i..End] == CommaLine(inner, [m \in (k + 1)..End |-> line[m]], k) IN
  CASE ~(Is(i, {"NEWLINE"}) /\ Is(i + 1, {"INDENT"})) -> Ok(CommaList(es), i, i)
    [] Is(i, {"NEWLINE"}) /\ Is(i + 1, {"INDENT"}) /\ i + 2 = End ->
         Ok(CommaList(es), i + 1, i + 1)
    [] OTHER -> Then(line[i + 2], LAMBDA l : Ok(CommaList(es \o l.expr.parts), l.rem, l.delim))

\* Behind the comma: the tail first, then the lines that continue the list.
JoinTail(head, e) == IF e.tag = "comma" THEN e.parts \o <<head>> ELSE <<head, e>>

CommaListFrom(inner, i, head) ==
  IF SkipWs(i) = End THEN Error
  ELSE Then(inner[SkipWs(i)], LAMBDA r : CommaLines(inner, r.delim, JoinTail(head, r.expr)))

\* The members named behind a value, each behind a "." with no space before it,
\* until there is none.
Member(value) ==
  LET name == SkipWs(value.at + 1) IN
  IF Is(value.at, {"."}) /\ Is(name, Ids)
  THEN [expr |-> Access(value.expr, name), at |-> name + 1]
  ELSE value

Members(i, e) ==
  LET value[n \in 0..Len(toks)] ==
        IF n = 0 THEN [expr |-> e, at |-> i] ELSE Member(value[n - 1])
  IN  value[Len(toks)]

\* Behind a value: it ends here, or it is the left end of something larger.
Leading(inner, from, value) ==
  LET e == Members(from, value).expr
      i == Members(from, value).at
      j == SkipWs(i)
  IN
  CASE Is(j, {"COMMENT"}) -> LET k == Skip(j, {"COMMENT"}) IN Ok(e, k, k)
    [] j = End -> Ok(e, End, End)
    [] Is(j, {"NEWLINE"} \cup CloseBracket) -> Ok(e, j + 1, j)
    [] Is(j, {"."}) /\ i = j -> Error
    [] Is(j, {"comma"}) -> CommaListFrom(inner, j + 1, e)
    [] Is(j, Operators \ {"comma"}) /\ ~(Is(j, {"."}) /\ i = j) -> Binop(inner, j, e)
    [] OTHER -> Then(inner[j], LAMBDA r : Ok(Apply(e, r.expr), r.rem, r.delim))

Id(inner, i) ==
  CASE i + 1 = End -> IF toks[i] = "import" THEN Error ELSE LastValue(Leaf(i), i)
    [] Is(i + 1, OpenBracket) ->
         IF toks[i] # "id" THEN Error
         ELSE Then(ParenInner(inner, i + 2), LAMBDA p : FnDef(inner, i, p.expr.parts, p.rem))
    [] OTHER -> Leading(inner, i + 1, Leaf(i))

Literal(inner, i) ==
  CASE i + 1 = End -> LastValue(Leaf(i), i)
    [] Is(i + 1, OpenBracket) -> Error
    [] OTHER -> Leading(inner, i + 1, Leaf(i))

\* What parseInner answers at i: nothing, at the end or at what closes a group,
\* or what the first token that is no comment begins.
ParseInner(inner, i) ==
  LET j == Skip(i, {"COMMENT"}) IN
  CASE j = End -> Ok(Null, End, End)
    [] Is(j, {"("}) -> Then(ParenInner(inner, j + 1), LAMBDA p : Leading(inner, p.delim + 1, p.expr))
    [] Is(j, CloseBracket \cup {"DEINDENT"}) -> Ok(Null, j + 1, j)
    [] Is(j, Ids) -> Id(inner, j)
    [] Is(j, Literals) -> Literal(inner, j)
    [] Is(j, Operators \ {"macro"}) -> UnaryOp(inner, j)
    [] OTHER -> Error          \* "[", the macro sign, INDENT, NEWLINE, SPACE

Inner(i) ==
  LET inner[k \in 1..End] == ParseInner([m \in (k + 1)..End |-> inner[m]], k) IN inner[i]

\* lemniParse: what stopped the expression must not be a stray delimiter.
Parse(i) ==
  Then(Inner(i), LAMBDA r : IF Is(r.delim, CloseBracket \cup {"DEINDENT"}) THEN Error ELSE r)

-----------------------------------------------------------------------------
(* The loop over a module's tokens.                                        *)

Init == /\ \E f \in Families : \E n \in 0..f.longest : toks \in [1..n -> f.tokens]
        /\ at = 1
        /\ exprs = <<>>
        /\ status = "parsing"

ParseOne ==
  /\ status = "parsing" /\ at < End
  /\ LET r == Parse(at) IN
     IF r.kind = "ok"
     THEN at' = r.rem /\ exprs' = Append(exprs, r.expr) /\ UNCHANGED status
     ELSE status' = r.kind /\ UNCHANGED <<at, exprs>>
  /\ UNCHANGED toks

Finish ==
  /\ status = "parsing" /\ at = End
  /\ status' = "parsed"
  /\ UNCHANGED <<toks, at, exprs>>

Next == ParseOne \/ Finish

Spec == Init /\ [][Next]_vars

-----------------------------------------------------------------------------
(* What the parser owes its caller.                                        *)

Occurrences(kinds) == {i \in 1..Len(toks) : toks[i] \in kinds}

\* Leaves that are the names and literals from one position to before another,
\* each once and in order.
Spells(leaves, from, to) ==
  /\ \A j, k \in DOMAIN leaves : j < k => leaves[j] < leaves[k]
  /\ ToSet(leaves) = {k \in from..(to - 1) : toks[k] \in Operands}

\* No operand is lost, duplicated or moved: read from left to right, the
\* expressions answered so far hold exactly the names and literals before `at',
\* whatever the operators between them were rotated into.  A list of three or
\* more elements is rotated, so sources with two commas are left out; and the
\* token behind a comment is no operand, since a comment ends with its line.
AtMostOneComma == \A i, j \in Occurrences({"comma"}) : i = j
CommentsEndLines == \A i \in Occurrences({"COMMENT"}) : ~Is(i + 1, Operands)

OperandsInOrder == AtMostOneComma /\ CommentsEndLines => Spells(LeavesOf(exprs), 1, at)

\* The parser reads no token behind the last, unless the source breaks off in
\* the layout of an operation, a list or a definition, and no expression that
\* is missing, unless a list ends in a comma: whatever else is wrong with a
\* source is an error that is reported.
FaultsOnlyAtLooseEnds ==
  /\ status = "behind" => Last(toks) \in {"SPACE", "NEWLINE"}
  /\ status = "null" => \E i \in Occurrences({"comma"}) : Is(Skip(i + 1, {"SPACE", "COMMENT"}), {")"})

\* Every call that answers an expression leaves fewer tokens than it was given:
\* the loader's loop and parseAll's end, whatever the tokens.
EveryCallConsumes == [][status' = "parsing" => at' > at]_vars
=============================================================================
