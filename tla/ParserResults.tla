--------------------------- MODULE ParserResults ---------------------------
(* What an expression that Parser answers holds, read through all its parts. *)
EXTENDS Parser

\* The sub-expressions of an expression.
RECURSIVE Parts(_)
Parts(e) == {e} \cup (IF e.tag \in {"leaf", "null"} THEN {}
                      ELSE UNION {Parts(e.parts[k]) : k \in DOMAIN e.parts})
Parsed == UNION {Parts(exprs[k]) : k \in DOMAIN exprs}

\* An operation's operand is never an operation of an operator that binds
\* looser than its own.
PrecedenceKept ==
  \A e \in Parsed : e.tag = "binary" =>
    \A k \in 1..2 : e.parts[k].tag = "binary" =>
      Precedence(e.parts[k].op) <= Precedence(e.op)

\* The comment in parseBinop says that the operator that binds tighter is done
\* first, as operand of the other.
TighterIsDoneFirst == PrecedenceKept
=============================================================================
