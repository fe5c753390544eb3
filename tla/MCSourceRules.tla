--------------------------- MODULE MCSourceRules ---------------------------
(* Parser, TypeRules and ValueOps for TLC.  They share no state: from the  *)
(* common initial state a source is parsed, a block is typed or an         *)
(* expression is evaluated, while the others stand still.                  *)
EXTENDS MCParser, MCTypeRules

\* Nothing to parse, nothing to type.
ParserIdle == toks = <<>> /\ at = 1 /\ exprs = <<>> /\ status = "parsing"
RulesIdle == BlockInit /\ call = NoCall /\ left = MaxOps /\ acc = Truth(TRUE)

AllInit == (Init /\ RulesIdle) \/ (ParserIdle /\ BothInit)
AllNext ==
    \/ RulesIdle /\ Next /\ UNCHANGED <<blockVars, valueVars>>
    \/ ParserIdle /\ BothNext /\ UNCHANGED vars
AllSpec == AllInit /\ [][AllNext]_<<vars, blockVars, valueVars>>
=============================================================================
