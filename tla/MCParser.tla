------------------------------ MODULE MCParser ------------------------------
(* Sources for TLC: operator expressions, definitions and comma lists over  *)
(* several lines, parameter lists, and chains of binary operators.          *)
EXTENDS ParserResults

OperatorTokens == {"id", "-", "+", "*", "SPACE", "(", ")"}
ListTokens == {"id", "lit", "=", "comma", "-", ".", "(", ")", "SPACE", "NEWLINE", "INDENT", "COMMENT"}
ParamTokens == {"id", "(", "comma", ")", "=", "SPACE"}
ChainTokens == {"id", "+", "*", "^"}

MCFamilies == {[tokens |-> OperatorTokens, longest |-> 6], [tokens |-> ListTokens, longest |-> 5],
               [tokens |-> ParamTokens, longest |-> 7]}
Chains == {[tokens |-> ChainTokens, longest |-> 7]}
=============================================================================
