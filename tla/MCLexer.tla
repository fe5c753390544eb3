------------------------------ MODULE MCLexer ------------------------------
(* Sources for TLC: long ones over few characters, for several levels of    *)
(* indentation opened and closed at once; shorter ones over two kinds of    *)
(* whitespace; and short ones over every kind of token.                     *)
EXTENDS Lexer

DeepAlphabet == {"nl", "sp", "x"}
LayoutAlphabet == {"nl", "sp", "tab", "x"}
TokenAlphabet == {"x", "b", "0", "-", "/", ".", "q", "bs", "(", "nl", "sp", "ctl"}

MCFamilies == {[chars |-> DeepAlphabet, longest |-> 8], [chars |-> LayoutAlphabet, longest |-> 6],
               [chars |-> TokenAlphabet, longest |-> 4]}
=============================================================================
