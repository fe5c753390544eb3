------------------------------ MODULE MCTypeSet ------------------------------
(***************************************************************************)
(* Small instances of TypeSet for TLC: bit counts modulo 8 or 32.           *)
(***************************************************************************)
EXTENDS TypeSet

\* Abstract types, grounded ones (reals, ratio 1, and with 3 bits those whose
\* bit count wraps round to 0: int 4, nat 3 and nat 7), and others.
AnyOf == {Key("real", n) : n \in {0, 3, 5}} \cup {Key("ratio", n) : n \in {0, 1, 2}}
         \cup {Key("int", n) : n \in {2, 4, 5}} \cup {Key("nat", n) : n \in {2, 3, 7}}

SizedInt == {Key("int", 2), Key("real", 2)}
=============================================================================
