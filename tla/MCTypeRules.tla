---------------------------- MODULE MCTypeRules ----------------------------
(***************************************************************************)
(* Small instances of TypeRules and ValueOps for TLC.  The two share no    *)
(* state: from the common initial state either a block is typed or an      *)
(* expression is evaluated.                                                *)
(***************************************************************************)
EXTENDS ValueOps, TLC

\* Bit counts on both sides of the mantissas 23, 24, 52 and 53 and of each
\* other's halves, and a ratio that promotion narrows to one bit.  The bit
\* counts of the float types and their mantissas are those of the program.
MCTypes ==
    {Nat_(n) : n \in {0, 8, 22, 23, 24, 51, 52, 53}} \cup {Int_(n) : n \in {0, 8, 9, 22, 23, 52, 64}}
    \cup {Ratio_(n) : n \in {0, 2, 16, 32, 128}} \cup {Real_(n) : n \in {0, 32, 64}}
    \cup {Plain(k) : k \in {"ascii", "utf8", "str", "unit", "number"}} \cup {Sized("bool", 1)}

\* The limits of every width of 2 units.
MCGivenValues ==
    {Value("nat", b, 2 ^ b - 1) : b \in {W16, W32, W64}} \cup {Value("nat", W16, 1), Value("nat", 0, 300)}
    \cup {Value("int", b, -(2 ^ (b - 1))) : b \in {W16, W32, W64}}
    \cup {Value("int", W16, 1), Value("int", 0, -300)}
    \cup {Value("ratio", b, 0) : b \in {W32, W64, W128, 0}}
    \cup {Value("real", b, 0) : b \in {W32, W64, 0}}
    \cup {Truth(TRUE), Value("ascii", 0, 0), Value("utf8", 0, 0), Value("unit", 0, 0)}

BothInit == BlockInit /\ ValueInit
BothNext ==
    \/ BlockNext /\ call = NoCall /\ left = MaxOps /\ acc = Truth(TRUE) /\ UNCHANGED valueVars
    \/ ValueNext /\ returns = <<>> /\ UNCHANGED blockVars
BothSpec == BothInit /\ [][BothNext]_<<blockVars, valueVars>>
=============================================================================
