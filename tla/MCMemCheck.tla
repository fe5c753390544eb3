----------------------------- MODULE MCMemCheck -----------------------------
(***************************************************************************)
(* Small instances of MemCheck for TLC.                                    *)
(***************************************************************************)
EXTENDS MemCheck, TLC

CONSTANTS x, zero, sum, f, def, g, h

\* f is a function of x with the body sum, def its definition; g is a
\* function with a constant for a body; h one whose body is a pseudo function.
CONSTANTS p
MCExpr == {x, zero, sum, f, def, g, h, p}
MCKind == x :> "plain" @@ sum :> "plain" @@ zero :> "constant" @@ def :> "fndef"
          @@ [e \in {f, g, h, p} |-> "lambda"]
MCParams == [e \in MCExpr |-> IF e \in {f, h, p} THEN <<x>> ELSE <<>>]
MCBody == f :> sum @@ def :> f @@ g :> zero @@ h :> p @@ p :> sum
          @@ x :> NULL @@ sum :> NULL @@ zero :> NULL
MCPseudo == {p}
MCBytes == x :> 3 @@ sum :> 8 @@ [e \in MCExpr |-> 0]
MCRequest == {[size |-> n, align |-> n] : n \in {0, 3, 8}}
MCLevels == {1}
MCAlignments == {0}

\* Addresses are interchangeable.
Addresses == Permutations(Region) \cup Permutations(Storage) \cup Permutations(State)
=============================================================================
