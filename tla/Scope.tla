------------------------------- MODULE Scope -------------------------------
(***************************************************************************)
(* The lexical scopes of lib/Scope.cpp, used as lib/typecheck.cpp uses     *)
(* them.  A typecheck state owns a global scope; a lambda or a block opens *)
(* a scope whose parent is the one it is checked in, and closes it when it *)
(* returns, with a result or an error.  So the scopes of one state are a   *)
(* stack: `chain', the global scope first, every scope the parent of the   *)
(* next.  An imported module is checked with a state, and a chain, of its  *)
(* own; its names are reached through its global scope only.               *)
(***************************************************************************)
EXTENDS Integers, Sequences, FiniteSets

CONSTANTS Ids,        \* names that are bound
          MaxOpen,    \* scopes open at a time
          MaxMade,    \* binding expressions created
          NoExpr

ASSUME ScopeAssumption == MaxOpen \in Nat /\ MaxMade \in Nat
ASSUME NoExprAssumption == NoExpr \notin Nat

VARIABLES chain,      \* the tables of the open scopes
          made        \* binding expressions created so far

scopeVars == <<chain, made>>

Table == [Ids -> (1..made) \cup {NoExpr}]
Empty == [id \in Ids |-> NoExpr]

\* lemniCreateTypecheckState
ScopeInit == chain = <<Empty>> /\ made = 0

\* lemniScopeFind from scope s: the nearest table, upwards, that has the name.
Binds(s, id) == {t \in 1..s : chain[t][id] # NoExpr}
Nearest(scopes) == CHOOSE t \in scopes : \A u \in scopes : u <= t
Find(s, id) == IF Binds(s, id) = {} THEN NoExpr ELSE chain[Nearest(Binds(s, id))][id]

\* LambdaExpr and BlockExpr
Open ==
  /\ Len(chain) < MaxOpen
  /\ chain' = Append(chain, Empty)
  /\ UNCHANGED made

InnerScope == Len(chain) > 1

Close ==
  /\ InnerScope
  /\ chain' = SubSeq(chain, 1, Len(chain) - 1)
  /\ UNCHANGED made

\* lemniScopeSet refuses a name that is visible already.
FreeHere(id) == chain[Len(chain)][id] = NoExpr     \* a slip
Free(id) == Find(Len(chain), id) = NoExpr

\* BindingExpr and ParamBindingExpr: the expression is created whatever
\* lemniScopeSet answers, which they ignore.
Bind(id) ==
  /\ made < MaxMade
  /\ made' = made + 1
  /\ chain' = IF Free(id) THEN [chain EXCEPT ![Len(chain)] = [@ EXCEPT ![id] = made']]
              ELSE chain

ScopeNext == Open \/ Close \/ \E id \in Ids : Bind(id)

ScopeSpec == ScopeInit /\ [][ScopeNext]_scopeVars

-----------------------------------------------------------------------------
(* What typechecking relies on.                                            *)

\* There is a global scope, and tables hold expressions that were created.
TypeOK == made \in Nat /\ chain \in Seq(Table) /\ Len(chain) >= 1

\* Nothing is shadowed: a name is bound at most once on the way from any scope
\* to the global one, so no binding hides another from a reference.
NothingShadowed ==
  \A s, t \in DOMAIN chain, id \in Ids :
    chain[s][id] # NoExpr /\ chain[t][id] # NoExpr => s = t

\* What a name stands for in a scope, once it stands for something, it stands
\* for as long as the scope is open: two references to it are to one binding.
MeaningsStay ==
  [][\A s \in DOMAIN chain \cap DOMAIN chain', id \in Ids :
        Find(s, id) # NoExpr => Find(s, id)' = Find(s, id)]_scopeVars
=============================================================================
