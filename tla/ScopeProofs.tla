---------------------------- MODULE ScopeProofs ----------------------------
(***************************************************************************)
(* For any set of names and any bounds: the scopes of a typecheck state    *)
(* never shadow a name, and a name never changes its meaning while the     *)
(* scope it is looked up in is open.                                       *)
(*                                                                         *)
(* The argument: a binding is entered into the last table only, and only   *)
(* when no table of the chain binds the name (Free).  While nothing is     *)
(* shadowed, what Find returns is the one table entry there is             *)
(* (FindsTheBinding), so Free says there is none (FreeMeansUnbound), and a *)
(* step that keeps the entry keeps the meaning.                            *)
(***************************************************************************)
EXTENDS Scope, TLAPS

IInv == TypeOK /\ NothingShadowed

\* The chain as a function on its depths.
LEMMA ChainIndices ==
  ASSUME TypeOK
  PROVE  /\ Len(chain) \in Nat /\ Len(chain) >= 1
         /\ DOMAIN chain = 1..Len(chain)
         /\ \A t \in 1..Len(chain) : chain[t] \in Table
BY DEF TypeOK

\* A name bound at depth t is found, in every scope from t inwards, there.
LEMMA FindsTheBinding ==
  ASSUME IInv, NEW id \in Ids, NEW t \in DOMAIN chain, chain[t][id] # NoExpr,
         NEW s \in DOMAIN chain, t <= s
  PROVE  Find(s, id) = chain[t][id]
<1>1. Len(chain) \in Nat /\ DOMAIN chain = 1..Len(chain)
  BY ChainIndices DEF IInv
<1>2. Binds(s, id) = {t}
  BY <1>1 DEF Binds, IInv, NothingShadowed
<1>3. Nearest({t}) = t
  BY <1>1 DEF Nearest
<1> QED
  BY <1>2, <1>3 DEF Find

\* A name found nowhere is bound nowhere: not below, and not here.
LEMMA FreeMeansUnbound ==
  ASSUME IInv, NEW id \in Ids, Free(id)
  PROVE  \A t \in DOMAIN chain : chain[t][id] = NoExpr
<1>1. Len(chain) \in Nat /\ Len(chain) >= 1 /\ DOMAIN chain = 1..Len(chain)
  BY ChainIndices DEF IInv
<1> SUFFICES ASSUME NEW t \in DOMAIN chain, chain[t][id] # NoExpr
             PROVE  FALSE
  OBVIOUS
<1>2. Len(chain) \in DOMAIN chain /\ t <= Len(chain)
  BY <1>1
<1>3. Find(Len(chain), id) = chain[t][id]
  BY <1>2, FindsTheBinding
<1> QED
  BY <1>3 DEF Free

\* A name that is found is bound at some depth at or below the scope's.
LEMMA FoundMeansBound ==
  ASSUME IInv, NEW id \in Ids, NEW s \in DOMAIN chain, Find(s, id) # NoExpr
  PROVE  \E t \in DOMAIN chain : t <= s /\ chain[t][id] # NoExpr
<1>1. Len(chain) \in Nat /\ DOMAIN chain = 1..Len(chain)
  BY ChainIndices DEF IInv
<1>2. Binds(s, id) # {}
  BY DEF Find
<1> QED
  BY <1>1, <1>2 DEF Binds

-----------------------------------------------------------------------------
(* The inductive invariant.                                                *)

LEMMA InitHolds == ScopeInit => IInv
<1> SUFFICES ASSUME ScopeInit PROVE IInv
  OBVIOUS
<1>1. Empty \in Table
  BY DEF Empty, Table
<1>2. TypeOK
  BY <1>1 DEF ScopeInit, TypeOK, Table
<1>3. NothingShadowed
  BY DEF ScopeInit, NothingShadowed
<1> QED
  BY <1>2, <1>3 DEF IInv

LEMMA OpenKeeps == IInv /\ Open => IInv'
<1> SUFFICES ASSUME IInv, Open PROVE IInv'
  OBVIOUS
<1>1. Len(chain) \in Nat /\ DOMAIN chain = 1..Len(chain)
  BY ChainIndices DEF IInv
<1>2. Empty \in Table
  BY DEF Empty, Table
<1>3. TypeOK'
  BY <1>2 DEF IInv, TypeOK, Open, Table
<1>4. /\ DOMAIN chain' = 1..(Len(chain) + 1)
      /\ \A t \in 1..Len(chain) : chain'[t] = chain[t]
      /\ chain'[Len(chain) + 1] = Empty
  BY <1>1, <1>2 DEF IInv, TypeOK, Open
<1>5. NothingShadowed'
  BY <1>1, <1>4 DEF IInv, NothingShadowed, Empty
<1> QED
  BY <1>3, <1>5 DEF IInv

\* The tables that stay open when the last scope closes.
LEMMA CloseShape ==
  ASSUME TypeOK, Close
  PROVE  /\ DOMAIN chain' = 1..(Len(chain) - 1)
         /\ \A t \in 1..(Len(chain) - 1) : chain'[t] = chain[t]
BY DEF TypeOK, Close, InnerScope

LEMMA CloseKeeps == IInv /\ Close => IInv'
<1> SUFFICES ASSUME IInv, Close PROVE IInv'
  OBVIOUS
<1>1. Len(chain) \in Nat /\ DOMAIN chain = 1..Len(chain)
  BY ChainIndices DEF IInv
<1>2. TypeOK'
  BY DEF IInv, TypeOK, Close, InnerScope, Table
<1>3. NothingShadowed'
  BY <1>1, CloseShape DEF IInv, NothingShadowed
<1> QED
  BY <1>2, <1>3 DEF IInv

\* What a binding does to the tables: nothing below the last one, and to the
\* last one only at the name, when the name is free.
LEMMA BindShape ==
  ASSUME TypeOK, NEW id \in Ids, Bind(id)
  PROVE  /\ made' = made + 1
         /\ DOMAIN chain' = DOMAIN chain
         /\ \A t \in DOMAIN chain, other \in Ids :
              ~(t = Len(chain) /\ other = id) => chain'[t][other] = chain[t][other]
         /\ ~Free(id) => chain' = chain
BY DEF TypeOK, Bind, Table

LEMMA BindKeeps == ASSUME NEW id \in Ids PROVE IInv /\ Bind(id) => IInv'
<1> SUFFICES ASSUME IInv, Bind(id) PROVE IInv'
  OBVIOUS
<1>1. Len(chain) \in Nat /\ Len(chain) >= 1 /\ DOMAIN chain = 1..Len(chain)
  BY ChainIndices DEF IInv
<1>2. TypeOK'
  <2>1. made' \in Nat /\ made' \in 1..made'
    BY DEF IInv, TypeOK, Bind
  <2>2. Table \subseteq Table'
    BY <2>1 DEF IInv, TypeOK, Bind, Table
  <2>3. [chain[Len(chain)] EXCEPT ![id] = made'] \in Table'
    BY <1>1, <2>1, <2>2, ChainIndices DEF IInv, Table
  <2>4. chain \in Seq(Table')
    BY <2>2 DEF IInv, TypeOK
  <2> QED
    BY <1>1, <2>1, <2>3, <2>4 DEF IInv, TypeOK, Bind
<1>3. NothingShadowed'
  <2>1. CASE Free(id)
    <3>1. \A t \in DOMAIN chain : chain[t][id] = NoExpr
      BY <2>1, FreeMeansUnbound
    <3> QED
      BY <1>1, <3>1, BindShape DEF IInv, NothingShadowed
  <2>2. CASE ~Free(id)
    BY <2>2, BindShape DEF IInv, NothingShadowed
  <2> QED
    BY <2>1, <2>2
<1> QED
  BY <1>2, <1>3 DEF IInv

\* Every step keeps the types and the absence of shadowing.
LEMMA StepKeeps == IInv /\ [ScopeNext]_scopeVars => IInv'
<1> SUFFICES ASSUME IInv, [ScopeNext]_scopeVars PROVE IInv'
  OBVIOUS
<1>1. CASE Open
  BY <1>1, OpenKeeps
<1>2. CASE Close
  BY <1>2, CloseKeeps
<1>3. ASSUME NEW id \in Ids, Bind(id) PROVE IInv'
  BY <1>3, BindKeeps
<1>4. CASE UNCHANGED scopeVars
  BY <1>4 DEF scopeVars, IInv, TypeOK, NothingShadowed, Table
<1> QED
  BY <1>1, <1>2, <1>3, <1>4 DEF ScopeNext

\* In every reachable state the chain is well typed and shadows nothing.
THEOREM InductiveInvariant == ScopeSpec => []IInv
<1>1. ScopeInit => IInv
  BY InitHolds
<1>2. IInv /\ [ScopeNext]_scopeVars => IInv'
  BY StepKeeps
<1> QED
  BY <1>1, <1>2, PTL DEF ScopeSpec

\* Scopes of any depth hold created expressions only, and a global scope is
\* always there for a lookup to end in.
THEOREM TypeCorrect == ScopeSpec => []TypeOK
<1>1. IInv => TypeOK
  BY DEF IInv
<1> QED
  BY <1>1, InductiveInvariant, PTL

\* lemniScopeSet's refusal is enough: a lookup never has two candidates.
THEOREM NeverShadowed == ScopeSpec => []NothingShadowed
<1>1. IInv => NothingShadowed
  BY DEF IInv
<1> QED
  BY <1>1, InductiveInvariant, PTL

-----------------------------------------------------------------------------
(* Meanings stay.                                                          *)

\* An entry of a table that stays open is never changed or removed.
LEMMA EntriesStay ==
  ASSUME IInv, [ScopeNext]_scopeVars, NEW id \in Ids,
         NEW t \in DOMAIN chain \cap DOMAIN chain', chain[t][id] # NoExpr
  PROVE  chain'[t][id] = chain[t][id]
<1>1. Len(chain) \in Nat /\ Len(chain) >= 1 /\ DOMAIN chain = 1..Len(chain)
  BY ChainIndices DEF IInv
<1>2. CASE Open
  BY <1>1, <1>2 DEF IInv, TypeOK, Open
<1>3. CASE Close
  BY <1>3, CloseShape DEF IInv
<1>4. ASSUME NEW name \in Ids, Bind(name) PROVE chain'[t][id] = chain[t][id]
  <2>1. CASE Free(name)
    <3>1. name # id
      BY <2>1, FreeMeansUnbound
    <3> QED
      BY <1>4, <3>1, BindShape DEF IInv
  <2>2. CASE ~Free(name)
    BY <1>4, <2>2, BindShape DEF IInv
  <2> QED
    BY <2>1, <2>2
<1>5. CASE UNCHANGED scopeVars
  BY <1>5 DEF scopeVars
<1> QED
  BY <1>2, <1>3, <1>4, <1>5 DEF ScopeNext

\* Two references to a name from one scope are to the same binding, whatever
\* is bound, opened and closed between them.
THEOREM MeaningsNeverChange == ScopeSpec => MeaningsStay
<1>1. ASSUME IInv, IInv', [ScopeNext]_scopeVars,
             NEW s \in DOMAIN chain \cap DOMAIN chain', NEW id \in Ids,
             Find(s, id) # NoExpr
      PROVE  Find(s, id)' = Find(s, id)
  <2>1. PICK t \in DOMAIN chain : t <= s /\ chain[t][id] # NoExpr
    BY <1>1, FoundMeansBound
  <2>2. t \in DOMAIN chain'
    BY <1>1, <2>1, ChainIndices DEF IInv, TypeOK
  <2>3. chain'[t][id] = chain[t][id]
    BY <1>1, <2>1, <2>2, EntriesStay
  <2>4. Find(s, id) = chain[t][id]
    BY <1>1, <2>1, FindsTheBinding
  <2>5. Find(s, id)' = chain'[t][id]
    <3>1. IInv' /\ (chain'[t][id] # NoExpr) /\ t \in DOMAIN chain' /\ s \in DOMAIN chain'
      BY <1>1, <2>1, <2>2, <2>3
    <3>2. Len(chain') \in Nat /\ DOMAIN chain' = 1..Len(chain')
      BY <1>1 DEF IInv, TypeOK
    <3>3. Binds(s, id)' = {t}
      BY <2>1, <3>1, <3>2 DEF Binds, IInv, NothingShadowed
    <3>4. Nearest({t}) = t
      BY <3>1, <3>2 DEF Nearest
    <3> QED
      BY <3>3, <3>4 DEF Find
  <2> QED
    BY <2>3, <2>4, <2>5
<1>2. IInv /\ IInv' /\ [ScopeNext]_scopeVars =>
        [\A s \in DOMAIN chain \cap DOMAIN chain', id \in Ids :
           Find(s, id) # NoExpr => Find(s, id)' = Find(s, id)]_scopeVars
  BY <1>1
<1> QED
  BY <1>2, InductiveInvariant, PTL DEF ScopeSpec, MeaningsStay
=============================================================================
