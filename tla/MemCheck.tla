------------------------------ MODULE MemCheck ------------------------------
(***************************************************************************)
(* The memory checker, lib/memcheck.cpp: it charges the storage an         *)
(* expression needs to regions and answers with its size.                  *)
(*                                                                         *)
(* A check of a lambda opens a region for the function with a region for   *)
(* the parameters and one for the body below it, and checks parameters     *)
(* and body with states of their own; so the state is the call stack, one  *)
(* frame per expression under way.  A nested state has a region to charge, *)
(* so its destructor destroys nothing and what it remembers dies with it:  *)
(* only the states a client holds are kept.                                *)
(*                                                                         *)
(* A client may open and close pools, regions of its own, and give one to  *)
(* a state; it uses no state whose pool it has closed.                     *)
(***************************************************************************)
EXTENDS RegionSizes

CONSTANTS Expr,      \* typed expressions
          Kind,        \* "constant", "plain", "lambda" or "fndef"
          Params,      \* LemniTypedLambdaExprT::params
          Body,        \* a lambda's body, the lambda of a function definition
          Pseudo,      \* the lambdas with isPseudo set
          Asked,       \* the expressions clients have checked
          Bytes,       \* calcSize of a plain expression's type
          State        \* the addresses of the states clients create

ASSUME ExprAssumption ==
    /\ Kind \in [Expr -> {"constant", "plain", "lambda", "fndef"}]
    /\ Asked \subseteq Expr
    /\ Params \in [Expr -> Seq(Expr)]
    /\ \A e \in Expr : Kind[e] \in {"lambda", "fndef"} => Body[e] \in Expr
    /\ \A e \in Expr : Bytes[e] \in Nat
    /\ Pseudo \subseteq {e \in Expr : Kind[e] = "lambda"}
ASSUME StateAssumption == NULL \notin State

\* The expressions of which an expression is made.  It is a finite tree (a call
\* of the function inside its own body names it, and is a plain expression):
\* expressions each of which has a part among them are none.
Parts(e) == CASE Kind[e] = "fndef" -> {Body[e]}
              [] Kind[e] = "lambda" -> {Body[e]} \cup ToSet(Params[e])
              [] OTHER -> {}
ASSUME GroundedAssumption ==
    \A S \in SUBSET Expr : (\A e \in S : Parts(e) \cap S # {}) => S = {}

\* What an expression is charged: calcSize of its type, as size and alignment.
Charge(expr) == [size |-> Bytes[expr], align |-> Bytes[expr]]
ASSUME ChargeAssumption == \A e \in Expr : Kind[e] = "plain" => Charge(e) \in Request

VARIABLES pools,     \* the regions clients created
          checks,    \* the clients' states: address to fields
          closing,   \* the state whose destructor runs, or NULL
          stack,     \* the checks under way, innermost first
          answer     \* the result of the call that has just returned

memory == <<regions, parent, children, alloced, storages, owner, layout, fault>>
checkVars == <<pools, checks, closing, stack, answer>>

NoAnswer == [expr |-> NULL, error |-> FALSE, size |-> [raw |-> 0, aligned |-> 0]]

CheckInit ==
    /\ Init
    /\ pools = {}
    /\ checks = <<>>
    /\ closing = NULL
    /\ stack = <<>>
    /\ answer = NoAnswer

Idle == stack = <<>> /\ closing = NULL

\* A map with one more entry, which takes the place of an earlier one.
Put(map, key, value) ==
    [k \in DOMAIN map \cup {key} |-> IF k = key THEN value ELSE map[k]]

-----------------------------------------------------------------------------
(* The client.                                                             *)

OpenPool(r) ==
    /\ Idle
    /\ CreateRegion(r, NULL)
    /\ pools' = pools \cup {r}
    /\ UNCHANGED <<checks, closing, stack>>
    /\ answer' = NoAnswer

ClosePool(r) ==
    /\ Idle
    /\ r \in pools
    /\ DestroyRegion(r)
    /\ pools' = pools \ {r}
    /\ checks' = [st \in DOMAIN checks |->
                    [checks[st] EXCEPT !.usable = @ /\ checks[st].global # r]]
    /\ UNCHANGED <<closing, stack>>
    /\ answer' = NoAnswer

CreateState(st, global) ==
    /\ Idle
    /\ st \notin DOMAIN checks
    /\ global \in pools \cup {NULL}
    /\ checks' = Put(checks, st, [global |-> global, regions |-> {}, regionMap |-> <<>>,
                                 usable |-> TRUE])
    /\ UNCHANGED <<memory, pools, closing, stack>>
    /\ answer' = NoAnswer

\* A check of one expression, with the region to charge.
Frame(st, expr, global) ==
    [state |-> st,            \* the client's state, NULL in a nested check
     expr |-> expr, global |-> global,
     at |-> "start", next |-> 1, fn |-> NULL, param |-> NULL, body |-> NULL]

Ask(st, expr) ==
    /\ Idle
    /\ expr \in Asked
    /\ st \in DOMAIN checks
    /\ checks[st].usable
    /\ stack' = <<Frame(st, expr, checks[st].global)>>
    /\ UNCHANGED <<memory, pools, checks, closing>>
    /\ answer' = NoAnswer

-----------------------------------------------------------------------------
(* lemniDestroyMemCheckState.                                              *)

\* A slip: the regions go with the state even if they belong to a pool.
ReleasesAlways(st) == TRUE

Releases(st) == checks[st].global = NULL

DestroyState(st) ==
    /\ Idle
    /\ st \in DOMAIN checks
    /\ closing' = st
    /\ UNCHANGED <<memory, pools, checks, stack>>
    /\ answer' = NoAnswer

\* The destructor goes through the regions by address; the order is left open.
ReleaseRegion(r) ==
    /\ closing # NULL
    /\ Releases(closing)
    /\ r \in checks[closing].regions
    /\ DestroyRegion(r)
    /\ checks' = [checks EXCEPT ![closing].regions = @ \ {r}]
    /\ UNCHANGED <<pools, closing, stack, answer>>

FreeState ==
    /\ closing # NULL
    /\ Releases(closing) => checks[closing].regions = {}
    /\ checks' = [st \in DOMAIN checks \ {closing} |-> checks[st]]
    /\ closing' = NULL
    /\ UNCHANGED <<memory, pools, stack, answer>>

-----------------------------------------------------------------------------
(* memcheck of the expression on top of the stack.                         *)

Top == Head(stack)
At(kind, at) == stack # <<>> /\ Kind[Top.expr] = kind /\ Top.at = at
Update(frame) == stack' = <<frame>> \o Tail(stack)

\* The state of the call on top remembers a region it created.
TrackNothing(r) == UNCHANGED checks
Track(r) == checks' = IF Top.state = NULL THEN checks
                      ELSE [checks EXCEPT ![Top.state].regions = @ \cup {r}]

\* regionMap of the state; what a nested state remembers is never asked for.
Remember(expr, r) ==
    checks' = IF Top.state = NULL THEN checks
              ELSE [checks EXCEPT ![Top.state].regionMap = Put(@, expr, r)]
Known == Top.state # NULL /\ Top.expr \in DOMAIN checks[Top.state].regionMap

\* The call on top returns: a caller that was given an error returns it.
Return(error, size) ==
    LET caller == stack[2]
    IN  IF Len(stack) = 1
        THEN stack' = <<>> /\ answer' = [expr |-> Top.expr, error |-> error, size |-> size]
        ELSE /\ stack' = <<IF error THEN [caller EXCEPT !.at = "failed"]
                           ELSE IF caller.at = "params" THEN [caller EXCEPT !.next = @ + 1]
                           ELSE [caller EXCEPT !.at = "done"]>> \o Tail(Tail(stack))
             /\ UNCHANGED answer

NoSize == [raw |-> 0, aligned |-> 0]

CheckConstant ==
    /\ At("constant", "start")
    /\ Return(FALSE, NoSize)
    /\ UNCHANGED <<memory, pools, checks, closing>>

\* LemniTypedExprT::memcheck without a region to charge opens one.
OpenGlobal(r) ==
    /\ At("plain", "start")
    /\ Top.global = NULL
    /\ CreateRegion(r, NULL)
    /\ Track(r)
    /\ Update([Top EXCEPT !.at = "alloc", !.fn = r])
    /\ UNCHANGED <<pools, closing, answer>>

\* LemniTypedExprT::memcheck with one.
UseGlobal ==
    /\ At("plain", "start")
    /\ Top.global # NULL
    /\ Update([Top EXCEPT !.at = "alloc", !.fn = Top.global])
    /\ UNCHANGED <<memory, pools, checks, closing, answer>>

Allocate(s) ==
    /\ At("plain", "alloc")
    /\ RegionAlloc(Top.fn, s, Charge(Top.expr))
    /\ Remember(Top.expr, Top.fn)
    /\ Return(FALSE, [raw |-> layout'[s].raw, aligned |-> layout'[s].aligned])
    /\ UNCHANGED <<pools, closing>>

\* LemniTypedFnDefExprT::memcheck.
Delegate ==
    /\ At("fndef", "start")
    /\ Update([Top EXCEPT !.expr = Body[Top.expr]])
    /\ UNCHANGED <<memory, pools, checks, closing, answer>>

RefusePseudo ==
    /\ At("lambda", "start")
    /\ Top.expr \in Pseudo
    /\ Return(TRUE, NoSize)
    /\ UNCHANGED <<memory, pools, checks, closing>>

AnswerKnown ==
    /\ At("lambda", "start")
    /\ Top.expr \notin Pseudo
    /\ Known
    /\ Return(FALSE, RegionSize(checks[Top.state].regionMap[Top.expr], TRUE, 0))
    /\ UNCHANGED <<memory, pools, checks, closing>>

OpenFunction(r) ==
    /\ At("lambda", "start")
    /\ Top.expr \notin Pseudo
    /\ ~Known
    /\ CreateRegion(r, Top.global)
    /\ Track(r)
    /\ Update([Top EXCEPT !.at = "function", !.fn = r])
    /\ UNCHANGED <<pools, closing, answer>>

\* A slip: the parameters' region is opened beside the function's.
OpenParamsBeside(r) ==
    /\ At("lambda", "function")
    /\ CreateRegion(r, Top.global)
    /\ Update([Top EXCEPT !.at = "open", !.param = r])
    /\ UNCHANGED <<pools, checks, closing, answer>>

OpenParams(r) ==
    /\ At("lambda", "function")
    /\ CreateRegion(r, Top.fn)
    /\ Update([Top EXCEPT !.at = "open", !.param = r])
    /\ UNCHANGED <<pools, checks, closing, answer>>

OpenBody(r) ==
    /\ At("lambda", "open")
    /\ CreateRegion(r, Top.fn)
    /\ Update([Top EXCEPT !.at = "params", !.body = r])
    /\ UNCHANGED <<pools, checks, closing, answer>>

CheckParam ==
    /\ At("lambda", "params")
    /\ Top.next <= Len(Params[Top.expr])
    /\ stack' = <<Frame(NULL, Params[Top.expr][Top.next], Top.param)>> \o stack
    /\ UNCHANGED <<memory, pools, checks, closing, answer>>

CheckBody ==
    /\ At("lambda", "params")
    /\ Top.next > Len(Params[Top.expr])
    /\ stack' = <<Frame(NULL, Body[Top.expr], Top.body), [Top EXCEPT !.at = "body"]>> \o Tail(stack)
    /\ UNCHANGED <<memory, pools, checks, closing, answer>>

AnswerLambda ==
    /\ At("lambda", "done")
    /\ Remember(Top.expr, Top.fn)
    /\ Return(FALSE, RegionSize(Top.fn, TRUE, 0))
    /\ UNCHANGED <<memory, pools, closing>>

\* A slip: a function whose body is in error is remembered all the same.
PassOnRemember ==
    /\ At("lambda", "failed")
    /\ Remember(Top.expr, Top.fn)
    /\ Return(TRUE, NoSize)
    /\ UNCHANGED <<memory, pools, closing>>

\* An error of a parameter or the body is the function's; its regions stay.
PassOn ==
    /\ At("lambda", "failed")
    /\ Return(TRUE, NoSize)
    /\ UNCHANGED <<memory, pools, checks, closing>>

-----------------------------------------------------------------------------
ClientNext ==
    \/ \E r \in Region : OpenPool(r) \/ ClosePool(r)
    \/ \E st \in State, global \in Region \cup {NULL} : CreateState(st, global)
    \/ \E st \in State : DestroyState(st)
    \/ \E st \in State, e \in Expr : Ask(st, e)

CheckNext ==
    \/ \E r \in Region : ReleaseRegion(r) \/ OpenGlobal(r) \/ OpenFunction(r)
                         \/ OpenParams(r) \/ OpenBody(r)
    \/ FreeState \/ CheckConstant \/ UseGlobal \/ Delegate \/ RefusePseudo
    \/ AnswerKnown \/ CheckParam \/ CheckBody \/ AnswerLambda \/ PassOn
    \/ \E s \in Storage : Allocate(s)

MemCheckSpec == CheckInit /\ [][~fault /\ (ClientNext \/ CheckNext)]_<<memory, checkVars>>

-----------------------------------------------------------------------------
\* What an expression needs, by its structure: given what its parts need.
NeedsOf(e, needs) ==
    CASE Kind[e] = "constant" -> 0
      [] Kind[e] = "plain" -> Layout(Charge(e)).aligned
      [] Kind[e] = "fndef" -> needs[Body[e]]
      [] Kind[e] = "lambda" ->
           FoldLeft(LAMBDA sum, p : (sum + needs[p]) % Word, needs[Body[e]], Params[e])
Needs == LET needs[e \in Expr] == NeedsOf(e, needs) IN needs

\* An expression that holds a pseudo function cannot be checked.
RefusedOf(e, refused) ==
    \/ Kind[e] = "fndef" /\ refused[Body[e]]
    \/ /\ Kind[e] = "lambda"
       /\ e \in Pseudo \/ refused[Body[e]] \/ \E i \in DOMAIN Params[e] : refused[Params[e][i]]
Refused == LET refused[e \in Expr] == RefusedOf(e, refused) IN refused

\* The raw size answered for an expression is what its structure needs, and
\* the answer is an error exactly if it holds a pseudo function: for a
\* function checked for the first time, again, after an error, with a pool
\* shared with other checks or without one (LemniTypedLambdaExprT::memcheck).
AnswersExact ==
    answer.expr # NULL =>
        /\ answer.error = Refused[answer.expr]
        /\ ~answer.error /\ Kind[answer.expr] = "lambda" => answer.size.raw = Needs[answer.expr]

\* The region a usable state remembers for a function is live, holds what the
\* function needs and nothing else, and no function in error is remembered:
\* the early return of LemniTypedLambdaExprT::memcheck is as good as a check.
KnownRegionsSized ==
    \A st \in DOMAIN checks : \A e \in DOMAIN checks[st].regionMap :
        Kind[e] = "lambda" /\ checks[st].usable /\ st # closing =>
            LET r == checks[st].regionMap[e]
            IN  r \in regions /\ RawSize(r, TRUE) = Needs[e] /\ ~Refused[e]

\* Region.h:41 has every region without a parent destroyed: each belongs to
\* the client or to exactly one state, whose destructor destroys it.
RootsTracked ==
    \A r \in regions : parent[r] = NULL /\ r \notin pools =>
        /\ \E st \in DOMAIN checks : r \in checks[st].regions /\ checks[st].global = NULL
        /\ \A st1, st2 \in DOMAIN checks :
              r \in checks[st1].regions /\ r \in checks[st2].regions
              /\ checks[st1].global = NULL /\ checks[st2].global = NULL => st1 = st2
=============================================================================
