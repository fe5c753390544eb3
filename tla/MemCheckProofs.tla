--------------------------- MODULE MemCheckProofs ---------------------------
(***************************************************************************)
(* The memory checker and the regions it opens, for any expressions, any   *)
(* addresses and any client: no region is destroyed twice and none without *)
(* a parent is forgotten, and the size answered for an expression is what  *)
(* its structure needs.                                                    *)
(***************************************************************************)
EXTENDS MemCheck, RegionsProofs

\* lib/memcheck.cpp: a state, and a check under way.
Fields == [global : Region \cup {NULL}, regions : SUBSET Region,
           regionMap : UNION {[E -> Region \cup {NULL}] : E \in SUBSET Expr}, usable : BOOLEAN]
Frames == [state : State \cup {NULL}, expr : Expr, global : Region \cup {NULL},
           at : {"start", "alloc", "function", "open", "params", "body", "done", "failed"},
           next : Nat \ {0}, fn : Region \cup {NULL}, param : Region \cup {NULL},
           body : Region \cup {NULL}]

Globals == [st \in DOMAIN checks |-> checks[st].global]

\* What a check charges is live.  A nested one always has a region to charge,
\* a client's has its state's.
GoodFrame(f, live, globals) ==
  /\ f.state = NULL => f.global # NULL
  /\ f.state # NULL => f.state \in DOMAIN globals /\ f.global = globals[f.state]
  /\ f.global \in live \cup {NULL}
  /\ f.at \in {"alloc", "function", "open", "params"} => f.fn \in live
  /\ f.at \in {"open", "params"} => f.param \in live
  /\ f.at = "params" => f.body \in live
GoodFrames(live, globals) == {f \in Frames : GoodFrame(f, live, globals)}

TypesGood ==
  /\ regions \subseteq Region
  /\ parent \in [Region -> Region \cup {NULL}]
  /\ pools \subseteq regions
  /\ DOMAIN checks \subseteq State
  /\ checks \in [DOMAIN checks -> Fields]
  /\ closing # NULL => closing \in DOMAIN checks /\ stack = <<>>

\* The roots of the regions: the client's, and those of states without a pool.
Owns(st, r) == checks[st].global = NULL /\ r \in checks[st].regions
RootsGood ==
  /\ \A r \in pools : parent[r] = NULL
  /\ \A st \in DOMAIN checks : \A r \in Region :
       Owns(st, r) => r \in regions /\ r \notin pools /\ parent[r] = NULL
  /\ \A st \in DOMAIN checks : checks[st].usable /\ checks[st].global # NULL =>
       checks[st].global \in pools

MInv == /\ NoFault /\ TypesGood /\ RootsGood /\ RootsTracked
        /\ stack \in Seq(GoodFrames(regions, Globals))

-----------------------------------------------------------------------------
(* The calls under way.                                                    *)

LEMMA MoreLive ==
  ASSUME NEW live, NEW more, live \subseteq more, NEW globals,
         NEW s \in Seq(GoodFrames(live, globals))
  PROVE  s \in Seq(GoodFrames(more, globals))
<1>1. GoodFrames(live, globals) \subseteq GoodFrames(more, globals)
  BY DEF GoodFrames, GoodFrame
<1> QED BY <1>1, SeqMonotonic

\* The first of a sequence may be replaced, or given another before it.
LEMMA StackParts ==
  ASSUME NEW S, NEW s \in Seq(S), s # <<>>
  PROVE  /\ Head(s) \in S
         /\ Tail(s) \in Seq(S)
         /\ \A f \in S : <<f>> \o Tail(s) \in Seq(S) /\ <<f>> \o s \in Seq(S)
         /\ Len(s) # 1 => s[2] \in S /\ \A f \in S : <<f>> \o Tail(Tail(s)) \in Seq(S)
<1>1. Head(s) \in S /\ Tail(s) \in Seq(S) /\ Len(Tail(s)) = Len(s) - 1
  BY HeadTailProperties
<1>2. \A f \in S : <<f>> \in Seq(S)
  OBVIOUS
<1>3. \A f \in S : <<f>> \o Tail(s) \in Seq(S) /\ <<f>> \o s \in Seq(S)
  BY <1>1, <1>2, ConcatProperties
<1>4. ASSUME Len(s) # 1
      PROVE  s[2] \in S /\ \A f \in S : <<f>> \o Tail(Tail(s)) \in Seq(S)
  <2>1. Len(s) \in Nat /\ Len(s) >= 2
    <3>1. Len(s) \in Nat /\ Len(s) # 0
      BY EmptySeq, LenProperties
    <3>2. \A n \in Nat : n # 0 /\ n # 1 => n >= 2
      OBVIOUS
    <3> QED BY <1>4, <3>1, <3>2
  <2>2. s[2] \in S
    BY <2>1, ElementOfSeq
  <2>3. Tail(s) # <<>>
    BY <1>1, <2>1
  <2>4. Tail(Tail(s)) \in Seq(S)
    BY <1>1, <2>3, HeadTailProperties
  <2> QED BY <1>2, <2>2, <2>4, ConcatProperties
<1> QED BY <1>1, <1>3, <1>4

\* A call returns to a caller that goes on, ends or fails.
LEMMA ReturnGood ==
  ASSUME NEW live, NEW globals, stack \in Seq(GoodFrames(live, globals)), stack # <<>>,
         NEW error \in BOOLEAN, NEW size, Return(error, size)
  PROVE  stack' \in Seq(GoodFrames(live, globals))
<1>1. CASE Len(stack) = 1
  <2>1. stack' = <<>>
    BY <1>1 DEF Return
  <2> QED BY <2>1, EmptySeq
<1>2. CASE Len(stack) # 1
  <2> DEFINE caller == stack[2]
  <2> DEFINE next == IF error THEN [caller EXCEPT !.at = "failed"]
                     ELSE IF caller.at = "params" THEN [caller EXCEPT !.next = @ + 1]
                     ELSE [caller EXCEPT !.at = "done"]
  <2>1. caller \in GoodFrames(live, globals)
    BY <1>2, StackParts
  <2>2. [caller EXCEPT !.at = "failed"] \in GoodFrames(live, globals)
    BY <2>1 DEF GoodFrames, GoodFrame, Frames
  <2>3. [caller EXCEPT !.at = "done"] \in GoodFrames(live, globals)
    <3>1. [caller EXCEPT !.at = "done"] \in Frames
      BY <2>1 DEF GoodFrames, Frames
    <3>2. GoodFrame([caller EXCEPT !.at = "done"], live, globals)
      BY <2>1 DEF GoodFrames, GoodFrame, Frames
    <3> QED BY <3>1, <3>2 DEF GoodFrames
  <2>4. [caller EXCEPT !.next = @ + 1] \in GoodFrames(live, globals)
    <3>1. caller.next + 1 \in Nat \ {0}
      BY <2>1 DEF GoodFrames, Frames
    <3> QED BY <2>1, <3>1 DEF GoodFrames, GoodFrame, Frames
  <2>5. next \in GoodFrames(live, globals)
    BY <2>2, <2>3, <2>4
  <2>6. stack' = <<next>> \o Tail(Tail(stack))
    BY <1>2 DEF Return
  <2> HIDE DEF next
  <2> QED BY <1>2, <2>5, <2>6, StackParts
<1> QED BY <1>1, <1>2

\* The innermost call, and no state goes while it runs.
LEMMA TopGood ==
  ASSUME MInv, stack # <<>>
  PROVE  /\ Top \in Frames /\ GoodFrame(Top, regions, Globals)
         /\ closing = NULL
         /\ Top.state \in DOMAIN checks \cup {NULL}
<1>1. Top \in GoodFrames(regions, Globals)
  BY StackParts DEF MInv, Top
<1>2. closing = NULL
  BY DEF MInv, TypesGood
<1> QED BY <1>1, <1>2 DEF GoodFrames, GoodFrame, Globals, Frames

\* Only the stack changes.
LEMMA StackStep ==
  ASSUME MInv, stack # <<>>, UNCHANGED <<memory, pools, checks, closing>>,
         stack' \in Seq(GoodFrames(regions, Globals))
  PROVE  MInv'
<1>1. UNCHANGED <<regions, parent, fault, pools, checks, closing>> /\ closing = NULL
  BY TopGood DEF memory
<1>2. TypesGood' /\ RootsGood' /\ RootsTracked' /\ NoFault'
  BY <1>1 DEF MInv, TypesGood, RootsGood, RootsTracked, NoFault, Owns
<1>3. Globals' = Globals
  BY <1>1 DEF Globals
<1> QED BY <1>1, <1>2, <1>3 DEF MInv

LEMMA AnswerSteps ==
  ASSUME MInv, CheckConstant \/ RefusePseudo \/ AnswerKnown \/ PassOn
  PROVE  MInv'
<1>1. stack # <<>> /\ UNCHANGED <<memory, pools, checks, closing>>
  BY DEF CheckConstant, RefusePseudo, AnswerKnown, PassOn, At
<1>2. PICK error \in BOOLEAN : \E size : Return(error, size)
  BY DEF CheckConstant, RefusePseudo, AnswerKnown, PassOn
<1>3. stack \in Seq(GoodFrames(regions, Globals))
  BY DEF MInv
<1>4. stack' \in Seq(GoodFrames(regions, Globals))
  BY <1>1, <1>2, <1>3, ReturnGood
<1> QED BY <1>1, <1>4, StackStep

LEMMA UseGlobalStep ==
  ASSUME MInv, UseGlobal
  PROVE  MInv'
<1> DEFINE next == [Top EXCEPT !.at = "alloc", !.fn = Top.global]
<1>1. /\ stack # <<>> /\ UNCHANGED <<memory, pools, checks, closing>>
      /\ Top.global # NULL /\ stack' = <<next>> \o Tail(stack)
  BY DEF UseGlobal, At, Update
<1>2. next \in GoodFrames(regions, Globals)
  BY <1>1, TopGood DEF GoodFrames, GoodFrame, Frames
<1> HIDE DEF next
<1>3. stack' \in Seq(GoodFrames(regions, Globals))
  BY <1>1, <1>2, StackParts DEF MInv
<1> QED BY <1>1, <1>3, StackStep

LEMMA DelegateStep ==
  ASSUME MInv, Delegate
  PROVE  MInv'
<1> DEFINE next == [Top EXCEPT !.expr = Body[Top.expr]]
<1>1. /\ stack # <<>> /\ UNCHANGED <<memory, pools, checks, closing>>
      /\ Kind[Top.expr] = "fndef" /\ stack' = <<next>> \o Tail(stack)
  BY DEF Delegate, At, Update
<1>2. next \in GoodFrames(regions, Globals)
  <2>1. Top \in Frames /\ GoodFrame(Top, regions, Globals)
    BY <1>1, TopGood
  <2>2. Body[Top.expr] \in Expr
    BY <1>1, <2>1, ExprAssumption DEF Frames
  <2>3. next \in Frames
    BY <2>1, <2>2 DEF Frames
  <2>4. GoodFrame(next, regions, Globals)
    BY <2>1 DEF GoodFrame, Frames
  <2> QED BY <2>3, <2>4 DEF GoodFrames
<1> HIDE DEF next
<1>3. stack' \in Seq(GoodFrames(regions, Globals))
  BY <1>1, <1>2, StackParts DEF MInv
<1> QED BY <1>1, <1>3, StackStep

\* Parameters and body are checked with regions of the function's.
LEMMA NestedIsGood ==
  ASSUME NEW e \in Expr, NEW r \in regions, NULL \notin regions, regions \subseteq Region,
         NEW globals
  PROVE  Frame(NULL, e, r) \in GoodFrames(regions, globals)
BY DEF Frame, GoodFrames, GoodFrame, Frames

LEMMA CheckParamStep ==
  ASSUME MInv, CheckParam
  PROVE  MInv'
<1> DEFINE nested == Frame(NULL, Params[Top.expr][Top.next], Top.param)
<1>1. /\ stack # <<>> /\ UNCHANGED <<memory, pools, checks, closing>>
      /\ Top.at = "params" /\ Top.next <= Len(Params[Top.expr]) /\ stack' = <<nested>> \o stack
  BY DEF CheckParam, At
<1>2. Top \in Frames /\ Top.param \in regions
  BY <1>1, TopGood DEF GoodFrame
<1>3. Params[Top.expr][Top.next] \in Expr
  <2>1. Params[Top.expr] \in Seq(Expr) /\ Top.next \in Nat \ {0}
    BY <1>2, ExprAssumption DEF Frames
  <2>2. Top.next \in 1..Len(Params[Top.expr])
    BY <1>1, <2>1
  <2> QED BY <2>1, <2>2, ElementOfSeq
<1>4. NULL \notin regions /\ regions \subseteq Region
  BY NullAssumption DEF MInv, TypesGood
<1>5. nested \in GoodFrames(regions, Globals)
  BY <1>2, <1>3, <1>4, NestedIsGood
<1> HIDE DEF nested
<1>6. stack' \in Seq(GoodFrames(regions, Globals))
  BY <1>1, <1>5, StackParts DEF MInv
<1> QED BY <1>1, <1>6, StackStep

LEMMA CheckBodyStep ==
  ASSUME MInv, CheckBody
  PROVE  MInv'
<1> DEFINE nested == Frame(NULL, Body[Top.expr], Top.body)
           next == [Top EXCEPT !.at = "body"]
<1>1. /\ stack # <<>> /\ UNCHANGED <<memory, pools, checks, closing>>
      /\ Top.at = "params" /\ Kind[Top.expr] = "lambda"
      /\ stack' = <<nested, next>> \o Tail(stack)
  BY DEF CheckBody, At
<1>2. Top \in Frames /\ GoodFrame(Top, regions, Globals)
  BY <1>1, TopGood
<1>3. Body[Top.expr] \in Expr /\ Top.body \in regions
  BY <1>1, <1>2, ExprAssumption DEF Frames, GoodFrame
<1>4. NULL \notin regions /\ regions \subseteq Region
  BY NullAssumption DEF MInv, TypesGood
<1>5. nested \in GoodFrames(regions, Globals)
  BY <1>3, <1>4, NestedIsGood
<1>6. next \in GoodFrames(regions, Globals)
  BY <1>2 DEF GoodFrames, GoodFrame, Frames
<1> HIDE DEF nested, next
<1>7. <<nested, next>> \in Seq(GoodFrames(regions, Globals))
  BY <1>5, <1>6
<1>8. stack' \in Seq(GoodFrames(regions, Globals))
  BY <1>1, <1>7, StackParts, ConcatProperties DEF MInv
<1> QED BY <1>1, <1>8, StackStep

-----------------------------------------------------------------------------
(* Steps that create regions and storages.                                 *)

\* What a state remembers does not matter to its regions.
LEMMA RememberStep ==
  ASSUME MInv, stack # <<>>, NEW e \in Expr, NEW r \in Region \cup {NULL}, Remember(e, r),
         UNCHANGED <<regions, parent, fault, pools, closing>>,
         stack' \in Seq(GoodFrames(regions, Globals))
  PROVE  MInv'
<1>1. closing = NULL /\ Top.state \in DOMAIN checks \cup {NULL}
  BY TopGood
<1>2. checks \in [DOMAIN checks -> Fields] /\ DOMAIN checks \subseteq State
  BY DEF MInv, TypesGood
<1>3. ASSUME NEW m \in UNION {[E -> Region \cup {NULL}] : E \in SUBSET Expr}
      PROVE  Put(m, e, r) \in UNION {[E -> Region \cup {NULL}] : E \in SUBSET Expr}
  <2>1. PICK E \in SUBSET Expr : m \in [E -> Region \cup {NULL}]
    OBVIOUS
  <2>2. Put(m, e, r) \in [E \cup {e} -> Region \cup {NULL}]
    BY <2>1 DEF Put
  <2> QED BY <2>2
<1>4. DOMAIN checks' = DOMAIN checks /\ checks' \in [DOMAIN checks -> Fields]
  <2>1. CASE Top.state = NULL
    BY <1>2, <2>1 DEF Remember
  <2>2. CASE Top.state # NULL
    <3>1. checks[Top.state] \in Fields
      BY <1>1, <1>2, <2>2
    <3>2. [checks[Top.state] EXCEPT !.regionMap = Put(@, e, r)] \in Fields
      BY <1>3, <3>1 DEF Fields
    <3>3. checks' = [checks EXCEPT ![Top.state] = [checks[Top.state] EXCEPT !.regionMap = Put(@, e, r)]]
      BY <2>2 DEF Remember
    <3> QED BY <1>2, <3>2, <3>3
  <2> QED BY <2>1, <2>2
<1>5. \A st \in DOMAIN checks : /\ checks'[st].global = checks[st].global
                               /\ checks'[st].regions = checks[st].regions
                               /\ checks'[st].usable = checks[st].usable
  BY <1>1, <1>2 DEF Remember, Fields
<1>6. TypesGood' /\ NoFault'
  BY <1>1, <1>4 DEF MInv, TypesGood, NoFault
<1>7. RootsGood' /\ RootsTracked'
  BY <1>4, <1>5 DEF MInv, RootsGood, RootsTracked, Owns
<1>8. Globals' = Globals
  BY <1>4, <1>5 DEF Globals
<1> QED BY <1>6, <1>7, <1>8 DEF MInv

LEMMA AllocateStep ==
  ASSUME MInv, NEW s \in Storage, Allocate(s)
  PROVE  MInv'
<1>1. /\ stack # <<>> /\ Remember(Top.expr, Top.fn) /\ UNCHANGED <<pools, closing>>
      /\ UNCHANGED <<regions, parent, fault>>
  BY DEF Allocate, At, RegionAlloc
<1>2. PICK size : Return(FALSE, size)
  BY DEF Allocate
<1>3. Top.expr \in Expr /\ Top.fn \in Region \cup {NULL}
  BY <1>1, TopGood DEF Frames
<1>4. stack' \in Seq(GoodFrames(regions, Globals))
  BY <1>1, <1>2, ReturnGood DEF MInv
<1> QED BY <1>1, <1>3, <1>4, RememberStep

LEMMA AnswerLambdaStep ==
  ASSUME MInv, AnswerLambda
  PROVE  MInv'
<1>1. /\ stack # <<>> /\ Remember(Top.expr, Top.fn) /\ UNCHANGED <<pools, closing>>
      /\ UNCHANGED <<regions, parent, fault>>
  BY DEF AnswerLambda, At, memory
<1>2. PICK size : Return(FALSE, size)
  BY DEF AnswerLambda
<1>3. Top.expr \in Expr /\ Top.fn \in Region \cup {NULL}
  BY <1>1, TopGood DEF Frames
<1>4. stack' \in Seq(GoodFrames(regions, Globals))
  BY <1>1, <1>2, ReturnGood DEF MInv
<1> QED BY <1>1, <1>3, <1>4, RememberStep

\* A region that is opened has a parent, or is the first of the state's.
LEMMA OpenStep ==
  ASSUME MInv, stack # <<>>, NEW r \in Region, NEW p \in Region \cup {NULL}, CreateRegion(r, p),
         UNCHANGED <<pools, closing>>,
         \/ p # NULL /\ UNCHANGED checks
         \/ p = Top.global /\ Track(r),
         stack' \in Seq(GoodFrames(regions', Globals))
  PROVE  MInv'
<1>1. /\ closing = NULL /\ Top.state \in DOMAIN checks \cup {NULL}
      /\ Top.state = NULL => Top.global # NULL
      /\ Top.state # NULL => Top.global = checks[Top.state].global
  BY TopGood DEF GoodFrame, Globals
<1>2. checks \in [DOMAIN checks -> Fields] /\ DOMAIN checks \subseteq State
  BY DEF MInv, TypesGood
<1>3. /\ r \notin regions /\ regions' = regions \cup {r} /\ UNCHANGED fault
      /\ parent' = [parent EXCEPT ![r] = p] /\ parent \in [Region -> Region \cup {NULL}]
      /\ regions \subseteq Region /\ pools \subseteq regions
  BY DEF CreateRegion, MInv, TypesGood
<1>4. parent'[r] = p /\ \A q \in regions : parent'[q] = parent[q]
  BY <1>3
<1>5. DOMAIN checks' = DOMAIN checks /\ checks' \in [DOMAIN checks -> Fields]
  <2>1. \A c \in Fields : [c EXCEPT !.regions = @ \cup {r}] \in Fields
    BY DEF Fields
  <2>2. CASE UNCHANGED checks
    BY <1>2, <2>2
  <2>3. CASE Track(r) /\ Top.state # NULL
    BY <1>1, <1>2, <2>1, <2>3 DEF Track
  <2> QED BY <2>2, <2>3 DEF Track
<1>6. \A st \in DOMAIN checks : /\ checks'[st].global = checks[st].global
                               /\ checks'[st].usable = checks[st].usable
  BY <1>1, <1>2 DEF Track, Fields
<1>7. \A st \in DOMAIN checks : \A q \in Region \ {r} : Owns(st, q)' <=> Owns(st, q)
  <2>1. ASSUME NEW st \in DOMAIN checks, NEW q \in Region \ {r}
        PROVE  q \in checks'[st].regions <=> q \in checks[st].regions
    BY <1>1, <1>2 DEF Track, Fields
  <2> QED BY <1>6, <2>1 DEF Owns
<1>8. \A st \in DOMAIN checks : Owns(st, r)' <=> p = NULL /\ st = Top.state
  <2> SUFFICES ASSUME NEW st \in DOMAIN checks
               PROVE  Owns(st, r)' <=> p = NULL /\ st = Top.state
    OBVIOUS
  <2>1. ~Owns(st, r)
    BY <1>3 DEF MInv, RootsGood
  <2>2. CASE p # NULL /\ UNCHANGED checks
    BY <2>1, <2>2 DEF Owns
  <2>3. CASE p = Top.global /\ Track(r) /\ st # Top.state
    <3>1. checks'[st] = checks[st]
      BY <1>2, <2>3 DEF Track
    <3> QED BY <2>1, <2>3, <3>1 DEF Owns
  <2>4. CASE p = Top.global /\ Track(r) /\ st = Top.state
    <3>1. Top.state # NULL
      BY <1>2, <2>4, StateAssumption
    <3>2. r \in checks'[st].regions
      BY <1>2, <2>4, <3>1 DEF Track, Fields
    <3>3. checks'[st].global = p
      BY <1>1, <1>6, <2>4, <3>1
    <3>4. Owns(st, r)' <=> p = NULL
      BY <3>2, <3>3 DEF Owns
    <3> QED BY <2>4, <3>4
  <2> QED BY <2>2, <2>3, <2>4
<1>9. TypesGood' /\ NoFault'
  BY <1>1, <1>2, <1>3, <1>5 DEF MInv, TypesGood, NoFault
<1>10. RootsGood'
  <2>1. \A q \in pools' : parent'[q] = NULL
    BY <1>3, <1>4 DEF MInv, RootsGood
  <2>2. \A st \in DOMAIN checks : \A q \in Region :
          Owns(st, q)' => q \in regions' /\ q \notin pools' /\ parent'[q] = NULL
    <3> SUFFICES ASSUME NEW st \in DOMAIN checks, NEW q \in Region, Owns(st, q)'
                 PROVE  q \in regions' /\ q \notin pools' /\ parent'[q] = NULL
      OBVIOUS
    <3>1. CASE q = r
      <4>1. p = NULL
        BY <1>8, <3>1
      <4> QED BY <1>3, <1>4, <3>1, <4>1
    <3>2. CASE q # r
      <4>1. Owns(st, q)
        BY <1>7, <3>2
      <4>2. q \in regions /\ q \notin pools /\ parent[q] = NULL
        BY <4>1 DEF MInv, RootsGood
      <4> QED BY <1>3, <1>4, <4>2
    <3> QED BY <3>1, <3>2
  <2>3. \A st \in DOMAIN checks : checks'[st].usable /\ checks'[st].global # NULL =>
          checks'[st].global \in pools'
    BY <1>6 DEF MInv, RootsGood
  <2>4. (\A st \in DOMAIN checks : \A q \in Region :
           Owns(st, q) => q \in regions /\ q \notin pools /\ parent[q] = NULL)'
    BY <1>5, <2>2
  <2> QED BY <1>5, <2>1, <2>3, <2>4 DEF RootsGood
<1>11. RootsTracked'
  <2> SUFFICES ASSUME NEW q \in regions', parent'[q] = NULL, q \notin pools
               PROVE  /\ \E st \in DOMAIN checks : Owns(st, q)'
                      /\ \A st1, st2 \in DOMAIN checks : Owns(st1, q)' /\ Owns(st2, q)' => st1 = st2
    BY <1>5 DEF RootsTracked, Owns
  <2>1. CASE q = r
    <3>1. p = NULL
      BY <1>4, <2>1
    <3>2. Top.state \in DOMAIN checks
      BY <1>1, <3>1
    <3> QED BY <1>8, <2>1, <3>1, <3>2
  <2>2. CASE q \in regions
    <3>1. /\ \E st \in DOMAIN checks : Owns(st, q)
          /\ \A st1, st2 \in DOMAIN checks : Owns(st1, q) /\ Owns(st2, q) => st1 = st2
      BY <1>4, <2>2 DEF MInv, RootsTracked, Owns
    <3>2. q \in Region \ {r}
      BY <1>3, <2>2
    <3> QED BY <1>7, <3>1, <3>2
  <2> QED BY <1>3, <2>1, <2>2
<1>12. Globals' = Globals
  BY <1>5, <1>6 DEF Globals
<1> QED BY <1>9, <1>10, <1>11, <1>12 DEF MInv

\* The calls under way go on with one region more.
LEMMA OpenStack ==
  ASSUME MInv, stack # <<>>, NEW r \in Region, NEW p, CreateRegion(r, p), NEW next,
         next \in GoodFrames(regions', Globals), Update(next)
  PROVE  stack' \in Seq(GoodFrames(regions', Globals))
<1>1. regions \subseteq regions'
  BY DEF CreateRegion
<1>2. stack \in Seq(GoodFrames(regions', Globals))
  BY <1>1, MoreLive DEF MInv
<1>3. stack' = <<next>> \o Tail(stack)
  BY DEF Update
<1> QED BY <1>2, <1>3, StackParts

LEMMA OpenGlobalStep ==
  ASSUME MInv, NEW r \in Region, OpenGlobal(r)
  PROVE  MInv'
<1> DEFINE next == [Top EXCEPT !.at = "alloc", !.fn = r]
<1>1. /\ stack # <<>> /\ Top.global = NULL /\ CreateRegion(r, NULL) /\ Track(r)
      /\ Update(next) /\ UNCHANGED <<pools, closing>>
  BY DEF OpenGlobal, At
<1>2. regions' = regions \cup {r}
  BY <1>1 DEF CreateRegion
<1>3. next \in GoodFrames(regions', Globals)
  BY <1>1, <1>2, TopGood DEF GoodFrames, GoodFrame, Frames
<1> HIDE DEF next
<1>4. stack' \in Seq(GoodFrames(regions', Globals))
  BY <1>1, <1>3, OpenStack
<1> QED BY <1>1, <1>4, OpenStep

LEMMA OpenFunctionStep ==
  ASSUME MInv, NEW r \in Region, OpenFunction(r)
  PROVE  MInv'
<1> DEFINE next == [Top EXCEPT !.at = "function", !.fn = r]
<1>1. /\ stack # <<>> /\ CreateRegion(r, Top.global) /\ Track(r)
      /\ Update(next) /\ UNCHANGED <<pools, closing>>
  BY DEF OpenFunction, At
<1>2. regions' = regions \cup {r} /\ Top.global \in Region \cup {NULL}
  BY <1>1, TopGood DEF CreateRegion, Frames
<1>3. next \in GoodFrames(regions', Globals)
  BY <1>1, <1>2, TopGood DEF GoodFrames, GoodFrame, Frames
<1> HIDE DEF next
<1>4. stack' \in Seq(GoodFrames(regions', Globals))
  BY <1>1, <1>3, OpenStack
<1> QED BY <1>1, <1>2, <1>4, OpenStep

LEMMA OpenParamsStep ==
  ASSUME MInv, NEW r \in Region, OpenParams(r)
  PROVE  MInv'
<1> DEFINE next == [Top EXCEPT !.at = "open", !.param = r]
<1>1. /\ stack # <<>> /\ Top.at = "function" /\ CreateRegion(r, Top.fn)
      /\ Update(next) /\ UNCHANGED <<pools, checks, closing>>
  BY DEF OpenParams, At
<1>2. regions' = regions \cup {r} /\ Top.fn \in Region /\ Top.fn # NULL
  BY <1>1, TopGood, NullAssumption DEF CreateRegion, GoodFrame, MInv, TypesGood
<1>3. next \in GoodFrames(regions', Globals)
  BY <1>1, <1>2, TopGood DEF GoodFrames, GoodFrame, Frames
<1> HIDE DEF next
<1>4. stack' \in Seq(GoodFrames(regions', Globals))
  BY <1>1, <1>3, OpenStack
<1> QED BY <1>1, <1>2, <1>4, OpenStep

LEMMA OpenBodyStep ==
  ASSUME MInv, NEW r \in Region, OpenBody(r)
  PROVE  MInv'
<1> DEFINE next == [Top EXCEPT !.at = "params", !.body = r]
<1>1. /\ stack # <<>> /\ Top.at = "open" /\ CreateRegion(r, Top.fn)
      /\ Update(next) /\ UNCHANGED <<pools, checks, closing>>
  BY DEF OpenBody, At
<1>2. regions' = regions \cup {r} /\ Top.fn \in Region /\ Top.fn # NULL
  BY <1>1, TopGood, NullAssumption DEF CreateRegion, GoodFrame, MInv, TypesGood
<1>3. next \in GoodFrames(regions', Globals)
  BY <1>1, <1>2, TopGood DEF GoodFrames, GoodFrame, Frames
<1> HIDE DEF next
<1>4. stack' \in Seq(GoodFrames(regions', Globals))
  BY <1>1, <1>3, OpenStack
<1> QED BY <1>1, <1>2, <1>4, OpenStep

-----------------------------------------------------------------------------
(* Steps of the client, and of the destructor of a state.                  *)

\* Nothing runs, so any frames will do.
LEMMA EmptyGood ==
  ASSUME stack = <<>>, NEW live, NEW globals
  PROVE  stack \in Seq(GoodFrames(live, globals))
BY EmptySeq

LEMMA OpenPoolStep ==
  ASSUME MInv, NEW r \in Region, OpenPool(r)
  PROVE  MInv'
<1>1. /\ r \notin regions /\ regions' = regions \cup {r} /\ pools' = pools \cup {r}
      /\ parent' = [parent EXCEPT ![r] = NULL] /\ parent \in [Region -> Region \cup {NULL}]
      /\ UNCHANGED <<fault, checks, closing, stack>> /\ stack = <<>> /\ closing = NULL
      /\ regions \subseteq Region /\ pools \subseteq regions
  BY DEF OpenPool, Idle, CreateRegion, MInv, TypesGood
<1>2. parent'[r] = NULL /\ \A q \in regions : parent'[q] = parent[q]
  BY <1>1
<1>3. TypesGood' /\ NoFault'
  BY <1>1 DEF MInv, TypesGood, NoFault
<1>4. RootsGood'
  BY <1>1, <1>2 DEF MInv, RootsGood, Owns
<1>5. RootsTracked'
  BY <1>1, <1>2 DEF MInv, RootsTracked
<1>6. (stack \in Seq(GoodFrames(regions, Globals)))'
  BY <1>1, EmptySeq
<1> QED BY <1>3, <1>4, <1>5, <1>6 DEF MInv

LEMMA ClosePoolStep ==
  ASSUME MInv, NEW r \in Region, ClosePool(r)
  PROVE  MInv'
<1>1. r \in pools /\ r \in regions /\ parent[r] = NULL
  BY DEF ClosePool, MInv, TypesGood, RootsGood
<1>2. /\ regions' = regions \ {r} /\ pools' = pools \ {r}
      /\ UNCHANGED <<parent, fault, closing, stack>> /\ stack = <<>> /\ closing = NULL
  BY <1>1 DEF ClosePool, Idle, DestroyRegion
<1>3. checks \in [DOMAIN checks -> Fields]
  BY DEF MInv, TypesGood
<1>4. /\ DOMAIN checks' = DOMAIN checks
      /\ checks' \in [DOMAIN checks -> Fields]
      /\ \A st \in DOMAIN checks :
           /\ checks'[st].global = checks[st].global
           /\ checks'[st].regions = checks[st].regions
           /\ checks'[st].usable => checks[st].usable /\ checks[st].global # r
  BY <1>3 DEF ClosePool, Fields
<1>5. TypesGood' /\ NoFault'
  BY <1>2, <1>4 DEF MInv, TypesGood, NoFault
<1>6. RootsGood'
  BY <1>1, <1>2, <1>4 DEF MInv, RootsGood, Owns
<1>7. RootsTracked'
  BY <1>2, <1>4 DEF MInv, RootsTracked
<1>8. (stack \in Seq(GoodFrames(regions, Globals)))'
  BY <1>2, EmptySeq
<1> QED BY <1>5, <1>6, <1>7, <1>8 DEF MInv

LEMMA CreateStateStep ==
  ASSUME MInv, NEW st \in State, NEW global \in Region \cup {NULL}, CreateState(st, global)
  PROVE  MInv'
<1> DEFINE fields == [global |-> global, regions |-> {}, regionMap |-> <<>>, usable |-> TRUE]
<1>1. /\ UNCHANGED <<regions, parent, fault, pools, closing, stack>> /\ stack = <<>>
      /\ closing = NULL /\ st \notin DOMAIN checks /\ global \in pools \cup {NULL}
      /\ checks' = Put(checks, st, fields)
  BY DEF CreateState, Idle, memory
<1>2. checks \in [DOMAIN checks -> Fields]
  BY DEF MInv, TypesGood
<1>3. fields \in Fields
  <2>1. <<>> \in [{} -> Region \cup {NULL}]
    OBVIOUS
  <2>2. <<>> \in UNION {[E -> Region \cup {NULL}] : E \in SUBSET Expr}
    BY <2>1
  <2> QED BY <2>2 DEF Fields
<1>4. fields.global = global /\ fields.regions = {}
  OBVIOUS
<1> HIDE DEF fields
<1>5. /\ DOMAIN checks' = DOMAIN checks \cup {st}
      /\ checks' \in [DOMAIN checks \cup {st} -> Fields]
      /\ checks'[st] = fields
      /\ \A other \in DOMAIN checks : checks'[other] = checks[other]
  BY <1>1, <1>2, <1>3 DEF Put
<1>6. TypesGood' /\ NoFault'
  BY <1>1, <1>5 DEF MInv, TypesGood, NoFault
<1>7. RootsGood'
  BY <1>1, <1>4, <1>5 DEF MInv, RootsGood, Owns
<1>8. RootsTracked'
  BY <1>1, <1>4, <1>5 DEF MInv, RootsTracked
<1>9. (stack \in Seq(GoodFrames(regions, Globals)))'
  BY <1>1, EmptySeq
<1> QED BY <1>6, <1>7, <1>8, <1>9 DEF MInv

\* A state a client uses has a live pool, or none.
LEMMA AskStep ==
  ASSUME MInv, NEW st \in State, NEW expr \in Expr, Ask(st, expr)
  PROVE  MInv'
<1> DEFINE first == Frame(st, expr, checks[st].global)
<1>1. /\ UNCHANGED <<regions, parent, fault, pools, checks, closing>>
      /\ closing = NULL /\ st \in DOMAIN checks /\ checks[st].usable /\ stack' = <<first>>
  BY DEF Ask, Idle, memory
<1>2. checks[st].global \in regions \cup {NULL} /\ regions \subseteq Region
  BY <1>1 DEF MInv, TypesGood, RootsGood
<1>3. st # NULL
  BY StateAssumption
<1>4. first \in GoodFrames(regions, Globals)
  BY <1>1, <1>2, <1>3 DEF Frame, GoodFrames, GoodFrame, Frames, Globals
<1> HIDE DEF first
<1>5. stack' \in Seq(GoodFrames(regions, Globals))
  BY <1>1, <1>4
<1>6. TypesGood' /\ RootsGood' /\ RootsTracked' /\ NoFault'
  BY <1>1 DEF MInv, TypesGood, RootsGood, RootsTracked, NoFault, Owns
<1>7. Globals' = Globals
  BY <1>1 DEF Globals
<1> QED BY <1>1, <1>5, <1>6, <1>7 DEF MInv

LEMMA DestroyStateStep ==
  ASSUME MInv, NEW st \in State, DestroyState(st)
  PROVE  MInv'
<1>1. /\ UNCHANGED <<regions, parent, fault, pools, checks, stack>> /\ stack = <<>>
      /\ st \in DOMAIN checks /\ closing' = st
  BY DEF DestroyState, Idle, memory
<1>2. TypesGood' /\ RootsGood' /\ RootsTracked' /\ NoFault'
  BY <1>1 DEF MInv, TypesGood, RootsGood, RootsTracked, NoFault, Owns
<1>3. (stack \in Seq(GoodFrames(regions, Globals)))'
  BY <1>1, EmptySeq
<1> QED BY <1>2, <1>3 DEF MInv

LEMMA ReleaseRegionStep ==
  ASSUME MInv, NEW r \in Region, ReleaseRegion(r)
  PROVE  MInv'
<1>1. /\ closing \in DOMAIN checks /\ stack = <<>> /\ Owns(closing, r)
      /\ checks \in [DOMAIN checks -> Fields]
  BY DEF ReleaseRegion, Releases, Owns, MInv, TypesGood
<1>2. r \in regions /\ r \notin pools /\ parent[r] = NULL
  BY <1>1 DEF MInv, RootsGood
<1>3. /\ regions' = regions \ {r} /\ UNCHANGED <<parent, fault, pools, closing, stack>>
      /\ checks' = [checks EXCEPT ![closing].regions = @ \ {r}]
  BY <1>2 DEF ReleaseRegion, DestroyRegion
<1>4. /\ DOMAIN checks' = DOMAIN checks
      /\ checks' \in [DOMAIN checks -> Fields]
      /\ \A st \in DOMAIN checks :
           /\ checks'[st].global = checks[st].global
           /\ checks'[st].usable = checks[st].usable
           /\ \A q \in Region \ {r} : q \in checks'[st].regions <=> q \in checks[st].regions
           /\ st # closing => checks'[st].regions = checks[st].regions
      /\ r \notin checks'[closing].regions
  BY <1>1, <1>3 DEF Fields
<1>5. \A st \in DOMAIN checks : ~(checks'[st].global = NULL /\ r \in checks'[st].regions)
  <2>1. \A st \in DOMAIN checks : Owns(st, r) => st = closing
    BY <1>1, <1>2 DEF MInv, RootsTracked, Owns
  <2> QED BY <1>4, <2>1 DEF Owns
<1>6. TypesGood' /\ NoFault'
  BY <1>1, <1>2, <1>3, <1>4 DEF MInv, TypesGood, NoFault
<1>7. RootsGood'
  <2>1. \A st \in DOMAIN checks' : \A q \in Region : Owns(st, q)' => q # r /\ Owns(st, q)
    BY <1>4, <1>5 DEF Owns
  <2>2. (\A st \in DOMAIN checks : \A q \in Region :
           Owns(st, q) => q \in regions /\ q \notin pools /\ parent[q] = NULL)'
    BY <1>3, <1>4, <2>1 DEF MInv, RootsGood
  <2> QED BY <1>3, <1>4, <2>2 DEF MInv, RootsGood
<1>8. RootsTracked'
  <2>1. regions \subseteq Region
    BY DEF MInv, TypesGood
  <2> QED BY <1>3, <1>4, <2>1 DEF MInv, RootsTracked
<1>9. (stack \in Seq(GoodFrames(regions, Globals)))'
  BY <1>1, <1>3, EmptySeq
<1> QED BY <1>6, <1>7, <1>8, <1>9 DEF MInv

LEMMA FreeStateStep ==
  ASSUME MInv, FreeState
  PROVE  MInv'
<1>1. /\ closing \in DOMAIN checks /\ stack = <<>> /\ closing' = NULL
      /\ UNCHANGED <<regions, parent, fault, pools, stack>>
      /\ checks[closing].global = NULL => checks[closing].regions = {}
      /\ checks' = [st \in DOMAIN checks \ {closing} |-> checks[st]]
  BY DEF FreeState, Releases, memory, MInv, TypesGood
<1>2. checks \in [DOMAIN checks -> Fields]
  BY DEF MInv, TypesGood
<1>3. /\ DOMAIN checks' = DOMAIN checks \ {closing}
      /\ checks' \in [DOMAIN checks \ {closing} -> Fields]
      /\ \A st \in DOMAIN checks' : checks'[st] = checks[st]
  BY <1>1, <1>2
<1>4. TypesGood' /\ NoFault'
  BY <1>1, <1>3 DEF MInv, TypesGood, NoFault
<1>5. RootsGood'
  BY <1>1, <1>3 DEF MInv, RootsGood, Owns
<1>6. RootsTracked'
  BY <1>1, <1>3 DEF MInv, RootsTracked
<1>7. (stack \in Seq(GoodFrames(regions, Globals)))'
  BY <1>1, EmptySeq
<1> QED BY <1>4, <1>5, <1>6, <1>7 DEF MInv

-----------------------------------------------------------------------------
LEMMA InitM ==
  ASSUME CheckInit
  PROVE  MInv
<1>1. NoFault /\ TypesGood
  BY DEF CheckInit, Init, NoFault, TypesGood
<1>2. RootsGood /\ RootsTracked
  BY DEF CheckInit, Init, RootsGood, RootsTracked, Owns
<1>3. stack \in Seq(GoodFrames(regions, Globals))
  BY EmptySeq DEF CheckInit
<1> QED BY <1>1, <1>2, <1>3 DEF MInv

LEMMA NextM ==
  ASSUME MInv, [~fault /\ (ClientNext \/ CheckNext)]_<<memory, checkVars>>
  PROVE  MInv'
<1>1. CASE ClientNext
  BY <1>1, OpenPoolStep, ClosePoolStep, CreateStateStep, DestroyStateStep, AskStep
     DEF ClientNext
<1>2. CASE CheckNext
  <2>1. CASE \E r \in Region : ReleaseRegion(r) \/ OpenGlobal(r) \/ OpenFunction(r)
                               \/ OpenParams(r) \/ OpenBody(r)
    BY <2>1, ReleaseRegionStep, OpenGlobalStep, OpenFunctionStep, OpenParamsStep, OpenBodyStep
  <2>2. CASE FreeState \/ UseGlobal \/ Delegate \/ CheckParam \/ CheckBody \/ AnswerLambda
    BY <2>2, FreeStateStep, UseGlobalStep, DelegateStep, CheckParamStep, CheckBodyStep,
       AnswerLambdaStep
  <2>3. CASE CheckConstant \/ RefusePseudo \/ AnswerKnown \/ PassOn
    BY <2>3, AnswerSteps
  <2>4. CASE \E s \in Storage : Allocate(s)
    BY <2>4, AllocateStep
  <2> QED BY <1>2, <2>1, <2>2, <2>3, <2>4 DEF CheckNext
<1>3. CASE UNCHANGED <<memory, checkVars>>
  <2>1. UNCHANGED <<regions, parent, fault, pools, checks, closing, stack>>
    BY <1>3 DEF memory, checkVars
  <2> QED BY <2>1 DEF MInv, NoFault, TypesGood, RootsGood, RootsTracked, Owns, Globals
<1> QED BY <1>1, <1>2, <1>3

\* What every step of the memory checker and of its clients keeps: whatever a
\* check under way charges is live, and the regions without a parent are the
\* client's or those of one state (lib/memcheck.cpp).
THEOREM CheckerInvariant == MemCheckSpec => []MInv
<1>1. CheckInit => MInv
  BY InitM
<1>2. MInv /\ [~fault /\ (ClientNext \/ CheckNext)]_<<memory, checkVars>> => MInv'
  BY NextM
<1> QED BY <1>1, <1>2, PTL DEF MemCheckSpec

\* The memory checker and the destructor of its state follow no link to a
\* freed region, whatever expressions are checked in whatever order.
THEOREM CheckerNeverFaults == MemCheckSpec => []NoFault
<1>1. MInv => NoFault
  BY DEF MInv
<1> QED BY <1>1, CheckerInvariant, PTL

\* No region without a parent is forgotten and none is destroyed by two
\* states, as Region.h:41 asks.
THEOREM CheckerForgetsNoRoot == MemCheckSpec => []RootsTracked
<1>1. MInv => RootsTracked
  BY DEF MInv
<1> QED BY <1>1, CheckerInvariant, PTL

\* The memory checker uses regions only as any client may: what is proved of
\* every client of the regions holds while expressions are checked.
THEOREM CheckerIsAClient == MemCheckSpec => Spec
<1>1. CheckInit => Init
  BY DEF CheckInit
<1>2. ASSUME MInv, ~fault, ClientNext \/ CheckNext
      PROVE  Next \/ UNCHANGED vars
  <2>1. ASSUME NEW r \in Region, NEW p, CreateRegion(r, p)
        PROVE  Next
    <3>1. p \in Region \cup {NULL}
      BY <1>2, <2>1 DEF CreateRegion, MInv, TypesGood
    <3> QED BY <1>2, <2>1, <3>1 DEF Next
  <2>2. ASSUME NEW r \in Region, DestroyRegion(r)
        PROVE  Next
    BY <1>2, <2>2 DEF Next
  <2>3. CASE \E r \in Region : \/ OpenPool(r) \/ OpenGlobal(r) \/ OpenFunction(r)
                               \/ OpenParams(r) \/ OpenBody(r)
    BY <2>1, <2>3 DEF OpenPool, OpenGlobal, OpenFunction, OpenParams, OpenBody
  <2>4. CASE \E r \in Region : ClosePool(r) \/ ReleaseRegion(r)
    BY <2>2, <2>4 DEF ClosePool, ReleaseRegion
  <2>5. CASE \E s \in Storage : Allocate(s)
    <3>1. PICK s \in Storage : RegionAlloc(Top.fn, s, Charge(Top.expr)) /\ At("plain", "alloc")
      BY <2>5 DEF Allocate
    <3>2. Top.expr \in Expr
      BY <1>2, <3>1, TopGood DEF At, Frames
    <3>3. Charge(Top.expr) \in Request
      BY <3>1, <3>2, ChargeAssumption DEF At
    <3>4. Top.fn \in Region
      BY <1>2, <3>1 DEF RegionAlloc, MInv, TypesGood
    <3> QED BY <1>2, <3>1, <3>3, <3>4 DEF Next
  <2>6. CASE \/ \E st \in State, global \in Region \cup {NULL} : CreateState(st, global)
             \/ \E st \in State : DestroyState(st)
             \/ \E st \in State, e \in Expr : Ask(st, e)
    BY <2>6 DEF CreateState, DestroyState, Ask, memory, vars
  <2>7. CASE FreeState \/ CheckConstant \/ UseGlobal \/ Delegate \/ RefusePseudo
             \/ AnswerKnown \/ CheckParam \/ CheckBody \/ AnswerLambda \/ PassOn
    BY <2>7 DEF FreeState, CheckConstant, UseGlobal, Delegate, RefusePseudo, AnswerKnown,
                CheckParam, CheckBody, AnswerLambda, PassOn, memory, vars
  <2> QED BY <1>2, <2>3, <2>4, <2>5, <2>6, <2>7 DEF ClientNext, CheckNext
<1>3. MInv /\ [~fault /\ (ClientNext \/ CheckNext)]_<<memory, checkVars>> => [Next]_vars
  <2>1. UNCHANGED <<memory, checkVars>> => UNCHANGED vars
    BY DEF memory, vars
  <2> QED BY <1>2, <2>1
<1> QED BY <1>1, <1>3, CheckerInvariant, PTL DEF MemCheckSpec, Spec

-----------------------------------------------------------------------------
(* What an expression needs, and whether it is refused, by its structure.  *)

\* A recursion over expressions that looks at their parts only has a solution:
\* those on sets closed under parts agree, so that their union is one, and it
\* is a solution on every expression.
LooksAtParts(V, G) ==
  \A e \in Expr :
    /\ Parts(e) \subseteq Expr
    /\ \A h \in [Expr -> V] : G[e][h] \in V
    /\ \A h1, h2 \in [Expr -> V] : (\A d \in Parts(e) : h1[d] = h2[d]) => G[e][h1] = G[e][h2]
Solvable(V, G) == \E h \in [Expr -> V] : \A e \in Expr : h[e] = G[e][h]

LEMMA RecursionSolved ==
  ASSUME NEW V, V # {}, NEW G, LooksAtParts(V, G)
  PROVE  Solvable(V, G)
<1>0. PICK any \in V : TRUE
  OBVIOUS
<1> DEFINE Solves(D, h) == /\ D \in SUBSET Expr /\ h \in [Expr -> V]
                           /\ \A e \in D : Parts(e) \subseteq D /\ h[e] = G[e][h]
           Covered == {e \in Expr : \E D, h : Solves(D, h) /\ e \in D}
           Value(e) == CHOOSE v \in V : \E D, h : Solves(D, h) /\ e \in D /\ v = h[e]
           union == [e \in Expr |-> IF e \in Covered THEN Value(e) ELSE any]
<1>1. ASSUME NEW D1, NEW h1, Solves(D1, h1), NEW D2, NEW h2, Solves(D2, h2)
      PROVE  \A e \in D1 \cap D2 : h1[e] = h2[e]
  <2> DEFINE S == {e \in D1 \cap D2 : h1[e] # h2[e]}
  <2>1. S \in SUBSET Expr
    BY <1>1
  <2>2. ASSUME NEW e \in S, Parts(e) \cap S = {} PROVE FALSE
    <3>1. e \in Expr /\ Parts(e) \subseteq D1 /\ Parts(e) \subseteq D2
      BY <1>1
    <3>2. \A d \in Parts(e) : h1[d] = h2[d]
      BY <2>2, <3>1
    <3>3. G[e][h1] = G[e][h2]
      BY <1>1, <3>1, <3>2 DEF LooksAtParts
    <3> QED BY <1>1, <3>3
  <2>3. S = {}
    <3> HIDE DEF S
    <3> QED BY <2>1, <2>2, GroundedAssumption
  <2> QED BY <2>3
<1>2. ASSUME NEW D, NEW h, Solves(D, h), NEW e \in D
      PROVE  e \in Covered /\ union[e] = h[e]
  <2>1. e \in Covered /\ e \in Expr /\ h[e] \in V
    BY <1>2
  <2>2. Value(e) \in V /\ \E D2, h2 : Solves(D2, h2) /\ e \in D2 /\ Value(e) = h2[e]
    <3>1. \E v \in V : \E D2, h2 : Solves(D2, h2) /\ e \in D2 /\ v = h2[e]
      BY <1>2, <2>1
    <3> HIDE DEF Solves
    <3> QED BY <3>1
  <2>3. PICK D2, h2 : Solves(D2, h2) /\ e \in D2 /\ Value(e) = h2[e]
    BY <2>2
  <2>4. Value(e) = h[e]
    <3> HIDE DEF Solves, Value
    <3> QED BY <1>1, <1>2, <2>3
  <2> HIDE DEF Covered, Value
  <2> QED BY <2>1, <2>4
<1>3. union \in [Expr -> V]
  <2>1. ASSUME NEW e \in Covered PROVE union[e] \in V
    <3>1. PICK D, h : Solves(D, h) /\ e \in D
      OBVIOUS
    <3>2. union[e] = h[e]
      <4> HIDE DEF Solves, union, Covered
      <4> QED BY <1>2, <3>1
    <3> QED BY <3>1, <3>2
  <2> HIDE DEF Covered, Value
  <2> QED BY <2>1
<1>4. ASSUME NEW e \in Covered
      PROVE  Parts(e) \subseteq Covered /\ union[e] = G[e][union]
  <2>1. PICK D, h : Solves(D, h) /\ e \in D
    OBVIOUS
  <2>2. e \in Expr /\ h \in [Expr -> V] /\ Parts(e) \subseteq D /\ h[e] = G[e][h]
    BY <2>1
  <2>3. \A d \in D : d \in Covered /\ union[d] = h[d]
    <3> HIDE DEF Solves, union, Covered
    <3> QED BY <1>2, <2>1
  <2> HIDE DEF Covered, union, Solves
  <2>4. G[e][h] = G[e][union]
    BY <1>3, <2>2, <2>3 DEF LooksAtParts
  <2> QED BY <2>1, <2>2, <2>3, <2>4
<1>5. Expr \ Covered = {}
  <2> DEFINE S == Expr \ Covered
  <2>0. Covered \subseteq Expr
    OBVIOUS
  <2> HIDE DEF union, Covered
  <2>1. ASSUME NEW e \in S, Parts(e) \cap S = {} PROVE FALSE
    <3> DEFINE D == Covered \cup {e}
               h == [union EXCEPT ![e] = G[e][union]]
    <3>1. e \in Expr /\ e \notin Covered /\ Parts(e) \subseteq Covered /\ Covered \subseteq Expr
      BY <2>0, <2>1 DEF LooksAtParts
    <3>2. G[e][union] \in V
      BY <1>3, <3>1 DEF LooksAtParts
    <3>3. h \in [Expr -> V] /\ h[e] = G[e][union] /\ \A d \in Covered : h[d] = union[d]
      BY <1>3, <3>1, <3>2
    <3> HIDE DEF h
    <3>4. ASSUME NEW d \in D PROVE Parts(d) \subseteq D /\ h[d] = G[d][h]
      <4>1. d \in Expr /\ Parts(d) \subseteq Covered /\ h[d] = G[d][union]
        BY <1>4, <3>1, <3>3
      <4>2. \A c \in Parts(d) : union[c] = h[c]
        BY <3>3, <4>1
      <4>3. G[d][union] = G[d][h]
        BY <1>3, <3>3, <4>1, <4>2 DEF LooksAtParts
      <4> QED BY <4>1, <4>3
    <3>5. Solves(D, h)
      BY <3>1, <3>3, <3>4
    <3>6. e \in Covered
      <4> HIDE DEF Solves
      <4> QED BY <1>2, <3>5
    <3> QED BY <3>1, <3>6
  <2>2. S \in SUBSET Expr
    OBVIOUS
  <2> HIDE DEF S
  <2>3. S = {}
    BY <2>1, <2>2, GroundedAssumption
  <2> QED BY <2>3 DEF S
<1> HIDE DEF Covered, union
<1> QED BY <1>3, <1>4, <1>5 DEF Solvable

\* A list is added up position by position, whatever repeats in it.
LEMMA SumOfPositions ==
  ASSUME NEW X, NEW q \in Seq(X), NEW base \in 0 .. Word - 1, NEW f, NEW v,
         \A i \in DOMAIN q : v[i] \in Nat /\ v[i] = f[q[i]]
  PROVE  PlusRaw(q, base, f) = Rem(base + Total(DOMAIN q, v), Word)
<1> DEFINE D == DOMAIN q
           Loop(g) == g = [s \in SUBSET D |->
                             IF s = {} THEN base
                             ELSE (g[s \ {Max(s)}] + f[q[Max(s)]]) % Word]
           fold == CHOOSE g : Loop(g)
           G == [s \in SUBSET D |-> Rem(base + Total(s, v), Word)]
<1>0. Word \in Nat \ {0} /\ base \in Nat
  BY WordType
<1>1. PlusRaw(q, base, f) = fold[D]
  BY DEF PlusRaw, FoldLeft, MapThenFoldSet
<1>2. IsFiniteSet(D) /\ \A s \in SUBSET D : s # {} => Max(s) \in s
  BY PositionsFinite
<1>3. G[{}] = base
  <2>1. Rem(base, Word) = base /\ base + 0 = base
    BY <1>0, RemRange
  <2>2. G[{}] = Rem(base + Total({}, v), Word)
    OBVIOUS
  <2> QED BY <2>1, <2>2, TotalEmpty
<1>4. ASSUME NEW s \in SUBSET D, s # {}
      PROVE  G[s] = (G[s \ {Max(s)}] + f[q[Max(s)]]) % Word
  <2> DEFINE i == Max(s)
             rest == Total(s \ {i}, v)
             a == base + rest
             b == v[i]
  <2>1. i \in s
    BY <1>2, <1>4
  <2> HIDE DEF i
  <2>2. IsFiniteSet(s) /\ IsFiniteSet(s \ {i}) /\ \A j \in s : v[j] \in Nat
    BY <1>2, FS_Subset
  <2>3. Total(s, v) = rest + b /\ rest \in Nat /\ b \in Nat
    BY <2>1, <2>2, TotalAdds, TotalType
  <2>4. G[s \ {i}] = Rem(a, Word) /\ G[s] = Rem(base + Total(s, v), Word)
    OBVIOUS
  <2>5. a \in Int /\ b \in Int /\ base + Total(s, v) = a + b
    BY <1>0, <2>3
  <2>6. f[q[i]] = b
    BY <2>1
  <2> HIDE DEF a, b
  <2>7. Rem(a, Word) \in Int /\ Rem(Rem(a, Word), Word) = Rem(a, Word)
    BY <1>0, <2>5, RemRange
  <2>8. Rem(Rem(a, Word) + b, Word) = Rem(a + b, Word)
    BY <1>0, <2>5, <2>7, RemAdds
  <2> HIDE DEF G
  <2>9. G[s] = Rem(G[s \ {i}] + f[q[i]], Word)
    BY <2>4, <2>5, <2>6, <2>8
  <2> QED BY <2>9 DEF i, Rem
<1>5. Loop(G)
  <2>1. G = [s \in SUBSET D |-> G[s]]
    OBVIOUS
  <2> HIDE DEF G
  <2> QED BY <1>3, <1>4, <2>1
<1>6. Loop(fold)
  <2> HIDE DEF Loop, G
  <2> QED BY <1>5
<1>7. /\ fold[{}] = base
      /\ \A s \in SUBSET D : s # {} => fold[s] = (fold[s \ {Max(s)}] + f[q[Max(s)]]) % Word
  <2> HIDE DEF fold
  <2> QED BY <1>6
<1>8. G[D] = Rem(base + Total(D, v), Word)
  OBVIOUS
<1> HIDE DEF fold, G, D, Loop
<1>9. fold[D] = G[D]
  <2>1. fold[{}] = G[{}]
    BY <1>3, <1>7
  <2>2. ASSUME NEW s \in SUBSET D, s # {}, fold[s \ {Max(s)}] = G[s \ {Max(s)}]
        PROVE  fold[s] = G[s]
    BY <1>4, <1>7, <2>2
  <2> QED BY <1>2, <2>1, <2>2, FoldsAgree
<1> QED BY <1>1, <1>8, <1>9 DEF D

\* The sizes the parameters of a function need.
ParamSizes(h, e) == [i \in DOMAIN Params[e] |-> h[Params[e][i]]]
Sizes == 0 .. Word - 1

LEMMA ParamsTyped ==
  ASSUME NEW e \in Expr
  PROVE  /\ Params[e] \in Seq(Expr) /\ DOMAIN Params[e] = 1 .. Len(Params[e])
         /\ Len(Params[e]) \in Nat /\ IsFiniteSet(DOMAIN Params[e])
         /\ \A i \in DOMAIN Params[e] : Params[e][i] \in Expr
<1>1. Params[e] \in Seq(Expr)
  BY ExprAssumption
<1>2. DOMAIN Params[e] = 1 .. Len(Params[e]) /\ Len(Params[e]) \in Nat
  BY <1>1, LenProperties
<1>3. \A i \in 1 .. Len(Params[e]) : Params[e][i] \in Expr
  BY <1>1, ElementOfSeq
<1> QED BY <1>1, <1>2, <1>3, PositionsFinite

LEMMA PartsTyped ==
  ASSUME NEW e \in Expr
  PROVE  /\ Parts(e) \subseteq Expr
         /\ Kind[e] \in {"lambda", "fndef"} => Body[e] \in Parts(e)
         /\ Kind[e] = "lambda" => \A i \in DOMAIN Params[e] : Params[e][i] \in Parts(e)
         /\ Kind[e] \in {"constant", "plain", "lambda", "fndef"}
<1>1. \A i \in DOMAIN Params[e] : Params[e][i] \in ToSet(Params[e])
  BY DEF ToSet
<1>2. ToSet(Params[e]) \subseteq Expr
  BY ParamsTyped DEF ToSet
<1> QED BY <1>1, <1>2, ExprAssumption DEF Parts

LEMMA NeedsCases ==
  ASSUME NEW e, NEW h
  PROVE  /\ Kind[e] = "constant" => NeedsOf(e, h) = 0
         /\ Kind[e] = "plain" => NeedsOf(e, h) = Layout(Charge(e)).aligned
         /\ Kind[e] = "fndef" => NeedsOf(e, h) = h[Body[e]]
         /\ Kind[e] = "lambda" => NeedsOf(e, h) = PlusRaw(Params[e], h[Body[e]], h)
<1>1. CASE Kind[e] = "constant"
  BY <1>1 DEF NeedsOf
<1>2. CASE Kind[e] = "plain"
  BY <1>2 DEF NeedsOf
<1>3. CASE Kind[e] = "fndef"
  BY <1>3 DEF NeedsOf
<1>4. CASE Kind[e] = "lambda"
  BY <1>4 DEF NeedsOf, PlusRaw
<1> QED BY <1>1, <1>2, <1>3, <1>4

LEMMA NeedsOfIs ==
  ASSUME NEW e \in Expr, NEW h \in [Expr -> Sizes]
  PROVE  /\ NeedsOf(e, h) \in Sizes
         /\ Kind[e] = "lambda" =>
              /\ NeedsOf(e, h) = Rem(h[Body[e]] + Total(DOMAIN Params[e], ParamSizes(h, e)), Word)
              /\ \A i \in DOMAIN Params[e] : ParamSizes(h, e)[i] \in Nat
<1>0. Word \in Nat \ {0} /\ \A n \in Sizes : n \in Nat
  BY WordType DEF Sizes
<1>1. ASSUME Kind[e] = "lambda"
      PROVE  /\ NeedsOf(e, h) = Rem(h[Body[e]] + Total(DOMAIN Params[e], ParamSizes(h, e)), Word)
             /\ NeedsOf(e, h) \in Sizes
             /\ \A i \in DOMAIN Params[e] : ParamSizes(h, e)[i] \in Nat
  <2> DEFINE v == ParamSizes(h, e)
             base == h[Body[e]]
             q == Params[e]
  <2>1. NeedsOf(e, h) = PlusRaw(q, base, h)
    BY <1>1, NeedsCases
  <2>2. q \in Seq(Expr) /\ base \in 0 .. Word - 1
    BY <1>1, ParamsTyped, PartsTyped DEF Sizes
  <2>3. \A i \in DOMAIN q : v[i] \in Nat /\ v[i] = h[q[i]]
    BY <1>0, ParamsTyped DEF ParamSizes
  <2>4. IsFiniteSet(DOMAIN q)
    BY ParamsTyped
  <2> HIDE DEF v, base, q
  <2>5. NeedsOf(e, h) = Rem(base + Total(DOMAIN q, v), Word)
    BY <2>1, <2>2, <2>3, SumOfPositions
  <2>6. Total(DOMAIN q, v) \in Nat
    BY <2>3, <2>4, TotalType
  <2>7. base + Total(DOMAIN q, v) \in Int
    BY <1>0, <2>2, <2>6
  <2>8. NeedsOf(e, h) \in Sizes
    BY <1>0, <2>5, <2>7, RemRange DEF Sizes
  <2> QED BY <2>3, <2>5, <2>8 DEF v, base, q
<1>2. CASE Kind[e] = "constant"
  BY <1>0, <1>2, NeedsCases DEF Sizes
<1>3. CASE Kind[e] = "plain"
  <2>1. Layout(Charge(e)).aligned \in Sizes
    BY <1>3, ChargeAssumption, LayoutFits DEF Sizes
  <2>2. NeedsOf(e, h) = Layout(Charge(e)).aligned
    BY <1>3, NeedsCases
  <2> QED BY <1>3, <2>1, <2>2
<1>4. CASE Kind[e] = "fndef"
  <2>1. NeedsOf(e, h) = h[Body[e]]
    BY <1>4, NeedsCases
  <2> QED BY <1>4, <2>1, PartsTyped
<1> QED BY <1>1, <1>2, <1>3, <1>4, PartsTyped

LEMMA NeedsLocal ==
  ASSUME NEW e \in Expr, NEW h1 \in [Expr -> Sizes], NEW h2 \in [Expr -> Sizes],
         \A d \in Parts(e) : h1[d] = h2[d]
  PROVE  NeedsOf(e, h1) = NeedsOf(e, h2)
<1>1. CASE Kind[e] = "lambda"
  <2>1. ParamSizes(h1, e) = ParamSizes(h2, e) /\ h1[Body[e]] = h2[Body[e]]
    BY <1>1, PartsTyped DEF ParamSizes
  <2> QED BY <1>1, <2>1, NeedsOfIs
<1>2. CASE Kind[e] # "lambda"
  BY <1>2, PartsTyped, NeedsCases
<1> QED BY <1>1, <1>2

LEMMA NeedsAre ==
  /\ Needs \in [Expr -> Sizes]
  /\ \A e \in Expr : Needs[e] = NeedsOf(e, Needs)
<1> DEFINE G == [e \in Expr |-> [h \in [Expr -> Sizes] |-> NeedsOf(e, h)]]
           Loop(h) == h = [e \in Expr |-> NeedsOf(e, h)]
           needs == CHOOSE h : Loop(h)
<1>1. Needs = needs
  BY DEF Needs
<1>2. \E h \in [Expr -> Sizes] : \A e \in Expr : h[e] = G[e][h]
  <2>1. 0 \in Sizes
    BY WordType DEF Sizes
  <2>2. LooksAtParts(Sizes, G)
    BY PartsTyped, NeedsOfIs, NeedsLocal DEF LooksAtParts
  <2>3. Solvable(Sizes, G)
    <3> HIDE DEF G
    <3> QED BY <2>1, <2>2, RecursionSolved
  <2> QED BY <2>3 DEF Solvable
<1>3. PICK h \in [Expr -> Sizes] : \A e \in Expr : h[e] = NeedsOf(e, h)
  BY <1>2
<1>4. Loop(h)
  BY <1>3
<1>5. Loop(needs)
  <2> HIDE DEF Loop
  <2> QED BY <1>4
<1> DEFINE agreed == {e \in Expr : needs[e] = h[e]}
<1>6. needs = [e \in Expr |-> NeedsOf(e, needs)]
  BY <1>5
<1> HIDE DEF needs, Loop, G
<1>7. \A e \in Expr : needs[e] = NeedsOf(e, needs)
  BY <1>6
<1>8. needs \in [Expr -> Sizes]
  <2> DEFINE S == {e \in Expr : needs[e] \notin Sizes}
  <2>1. ASSUME NEW e \in S, Parts(e) \cap S = {} PROVE FALSE
    <3> DEFINE k == [d \in Expr |-> IF needs[d] \in Sizes THEN needs[d] ELSE h[d]]
    <3>1. k \in [Expr -> Sizes] /\ \A d \in Parts(e) : k[d] = needs[d]
      BY <2>1, PartsTyped
    <3> HIDE DEF k
    <3>2. NeedsOf(e, needs) = NeedsOf(e, k)
      <4>1. CASE Kind[e] = "lambda"
        <5>1. Body[e] \in Parts(e) /\ needs[Body[e]] = k[Body[e]]
          BY <3>1, <4>1, PartsTyped
        <5>2. PlusRaw(Params[e], k[Body[e]], needs) = PlusRaw(Params[e], k[Body[e]], k)
          <6> DEFINE q == Params[e]
                     v == ParamSizes(k, e)
                     base == k[Body[e]]
          <6>1. q \in Seq(Expr) /\ base \in 0 .. Word - 1
            BY <3>1, <4>1, ParamsTyped, PartsTyped DEF Sizes
          <6>2. \A i \in DOMAIN q : v[i] \in Nat /\ v[i] = k[q[i]] /\ v[i] = needs[q[i]]
            <7>1. \A i \in DOMAIN q : v[i] = k[q[i]] /\ q[i] \in Parts(e) /\ q[i] \in Expr
              BY <4>1, ParamsTyped, PartsTyped DEF ParamSizes
            <7>2. \A n \in Sizes : n \in Nat
              BY WordType DEF Sizes
            <7> QED BY <3>1, <7>1, <7>2
          <6> HIDE DEF q, v, base
          <6>3. PlusRaw(q, base, k) = Rem(base + Total(DOMAIN q, v), Word)
            BY <6>1, <6>2, SumOfPositions
          <6>4. PlusRaw(q, base, needs) = Rem(base + Total(DOMAIN q, v), Word)
            BY <6>1, <6>2, SumOfPositions
          <6> QED BY <6>3, <6>4 DEF q, base
        <5> QED BY <4>1, <5>1, <5>2, NeedsCases
      <4>2. CASE Kind[e] # "lambda"
        BY <3>1, <4>2, PartsTyped, NeedsCases
      <4> QED BY <4>1, <4>2
    <3> QED BY <1>7, <3>1, <3>2, NeedsOfIs
  <2>2. S \in SUBSET Expr
    OBVIOUS
  <2> HIDE DEF S
  <2>3. S = {}
    BY <2>1, <2>2, GroundedAssumption
  <2>4. \A e \in Expr : needs[e] \in Sizes
    BY <2>3 DEF S
  <2> QED BY <1>6, <2>4
<1> QED BY <1>1, <1>7, <1>8

LEMMA RefusedAre ==
  /\ Refused \in [Expr -> BOOLEAN]
  /\ \A e \in Expr : Refused[e] <=> RefusedOf(e, Refused)
<1> DEFINE G == [e \in Expr |-> [h \in [Expr -> BOOLEAN] |-> RefusedOf(e, h)]]
           Loop(h) == h = [e \in Expr |-> RefusedOf(e, h)]
           refused == CHOOSE h : Loop(h)
<1>1. Refused = refused
  BY DEF Refused
<1>2. Solvable(BOOLEAN, G)
  <2>1. LooksAtParts(BOOLEAN, G)
    <3> SUFFICES ASSUME NEW e \in Expr
                 PROVE  /\ Parts(e) \subseteq Expr
                        /\ \A h \in [Expr -> BOOLEAN] : G[e][h] \in BOOLEAN
                        /\ \A h1, h2 \in [Expr -> BOOLEAN] :
                             (\A d \in Parts(e) : h1[d] = h2[d]) => G[e][h1] = G[e][h2]
      BY DEF LooksAtParts
    <3>1. \A h \in [Expr -> BOOLEAN] : G[e][h] = RefusedOf(e, h)
      OBVIOUS
    <3>2. \A h \in [Expr -> BOOLEAN] : RefusedOf(e, h) \in BOOLEAN
      BY DEF RefusedOf
    <3>3. ASSUME NEW h1 \in [Expr -> BOOLEAN], NEW h2 \in [Expr -> BOOLEAN],
                 \A d \in Parts(e) : h1[d] = h2[d]
          PROVE  RefusedOf(e, h1) = RefusedOf(e, h2)
      <4>1. CASE Kind[e] = "lambda"
        <5>1. h1[Body[e]] = h2[Body[e]] /\ \A i \in DOMAIN Params[e] : h1[Params[e][i]] = h2[Params[e][i]]
          BY <3>3, <4>1, PartsTyped
        <5> QED BY <5>1 DEF RefusedOf
      <4>2. CASE Kind[e] = "fndef"
        <5>1. h1[Body[e]] = h2[Body[e]]
          BY <3>3, <4>2, PartsTyped
        <5> QED BY <4>2, <5>1 DEF RefusedOf
      <4> QED BY <4>1, <4>2 DEF RefusedOf
    <3> HIDE DEF G
    <3> QED BY <3>1, <3>2, <3>3, PartsTyped
  <2> HIDE DEF G
  <2> QED BY <2>1, RecursionSolved
<1>3. PICK h \in [Expr -> BOOLEAN] : \A e \in Expr : h[e] = RefusedOf(e, h)
  BY <1>2 DEF Solvable
<1>4. Loop(h)
  BY <1>3
<1>5. Loop(refused)
  <2> HIDE DEF Loop
  <2> QED BY <1>4
<1>6. refused = [e \in Expr |-> RefusedOf(e, refused)]
  BY <1>5
<1> HIDE DEF refused, Loop, G
<1>7. \A e \in Expr : RefusedOf(e, refused) \in BOOLEAN
  BY DEF RefusedOf
<1>8. \A e \in Expr : refused[e] = RefusedOf(e, refused)
  <2> DEFINE R(e) == RefusedOf(e, refused)
  <2>1. refused = [e \in Expr |-> R(e)]
    BY <1>6
  <2> HIDE DEF R
  <2>2. \A e \in Expr : refused[e] = R(e)
    BY <2>1
  <2> QED BY <2>2 DEF R
<1>9. refused \in [Expr -> BOOLEAN]
  <2> DEFINE R(e) == RefusedOf(e, refused)
  <2>1. refused = [e \in Expr |-> R(e)] /\ \A e \in Expr : R(e) \in BOOLEAN
    BY <1>6, <1>7
  <2> HIDE DEF R
  <2> QED BY <2>1
<1> QED BY <1>1, <1>8, <1>9

LEMMA RefusedCases ==
  ASSUME NEW e \in Expr
  PROVE  /\ Refused[e] \in BOOLEAN
         /\ Kind[e] \in {"constant", "plain"} => ~Refused[e]
         /\ Kind[e] = "fndef" => Refused[e] = Refused[Body[e]]
         /\ Kind[e] = "lambda" =>
              (Refused[e] <=> \/ e \in Pseudo \/ Refused[Body[e]]
                              \/ \E i \in DOMAIN Params[e] : Refused[Params[e][i]])
<1>1. Refused[e] \in BOOLEAN /\ (Refused[e] <=> RefusedOf(e, Refused))
  BY RefusedAre
<1>2. Kind[e] \in {"constant", "plain"} => ~Refused[e]
  BY <1>1 DEF RefusedOf
<1>3. ASSUME Kind[e] = "fndef" PROVE Refused[e] = Refused[Body[e]]
  <2>1. Refused[Body[e]] \in BOOLEAN
    BY <1>3, PartsTyped, RefusedAre
  <2>2. Refused[e] <=> Refused[Body[e]]
    BY <1>1, <1>3 DEF RefusedOf
  <2> QED BY <1>1, <2>1, <2>2
<1>4. ASSUME Kind[e] = "lambda"
      PROVE  Refused[e] <=> \/ e \in Pseudo \/ Refused[Body[e]]
                            \/ \E i \in DOMAIN Params[e] : Refused[Params[e][i]]
  BY <1>1, <1>4 DEF RefusedOf
<1> QED BY <1>1, <1>2, <1>3, <1>4

\* What the first n parameters of a function need.
Given(e, n) == Rem(Total(1 .. n, ParamSizes(Needs, e)), Word)

LEMMA NeedsTyped ==
  ASSUME NEW e \in Expr
  PROVE  Needs[e] \in Sizes /\ Needs[e] \in Nat /\ Word \in Nat \ {0}
BY NeedsAre, WordType DEF Sizes

LEMMA GivenTyped ==
  ASSUME NEW e \in Expr, NEW n \in 0 .. Len(Params[e])
  PROVE  /\ n \in Nat /\ IsFiniteSet(1 .. n) /\ Total(1 .. n, ParamSizes(Needs, e)) \in Nat
         /\ \A i \in 1 .. n : ParamSizes(Needs, e)[i] = Needs[Params[e][i]] /\ ParamSizes(Needs, e)[i] \in Nat
         /\ Given(e, n) \in Nat /\ Rem(Given(e, n), Word) = Given(e, n)
<1>1. n \in Nat /\ IsFiniteSet(1 .. n) /\ 1 .. n \subseteq DOMAIN Params[e]
  <2>1. n \in Nat /\ 1 .. n \subseteq 1 .. Len(Params[e])
    BY ParamsTyped
  <2> QED BY <2>1, FirstNumbers, ParamsTyped
<1>2. \A i \in 1 .. n : ParamSizes(Needs, e)[i] = Needs[Params[e][i]] /\ ParamSizes(Needs, e)[i] \in Nat
  BY <1>1, ParamsTyped, NeedsTyped DEF ParamSizes
<1>3. Total(1 .. n, ParamSizes(Needs, e)) \in Nat
  BY <1>1, <1>2, TotalType
<1>4. Given(e, n) \in Nat /\ Rem(Given(e, n), Word) = Given(e, n)
  <2>1. Total(1 .. n, ParamSizes(Needs, e)) \in Int
    BY <1>3
  <2> QED BY <2>1, NeedsTyped, RemRange DEF Given
<1> QED BY <1>1, <1>2, <1>3, <1>4

LEMMA GivenNone ==
  ASSUME NEW e \in Expr
  PROVE  Given(e, 0) = 0
<1>1. 1 .. 0 = {}
  OBVIOUS
<1>2. Rem(0, Word) = 0
  BY NeedsTyped, RemRange
<1> QED BY <1>1, <1>2, TotalEmpty DEF Given

\* One parameter more.
LEMMA GivenNext ==
  ASSUME NEW e \in Expr, NEW n \in Nat \ {0}, n <= Len(Params[e])
  PROVE  Given(e, n) = Rem(Given(e, n - 1) + Needs[Params[e][n]], Word)
<1> DEFINE v == ParamSizes(Needs, e)
           a == Total(1 .. n - 1, v)
           b == Needs[Params[e][n]]
<1>1. n \in 0 .. Len(Params[e]) /\ n - 1 \in 0 .. Len(Params[e]) /\ n \in 1 .. n
      /\ (1 .. n) \ {n} = 1 .. n - 1
  BY ParamsTyped
<1>2. IsFiniteSet(1 .. n) /\ (\A i \in 1 .. n : v[i] \in Nat) /\ v[n] = b /\ b \in Nat /\ a \in Nat
  BY <1>1, GivenTyped
<1> HIDE DEF v
<1>3. Total(1 .. n, v) = Total((1 .. n) \ {n}, v) + v[n]
  BY <1>1, <1>2, TotalAdds
<1>4. Total(1 .. n, v) = a + b
  BY <1>1, <1>2, <1>3
<1>5. Given(e, n) = Rem(a + b, Word) /\ Given(e, n - 1) = Rem(a, Word)
  BY <1>4 DEF Given, v
<1>6. Rem(a, Word) \in Int /\ Rem(Rem(a, Word), Word) = Rem(a, Word) /\ a \in Int /\ b \in Int
  BY <1>1, <1>2, <1>5, GivenTyped
<1>7. Rem(Rem(a, Word) + b, Word) = Rem(a + b, Word)
  BY <1>6, RemAdds, NeedsTyped
<1> QED BY <1>5, <1>7

LEMMA NeedsOfLambda ==
  ASSUME NEW e \in Expr, Kind[e] = "lambda"
  PROVE  Needs[e] = Rem(Given(e, Len(Params[e])) + Needs[Body[e]], Word)
<1> DEFINE v == ParamSizes(Needs, e)
           a == Total(DOMAIN Params[e], v)
           b == Needs[Body[e]]
<1>1. Needs[e] = Rem(b + a, Word)
  BY NeedsAre, NeedsOfIs
<1>2. a = Total(1 .. Len(Params[e]), v) /\ Len(Params[e]) \in 0 .. Len(Params[e])
  BY ParamsTyped
<1>3. a \in Int /\ Given(e, Len(Params[e])) = Rem(a, Word)
  BY <1>2, GivenTyped DEF Given
<1>4. Body[e] \in Expr
  BY PartsTyped
<1>5. b \in Int
  BY <1>4, NeedsTyped
<1> HIDE DEF a, b, v
<1>6. Rem(a, Word) \in Int /\ Rem(Rem(a, Word), Word) = Rem(a, Word)
  BY <1>3, RemRange, NeedsTyped
<1>7. Rem(Rem(a, Word) + b, Word) = Rem(a + b, Word)
  BY <1>3, <1>5, <1>6, RemAdds, NeedsTyped
<1>8. b + a = a + b
  BY <1>3, <1>5
<1> QED BY <1>1, <1>3, <1>7, <1>8 DEF b

-----------------------------------------------------------------------------
(* What storages take up together.                                         *)

Weight(T) == Rem(Total(T, Aligned), Word)

LEMMA WeightTyped ==
  ASSUME SInv, NEW T, T \subseteq storages
  PROVE  /\ IsFiniteSet(T) /\ (\A s \in T : Aligned[s] \in Nat) /\ Total(T, Aligned) \in Nat
         /\ Weight(T) \in Sizes /\ Rem(Weight(T), Word) = Weight(T) /\ Weight(T) \in Int
<1>1. IsFiniteSet(T) /\ \A s \in T : Aligned[s] \in Nat
  BY FS_Subset, StoragesAligned DEF SInv, Laid
<1>2. Total(T, Aligned) \in Nat
  BY <1>1, TotalType
<1>3. Total(T, Aligned) \in Int /\ Word \in Nat \ {0}
  BY <1>2, WordType
<1> QED BY <1>1, <1>2, <1>3, RemRange DEF Weight, Sizes

LEMMA WeightNone == Weight({}) = 0
<1>1. Rem(0, Word) = 0
  BY WordType, RemRange
<1> QED BY <1>1, TotalEmpty DEF Weight

LEMMA WeightUnion ==
  ASSUME SInv, NEW T, T \subseteq storages, NEW U, U \subseteq storages, T \cap U = {}
  PROVE  Weight(T \cup U) = Rem(Weight(T) + Weight(U), Word)
<1> DEFINE a == Total(T, Aligned)
           b == Total(U, Aligned)
<1>1. Total(T \cup U, Aligned) = a + b
  <2>1. \A s \in T \cup U : Aligned[s] \in Nat
    BY WeightTyped
  <2> QED BY <2>1, WeightTyped, TotalUnion
<1>2. Word \in Nat \ {0} /\ a \in Int /\ b \in Int
  BY WeightTyped, WordType
<1> HIDE DEF a, b
<1>3. /\ Rem(a, Word) \in Int /\ Rem(Rem(a, Word), Word) = Rem(a, Word)
      /\ Rem(b, Word) \in Int /\ Rem(Rem(b, Word), Word) = Rem(b, Word)
  BY <1>2, RemRange
<1>4. Rem(Rem(a, Word) + Rem(b, Word), Word) = Rem(a + b, Word)
  BY <1>2, <1>3, RemSums
<1> QED BY <1>1, <1>4 DEF Weight, a, b

LEMMA WeightOne ==
  ASSUME SInv, NEW s \in storages
  PROVE  Weight({s}) = layout[s].aligned
<1>1. Aligned[s] \in Nat /\ Aligned[s] = layout[s].aligned /\ layout[s].aligned < Word
  BY StoragesAligned, StoragesSized
<1>2. Total({s}, Aligned) = layout[s].aligned
  BY <1>1, TotalOne
<1>3. layout[s].aligned \in Int /\ layout[s].aligned \in 0 .. Word - 1
  BY <1>1, WordType
<1> QED BY <1>2, <1>3, RemRange, WordType DEF Weight

-----------------------------------------------------------------------------
(* Regions and storages that are added.                                    *)

\* A step that adds regions, or a region, below p, and the storages T to p.
Grows(p, T) ==
  /\ regions \subseteq regions' /\ storages \subseteq storages' /\ T \cap storages = {}
  /\ \A q \in regions :
       /\ parent'[q] = parent[q]
       /\ Kids(q) \subseteq Kids(q)'
       /\ q # p => children'[q] = children[q] /\ alloced'[q] = alloced[q]
       /\ Under(q) \subseteq Under(q)'
       /\ p \notin Under(q) => Under(q)' = Under(q) /\ Within(q)' = Within(q)
       /\ p \in Under(q) => Within(q)' = Within(q) \cup T
  /\ \A S \in SUBSET storages : Weight(S)' = Weight(S)

LEMMA WeightKept ==
  ASSUME NEW S, S \subseteq Storage, \A s \in S : layout'[s] = layout[s]
  PROVE  Weight(S)' = Weight(S)
<1>1. \A s \in S : Aligned'[s] = Aligned[s]
  BY DEF Aligned
<1>2. PICK g, h : g = Aligned /\ h = Aligned'
  OBVIOUS
<1>3. Total(S, g) = Total(S, h)
  BY <1>1, <1>2, TotalSame
<1>4. Weight(S) = Rem(Total(S, g), Word)
  BY <1>2 DEF Weight
<1>5. Weight(S)' = Rem(Total(S, h), Word)
  BY <1>2 DEF Weight
<1> QED BY <1>3, <1>4, <1>5

\* A region that is created is listed by its parent and is under whatever its
\* parent is under; it lists nothing.
LEMMA CreateGrows ==
  ASSUME SInv, NEW r \in Region, NEW p \in Region \cup {NULL}, CreateRegion(r, p)
  PROVE  /\ Grows(p, {})
         /\ r \in regions' /\ parent'[r] = p /\ children'[r] = <<>> /\ alloced'[r] = <<>>
         /\ p \in regions => children'[p] = Append(children[p], r) /\ r \in Kids(p)'
                             /\ alloced'[p] = alloced[p]
         /\ Within(r)' = {}
<1>1. /\ r \notin regions /\ regions' = regions \cup {r} /\ p \in regions \cup {NULL} /\ p # r
      /\ children' = [q \in Region |-> IF q = p THEN Append(children[q], r)
                                       ELSE IF q = r THEN <<>> ELSE children[q]]
      /\ parent' = [parent EXCEPT ![r] = p] /\ alloced' = [alloced EXCEPT ![r] = <<>>]
      /\ storages' = storages /\ layout' = layout
  BY NullAssumption DEF CreateRegion
<1>2. /\ regions \subseteq Region /\ children \in [Region -> Seq(Region)] /\ storages \subseteq Storage
      /\ parent \in [Region -> Region \cup {NULL}] /\ alloced \in [Region -> Seq(Storage)]
  BY DEF SInv, IInv, TypeOK
<1>3. children'[r] = <<>> /\ alloced'[r] = <<>> /\ parent'[r] = p
  BY <1>1, <1>2
<1>4. Kids(r)' = {}
  BY <1>3 DEF Kids, ToSet
<1>5. \A q \in regions : /\ q # p => children'[q] = children[q]
                         /\ alloced'[q] = alloced[q] /\ parent'[q] = parent[q]
  BY <1>1, <1>2
<1>6. ASSUME p \in regions
      PROVE  children'[p] = Append(children[p], r) /\ Kids(p)' = Kids(p) \cup {r}
  <2>1. children'[p] = Append(children[p], r) /\ children[p] \in Seq(Region)
    BY <1>1, <1>2, <1>6
  <2>2. NoRepeats(children[p]) /\ r \notin ToSet(children[p])
    BY <1>1, <1>6 DEF SInv, IInv, ChildrenLinked
  <2> QED BY <2>1, <2>2, AppendProperty DEF Kids
<1>7. \A q \in regions : Kids(q)' = IF q = p THEN Kids(q) \cup {r} ELSE Kids(q)
  BY <1>5, <1>6 DEF Kids
<1>8. \A q \in regions : r \notin Kids(q) /\ Kids(q) \subseteq regions
  BY <1>1, Lists
<1>9. ASSUME NEW q \in regions
      PROVE  Under(q)' = IF p \in Under(q) THEN Under(q) \cup {r} ELSE Under(q)
  <2> DEFINE U == IF p \in Under(q) THEN Under(q) \cup {r} ELSE Under(q)
  <2>1. Under(q) \subseteq regions /\ q \in Under(q) /\ \A x \in Under(q) : Kids(x) \subseteq Under(q)
    BY UnderLeast DEF ClosedUnder
  <2>2. Under(q)' \subseteq U
    <3>1. U \in SUBSET regions' /\ q \in U
      BY <1>1, <2>1
    <3>2. ASSUME NEW x \in U PROVE Kids(x)' \subseteq U
      <4>1. CASE x = r
        BY <1>4, <4>1
      <4>2. CASE x # r
        <5>1. x \in Under(q) /\ x \in regions
          BY <2>1, <4>2
        <5> QED BY <1>7, <2>1, <5>1
      <4> QED BY <4>1, <4>2
    <3> HIDE DEF U
    <3>3. PICK X : X = U
      OBVIOUS
    <3>4. ClosedUnder(X)'
      BY <3>2, <3>3 DEF ClosedUnder
    <3>5. Under(q)' \subseteq X
      BY <3>1, <3>3, <3>4 DEF Under
    <3> QED BY <3>3, <3>5
  <2>3. U \subseteq Under(q)'
    <3>1. U \subseteq regions'
      BY <1>1, <2>1
    <3>2. ASSUME NEW S \in SUBSET regions', q \in S, ClosedUnder(S)'
          PROVE  U \subseteq S
      <4>1. \A x \in S : Kids(x)' \subseteq S
        BY <3>2 DEF ClosedUnder
      <4>2. ClosedUnder(S \cap regions)
        BY <1>7, <1>8, <4>1 DEF ClosedUnder
      <4>3. Under(q) \subseteq S
        <5> DEFINE X == S \cap regions
        <5>1. X \in SUBSET regions /\ q \in X /\ ClosedUnder(X)
          BY <3>2, <4>2
        <5> HIDE DEF X
        <5>2. Under(q) \subseteq X
          BY <5>1 DEF Under
        <5> QED BY <5>2 DEF X
      <4>4. p \in Under(q) => r \in S
        BY <1>7, <2>1, <4>1, <4>3
      <4> QED BY <4>3, <4>4
    <3> HIDE DEF U
    <3> QED BY <3>1, <3>2 DEF Under
  <2> QED BY <2>2, <2>3
<1>10. ASSUME NEW q \in regions PROVE Within(q)' = Within(q)
  <2>1. \A x \in Under(q) : ToSet(alloced'[x]) = ToSet(alloced[x])
    BY <1>5, UnderLeast
  <2>2. ToSet(alloced'[r]) = {}
    BY <1>3 DEF ToSet
  <2>3. Under(q)' = Under(q) \/ Under(q)' = Under(q) \cup {r}
    BY <1>9
  <2> QED BY <1>1, <2>1, <2>2, <2>3 DEF Within, Listed
<1>11. Within(r)' = {}
  <2>1. Under(r)' \subseteq {r}
    <3>1. {r} \in SUBSET regions' /\ ClosedUnder({r})'
      BY <1>1, <1>4 DEF ClosedUnder
    <3> QED BY <3>1 DEF Under
  <2>2. ToSet(alloced'[r]) = {}
    BY <1>3 DEF ToSet
  <2> QED BY <2>1, <2>2 DEF Within, Listed
<1>12. \A S \in SUBSET storages : Weight(S)' = Weight(S)
  BY <1>1, <1>2, WeightKept
<1>13. Grows(p, {})
  BY <1>1, <1>5, <1>7, <1>9, <1>10, <1>12 DEF Grows
<1> QED BY <1>1, <1>3, <1>5, <1>6, <1>11, <1>13

\* A storage that is allocated is within whatever its region is under.
LEMMA AllocGrows ==
  ASSUME SInv, NEW r \in Region, NEW s \in Storage, NEW request, RegionAlloc(r, s, request)
  PROVE  /\ Grows(r, {s}) /\ r \in regions /\ UNCHANGED regions
         /\ s \in storages' /\ layout'[s] = Layout(request)
<1>1. /\ r \in regions /\ s \notin storages /\ storages' = storages \cup {s}
      /\ layout' = [layout EXCEPT ![s] = Layout(request)]
      /\ alloced' = [alloced EXCEPT ![r] = Append(@, s)]
      /\ UNCHANGED <<regions, parent, children>>
  BY DEF RegionAlloc
<1>2. /\ regions \subseteq Region /\ storages \subseteq Storage /\ alloced \in [Region -> Seq(Storage)]
      /\ layout \in [Storage -> {NoLayout} \cup {Layout(q) : q \in Request}]
  BY DEF SInv, IInv, TypeOK
<1>3. layout'[s] = Layout(request) /\ \A t \in storages : layout'[t] = layout[t]
  BY <1>1, <1>2
<1>4. \A q \in regions : q # r => alloced'[q] = alloced[q]
  BY <1>1, <1>2
<1>5. ToSet(alloced'[r]) = ToSet(alloced[r]) \cup {s}
  <2>1. alloced'[r] = Append(alloced[r], s) /\ alloced[r] \in Seq(Storage)
    BY <1>1, <1>2
  <2>2. NoRepeats(alloced[r]) /\ s \notin ToSet(alloced[r])
    BY <1>1 DEF SInv, IInv, ListsOwned
  <2> QED BY <2>1, <2>2, AppendProperty
<1>6. \A q : Kids(q)' = Kids(q)
  BY <1>1 DEF Kids
<1>7. \A q : Under(q)' = Under(q)
  BY <1>1, <1>6 DEF Under, ClosedUnder
<1>8. \A q \in regions : \A t \in ToSet(alloced[q]) : t \in storages
  BY DEF SInv, IInv, ListsOwned
<1>9. ASSUME NEW q \in regions
      PROVE  Within(q)' = IF r \in Under(q) THEN Within(q) \cup {s} ELSE Within(q)
  <2>0. Under(q) \subseteq regions
    BY UnderLeast
  <2>1. Within(q)' = {t \in storages \cup {s} : \E x \in Under(q) : t \in ToSet(alloced'[x])}
    BY <1>1, <1>7 DEF Within, Listed
  <2>2. Within(q) = {t \in storages : \E x \in Under(q) : t \in ToSet(alloced[x])}
    BY DEF Within, Listed
  <2>3. \A x \in Under(q) : /\ x # r => ToSet(alloced'[x]) = ToSet(alloced[x])
                            /\ s \notin ToSet(alloced[x])
    BY <1>1, <1>4, <1>8, <2>0
  <2>4. CASE r \in Under(q)
    BY <1>1, <1>5, <2>1, <2>2, <2>3, <2>4
  <2>5. CASE r \notin Under(q)
    BY <2>1, <2>2, <2>3, <2>5
  <2> QED BY <2>4, <2>5
<1>10. \A S \in SUBSET storages : Weight(S)' = Weight(S)
  BY <1>2, <1>3, WeightKept
<1>11. Grows(r, {s})
  BY <1>1, <1>4, <1>6, <1>7, <1>9, <1>10 DEF Grows
<1> QED BY <1>1, <1>3, <1>11

LEMMA StillGrows ==
  ASSUME SInv, UNCHANGED <<regions, parent, children, alloced, storages, layout>>
  PROVE  Grows(NULL, {}) /\ \A q : Under(q)' = Under(q) /\ Within(q)' = Within(q)
<1>1. \A q : Kids(q)' = Kids(q)
  BY DEF Kids
<1>2. \A q : Under(q)' = Under(q)
  BY <1>1 DEF Under, ClosedUnder
<1>3. \A q : Within(q)' = Within(q)
  BY <1>2 DEF Within, Listed
<1>4. storages \subseteq Storage
  BY DEF SInv, IInv, TypeOK
<1>5. \A S \in SUBSET storages : Weight(S)' = Weight(S)
  BY <1>4, WeightKept
<1> QED BY <1>1, <1>2, <1>3, <1>5 DEF Grows

\* A region without a parent is under itself only; without it and what it
\* frees, the other regions are what they were.
LEMMA RootAlone ==
  ASSUME SInv, NEW r \in regions, parent[r] = NULL, NEW q \in regions, q # r
  PROVE  r \notin Under(q)
<1>1. ASSUME r \in Under(q) PROVE FALSE
  <2>1. PICK p \in Under(q) : r \in Kids(p)
    BY <1>1, UnderUp
  <2>2. p \in regions /\ parent[r] = p
    BY <2>1, UnderLeast, ListedOnce
  <2>3. regions \subseteq Region
    BY DEF SInv, IInv, TypeOK
  <2> QED BY <2>2, <2>3, NullAssumption
<1> QED BY <1>1

LEMMA DestroyLeaves ==
  ASSUME SInv, NEW r \in regions, parent[r] = NULL, DestroyRegion(r)
  PROVE  /\ regions' = regions \ {r} /\ UNCHANGED parent
         /\ \A q \in regions' : /\ Under(q)' = Under(q) /\ Within(q)' = Within(q)
                                /\ Weight(Within(q))' = Weight(Within(q))
<1>1. /\ regions \subseteq Region /\ children \in [Region -> Seq(Region)] /\ NULL \notin Region
      /\ storages \subseteq Storage
  BY NullAssumption DEF SInv, IInv, TypeOK
<1>2. /\ regions' = regions \ {r} /\ children' = Unlinked(r) /\ storages' = storages \ ToSet(alloced[r])
      /\ UNCHANGED <<parent, alloced, layout>>
  BY DEF DestroyRegion, FreedWith
<1>3. \A q \in regions : children'[q] = children[q]
  BY <1>1, <1>2 DEF Unlinked
<1>4. \A q \in regions : Kids(q)' = Kids(q)
  BY <1>3 DEF Kids
<1>5. \A q \in regions : r \notin Kids(q) /\ Kids(q) \subseteq regions
  BY <1>1, ListedOnce, Lists
<1>6. ASSUME NEW q \in regions'
      PROVE  Under(q)' = Under(q)
  <2>0. /\ q \in regions /\ q # r /\ r \notin Under(q) /\ Under(q) \subseteq regions'
        /\ q \in Under(q) /\ ClosedUnder(Under(q))
    BY <1>2, RootAlone, UnderLeast
  <2>1. Under(q)' \subseteq Under(q)
    <3> DEFINE U == Under(q)
    <3>1. U \in SUBSET regions' /\ q \in U /\ \A x \in U : Kids(x)' \subseteq U
      BY <1>2, <1>4, <2>0 DEF ClosedUnder
    <3> HIDE DEF U
    <3>3. PICK X : X = U
      OBVIOUS
    <3>2. ClosedUnder(X)'
      BY <3>1, <3>3 DEF ClosedUnder
    <3>4. Under(q)' \subseteq X
      BY <3>1, <3>2, <3>3 DEF Under
    <3> QED BY <3>3, <3>4 DEF U
  <2>2. ASSUME NEW S \in SUBSET regions', q \in S, ClosedUnder(S)'
        PROVE  Under(q) \subseteq S
    <3>1. S \in SUBSET regions /\ ClosedUnder(S)
      BY <1>2, <1>4, <2>2 DEF ClosedUnder
    <3> QED BY <2>2, <3>1 DEF Under
  <2>3. Under(q) \subseteq Under(q)'
    BY <2>0, <2>2 DEF Under
  <2> QED BY <2>1, <2>3
<1>7. ASSUME NEW q \in regions'
      PROVE  Within(q)' = Within(q) /\ Weight(Within(q))' = Weight(Within(q))
  <2>1. q \in regions /\ q # r /\ r \notin Under(q) /\ Under(q) \subseteq regions
    BY <1>2, RootAlone, UnderLeast
  <2>2. \A x \in Under(q) : ToSet(alloced[x]) \cap ToSet(alloced[r]) = {}
    <3>1. \A x \in regions : \A t \in ToSet(alloced[x]) : owner[t] = x
      BY DEF SInv, IInv, ListsOwned
    <3> QED BY <2>1, <3>1
  <2>3. Within(q)' = Within(q)
    BY <1>2, <1>6, <2>2 DEF Within, Listed
  <2>4. PICK X : X = Within(q)
    OBVIOUS
  <2>5. X \subseteq Storage
    BY <1>1, <2>4 DEF Within, Listed
  <2>6. Weight(X)' = Weight(X)
    BY <1>2, <2>5, WeightKept
  <2> QED BY <2>3, <2>4, <2>6
<1> QED BY <1>2, <1>6, <1>7

-----------------------------------------------------------------------------
(* The calls under way and what they have charged so far.                  *)

\* A call of a function that has opened the function's region.
Opened(f) == Kind[f.expr] = "lambda" /\ f.at # "start"

\* The region and the expression of the call that a function makes.
Current(f) == IF f.at = "params" THEN f.param ELSE f.body
Target(f) == IF f.at = "params" THEN Params[f.expr][f.next] ELSE Body[f.expr]

\* What a call knows without looking at the regions: how far it has come, and
\* that nothing it has checked is refused, or that it is.
Counts(f) ==
  /\ f.at # "start" => Kind[f.expr] = IF f.at = "alloc" THEN "plain" ELSE "lambda"
  /\ f.at = "alloc" /\ f.global # NULL => f.fn = f.global
  /\ Opened(f) => f.expr \notin Pseudo
  /\ f.at \in {"start", "function", "open"} => f.next = 1
  /\ f.at = "params" => f.next <= Len(Params[f.expr]) + 1
  /\ f.at \in {"body", "done"} => f.next = Len(Params[f.expr]) + 1
  /\ f.at \in {"params", "body", "done"} => \A i \in 1 .. f.next - 1 : ~Refused[Params[f.expr][i]]
  /\ f.at = "done" => ~Refused[Body[f.expr]]
  /\ f.at = "failed" => Refused[f.expr]

\* The regions a function has opened, each in its place.
Links(f) ==
  Opened(f) =>
    /\ f.fn \in regions /\ parent[f.fn] = f.global /\ alloced[f.fn] = <<>>
    /\ f.global # NULL => f.fn \in Kids(f.global)
    /\ children[f.fn] = CASE f.at = "function" -> <<>>
                          [] f.at = "open" -> <<f.param>>
                          [] OTHER -> <<f.param, f.body>>

\* A call of a client's: its state is in use and tracks what it opened.
Asks(f) ==
  f.state # NULL =>
    /\ checks[f.state].usable
    /\ Opened(f) /\ f.global = NULL => f.fn \in checks[f.state].regions

\* Its regions hold what the parameters checked so far need, the body when it
\* is checked as well, and what the call it waits for has charged, T.
Amount(f, T) ==
  /\ f.at = "open" => Within(f.param) = {}
  /\ f.at = "params" => /\ Within(f.body) = {}
                        /\ Weight(Within(f.param) \ T) = Given(f.expr, f.next - 1)
  /\ f.at \in {"body", "done"} => Weight(Within(f.param)) = Given(f.expr, Len(Params[f.expr]))
  /\ f.at = "body" => Within(f.body) \subseteq T
  /\ f.at = "done" => Weight(Within(f.body)) = Needs[Body[f.expr]]

\* What a call has charged.
Mine(f) == IF Opened(f) THEN Within(f.fn) ELSE {}

\* c is the call that f waits for.
Calling(c, f) ==
  /\ f.at \in {"params", "body"} /\ Kind[f.expr] = "lambda"
  /\ f.at = "params" => f.next <= Len(Params[f.expr])
  /\ c.state = NULL /\ c.global = Current(f)
  /\ Needs[c.expr] = Needs[Target(f)] /\ Refused[c.expr] = Refused[Target(f)]

\* The callers of the innermost call, which has charged T.
Waiting(s, T) ==
  \A j \in 2 .. Len(s) :
    /\ Counts(s[j]) /\ Links(s[j]) /\ Asks(s[j])
    /\ Amount(s[j], IF j = 2 THEN T ELSE Mine(s[j - 1]))
    /\ Calling(s[j - 1], s[j])
    /\ \A i \in 1 .. j - 1 : s[i].global \in Under(Current(s[j]))

Running(f) == Counts(f) /\ Links(f) /\ Asks(f) /\ Amount(f, {})
CallsGood(s) == s # <<>> => Running(s[1]) /\ Waiting(s, Mine(s[1]))

\* What a client's state remembers for a function, unless its pool is closed
\* or it is being destroyed.
Remembers(st, e, r) ==
  /\ st \in DOMAIN checks /\ checks[st].usable /\ st # closing
  /\ e \in DOMAIN checks[st].regionMap /\ Kind[e] = "lambda" /\ r = checks[st].regionMap[e]

\* The regions a call goes on to charge.
Places(f) == {f.global, f.fn, f.param, f.body}

\* The region is finished: it holds what the function needs, and no call under
\* way charges it.
Finished(st, e, r) ==
  /\ r \in regions /\ parent[r] = checks[st].global
  /\ checks[st].global = NULL => r \in checks[st].regions
  /\ Weight(Within(r)) = Needs[e] /\ ~Refused[e]
  /\ \A j \in DOMAIN stack : Places(stack[j]) \cap Under(r) = {}
MemoryGood ==
  \A st \in State, e \in Expr, r \in Region \cup {NULL} : Remembers(st, e, r) => Finished(st, e, r)

CheckerSizes == CallsGood(stack) /\ MemoryGood /\ AnswersExact

-----------------------------------------------------------------------------
\* The regions of a function that has opened both.
LEMMA OpenedParts ==
  ASSUME SInv, NEW f \in Frames, Opened(f), Links(f), f.at \notin {"alloc", "function", "open"}
  PROVE  /\ f.fn \in regions /\ f.param \in regions /\ f.body \in regions
         /\ f.fn \notin Under(f.param) /\ f.fn \notin Under(f.body)
         /\ Under(f.param) \cap Under(f.body) = {}
         /\ Under(f.param) \subseteq Under(f.fn) /\ Under(f.body) \subseteq Under(f.fn)
         /\ Within(f.fn) = Within(f.param) \cup Within(f.body)
         /\ Within(f.param) \cap Within(f.body) = {}
<1>1. f.fn \in regions /\ alloced[f.fn] = <<>> /\ children[f.fn] = <<f.param, f.body>>
  BY DEF Links, Opened
<1>2. f.param \in Region \cup {NULL} /\ f.body \in Region \cup {NULL}
  BY DEF Frames
<1>3. Kids(f.fn) = {f.param, f.body}
  BY <1>1 DEF Kids, ToSet
<1>4. f.param # f.body
  <2>1. NoRepeats(<<f.param, f.body>>)
    BY <1>1, Lists
  <2> QED BY <2>1 DEF NoRepeats
<1>5. Listed({f.fn}) = {}
  BY <1>1 DEF Listed, ToSet
<1>6. f.param \in Kids(f.fn) /\ f.body \in Kids(f.fn) /\ Kids(f.fn) \subseteq regions
  BY <1>1, <1>3, Lists
<1>7. f.fn \notin Under(f.param) /\ f.fn \notin Under(f.body) /\ Under(f.param) \cap Under(f.body) = {}
  BY <1>1, <1>4, <1>6, UnderApart
<1>8. Under(f.param) \subseteq Under(f.fn) /\ Under(f.body) \subseteq Under(f.fn)
  BY <1>1, <1>6, UnderSplit
<1>9. Within(f.fn) = Within(f.param) \cup Within(f.body)
  <2>1. Within(f.fn) = Listed({f.fn}) \cup UNION {Within(c) : c \in Kids(f.fn)}
    BY <1>1, ReachSplit
  <2> QED BY <1>3, <1>5, <2>1
<1>10. Within(f.param) \cap Within(f.body) = {}
  BY <1>1, <1>4, <1>6, ReachSplit
<1> QED BY <1>1, <1>6, <1>7, <1>8, <1>9, <1>10

\* A caller's regions.
LEMMA CallerParts ==
  ASSUME SInv, NEW f \in Frames, NEW c, Calling(c, f), Links(f)
  PROVE  /\ Opened(f) /\ Current(f) \in regions /\ Current(f) \in Under(f.fn)
         /\ Under(Current(f)) \subseteq Under(f.fn) /\ f.fn \notin Under(Current(f))
         /\ f.fn \in regions /\ Target(f) \in Expr
         /\ f.at \notin {"alloc", "function", "open", "done", "start", "failed"}
<1>1. Opened(f) /\ f.at \in {"params", "body"} /\ f.at \notin {"alloc", "function", "open", "done", "start", "failed"}
  BY DEF Calling, Opened
<1>2. Target(f) \in Expr
  <2>1. f.expr \in Expr /\ f.next \in Nat \ {0} /\ Kind[f.expr] = "lambda"
    BY DEF Frames, Calling
  <2>2. CASE f.at = "params"
    <3>1. f.next \in 1 .. Len(Params[f.expr])
      BY <2>1, <2>2, ParamsTyped DEF Calling
    <3> QED BY <2>1, <2>2, <3>1, ParamsTyped DEF Target
  <2>3. CASE f.at # "params"
    BY <2>1, <2>3, PartsTyped DEF Target
  <2> QED BY <2>2, <2>3
<1>3. Current(f) \in {f.param, f.body}
  BY DEF Current
<1> QED BY <1>1, <1>2, <1>3, OpenedParts, UnderLeast

\* The checks that clients hold stay in use and forget no region.
ChecksKept ==
  \A st \in DOMAIN checks : /\ checks[st].usable => checks'[st].usable
                            /\ checks[st].regions \subseteq checks'[st].regions

LEMMA LinksKept ==
  ASSUME SInv, NEW p, NEW T, Grows(p, T), NEW f \in Frames, Links(f),
         Opened(f) => p # f.fn, f.global \in regions \cup {NULL}
  PROVE  Links(f)'
BY DEF Links, Grows, Opened

LEMMA AsksKept ==
  ASSUME ChecksKept, NEW f \in Frames, Asks(f), f.state \in DOMAIN checks \cup {NULL}
  PROVE  Asks(f)'
BY DEF Asks, ChecksKept, Opened

\* What is charged below a waiting call's region is charged by the call it
\* waits for.
LEMMA AmountKept ==
  ASSUME SInv, NEW p, NEW T, Grows(p, T), NEW f \in Frames, NEW c, Calling(c, f), Links(f),
         NEW S, S \subseteq storages, Amount(f, S),
         p \in Under(Current(f)) \/ (p = NULL /\ T = {})
  PROVE  Amount(f, S \cup T)'
<1>1. /\ f.param \in regions /\ f.body \in regions /\ Opened(f)
      /\ Under(f.param) \cap Under(f.body) = {}
      /\ f.at \in {"params", "body"}
  BY CallerParts, OpenedParts DEF Calling
<1>2. NULL \notin regions
  BY NullAssumption DEF SInv, IInv, TypeOK
<1>3. Under(f.param) \subseteq regions /\ Under(f.body) \subseteq regions
  BY <1>1, UnderLeast
<1>4. Within(f.param) \subseteq storages /\ Within(f.body) \subseteq storages
  BY DEF Within, Listed
<1>5. T \cap storages = {} /\ \A X \in SUBSET storages : Weight(X)' = Weight(X)
  BY DEF Grows
<1>6. CASE f.at = "params"
  <2>1. Within(f.body)' = {}
    <3>1. p \notin Under(f.body)
      BY <1>1, <1>2, <1>3, <1>6 DEF Current
    <3> QED BY <1>1, <1>6, <3>1 DEF Grows, Amount
  <2>2. Within(f.param)' = Within(f.param) \cup T
    BY <1>1, <1>2, <1>3, <1>6 DEF Current, Grows
  <2>3. PICK X : X = Within(f.param) \ S
    OBVIOUS
  <2>4. X \in SUBSET storages /\ (Within(f.param) \cup T) \ (S \cup T) = X
    BY <1>4, <1>5, <2>3
  <2>5. Weight(X)' = Given(f.expr, f.next - 1)
    BY <1>5, <1>6, <2>3, <2>4 DEF Amount
  <2>6. (Within(f.param) \ (S \cup T))' = X
    BY <2>2, <2>4
  <2> QED BY <1>6, <2>1, <2>5, <2>6 DEF Amount
<1>7. CASE f.at = "body"
  <2>1. Within(f.param)' = Within(f.param)
    <3>1. p \notin Under(f.param)
      BY <1>1, <1>2, <1>3, <1>7 DEF Current
    <3> QED BY <1>1, <3>1 DEF Grows
  <2>2. Within(f.body)' \subseteq Within(f.body) \cup T
    BY <1>1, <1>2, <1>3 DEF Grows
  <2>3. PICK X : X = Within(f.param)
    OBVIOUS
  <2>4. Weight(X)' = Given(f.expr, Len(Params[f.expr]))
    BY <1>4, <1>5, <1>7, <2>3 DEF Amount
  <2> QED BY <1>7, <2>1, <2>2, <2>3, <2>4 DEF Amount
<1> QED BY <1>1, <1>6, <1>7

LEMMA MineKept ==
  ASSUME SInv, NEW p, NEW T, Grows(p, T), NEW f \in Frames, NEW c, Calling(c, f), Links(f),
         p \in Under(Current(f)) \/ (p = NULL /\ T = {})
  PROVE  Mine(f)' = Mine(f) \cup T
<1>1. Opened(f) /\ f.fn \in regions /\ Under(Current(f)) \subseteq Under(f.fn) /\ Under(f.fn) \subseteq regions
  BY CallerParts, UnderLeast
<1>2. NULL \notin regions
  BY NullAssumption DEF SInv, IInv, TypeOK
<1>3. Within(f.fn)' = Within(f.fn) \cup T
  BY <1>1, <1>2 DEF Grows
<1> QED BY <1>1, <1>3 DEF Mine, Opened

\* The callers wait on while the call they wait for charges T more.
LEMMA WaitingKept ==
  ASSUME SInv, NEW p, NEW T, Grows(p, T), ChecksKept,
         NEW s \in Seq(GoodFrames(regions, Globals)),
         NEW S, S \subseteq storages, Waiting(s, S),
         \/ p = NULL /\ T = {}
         \/ \A j \in 2 .. Len(s) : p \in Under(Current(s[j]))
  PROVE  Waiting(s, S \cup T)'
<1>0. \A j \in 2 .. Len(s) : p \in Under(Current(s[j])) \/ (p = NULL /\ T = {})
  <2>1. CASE p = NULL /\ T = {}
    BY <2>1
  <2>2. CASE \A j \in 2 .. Len(s) : p \in Under(Current(s[j]))
    BY <2>2
  <2> QED BY <2>1, <2>2
<1>1. ASSUME NEW j \in 1 .. Len(s)
      PROVE  /\ s[j] \in Frames /\ s[j].state \in DOMAIN checks \cup {NULL}
             /\ s[j].global \in regions \cup {NULL}
  <2>1. s[j] \in GoodFrames(regions, Globals)
    BY ElementOfSeq
  <2> QED BY <2>1 DEF GoodFrames, GoodFrame, Globals
<1>2. ASSUME NEW j \in 2 .. Len(s)
      PROVE  /\ j \in 1 .. Len(s) /\ j - 1 \in 1 .. Len(s) /\ (j # 2 => j - 1 \in 2 .. Len(s))
  <2>1. Len(s) \in Nat
    BY LenProperties
  <2> QED BY <2>1
<1>3. ASSUME NEW j \in 2 .. Len(s)
      PROVE  /\ Counts(s[j]) /\ Calling(s[j - 1], s[j]) /\ Links(s[j])' /\ Asks(s[j])'
             /\ (p \in Under(Current(s[j])) \/ (p = NULL /\ T = {}))
             /\ Links(s[j])
             /\ \A i \in 1 .. j - 1 : s[i].global \in Under(Current(s[j]))'
  <2>1. Counts(s[j]) /\ Links(s[j]) /\ Asks(s[j]) /\ Calling(s[j - 1], s[j])
    BY DEF Waiting
  <2>2. p \in Under(Current(s[j])) \/ (p = NULL /\ T = {})
    BY <1>0
  <2>3. s[j] \in Frames
    BY <1>1, <1>2
  <2>4. p # s[j].fn
    BY <2>1, <2>2, <2>3, CallerParts, NullAssumption DEF SInv, IInv, TypeOK
  <2>5. Links(s[j])' /\ Asks(s[j])'
    BY <1>1, <1>2, <2>1, <2>4, LinksKept, AsksKept
  <2>6. Under(Current(s[j])) \subseteq Under(Current(s[j]))'
    <3>1. Current(s[j]) \in regions
      BY <2>1, <2>3, CallerParts
    <3> QED BY <3>1 DEF Grows, Current
  <2>7. \A i \in 1 .. j - 1 : s[i].global \in Under(Current(s[j]))
    BY DEF Waiting
  <2> QED BY <2>1, <2>2, <2>5, <2>6, <2>7
<1>4. ASSUME NEW j \in 2 .. Len(s)
      PROVE  (Amount(s[j], IF j = 2 THEN S \cup T ELSE Mine(s[j - 1])))'
  <2>1. CASE j = 2
    <3>1. Amount(s[j], S)
      BY <2>1 DEF Waiting
    <3>2. Amount(s[j], S \cup T)'
      BY <1>1, <1>2, <1>3, <3>1, AmountKept
    <3> QED BY <2>1, <3>2
  <2>2. CASE j # 2
    <3>1. PICK M : M = Mine(s[j - 1])
      OBVIOUS
    <3>2. M \subseteq storages
      BY <3>1 DEF Mine, Within, Listed
    <3>3. Amount(s[j], M)
      BY <2>2, <3>1 DEF Waiting
    <3>4. Amount(s[j], M \cup T)'
      BY <1>1, <1>2, <1>3, <3>2, <3>3, AmountKept
    <3>5. Mine(s[j - 1])' = M \cup T
      <4>1. j - 1 \in 2 .. Len(s)
        BY <1>2, <2>2
      <4> DEFINE k == j - 1
      <4>2. /\ s[k] \in Frames /\ Links(s[k]) /\ Calling(s[k - 1], s[k])
            /\ (p \in Under(Current(s[k])) \/ (p = NULL /\ T = {}))
        BY <1>1, <1>2, <1>3, <4>1
      <4> HIDE DEF k
      <4>3. Mine(s[k])' = Mine(s[k]) \cup T
        BY <4>2, MineKept
      <4> QED BY <3>1, <4>3 DEF k
    <3> QED BY <2>2, <3>4, <3>5
  <2> QED BY <2>1, <2>2
<1>5. \A j \in 2 .. Len(s) : Counts(s[j])' /\ Calling(s[j - 1], s[j])'
  BY <1>3 DEF Counts, Calling, Opened, Current, Target, Given, Needs, Refused
<1> QED BY <1>3, <1>4, <1>5 DEF Waiting

-----------------------------------------------------------------------------
(* Calls that begin and return.                                            *)

LEMMA Replaced ==
  ASSUME NEW S, NEW s \in Seq(S), s # <<>>, NEW f \in S
  PROVE  LET t == <<f>> \o Tail(s)
         IN  /\ t \in Seq(S) /\ Len(t) = Len(s) /\ Len(s) \in Nat \ {0} /\ t # <<>>
             /\ t[1] = f /\ s[1] = Head(s) /\ s[1] \in S
             /\ \A j \in 2 .. Len(s) : t[j] = s[j]
<1>1. /\ Head(s) \in S /\ Tail(s) \in Seq(S) /\ Len(Tail(s)) = Len(s) - 1 /\ Len(s) \in Nat \ {0}
      /\ \A j \in 1 .. Len(Tail(s)) : Tail(s)[j] = s[j + 1]
  <2>1. Len(s) \in Nat /\ Len(s) # 0
    BY EmptySeq, LenProperties
  <2> QED BY <2>1, HeadTailProperties
<1>2. s[1] = Head(s)
  OBVIOUS
<1>3. <<f>> \in Seq(S) /\ Len(<<f>>) = 1 /\ <<f>>[1] = f
  OBVIOUS
<1>4. LET t == <<f>> \o Tail(s)
      IN  /\ t \in Seq(S) /\ Len(t) = 1 + Len(Tail(s))
          /\ \A j \in 1 .. 1 + Len(Tail(s)) : t[j] = IF j <= 1 THEN <<f>>[j] ELSE Tail(s)[j - 1]
  BY <1>1, <1>3, ConcatProperties
<1> DEFINE t == <<f>> \o Tail(s)
<1>5. t \in Seq(S) /\ Len(t) = Len(s) /\ t[1] = f
  BY <1>1, <1>3, <1>4
<1>6. \A j \in 2 .. Len(s) : t[j] = s[j]
  <2> SUFFICES ASSUME NEW j \in 2 .. Len(s) PROVE t[j] = s[j]
    OBVIOUS
  <2>1. t[j] = Tail(s)[j - 1]
    BY <1>1, <1>4
  <2>2. j - 1 \in 1 .. Len(Tail(s)) /\ (j - 1) + 1 = j
    BY <1>1
  <2> QED BY <1>1, <2>1, <2>2
<1>7. t # <<>>
  <2> HIDE DEF t
  <2> QED BY <1>1, <1>5
<1> QED BY <1>1, <1>2, <1>5, <1>6, <1>7

LEMMA PushedOn ==
  ASSUME NEW S, NEW s \in Seq(S), NEW f \in S
  PROVE  LET t == <<f>> \o s
         IN  /\ t \in Seq(S) /\ Len(t) = Len(s) + 1 /\ Len(s) \in Nat /\ t # <<>> /\ t[1] = f
             /\ \A j \in 2 .. Len(t) : t[j] = s[j - 1] /\ j - 1 \in 1 .. Len(s)
<1>1. <<f>> \in Seq(S) /\ Len(<<f>>) = 1 /\ <<f>>[1] = f /\ Len(s) \in Nat
  BY LenProperties
<1>2. LET t == <<f>> \o s
      IN  /\ t \in Seq(S) /\ Len(t) = 1 + Len(s)
          /\ \A j \in 1 .. 1 + Len(s) : t[j] = IF j <= 1 THEN <<f>>[j] ELSE s[j - 1]
  BY <1>1, ConcatProperties
<1> DEFINE t == <<f>> \o s
<1>3. t \in Seq(S) /\ Len(t) = Len(s) + 1 /\ t[1] = f
  BY <1>1, <1>2
<1>4. \A j \in 2 .. Len(t) : t[j] = s[j - 1] /\ j - 1 \in 1 .. Len(s)
  BY <1>1, <1>2
<1>5. t # <<>>
  <2> HIDE DEF t
  <2> QED BY <1>1, <1>3
<1> QED BY <1>1, <1>3, <1>4, <1>5

LEMMA Popped ==
  ASSUME NEW S, NEW s \in Seq(S), s # <<>>, Len(s) # 1, NEW f \in S
  PROVE  LET t == <<f>> \o Tail(Tail(s))
         IN  /\ t \in Seq(S) /\ Len(t) = Len(s) - 1 /\ Len(s) \in Nat /\ Len(s) >= 2 /\ t # <<>>
             /\ t[1] = f /\ s[2] \in S
             /\ \A j \in 2 .. Len(t) : t[j] = s[j + 1] /\ j + 1 \in 3 .. Len(s)
<1>1. Len(s) \in Nat /\ Len(s) >= 2
  <2>1. Len(s) \in Nat /\ Len(s) # 0
    BY EmptySeq, LenProperties
  <2>2. \A n \in Nat : n # 0 /\ n # 1 => n >= 2
    OBVIOUS
  <2> QED BY <2>1, <2>2
<1>2. /\ Tail(s) \in Seq(S) /\ Len(Tail(s)) = Len(s) - 1
      /\ \A j \in 1 .. Len(Tail(s)) : Tail(s)[j] = s[j + 1]
  BY HeadTailProperties
<1>3. Tail(s) # <<>>
  <2>1. \A u : u = <<>> => Len(u) = 0
    OBVIOUS
  <2>2. PICK n : n = Len(s)
    OBVIOUS
  <2>3. n - 1 # 0 /\ Len(Tail(s)) = n - 1
    BY <1>1, <1>2, <2>2
  <2> QED BY <2>1, <2>3
<1>4. /\ Tail(Tail(s)) \in Seq(S) /\ Len(Tail(Tail(s))) = Len(s) - 2
      /\ \A j \in 1 .. Len(Tail(Tail(s))) : Tail(Tail(s))[j] = Tail(s)[j + 1]
  BY <1>1, <1>2, <1>3, HeadTailProperties
<1> DEFINE u == Tail(Tail(s))
<1>0. u \in Seq(S)
  BY <1>4
<1> HIDE DEF u
<1> DEFINE t == <<f>> \o u
<1>5. /\ t \in Seq(S) /\ Len(t) = Len(u) + 1 /\ t # <<>> /\ t[1] = f
      /\ \A j \in 2 .. Len(t) : t[j] = u[j - 1] /\ j - 1 \in 1 .. Len(u)
  BY <1>0, PushedOn
<1> HIDE DEF t
<1>6. \A j \in 2 .. Len(t) : t[j] = s[j + 1] /\ j + 1 \in 3 .. Len(s)
  <2> SUFFICES ASSUME NEW j \in 2 .. Len(t) PROVE t[j] = s[j + 1] /\ j + 1 \in 3 .. Len(s)
    OBVIOUS
  <2>1. t[j] = u[j - 1] /\ j - 1 \in 1 .. Len(u)
    BY <1>5
  <2>2. Len(t) = Len(s) - 1 /\ Len(u) = Len(s) - 2
    BY <1>1, <1>4, <1>5 DEF u
  <2>3. u[j - 1] = Tail(s)[j] /\ j \in 1 .. Len(Tail(s)) /\ j + 1 \in 3 .. Len(s)
    <3>1. (j - 1) + 1 = j /\ j \in 1 .. Len(Tail(s)) /\ j + 1 \in 3 .. Len(s)
      BY <1>1, <1>2, <2>2
    <3> QED BY <1>4, <2>1, <3>1 DEF u
  <2> QED BY <1>2, <2>1, <2>3
<1>7. Len(t) = Len(s) - 1
  BY <1>1, <1>4, <1>5 DEF u
<1>8. s[2] \in S
  BY <1>1, ElementOfSeq
<1> QED BY <1>1, <1>5, <1>6, <1>7, <1>8 DEF t, u

\* Another call in the place of the innermost, for the same caller.
LEMMA WaitingReplaced ==
  ASSUME NEW s \in Seq(Frames), s # <<>>, NEW f \in Frames, NEW T, Waiting(s, T),
         f.state = s[1].state, f.global = s[1].global,
         Needs[f.expr] = Needs[s[1].expr], Refused[f.expr] = Refused[s[1].expr]
  PROVE  Waiting(<<f>> \o Tail(s), T)
<1> DEFINE t == <<f>> \o Tail(s)
<1>1. Len(t) = Len(s) /\ t[1] = f /\ (\A j \in 2 .. Len(s) : t[j] = s[j]) /\ Len(s) \in Nat
  BY Replaced
<1> HIDE DEF t
<1> SUFFICES ASSUME NEW j \in 2 .. Len(t)
             PROVE  /\ Counts(t[j]) /\ Links(t[j]) /\ Asks(t[j])
                    /\ Amount(t[j], IF j = 2 THEN T ELSE Mine(t[j - 1]))
                    /\ Calling(t[j - 1], t[j])
                    /\ \A i \in 1 .. j - 1 : t[i].global \in Under(Current(t[j]))
  BY DEF Waiting, t
<1>2. j \in 2 .. Len(s) /\ t[j] = s[j]
  BY <1>1
<1>3. /\ Counts(s[j]) /\ Links(s[j]) /\ Asks(s[j])
      /\ Amount(s[j], IF j = 2 THEN T ELSE Mine(s[j - 1]))
      /\ Calling(s[j - 1], s[j])
      /\ \A i \in 1 .. j - 1 : s[i].global \in Under(Current(s[j]))
  BY <1>2 DEF Waiting
<1>4. \A i \in 1 .. j - 1 : t[i].global = s[i].global
  <2> SUFFICES ASSUME NEW i \in 1 .. j - 1 PROVE t[i].global = s[i].global
    OBVIOUS
  <2>1. i = 1 \/ i \in 2 .. Len(s)
    BY <1>1, <1>2
  <2> QED BY <1>1, <2>1
<1>5. CASE j = 2
  <2>1. Calling(t[j - 1], t[j])
    BY <1>1, <1>2, <1>3, <1>5 DEF Calling
  <2> QED BY <1>2, <1>3, <1>4, <1>5, <2>1
<1>6. CASE j # 2
  <2>1. t[j - 1] = s[j - 1]
    <3>1. j - 1 \in 2 .. Len(s)
      BY <1>1, <1>2, <1>6
    <3> QED BY <1>1, <3>1
  <2> QED BY <1>2, <1>3, <1>4, <1>6, <2>1
<1> QED BY <1>5, <1>6

\* A call that the innermost call now waits for.
LEMMA WaitingPushed ==
  ASSUME SInv, NEW s \in Seq(Frames), s # <<>>, NEW c \in Frames, Running(s[1]),
         Waiting(s, Mine(s[1])), Calling(c, s[1]), ~Opened(c)
  PROVE  Waiting(<<c>> \o s, Mine(c))
<1> DEFINE t == <<c>> \o s
<1>0. s[1] \in Frames
  BY Replaced
<1>1. /\ Len(t) = Len(s) + 1 /\ Len(s) \in Nat /\ t[1] = c
      /\ \A j \in 2 .. Len(t) : t[j] = s[j - 1] /\ j - 1 \in 1 .. Len(s)
  BY PushedOn
<1>2. Mine(c) = {}
  BY DEF Mine
<1> HIDE DEF t
<1> SUFFICES ASSUME NEW j \in 2 .. Len(t)
             PROVE  /\ Counts(t[j]) /\ Links(t[j]) /\ Asks(t[j])
                    /\ Amount(t[j], IF j = 2 THEN Mine(c) ELSE Mine(t[j - 1]))
                    /\ Calling(t[j - 1], t[j])
                    /\ \A i \in 1 .. j - 1 : t[i].global \in Under(Current(t[j]))
  BY DEF Waiting, t
<1>3. /\ s[1].fn \in regions /\ Current(s[1]) \in regions /\ Current(s[1]) \in Under(s[1].fn)
      /\ Opened(s[1]) /\ c.global = Current(s[1])
  BY <1>0, CallerParts DEF Running, Calling
<1>4. CASE j = 2
  <2>1. t[j] = s[1] /\ t[j - 1] = c
    BY <1>1, <1>4
  <2>2. \A i \in 1 .. j - 1 : t[i].global \in Under(Current(t[j]))
    <3>1. c.global \in Under(Current(s[1]))
      BY <1>3, UnderLeast
    <3>2. \A i \in 1 .. j - 1 : i = 1
      BY <1>4
    <3> QED BY <1>1, <2>1, <3>1, <3>2
  <2> QED BY <1>2, <1>4, <2>1, <2>2 DEF Running
<1>5. CASE j # 2
  <2> DEFINE k == j - 1
  <2>1. k \in 2 .. Len(s) /\ t[j] = s[k] /\ t[j - 1] = s[k - 1] /\ k \in 1 .. Len(s)
    <3>1. k \in 2 .. Len(s) /\ j - 1 \in 2 .. Len(t) /\ k \in 1 .. Len(s)
      BY <1>1, <1>5
    <3> QED BY <1>1, <3>1
  <2> HIDE DEF k
  <2>2. /\ Counts(s[k]) /\ Links(s[k]) /\ Asks(s[k])
        /\ Amount(s[k], IF k = 2 THEN Mine(s[1]) ELSE Mine(s[k - 1]))
        /\ Calling(s[k - 1], s[k])
        /\ \A i \in 1 .. k - 1 : s[i].global \in Under(Current(s[k]))
    BY <2>1 DEF Waiting
  <2>3. Amount(t[j], Mine(t[j - 1]))
    <3>1. k = 2 => k - 1 = 1
      OBVIOUS
    <3> QED BY <2>1, <2>2, <3>1
  <2>4. Current(s[k]) \in regions
    <3>1. s[k] \in Frames
      BY <2>1, ElementOfSeq
    <3> QED BY <2>2, <3>1, CallerParts
  <2>5. c.global \in Under(Current(s[k]))
    <3>1. s[1].global \in Under(Current(s[k]))
      <4>1. 1 \in 1 .. k - 1
        BY <2>1
      <4> QED BY <2>2, <4>1
    <3>2. s[1].global \in regions /\ Under(s[1].global) \subseteq Under(Current(s[k]))
      BY <2>4, <3>1, UnderWithin
    <3>3. s[1].fn \in Under(s[1].global)
      <4>1. s[1].global # NULL
        BY <3>2, NullAssumption DEF SInv, IInv, TypeOK
      <4>2. s[1].fn \in Kids(s[1].global)
        BY <1>3, <4>1 DEF Running, Links
      <4> QED BY <3>2, <4>2, UnderLeast DEF ClosedUnder
    <3>4. Under(s[1].fn) \subseteq Under(s[1].global)
      BY <3>2, <3>3, UnderWithin
    <3> QED BY <1>3, <3>2, <3>4
  <2>6. \A i \in 1 .. j - 1 : t[i].global \in Under(Current(t[j]))
    <3> SUFFICES ASSUME NEW i \in 1 .. j - 1 PROVE t[i].global \in Under(Current(s[k]))
      BY <2>1
    <3>1. CASE i = 1
      BY <1>1, <2>5, <3>1
    <3>2. CASE i # 1
      <4>1. i \in 2 .. Len(t) /\ i - 1 \in 1 .. k - 1
        BY <1>1, <3>2 DEF k
      <4> QED BY <1>1, <2>2, <4>1
    <3> QED BY <3>1, <3>2
  <2> QED BY <1>5, <2>1, <2>2, <2>3, <2>6
<1> QED BY <1>4, <1>5

-----------------------------------------------------------------------------
(* Calls that return.                                                      *)

\* The caller as Return leaves it.
Resumed(f, error) ==
  IF error THEN [f EXCEPT !.at = "failed"]
  ELSE IF f.at = "params" THEN [f EXCEPT !.next = @ + 1]
  ELSE [f EXCEPT !.at = "done"]

LEMMA ResumedParts ==
  ASSUME NEW f \in Frames, NEW error \in BOOLEAN
  PROVE  LET g == Resumed(f, error)
         IN  /\ g \in Frames
             /\ g.state = f.state /\ g.expr = f.expr /\ g.global = f.global
             /\ g.fn = f.fn /\ g.param = f.param /\ g.body = f.body
             /\ error => g.at = "failed" /\ g.next = f.next
             /\ ~error /\ f.at = "params" => g.at = "params" /\ g.next = f.next + 1
             /\ ~error /\ f.at # "params" => g.at = "done" /\ g.next = f.next
<1>1. f.next + 1 \in Nat \ {0}
  BY DEF Frames
<1>2. CASE error
  BY <1>2 DEF Resumed, Frames
<1>3. CASE ~error /\ f.at = "params"
  BY <1>1, <1>3 DEF Resumed, Frames
<1>4. CASE ~error /\ f.at # "params"
  BY <1>4 DEF Resumed, Frames
<1> QED BY <1>2, <1>3, <1>4

\* The caller goes on with what the call it waited for has charged.
LEMMA ResumedRuns ==
  ASSUME SInv, NEW f \in Frames, NEW c \in Frames, Counts(f), Links(f), Asks(f), Calling(c, f),
         NEW T, T \subseteq storages, Amount(f, T), T \subseteq Within(Current(f)),
         NEW error \in BOOLEAN, error <=> Refused[c.expr], ~error => Weight(T) = Needs[c.expr]
  PROVE  Running(Resumed(f, error)) /\ Mine(Resumed(f, error)) = Mine(f)
<1> DEFINE g == Resumed(f, error)
<1>1. /\ g.state = f.state /\ g.expr = f.expr /\ g.global = f.global
      /\ g.fn = f.fn /\ g.param = f.param /\ g.body = f.body
      /\ error => g.at = "failed" /\ g.next = f.next
      /\ ~error /\ f.at = "params" => g.at = "params" /\ g.next = f.next + 1
      /\ ~error /\ f.at # "params" => g.at = "done" /\ g.next = f.next
  BY ResumedParts
<1>2. /\ Opened(f) /\ f.at \in {"params", "body"} /\ Kind[f.expr] = "lambda"
      /\ f.expr \in Expr /\ f.next \in Nat \ {0} /\ f.expr \notin Pseudo
      /\ f.at = "params" => f.next <= Len(Params[f.expr])
      /\ Needs[c.expr] = Needs[Target(f)] /\ Refused[c.expr] = Refused[Target(f)]
  BY DEF Calling, Opened, Frames, Counts
<1> HIDE DEF g
<1>3. g.at \in {"params", "done", "failed"} /\ Opened(g)
  BY <1>1, <1>2 DEF Opened
<1>4. Mine(g) = Mine(f)
  BY <1>1, <1>2, <1>3 DEF Mine
<1>5. Links(g) /\ Asks(g)
  BY <1>1, <1>2, <1>3 DEF Links, Asks
<1>6. f.at = "params" => f.next \in DOMAIN Params[f.expr]
  BY <1>2, ParamsTyped
<1>7. Refused[f.expr] <=> \/ f.expr \in Pseudo \/ Refused[Body[f.expr]]
                          \/ \E i \in DOMAIN Params[f.expr] : Refused[Params[f.expr][i]]
  BY <1>2, RefusedCases
<1>8. Counts(g)
  <2>1. CASE error
    <3>1. Refused[Target(f)]
      BY <1>2, <2>1
    <3>2. Refused[f.expr]
      BY <1>2, <1>6, <1>7, <3>1 DEF Target
    <3> QED BY <1>1, <1>2, <2>1, <3>2 DEF Counts
  <2>2. CASE ~error /\ f.at = "params"
    <3>1. ~Refused[Params[f.expr][f.next]]
      BY <1>2, <2>2 DEF Target
    <3>2. \A i \in 1 .. g.next - 1 : i = f.next \/ i \in 1 .. f.next - 1
      BY <1>1, <1>2, <2>2
    <3>3. \A i \in 1 .. f.next - 1 : ~Refused[Params[f.expr][i]]
      BY <2>2 DEF Counts
    <3>4. \A i \in 1 .. g.next - 1 : ~Refused[Params[f.expr][i]]
      BY <3>1, <3>2, <3>3
    <3>5. g.next <= Len(Params[f.expr]) + 1
      <4>1. Len(Params[f.expr]) \in Nat
        BY <1>2, ParamsTyped
      <4> QED BY <1>1, <1>2, <2>2, <4>1
    <3> QED BY <1>1, <1>2, <2>2, <3>4, <3>5 DEF Counts
  <2>3. CASE ~error /\ f.at # "params"
    <3>1. ~Refused[Body[f.expr]] /\ f.at = "body"
      BY <1>2, <2>3 DEF Target
    <3>2. f.next = Len(Params[f.expr]) + 1 /\ \A i \in 1 .. f.next - 1 : ~Refused[Params[f.expr][i]]
      BY <3>1 DEF Counts
    <3> QED BY <1>1, <1>2, <2>3, <3>1, <3>2 DEF Counts
  <2> QED BY <2>1, <2>2, <2>3
<1>9. Amount(g, {})
  <2>1. CASE error
    BY <1>1, <2>1 DEF Amount
  <2>2. CASE ~error /\ f.at = "params"
    <3>1. PICK X : X = Within(f.param) \ T
      OBVIOUS
    <3>2. PICK Y : Y = Within(f.param)
      OBVIOUS
    <3>3. Y \subseteq storages /\ Y = X \cup T /\ X \cap T = {} /\ X \subseteq storages
      BY <2>2, <3>1, <3>2 DEF Current, Within, Listed
    <3>4. Weight(Y) = Rem(Weight(X) + Weight(T), Word)
      BY <3>3, WeightUnion
    <3>5. Weight(X) = Given(f.expr, f.next - 1) /\ Within(f.body) = {}
      BY <2>2, <3>1 DEF Amount
    <3>6. Weight(T) = Needs[Params[f.expr][f.next]]
      BY <1>2, <2>2 DEF Target
    <3>7. Given(f.expr, f.next) = Rem(Given(f.expr, f.next - 1) + Needs[Params[f.expr][f.next]], Word)
      BY <1>2, <2>2, GivenNext
    <3>8. g.next - 1 = f.next
      BY <1>1, <1>2, <2>2
    <3>9. Within(g.param) \ {} = Y
      BY <1>1, <3>2
    <3>10. Weight(Within(g.param) \ {}) = Given(g.expr, g.next - 1)
      BY <1>1, <3>4, <3>5, <3>6, <3>7, <3>8, <3>9
    <3> QED BY <1>1, <2>2, <3>5, <3>10 DEF Amount
  <2>3. CASE ~error /\ f.at # "params"
    <3>1. Within(f.body) = T /\ f.at = "body"
      BY <1>2, <2>3 DEF Amount, Current
    <3>2. Weight(T) = Needs[Body[f.expr]]
      BY <1>2, <2>3 DEF Target
    <3>3. Weight(Within(f.param)) = Given(f.expr, Len(Params[f.expr]))
      BY <3>1 DEF Amount
    <3> QED BY <1>1, <2>3, <3>1, <3>2, <3>3 DEF Amount
  <2> QED BY <2>1, <2>2, <2>3
<1> QED BY <1>4, <1>5, <1>8, <1>9 DEF Running, g

LEMMA ReturnedCalls ==
  ASSUME SInv, NEW s \in Seq(Frames), s # <<>>, Len(s) # 1,
         NEW T, T \subseteq storages, Waiting(s, T), T \subseteq Within(Current(s[2])),
         NEW error \in BOOLEAN, error <=> Refused[s[1].expr], ~error => Weight(T) = Needs[s[1].expr]
  PROVE  CallsGood(<<Resumed(s[2], error)>> \o Tail(Tail(s)))
<1> DEFINE f == s[2]
           g == Resumed(f, error)
           t == <<g>> \o Tail(Tail(s))
<1>1. f \in Frames /\ s[1] \in Frames
  <2>1. Head(s) \in Frames /\ s[2] \in Frames
    BY StackParts
  <2> QED BY <2>1
<1>2. g \in Frames /\ g.state = f.state /\ g.global = f.global /\ g.expr = f.expr
  BY <1>1, ResumedParts
<1> HIDE DEF g
<1>3. /\ t \in Seq(Frames) /\ Len(t) = Len(s) - 1 /\ Len(s) \in Nat /\ Len(s) >= 2 /\ t # <<>>
      /\ t[1] = g /\ \A j \in 2 .. Len(t) : t[j] = s[j + 1] /\ j + 1 \in 3 .. Len(s)
  BY <1>2, Popped
<1> HIDE DEF t
<1>4. 2 \in 2 .. Len(s)
  BY <1>3
<1>5. Counts(f) /\ Links(f) /\ Asks(f) /\ Amount(f, T) /\ Calling(s[1], f)
  BY <1>4 DEF Waiting
<1>6. Running(g) /\ Mine(g) = Mine(f)
  BY <1>1, <1>5, ResumedRuns DEF g
<1> HIDE DEF f
<1>7. Waiting(t, Mine(g))
  <2> SUFFICES ASSUME NEW j \in 2 .. Len(t)
               PROVE  /\ Counts(t[j]) /\ Links(t[j]) /\ Asks(t[j])
                      /\ Amount(t[j], IF j = 2 THEN Mine(g) ELSE Mine(t[j - 1]))
                      /\ Calling(t[j - 1], t[j])
                      /\ \A i \in 1 .. j - 1 : t[i].global \in Under(Current(t[j]))
    BY DEF Waiting
  <2> DEFINE k == j + 1
  <2>1. k \in 3 .. Len(s) /\ k \in 2 .. Len(s) /\ t[j] = s[k] /\ k # 2 /\ k - 1 = j
    BY <1>3
  <2>2. t[j - 1] = IF j = 2 THEN g ELSE s[j]
    <3>1. CASE j = 2
      BY <1>3, <3>1
    <3>2. CASE j # 2
      <4>1. j - 1 \in 2 .. Len(t) /\ (j - 1) + 1 = j
        BY <1>3, <3>2
      <4>2. t[j - 1] = s[(j - 1) + 1]
        BY <1>3, <4>1
      <4> QED BY <3>2, <4>1, <4>2
    <3> QED BY <3>1, <3>2
  <2> HIDE DEF k
  <2>3. /\ Counts(s[k]) /\ Links(s[k]) /\ Asks(s[k])
        /\ Amount(s[k], IF k = 2 THEN T ELSE Mine(s[k - 1]))
        /\ Calling(s[k - 1], s[k])
        /\ \A i \in 1 .. k - 1 : s[i].global \in Under(Current(s[k]))
    BY <2>1 DEF Waiting
  <2>4. Amount(s[k], Mine(s[j])) /\ Calling(s[j], s[k])
    BY <2>1, <2>3
  <2>5. Amount(t[j], IF j = 2 THEN Mine(g) ELSE Mine(t[j - 1]))
    BY <1>6, <2>1, <2>2, <2>4 DEF f
  <2>6. Calling(t[j - 1], t[j])
    <3>1. CASE j = 2
      BY <1>2, <2>1, <2>2, <2>4, <3>1 DEF Calling, f
    <3>2. CASE j # 2
      BY <2>1, <2>2, <2>4, <3>2
    <3> QED BY <3>1, <3>2
  <2>7. \A i \in 1 .. j - 1 : t[i].global \in Under(Current(t[j]))
    <3> SUFFICES ASSUME NEW i \in 1 .. j - 1 PROVE t[i].global \in Under(Current(s[k]))
      BY <2>1
    <3>1. i + 1 \in 1 .. k - 1
      BY <2>1
    <3>2. s[i + 1].global \in Under(Current(s[k]))
      BY <2>3, <3>1
    <3>3. t[i].global = s[i + 1].global
      <4>1. CASE i = 1
        BY <1>2, <1>3, <4>1 DEF f
      <4>2. CASE i # 1
        <5>1. i \in 2 .. Len(t)
          BY <1>3, <4>2
        <5> QED BY <1>3, <5>1
      <4> QED BY <4>1, <4>2
    <3> QED BY <3>2, <3>3
  <2> QED BY <2>1, <2>3, <2>5, <2>6, <2>7
<1> QED BY <1>3, <1>6, <1>7 DEF CallsGood, t, g, f

\* The same, of the state a step leads to.
LEMMA ReturnedAll ==
  \A s \in Seq(Frames), error \in BOOLEAN, T \in SUBSET storages :
    /\ SInv /\ s # <<>> /\ Len(s) # 1 /\ Waiting(s, T)
    /\ T \subseteq Within(Current(s[2]))
    /\ (error <=> Refused[s[1].expr]) /\ (~error => Weight(T) = Needs[s[1].expr])
    => CallsGood(<<Resumed(s[2], error)>> \o Tail(Tail(s)))
BY ReturnedCalls

LEMMA ReturnedLater ==
  (\A s \in Seq(Frames), error \in BOOLEAN, T \in SUBSET storages :
    /\ SInv /\ s # <<>> /\ Len(s) # 1 /\ Waiting(s, T)
    /\ T \subseteq Within(Current(s[2]))
    /\ (error <=> Refused[s[1].expr]) /\ (~error => Weight(T) = Needs[s[1].expr])
    => CallsGood(<<Resumed(s[2], error)>> \o Tail(Tail(s))))'
BY ReturnedAll, PTL

\* The frames of the stack.
LEMMA StackFrames ==
  ASSUME MInv
  PROVE  /\ stack \in Seq(Frames) /\ stack \in Seq(GoodFrames(regions, Globals))
         /\ Len(stack) \in Nat /\ DOMAIN stack = 1 .. Len(stack)
         /\ \A j \in DOMAIN stack : stack[j] \in GoodFrames(regions, Globals) /\ stack[j] \in Frames
         /\ stack # <<>> => 1 \in DOMAIN stack /\ stack[1] = Top
<1>1. stack \in Seq(GoodFrames(regions, Globals)) /\ GoodFrames(regions, Globals) \subseteq Frames
  BY DEF MInv, GoodFrames
<1>2. stack \in Seq(Frames)
  BY <1>1, SeqMonotonic
<1>3. Len(stack) \in Nat /\ DOMAIN stack = 1 .. Len(stack)
  BY <1>1, LenProperties
<1>4. \A j \in DOMAIN stack : stack[j] \in GoodFrames(regions, Globals)
  BY <1>1, <1>3, ElementOfSeq
<1>5. ASSUME stack # <<>> PROVE 1 \in DOMAIN stack /\ stack[1] = Top
  <2>1. Len(stack) # 0
    BY <1>1, <1>5, EmptySeq
  <2> QED BY <1>3, <2>1 DEF Top
<1> QED BY <1>1, <1>2, <1>3, <1>4, <1>5

\* A call returns to its caller, in whatever state of the regions.
LEMMA ReturnLater ==
  ASSUME SInv', NEW s \in Seq(Frames), s = stack, s # <<>>, Len(s) # 1,
         NEW error \in BOOLEAN, NEW size, Return(error, size),
         NEW T, T \subseteq storages', Waiting(s, T)', T \subseteq Within(Current(s[2]))',
         error <=> Refused[s[1].expr], ~error => Weight(T)' = Needs[s[1].expr]
  PROVE  CallsGood(stack)'
<1> DEFINE t == <<Resumed(s[2], error)>> \o Tail(Tail(s))
<1>1. stack' = t
  BY DEF Return, Resumed
<1>2. PICK u : u = t
  OBVIOUS
<1>3. (CallsGood(t))'
  BY ReturnedLater
<1>4. CallsGood(u)'
  <2>1. u = t'
    BY <1>2 DEF Resumed
  <2> QED BY <1>3, <2>1
<1> QED BY <1>1, <1>2, <1>4

\* A call of a client's answers.
LEMMA ReturnAnswer ==
  ASSUME AnswersExact, stack # <<>>, NEW error \in BOOLEAN, NEW size, Return(error, size),
         Top.expr \in Expr, error <=> Refused[Top.expr],
         Len(stack) = 1 /\ ~error /\ Kind[Top.expr] = "lambda" => size.raw = Needs[Top.expr]
  PROVE  AnswersExact'
<1>1. CASE Len(stack) = 1
  <2>1. answer' = [expr |-> Top.expr, error |-> error, size |-> size]
    BY <1>1 DEF Return
  <2>2. PICK a : a = answer'
    OBVIOUS
  <2>3. a.expr = Top.expr /\ a.error = error /\ a.size = size
    BY <2>1, <2>2
  <2>4. error = Refused[Top.expr]
    BY RefusedCases
  <2> HIDE DEF Top
  <2>5. a.expr # NULL =>
          /\ a.error = Refused[a.expr]
          /\ ~a.error /\ Kind[a.expr] = "lambda" => a.size.raw = Needs[a.expr]
    BY <1>1, <2>3, <2>4
  <2> QED BY <2>2, <2>5 DEF AnswersExact
<1>2. CASE Len(stack) # 1
  <2>1. UNCHANGED answer
    BY <1>2 DEF Return
  <2> QED BY <2>1 DEF AnswersExact
<1> QED BY <1>1, <1>2

\* A call that returns leaves the regions alone.
LEMMA ReturnStep ==
  ASSUME MInv, SInv, SInv', CallsGood(stack), AnswersExact, stack # <<>>, ChecksKept,
         UNCHANGED <<regions, parent, children, alloced, storages, layout>>,
         NEW error \in BOOLEAN, NEW size, Return(error, size), error <=> Refused[Top.expr],
         Len(stack) # 1 /\ ~error => Weight(Mine(Top)) = Needs[Top.expr],
         Len(stack) = 1 /\ ~error /\ Kind[Top.expr] = "lambda" => size.raw = Needs[Top.expr]
  PROVE  CallsGood(stack)' /\ AnswersExact'
<1>1. Top \in Frames /\ Top.expr \in Expr /\ stack[1] = Top
  BY TopGood, StackFrames DEF Frames
<1>2. AnswersExact'
  BY <1>1, ReturnAnswer
<1>3. CASE Len(stack) = 1
  <2>1. stack' = <<>>
    BY <1>3 DEF Return
  <2> QED BY <1>2, <2>1 DEF CallsGood
<1>4. CASE Len(stack) # 1
  <2>1. PICK s : s = stack
    OBVIOUS
  <2>2. s \in Seq(Frames) /\ s \in Seq(GoodFrames(regions, Globals)) /\ s # <<>> /\ Len(s) # 1
    BY <1>4, <2>1, StackFrames
  <2>3. s[1] = Top /\ s[2] \in Frames /\ 2 \in 2 .. Len(s)
    <3>1. s[2] \in Frames
      BY <2>2, StackParts
    <3>2. Len(s) >= 2 /\ Len(s) \in Nat
      BY <2>2, <3>1, Popped
    <3> QED BY <1>1, <2>1, <3>1, <3>2
  <2>4. PICK T : T = Mine(Top)
    OBVIOUS
  <2>5. T \subseteq storages
    BY <2>4 DEF Mine, Within, Listed
  <2>6. Running(Top) /\ Waiting(s, T)
    BY <2>1, <2>2, <2>3, <2>4 DEF CallsGood
  <2>7. Grows(NULL, {}) /\ \A q : Under(q)' = Under(q) /\ Within(q)' = Within(q)
    BY StillGrows
  <2>8. Waiting(s, T \cup {})'
    BY <2>2, <2>5, <2>6, <2>7, WaitingKept
  <2>9. Links(s[2]) /\ Calling(Top, s[2])
    BY <2>3, <2>6 DEF Waiting
  <2>10. T \subseteq Within(Current(s[2]))
    <3>1. CASE Opened(Top)
      <4>1. Current(s[2]) \in regions /\ Top.global = Current(s[2])
        BY <2>3, <2>9, CallerParts DEF Calling
      <4>2. Top.global # NULL
        BY <4>1, NullAssumption DEF SInv, IInv, TypeOK
      <4>3. Top.fn \in Kids(Top.global)
        BY <2>6, <3>1, <4>2 DEF Running, Links
      <4>4. Under(Top.fn) \subseteq Under(Top.global)
        BY <4>1, <4>3, UnderSplit
      <4> QED BY <2>4, <3>1, <4>1, <4>4 DEF Mine, Within, Listed
    <3>2. CASE ~Opened(Top)
      BY <2>4, <3>2 DEF Mine
    <3> QED BY <3>1, <3>2
  <2>11. T \subseteq Within(Current(s[2]))'
    <3>1. PICK q : q = Current(s[2])
      OBVIOUS
    <3>2. Current(s[2])' = q
      BY <3>1 DEF Current
    <3> QED BY <2>7, <2>10, <3>1, <3>2
  <2>12. ~error => Weight(T)' = Needs[s[1].expr]
    BY <1>4, <2>3, <2>4, <2>5, <2>7 DEF Grows
  <2>13. CallsGood(stack)'
    <3>1. Waiting(s, T)'
      BY <2>8
    <3> QED BY <2>1, <2>2, <2>3, <2>5, <2>11, <2>12, <3>1, ReturnLater
  <2> QED BY <1>2, <2>13
<1> QED BY <1>3, <1>4

-----------------------------------------------------------------------------
(* What the states remember.                                               *)

\* No state remembers a region that the region is under.
Unremembered(q) ==
  \A st \in State, e \in Expr, r \in Region \cup {NULL} : Remembers(st, e, r) => q \notin Under(r)

LEMMA PlacesUnremembered ==
  ASSUME MemoryGood, NEW j \in DOMAIN stack, NEW q \in Places(stack[j])
  PROVE  Unremembered(q)
BY DEF MemoryGood, Finished, Unremembered

LEMMA NullUnremembered ==
  ASSUME SInv
  PROVE  Unremembered(NULL)
<1>1. NULL \notin regions
  BY NullAssumption DEF SInv, IInv, TypeOK
<1>2. \A r : Under(r) \subseteq regions
  BY DEF Under
<1> QED BY <1>1, <1>2 DEF Unremembered

LEMMA MemoryKept ==
  ASSUME SInv, MemoryGood, NEW p, NEW T, Grows(p, T), Unremembered(p),
         \A st \in State, e \in Expr, r \in Region \cup {NULL} : Remembers(st, e, r)' =>
           \/ /\ Remembers(st, e, r) /\ checks'[st].global = checks[st].global
              /\ checks[st].regions \subseteq checks'[st].regions
           \/ Finished(st, e, r)',
         \A j \in DOMAIN stack' : \A q \in Places(stack'[j]) \cap regions : Unremembered(q)
  PROVE  MemoryGood'
<1> SUFFICES ASSUME NEW st \in State, NEW e \in Expr, NEW r \in Region \cup {NULL},
                    Remembers(st, e, r), checks'[st].global = checks[st].global,
                    checks[st].regions \subseteq checks'[st].regions
             PROVE  Finished(st, e, r)'
  BY DEF MemoryGood
<1>1. Finished(st, e, r)
  BY DEF MemoryGood
<1>2. r \in regions /\ p \notin Under(r) /\ Under(r) \subseteq regions
  BY <1>1 DEF Finished, Unremembered, Under
<1>3. r \in regions' /\ parent'[r] = parent[r] /\ Under(r)' = Under(r) /\ Within(r)' = Within(r)
  BY <1>2 DEF Grows
<1>4. PICK W : W = Within(r)
  OBVIOUS
<1>5. W \in SUBSET storages
  BY <1>4 DEF Within, Listed
<1>6. Weight(Within(r))' = Weight(Within(r))
  <2>1. Weight(W)' = Weight(W)
    BY <1>5 DEF Grows
  <2>2. W = Within(r)'
    BY <1>3, <1>4
  <2> QED BY <1>4, <2>1, <2>2
<1>7. ASSUME NEW j \in DOMAIN stack' PROVE Places(stack'[j]) \cap Under(r)' = {}
  BY <1>2, <1>3 DEF Unremembered
<1>8. \A j \in DOMAIN stack' : (Places(stack[j]) \cap Under(r))' = {}
  BY <1>7
<1> QED BY <1>1, <1>3, <1>6, <1>8 DEF Finished

-----------------------------------------------------------------------------
(* The steps of a check that leave the regions alone.                      *)

LEMMA RawAnswer ==
  ASSUME SInv, NEW r \in regions
  PROVE  /\ RegionSize(r, TRUE, 0).raw = Weight(Within(r))
         /\ RawSize(r, TRUE) = Weight(Within(r))
<1>1. 0 \in 0 .. Word
  BY WordType
<1>2. Reach(r, TRUE) = Within(r) /\ TRUE \in BOOLEAN
  BY ReachSplit
<1>3. RawSize(r, TRUE) = Weight(Within(r))
  BY <1>2, RawSizeIs DEF Weight
<1> DEFINE w == Rem(Total(Reach(r, TRUE), Aligned), Word)
           a == Rem(Total(Reach(r, TRUE), PaddedTo(Effective(r, TRUE, 0))), Word)
           both == RegionSize(r, TRUE, 0)
<1>4. both = [raw |-> w, aligned |-> a]
  BY <1>1, <1>2, RegionSizeIs
<1>5. w = Weight(Within(r))
  BY DEF Weight, Reach, Within
<1> HIDE DEF w, a, both
<1>6. both.raw = w
  BY <1>4
<1> QED BY <1>3, <1>5, <1>6 DEF both

\* Only a client's call has a state.
LEMMA OutermostAlone ==
  ASSUME MInv, CallsGood(stack), stack # <<>>, Top.state # NULL
  PROVE  Len(stack) = 1
<1>1. ASSUME Len(stack) # 1 PROVE FALSE
  <2>1. stack[1] = Top /\ stack \in Seq(Frames)
    BY StackFrames
  <2>2. 2 \in 2 .. Len(stack)
    <3>1. Top \in Frames
      BY TopGood
    <3>2. Len(stack) \in Nat /\ Len(stack) >= 2
      BY <1>1, <2>1, <3>1, Popped
    <3> QED BY <3>2
  <2>3. Calling(stack[1], stack[2])
    BY <2>2 DEF CallsGood, Waiting
  <2> QED BY <2>1, <2>3 DEF Calling
<1> QED BY <1>1

\* What the places of the calls become.
LEMMA PlacesReturned ==
  ASSUME MInv, MemoryGood, stack # <<>>, NEW error \in BOOLEAN, NEW size, Return(error, size)
  PROVE  \A j \in DOMAIN stack' : \A q \in Places(stack'[j]) : Unremembered(q)
<1>1. CASE Len(stack) = 1
  BY <1>1 DEF Return
<1>2. CASE Len(stack) # 1
  <2> DEFINE g == Resumed(stack[2], error)
  <2>1. stack \in Seq(Frames) /\ stack[2] \in Frames
    BY <1>2, StackFrames, StackParts
  <2>2. g \in Frames /\ Places(g) = Places(stack[2])
    BY <2>1, ResumedParts DEF Places
  <2>3. stack' = <<g>> \o Tail(Tail(stack))
    BY <1>2 DEF Return, Resumed
  <2> HIDE DEF g
  <2>4. /\ stack' \in Seq(Frames) /\ Len(stack') = Len(stack) - 1 /\ Len(stack) \in Nat /\ Len(stack) >= 2
        /\ stack'[1] = g /\ \A j \in 2 .. Len(stack') : stack'[j] = stack[j + 1] /\ j + 1 \in 3 .. Len(stack)
    BY <1>2, <2>1, <2>2, <2>3, Popped
  <2>5. DOMAIN stack' = 1 .. Len(stack') /\ DOMAIN stack = 1 .. Len(stack)
    BY <2>4, StackFrames, LenProperties
  <2> SUFFICES ASSUME NEW j \in DOMAIN stack', NEW q \in Places(stack'[j]) PROVE Unremembered(q)
    OBVIOUS
  <2>6. CASE j = 1
    <3>1. 2 \in DOMAIN stack
      BY <2>4, <2>5
    <3> QED BY <2>2, <2>4, <2>6, <3>1, PlacesUnremembered
  <2>7. CASE j # 1
    <3>1. j \in 2 .. Len(stack')
      BY <2>4, <2>5, <2>7
    <3>2. stack'[j] = stack[j + 1] /\ j + 1 \in DOMAIN stack
      BY <2>4, <2>5, <3>1
    <3> QED BY <3>2, PlacesUnremembered
  <2> QED BY <2>6, <2>7
<1> QED BY <1>1, <1>2

LEMMA PlacesReplaced ==
  ASSUME MInv, MemoryGood, stack # <<>>, NEW f \in Frames, stack' = <<f>> \o Tail(stack),
         \A q \in Places(f) \cap regions : Unremembered(q)
  PROVE  \A j \in DOMAIN stack' : \A q \in Places(stack'[j]) \cap regions : Unremembered(q)
<1>1. /\ stack' \in Seq(Frames) /\ Len(stack') = Len(stack) /\ stack'[1] = f
      /\ \A j \in 2 .. Len(stack) : stack'[j] = stack[j]
  BY StackFrames, Replaced
<1>2. DOMAIN stack' = 1 .. Len(stack') /\ DOMAIN stack = 1 .. Len(stack) /\ Len(stack) \in Nat
  BY <1>1, StackFrames, LenProperties
<1>3. \A j \in DOMAIN stack' : j = 1 \/ j \in 2 .. Len(stack)
  BY <1>1, <1>2
<1>4. \A j \in 2 .. Len(stack) : j \in DOMAIN stack
  BY <1>2
<1> QED BY <1>1, <1>3, <1>4, PlacesUnremembered

LEMMA PlacesPushed ==
  ASSUME MInv, MemoryGood, NEW f \in Frames, stack' = <<f>> \o stack,
         \A q \in Places(f) \cap regions : Unremembered(q)
  PROVE  \A j \in DOMAIN stack' : \A q \in Places(stack'[j]) \cap regions : Unremembered(q)
<1>1. /\ stack' \in Seq(Frames) /\ Len(stack') = Len(stack) + 1 /\ stack'[1] = f
      /\ \A j \in 2 .. Len(stack') : stack'[j] = stack[j - 1] /\ j - 1 \in 1 .. Len(stack)
  BY StackFrames, PushedOn
<1>2. DOMAIN stack' = 1 .. Len(stack') /\ DOMAIN stack = 1 .. Len(stack) /\ Len(stack) \in Nat
  BY <1>1, StackFrames, LenProperties
<1>3. \A j \in DOMAIN stack' : j = 1 \/ j \in 2 .. Len(stack')
  BY <1>1, <1>2
<1> QED BY <1>1, <1>2, <1>3, PlacesUnremembered

\* Nothing but the stack changes.
LEMMA StillMemory ==
  ASSUME SInv, MemoryGood, UNCHANGED <<memory, checks, closing>>,
         \A j \in DOMAIN stack' : \A q \in Places(stack'[j]) \cap regions : Unremembered(q)
  PROVE  MemoryGood'
<1>1. Grows(NULL, {}) /\ Unremembered(NULL)
  BY StillGrows, NullUnremembered DEF memory
<1>2. \A st \in State, e \in Expr, r \in Region \cup {NULL} : Remembers(st, e, r)' =>
         /\ Remembers(st, e, r) /\ checks'[st].global = checks[st].global
         /\ checks[st].regions \subseteq checks'[st].regions
  BY DEF Remembers
<1> QED BY <1>1, <1>2, MemoryKept

\* Answers that change nothing but the stack.
LEMMA AnswerSizes ==
  ASSUME MInv, SInv, SInv', CheckerSizes, CheckConstant \/ RefusePseudo \/ AnswerKnown \/ PassOn
  PROVE  CheckerSizes'
<1>1. /\ stack # <<>> /\ UNCHANGED <<memory, pools, checks, closing>> /\ CallsGood(stack)
      /\ MemoryGood /\ AnswersExact
  BY DEF CheckConstant, RefusePseudo, AnswerKnown, PassOn, At, CheckerSizes
<1>2. Top \in Frames /\ Top.expr \in Expr /\ stack[1] = Top /\ closing = NULL
      /\ Top.state \in DOMAIN checks \cup {NULL}
  BY <1>1, TopGood, StackFrames DEF Frames
<1>3. Running(Top)
  BY <1>1, <1>2 DEF CallsGood
<1>4. \E error \in BOOLEAN : \E size :
        /\ Return(error, size) /\ (error <=> Refused[Top.expr])
        /\ (Len(stack) # 1 /\ ~error => Weight(Mine(Top)) = Needs[Top.expr])
        /\ (Len(stack) = 1 /\ ~error /\ Kind[Top.expr] = "lambda" => size.raw = Needs[Top.expr])
  <2>1. CASE CheckConstant
    <3>1. Return(FALSE, NoSize) /\ Kind[Top.expr] = "constant" /\ ~Opened(Top)
      BY <2>1 DEF CheckConstant, At, Opened
    <3>2. ~Refused[Top.expr] /\ Needs[Top.expr] = 0
      BY <1>2, <3>1, RefusedCases, NeedsAre, NeedsCases
    <3>3. Weight(Mine(Top)) = 0
      BY <3>1, WeightNone DEF Mine
    <3> QED BY <3>1, <3>2, <3>3
  <2>2. CASE RefusePseudo
    <3>1. Return(TRUE, NoSize) /\ Kind[Top.expr] = "lambda" /\ Top.expr \in Pseudo
      BY <2>2 DEF RefusePseudo, At
    <3>2. Refused[Top.expr]
      BY <1>2, <3>1, RefusedCases
    <3> QED BY <3>1, <3>2
  <2>3. CASE PassOn
    <3>1. Return(TRUE, NoSize) /\ Top.at = "failed"
      BY <2>3 DEF PassOn, At
    <3>2. Refused[Top.expr]
      BY <1>3, <3>1 DEF Running, Counts
    <3> QED BY <3>1, <3>2
  <2>4. CASE AnswerKnown
    <3> DEFINE r == checks[Top.state].regionMap[Top.expr]
    <3>1. /\ Return(FALSE, RegionSize(r, TRUE, 0)) /\ Kind[Top.expr] = "lambda"
          /\ Top.state # NULL /\ Top.expr \in DOMAIN checks[Top.state].regionMap
      BY <2>4 DEF AnswerKnown, At, Known
    <3>2. Len(stack) = 1
      BY <1>1, <3>1, OutermostAlone
    <3>3. Top.state \in DOMAIN checks /\ Top.state \in State
      BY <1>2, <3>1 DEF MInv, TypesGood
    <3>4. r \in Region \cup {NULL}
      <4>1. checks[Top.state] \in Fields
        BY <3>3 DEF MInv, TypesGood
      <4> QED BY <3>1, <4>1 DEF Fields
    <3>5. Remembers(Top.state, Top.expr, r)
      BY <1>2, <1>3, <3>1, <3>3, StateAssumption DEF Remembers, Running, Asks
    <3>6. Finished(Top.state, Top.expr, r)
      BY <1>1, <1>2, <3>3, <3>4, <3>5 DEF MemoryGood
    <3> HIDE DEF r
    <3>7. RegionSize(r, TRUE, 0).raw = Needs[Top.expr] /\ ~Refused[Top.expr]
      BY <3>6, RawAnswer DEF Finished
    <3> QED BY <3>1, <3>2, <3>7
  <2> QED BY <2>1, <2>2, <2>3, <2>4
<1>5. PICK error \in BOOLEAN : \E size :
        /\ Return(error, size) /\ (error <=> Refused[Top.expr])
        /\ (Len(stack) # 1 /\ ~error => Weight(Mine(Top)) = Needs[Top.expr])
        /\ (Len(stack) = 1 /\ ~error /\ Kind[Top.expr] = "lambda" => size.raw = Needs[Top.expr])
  BY <1>4
<1>9. PICK size :
        /\ Return(error, size)
        /\ (Len(stack) = 1 /\ ~error /\ Kind[Top.expr] = "lambda" => size.raw = Needs[Top.expr])
  BY <1>5
<1>6. UNCHANGED <<regions, parent, children, alloced, storages, layout>> /\ ChecksKept
  BY <1>1 DEF memory, ChecksKept
<1>7. CallsGood(stack)' /\ AnswersExact'
  BY <1>1, <1>5, <1>9, <1>6, ReturnStep
<1>8. MemoryGood'
  BY <1>1, <1>9, PlacesReturned, StillMemory
<1> QED BY <1>7, <1>8 DEF CheckerSizes

\* A function that is done answers what its structure needs.
LEMMA DoneWeighs ==
  ASSUME SInv, NEW f \in Frames, Running(f), Kind[f.expr] = "lambda", f.at = "done"
  PROVE  /\ Weight(Within(f.fn)) = Needs[f.expr] /\ ~Refused[f.expr] /\ f.fn \in regions
         /\ Mine(f) = Within(f.fn)
<1>1. Opened(f) /\ f.expr \in Expr
  BY DEF Opened, Frames
<1>2. /\ f.fn \in regions /\ Within(f.fn) = Within(f.param) \cup Within(f.body)
      /\ Within(f.param) \cap Within(f.body) = {}
  BY <1>1, OpenedParts DEF Running
<1>3. Within(f.param) \subseteq storages /\ Within(f.body) \subseteq storages
  BY DEF Within, Listed
<1>4. Weight(Within(f.fn)) = Rem(Weight(Within(f.param)) + Weight(Within(f.body)), Word)
  BY <1>2, <1>3, WeightUnion
<1>5. Weight(Within(f.fn)) = Needs[f.expr]
  BY <1>1, <1>4, NeedsOfLambda DEF Running, Amount
<1>6. ~Refused[f.expr]
  <2>1. /\ f.expr \notin Pseudo /\ ~Refused[Body[f.expr]]
        /\ f.next = Len(Params[f.expr]) + 1 /\ \A i \in 1 .. f.next - 1 : ~Refused[Params[f.expr][i]]
    BY <1>1 DEF Running, Counts
  <2>2. DOMAIN Params[f.expr] = 1 .. f.next - 1
    BY <1>1, <2>1, ParamsTyped
  <2> QED BY <1>1, <2>1, <2>2, RefusedCases
<1> QED BY <1>1, <1>2, <1>5, <1>6 DEF Mine

\* The calls are what they were while nothing changes but the stack.
LEMMA CallsStill ==
  ASSUME SInv, UNCHANGED <<regions, parent, children, alloced, storages, layout>>, ChecksKept,
         NEW t \in Seq(GoodFrames(regions, Globals)), CallsGood(t)
  PROVE  CallsGood(t)'
<1>1. CASE t = <<>>
  BY <1>1 DEF CallsGood
<1>2. CASE t # <<>>
  <2>1. t[1] \in GoodFrames(regions, Globals)
    BY <1>2, Replaced
  <2>2. /\ t[1] \in Frames /\ t[1].state \in DOMAIN checks \cup {NULL}
        /\ t[1].global \in regions \cup {NULL}
    BY <2>1 DEF GoodFrames, GoodFrame, Globals
  <2>3. Grows(NULL, {}) /\ \A q : Under(q)' = Under(q) /\ Within(q)' = Within(q)
    BY StillGrows
  <2>4. PICK S : S = Mine(t[1])
    OBVIOUS
  <2>5. S \subseteq storages
    BY <2>4 DEF Mine, Within, Listed
  <2>6. Running(t[1]) /\ Waiting(t, S)
    BY <1>2, <2>4 DEF CallsGood
  <2>7. Waiting(t, S \cup {})'
    BY <2>3, <2>5, <2>6, WaitingKept
  <2>8. S = Mine(t[1])'
    BY <2>3, <2>4 DEF Mine, Opened
  <2>9. Opened(t[1]) => NULL # t[1].fn
    BY <2>6, NullAssumption DEF Running, Links, SInv, IInv, TypeOK
  <2>10. Links(t[1])' /\ Asks(t[1])'
    BY <2>2, <2>3, <2>6, <2>9, LinksKept, AsksKept DEF Running
  <2>11. Counts(t[1])'
    BY <2>6 DEF Running, Counts, Opened, Refused
  <2>12. Amount(t[1], {})'
    <3>1. PICK f : f = t[1]
      OBVIOUS
    <3>2. PICK X, Y : X = Within(f.param) /\ Y = Within(f.body)
      OBVIOUS
    <3>3. X \in SUBSET storages /\ Y \in SUBSET storages
      BY <3>2 DEF Within, Listed
    <3>4. Within(f.param)' = X /\ Within(f.body)' = Y /\ Weight(X)' = Weight(X) /\ Weight(Y)' = Weight(Y)
      BY <2>3, <3>2, <3>3 DEF Grows
    <3>5. X \ {} = X
      OBVIOUS
    <3>6. Weight(Within(f.param))' = Weight(X) /\ Weight(Within(f.body))' = Weight(Y)
          /\ Weight(Within(f.param) \ {})' = Weight(X)
      BY <3>4, <3>5
    <3>7. Amount(f, {})
      BY <2>6, <3>1 DEF Running
    <3>8. Amount(f, {})'
      BY <3>2, <3>4, <3>5, <3>6, <3>7 DEF Amount
    <3> QED BY <3>1, <3>8
  <2>13. Waiting(t, Mine(t[1]))'
    <3>1. S \cup {} = S
      OBVIOUS
    <3> QED BY <2>7, <2>8, <3>1
  <2> QED BY <2>10, <2>11, <2>12, <2>13 DEF CallsGood, Running
<1> QED BY <1>1, <1>2

LEMMA StackSizes ==
  ASSUME MInv, MInv', SInv, CheckerSizes, stack # <<>>,
         UNCHANGED <<memory, checks, closing, answer>>,
         NEW t, t = stack', CallsGood(t),
         \A j \in DOMAIN stack' : \A q \in Places(stack'[j]) \cap regions : Unremembered(q)
  PROVE  CheckerSizes'
<1>1. UNCHANGED <<regions, parent, children, alloced, storages, layout>> /\ ChecksKept
  BY DEF memory, ChecksKept
<1>2. t \in Seq(GoodFrames(regions, Globals))
  <2>1. (stack \in Seq(GoodFrames(regions, Globals)))'
    BY DEF MInv
  <2>2. Globals' = Globals
    BY DEF Globals
  <2> QED BY <1>1, <2>1, <2>2
<1>3. CallsGood(t)'
  BY <1>1, <1>2, CallsStill
<1>4. CallsGood(stack)'
  BY <1>3
<1>5. MemoryGood'
  BY StillMemory DEF CheckerSizes
<1>6. AnswersExact'
  BY DEF CheckerSizes, AnswersExact
<1> QED BY <1>4, <1>5, <1>6 DEF CheckerSizes

\* The innermost call, and its callers.
LEMMA TopRuns ==
  ASSUME MInv, CheckerSizes, stack # <<>>
  PROVE  /\ Top \in Frames /\ Top.expr \in Expr /\ Running(Top) /\ Waiting(stack, Mine(Top))
         /\ stack[1] = Top /\ \A q \in Places(Top) : Unremembered(q)
         /\ stack \in Seq(Frames) /\ MemoryGood /\ AnswersExact
<1>1. Top \in Frames /\ stack[1] = Top /\ 1 \in DOMAIN stack /\ stack \in Seq(Frames)
  BY TopGood, StackFrames
<1>2. Running(Top) /\ Waiting(stack, Mine(Top)) /\ MemoryGood /\ AnswersExact
  BY <1>1 DEF CheckerSizes, CallsGood
<1>3. \A q \in Places(Top) : Unremembered(q)
  BY <1>1, <1>2, PlacesUnremembered
<1> QED BY <1>1, <1>2, <1>3 DEF Frames

LEMMA UseGlobalSizes ==
  ASSUME MInv, MInv', SInv, CheckerSizes, UseGlobal
  PROVE  CheckerSizes'
<1> DEFINE f == [Top EXCEPT !.at = "alloc", !.fn = Top.global]
           t == <<f>> \o Tail(stack)
<1>1. /\ stack # <<>> /\ Kind[Top.expr] = "plain" /\ Top.at = "start" /\ Top.global # NULL
      /\ t = stack' /\ UNCHANGED <<memory, checks, closing, answer>>
  BY DEF UseGlobal, At, Update
<1>2. /\ Top \in Frames /\ Running(Top) /\ Waiting(stack, Mine(Top)) /\ stack[1] = Top
      /\ (\A q \in Places(Top) : Unremembered(q)) /\ stack \in Seq(Frames) /\ MemoryGood
  BY <1>1, TopRuns
<1>3. /\ f \in Frames /\ f.state = Top.state /\ f.expr = Top.expr /\ f.global = Top.global
      /\ f.at = "alloc" /\ f.fn = Top.global /\ f.param = Top.param /\ f.body = Top.body /\ f.next = Top.next
  BY <1>2 DEF Frames
<1> HIDE DEF f
<1>4. Mine(Top) = {} /\ Mine(f) = {} /\ ~Opened(f) /\ ~Opened(Top)
  BY <1>1, <1>3 DEF Mine, Opened
<1>5. Running(f)
  BY <1>1, <1>2, <1>3, <1>4 DEF Running, Counts, Links, Asks, Amount
<1>6. t[1] = f /\ t # <<>>
  BY <1>1, <1>2, <1>3, Replaced
<1>7. Waiting(t, Mine(f))
  BY <1>1, <1>2, <1>3, <1>4, WaitingReplaced
<1>8. \A q \in Places(f) : Unremembered(q)
  BY <1>2, <1>3 DEF Places
<1>9. \A j \in DOMAIN stack' : \A q \in Places(stack'[j]) \cap regions : Unremembered(q)
  BY <1>1, <1>2, <1>3, <1>8, PlacesReplaced
<1>10. CallsGood(t)
  BY <1>5, <1>6, <1>7 DEF CallsGood
<1> HIDE DEF t
<1> QED BY <1>1, <1>9, <1>10, StackSizes

LEMMA DelegateSizes ==
  ASSUME MInv, MInv', SInv, CheckerSizes, Delegate
  PROVE  CheckerSizes'
<1> DEFINE f == [Top EXCEPT !.expr = Body[Top.expr]]
           t == <<f>> \o Tail(stack)
<1>1. /\ stack # <<>> /\ Kind[Top.expr] = "fndef" /\ Top.at = "start"
      /\ t = stack' /\ UNCHANGED <<memory, checks, closing, answer>>
  BY DEF Delegate, At, Update
<1>2. /\ Top \in Frames /\ Running(Top) /\ Waiting(stack, Mine(Top)) /\ stack[1] = Top
      /\ (\A q \in Places(Top) : Unremembered(q)) /\ stack \in Seq(Frames) /\ MemoryGood
      /\ Top.expr \in Expr
  BY <1>1, TopRuns
<1>0. Body[Top.expr] \in Expr
  BY <1>1, <1>2, ExprAssumption
<1>3. /\ f \in Frames /\ f.state = Top.state /\ f.expr = Body[Top.expr] /\ f.global = Top.global
      /\ f.at = "start" /\ f.fn = Top.fn /\ f.param = Top.param /\ f.body = Top.body /\ f.next = Top.next
  BY <1>0, <1>1, <1>2 DEF Frames
<1> HIDE DEF f
<1>4. Mine(Top) = {} /\ Mine(f) = {} /\ ~Opened(f) /\ ~Opened(Top)
  BY <1>1, <1>3 DEF Mine, Opened
<1>5. Running(f)
  BY <1>1, <1>2, <1>3, <1>4 DEF Running, Counts, Links, Asks, Amount
<1>6. t[1] = f /\ t # <<>>
  BY <1>1, <1>2, <1>3, Replaced
<1>7. Waiting(t, Mine(f))
  <2>1. Needs[f.expr] = Needs[Top.expr] /\ Refused[f.expr] = Refused[Top.expr]
    BY <1>1, <1>2, <1>3, NeedsAre, NeedsCases, RefusedCases
  <2> QED BY <1>1, <1>2, <1>3, <1>4, <2>1, WaitingReplaced
<1>8. \A q \in Places(f) : Unremembered(q)
  BY <1>2, <1>3 DEF Places
<1>9. \A j \in DOMAIN stack' : \A q \in Places(stack'[j]) \cap regions : Unremembered(q)
  BY <1>1, <1>2, <1>3, <1>8, PlacesReplaced
<1>10. CallsGood(t)
  BY <1>5, <1>6, <1>7 DEF CallsGood
<1> HIDE DEF t
<1> QED BY <1>1, <1>9, <1>10, StackSizes

\* A nested call that begins.
LEMMA NestedBegins ==
  ASSUME SInv, NEW s \in Seq(Frames), s # <<>>, Running(s[1]), Waiting(s, Mine(s[1])),
         NEW c \in Frames, c = Frame(NULL, Target(s[1]), Current(s[1])), Calling(c, s[1])
  PROVE  CallsGood(<<c>> \o s)
<1> DEFINE t == <<c>> \o s
<1>1. /\ c.state = NULL /\ c.at = "start" /\ c.next = 1
  BY DEF Frame
<1>2. ~Opened(c) /\ Mine(c) = {}
  BY <1>1 DEF Opened, Mine
<1>3. Running(c)
  BY <1>1, <1>2 DEF Running, Counts, Links, Asks, Amount
<1>4. t[1] = c /\ t # <<>>
  BY PushedOn
<1>5. Waiting(t, Mine(c))
  BY <1>2, WaitingPushed
<1> QED BY <1>3, <1>4, <1>5 DEF CallsGood

LEMMA CheckParamSizes ==
  ASSUME MInv, MInv', SInv, CheckerSizes, CheckParam
  PROVE  CheckerSizes'
<1> DEFINE c == Frame(NULL, Params[Top.expr][Top.next], Top.param)
           t == <<c>> \o stack
<1>1. /\ stack # <<>> /\ Kind[Top.expr] = "lambda" /\ Top.at = "params"
      /\ Top.next <= Len(Params[Top.expr])
      /\ t = stack' /\ UNCHANGED <<memory, checks, closing, answer>>
  BY DEF CheckParam, At
<1>2. /\ Top \in Frames /\ Running(Top) /\ Waiting(stack, Mine(Top)) /\ stack[1] = Top
      /\ (\A q \in Places(Top) : Unremembered(q)) /\ stack \in Seq(Frames) /\ MemoryGood
      /\ Top.expr \in Expr /\ Top.next \in Nat \ {0}
  BY <1>1, TopRuns DEF Frames
<1>3. Target(Top) \in Expr /\ Target(Top) = Params[Top.expr][Top.next] /\ Current(Top) = Top.param
  <2>1. Top.next \in DOMAIN Params[Top.expr]
    BY <1>1, <1>2, ParamsTyped
  <2> QED BY <1>1, <1>2, <2>1, ParamsTyped DEF Target, Current
<1>4. c \in Frames /\ c = Frame(NULL, Target(Top), Current(Top))
  BY <1>2, <1>3 DEF Frames, Frame
<1>5. Calling(c, Top)
  BY <1>1, <1>3 DEF Calling, Frame
<1>6. \A q \in Places(c) \cap regions : Unremembered(q)
  <2>1. Places(c) = {Top.param, NULL}
    BY DEF Frame, Places
  <2> QED BY <1>2, <2>1, NullUnremembered DEF Places
<1> HIDE DEF c
<1>7. CallsGood(t)
  BY <1>1, <1>2, <1>4, <1>5, NestedBegins
<1>8. \A j \in DOMAIN stack' : \A q \in Places(stack'[j]) \cap regions : Unremembered(q)
  BY <1>1, <1>2, <1>4, <1>6, PlacesPushed
<1> HIDE DEF t
<1> QED BY <1>1, <1>7, <1>8, StackSizes

LEMMA CheckBodySizes ==
  ASSUME MInv, MInv', SInv, CheckerSizes, CheckBody
  PROVE  CheckerSizes'
<1> DEFINE c == Frame(NULL, Body[Top.expr], Top.body)
           f == [Top EXCEPT !.at = "body"]
           s == <<f>> \o Tail(stack)
           t == <<c>> \o s
<1>1. /\ stack # <<>> /\ Kind[Top.expr] = "lambda" /\ Top.at = "params"
      /\ Top.next > Len(Params[Top.expr])
      /\ stack' = <<c, f>> \o Tail(stack) /\ UNCHANGED <<memory, checks, closing, answer>>
  BY DEF CheckBody, At
<1>2. /\ Top \in Frames /\ Running(Top) /\ Waiting(stack, Mine(Top)) /\ stack[1] = Top
      /\ (\A q \in Places(Top) : Unremembered(q)) /\ stack \in Seq(Frames) /\ MemoryGood
      /\ Top.expr \in Expr /\ Top.next \in Nat \ {0}
  BY <1>1, TopRuns DEF Frames
<1>3. /\ f \in Frames /\ f.state = Top.state /\ f.expr = Top.expr /\ f.global = Top.global
      /\ f.at = "body" /\ f.fn = Top.fn /\ f.param = Top.param /\ f.body = Top.body /\ f.next = Top.next
  BY <1>2 DEF Frames
<1>4. /\ c \in Frames /\ c.state = NULL /\ c.expr = Body[Top.expr] /\ c.global = Top.body
      /\ Places(c) = {Top.body, NULL}
  <2>1. Body[Top.expr] \in Expr
    BY <1>1, <1>2, ExprAssumption
  <2> QED BY <1>2, <2>1 DEF Frames, Frame, Places
<1>5. Target(f) = Body[Top.expr] /\ Current(f) = Top.body
  BY <1>3 DEF Target, Current
<1>6. c = Frame(NULL, Target(f), Current(f))
  BY <1>5
<1>7. Tail(stack) \in Seq(Frames)
  BY <1>1, <1>2, StackParts
<1> HIDE DEF c, f
<1>8. Calling(c, f)
  BY <1>1, <1>3, <1>4, <1>5 DEF Calling
<1>9. Opened(f) /\ Opened(Top) /\ Mine(f) = Mine(Top)
  BY <1>1, <1>3 DEF Opened, Mine
<1>10. Top.next = Len(Params[Top.expr]) + 1
  <2>1. Len(Params[Top.expr]) \in Nat /\ Top.next <= Len(Params[Top.expr]) + 1
    BY <1>1, <1>2, ParamsTyped DEF Running, Counts
  <2> QED BY <1>1, <1>2, <2>1
<1>11. Running(f)
  <2>1. Counts(f)
    BY <1>1, <1>2, <1>3, <1>9, <1>10 DEF Running, Counts
  <2>2. Links(f) /\ Asks(f)
    BY <1>1, <1>2, <1>3, <1>9 DEF Running, Links, Asks
  <2>3. Amount(f, {})
    <3>1. Within(Top.body) = {} /\ Weight(Within(Top.param) \ {}) = Given(Top.expr, Top.next - 1)
      BY <1>1, <1>2 DEF Running, Amount
    <3>2. Top.next - 1 = Len(Params[Top.expr])
      BY <1>1, <1>2, <1>10, ParamsTyped
    <3>3. Within(Top.param) \ {} = Within(Top.param)
      OBVIOUS
    <3> QED BY <1>3, <3>1, <3>2, <3>3 DEF Amount
  <2> QED BY <2>1, <2>2, <2>3 DEF Running
<1>12. s \in Seq(Frames) /\ s # <<>> /\ s[1] = f
  BY <1>1, <1>2, <1>3, Replaced
<1>13. Waiting(s, Mine(f))
  BY <1>1, <1>2, <1>3, <1>9, WaitingReplaced
<1>14. t = stack'
  <2>1. <<c>> \in Seq(Frames) /\ <<f>> \in Seq(Frames)
    BY <1>3, <1>4
  <2>2. (<<c>> \o <<f>>) \o Tail(stack) = <<c>> \o (<<f>> \o Tail(stack))
    BY <1>7, <2>1, ConcatAssociative
  <2>3. <<c>> \o <<f>> = <<c, f>>
    <3> DEFINE u == <<c>> \o <<f>>
               v == <<c, f>>
    <3>1. Len(<<c>>) = 1 /\ Len(<<f>>) = 1 /\ <<c>>[1] = c /\ <<f>>[1] = f
      OBVIOUS
    <3>2. /\ u \in Seq(Frames) /\ Len(u) = 2
          /\ \A i \in 1 .. 2 : u[i] = IF i <= 1 THEN <<c>>[i] ELSE <<f>>[i - 1]
      BY <2>1, <3>1, ConcatProperties
    <3>3. u[1] = c /\ u[2] = f
      BY <3>1, <3>2
    <3>4. v \in Seq(Frames) /\ Len(v) = 2 /\ v[1] = c /\ v[2] = f
      BY <1>3, <1>4
    <3> HIDE DEF u, v
    <3>5. \A i \in 1 .. Len(u) : u[i] = v[i]
      <4>1. \A i \in 1 .. Len(u) : i = 1 \/ i = 2
        BY <3>2
      <4> QED BY <3>3, <3>4, <4>1
    <3>6. u = v
      BY <3>2, <3>4, <3>5, SeqEqual
    <3> QED BY <3>6 DEF u, v
  <2> QED BY <1>1, <2>2, <2>3
<1> HIDE DEF s
<1>15. CallsGood(t)
  BY <1>4, <1>6, <1>8, <1>11, <1>12, <1>13, NestedBegins
<1>16. \A j \in DOMAIN stack' : \A q \in Places(stack'[j]) \cap regions : Unremembered(q)
  <2>1. \A q \in Places(c) \cap regions : Unremembered(q)
    BY <1>2, <1>4, NullUnremembered DEF Places
  <2>2. \A q \in Places(f) : Unremembered(q)
    BY <1>2, <1>3 DEF Places
  <2>3. /\ stack' \in Seq(Frames) /\ Len(stack') = Len(s) + 1 /\ Len(s) \in Nat /\ stack'[1] = c
        /\ \A j \in 2 .. Len(stack') : stack'[j] = s[j - 1] /\ j - 1 \in 1 .. Len(s)
    BY <1>4, <1>12, <1>14, PushedOn
  <2>4. /\ Len(s) = Len(stack) /\ s[1] = f /\ \A j \in 2 .. Len(stack) : s[j] = stack[j]
    BY <1>1, <1>2, <1>3, Replaced DEF s
  <2>5. DOMAIN stack' = 1 .. Len(stack') /\ DOMAIN stack = 1 .. Len(stack)
    BY <1>2, <2>3, LenProperties
  <2> SUFFICES ASSUME NEW j \in DOMAIN stack', NEW q \in Places(stack'[j]) \cap regions
               PROVE  Unremembered(q)
    OBVIOUS
  <2>6. \/ j = 1
        \/ j = 2 /\ stack'[j] = f
        \/ stack'[j] = stack[j - 1] /\ j - 1 \in DOMAIN stack
    <3>1. CASE j = 1
      BY <3>1
    <3>2. CASE j = 2
      BY <2>3, <2>4, <2>5, <3>2
    <3>3. CASE j # 1 /\ j # 2
      <4>1. j \in 2 .. Len(stack') /\ j - 1 \in 2 .. Len(stack)
        BY <2>3, <2>4, <2>5, <3>3
      <4>2. j - 1 \in 1 .. Len(stack)
        BY <2>3, <2>4, <4>1
      <4> QED BY <2>3, <2>4, <2>5, <4>1, <4>2
    <3> QED BY <3>1, <3>2, <3>3
  <2> QED BY <1>2, <2>1, <2>2, <2>3, <2>6, PlacesUnremembered
<1> HIDE DEF t
<1> QED BY <1>1, <1>14, <1>15, <1>16, StackSizes

-----------------------------------------------------------------------------
(* The steps that open regions.                                            *)

LEMMA AppendToOne ==
  ASSUME NEW a, NEW b
  PROVE  Append(<<a>>, b) = <<a, b>>
<1> DEFINE S == {a, b}
           u == Append(<<a>>, b)
           v == <<a, b>>
<1>1. <<a>> \in Seq(S) /\ Len(<<a>>) = 1 /\ <<a>>[1] = a /\ b \in S
  OBVIOUS
<1>2. /\ u \in Seq(S) /\ Len(u) = Len(<<a>>) + 1
      /\ \A i \in 1 .. Len(<<a>>) : u[i] = <<a>>[i]
      /\ u[Len(<<a>>) + 1] = b
  <2> HIDE DEF S
  <2> QED BY <1>1, AppendProperties
<1>3. Len(u) = 2 /\ u[1] = a /\ u[2] = b
  <2> HIDE DEF u
  <2> QED BY <1>1, <1>2
<1>4. v \in Seq(S) /\ Len(v) = 2 /\ v[1] = a /\ v[2] = b
  OBVIOUS
<1> HIDE DEF S, u, v
<1>5. \A i \in 1 .. Len(u) : u[i] = v[i]
  <2>1. \A i \in 1 .. Len(u) : i = 1 \/ i = 2
    BY <1>3
  <2> QED BY <1>3, <1>4, <2>1
<1>6. u = v
  BY <1>2, <1>3, <1>4, <1>5, SeqEqual
<1> QED BY <1>6 DEF u, v

LEMMA ReplacedAll ==
  \A s \in Seq(Frames), f \in Frames, T \in SUBSET Storage :
    /\ s # <<>> /\ Waiting(s, T) /\ f.state = s[1].state /\ f.global = s[1].global
    /\ f.expr = s[1].expr
    => Waiting(<<f>> \o Tail(s), T)
BY WaitingReplaced

LEMMA ReplacedLater ==
  (\A s \in Seq(Frames), f \in Frames, T \in SUBSET Storage :
    /\ s # <<>> /\ Waiting(s, T) /\ f.state = s[1].state /\ f.global = s[1].global
    /\ f.expr = s[1].expr
    => Waiting(<<f>> \o Tail(s), T))'
BY ReplacedAll, PTL

\* A state that tracks a region forgets none and remembers what it did.
LEMMA TrackKeeps ==
  ASSUME MInv, stack # <<>>, NEW r, Track(r) \/ UNCHANGED checks, UNCHANGED closing
  PROVE  /\ ChecksKept
         /\ Track(r) /\ Top.state # NULL => r \in checks'[Top.state].regions
         /\ \A st \in State, e \in Expr, q \in Region \cup {NULL} : Remembers(st, e, q)' =>
              /\ Remembers(st, e, q) /\ checks'[st].global = checks[st].global
              /\ checks[st].regions \subseteq checks'[st].regions
<1>1. checks \in [DOMAIN checks -> Fields] /\ Top.state \in DOMAIN checks \cup {NULL}
  BY TopGood DEF MInv, TypesGood
<1>2. /\ DOMAIN checks' = DOMAIN checks
      /\ \A st \in DOMAIN checks : /\ checks'[st].global = checks[st].global
                                   /\ checks'[st].usable = checks[st].usable
                                   /\ checks'[st].regionMap = checks[st].regionMap
                                   /\ checks[st].regions \subseteq checks'[st].regions
      /\ Track(r) /\ Top.state # NULL => r \in checks'[Top.state].regions
  <2>1. CASE UNCHANGED checks /\ (Track(r) => Top.state = NULL)
    BY <2>1
  <2>2. CASE Track(r) /\ Top.state # NULL
    BY <1>1, <2>2 DEF Track, Fields
  <2>3. Track(r) /\ Top.state = NULL => UNCHANGED checks
    BY DEF Track
  <2> QED BY <2>1, <2>2, <2>3
<1> QED BY <1>2 DEF ChecksKept, Remembers

\* The innermost call opens a region below one it charges.
LEMMA OpenSizes ==
  ASSUME MInv, MInv', SInv, CheckerSizes, stack # <<>>,
         NEW u, u = Top,
         NEW r \in Region, NEW p \in Region \cup {NULL}, CreateRegion(r, p),
         p = u.global \/ (p = u.fn /\ Opened(u)),
         Track(r) \/ UNCHANGED checks, UNCHANGED <<closing, answer>>,
         NEW f \in Frames, stack' = <<f>> \o Tail(stack),
         f.state = u.state, f.expr = u.expr, f.global = u.global,
         Places(f) \subseteq Places(u) \cup {r},
         Running(f)', Mine(f)' = Mine(u)
  PROVE  CheckerSizes'
<1>0. /\ p = Top.global \/ (p = Top.fn /\ Opened(Top))
      /\ f.state = Top.state /\ f.expr = Top.expr /\ f.global = Top.global
      /\ Places(f) \subseteq Places(Top) \cup {r}
  OBVIOUS
<1>1. /\ Top \in Frames /\ Running(Top) /\ Waiting(stack, Mine(Top)) /\ stack[1] = Top
      /\ (\A q \in Places(Top) : Unremembered(q)) /\ stack \in Seq(Frames) /\ MemoryGood
      /\ AnswersExact /\ stack \in Seq(GoodFrames(regions, Globals))
  BY TopRuns, StackFrames
<1>2. Grows(p, {}) /\ r \notin regions /\ storages \subseteq Storage
  BY CreateGrows DEF CreateRegion, SInv, IInv, TypeOK
<1>3. ChecksKept /\ \A st \in State, e \in Expr, q \in Region \cup {NULL} : Remembers(st, e, q)' =>
              /\ Remembers(st, e, q) /\ checks'[st].global = checks[st].global
              /\ checks[st].regions \subseteq checks'[st].regions
  BY TrackKeeps
<1>4. PICK s, S : s = stack /\ S = Mine(u)
  OBVIOUS
<1>5. S \subseteq storages /\ S \in SUBSET Storage
  BY <1>2, <1>4 DEF Mine, Within, Listed
<1>6. \A j \in 2 .. Len(s) : p \in Under(Current(s[j]))
  <2> SUFFICES ASSUME NEW j \in 2 .. Len(s) PROVE p \in Under(Current(s[j]))
    OBVIOUS
  <2>1. s[1] = Top /\ 1 \in 1 .. j - 1
    BY <1>1, <1>4
  <2>2. Top.global \in Under(Current(s[j])) /\ Links(s[j]) /\ Calling(s[j - 1], s[j])
    BY <1>1, <1>4, <2>1 DEF Waiting
  <2>3. s[j] \in Frames
    <3>1. j \in 1 .. Len(s)
      BY <1>1, <1>4, LenProperties
    <3> QED BY <1>1, <1>4, <3>1, ElementOfSeq
  <2>4. Current(s[j]) \in regions
    BY <2>2, <2>3, CallerParts
  <2>5. CASE p = Top.fn /\ Opened(Top)
    <3>1. Top.global \in regions /\ Top.global # NULL
      BY <2>2, <2>4, UnderLeast, NullAssumption DEF SInv, IInv, TypeOK
    <3>2. Top.fn \in Kids(Top.global)
      BY <1>1, <2>5, <3>1 DEF Running, Links
    <3> QED BY <2>2, <2>4, <2>5, <3>2, UnderLeast DEF ClosedUnder
  <2> QED BY <2>2, <2>5
<1>7. Waiting(s, S)'
  <2>1. Waiting(s, S \cup {})'
    BY <1>1, <1>2, <1>3, <1>4, <1>5, <1>6, WaitingKept
  <2>2. S \cup {} = S
    OBVIOUS
  <2> QED BY <2>1, <2>2
<1>8. PICK t : t = <<f>> \o Tail(s)
  OBVIOUS
<1>9. Waiting(t, S)'
  <2>1. Waiting(<<f>> \o Tail(s), S)'
    BY <1>1, <1>4, <1>5, <1>7, ReplacedLater
  <2> QED BY <1>8, <2>1
<1>10. t = stack' /\ t # <<>> /\ t[1] = f
  BY <1>1, <1>4, <1>8, Replaced
<1>11. CallsGood(t)'
  BY <1>4, <1>9, <1>10 DEF CallsGood
<1>12. CallsGood(stack)'
  BY <1>10, <1>11
<1>13. MemoryGood'
  <2>1. Unremembered(p)
    BY <1>1 DEF Places
  <2>2. \A q \in Places(f) \cap regions : Unremembered(q)
    BY <1>1, <1>2
  <2>3. \A j \in DOMAIN stack' : \A q \in Places(stack'[j]) \cap regions : Unremembered(q)
    BY <1>1, <2>2, PlacesReplaced
  <2> QED BY <1>1, <1>2, <1>3, <2>1, <2>3, MemoryKept
<1>14. AnswersExact'
  BY <1>1 DEF AnswersExact
<1> QED BY <1>12, <1>13, <1>14 DEF CheckerSizes

LEMMA OpenGlobalSizes ==
  ASSUME MInv, MInv', SInv, CheckerSizes, NEW r \in Region, OpenGlobal(r)
  PROVE  CheckerSizes'
<1>0. PICK u, f : u = Top /\ f = [Top EXCEPT !.at = "alloc", !.fn = r]
  OBVIOUS
<1>1. /\ stack # <<>> /\ Kind[u.expr] = "plain" /\ u.at = "start" /\ u.global = NULL
      /\ CreateRegion(r, u.global) /\ Track(r) /\ stack' = <<f>> \o Tail(stack)
      /\ UNCHANGED <<closing, answer>>
  BY <1>0 DEF OpenGlobal, At, Update
<1>2. u \in Frames /\ Running(u) /\ u.state \in DOMAIN checks \cup {NULL}
  BY <1>0, <1>1, TopRuns, TopGood
<1>3. /\ f \in Frames /\ f.state = u.state /\ f.expr = u.expr /\ f.global = u.global
      /\ f.at = "alloc" /\ f.fn = r /\ f.param = u.param /\ f.body = u.body /\ f.next = u.next
  BY <1>0, <1>2 DEF Frames
<1>4. ~Opened(f) /\ ~Opened(u)
  BY <1>1, <1>3 DEF Opened
<1>5. Mine(u) = {} /\ Mine(f)' = {}
  BY <1>4 DEF Mine, Opened
<1>6. Running(f)'
  <2>1. ChecksKept
    BY <1>0, <1>1, TrackKeeps
  <2>2. Asks(f)'
    BY <1>2, <1>3, <1>4, <2>1 DEF Running, Asks, ChecksKept, Opened
  <2>3. Counts(f)' /\ Links(f)' /\ Amount(f, {})'
    BY <1>1, <1>2, <1>3, <1>4 DEF Running, Counts, Links, Amount, Opened
  <2> QED BY <2>2, <2>3 DEF Running
<1>7. Places(f) \subseteq Places(u) \cup {r}
  BY <1>3 DEF Places
<1>8. u.global \in Region \cup {NULL}
  BY <1>1
<1> QED BY <1>0, <1>1, <1>3, <1>5, <1>6, <1>7, <1>8, OpenSizes

LEMMA OpenFunctionSizes ==
  ASSUME MInv, MInv', SInv, CheckerSizes, NEW r \in Region, OpenFunction(r)
  PROVE  CheckerSizes'
<1>0. PICK u, f : u = Top /\ f = [Top EXCEPT !.at = "function", !.fn = r]
  OBVIOUS
<1>1. /\ stack # <<>> /\ Kind[u.expr] = "lambda" /\ u.at = "start" /\ u.expr \notin Pseudo
      /\ CreateRegion(r, u.global) /\ Track(r) /\ stack' = <<f>> \o Tail(stack)
      /\ UNCHANGED <<closing, answer>>
  BY <1>0 DEF OpenFunction, At, Update
<1>2. u \in Frames /\ Running(u) /\ u.state \in DOMAIN checks \cup {NULL}
      /\ GoodFrame(u, regions, Globals) /\ u.global \in regions \cup {NULL}
  BY <1>0, <1>1, TopRuns, TopGood DEF GoodFrame
<1>3. /\ f \in Frames /\ f.state = u.state /\ f.expr = u.expr /\ f.global = u.global
      /\ f.at = "function" /\ f.fn = r /\ f.param = u.param /\ f.body = u.body /\ f.next = u.next
  BY <1>0, <1>2 DEF Frames
<1>4. Opened(f) /\ ~Opened(u)
  BY <1>1, <1>3 DEF Opened
<1>8. u.global \in Region \cup {NULL}
  BY <1>2 DEF Frames
<1>9. /\ r \in regions' /\ parent'[r] = u.global /\ children'[r] = <<>> /\ alloced'[r] = <<>>
      /\ u.global \in regions => r \in Kids(u.global)'
      /\ Within(r)' = {}
  BY <1>1, <1>8, CreateGrows
<1>5. Mine(u) = {} /\ Mine(f)' = {}
  BY <1>3, <1>4, <1>9 DEF Mine, Opened
<1>6. Running(f)'
  <2>1. ChecksKept /\ (u.state # NULL => r \in checks'[u.state].regions)
    BY <1>0, <1>1, TrackKeeps
  <2>2. Asks(f)'
    BY <1>2, <1>3, <2>1 DEF Running, Asks, ChecksKept
  <2>3. Counts(f)'
    BY <1>1, <1>2, <1>3 DEF Running, Counts, Opened
  <2>4. Links(f)'
    BY <1>2, <1>3, <1>9 DEF Links
  <2>5. Amount(f, {})'
    BY <1>3 DEF Amount
  <2> QED BY <2>2, <2>3, <2>4, <2>5 DEF Running
<1>7. Places(f) \subseteq Places(u) \cup {r}
  BY <1>3 DEF Places
<1> QED BY <1>0, <1>1, <1>3, <1>5, <1>6, <1>7, <1>8, OpenSizes

LEMMA OpenParamsSizes ==
  ASSUME MInv, MInv', SInv, CheckerSizes, NEW r \in Region, OpenParams(r)
  PROVE  CheckerSizes'
<1>0. PICK u, f : u = Top /\ f = [Top EXCEPT !.at = "open", !.param = r]
  OBVIOUS
<1>1. /\ stack # <<>> /\ Kind[u.expr] = "lambda" /\ u.at = "function"
      /\ CreateRegion(r, u.fn) /\ stack' = <<f>> \o Tail(stack)
      /\ UNCHANGED <<checks, closing, answer>>
  BY <1>0 DEF OpenParams, At, Update
<1>2. u \in Frames /\ Running(u) /\ u.state \in DOMAIN checks \cup {NULL}
      /\ u.global \in regions \cup {NULL}
  BY <1>0, <1>1, TopRuns, TopGood DEF GoodFrame
<1>3. /\ f \in Frames /\ f.state = u.state /\ f.expr = u.expr /\ f.global = u.global
      /\ f.at = "open" /\ f.fn = u.fn /\ f.param = r /\ f.body = u.body /\ f.next = u.next
  BY <1>0, <1>2 DEF Frames
<1>4. Opened(f) /\ Opened(u)
  BY <1>1, <1>3 DEF Opened
<1>5. /\ u.fn \in regions /\ parent[u.fn] = u.global /\ alloced[u.fn] = <<>>
      /\ (u.global # NULL => u.fn \in Kids(u.global)) /\ children[u.fn] = <<>>
  BY <1>1, <1>2, <1>4 DEF Running, Links
<1>6. u.fn \in Region \cup {NULL}
  BY <1>2 DEF Frames
<1>7. /\ Grows(u.fn, {}) /\ Within(r)' = {}
      /\ children'[u.fn] = Append(children[u.fn], r) /\ alloced'[u.fn] = alloced[u.fn]
  BY <1>1, <1>5, <1>6, CreateGrows
<1>8. Mine(f)' = Mine(u)
  <2>1. Within(u.fn)' = Within(u.fn)
    BY <1>5, <1>7, UnderLeast DEF Grows
  <2> QED BY <1>3, <1>4, <2>1 DEF Mine, Opened
<1>9. Running(f)'
  <2>1. Asks(f)'
    BY <1>1, <1>2, <1>3, <1>4 DEF Running, Asks, Opened
  <2>2. Counts(f)'
    BY <1>1, <1>2, <1>3, <1>4 DEF Running, Counts, Opened
  <2>3. Links(f)'
    <3>1. children'[u.fn] = <<r>>
      BY <1>5, <1>7
    <3>2. parent'[u.fn] = u.global /\ u.fn \in regions'
          /\ (u.global # NULL => u.fn \in Kids(u.global)')
      BY <1>2, <1>5, <1>7 DEF Grows
    <3> QED BY <1>3, <1>5, <1>7, <3>1, <3>2 DEF Links
  <2>4. Amount(f, {})'
    BY <1>3, <1>7 DEF Amount
  <2> QED BY <2>1, <2>2, <2>3, <2>4 DEF Running
<1>10. Places(f) \subseteq Places(u) \cup {r}
  BY <1>3 DEF Places
<1> QED BY <1>0, <1>1, <1>3, <1>4, <1>6, <1>8, <1>9, <1>10, OpenSizes

LEMMA OpenBodySizes ==
  ASSUME MInv, MInv', SInv, CheckerSizes, NEW r \in Region, OpenBody(r)
  PROVE  CheckerSizes'
<1>0. PICK u, f : u = Top /\ f = [Top EXCEPT !.at = "params", !.body = r]
  OBVIOUS
<1>1. /\ stack # <<>> /\ Kind[u.expr] = "lambda" /\ u.at = "open"
      /\ CreateRegion(r, u.fn) /\ stack' = <<f>> \o Tail(stack)
      /\ UNCHANGED <<checks, closing, answer>>
  BY <1>0 DEF OpenBody, At, Update
<1>2. u \in Frames /\ Running(u) /\ u.state \in DOMAIN checks \cup {NULL}
      /\ u.global \in regions \cup {NULL} /\ u.param \in regions /\ u.expr \in Expr
  BY <1>0, <1>1, TopRuns, TopGood DEF GoodFrame
<1>3. /\ f \in Frames /\ f.state = u.state /\ f.expr = u.expr /\ f.global = u.global
      /\ f.at = "params" /\ f.fn = u.fn /\ f.param = u.param /\ f.body = r /\ f.next = u.next
  BY <1>0, <1>2 DEF Frames
<1>4. Opened(f) /\ Opened(u)
  BY <1>1, <1>3 DEF Opened
<1>5. /\ u.fn \in regions /\ parent[u.fn] = u.global /\ alloced[u.fn] = <<>>
      /\ (u.global # NULL => u.fn \in Kids(u.global)) /\ children[u.fn] = <<u.param>>
  BY <1>1, <1>2, <1>4 DEF Running, Links
<1>6. u.fn \in Region \cup {NULL}
  BY <1>2 DEF Frames
<1>7. /\ Grows(u.fn, {}) /\ Within(r)' = {}
      /\ children'[u.fn] = Append(children[u.fn], r) /\ alloced'[u.fn] = alloced[u.fn]
  BY <1>1, <1>5, <1>6, CreateGrows
<1>8. Mine(f)' = Mine(u)
  <2>1. Within(u.fn)' = Within(u.fn)
    BY <1>5, <1>7, UnderLeast DEF Grows
  <2> QED BY <1>3, <1>4, <2>1 DEF Mine, Opened
<1>9. Running(f)'
  <2>0. u.next = 1
    BY <1>1, <1>2 DEF Running, Counts
  <2>1. Asks(f)'
    BY <1>1, <1>2, <1>3, <1>4 DEF Running, Asks, Opened
  <2>2. Counts(f)'
    <3>1. Len(Params[u.expr]) \in Nat
      BY <1>2, ParamsTyped
    <3>2. f.next <= Len(Params[f.expr]) + 1 /\ 1 .. f.next - 1 = {}
      BY <1>3, <2>0, <3>1
    <3> QED BY <1>1, <1>2, <1>3, <1>4, <3>2 DEF Running, Counts, Opened
  <2>3. Links(f)'
    <3>1. children'[u.fn] = <<u.param, r>>
      BY <1>5, <1>7, AppendToOne
    <3>2. parent'[u.fn] = u.global /\ u.fn \in regions'
          /\ (u.global # NULL => u.fn \in Kids(u.global)')
      BY <1>2, <1>5, <1>7 DEF Grows
    <3> QED BY <1>3, <1>5, <1>7, <3>1, <3>2 DEF Links
  <2>4. Amount(f, {})'
    <3>1. Within(u.param)' = {}
      <4>1. Within(u.param) = {}
        BY <1>1, <1>2 DEF Running, Amount
      <4> QED BY <1>2, <1>7, <4>1 DEF Grows
    <3>2. Weight({})' = 0
      BY <1>7, WeightNone DEF Grows
    <3>3. Given(f.expr, f.next - 1) = 0
      BY <1>2, <1>3, <2>0, GivenNone
    <3>4. (Within(f.param) \ {})' = {}
      BY <1>3, <3>1
    <3>5. Weight(Within(f.param) \ {})' = Given(f.expr, f.next - 1)
      BY <3>2, <3>3, <3>4
    <3> QED BY <1>3, <1>7, <3>5 DEF Amount
  <2> QED BY <2>1, <2>2, <2>3, <2>4 DEF Running
<1>10. Places(f) \subseteq Places(u) \cup {r}
  BY <1>3 DEF Places
<1> QED BY <1>0, <1>1, <1>3, <1>4, <1>6, <1>8, <1>9, <1>10, OpenSizes

-----------------------------------------------------------------------------
(* The steps that put an entry into what a state remembers.                *)

LEMMA RememberKeeps ==
  ASSUME MInv, stack # <<>>, NEW e \in Expr, NEW r, Remember(e, r), UNCHANGED closing
  PROVE  /\ ChecksKept
         /\ \A st \in State, d \in Expr, q \in Region \cup {NULL} : Remembers(st, d, q)' =>
              /\ checks'[st].global = checks[st].global
              /\ checks[st].regions \subseteq checks'[st].regions
              /\ \/ Remembers(st, d, q)
                 \/ st = Top.state /\ st # NULL /\ d = e /\ Kind[e] = "lambda" /\ q = r
<1>1. checks \in [DOMAIN checks -> Fields] /\ Top.state \in DOMAIN checks \cup {NULL}
  BY TopGood DEF MInv, TypesGood
<1>2. PICK u : u = Top.state
  OBVIOUS
<1>3. CASE u = NULL
  <2>1. UNCHANGED checks
    BY <1>2, <1>3 DEF Remember
  <2> QED BY <2>1 DEF ChecksKept, Remembers
<1>4. CASE u # NULL
  <2> DEFINE map == Put(checks[u].regionMap, e, r)
  <2>1. checks' = [checks EXCEPT ![u].regionMap = map] /\ u \in DOMAIN checks
    BY <1>1, <1>2, <1>4 DEF Remember
  <2>2. /\ DOMAIN map = DOMAIN checks[u].regionMap \cup {e} /\ map[e] = r
        /\ \A d \in DOMAIN checks[u].regionMap : d # e => map[d] = checks[u].regionMap[d]
    BY DEF Put
  <2> HIDE DEF map
  <2>3. /\ DOMAIN checks' = DOMAIN checks
        /\ \A st \in DOMAIN checks : /\ checks'[st].global = checks[st].global
                                     /\ checks'[st].usable = checks[st].usable
                                     /\ checks'[st].regions = checks[st].regions
                                     /\ st # u => checks'[st].regionMap = checks[st].regionMap
        /\ checks'[u].regionMap = map
    BY <1>1, <2>1 DEF Fields
  <2>4. ChecksKept
    BY <2>3 DEF ChecksKept
  <2>5. ASSUME NEW st \in State, NEW d \in Expr, NEW q, Remembers(st, d, q)'
        PROVE  /\ checks'[st].global = checks[st].global
               /\ checks[st].regions \subseteq checks'[st].regions
               /\ \/ Remembers(st, d, q)
                  \/ st = u /\ st # NULL /\ d = e /\ Kind[e] = "lambda" /\ q = r
    <3>1. st \in DOMAIN checks /\ checks[st].usable /\ st # closing /\ Kind[d] = "lambda"
          /\ d \in DOMAIN checks'[st].regionMap /\ q = checks'[st].regionMap[d]
      BY <2>3, <2>5 DEF Remembers
    <3>2. CASE st # u
      BY <2>3, <3>1, <3>2 DEF Remembers
    <3>3. CASE st = u /\ d = e
      BY <1>4, <2>2, <2>3, <3>1, <3>3
    <3>4. CASE st = u /\ d # e
      BY <2>2, <2>3, <3>1, <3>4 DEF Remembers
    <3> QED BY <2>3, <3>1, <3>2, <3>3, <3>4
  <2> QED BY <1>2, <2>4, <2>5
<1> QED BY <1>3, <1>4

LEMMA WeightOneAll ==
  \A s : SInv /\ s \in storages => Weight({s}) = layout[s].aligned
BY WeightOne

LEMMA WeightOneLater ==
  (\A s : SInv /\ s \in storages => Weight({s}) = layout[s].aligned)'
BY WeightOneAll, PTL

LEMMA AllocateSizes ==
  ASSUME MInv, MInv', SInv, SInv', CheckerSizes, NEW s \in Storage, Allocate(s)
  PROVE  CheckerSizes'
<1>0. PICK u, z, error, size : error \in BOOLEAN /\ u = Top /\ z = stack /\ error = FALSE
         /\ size = [raw |-> layout'[s].raw, aligned |-> layout'[s].aligned]
  OBVIOUS
<1>1. /\ stack # <<>> /\ Kind[u.expr] = "plain" /\ u.at = "alloc"
      /\ RegionAlloc(u.fn, s, Charge(u.expr)) /\ Remember(u.expr, u.fn)
      /\ Return(FALSE, [raw |-> layout'[s].raw, aligned |-> layout'[s].aligned])
      /\ UNCHANGED <<pools, closing>>
  BY <1>0 DEF Allocate, At
<1>2. /\ u \in Frames /\ u.expr \in Expr /\ Running(u) /\ z[1] = u /\ Waiting(z, Mine(u))
      /\ (\A q \in Places(u) : Unremembered(q)) /\ z \in Seq(Frames) /\ MemoryGood
      /\ AnswersExact /\ z \in Seq(GoodFrames(regions, Globals)) /\ z # <<>>
  BY <1>0, <1>1, TopRuns, StackFrames
<1>3. u.fn \in regions /\ u.fn \in Region
  BY <1>1 DEF RegionAlloc, MInv, TypesGood
<1>4. /\ Grows(u.fn, {s}) /\ UNCHANGED regions /\ s \in storages'
      /\ layout'[s] = Layout(Charge(u.expr))
  BY <1>1, <1>3, AllocGrows
<1>5. ChecksKept
  BY <1>1, <1>2, RememberKeeps
<1>6. Return(error, size)
  BY <1>0, <1>1
<1>7. ~Refused[u.expr] /\ Needs[u.expr] = layout'[s].aligned
  BY <1>1, <1>2, <1>4, RefusedCases, NeedsAre, NeedsCases
<1>8. Weight({s})' = Needs[u.expr]
  <2>1. Weight({s})' = layout'[s].aligned
    BY <1>4, WeightOneLater
  <2> QED BY <1>7, <2>1
<1>9. Mine(u) = {}
  BY <1>1 DEF Mine, Opened
<1>10. \A j \in 2 .. Len(z) : u.fn \in Under(Current(z[j]))
  <2> SUFFICES ASSUME NEW j \in 2 .. Len(z) PROVE u.fn \in Under(Current(z[j]))
    OBVIOUS
  <2>1. 1 \in 1 .. j - 1
    OBVIOUS
  <2>2. u.global \in Under(Current(z[j]))
    BY <1>2, <2>1 DEF Waiting
  <2>3. u.global # NULL
    <3>1. u.global \in regions
      BY <2>2 DEF Under
    <3> QED BY <3>1, NullAssumption DEF SInv, IInv, TypeOK
  <2> QED BY <1>1, <1>2, <2>2, <2>3 DEF Running, Counts
<1>11. Waiting(z, {s})'
  <2>1. Waiting(z, {} \cup {s})'
    BY <1>2, <1>4, <1>5, <1>9, <1>10, WaitingKept
  <2>2. {} \cup {s} = {s}
    OBVIOUS
  <2> QED BY <2>1, <2>2
<1>12. CallsGood(stack)'
  <2>1. CASE Len(stack) = 1
    <3>1. stack' = <<>>
      BY <1>1, <2>1 DEF Return
    <3> QED BY <3>1 DEF CallsGood
  <2>2. CASE Len(stack) # 1
    <3>1. Len(z) # 1 /\ 2 \in 2 .. Len(z) /\ z[2] \in Frames
      <4>1. Len(z) # 1
        BY <1>0, <2>2
      <4>2. z[2] \in Frames
        BY <1>2, <4>1, StackParts
      <4>3. Len(z) >= 2 /\ Len(z) \in Nat
        BY <1>2, <4>1, <4>2, Popped
      <4> QED BY <4>1, <4>2, <4>3
    <3>2. PICK q : q = Current(z[2])
      OBVIOUS
    <3>3. q \in regions /\ u.fn \in Under(q)
      BY <1>10, <1>2, <3>1, <3>2, CallerParts DEF Waiting
    <3>4. {s} \subseteq Within(q)'
      BY <1>4, <3>3 DEF Grows
    <3>5. {s} \subseteq Within(Current(z[2]))'
      <4>1. Current(z[2])' = q
        BY <3>2 DEF Current
      <4> QED BY <3>4, <4>1
    <3>6. {s} \subseteq storages'
      BY <1>4
    <3>7. error <=> Refused[z[1].expr]
      BY <1>0, <1>2, <1>7
    <3> QED BY <1>0, <1>2, <1>6, <1>8, <1>11, <3>1, <3>5, <3>6, <3>7, ReturnLater
  <2> QED BY <2>1, <2>2
<1>13. AnswersExact'
  <2>1. error <=> Refused[Top.expr]
    BY <1>0, <1>7
  <2>2. Kind[Top.expr] # "lambda" /\ Top.expr \in Expr
    BY <1>0, <1>1, <1>2
  <2> QED BY <1>1, <1>2, <1>6, <2>1, <2>2, ReturnAnswer
<1>14. MemoryGood'
  <2>1. Unremembered(u.fn)
    BY <1>2 DEF Places
  <2>2. \A j \in DOMAIN stack' : \A q \in Places(stack'[j]) : Unremembered(q)
    BY <1>1, <1>2, <1>6, PlacesReturned
  <2>3. \A st \in State, e \in Expr, r \in Region \cup {NULL} : Remembers(st, e, r)' =>
          /\ Remembers(st, e, r) /\ checks'[st].global = checks[st].global
          /\ checks[st].regions \subseteq checks'[st].regions
    BY <1>1, <1>2, RememberKeeps
  <2> QED BY <1>2, <1>4, <2>1, <2>2, <2>3, MemoryKept
<1> QED BY <1>12, <1>13, <1>14 DEF CheckerSizes

LEMMA AnswerLambdaSizes ==
  ASSUME MInv, MInv', SInv, SInv', CheckerSizes, AnswerLambda
  PROVE  CheckerSizes'
<1>0. PICK u, error, size : error \in BOOLEAN /\ u = Top /\ error = FALSE /\ size = RegionSize(u.fn, TRUE, 0)
  OBVIOUS
<1>1. /\ stack # <<>> /\ Kind[u.expr] = "lambda" /\ u.at = "done" /\ Remember(u.expr, u.fn)
      /\ Return(FALSE, RegionSize(u.fn, TRUE, 0)) /\ UNCHANGED <<memory, pools, closing>>
  BY <1>0 DEF AnswerLambda, At
<1>2. /\ u \in Frames /\ u.expr \in Expr /\ Running(u)
      /\ (\A q \in Places(u) : Unremembered(q)) /\ MemoryGood /\ AnswersExact
      /\ Opened(u)
  BY <1>0, <1>1, TopRuns DEF Opened
<1>3. /\ Weight(Within(u.fn)) = Needs[u.expr] /\ ~Refused[u.expr] /\ u.fn \in regions
      /\ Mine(u) = Within(u.fn)
  BY <1>1, <1>2, DoneWeighs
<1>4. UNCHANGED <<regions, parent, children, alloced, storages, layout>>
  BY <1>1 DEF memory
<1>5. ChecksKept
  BY <1>1, <1>2, RememberKeeps
<1>6. Return(error, size)
  BY <1>0, <1>1
<1>7. CallsGood(stack)' /\ AnswersExact'
  <2>1. error <=> Refused[Top.expr]
    BY <1>0, <1>3
  <2>2. Weight(Mine(Top)) = Needs[Top.expr]
    BY <1>0, <1>3
  <2>3. size.raw = Needs[Top.expr]
    BY <1>0, <1>3, RawAnswer
  <2>4. error \in BOOLEAN /\ CallsGood(stack) /\ AnswersExact
    BY <1>0 DEF CheckerSizes
  <2> QED BY <1>1, <1>4, <1>5, <1>6, <2>1, <2>2, <2>3, <2>4, ReturnStep
<1>8. MemoryGood'
  <2>1. Grows(NULL, {}) /\ Unremembered(NULL)
        /\ \A q : Under(q)' = Under(q) /\ Within(q)' = Within(q)
    BY <1>4, StillGrows, NullUnremembered
  <2>2. \A j \in DOMAIN stack' : \A q \in Places(stack'[j]) : Unremembered(q)
    BY <1>1, <1>2, <1>6, PlacesReturned
  <2>3. ASSUME u.state # NULL, NEW st, st = u.state,
               checks'[st].global = checks[st].global,
               checks[st].regions \subseteq checks'[st].regions
        PROVE  Finished(st, u.expr, u.fn)'
    <3>1. stack' = <<>>
      <4>1. Len(stack) = 1
        BY <1>0, <1>1, <2>3, OutermostAlone DEF CheckerSizes
      <4> QED BY <1>1, <4>1 DEF Return
    <3>2. DOMAIN stack' = {}
      BY <3>1
    <3>3. st \in DOMAIN checks /\ u.global = checks[st].global
      BY <1>0, <1>1, <2>3, TopGood DEF GoodFrame, Globals
    <3>4. parent[u.fn] = u.global /\ (u.global = NULL => u.fn \in checks[st].regions)
      BY <1>2, <2>3 DEF Running, Links, Asks
    <3>5. u.fn \in regions' /\ parent'[u.fn] = checks'[st].global
          /\ (checks'[st].global = NULL => u.fn \in checks'[st].regions)
      BY <1>3, <1>4, <2>3, <3>3, <3>4
    <3>6. PICK W : W = Within(u.fn)
      OBVIOUS
    <3>7. W \in SUBSET storages
      BY <3>6 DEF Within, Listed
    <3>8. Weight(Within(u.fn))' = Needs[u.expr]
      <4>1. Weight(W)' = Weight(W)
        BY <2>1, <3>7 DEF Grows
      <4>2. W = Within(u.fn)'
        BY <2>1, <3>6
      <4> QED BY <1>3, <3>6, <4>1, <4>2
    <3>9. ~Refused[u.expr]'
      BY <1>3
    <3> QED BY <1>3, <3>2, <3>5, <3>8 DEF Finished
  <2>4. \A st \in State, e \in Expr, r \in Region \cup {NULL} : Remembers(st, e, r)' =>
           \/ /\ Remembers(st, e, r) /\ checks'[st].global = checks[st].global
              /\ checks[st].regions \subseteq checks'[st].regions
           \/ Finished(st, e, r)'
    <3> SUFFICES ASSUME NEW st \in State, NEW e \in Expr, NEW r \in Region \cup {NULL},
                        Remembers(st, e, r)'
                 PROVE  \/ /\ Remembers(st, e, r) /\ checks'[st].global = checks[st].global
                           /\ checks[st].regions \subseteq checks'[st].regions
                        \/ Finished(st, e, r)'
      OBVIOUS
    <3>1. /\ checks'[st].global = checks[st].global
          /\ checks[st].regions \subseteq checks'[st].regions
          /\ \/ Remembers(st, e, r)
             \/ st = u.state /\ st # NULL /\ e = u.expr /\ r = u.fn
      BY <1>0, <1>1, <1>2, RememberKeeps
    <3> QED BY <2>3, <3>1
  <2> QED BY <1>2, <2>1, <2>2, <2>4, MemoryKept
<1> QED BY <1>7, <1>8 DEF CheckerSizes

-----------------------------------------------------------------------------
(* The steps of a client, and the destructor of its states.                *)

LEMMA NoCalls ==
  ASSUME stack' = <<>>
  PROVE  CallsGood(stack)' /\ DOMAIN stack' = {}
BY DEF CallsGood

\* The memory of a state, as it was or with less in it.
Keeps(st, e, r) ==
  /\ Remembers(st, e, r) /\ checks'[st].global = checks[st].global
  /\ checks[st].regions \subseteq checks'[st].regions

LEMMA MemoryStays ==
  ASSUME SInv, MemoryGood, stack' = <<>>, UNCHANGED <<regions, parent, children, alloced, storages, layout>>,
         \A st \in State, e \in Expr, r \in Region \cup {NULL} : Remembers(st, e, r)' => Keeps(st, e, r)
  PROVE  MemoryGood'
<1>1. Grows(NULL, {}) /\ Unremembered(NULL)
  BY StillGrows, NullUnremembered
<1>2. \A j \in DOMAIN stack' : \A q \in Places(stack'[j]) \cap regions : Unremembered(q)
  BY NoCalls
<1>3. \A st \in State, e \in Expr, r \in Region \cup {NULL} : Remembers(st, e, r)' =>
         /\ Remembers(st, e, r) /\ checks'[st].global = checks[st].global
         /\ checks[st].regions \subseteq checks'[st].regions
  BY DEF Keeps
<1> QED BY <1>1, <1>2, <1>3, MemoryKept

\* A root is destroyed that no state remembers.
LEMMA MemoryShrinks ==
  ASSUME SInv, MemoryGood, stack' = <<>>, NEW d \in regions, parent[d] = NULL, DestroyRegion(d),
         \A st \in State, e \in Expr, r \in Region \cup {NULL} :
           Remembers(st, e, r)' => Keeps(st, e, r) /\ r # d
  PROVE  MemoryGood'
<1> SUFFICES ASSUME NEW st \in State, NEW e \in Expr, NEW r \in Region \cup {NULL},
                    Keeps(st, e, r), r # d
             PROVE  Finished(st, e, r)'
  BY DEF MemoryGood
<1>1. Finished(st, e, r)
  BY DEF MemoryGood, Keeps
<1>2. r \in regions' /\ Weight(Within(r))' = Weight(Within(r)) /\ UNCHANGED parent
  BY <1>1, DestroyLeaves DEF Finished
<1>3. checks'[st].global = checks[st].global /\ checks[st].regions \subseteq checks'[st].regions
  BY DEF Keeps
<1>4. \A j \in DOMAIN stack' : (Places(stack[j]) \cap Under(r))' = {}
  BY NoCalls
<1> QED BY <1>1, <1>2, <1>3, <1>4 DEF Finished

LEMMA NothingAnswered ==
  ASSUME answer' = NoAnswer
  PROVE  AnswersExact'
BY DEF AnswersExact, NoAnswer

LEMMA AnswerStays ==
  ASSUME AnswersExact, UNCHANGED answer
  PROVE  AnswersExact'
BY DEF AnswersExact

LEMMA OpenPoolSizes ==
  ASSUME MInv, SInv, CheckerSizes, NEW r \in Region, OpenPool(r)
  PROVE  CheckerSizes'
<1>1. /\ stack' = <<>> /\ CreateRegion(r, NULL) /\ UNCHANGED <<checks, closing>>
      /\ answer' = NoAnswer /\ MemoryGood
  BY DEF OpenPool, Idle, CheckerSizes
<1>2. Grows(NULL, {}) /\ Unremembered(NULL)
  BY <1>1, CreateGrows, NullUnremembered
<1>3. \A st \in State, e \in Expr, q \in Region \cup {NULL} : Remembers(st, e, q)' =>
         /\ Remembers(st, e, q) /\ checks'[st].global = checks[st].global
         /\ checks[st].regions \subseteq checks'[st].regions
  BY <1>1 DEF Remembers
<1>4. \A j \in DOMAIN stack' : \A q \in Places(stack'[j]) \cap regions : Unremembered(q)
  BY <1>1, NoCalls
<1>5. MemoryGood'
  BY <1>1, <1>2, <1>3, <1>4, MemoryKept
<1> QED BY <1>1, <1>5, NoCalls, NothingAnswered DEF CheckerSizes

\* No state remembers a pool.
LEMMA PoolUnremembered ==
  ASSUME MInv, SInv, MemoryGood, NEW p \in pools
  PROVE  /\ p \in regions /\ parent[p] = NULL /\ Unremembered(p)
         /\ \A st \in State, e \in Expr, r \in Region \cup {NULL} : Remembers(st, e, r) => r # p
<1>1. p \in regions /\ parent[p] = NULL /\ p \in Region
  BY DEF MInv, TypesGood, RootsGood
<1>2. ASSUME NEW st \in State, NEW e \in Expr, NEW r \in Region \cup {NULL}, Remembers(st, e, r)
      PROVE  r # p /\ p \notin Under(r)
  <2>1. Finished(st, e, r) /\ st \in DOMAIN checks
    BY <1>2 DEF MemoryGood, Remembers
  <2>2. r # p
    <3> SUFFICES ASSUME r = p PROVE FALSE
      OBVIOUS
    <3>1. Owns(st, p)
      BY <1>1, <2>1 DEF Finished, Owns
    <3> QED BY <1>1, <2>1, <3>1 DEF MInv, RootsGood
  <2>3. r \in regions
    BY <2>1 DEF Finished
  <2> QED BY <1>1, <2>2, <2>3, RootAlone
<1> QED BY <1>1, <1>2 DEF Unremembered

LEMMA ClosePoolSizes ==
  ASSUME MInv, SInv, CheckerSizes, NEW r \in Region, ClosePool(r)
  PROVE  CheckerSizes'
<1>1. /\ stack' = <<>> /\ r \in pools /\ DestroyRegion(r) /\ UNCHANGED closing
      /\ answer' = NoAnswer /\ MemoryGood
      /\ checks' = [st \in DOMAIN checks |->
                     [checks[st] EXCEPT !.usable = @ /\ checks[st].global # r]]
  BY DEF ClosePool, Idle, CheckerSizes
<1>2. r \in regions /\ parent[r] = NULL
      /\ \A st \in State, e \in Expr, q \in Region \cup {NULL} : Remembers(st, e, q) => q # r
  BY <1>1, PoolUnremembered
<1>3. /\ DOMAIN checks' = DOMAIN checks
      /\ \A st \in DOMAIN checks : /\ checks'[st].global = checks[st].global
                                   /\ checks'[st].usable => checks[st].usable
                                   /\ checks'[st].regions = checks[st].regions
                                   /\ checks'[st].regionMap = checks[st].regionMap
  <2>1. checks \in [DOMAIN checks -> Fields]
    BY DEF MInv, TypesGood
  <2> QED BY <1>1, <2>1 DEF Fields
<1>4. \A st \in State, e \in Expr, q \in Region \cup {NULL} :
         Remembers(st, e, q)' => Keeps(st, e, q) /\ q # r
  BY <1>1, <1>2, <1>3 DEF Remembers, Keeps
<1>5. MemoryGood'
  BY <1>1, <1>2, <1>4, MemoryShrinks
<1> QED BY <1>1, <1>5, NoCalls, NothingAnswered DEF CheckerSizes

LEMMA CreateStateSizes ==
  ASSUME MInv, SInv, CheckerSizes, NEW st \in State, NEW global, CreateState(st, global)
  PROVE  CheckerSizes'
<1> DEFINE new == [global |-> global, regions |-> {}, regionMap |-> <<>>, usable |-> TRUE]
<1>1. /\ stack' = <<>> /\ UNCHANGED <<memory, closing>> /\ answer' = NoAnswer /\ MemoryGood
      /\ st \notin DOMAIN checks /\ checks' = Put(checks, st, new)
  BY DEF CreateState, Idle, CheckerSizes
<1>2. DOMAIN new.regionMap = {}
  OBVIOUS
<1> HIDE DEF new
<1>3. /\ DOMAIN checks' = DOMAIN checks \cup {st} /\ checks'[st] = new
      /\ \A d \in DOMAIN checks : checks'[d] = checks[d]
  BY <1>1 DEF Put
<1>4. \A d \in State, e \in Expr, q \in Region \cup {NULL} : Remembers(d, e, q)' => Keeps(d, e, q)
  BY <1>1, <1>2, <1>3 DEF Remembers, Keeps
<1>5. MemoryGood'
  BY <1>1, <1>4, MemoryStays DEF memory
<1> QED BY <1>1, <1>5, NoCalls, NothingAnswered DEF CheckerSizes

LEMMA DestroyStateSizes ==
  ASSUME MInv, SInv, CheckerSizes, NEW st \in State, DestroyState(st)
  PROVE  CheckerSizes'
<1>1. /\ stack' = <<>> /\ UNCHANGED <<memory, checks>> /\ answer' = NoAnswer /\ MemoryGood
      /\ closing = NULL
  BY DEF DestroyState, Idle, CheckerSizes
<1>2. \A d \in State, e \in Expr, q \in Region \cup {NULL} : Remembers(d, e, q)' => Keeps(d, e, q)
  BY <1>1, StateAssumption DEF Remembers, Keeps
<1>3. MemoryGood'
  BY <1>1, <1>2, MemoryStays DEF memory
<1> QED BY <1>1, <1>3, NoCalls, NothingAnswered DEF CheckerSizes

LEMMA FreeStateSizes ==
  ASSUME MInv, SInv, CheckerSizes, FreeState
  PROVE  CheckerSizes'
<1>1. /\ stack' = <<>> /\ UNCHANGED <<memory, answer>> /\ MemoryGood /\ AnswersExact
      /\ checks' = [st \in DOMAIN checks \ {closing} |-> checks[st]]
  BY DEF FreeState, CheckerSizes, MInv, TypesGood
<1>2. DOMAIN checks' = DOMAIN checks \ {closing}
      /\ \A d \in DOMAIN checks' : checks'[d] = checks[d]
  BY <1>1
<1>3. \A d \in State, e \in Expr, q \in Region \cup {NULL} : Remembers(d, e, q)' => Keeps(d, e, q)
  BY <1>2 DEF Remembers, Keeps
<1>4. MemoryGood'
  BY <1>1, <1>3, MemoryStays DEF memory
<1> QED BY <1>1, <1>4, NoCalls, AnswerStays DEF CheckerSizes

LEMMA ReleaseRegionSizes ==
  ASSUME MInv, SInv, CheckerSizes, NEW r \in Region, ReleaseRegion(r)
  PROVE  CheckerSizes'
<1>1. /\ stack' = <<>> /\ UNCHANGED <<closing, answer>> /\ MemoryGood /\ AnswersExact
      /\ closing \in DOMAIN checks /\ Owns(closing, r) /\ DestroyRegion(r)
      /\ checks' = [checks EXCEPT ![closing].regions = @ \ {r}]
      /\ checks \in [DOMAIN checks -> Fields]
  BY DEF ReleaseRegion, Releases, Owns, CheckerSizes, MInv, TypesGood
<1>2. r \in regions /\ r \notin pools /\ parent[r] = NULL
  BY <1>1 DEF MInv, RootsGood
<1>3. DOMAIN checks' = DOMAIN checks
      /\ \A st \in DOMAIN checks : st # closing => checks'[st] = checks[st]
  BY <1>1 DEF Fields
<1>4. ASSUME NEW st \in State, NEW e \in Expr, NEW q \in Region \cup {NULL}, Remembers(st, e, q)'
      PROVE  Keeps(st, e, q) /\ q # r
  <2>1. Keeps(st, e, q) /\ st \in DOMAIN checks /\ st # closing
    BY <1>1, <1>3, <1>4 DEF Remembers, Keeps
  <2>2. Finished(st, e, q)
    BY <1>1, <2>1 DEF Keeps, MemoryGood
  <2>3. q = r => Owns(st, r)
    BY <1>2, <2>2 DEF Finished, Owns
  <2>4. Owns(st, r) => st = closing
    BY <1>1, <1>2, <2>1 DEF MInv, RootsTracked, Owns
  <2> QED BY <2>1, <2>3, <2>4
<1>5. MemoryGood'
  BY <1>1, <1>2, <1>4, MemoryShrinks
<1> QED BY <1>1, <1>5, NoCalls, AnswerStays DEF CheckerSizes

LEMMA AloneAll ==
  \A s : Len(s) = 1 /\ Running(s[1]) => CallsGood(s)
<1> SUFFICES ASSUME NEW s, Len(s) = 1, Running(s[1]) PROVE CallsGood(s)
  OBVIOUS
<1>1. 2 .. Len(s) = {}
  OBVIOUS
<1> QED BY <1>1 DEF Waiting, CallsGood

LEMMA AloneLater ==
  (\A s : Len(s) = 1 /\ Running(s[1]) => CallsGood(s))'
BY AloneAll, PTL

LEMMA AskSizes ==
  ASSUME MInv, MInv', SInv, CheckerSizes, NEW st \in State, NEW expr \in Expr, Ask(st, expr)
  PROVE  CheckerSizes'
<1>0. PICK global, f : global = checks[st].global /\ f = Frame(st, expr, global)
  OBVIOUS
<1>1. /\ stack = <<>> /\ stack' = <<f>> /\ UNCHANGED <<memory, checks, closing>>
      /\ answer' = NoAnswer /\ MemoryGood /\ st \in DOMAIN checks /\ checks[st].usable
  BY <1>0 DEF Ask, Idle, CheckerSizes
<1>2. /\ f.state = st /\ f.expr = expr /\ f.global = global /\ f.at = "start" /\ f.next = 1
      /\ f.fn = NULL /\ f.param = NULL /\ f.body = NULL
  BY <1>0 DEF Frame
<1>3. ~Opened(f)
  BY <1>2 DEF Opened
<1>4. Running(f)'
  <2>1. Counts(f) /\ Links(f) /\ Amount(f, {})'
    BY <1>2, <1>3 DEF Counts, Links, Amount
  <2>2. Asks(f)'
    BY <1>1, <1>2, <1>3 DEF Asks
  <2>3. Counts(f)' /\ Links(f)'
    BY <1>2, <1>3 DEF Counts, Links
  <2> QED BY <2>1, <2>2, <2>3 DEF Running
<1>5. CallsGood(stack)'
  <2>1. PICK t : t = <<f>>
    OBVIOUS
  <2>2. Len(t) = 1 /\ t[1] = f /\ t = stack'
    BY <1>1, <2>1
  <2>3. Running(t[1])'
    BY <1>4, <2>2
  <2>4. CallsGood(t)'
    BY <2>2, <2>3, AloneLater
  <2> QED BY <2>2, <2>4
<1>6. MemoryGood'
  <2>1. global = NULL \/ global \in pools
    BY <1>0, <1>1 DEF MInv, RootsGood
  <2>2. \A q \in Places(f) : q = NULL \/ q \in pools
    BY <1>2, <2>1 DEF Places
  <2>3. \A q \in Places(f) : Unremembered(q)
    BY <1>1, <2>2, NullUnremembered, PoolUnremembered
  <2>4. DOMAIN stack' = {1} /\ stack'[1] = f
    BY <1>1
  <2>5. \A j \in DOMAIN stack' : \A q \in Places(stack'[j]) \cap regions : Unremembered(q)
    BY <2>3, <2>4
  <2> QED BY <1>1, <2>5, StillMemory
<1> QED BY <1>1, <1>5, <1>6, NothingAnswered DEF CheckerSizes

-----------------------------------------------------------------------------
(* Every step together.                                                    *)

LEMMA StutterSizes ==
  ASSUME MInv, MInv', SInv, CheckerSizes, UNCHANGED <<memory, checkVars>>
  PROVE  CheckerSizes'
<1>1. UNCHANGED <<memory, checks, closing, stack, answer>> /\ MemoryGood /\ AnswersExact
  BY DEF checkVars, CheckerSizes
<1>2. CASE stack = <<>>
  <2>1. \A st \in State, e \in Expr, q \in Region \cup {NULL} : Remembers(st, e, q)' => Keeps(st, e, q)
    BY <1>1 DEF Remembers, Keeps
  <2>2. MemoryGood'
    BY <1>1, <1>2, <2>1, MemoryStays DEF memory
  <2> QED BY <1>1, <1>2, <2>2, NoCalls, AnswerStays DEF CheckerSizes
<1>3. CASE stack # <<>>
  <2>1. PICK t : t = stack'
    OBVIOUS
  <2>2. CallsGood(t)
    BY <1>1, <2>1 DEF CheckerSizes
  <2>3. \A j \in DOMAIN stack' : \A q \in Places(stack'[j]) \cap regions : Unremembered(q)
    BY <1>1, PlacesUnremembered
  <2> QED BY <1>1, <1>3, <2>1, <2>2, <2>3, StackSizes
<1> QED BY <1>2, <1>3

LEMMA NextSizes ==
  ASSUME MInv, MInv', SInv, SInv', CheckerSizes,
         [~fault /\ (ClientNext \/ CheckNext)]_<<memory, checkVars>>
  PROVE  CheckerSizes'
<1>1. CASE ClientNext
  BY <1>1, OpenPoolSizes, ClosePoolSizes, CreateStateSizes, DestroyStateSizes, AskSizes DEF ClientNext
<1>2. CASE CheckNext
  <2>1. CASE \E r \in Region : ReleaseRegion(r) \/ OpenGlobal(r) \/ OpenFunction(r)
                               \/ OpenParams(r) \/ OpenBody(r)
    BY <2>1, ReleaseRegionSizes, OpenGlobalSizes, OpenFunctionSizes, OpenParamsSizes, OpenBodySizes
  <2>2. CASE FreeState \/ UseGlobal \/ Delegate \/ CheckParam \/ CheckBody \/ AnswerLambda
    BY <2>2, FreeStateSizes, UseGlobalSizes, DelegateSizes, CheckParamSizes, CheckBodySizes,
       AnswerLambdaSizes
  <2>3. CASE CheckConstant \/ RefusePseudo \/ AnswerKnown \/ PassOn
    BY <2>3, AnswerSizes
  <2>4. CASE \E s \in Storage : Allocate(s)
    BY <2>4, AllocateSizes
  <2> QED BY <1>2, <2>1, <2>2, <2>3, <2>4 DEF CheckNext
<1>3. CASE UNCHANGED <<memory, checkVars>>
  BY <1>3, StutterSizes
<1> QED BY <1>1, <1>2, <1>3

LEMMA InitSizes ==
  ASSUME CheckInit
  PROVE  CheckerSizes
<1>1. stack = <<>> /\ DOMAIN checks = {} /\ answer.expr = NULL
  BY DEF CheckInit, NoAnswer
<1> QED BY <1>1 DEF CheckerSizes, CallsGood, MemoryGood, Remembers, AnswersExact

\* What every step keeps: the regions of each function under way are in their
\* places below what it charges and hold what the parts checked so far need
\* with what the call it waits for has charged, and a region remembered for a
\* function is finished: no call under way charges it (lib/memcheck.cpp).
THEOREM SizesChecked == MemCheckSpec => []CheckerSizes
<1>1. CheckInit => CheckerSizes
  BY InitSizes
<1>2. /\ MInv /\ MInv' /\ SInv /\ SInv' /\ CheckerSizes
      /\ [~fault /\ (ClientNext \/ CheckNext)]_<<memory, checkVars>>
      => CheckerSizes'
  BY NextSizes
<1>3. MemCheckSpec => []SInv
  BY CheckerIsAClient, SizesInvariant, PTL
<1> QED BY <1>1, <1>2, <1>3, CheckerInvariant, PTL DEF MemCheckSpec

\* The raw size lemniMemCheck answers for a function is what its
\* structure needs, and it is an error exactly if the expression holds a pseudo
\* function, whatever was checked before and whatever the pools hold.
THEOREM AnswersAlwaysExact == MemCheckSpec => []AnswersExact
<1>1. CheckerSizes => AnswersExact
  BY DEF CheckerSizes
<1> QED BY <1>1, SizesChecked, PTL

\* The early return of LemniTypedLambdaExprT::memcheck is as good as a check:
\* the region that a usable state remembers for a function is live, holds what
\* the function needs, and the function is not one that is refused.
THEOREM KnownAlwaysSized == MemCheckSpec => []KnownRegionsSized
<1>1. ASSUME MInv, SInv, CheckerSizes
      PROVE  KnownRegionsSized
  <2> SUFFICES ASSUME NEW st \in DOMAIN checks, NEW e \in DOMAIN checks[st].regionMap,
                      Kind[e] = "lambda", checks[st].usable, st # closing
               PROVE  LET r == checks[st].regionMap[e]
                      IN  r \in regions /\ RawSize(r, TRUE) = Needs[e] /\ ~Refused[e]
    BY DEF KnownRegionsSized
  <2> DEFINE r == checks[st].regionMap[e]
  <2>1. st \in State /\ checks[st] \in Fields
    BY <1>1 DEF MInv, TypesGood
  <2>2. e \in Expr /\ r \in Region \cup {NULL}
    BY <2>1 DEF Fields
  <2>3. Finished(st, e, r)
    BY <1>1, <2>1, <2>2 DEF CheckerSizes, MemoryGood, Remembers
  <2> HIDE DEF r
  <2>4. r \in regions /\ RawSize(r, TRUE) = Needs[e] /\ ~Refused[e]
    BY <1>1, <2>3, RawAnswer DEF Finished
  <2> QED BY <2>4 DEF r
<1>2. MInv /\ SInv /\ CheckerSizes => KnownRegionsSized
  BY <1>1
<1>3. MemCheckSpec => []SInv
  BY CheckerIsAClient, SizesInvariant, PTL
<1> QED BY <1>2, <1>3, SizesChecked, CheckerInvariant, PTL
=============================================================================
