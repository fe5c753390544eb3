------------------------------ MODULE Session ------------------------------
(***************************************************************************)
(* A session of the interpreter, repl/main.cpp, down to the values it      *)
(* makes and frees: what is entered is typechecked (Calls), evaluated      *)
(* (lib/eval.cpp) expression by expression, shown, and freed.              *)
(*                                                                         *)
(* `mem' is what evaluation changes: the values in memory, by address; the *)
(* value every binding and module is stored as, by evaluation state and    *)
(* typed expression; the modules that were destroyed; and the frames of    *)
(* calls.  Evaluation runs to its end before anything else happens, so an  *)
(* expression is evaluated in one step.                                    *)
(*                                                                         *)
(* Memory that was freed may still read as it did, or the program crashes: *)
(* which of the two is `lasting', fixed for a session.                     *)
(***************************************************************************)
EXTENDS Calls

CONSTANTS Inputs,       \* what may be entered: sequences of source expressions
          MaxInputs     \* inputs in a session

ASSUME MaxInputsAssumption == MaxInputs \in Nat

VARIABLES phase,        \* "prompt", "showing", "crashed" or "exited"
          entered,      \* inputs so far
          queue,        \* typed expressions of the last that are not evaluated yet
          mem,
          held,         \* values of this input that were shown
          answer,       \* the last expression, and what was shown for it
          orderly,      \* all inputs so far were Orderly
          lasting

sessionVars == <<phase, entered, queue, mem, held, answer, orderly, lasting>>

Ops == INSTANCE ValueOps WITH
         Types <- {}, MaxReturns <- 0, returns <- <<>>, result <- NoType,
         fault <- FALSE, Unit <- 16, GivenValues <- {}, MaxOps <- 0,
         acc <- NoType, call <- NoType, left <- 0

-----------------------------------------------------------------------------
(* Values and memory.                                                      *)

UnitValue == Ops!Value("unit", 0, 0)
RefValue(a) == [kind |-> "ref", to |-> a]
FnValue(e, env) == [kind |-> "fn", node |-> e, env |-> env]
ModuleValue(m) == [kind |-> "module", m |-> m]
ProductValue(vs) == [kind |-> "product", parts |-> vs]

\* State 0 is the interpreter's; every other one evaluates a module.
Host == 0
Null == 0

FreshMem == [vals |-> [a \in {} |-> UnitValue], made |-> 0, stored |-> [k \in {} |-> Null],
             gone |-> {}, leaked |-> {}, states |-> 0, frames |-> 0, live |-> {}]

Value(a, m) == [o |-> "value", v |-> a, m |-> m]
Failed(m) == [o |-> "error", v |-> Null, m |-> m]
Crashed(m) == [o |-> "crash", v |-> Null, m |-> m]
Exited(m) == [o |-> "exit", v |-> Null, m |-> m]

\* Memory that may have been freed is read: what it held, or a crash.
Reads(freed, m, res) == IF freed /\ ~lasting THEN Crashed(m) ELSE res

New(v, m) == LET a == m.made + 1
             IN  Value(a, [m EXCEPT !.made = a, !.vals = (a :> v) @@ @])

Held(a, m) == IF a \in DOMAIN m.vals THEN m.vals[a] ELSE [kind |-> "freed"]

\* LemniValueT::deref
Target(a, m) == IF Held(a, m).kind = "ref" THEN m.vals[a].to ELSE a
At(a, m) == Held(Target(a, m), m)

\* lemniCreateValueRef: to what the value leads to.
RefToItself(a, m) == New(RefValue(a), m)     \* a slip
RefTo(a, m) == New(RefValue(Target(a, m)), m)

\* lemniDestroyValue and the destructors: a module value owns its module.
Owns(a, m) == IF Held(a, m).kind = "module" THEN {m.vals[a].m} ELSE {}
Destroy(as, m) ==
  [m EXCEPT !.vals = [a \in DOMAIN m.vals \ as |-> m.vals[a]],
            !.gone = @ \cup UNION {Owns(a, m) : a \in as}]

\* No value at all makes lemni::Value throw, through functions that are
\* noexcept.
NonNull(res) == IF res.o = "value" /\ res.v = Null THEN Crashed(res.m) ELSE res

\* Frees the values, whatever the end is.
Freeing(as, res) == IF res.o \in {"value", "error"} THEN [res EXCEPT !.m = Destroy(as, @)] ELSE res

-----------------------------------------------------------------------------
(* Evaluation: the virtual eval of every typed expression.  st is the      *)
(* evaluation state, env the frames of the calls around, innermost first.  *)

RECURSIVE Eval(_, _, _, _)

\* Several expressions in order: the addresses of their values.  The values
\* there are already are freed when one has none.
Collected(acc, res) == IF res.o = "value" THEN Value(Append(acc.v, res.v), res.m)
                       ELSE Freeing(ToSet(acc.v), res)
EvalAll(es, st, env, m) ==
  FoldLeft(LAMBDA acc, e : IF acc.o # "value" THEN acc
                           ELSE Collected(acc, NonNull(Eval(e, st, env, acc.m))),
           Value(<<>>, m), es)

\* The value of an operator: there is one, or none.
Result(v, m) == IF v.kind = "null" THEN Value(Null, m) ELSE New(v, m)
UnaryResult(op, as, m) == Result(Ops!UnaryOpResult(op, At(as[1], m)), m)
BinaryResult(op, as, m) ==
  Result(CHOOSE v \in Ops!BinaryOp(op, At(as[1], m), At(as[2], m)) : TRUE, m)
Operated(op, res) ==
  IF res.o # "value" THEN res
  ELSE Freeing(ToSet(res.v), IF Len(res.v) = 1 THEN UnaryResult(op, res.v, res.m)
                             ELSE BinaryResult(op, res.v, res.m))

EvalUnaryOp(e, st, env, m) == Operated(e.op, EvalAll(<<e.value>>, st, env, m))
EvalBinaryOp(e, st, env, m) == Operated(e.op, EvalAll(<<e.lhs, e.rhs>>, st, env, m))

\* A binding and a module are evaluated once in a state; the value is kept,
\* and a reference to it is the answer.
StoredNever(st, e, m) == FALSE     \* a slip
Stored(st, e, m) == <<st, e>> \in DOMAIN m.stored
Store(st, e, a, m) == [m EXCEPT !.stored = (<<st, e>> :> a) @@ @]
StoredRef(st, e, m) == RefTo(m.stored[<<st, e>>], m)
Referred(st, e, a, ref) == Value(ref.v, Store(st, e, a, ref.m))
Keep(st, e, res) == IF res.o # "value" THEN res
                    ELSE Referred(st, e, res.v, RefTo(res.v, res.m))

\* The frames of the calls around are looked through for the binding first.
EvalBinding(e, st, env, m) ==
  Reads(\E f \in ToSet(env) : f \notin m.live, m,
    IF Stored(st, e, m) THEN StoredRef(st, e, m)
    ELSE Keep(st, e, NonNull(Eval(e.value, st, env, m))))

\* A slip: what every state stored goes.
EveryStateGoes(st, m) == [Destroy({m.stored[k] : k \in DOMAIN m.stored}, m) EXCEPT
                            !.stored = [k \in {} |-> Null]]

\* The state a module is evaluated in goes when it is, with all it stored.
StateGoes(st, m) ==
  LET own == {k \in DOMAIN m.stored : k[1] = st}
  IN  [Destroy({m.stored[k] : k \in own}, m) EXCEPT
         !.stored = [k \in DOMAIN m.stored \ own |-> m.stored[k]]]

\* A module that goes is owned by another value too, or went before.
OwnedTwice(st, m) ==
  \E k, l \in {k \in DOMAIN m.stored : k[1] = st} :
    Owns(m.stored[k], m) \cap (m.gone \cup IF k = l THEN {} ELSE Owns(m.stored[l], m)) # {}

\* lemniCreateValueModule: the expressions of the module, typechecked when it
\* was loaded, are evaluated in a state of their own.  Their values are never
\* freed.  If one fails there is no value to refer to.
Leaking(res) == [res.m EXCEPT !.leaked = @ \cup ToSet(res.v)]
ModuleMade(id, st, res) ==
  CASE res.o = "value" -> Reads(OwnedTwice(st, res.m), res.m,
                            New(ModuleValue(id), StateGoes(st, Leaking(res))))
    [] res.o = "error" -> Crashed(res.m)
    [] OTHER -> res
ExprsOf(results) == [i \in DOMAIN results |-> results[i].e]
CreateModule(e, m) ==
  LET st == m.states + 1
  IN  ModuleMade(e.m, st, EvalAll(ExprsOf(Checks(Lines[e.m], Place(e.m, <<>>, {}))), st, <<>>,
                                  [m EXCEPT !.states = st]))

EvalModule(e, st, m) ==
  IF Stored(st, e, m) THEN StoredRef(st, e, m)
  ELSE Reads(e.m \in m.gone, m, Keep(st, e, CreateModule(e, m)))

\* lemniCreateValueProduct copies the elements; the copy of a module is a unit.
Copied(v) == IF v.kind = "module" THEN UnitValue ELSE v
ProductMade(res) ==
  IF res.o # "value" THEN res
  ELSE Freeing(ToSet(res.v), New(ProductValue([i \in DOMAIN res.v |->
                                                Copied(res.m.vals[res.v[i]])]), res.m))
EvalProduct(e, st, env, m) == ProductMade(EvalAll(e.elems, st, env, m))

\* A definition has the environment it is evaluated in, which may be that of a
\* call: the frame of the call goes when it returns.
FrameGoes(frame, m) == [m EXCEPT !.live = @ \ {frame}]

CallDef(f, as, st, m) ==
  IF Len(as) # Len(f.node.lambda.params) THEN Failed(m)
  ELSE LET frame == m.frames + 1
       IN  [Eval(f.node.lambda.body, st, <<frame>> \o f.env,
                 [m EXCEPT !.frames = frame, !.live = @ \cup {frame}])
              EXCEPT !.m = FrameGoes(frame, @)]

\* What a function of the host gets and does: every Bool argument is passed by
\* the address of one buffer, which holds the last; a function that does not
\* return ends the program, and one that answers a Bool answers its first.
Passed(as, m) == At(Last(as), m)
CallHost(e, as, m) ==
  CASE e.type.result = Bottom -> Exited(m)
    [] e.type.result = UnitType -> New(UnitValue, m)
    [] OTHER -> New(Passed(as, m), m)

CallExt(f, as, m) ==
  LET e == f.node
      fits == IF e.type.params = <<UnitType>>
              THEN as = <<>> \/ (Len(as) = 1 /\ At(as[1], m).kind = "unit")
              ELSE Len(as) = e.arity /\ \A i \in DOMAIN as : At(as[i], m).kind = "bool"
  IN  IF fits THEN CallHost(e, as, m) ELSE Failed(m)

CallValue(f, as, st, m) ==
  CASE f.kind = "fn" /\ f.node.k = "def" -> CallDef(f, as, st, m)
    [] f.kind = "fn" /\ f.node.k = "ext" -> CallExt(f, as, m)
    [] OTHER -> Failed(m)

ArgumentsLeft(f, as) == {f}      \* a slip
Operands(f, as) == {f} \cup ToSet(as)

CallWith(f, args, st) ==
  IF args.o # "value" THEN Freeing({f}, args)
  ELSE Freeing(Operands(f, args.v), CallValue(At(f, args.m), args.v, st, args.m))
EvalApplication(e, st, env, m) ==
  LET f == NonNull(Eval(e.fn, st, env, m))
  IN  IF f.o # "value" THEN f ELSE CallWith(f.v, EvalAll(e.args, st, env, f.m), st)

\* No parameter is evaluated: none is in scope, and those of host functions
\* are inside a lambda, which has no value.
Eval(e, st, env, m) ==
  CASE e.k = "const"   -> New(e.v, m)
    [] e.k = "ref"     -> Eval(e.to, st, env, m)
    [] e.k = "unary"   -> EvalUnaryOp(e, st, env, m)
    [] e.k = "binary"  -> EvalBinaryOp(e, st, env, m)
    [] e.k = "binding" -> EvalBinding(e, st, env, m)
    [] e.k = "module"  -> EvalModule(e, st, m)
    [] e.k = "app"     -> EvalApplication(e, st, env, m)
    [] e.k = "tuple"   -> EvalProduct(e, st, env, m)
    [] e.k \in {"def", "ext"} -> New(FnValue(e, env), m)
    [] e.k \in {"free", "hole", "lambda", "param"} -> Failed(m)
    [] e.k = "nil"     -> Crashed(m)

-----------------------------------------------------------------------------
(* Inputs, by what can be said of them from their source.                  *)

IsMember(s) == /\ s.s = "access" /\ s.value.s = "name" /\ s.value.id \in DOMAIN Aliases
               /\ s.id \in DOMAIN Members[Aliases[s.value.id]]
MemberOf(s) == Members[Aliases[s.value.id]][s.id]

\* Expressions whose value is plain from the source: truth values, units,
\* tuples and operators on them, calls of definitions, and calls of functions
\* of the host whose arguments are all the same; arguments are all constants,
\* or none is.
RECURSIVE Straight(_), Mean(_)
Mean(s) == CASE s.s = "name" -> Ops!Truth(s.id = "true")
             [] s.s = "tuple" -> CASE s.elems = <<>> -> UnitValue
                                   [] Len(s.elems) = 1 -> Mean(s.elems[1])
                                   [] OTHER -> ProductValue([i \in DOMAIN s.elems |-> Mean(s.elems[i])])
             [] s.s = "unary" -> Ops!Truth(Mean(s.value).n = 0)
             [] s.s = "binary" -> Ops!Booleans(s.op, Mean(s.lhs), Mean(s.rhs))
             [] s.s = "call" -> IF s.fn.s = "access" THEN Mean(s.args[1]) ELSE Mean(s.fn.body)

IsTruth(s) == Straight(s) /\ Mean(s).kind = "bool"
IsKnown(s) == s \in {Name("true"), Name("false"), Round(<<>>)}
AllAlike(args) == \A i, j \in DOMAIN args : IsKnown(args[i]) = IsKnown(args[j])
Straight(s) ==
  CASE s.s = "name" -> s.id \in {"true", "false"}
    [] s.s = "tuple" -> \A i \in DOMAIN s.elems : Straight(s.elems[i])
    [] s.s = "unary" -> s.op = "not" /\ IsTruth(s.value)
    [] s.s = "binary" -> s.op \in {"and", "or", "eq", "neq"} /\ IsTruth(s.lhs) /\ IsTruth(s.rhs)
    [] s.s = "call" /\ s.fn.s = "def" ->
         /\ Len(s.args) = Len(s.fn.params) /\ s.args # <<>> /\ AllAlike(s.args)
         /\ Straight(s.fn.body) /\ \A i \in DOMAIN s.args : Straight(s.args[i])
    [] s.s = "call" /\ s.fn.s = "access" ->
         /\ IsMember(s.fn)
         /\ MemberOf(s.fn).type.result = Bool /\ MemberOf(s.fn).arity = Len(s.args)
         /\ s.args # <<>> /\ AllAlike(s.args)
         /\ \A i \in DOMAIN s.args : IsTruth(s.args[i]) /\ Mean(s.args[i]) = Mean(s.args[1])
    [] OTHER -> FALSE

\* Sources that keep clear of what the interpreter does not survive: a file
\* that imports or fails, a definition without parameters, a comparison that
\* truth values do not have, too few arguments, arguments of which some are
\* constants, and the call of what a call answered.
RECURSIVE Orderly(_)
Orderly(s) ==
  CASE s.s \in {"name", "text", "hole", "list"} -> TRUE
    [] s.s = "tuple" -> \A i \in DOMAIN s.elems : Orderly(s.elems[i])
    [] s.s = "unary" -> Orderly(s.value)
    [] s.s = "binary" -> Straight(s)
    [] s.s = "def" -> s.params # <<>> /\ Orderly(s.body)
    [] s.s = "access" -> Orderly(s.value)
    [] IsImport(s) -> \A i \in DOMAIN s.args : s.args[i].s = "text" /\ s.args[i].text \in DOMAIN Lines =>
                        \A j \in DOMAIN Lines[s.args[i].text] : Straight(Lines[s.args[i].text][j])
    [] s.s = "call" /\ ~IsImport(s) ->
         /\ Orderly(s.fn) /\ \A i \in DOMAIN s.args : Orderly(s.args[i])
         /\ AllAlike(s.args)
         /\ CASE s.fn.s = "def" -> Len(s.args) >= Len(s.fn.params)
              [] IsMember(s.fn) -> Len(s.args) >= Len(MemberOf(s.fn).type.params)
              [] OTHER -> s.fn.s \in {"name", "access"}

-----------------------------------------------------------------------------
(* The interpreter.                                                        *)

NoAnswer == [src |-> Commas(<<>>), shown |-> [kind |-> "nothing"]]
Answer(src, v) == [src |-> src, shown |-> v]
ErrorShown == [kind |-> "error"]

SessionInit == /\ phase = "prompt"
               /\ entered = 0 /\ queue = <<>>
               /\ mem = FreshMem
               /\ held = {}
               /\ answer = NoAnswer
               /\ orderly = TRUE
               /\ lasting \in BOOLEAN

\* Everything that is entered is typechecked before any of it is evaluated.
Enter(es) ==
  /\ phase = "prompt" /\ entered < MaxInputs
  /\ entered' = entered + 1
  /\ orderly' = (orderly /\ \A i \in DOMAIN es : Orderly(es[i]))
  /\ LET gone == IF lasting THEN {} ELSE mem.gone
         made == [i \in DOMAIN es |->
                    Check(es[i], [Place("input", Aliases, gone) EXCEPT !.at = <<entered', i>>])]
         bad  == {i \in DOMAIN es : made[i].r # "expr"}
     IN  IF bad = {}
         THEN /\ phase' = "showing"
              /\ queue' = [i \in DOMAIN es |-> [src |-> es[i], e |-> made[i].e]]
              /\ answer' = NoAnswer
         ELSE /\ phase' = IF made[Lowest(bad)].r = "crash" THEN "crashed" ELSE "showing"
              /\ queue' = <<>>
              /\ answer' = Answer(es[Lowest(bad)], ErrorShown)
  /\ UNCHANGED <<mem, held, lasting>>

\* LemniValueT::toString, as far as the properties tell values apart.
RECURSIVE Shown(_, _)
Shown(v, m) == CASE v.kind = "ref" -> Shown(Held(v.to, m), m)
                 [] v.kind = "product" ->
                      ProductValue([i \in DOMAIN v.parts |-> Shown(v.parts[i], m)])
                 [] v.kind \in {"fn", "module", "freed"} -> [kind |-> v.kind]
                 [] OTHER -> v

\* The value is copied, shown with the name of its type, and the original
\* freed.  An expression without a type has no name to show.
Show(src, e, a, m) ==
  IF e.type = NoType
  THEN /\ phase' = "crashed" /\ mem' = m
       /\ UNCHANGED <<queue, held, answer>>
  ELSE LET copy == New(Copied(Held(a, m)), m) IN
       /\ mem' = Destroy({a}, copy.m)
       /\ held' = held \cup {copy.v}
       /\ answer' = Answer(src, Shown(Held(a, m), m))
       /\ queue' = Tail(queue)
       /\ UNCHANGED phase

ShowNext ==
  /\ phase = "showing" /\ queue # <<>>
  /\ \E res \in {NonNull(Eval(Head(queue).e, Host, <<>>, mem))} :
       LET next == Head(queue) IN
       CASE res.o = "value" -> Show(next.src, next.e, res.v, res.m)
       [] res.o = "error" ->
            /\ mem' = res.m
            /\ answer' = Answer(next.src, ErrorShown)
            /\ queue' = <<>>
            /\ UNCHANGED <<phase, held>>
       [] OTHER ->
            /\ mem' = res.m
            /\ phase' = IF res.o = "exit" THEN "exited" ELSE "crashed"
            /\ UNCHANGED <<queue, held, answer>>
  /\ UNCHANGED <<entered, orderly, lasting>>

\* The values shown are freed, and the next input is asked for.
Prompt ==
  /\ phase = "showing" /\ queue = <<>>
  /\ phase' = "prompt"
  /\ mem' = Destroy(held, mem)
  /\ held' = {}
  /\ UNCHANGED <<entered, queue, answer, orderly, lasting>>

SessionNext == (\E es \in Inputs : Enter(es)) \/ ShowNext \/ Prompt

-----------------------------------------------------------------------------
(* What the interpreter relies on.                                         *)

InUse == DOMAIN mem.vals \ mem.leaked
Runs == phase \in {"prompt", "showing"}

\* Every reference leads, in one step, to a value that is there: the values
\* that are stored outlive those that refer to them, and no reference is made
\* to a reference, which could be freed before.
RefsLead ==
  LET refs == {mem.vals[a] : a \in InUse}
      parts == UNION {ToSet(v.parts) : v \in {v \in refs : v.kind = "product"}}
  IN  Runs => \A v \in refs \cup parts : v.kind = "ref" =>
                v.to \in InUse /\ mem.vals[v.to].kind # "ref"

\* Between two expressions every value has exactly one owner: the state that
\* stored it, or the input it was shown for.  Operands, arguments, functions
\* and what failed expressions made are freed; only the values of a module's
\* expressions are not.
OwnedOnce ==
  Runs => /\ InUse = {mem.stored[k] : k \in DOMAIN mem.stored} \cup held
          /\ \A k \in DOMAIN mem.stored : mem.stored[k] \notin held
          /\ \A k, l \in DOMAIN mem.stored : mem.stored[k] = mem.stored[l] => k = l

\* What a binding or a module was evaluated to, it stays for the session.
StoredStay ==
  [][\A k \in DOMAIN mem.stored : k[1] = Host =>
        /\ k \in DOMAIN mem'.stored /\ mem'.stored[k] = mem.stored[k]
        /\ Held(mem.stored[k], mem') = Held(mem.stored[k], mem)]_sessionVars

\* Such an expression is answered by its value, whatever was entered before,
\* the modules that were imported and the expressions that failed included.
AnswersTrue == Straight(answer.src) => answer.shown = Mean(answer.src)

\* The interpreter survives every session of orderly inputs, whatever errors
\* they make and whatever they import, whether freed memory lasts or not.
OrderlySessionsLive == orderly => phase # "crashed"
=============================================================================
