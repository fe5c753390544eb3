------------------------------- MODULE Calls -------------------------------
(***************************************************************************)
(* Typechecking of names, definitions and calls, and the partial           *)
(* evaluation of calls: lib/typecheck.cpp, from the expressions the parser *)
(* makes to the typed ones of lib/TypedExpr.hpp.                           *)
(*                                                                         *)
(* A typed expression is a record of its class, its type and its parts.    *)
(* Two are the same node when they are equal; those that are told apart by *)
(* their address, a parameter and an imported module, carry the place in   *)
(* the source they were made for.  Numbers are left out: the request for a *)
(* number's type does not return (TypeSet).                                *)
(*                                                                         *)
(* The state machine is a host that calls lemniTypecheckEval, again and    *)
(* again, on what the last call answered.                                  *)
(***************************************************************************)
EXTENDS Integers, Sequences, FiniteSets, SequencesExt, TLC

CONSTANTS Members,    \* module |-> [name |-> the host function it has]
          Aliases,    \* name in the host's global scope |-> the module bound to it
          Lines,      \* module |-> the expressions of its file
          Start,      \* functions the host evaluates
          MaxCalls    \* calls on one of them, one after the other

ASSUME ModulesAssumption == DOMAIN Lines = DOMAIN Members
ASSUME AliasesAssumption == \A id \in DOMAIN Aliases : Aliases[id] \in DOMAIN Members
ASSUME MaxCallsAssumption == MaxCalls \in Nat

VARIABLES from,       \* the function the host started with
          fn,         \* what the last call answered
          outcome,    \* how it ended: "expr", "error" or "crash"
          given,      \* parameter |-> argument, those given so far
          calls,      \* calls made
          plain       \* the calls so far are of the kind that keeps the rest

callVars == <<from, fn, outcome, given, calls, plain>>

-----------------------------------------------------------------------------
(* Types: those of TypeRules, and functions.                               *)

NoType == [kind |-> "none", bits |-> 0]
T == INSTANCE TypeRules WITH Types <- {}, MaxReturns <- 0,
                             returns <- <<>>, result <- NoType, fault <- FALSE

Bool == T!Sized("bool", 1)
UnitType == T!Plain("unit")
Text == T!Plain("ascii")
ModuleType == T!Plain("module")
Bottom == T!Plain("bottom")
Pseudo == T!Plain("pseudo")
Product(types) == [kind |-> "product", components |-> types]

\* lemniTypeSetGetFunction: no parameters, no type.
FnType(params, res) == IF params = <<>> THEN NoType
                       ELSE [kind |-> "fn", params |-> params, result |-> res]
IsFn(t) == t.kind = "fn"

Logic == {"lt", "gt", "lteq", "gteq", "eq", "neq", "and", "or"}

\* lemniBinaryOpResultType, and where it reads a type that is not there.
BinaryType(op, l, r) == CASE Pseudo \in {l, r} -> Pseudo
                          [] Pseudo \notin {l, r} /\ op \in Logic -> Bool
                          [] OTHER -> T!OpResult(l, r, op)
BinaryReadsNull(op, l, r) == Pseudo \notin {l, r} /\ op \notin Logic /\ NoType \in {l, r}

\* lemniUnaryOpResultType, of an operand that has a type.
UnaryType(op, t) == CASE t = Bool /\ op = "not" -> t
                      [] t.kind \in ToSet(T!Tower) /\ op = "neg" -> T!MakeSigned(t)
                      [] OTHER -> NoType

-----------------------------------------------------------------------------
(* Typed expressions.                                                      *)

Const(v) == [k |-> "const", type |-> T!Sized(v.kind, v.bits), v |-> v]
Module(m, where) == [k |-> "module", type |-> ModuleType, m |-> m, where |-> where]
Hole == [k |-> "hole", type |-> Pseudo]              \* LemniTypedPlaceholderExprT
Unresolved(id) == [k |-> "free", type |-> Pseudo, id |-> id]
Ref(e) == [k |-> "ref", type |-> e.type, to |-> e]
Binding(id, e) == [k |-> "binding", type |-> e.type, id |-> id, value |-> e]
Param(t, of, at) == [k |-> "param", type |-> t, of |-> of, at |-> at]
Lambda(params, body) ==
  [k |-> "lambda", type |-> FnType([i \in DOMAIN params |-> params[i].type], body.type),
   params |-> params, body |-> body]
Def(id, lambda) == [k |-> "def", type |-> lambda.type, id |-> id, lambda |-> lambda]
App(t, f, args) == [k |-> "app", type |-> t, fn |-> f, args |-> args]
Tuple(es) == [k |-> "tuple", type |-> Product([i \in DOMAIN es |-> es[i].type]), elems |-> es]
Unary(t, op, e) == [k |-> "unary", type |-> t, op |-> op, value |-> e]
Binary(t, op, l, r) == [k |-> "binary", type |-> t, op |-> op, lhs |-> l, rhs |-> r]

\* lemniCreateTypedExtFn: a function without parameters has one in its type.
Ext(id, params, res) ==
  [k |-> "ext", type |-> FnType(IF params = <<>> THEN <<UnitType>> ELSE params, res),
   id |-> id, arity |-> Len(params)]
\* The parameter made for the one that is skipped; no expression has two.
ExtParam(e, i) == Param(e.type.params[i], e.id, <<i>>)

\* A null pointer where an expression may be.
Nil == [k |-> "nil", type |-> NoType]

\* LemniTypedConstantExpr, and LemniTypedExprT::deref.
IsConstant(e) == e.k \in {"const", "module"}
Deref(e) == IF e.k = "ref" THEN e.to ELSE e

-----------------------------------------------------------------------------
(* LemniTypecheckResult, and a fault of the program.                       *)

Done(e) == [r |-> "expr", e |-> e]
Error == [r |-> "error", e |-> Nil]
Crash == [r |-> "crash", e |-> Nil]

Then(res, Cont(_)) == IF res.r = "expr" THEN Cont(res.e) ELSE res

\* The first of several results that is none, or all of them.
Lowest(S) == CHOOSE i \in S : \A j \in S : i <= j
Highest(S) == CHOOSE i \in S : \A j \in S : j <= i
All(results, Cont(_)) ==
  LET bad == {i \in DOMAIN results : results[i].r # "expr"}
  IN  IF bad # {} THEN results[Lowest(bad)] ELSE Cont([i \in DOMAIN results |-> results[i].e])

\* The constructor asks the type set for a function, which asks for the index
\* of the result type.
MakeLambda(params, body) ==
  IF params # <<>> /\ body.type = NoType THEN Crash ELSE Done(Lambda(params, body))

\* Arguments that are no placeholder, and the first that cannot be converted.
Given(e) == e.k \notin {"nil", "hole"}
Converted(args, positions, types, Cont) ==
  LET bad == {i \in positions : args[i].type = NoType \/ ~T!Castable(args[i].type, types[i])}
  IN  IF bad = {} THEN Cont
      ELSE IF args[Lowest(bad)].type = NoType THEN Crash ELSE Error

-----------------------------------------------------------------------------
(* partialEval, one operator for every class that overrides it.  `bound'   *)
(* is LemniPartialBindingsT with its parents: parameter |-> argument.  The *)
(* types it resolves pseudo types to are never filled in, and left out.    *)

RECURSIVE PartialEval(_, _, _)

NoBindings == [p \in {} |-> Nil]
Bound(bound, e) == IF e \in DOMAIN bound THEN bound[e] ELSE e

\* LemniTypedExprT and LemniTypedUnresolvedRefExprT.
EvalOther(e, bound, args) ==
  CASE e \in DOMAIN bound -> PartialEval(bound[e], bound, args)
    [] e \notin DOMAIN bound /\ args # <<>> -> Error
    [] OTHER -> Done(e)

EvalUnary(e, bound, args) ==
  IF e.value \in DOMAIN bound
  THEN LET t == UnaryType(e.op, bound[e.value].type) IN
       IF t = NoType THEN Error
       ELSE LET new == Unary(t, e.op, bound[e.value])
            IN  IF args = <<>> THEN Done(new) ELSE PartialEval(new, bound, args)
  ELSE IF args # <<>> THEN Error ELSE Done(e)

EvalBinary(e, bound, args) ==
  LET l == IF Deref(e.lhs) \in DOMAIN bound THEN bound[Deref(e.lhs)] ELSE e.lhs
      r == IF Deref(e.rhs) \in DOMAIN bound THEN bound[Deref(e.rhs)] ELSE e.rhs
  IN  CASE args # <<>> -> Error
        [] args = <<>> /\ l = e.lhs /\ r = e.rhs -> Done(e)
        [] OTHER -> IF BinaryReadsNull(e.op, l.type, r.type) THEN Crash
                    ELSE Done(Binary(BinaryType(e.op, l.type, r.type), e.op, l, r))

\* What is left of an application whose function took some of its arguments.
Remaining(f, args) ==
  CASE args = <<>> -> Done(f)
    [] args # <<>> /\ IsFn(f.type) -> Done(App(f.type.result, f, args))
    [] args # <<>> /\ f.type = Pseudo -> Done(App(Pseudo, f, args))
    [] OTHER -> Error

\* More arguments for an application: when its type is known they are given
\* twice over.
Applied(app, args) ==
  LET known == {i \in DOMAIN args : Given(args[i])} IN
  CASE args = <<>> -> Done(app)
    [] args # <<>> /\ IsFn(app.type) ->
         LET over == {i \in known : i > Len(app.type.params)}
         IN  Converted(args, known \ over, app.type.params,
               IF over # {} THEN Crash ELSE Done(App(app.type.result, app, args \o args)))
      [] args # <<>> /\ app.type = Pseudo -> Done(App(Pseudo, app, args))
    [] OTHER -> Error

\* A lambda is made anew even where it stays the same.
RECURSIVE Renewed(_)
Renewed(e) == e.k = "lambda" \/ (e.k = "app" /\ \E i \in DOMAIN e.args : Renewed(e.args[i]))

\* The arguments that change are handed to the function, up to the last of
\* them and without the others; the others are kept for what it answers.
EvalApp(e, bound, args) ==
  All([i \in DOMAIN e.args |-> PartialEval(e.args[i], bound, <<>>)], LAMBDA new :
    LET changed == {i \in DOMAIN e.args : new[i] # e.args[i] \/ Renewed(e.args[i])}
        handed  == [i \in 1..Highest(changed) |-> IF i \in changed THEN new[i] ELSE Nil]
        kept    == SelectSeq([i \in DOMAIN e.args |-> i], LAMBDA i : i \notin changed)
    IN  IF changed = {} THEN Applied(e, args)
        ELSE Then(PartialEval(e.fn, bound, handed), LAMBDA f :
             Then(Remaining(f, [j \in DOMAIN kept |-> e.args[kept[j]]]), LAMBDA app :
                  Applied(app, args))))

\* A unit for a function without parameters.
UnitCall(arity, args) == arity = 0 /\ Len(args) = 1 /\ args[1].type = UnitType

\* A slip: as many parameters as were given are left out at the front.
StillOpenBehind(params, passed) ==
  [i \in 1..(Len(params) - Cardinality(passed)) |-> Cardinality(passed) + i]

\* The parameters that stay are looked for among the first `arity'.
StillOpen(params, passed) ==
  SelectSeq([i \in 1..(Len(params) - Cardinality(passed)) |-> i], LAMBDA i : i \notin passed)

\* A slip: a call that gives all arguments answers a function.
AllPassedNever(params, passed) == params = <<>>
AllPassed(params, passed) == passed = DOMAIN params

EvalLambda(e, bound, args) ==
  LET passed == {i \in DOMAIN e.params \cap DOMAIN args : Given(args[i])}
      types  == [i \in DOMAIN e.params |-> e.params[i].type]
      inner  == [p \in {e.params[i] : i \in passed} |->
                   args[CHOOSE i \in passed : e.params[i] = p]] @@ bound
      open   == StillOpen(e.params, passed)
  IN  IF Len(args) > Len(e.params) /\ ~UnitCall(Len(e.params), args) THEN Error
      ELSE Converted(args, passed, types,
             Then(PartialEval(e.body, inner, <<>>), LAMBDA body :
               IF AllPassed(e.params, passed) THEN Done(body)
               ELSE MakeLambda([j \in DOMAIN open |-> e.params[open[j]]], body)))

EvalDef(e, bound, args) ==
  IF args = <<>> THEN Done(e) ELSE EvalLambda(e.lambda, bound, args)

\* A slip: a skipped argument leaves no reference to its parameter.
ExtArgumentsShifted(e, args) == SelectSeq(args, LAMBDA a : a # Nil)

\* Only a null pointer is skipped, a placeholder is passed on: it is asked for
\* the class of untyped placeholders.  Arguments behind the last are none.
ExtArguments(e, args) ==
  [i \in DOMAIN args |-> IF args[i] = Nil THEN Ref(ExtParam(e, i)) ELSE args[i]]

EvalExt(e, args) ==
  LET skipped == SelectSeq([i \in DOMAIN args |-> i], LAMBDA i : args[i] = Nil)
      passed  == Len(args) - Len(skipped)
      app     == App(e.type.result, e, ExtArguments(e, args))
  IN  CASE args = <<>> -> Done(e)
        [] args # <<>> /\ Len(args) > e.arity -> IF UnitCall(e.arity, args) THEN Done(app) ELSE Error
        [] args # <<>> /\ Len(args) <= e.arity /\ passed = 0 -> Done(e)
        [] args # <<>> /\ Len(args) <= e.arity /\ passed = e.arity -> Done(app)
        [] OTHER -> MakeLambda([j \in DOMAIN skipped |-> ExtParam(e, skipped[j])], app)

PartialEval(e, bound, args) ==
  CASE e.k = "ref"    -> PartialEval(e.to, bound, args)
    [] e.k = "unary"  -> EvalUnary(e, bound, args)
    [] e.k = "binary" -> EvalBinary(e, bound, args)
    [] e.k = "app"    -> EvalApp(e, bound, args)
    [] e.k = "lambda" -> EvalLambda(e, bound, args)
    [] e.k = "def"    -> EvalDef(e, bound, args)
    [] e.k = "ext"    -> EvalExt(e, args)
    [] OTHER          -> EvalOther(e, bound, args)

\* lemniTypecheckEval: up to the last argument that is one.
TypecheckEval(e, args) ==
  LET known == {i \in DOMAIN args : Given(args[i])}
  IN  PartialEval(e, NoBindings, IF known = {} THEN <<>> ELSE SubSeq(args, 1, Highest(known)))

-----------------------------------------------------------------------------
(* Typechecking: the virtual typecheck of every expression the parser      *)
(* makes.  A source expression is a record of its form, s, and its parts.  *)
(* `c' is where it stands: the input or file and the way to it, the global *)
(* scope, and the modules that were destroyed.                             *)

Name(id) == [s |-> "name", id |-> id]
Quote(t) == [s |-> "text", text |-> t]
Underscore == [s |-> "hole"]
Round(es) == [s |-> "tuple", elems |-> es]
Commas(es) == [s |-> "list", elems |-> es]
Function(id, params, body) == [s |-> "def", id |-> id, params |-> params, body |-> body]
Prefix(op, e) == [s |-> "unary", op |-> op, value |-> e]
Infix(l, op, r) == [s |-> "binary", op |-> op, lhs |-> l, rhs |-> r]
Dot(e, id) == [s |-> "access", value |-> e, id |-> id]
Call(f, args) == [s |-> "call", fn |-> f, args |-> args]
IsImport(s) == s.s = "call" /\ s.fn = Name("import")

Place(of, scope, gone) == [of |-> of, at |-> <<>>, scope |-> scope, gone |-> gone]
Part(c, i) == [c EXCEPT !.at = Append(@, i)]

RECURSIVE Check(_, _)

Checks(es, c) == [i \in DOMAIN es |-> Check(es[i], Part(c, i))]

\* LemniRefExprT and lemniScopeFind: parameters are in no scope.
CheckName(id, c) ==
  CASE id \in {"true", "false"} -> Done(Const([kind |-> "bool", bits |-> 1,
                                               n |-> IF id = "true" THEN 1 ELSE 0]))
    [] id \in DOMAIN c.scope ->
         Done(Ref(Binding(id, Module(c.scope[id], [of |-> "host", at |-> <<>>]))))
    [] OTHER -> Done(Unresolved(id))

CheckTuple(es, c) ==
  All(Checks(es, c), LAMBDA elems :
    CASE elems = <<>> -> Done(Const([kind |-> "unit", bits |-> 0, n |-> 0]))
      [] Len(elems) = 1 -> Done(elems[1])
      [] OTHER -> IF \E i \in DOMAIN elems : elems[i].type = NoType THEN Crash
                  ELSE Done(Tuple(elems)))

CheckDef(s, c) ==
  Then(Check(s.body, Part(c, 0)), LAMBDA body :
  Then(MakeLambda([i \in DOMAIN s.params |-> Param(Pseudo, c.of, Append(c.at, i))], body),
       LAMBDA lambda : Done(Def(s.id, lambda))))

CheckUnary(s, c) ==
  Then(Check(s.value, Part(c, 1)), LAMBDA e :
    CASE e.type = NoType -> Crash
      [] e.type # NoType /\ UnaryType(s.op, e.type) = NoType -> Error
      [] OTHER -> Done(Unary(UnaryType(s.op, e.type), s.op, e)))

CheckBinary(s, c) ==
  All(Checks(<<s.lhs, s.rhs>>, c), LAMBDA e :
    CASE BinaryReadsNull(s.op, e[1].type, e[2].type) -> Crash
      [] ~BinaryReadsNull(s.op, e[1].type, e[2].type) /\
           BinaryType(s.op, e[1].type, e[2].type) = NoType -> Error
      [] OTHER -> Done(Binary(BinaryType(s.op, e[1].type, e[2].type), s.op, e[1], e[2])))

\* Only what a name is bound to has members, if it is a module; one that was
\* destroyed is read all the same.
CheckAccess(s, c) ==
  Then(Check(s.value, Part(c, 1)), LAMBDA e :
    IF Deref(e).k # "binding" \/ Deref(e).value.k # "module" THEN Error
    ELSE LET m == Deref(e).value.m IN
         CASE m \in c.gone -> Crash
           [] m \notin c.gone /\ s.id \in DOMAIN Members[m] -> Done(Ref(Members[m][s.id]))
           [] OTHER -> Error)

\* lemniLoadModule: of a module that is known, or of a file whose expressions
\* typecheck with a scope of their own.
CheckImport(s, c) ==
  IF Len(s.args) # 1 \/ s.args[1].s # "text" THEN Error
  ELSE LET m == s.args[1].text IN
       IF m \notin DOMAIN Lines THEN Error
       ELSE LET checked == Checks(Lines[m], Place(m, <<>>, c.gone))
                bad == {i \in DOMAIN checked : checked[i].r # "expr"}
            IN  IF bad = {} THEN Done(Module(m, [of |-> c.of, at |-> c.at]))
                ELSE checked[Lowest(bad)]

\* The arguments of a function are checked up to the number of parameters,
\* whether there are as many or not.
CheckArgument(s, i, type, c) ==
  IF i > Len(s.args) THEN Crash
  ELSE Then(Check(s.args[i], Part(c, i)), LAMBDA a :
         Converted(<<a>>, {1}, <<type>>, Done(a)))

\* As soon as one argument is a constant the call is evaluated with the
\* constants, and the others are dropped.
CallFunction(f, args, known) ==
  IF known = {} THEN Done(App(f.type.result, f, args))
  ELSE TypecheckEval(f, [i \in DOMAIN args |-> IF i \in known THEN args[i] ELSE Nil])

CheckCall(s, c) ==
  IF IsImport(s) THEN CheckImport(s, c)
  ELSE Then(Check(s.fn, Part(c, 0)), LAMBDA f :
    CASE IsFn(f.type) ->
           IF Len(s.args) > Len(f.type.params) THEN Error
           ELSE All([i \in DOMAIN f.type.params |-> CheckArgument(s, i, f.type.params[i], c)],
                  LAMBDA args : CallFunction(f, args, {i \in DOMAIN args : IsConstant(args[i])}))
      [] f.type = Pseudo -> All(Checks(s.args, c), LAMBDA args : Done(App(Pseudo, f, args)))
      [] OTHER -> Error)

Check(s, c) ==
  CASE s.s = "name"   -> CheckName(s.id, c)
    [] s.s = "text"   -> Done(Const([kind |-> "ascii", bits |-> 0, n |-> 0]))
    [] s.s = "hole"   -> Done(Hole)
    [] s.s = "list"   -> Error
    [] s.s = "tuple"  -> CheckTuple(s.elems, c)
    [] s.s = "def"    -> CheckDef(s, c)
    [] s.s = "unary"  -> CheckUnary(s, c)
    [] s.s = "binary" -> CheckBinary(s, c)
    [] s.s = "access" -> CheckAccess(s, c)
    [] s.s = "call"   -> CheckCall(s, c)

-----------------------------------------------------------------------------
(* A host that evaluates a function with some of its arguments, and what it *)
(* was answered with more.                                                  *)

CallInit == /\ from \in Start /\ fn = from
            /\ outcome = "expr"
            /\ given = NoBindings
            /\ calls = 0
            /\ plain = TRUE

ParamsOf(e) == CASE e.k = "def" -> e.lambda.params
                 [] e.k = "lambda" -> e.params
                 [] e.k = "ext" -> [i \in 1..e.arity |-> ExtParam(e, i)]
                 [] OTHER -> <<>>

\* Arguments that no two calls have in common, and the two ways to skip one.
Mark(i) == Const([kind |-> "bool", bits |-> 1, n |-> 10 * calls + i])
Arguments(n) == {[i \in 1..n |-> IF kinds[i] = "given" THEN Mark(i) ELSE IF kinds[i] = "nil" THEN Nil ELSE Hole] :
                   kinds \in [1..n -> {"given", "nil", "hole"}]}

\* The parameters that are skipped come first; those of a host function are
\* given or skipped with a null pointer, all at once.
KeepsRest(args) ==
  LET n == Len(ParamsOf(fn))
      passed == {i \in DOMAIN args : Given(args[i])}
  IN  CASE fn.k = "ext" -> n \in passed /\ Hole \notin ToSet(args)
        [] from.k = "def" -> passed = (n - Cardinality(passed) + 1)..n
        [] OTHER -> FALSE

CallEval(args) ==
  LET params == ParamsOf(fn)
      res == TypecheckEval(fn, args)
  IN  /\ outcome = "expr" /\ calls < MaxCalls /\ params # <<>>
      /\ fn' = res.e
      /\ outcome' = res.r
      /\ given' = [p \in {params[i] : i \in {j \in DOMAIN args : Given(args[j])}} |->
                      args[CHOOSE i \in DOMAIN args : params[i] = p]] @@ given
      /\ calls' = calls + 1
      /\ plain' = (plain /\ KeepsRest(args))
      /\ UNCHANGED from

CallNext == \E n \in 0..Len(ParamsOf(fn)) : \E args \in Arguments(n) : CallEval(args)

-----------------------------------------------------------------------------
(* What a host that gives arguments one by one relies on.                  *)

LeftOpen(e) == SelectSeq(ParamsOf(e), LAMBDA p : p \notin DOMAIN given)

\* LemniTypedLambdaExprT and LemniTypedExtFnDeclExprT: as long as the
\* arguments skipped come before those given, what is answered has the
\* parameters that are left, all of them and in their order.
SuffixGivenKeepsTheRest ==
  plain /\ outcome = "expr" => ParamsOf(fn) = LeftOpen(from)

\* The applications in an expression.
RECURSIVE Apps(_)
Apps(e) == CASE e.k = "app" -> {e} \cup Apps(e.fn) \cup UNION {Apps(e.args[i]) : i \in DOMAIN e.args}
             [] e.k = "def" -> Apps(e.lambda.body)
             [] e.k = "lambda" -> Apps(e.body)
             [] OTHER -> {}

\* However the calls went, an argument is never passed for another parameter
\* than the one it was given for: in what is answered, what is applied to a
\* parameter's place is that argument, the parameter itself or a placeholder.
ArgumentsNeverMisplaced ==
  \A app \in Apps(fn) : \A i \in DOMAIN ParamsOf(app.fn) \cap DOMAIN app.args :
    LET p == ParamsOf(app.fn)[i] IN
    p \in ToSet(ParamsOf(from)) =>
      app.args[i] \in {p, Ref(p), Hole} \cup (IF p \in DOMAIN given THEN {given[p]} ELSE {})

\* typecheck.h: fewer arguments than parameters may be passed, and arguments
\* may be skipped; each parameter that is not given an argument remains.
EverySkippedRemains ==
  outcome = "expr" => \A i \in DOMAIN LeftOpen(from) : LeftOpen(from)[i] \in ToSet(ParamsOf(fn))
=============================================================================
