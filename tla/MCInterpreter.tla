--------------------------- MODULE MCInterpreter ---------------------------
(***************************************************************************)
(* Small instances for TLC of what the interpreter is made of: Calls,      *)
(* Session, TypeSet and Scope.  They share no state: from the common       *)
(* initial state either a host evaluates a function with some of its       *)
(* arguments, or a session goes on, or types are asked for, or names are   *)
(* bound.                                                                  *)
(***************************************************************************)
EXTENDS Session, Scope, MCTypeSet

CONSTANTS x, y, z       \* names that are alike

\* The interpreter's module, and one of a host with functions on truth values.
Both == Ext("both", <<Bool, Bool>>, Bool)
Three == Ext("three", <<Bool, Bool, Bool>>, Bool)
MCMembers ==
    "Repl" :> [help |-> Ext("help", <<>>, UnitType), quit |-> Ext("quit", <<>>, Bottom),
               showTypes |-> Ext("showTypes", <<Bool>>, UnitType)]
    @@ "Lib" :> [both |-> Both]
    @@ [m \in {"plain", "nested", "host", "failing"} |-> <<>>]
MCAliases == [m \in {"Repl", "Lib"} |-> m]

True == Name("true")
False == Name("false")
NotTrue == Prefix("not", True)
Import(m) == Call(Name("import"), <<Quote(m)>>)
MCLines ==
    [m \in {"Repl", "Lib"} |-> <<>>]
    @@ "plain" :> <<NotTrue, Round(<<True, False>>)>>
    @@ "nested" :> <<Import("plain")>>
    @@ "host" :> <<Import("Repl")>>
    @@ "failing" :> <<True, Name("nope")>>

\* A function of the host of three parameters, and definitions of three and
\* four.
DefOf(params, body) == Check(Function("f", params, body), Place("start", MCAliases, {})).e
MCStart == {Three, DefOf(<<"x", "y", "z">>, Call(Dot(Name("Lib"), "both"), <<NotTrue, NotTrue>>)),
            DefOf(<<"x", "y", "z", "w">>, Name("x"))}

Help == Dot(Name("Repl"), "help")
ShowTypes(e) == Call(Dot(Name("Repl"), "showTypes"), <<e>>)
BothOf(args) == Call(Dot(Name("Lib"), "both"), args)
\* A definition called at once, with a constant or not.
At_(body, arg) == Call(Function("f", <<"x">>, body), <<arg>>)
Nested(body, arg) == Call(At_(Function("g", <<"y">>, body), arg), <<arg>>)

MCInputs ==
    {<<Import(m)>> : m \in {"plain", "nested", "host", "failing", "Repl", "none"}}
    \cup {<<Call(Help, <<Round(<<>>)>>)>>, <<ShowTypes(NotTrue), Name("Repl")>>,
          <<Call(Dot(Name("Repl"), "quit"), <<Round(<<>>)>>)>>,
          <<BothOf(<<True, True>>), BothOf(<<NotTrue, NotTrue>>)>>,
          <<BothOf(<<NotTrue, True>>)>>, <<BothOf(<<True, False>>)>>, <<BothOf(<<True>>)>>,
          <<At_(Name("Repl"), NotTrue), At_(NotTrue, True)>>, <<At_(Name("nope"), NotTrue)>>,
          <<Nested(Name("Lib"), NotTrue)>>, <<Nested(NotTrue, NotTrue)>>, <<Nested(Name("Lib"), True)>>,
          <<Round(<<Name("Repl"), True, Function("f", <<"x">>, True)>>)>>,
          <<True, Infix(NotTrue, "and", Name("nope"))>>, <<Prefix("not", Infix(True, "eq", NotTrue))>>,
          <<Infix(True, "lt", False)>>, <<Function("main", <<>>, True)>>,
          <<Quote("text"), Prefix("neg", True)>>, <<Commas(<<True, False>>)>>}

AllInit == CallInit /\ SessionInit /\ SetInit /\ ScopeInit
AtCalls == calls = 0
AtSession == entered = 0 /\ ~lasting
AtSet == stack = <<>> /\ Len(infos) = Cardinality(Abstract)
AtScope == made = 0 /\ Len(chain) = 1
AllNext ==
    \/ AtSession /\ AtSet /\ AtScope /\ CallNext
         /\ UNCHANGED <<sessionVars, setVars, scopeVars>>
    \/ AtCalls /\ from = Three /\ AtSet /\ AtScope /\ SessionNext
         /\ UNCHANGED <<callVars, setVars, scopeVars>>
    \/ AtCalls /\ from = Three /\ AtSession /\ AtScope /\ SetNext
         /\ UNCHANGED <<callVars, sessionVars, scopeVars>>
    \/ AtCalls /\ from = Three /\ AtSession /\ AtSet /\ ScopeNext
         /\ UNCHANGED <<callVars, sessionVars, setVars>>
AllSpec == AllInit /\ [][AllNext]_<<callVars, sessionVars, setVars, scopeVars>> /\ WF_setVars(Step)
=============================================================================
