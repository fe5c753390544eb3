------------------------------ MODULE Modules ------------------------------
(***************************************************************************)
(* The module map of lib/Module.cpp and the import expression of           *)
(* lib/typecheck.cpp that calls back into it: lemniLoadModule reads a      *)
(* file, lexes, parses and typechecks it, and every import met while       *)
(* typechecking is a load of its own, inside the first.                    *)
(*                                                                         *)
(* A name is the text given to lemniLoadModule.  What a file holds is      *)
(* reduced to how far it gets (`fate') and the names it imports, in order. *)
(* `stack' is the C++ call stack of the loads that are running.            *)
(***************************************************************************)
EXTENDS Integers, Sequences, FiniteSets, SequencesExt

CONSTANTS Names,       \* names the host and the files use
          Files,       \* those that are paths of files
          KeyOf,       \* parent_path / stem of every name
          Fates,       \* how far the files get
          MaxImports,  \* imports in one file
          MaxModules,  \* the host makes no call once this many are created
          MaxAliases,  \* names the host aliases
          MaxDepth,    \* loads nested when the call stack is exhausted
          NoModule

ASSUME NamesAssumption == Files \subseteq Names /\ Names \subseteq DOMAIN KeyOf
ASSUME FatesAssumption == Fates \subseteq {"good", "lex", "parse", "type"}
ASSUME BoundsAssumption == {MaxImports, MaxModules, MaxAliases, MaxDepth} \subseteq Nat
ASSUME NoModuleAssumption == NoModule \notin Nat

VARIABLES content,     \* what the files hold
          aliased, registered, mapped, loaded,
          modules,     \* every LemniModule created: its id, and the file if any
          stack,       \* the loads that run
          answer,      \* what the last load that ended answered
          host         \* the host goes on, or its stack is exhausted

vars == <<content, aliased, registered, mapped, loaded, modules, stack, answer, host>>

NoAnswer == [type |-> "none", module |-> NoModule]
Answer(m) == [type |-> "module", module |-> m]
Failure(why) == [type |-> why, module |-> NoModule]

\* An entry that is there is replaced.
Put(map, key, m) == [k \in DOMAIN map \cup {key} |-> IF k = key THEN m ELSE map[k]]

\* The handle of the module that is created next.
NewModule == Len(modules) + 1

Contents == [fate : Fates, imports : BoundedSeq(Names, MaxImports)]

Init == /\ content \in [Files -> Contents]
        \* what a file that is not parsed imports does not matter
        /\ \A f \in Files : content[f].fate \in {"lex", "parse"} => content[f].imports = <<>>
        /\ aliased = <<>> /\ registered = <<>> /\ mapped = <<>>
        /\ loaded = <<>> /\ modules = <<>>
        /\ stack = <<>>
        /\ answer = NoAnswer
        /\ host = "runs"

-----------------------------------------------------------------------------
(* The host's calls.                                                       *)

Idle == host = "runs" /\ stack = <<>>

\* lemniAliasModule
Alias(id, alias) ==
  /\ Idle /\ Cardinality(DOMAIN aliased \cup {alias}) <= MaxAliases
  /\ aliased' = Put(aliased, alias, id)
  /\ UNCHANGED <<content, registered, mapped, loaded, modules, stack, answer, host>>

\* lemniCreateModule and lemniRegisterModule: a module of the host's own; a
\* second one of the same id takes its place.
Register(id) ==
  /\ Idle /\ Len(modules) < MaxModules
  /\ modules' = Append(modules, [id |-> id, file |-> NoModule])
  /\ registered' = Put(registered, id, NewModule)
  /\ UNCHANGED <<content, aliased, mapped, loaded, stack, answer, host>>

\* A load is called: by the host, or by an import while another one runs.
Frame(id) == [id |-> id, file |-> NoModule, module |-> NoModule, next |-> 1]
Call(id) == IF Len(stack) < MaxDepth
            THEN stack' = Append(stack, Frame(id)) /\ UNCHANGED host
            ELSE stack' = <<>> /\ host' = "overflow"

Load(id) ==
  /\ Idle /\ Len(modules) < MaxModules
  /\ Call(id)
  /\ answer' = NoAnswer
  /\ UNCHANGED <<content, aliased, registered, mapped, loaded, modules>>

-----------------------------------------------------------------------------
(* The steps of the innermost load.                                        *)

Top == Last(stack)
Running == host = "runs" /\ stack # <<>>
Resolving == Running /\ Top.module = NoModule
Checking == Running /\ Top.module # NoModule /\ answer = NoAnswer

Return(a) == /\ answer' = a
             /\ stack' = Front(stack)
             /\ UNCHANGED <<content, aliased, registered, host>>

\* The alias is followed once; the id is registered under its own name first.
NameOf(id) == IF id \in DOMAIN aliased THEN aliased[id] ELSE id

RegisteredAs(id) == CASE id \in DOMAIN registered -> registered[id]
                      [] id \notin DOMAIN registered /\ NameOf(id) \in DOMAIN registered ->
                           registered[NameOf(id)]
                      [] OTHER -> NoModule

MappedNever(id) == NoModule     \* a slip
MappedAs(id) == IF KeyOf[NameOf(id)] \in DOMAIN mapped THEN mapped[KeyOf[NameOf(id)]]
                ELSE NoModule

\* The module is known.
Known ==
  /\ Resolving
  /\ LET m == IF RegisteredAs(Top.id) # NoModule THEN RegisteredAs(Top.id) ELSE MappedAs(Top.id)
     IN  m # NoModule /\ Return(Answer(m))
  /\ UNCHANGED <<mapped, loaded, modules>>

Unknown == RegisteredAs(Top.id) = NoModule /\ MappedAs(Top.id) = NoModule

\* There is no such file, or it cannot be lexed or parsed to its end.
Unreadable ==
  /\ Resolving /\ Unknown
  /\ LET file == NameOf(Top.id) IN
     \/ file \notin Files /\ Return(Failure("lex"))
     \/ /\ file \in Files /\ content[file].fate \in {"lex", "parse"}
        /\ Return(Failure(content[file].fate))
  /\ UNCHANGED <<mapped, loaded, modules>>

\* What is mapped before the module is typechecked: nothing.
MapBefore(key, m) == Put(mapped, key, m)     \* a slip
MapBeforeCheck(key, m) == mapped

\* The file is parsed: a module is created and its expressions are typechecked.
Parsed ==
  /\ Resolving /\ Unknown
  /\ LET file == NameOf(Top.id) IN
     /\ file \in Files /\ content[file].fate \in {"good", "type"}
     /\ modules' = Append(modules, [id |-> Top.id, file |-> file])
     /\ stack' = [stack EXCEPT ![Len(stack)] =
                     [id |-> Top.id, file |-> file, module |-> NewModule, next |-> 1]]
     /\ mapped' = MapBeforeCheck(KeyOf[file], NewModule)
  /\ answer' = NoAnswer
  /\ UNCHANGED <<content, aliased, registered, loaded, host>>

Imports == content[Top.file].imports

\* The next import is a load inside this one.
Import ==
  /\ Checking /\ Top.next <= Len(Imports)
  /\ Call(Imports[Top.next])
  /\ UNCHANGED <<content, aliased, registered, mapped, loaded, modules, answer>>

\* It answered a module: the typechecker goes on behind it.
ResumedBefore(frame) == frame     \* a slip
Resumed(frame) == [frame EXCEPT !.next = @ + 1]

Imported ==
  /\ Running /\ Top.module # NoModule /\ answer.type = "module"
  /\ stack' = [stack EXCEPT ![Len(stack)] = Resumed(@)]
  /\ answer' = NoAnswer
  /\ UNCHANGED <<content, aliased, registered, mapped, loaded, modules, host>>

\* It answered an error, or an expression does not typecheck: the load fails,
\* and leaves the module it created behind.
CheckFails ==
  /\ Running /\ Top.module # NoModule
  /\ \/ answer.type \in {"lex", "parse", "type"}
     \/ answer = NoAnswer /\ Top.next > Len(Imports) /\ content[Top.file].fate = "type"
  /\ Return(Failure("type"))
  /\ UNCHANGED <<mapped, loaded, modules>>

\* Every expression typechecks: the module is kept and can be found.
Checked ==
  /\ Checking /\ Top.next > Len(Imports) /\ content[Top.file].fate = "good"
  /\ loaded' = Append(loaded, Top.module)
  /\ mapped' = Put(mapped, KeyOf[Top.file], Top.module)
  /\ Return(Answer(Top.module))
  /\ UNCHANGED modules

Step == Known \/ Unreadable \/ Parsed \/ Import \/ Imported \/ CheckFails \/ Checked

Next == \/ \E id, alias \in Names : Alias(id, alias)
        \/ \E id \in Names : Register(id) \/ Load(id)
        \/ Step

Spec == Init /\ [][Next]_vars
\* A load is a plain function call: its steps follow one another.
LoadSpec == Spec /\ WF_vars(Step)

-----------------------------------------------------------------------------
(* Files that do not import one another in a circle, whatever names the    *)
(* host has aliased, by the key they are mapped under.                     *)

ImportedKeys(f) == {KeyOf[NameOf(n)] : n \in ToSet(content[f].imports)}
ReachableKeys[n \in 0..Cardinality(Files)] ==
  [f \in Files |->
     IF n = 0 THEN ImportedKeys(f)
     ELSE ReachableKeys[n - 1][f] \cup
            UNION {ReachableKeys[n - 1][g] : g \in {g \in Files : KeyOf[g] \in ImportedKeys(f)}}]

NoCircle == \A f \in Files : KeyOf[f] \notin ReachableKeys[Cardinality(Files)][f]

-----------------------------------------------------------------------------
(* What the module map owes the host.                                      *)

\* The modules the host created itself.
HostsOwn == {m \in DOMAIN modules : modules[m].file = NoModule}

\* A module that is found by its key is finished: it was typechecked to its
\* end and is owned by the map; one that failed is never found again.  What a
\* load answers is such a module, or one of the host's own.
FoundModulesFinished ==
  /\ \A k \in DOMAIN mapped : mapped[k] \in ToSet(loaded)
  /\ answer.type = "module" => answer.module \in ToSet(loaded) \cup HostsOwn

\* What a key once found, it finds for ever: a module that importers hold is
\* never replaced by another.
MappingsStay ==
  [][\A k \in DOMAIN mapped : k \in DOMAIN mapped' /\ mapped'[k] = mapped[k]]_vars

\* A load of files without circular imports returns to the host, whatever the
\* host has aliased and registered and whichever of the files are in error.
EveryLoadReturns == stack # <<>> /\ NoCircle ~> (stack = <<>> /\ host = "runs")

\* Module.h documents a load by the handle it returns: whatever files import
\* whatever, a load that was called returns.
LoadReturnsAHandle == stack # <<>> ~> (stack = <<>> /\ host = "runs")

=============================================================================
