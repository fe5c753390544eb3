---------------------------- MODULE ModulesProofs ----------------------------
(***************************************************************************)
(* What lemniLoadModule finds and answers is finished, for any names,      *)
(* files, aliases and depth of imports.                                    *)
(***************************************************************************)
EXTENDS Modules, SequenceTheorems, TLAPS

\* A load before and after its file is parsed.
Resolvings == [id : Names, file : {NoModule}, module : {NoModule}, next : {1}]
Checkings == [id : Names, file : Files, module : Nat, next : Nat \ {0}]
Frames == Resolvings \cup Checkings

TypeOK ==
  /\ content \in [Files -> Contents]
  /\ loaded \in Seq(Nat)
  /\ modules \in Seq([id : Names, file : Files \cup {NoModule}])
  /\ stack \in Seq(Frames)
  /\ host \in {"runs", "overflow"}
  /\ answer \in [type : {"none", "module", "lex", "parse", "type"}, module : Nat \cup {NoModule}]

\* What is registered is a module of the host's own, even if another one of
\* the same id took its place.
OwnRegistered == \A id \in DOMAIN registered : registered[id] \in HostsOwn

IInv == TypeOK /\ OwnRegistered /\ FoundModulesFinished

-----------------------------------------------------------------------------
(* Frames and handles.                                                     *)

\* The innermost load is one of those that run.
LEMMA TopIsFrame ==
  ASSUME TypeOK, stack # <<>>
  PROVE  /\ Len(stack) \in Nat /\ Len(stack) >= 1
         /\ Top = stack[Len(stack)]
         /\ Top \in Frames
<1>1. /\ stack \in Seq(Frames) /\ Len(stack) \in Nat /\ DOMAIN stack = 1..Len(stack)
  BY DEF TypeOK
<1>2. Len(stack) >= 1
  BY <1>1
<1>3. Len(stack) \in DOMAIN stack
  BY <1>1, <1>2
<1>4. Top = stack[Len(stack)]
  BY DEF Top, Last
<1> QED BY <1>1, <1>2, <1>3, <1>4

\* What is in a sequence stays in it when it grows, and so does what is added.
LEMMA AppendKeeps ==
  ASSUME NEW S, NEW s \in Seq(S), NEW e \in S
  PROVE  /\ ToSet(s) \subseteq ToSet(Append(s, e))
         /\ e \in ToSet(Append(s, e))
<1>1. /\ DOMAIN s = 1..Len(s) /\ DOMAIN Append(s, e) = 1..(Len(s) + 1) /\ Len(s) \in Nat
      /\ \A i \in 1..Len(s) : Append(s, e)[i] = s[i]
      /\ Append(s, e)[Len(s) + 1] = e
  OBVIOUS
<1>2. Len(s) + 1 \in DOMAIN Append(s, e)
  BY <1>1
<1>3. \A i \in DOMAIN s : i \in DOMAIN Append(s, e) /\ Append(s, e)[i] = s[i]
  BY <1>1
<1> QED BY <1>1, <1>2, <1>3 DEF ToSet

\* A module that is created takes no handle from another.
LEMMA CreatedIsNew ==
  ASSUME TypeOK, NEW m \in [id : Names, file : Files \cup {NoModule}],
         modules' = Append(modules, m)
  PROVE  /\ modules' \in Seq([id : Names, file : Files \cup {NoModule}])
         /\ NewModule \in Nat
         /\ HostsOwn \subseteq HostsOwn'
         /\ m.file = NoModule => NewModule \in HostsOwn'
<1>1. /\ Len(modules) \in Nat /\ DOMAIN modules = 1..Len(modules)
      /\ DOMAIN modules' = 1..(Len(modules) + 1)
      /\ \A i \in 1..Len(modules) : modules'[i] = modules[i]
      /\ modules'[Len(modules) + 1] = m
      /\ modules' \in Seq([id : Names, file : Files \cup {NoModule}])
  BY DEF TypeOK
<1>2. \A i \in DOMAIN modules : i \in DOMAIN modules' /\ modules'[i] = modules[i]
  BY <1>1
<1>3. Len(modules) + 1 \in DOMAIN modules'
  BY <1>1
<1> QED BY <1>1, <1>2, <1>3 DEF HostsOwn, NewModule

\* A call adds a frame, or exhausts the stack.
LEMMA CallTypes ==
  ASSUME TypeOK, NEW id \in Names, Call(id)
  PROVE  stack' \in Seq(Frames) /\ host' \in {"runs", "overflow"}
<1>1. Frame(id) \in Frames
  BY DEF Frame, Frames, Resolvings
<1>2. stack \in Seq(Frames) /\ host \in {"runs", "overflow"}
  BY DEF TypeOK
<1>3. CASE Len(stack) < MaxDepth
  BY <1>1, <1>2, <1>3 DEF Call
<1>4. CASE ~(Len(stack) < MaxDepth)
  BY <1>4 DEF Call
<1> QED BY <1>3, <1>4

\* What a load answers leaves the stack of the others.
LEMMA ReturnTypes ==
  ASSUME TypeOK, stack # <<>>,
         NEW a \in [type : {"none", "module", "lex", "parse", "type"}, module : Nat \cup {NoModule}],
         Return(a)
  PROVE  /\ stack' \in Seq(Frames) /\ answer' = a /\ host' = host /\ content' = content
         /\ registered' = registered
<1>1. stack \in Seq(Frames) /\ Len(stack) \in Nat /\ Len(stack) >= 1
  BY TopIsFrame DEF TypeOK
<1>2. SubSeq(stack, 1, Len(stack) - 1) \in Seq(Frames)
  BY <1>1
<1> QED BY <1>2 DEF Return, Front

-----------------------------------------------------------------------------
(* The host's calls.                                                       *)

LEMMA InitEstablishes == Init => IInv
<1> SUFFICES ASSUME Init PROVE IInv
  OBVIOUS
<1>1. TypeOK
  BY DEF Init, TypeOK, NoAnswer
<1>2. OwnRegistered /\ FoundModulesFinished
  BY DEF Init, OwnRegistered, FoundModulesFinished, NoAnswer
<1> QED BY <1>1, <1>2 DEF IInv

LEMMA RegisterPreserves ==
  ASSUME IInv, NEW id \in Names, Register(id)
  PROVE  IInv'
<1>1. [id |-> id, file |-> NoModule] \in [id : Names, file : Files \cup {NoModule}]
  OBVIOUS
<1>2. modules' = Append(modules, [id |-> id, file |-> NoModule])
  BY DEF Register
<1>3. /\ modules' \in Seq([id : Names, file : Files \cup {NoModule}])
      /\ HostsOwn \subseteq HostsOwn' /\ NewModule \in HostsOwn'
  BY <1>1, <1>2, CreatedIsNew DEF IInv
<1>4. TypeOK'
  BY <1>3 DEF IInv, TypeOK, Register
<1>5. OwnRegistered'
  BY <1>3 DEF IInv, OwnRegistered, Register, Put
<1>6. FoundModulesFinished'
  BY <1>3 DEF IInv, FoundModulesFinished, Register
<1> QED BY <1>4, <1>5, <1>6 DEF IInv

LEMMA AliasPreserves ==
  ASSUME IInv, NEW id, NEW alias, Alias(id, alias)
  PROVE  IInv'
BY DEF IInv, TypeOK, OwnRegistered, FoundModulesFinished, HostsOwn, Alias

LEMMA LoadPreserves ==
  ASSUME IInv, NEW id \in Names, Load(id)
  PROVE  IInv'
<1>1. stack' \in Seq(Frames) /\ host' \in {"runs", "overflow"}
  BY CallTypes DEF IInv, Load
<1>2. TypeOK'
  BY <1>1 DEF IInv, TypeOK, Load, NoAnswer
<1>3. OwnRegistered' /\ FoundModulesFinished'
  BY DEF IInv, OwnRegistered, FoundModulesFinished, HostsOwn, Load, NoAnswer
<1> QED BY <1>2, <1>3 DEF IInv

-----------------------------------------------------------------------------
(* The steps of a load.                                                    *)

LEMMA KnownPreserves ==
  ASSUME IInv, Known
  PROVE  IInv'
<1>1. stack # <<>> /\ TypeOK
  BY DEF Known, Resolving, Running, IInv
<1>2. PICK m : /\ m = IF RegisteredAs(Top.id) # NoModule THEN RegisteredAs(Top.id)
                      ELSE MappedAs(Top.id)
               /\ m # NoModule /\ Return(Answer(m))
  BY DEF Known
<1>3. m \in ToSet(loaded) \cup HostsOwn
  BY <1>2 DEF RegisteredAs, MappedAs, IInv, OwnRegistered, FoundModulesFinished
<1>4. m \in Nat
  <2>1. loaded \in Seq(Nat) /\ DOMAIN modules = 1..Len(modules) /\ Len(modules) \in Nat
    BY <1>1 DEF TypeOK
  <2>2. ToSet(loaded) \subseteq Nat
    BY <2>1 DEF ToSet
  <2>3. HostsOwn \subseteq Nat
    BY <2>1 DEF HostsOwn
  <2> QED BY <1>3, <2>2, <2>3
<1>5. Answer(m) \in [type : {"none", "module", "lex", "parse", "type"}, module : Nat \cup {NoModule}]
  BY <1>4 DEF Answer
<1>6. /\ stack' \in Seq(Frames) /\ answer' = Answer(m) /\ host' = host
      /\ content' = content /\ registered' = registered
  BY <1>1, <1>2, <1>5, ReturnTypes
<1>7. UNCHANGED <<mapped, loaded, modules>>
  BY DEF Known
<1>8. TypeOK'
  BY <1>1, <1>5, <1>6, <1>7 DEF TypeOK
<1>9. OwnRegistered'
  BY <1>6, <1>7 DEF IInv, OwnRegistered, HostsOwn
<1>10. FoundModulesFinished'
  BY <1>3, <1>6, <1>7 DEF IInv, FoundModulesFinished, HostsOwn, Answer
<1> QED BY <1>8, <1>9, <1>10 DEF IInv

\* A load that fails changes nothing but the stack and the answer.
LEMMA FailurePreserves ==
  ASSUME IInv, stack # <<>>, NEW why \in {"lex", "parse", "type"}, Return(Failure(why)),
         UNCHANGED <<mapped, loaded, modules>>
  PROVE  IInv'
<1>1. Failure(why) \in [type : {"none", "module", "lex", "parse", "type"}, module : Nat \cup {NoModule}]
  BY DEF Failure
<1>2. /\ stack' \in Seq(Frames) /\ answer' = Failure(why) /\ host' = host
      /\ content' = content /\ registered' = registered
  BY <1>1, ReturnTypes DEF IInv
<1>3. TypeOK'
  BY <1>1, <1>2 DEF IInv, TypeOK
<1>4. OwnRegistered' /\ FoundModulesFinished'
  BY <1>2 DEF IInv, OwnRegistered, FoundModulesFinished, HostsOwn, Failure
<1> QED BY <1>3, <1>4 DEF IInv

LEMMA UnreadablePreserves ==
  ASSUME IInv, Unreadable
  PROVE  IInv'
<1>1. stack # <<>> /\ UNCHANGED <<mapped, loaded, modules>>
  BY DEF Unreadable, Resolving, Running
<1>2. PICK why \in {"lex", "parse"} : Return(Failure(why))
  BY DEF Unreadable
<1> QED BY <1>1, <1>2, FailurePreserves

LEMMA CheckFailsPreserves ==
  ASSUME IInv, CheckFails
  PROVE  IInv'
BY FailurePreserves DEF CheckFails, Running

\* The innermost frame is changed in place.
LEMMA TopChanged ==
  ASSUME TypeOK, stack # <<>>, NEW f \in Frames, stack' = [stack EXCEPT ![Len(stack)] = f]
  PROVE  stack' \in Seq(Frames)
<1>1. stack \in Seq(Frames) /\ Len(stack) \in 1..Len(stack)
  BY TopIsFrame DEF TypeOK
<1> QED BY <1>1

LEMMA ParsedPreserves ==
  ASSUME IInv, Parsed
  PROVE  IInv'
<1> DEFINE file == NameOf(Top.id)
<1>1. stack # <<>> /\ TypeOK
  BY DEF Parsed, Resolving, Running, IInv
<1>2. file \in Files /\ modules' = Append(modules, [id |-> Top.id, file |-> file])
  BY DEF Parsed
<1>3. Top \in Frames
  BY <1>1, TopIsFrame
<1>4. [id |-> Top.id, file |-> file] \in [id : Names, file : Files \cup {NoModule}]
  BY <1>2, <1>3 DEF Frames, Resolvings, Checkings
<1>5. /\ modules' \in Seq([id : Names, file : Files \cup {NoModule}])
      /\ NewModule \in Nat /\ HostsOwn \subseteq HostsOwn'
  BY <1>1, <1>2, <1>4, CreatedIsNew
<1>6. stack' \in Seq(Frames)
  <2> DEFINE frame == [id |-> Top.id, file |-> file, module |-> NewModule, next |-> 1]
  <2>1. stack' = [stack EXCEPT ![Len(stack)] = frame]
    BY DEF Parsed
  <2>2. Top.id \in Names
    BY <1>3 DEF Frames, Resolvings, Checkings
  <2>3. frame \in Frames
    BY <1>2, <1>5, <2>2 DEF Frames, Checkings
  <2> QED BY <1>1, <2>1, <2>3, TopChanged
<1>7. UNCHANGED <<content, registered, mapped, loaded, host>> /\ answer' = NoAnswer
  BY DEF Parsed, MapBeforeCheck
<1>8. TypeOK'
  BY <1>1, <1>5, <1>6, <1>7 DEF TypeOK, NoAnswer
<1>9. OwnRegistered' /\ FoundModulesFinished'
  BY <1>5, <1>7 DEF IInv, OwnRegistered, FoundModulesFinished, NoAnswer
<1> QED BY <1>8, <1>9 DEF IInv

LEMMA ImportPreserves ==
  ASSUME IInv, Import
  PROVE  IInv'
<1>1. stack # <<>> /\ TypeOK /\ Top.module # NoModule /\ Call(Imports[Top.next])
  BY DEF Import, Checking, Running, IInv
<1>2. stack' \in Seq(Frames) /\ host' \in {"runs", "overflow"}
  <2>1. Top \in Checkings
    BY <1>1, TopIsFrame DEF Frames, Resolvings
  <2>2. content[Top.file] \in Contents
    BY <1>1, <2>1 DEF TypeOK, Checkings
  <2>3. PICK n \in 0..MaxImports : Imports \in [1..n -> Names]
    BY <2>2 DEF Imports, Contents, BoundedSeq, SeqOf
  <2>4. Top.next \in 1..n
    BY <2>1, <2>3, BoundsAssumption DEF Import, Checkings
  <2> QED BY <1>1, <2>3, <2>4, CallTypes
<1>3. TypeOK'
  BY <1>2 DEF IInv, TypeOK, Import
<1>4. OwnRegistered' /\ FoundModulesFinished'
  BY DEF IInv, OwnRegistered, FoundModulesFinished, HostsOwn, Import
<1> QED BY <1>3, <1>4 DEF IInv

LEMMA ImportedPreserves ==
  ASSUME IInv, Imported
  PROVE  IInv'
<1>1. stack # <<>> /\ TypeOK
  BY DEF Imported, Running, IInv
<1>2. stack' \in Seq(Frames)
  <2>1. stack[Len(stack)] = Top /\ Top \in Checkings
    BY <1>1, TopIsFrame DEF Imported, Frames, Resolvings
  <2>2. stack' = [stack EXCEPT ![Len(stack)] = Resumed(Top)]
    BY <2>1 DEF Imported
  <2>3. Resumed(Top) \in Frames
    BY <2>1 DEF Resumed, Frames, Checkings
  <2> QED BY <1>1, <2>2, <2>3, TopChanged
<1>3. TypeOK'
  BY <1>1, <1>2 DEF TypeOK, Imported, NoAnswer
<1>4. OwnRegistered' /\ FoundModulesFinished'
  BY DEF IInv, OwnRegistered, FoundModulesFinished, HostsOwn, Imported, NoAnswer
<1> QED BY <1>3, <1>4 DEF IInv

\* A module is entered in the map in the step that finishes it.
LEMMA CheckedPreserves ==
  ASSUME IInv, Checked
  PROVE  IInv'
<1>1. stack # <<>> /\ TypeOK /\ Top.module # NoModule
  BY DEF Checked, Checking, Running, IInv
<1>2. Top.module \in Nat
  BY <1>1, TopIsFrame DEF Frames, Resolvings, Checkings
<1>3. /\ loaded' = Append(loaded, Top.module)
      /\ mapped' = Put(mapped, KeyOf[Top.file], Top.module)
      /\ Return(Answer(Top.module)) /\ UNCHANGED modules
  BY DEF Checked
<1>4. ToSet(loaded) \subseteq ToSet(loaded') /\ Top.module \in ToSet(loaded') /\ loaded' \in Seq(Nat)
  <2>1. loaded \in Seq(Nat)
    BY <1>1 DEF TypeOK
  <2> QED BY <1>2, <1>3, <2>1, AppendKeeps
<1>5. Answer(Top.module)
        \in [type : {"none", "module", "lex", "parse", "type"}, module : Nat \cup {NoModule}]
  BY <1>2 DEF Answer
<1>6. /\ stack' \in Seq(Frames) /\ answer' = Answer(Top.module) /\ host' = host
      /\ content' = content /\ registered' = registered
  BY <1>1, <1>3, <1>5, ReturnTypes
<1>7. TypeOK'
  BY <1>1, <1>3, <1>4, <1>5, <1>6 DEF TypeOK
<1>8. OwnRegistered'
  BY <1>3, <1>6 DEF IInv, OwnRegistered, HostsOwn
<1>9. FoundModulesFinished'
  BY <1>3, <1>4, <1>6 DEF IInv, FoundModulesFinished, HostsOwn, Answer, Put
<1> QED BY <1>7, <1>8, <1>9 DEF IInv

-----------------------------------------------------------------------------
(* The theorems.                                                           *)

LEMMA NextPreserves ==
  ASSUME IInv, [Next]_vars
  PROVE  IInv'
<1>1. CASE \E id, alias \in Names : Alias(id, alias)
  BY <1>1, AliasPreserves
<1>2. CASE \E id \in Names : Register(id) \/ Load(id)
  BY <1>2, RegisterPreserves, LoadPreserves
<1>3. CASE Step
  BY <1>3, KnownPreserves, UnreadablePreserves, ParsedPreserves, ImportPreserves,
     ImportedPreserves, CheckFailsPreserves, CheckedPreserves DEF Step
<1>4. CASE UNCHANGED vars
  BY <1>4 DEF vars, IInv, TypeOK, OwnRegistered, FoundModulesFinished, HostsOwn
<1> QED BY <1>1, <1>2, <1>3, <1>4 DEF Next

\* What is found by a key is finished, and what is registered is the host's:
\* together they are inductive.
THEOREM InductiveInvariant == Spec => []IInv
<1>1. Init => IInv
  BY InitEstablishes
<1>2. IInv /\ [Next]_vars => IInv'
  BY NextPreserves
<1> QED BY <1>1, <1>2, PTL DEF Spec

\* lemniLoadModule never finds or answers a module whose expressions were not
\* typechecked to their end, unless the host made it.
THEOREM FoundAlwaysFinished == Spec => []FoundModulesFinished
<1>1. IInv => FoundModulesFinished
  BY DEF IInv
<1> QED BY <1>1, InductiveInvariant, PTL

-----------------------------------------------------------------------------
(* No mapping is replaced, as long as no two files share a key: the file   *)
(* that ends cannot be one that an outer load waits for, since that one    *)
(* waits for an import that the inner load would have had to get behind.   *)

DistinctKeys == \A f, g \in Files : KeyOf[f] = KeyOf[g] => f = g

\* Names that a load is answered for without reading a file, and the paths of
\* the names.
Found == {id \in Names : \/ id \in DOMAIN registered \/ NameOf(id) \in DOMAIN registered
                        \/ KeyOf[NameOf(id)] \in DOMAIN mapped}
Paths == [id \in Names |-> NameOf(id)]

\* A load that typechecks a file that cannot be found yet, behind imports that
\* can.
FrameSound(f, found, paths, cont) ==
  f.module # NoModule =>
    /\ f.file = paths[f.id] /\ f.file \in Files /\ f.id \notin found
    /\ \A j \in DOMAIN cont[f.file].imports : j < f.next => cont[f.file].imports[j] \in found

\* It waits for the load of one of its imports.
WaitsFor(f, id, cont) ==
  /\ f.module # NoModule /\ f.next \in DOMAIN cont[f.file].imports
  /\ id = cont[f.file].imports[f.next]

StackSound ==
  /\ \A i \in DOMAIN stack : FrameSound(stack[i], Found, Paths, content)
  /\ \A i \in DOMAIN stack : i + 1 \in DOMAIN stack => WaitsFor(stack[i], stack[i + 1].id, content)
  /\ answer.type = "module" /\ stack # <<>> =>
       \E id \in Found : WaitsFor(stack[Len(stack)], id, content)

\* What may be imported, in order.
LEMMA ImportsType ==
  ASSUME TypeOK, NEW f \in Files
  PROVE  \E n \in Nat : content[f].imports \in [1..n -> Names]
                       /\ Len(content[f].imports) = n
<1>1. content[f] \in Contents
  BY DEF TypeOK
<1>2. PICK n \in 0..MaxImports : content[f].imports \in [1..n -> Names]
  BY <1>1 DEF Contents, BoundedSeq, SeqOf
<1>3. n \in Nat
  BY BoundsAssumption
<1> QED BY <1>2, <1>3

\* What is not known cannot be found.
LEMMA UnknownIsNotFound ==
  ASSUME IInv, stack # <<>>, Unknown
  PROVE  Top.id \notin Found
<1>1. ASSUME NEW id \in DOMAIN registered PROVE registered[id] # NoModule
  <2>1. registered[id] \in DOMAIN modules /\ DOMAIN modules = 1..Len(modules)
    BY DEF IInv, TypeOK, OwnRegistered, HostsOwn
  <2> QED BY <2>1, NoModuleAssumption
<1>2. ASSUME NEW k \in DOMAIN mapped PROVE mapped[k] # NoModule
  <2>1. mapped[k] \in ToSet(loaded) /\ loaded \in Seq(Nat)
    BY DEF IInv, TypeOK, FoundModulesFinished
  <2> QED BY <2>1, NoModuleAssumption DEF ToSet
<1> QED BY <1>1, <1>2 DEF Unknown, RegisteredAs, MappedAs, Found

\* The innermost load leaves the stack.
LEMMA ReturnPops ==
  ASSUME TypeOK, stack # <<>>, NEW a, Return(a)
  PROVE  /\ DOMAIN stack = 1..Len(stack) /\ Len(stack) \in Nat /\ Len(stack) >= 1
         /\ DOMAIN stack' = 1..(Len(stack) - 1)
         /\ \A i \in DOMAIN stack' : i \in DOMAIN stack /\ stack'[i] = stack[i]
         /\ stack' # <<>> => Len(stack') = Len(stack) - 1 /\ Len(stack) - 1 \in DOMAIN stack'
<1> DEFINE n == Len(stack) - 1
<1>1. stack \in Seq(Frames) /\ Len(stack) \in Nat /\ Len(stack) >= 1 /\ n \in Nat
  BY TopIsFrame DEF TypeOK
<1>2. stack' = SubSeq(stack, 1, n)
  BY DEF Return, Front
<1>3. SubSeq(stack, 1, n) = [i \in 1..n |-> stack[i]]
  BY <1>1
<1>4. DOMAIN stack' = 1..n /\ \A i \in 1..n : stack'[i] = stack[i]
  BY <1>2, <1>3
<1>5. Len(stack') = n
  <2>1. Len([i \in 1..n |-> stack[i]]) = n
    BY <1>1
  <2> QED BY <1>2, <1>3, <2>1
<1>6. stack' # <<>> => n >= 1
  BY <1>1, <1>2
<1> QED BY <1>1, <1>4, <1>5, <1>6

\* When a load returns, what is found stays found, and nothing that another
\* load typechecks is found by it.
LEMMA PopSound ==
  ASSUME IInv, StackSound, stack # <<>>, NEW a, Return(a), Found \subseteq Found',
         a.type = "module" => Top.id \in Found',
         \A i \in DOMAIN stack' : stack[i].module # NoModule => stack[i].id \notin Found'
  PROVE  StackSound'
<1>1. Paths' = Paths /\ content' = content /\ answer' = a
  BY DEF Paths, NameOf, Return
<1>2. /\ DOMAIN stack = 1..Len(stack) /\ Len(stack) \in Nat /\ Len(stack) >= 1
      /\ DOMAIN stack' = 1..(Len(stack) - 1)
      /\ \A i \in DOMAIN stack' : i \in DOMAIN stack /\ stack'[i] = stack[i]
      /\ stack' # <<>> => Len(stack') = Len(stack) - 1 /\ Len(stack) - 1 \in DOMAIN stack'
  BY ReturnPops DEF IInv
<1>3. \A i \in DOMAIN stack' : i \in DOMAIN stack /\ stack'[i] = stack[i]
  BY ReturnPops DEF IInv
<1>4. ASSUME NEW i \in DOMAIN stack' PROVE FrameSound(stack'[i], Found', Paths', content')
  BY <1>1, <1>3 DEF StackSound, FrameSound
<1>5. ASSUME NEW i \in DOMAIN stack', i + 1 \in DOMAIN stack'
      PROVE  WaitsFor(stack'[i], stack'[i + 1].id, content')
  BY <1>1, <1>3, <1>5 DEF StackSound
<1>6. ASSUME a.type = "module", stack' # <<>>
      PROVE  WaitsFor(stack'[Len(stack')], Top.id, content)
  <2>1. Len(stack') = Len(stack) - 1 /\ Len(stack) - 1 \in DOMAIN stack'
    BY <1>2, <1>6
  <2>2. /\ Len(stack) - 1 \in DOMAIN stack /\ (Len(stack) - 1) + 1 = Len(stack)
        /\ Len(stack) \in DOMAIN stack
    BY <1>2, <2>1
  <2>3. WaitsFor(stack[Len(stack) - 1], stack[Len(stack)].id, content)
    BY <2>2 DEF StackSound
  <2>4. Top = stack[Len(stack)]
    BY TopIsFrame DEF IInv
  <2> QED BY <1>2, <2>1, <2>3, <2>4
<1>7. answer'.type = "module" /\ stack' # <<>> =>
        \E id \in Found' : WaitsFor(stack'[Len(stack')], id, content')
  BY <1>1, <1>6
<1> QED BY <1>4, <1>5, <1>7 DEF StackSound

LEMMA ReturnSound ==
  ASSUME IInv, StackSound, stack # <<>>, NEW a, Return(a), UNCHANGED mapped,
         a.type = "module" => Top.id \in Found
  PROVE  StackSound'
<1>1. Found' = Found
  BY DEF Found, NameOf, Return
<1>2. \A i \in DOMAIN stack' : stack[i].module # NoModule => stack[i].id \notin Found'
  BY <1>1, ReturnPops DEF StackSound, FrameSound, IInv
<1> QED BY <1>1, <1>2, PopSound

LEMMA KnownSound ==
  ASSUME IInv, StackSound, Known
  PROVE  StackSound'
<1>1. stack # <<>> /\ UNCHANGED mapped
  BY DEF Known, Resolving, Running
<1>2. Top.id \in Names
  BY <1>1, TopIsFrame DEF IInv, Frames, Resolvings, Checkings
<1>3. PICK m : Return(Answer(m))
  BY DEF Known
<1>4. ~Unknown
  BY DEF Known, Unknown
<1>5. Top.id \in Found
  BY <1>2, <1>4 DEF Unknown, RegisteredAs, MappedAs, Found
<1> QED BY <1>1, <1>3, <1>5, ReturnSound

LEMMA FailureSound ==
  ASSUME IInv, StackSound, Unreadable \/ CheckFails
  PROVE  StackSound'
<1>1. stack # <<>> /\ UNCHANGED mapped
  BY DEF Unreadable, CheckFails, Resolving, Running
<1>2. PICK why \in {"lex", "parse", "type"} : Return(Failure(why))
  BY DEF Unreadable, CheckFails
<1>3. Failure(why).type # "module"
  BY DEF Failure
<1> QED BY <1>1, <1>2, <1>3, ReturnSound

\* The innermost load goes on.
LEMMA TopSound ==
  ASSUME IInv, StackSound, stack # <<>>, NEW f, f.id = Top.id,
         stack' = [stack EXCEPT ![Len(stack)] = f], answer' = NoAnswer,
         UNCHANGED <<content, aliased, registered, mapped>>,
         FrameSound(f, Found, Paths, content)
  PROVE  StackSound'
<1>1. Found' = Found /\ Paths' = Paths /\ content' = content /\ answer'.type # "module"
  BY DEF Found, Paths, NameOf, NoAnswer
<1>2. DOMAIN stack = 1..Len(stack) /\ Len(stack) \in Nat /\ Top = stack[Len(stack)]
  BY TopIsFrame DEF IInv, TypeOK
<1>3. /\ DOMAIN stack' = DOMAIN stack
      /\ \A i \in DOMAIN stack : i # Len(stack) => stack'[i] = stack[i]
      /\ stack' # <<>> => stack'[Len(stack)] = f
  BY <1>2
<1>4. \A i \in DOMAIN stack' : FrameSound(stack'[i], Found, Paths, content)
  BY <1>2, <1>3 DEF StackSound
<1>5. ASSUME NEW i \in DOMAIN stack', i + 1 \in DOMAIN stack'
      PROVE  WaitsFor(stack'[i], stack'[i + 1].id, content)
  <2>1. i # Len(stack) /\ stack'[i] = stack[i]
    BY <1>2, <1>3, <1>5
  <2>2. stack'[i + 1].id = stack[i + 1].id
    BY <1>2, <1>3, <1>5
  <2>3. WaitsFor(stack[i], stack[i + 1].id, content)
    BY <1>3, <1>5 DEF StackSound
  <2> QED BY <2>1, <2>2, <2>3
<1> QED BY <1>1, <1>4, <1>5 DEF StackSound

LEMMA ParsedSound ==
  ASSUME IInv, StackSound, Parsed
  PROVE  StackSound'
<1> DEFINE file == NameOf(Top.id)
<1> DEFINE f == [id |-> Top.id, file |-> file, module |-> NewModule, next |-> 1]
<1>1. /\ stack # <<>> /\ Unknown /\ file \in Files /\ answer' = NoAnswer
      /\ UNCHANGED <<content, aliased, registered, mapped>>
      /\ stack' = [stack EXCEPT ![Len(stack)] = f]
  BY DEF Parsed, Resolving, Running, MapBeforeCheck
<1>2. Top.id \in Names
  BY <1>1, TopIsFrame DEF IInv, Frames, Resolvings, Checkings
<1>3. Top.id \notin Found
  BY <1>1, UnknownIsNotFound
<1>4. PICK n \in Nat : content[file].imports \in [1..n -> Names]
  BY <1>1, ImportsType DEF IInv
<1>5. FrameSound(f, Found, Paths, content)
  BY <1>1, <1>2, <1>3, <1>4 DEF FrameSound, Paths
<1>6. f.id = Top.id
  OBVIOUS
<1> HIDE DEF f
<1> QED BY <1>1, <1>5, <1>6, TopSound

LEMMA ImportedSound ==
  ASSUME IInv, StackSound, Imported
  PROVE  StackSound'
<1> DEFINE f == Resumed(Top)
<1>1. /\ stack # <<>> /\ Top.module # NoModule /\ answer.type = "module"
      /\ answer' = NoAnswer /\ UNCHANGED <<content, aliased, registered, mapped>>
      /\ stack' = [stack EXCEPT ![Len(stack)] = Resumed(@)]
  BY DEF Imported, Running
<1>2. Top = stack[Len(stack)] /\ Top \in Checkings /\ Len(stack) \in DOMAIN stack
  BY <1>1, TopIsFrame DEF IInv, TypeOK, Frames, Resolvings
<1>3. PICK id \in Found : WaitsFor(Top, id, content)
  BY <1>1, <1>2 DEF StackSound
<1>4. PICK n \in Nat : content[Top.file].imports \in [1..n -> Names]
  BY <1>2, ImportsType DEF IInv, Checkings
<1>5. f.id = Top.id /\ f.file = Top.file /\ f.module = Top.module /\ f.next = Top.next + 1
  BY <1>2 DEF Resumed, Checkings
<1>6. FrameSound(Top, Found, Paths, content)
  BY <1>2 DEF StackSound
<1>7. ASSUME NEW j \in 1..n, j < f.next PROVE content[f.file].imports[j] \in Found
  <2>1. j < Top.next \/ j = Top.next
    BY <1>2, <1>5, <1>7 DEF Checkings
  <2> QED BY <1>1, <1>3, <1>4, <1>5, <1>6, <2>1 DEF FrameSound, WaitsFor
<1>8. FrameSound(f, Found, Paths, content)
  BY <1>4, <1>5, <1>6, <1>7 DEF FrameSound
<1>9. stack' = [stack EXCEPT ![Len(stack)] = f]
  BY <1>1, <1>2
<1> HIDE DEF f
<1> QED BY <1>1, <1>5, <1>8, <1>9, TopSound

LEMMA ImportSound ==
  ASSUME IInv, StackSound, Import
  PROVE  StackSound'
<1> DEFINE id == Imports[Top.next]
<1>1. /\ stack # <<>> /\ Top.module # NoModule /\ answer = NoAnswer /\ answer' = answer
      /\ UNCHANGED <<content, aliased, registered, mapped>>
      /\ Top.next <= Len(Imports) /\ Call(id)
  BY DEF Import, Checking, Running
<1>2. Top = stack[Len(stack)] /\ Top \in Checkings /\ Len(stack) \in DOMAIN stack
  BY <1>1, TopIsFrame DEF IInv, TypeOK, Frames, Resolvings
<1>3. PICK n \in Nat : content[Top.file].imports \in [1..n -> Names] /\ Len(content[Top.file].imports) = n
  BY <1>2, ImportsType DEF IInv, Checkings
<1>4. WaitsFor(Top, id, content)
  BY <1>1, <1>2, <1>3 DEF WaitsFor, Imports, Checkings
<1>5. Found' = Found /\ Paths' = Paths /\ answer'.type # "module"
  BY <1>1 DEF Found, Paths, NameOf, NoAnswer
<1>6. CASE stack' = <<>>
  BY <1>6 DEF StackSound
<1>7. CASE stack' = Append(stack, Frame(id))
  <2>1. stack \in Seq(Frames)
    BY DEF IInv, TypeOK
  <2>2. /\ DOMAIN stack = 1..Len(stack) /\ Len(stack) \in Nat
        /\ DOMAIN stack' = 1..(Len(stack) + 1)
        /\ \A i \in DOMAIN stack : stack'[i] = stack[i]
        /\ stack'[Len(stack) + 1] = Frame(id)
    BY <1>7, <2>1
  <2>3. FrameSound(Frame(id), Found, Paths, content) /\ Frame(id).id = id
    BY DEF FrameSound, Frame
  <2>4. \A i \in DOMAIN stack' : FrameSound(stack'[i], Found, Paths, content)
    BY <2>2, <2>3 DEF StackSound
  <2>5. ASSUME NEW i \in DOMAIN stack', i + 1 \in DOMAIN stack'
        PROVE  WaitsFor(stack'[i], stack'[i + 1].id, content)
    <3>1. i \in DOMAIN stack
      BY <2>2, <2>5
    <3>2. CASE i = Len(stack)
      BY <1>2, <1>4, <2>2, <2>3, <3>2
    <3>3. CASE i # Len(stack)
      <4>1. i + 1 \in DOMAIN stack
        BY <2>2, <3>1, <3>3
      <4> QED BY <2>2, <3>1, <4>1 DEF StackSound
    <3> QED BY <3>2, <3>3
  <2> QED BY <1>1, <1>5, <2>4, <2>5 DEF StackSound
<1> QED BY <1>1, <1>6, <1>7 DEF Call

\* A load never ends while another one around it typechecks the same file:
\* that one waits for an import that the inner one is behind.
LEMMA NoOuterLoad ==
  ASSUME IInv, StackSound, Checked, NEW i \in DOMAIN stack, i # Len(stack)
  PROVE  stack[i].file # Top.file /\ stack[i].module # NoModule
<1>1. stack # <<>> /\ Top.module # NoModule /\ Top.next > Len(Imports)
  BY DEF Checked, Checking, Running
<1>2. /\ Top = stack[Len(stack)] /\ Top \in Checkings /\ Len(stack) \in DOMAIN stack
      /\ DOMAIN stack = 1..Len(stack) /\ Len(stack) \in Nat
  BY <1>1, TopIsFrame DEF IInv, TypeOK, Frames, Resolvings
<1>3. i + 1 \in DOMAIN stack
  BY <1>2
<1>4. WaitsFor(stack[i], stack[i + 1].id, content)
  BY <1>3 DEF StackSound
<1>5. stack[i + 1].module # NoModule
  <2>1. CASE i + 1 = Len(stack)
    BY <1>1, <1>2, <2>1
  <2>2. CASE i + 1 # Len(stack)
    <3>1. (i + 1) + 1 \in DOMAIN stack
      BY <1>2, <1>3, <2>2
    <3> QED BY <1>3, <3>1 DEF StackSound, WaitsFor
  <2> QED BY <2>1, <2>2
<1>6. stack[i + 1].id \notin Found
  BY <1>3, <1>5 DEF StackSound, FrameSound
<1>7. PICK n \in Nat : content[Top.file].imports \in [1..n -> Names] /\ Len(content[Top.file].imports) = n
  BY <1>2, ImportsType DEF IInv, Checkings
<1>8. \A j \in 1..n : content[Top.file].imports[j] \in Found
  <2>1. FrameSound(Top, Found, Paths, content)
    BY <1>2 DEF StackSound
  <2>2. \A j \in 1..n : j < Top.next
    BY <1>1, <1>2, <1>7 DEF Imports, Checkings
  <2> QED BY <1>1, <1>7, <2>1, <2>2 DEF FrameSound
<1>9. stack[i].file # Top.file
  BY <1>4, <1>6, <1>7, <1>8 DEF WaitsFor
<1> QED BY <1>4, <1>9 DEF WaitsFor

LEMMA CheckedSound ==
  ASSUME DistinctKeys, IInv, StackSound, Checked
  PROVE  StackSound' /\ KeyOf[Top.file] \notin DOMAIN mapped
<1>1. /\ stack # <<>> /\ Top.module # NoModule /\ Return(Answer(Top.module))
      /\ mapped' = Put(mapped, KeyOf[Top.file], Top.module)
      /\ UNCHANGED <<aliased, registered, content>>
  BY DEF Checked, Checking, Running, Return
<1>2. /\ Top = stack[Len(stack)] /\ Top.id \in Names /\ Len(stack) \in DOMAIN stack
  BY <1>1, TopIsFrame DEF IInv, TypeOK, Frames, Resolvings, Checkings
<1>3. FrameSound(Top, Found, Paths, content)
  BY <1>2 DEF StackSound
<1>4. Top.file = NameOf(Top.id) /\ Top.file \in Files /\ Top.id \notin Found
  BY <1>1, <1>2, <1>3 DEF FrameSound, Paths
<1>5. DOMAIN mapped' = DOMAIN mapped \cup {KeyOf[Top.file]}
  BY <1>1 DEF Put
<1>6. Found \subseteq Found' /\ Top.id \in Found'
  BY <1>1, <1>2, <1>4, <1>5 DEF Found, NameOf
<1>7. ASSUME NEW i \in DOMAIN stack' PROVE stack[i].id \notin Found'
  <2>1. i \in DOMAIN stack /\ i # Len(stack)
    BY <1>1, ReturnPops DEF IInv
  <2>2. stack[i].file # Top.file /\ stack[i].module # NoModule
    BY <2>1, NoOuterLoad
  <2>3. stack[i].id \in Names
    BY <2>1 DEF IInv, TypeOK, Frames, Resolvings, Checkings
  <2>4. stack[i].file = NameOf(stack[i].id) /\ stack[i].file \in Files /\ stack[i].id \notin Found
    BY <2>1, <2>2, <2>3 DEF StackSound, FrameSound, Paths
  <2>5. KeyOf[NameOf(stack[i].id)] # KeyOf[Top.file]
    BY <1>4, <2>2, <2>4 DEF DistinctKeys
  <2> QED BY <1>1, <1>5, <2>4, <2>5 DEF Found, NameOf
<1>8. StackSound'
  BY <1>1, <1>6, <1>7, PopSound
<1>9. KeyOf[Top.file] \notin DOMAIN mapped
  BY <1>2, <1>4 DEF Found
<1> QED BY <1>8, <1>9

\* Unless a load is called, an import comes back or a load finishes.
LEMMA HostSound ==
  ASSUME IInv, StackSound, NEW id \in Names, NEW alias,
         Alias(id, alias) \/ Register(id) \/ Load(id)
  PROVE  StackSound'
<1>1. CASE Alias(id, alias) \/ Register(id)
  <2>1. stack' = <<>>
    BY <1>1 DEF Alias, Register, Idle
  <2> QED BY <2>1 DEF StackSound
<1>2. CASE Load(id)
  <2>1. stack = <<>> /\ answer' = NoAnswer
    BY <1>2 DEF Load, Idle
  <2>2. stack' = <<Frame(id)>> \/ stack' = <<>>
    BY <1>2, <2>1 DEF Load, Call
  <2> QED BY <2>1, <2>2 DEF StackSound, Frame, NoAnswer, FrameSound
<1> QED BY <1>1, <1>2

LEMMA NextSound ==
  ASSUME DistinctKeys, IInv, StackSound, [Next]_vars
  PROVE  StackSound'
<1>1. CASE \E id, alias \in Names : Alias(id, alias)
  BY <1>1, HostSound
<1>2. CASE \E id \in Names : Register(id) \/ Load(id)
  BY <1>2, HostSound
<1>3. CASE Step
  BY <1>3, KnownSound, FailureSound, ParsedSound, ImportSound, ImportedSound, CheckedSound DEF Step
<1>4. CASE UNCHANGED vars
  <2>1. Found' = Found /\ Paths' = Paths /\ stack' = stack /\ answer' = answer /\ content' = content
    BY <1>4 DEF vars, Found, Paths, NameOf
  <2> QED BY <2>1 DEF StackSound
<1> QED BY <1>1, <1>2, <1>3, <1>4 DEF Next

\* The module a key of the map leads to is never replaced by another one,
\* however the host's calls and the imports are nested, if no two files have
\* the same key.
THEOREM MappingsNeverReplaced ==
  ASSUME DistinctKeys
  PROVE  Spec => MappingsStay
<1> DEFINE Stay == \A k \in DOMAIN mapped : k \in DOMAIN mapped' /\ mapped'[k] = mapped[k]
<1>1. Init => StackSound
  BY DEF Init, StackSound, NoAnswer
<1>2. IInv /\ StackSound /\ [Next]_vars => StackSound'
  BY NextSound
<1>3. IInv /\ StackSound /\ [Next]_vars => [Stay]_vars
  <2> SUFFICES ASSUME IInv, StackSound, Next PROVE Stay
    BY DEF vars
  <2>1. CASE Checked
    BY <2>1, CheckedSound DEF Checked, Put
  <2>2. CASE ~Checked
    <3>1. mapped' = mapped
      BY <2>2 DEF Next, Step, Alias, Register, Load, Known, Unreadable, Parsed, MapBeforeCheck,
                  Import, Imported, CheckFails
    <3> QED BY <3>1
  <2> QED BY <2>1, <2>2
<1> QED BY <1>1, <1>2, <1>3, InductiveInvariant, PTL DEF Spec, MappingsStay
=============================================================================
