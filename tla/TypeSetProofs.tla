---------------------------- MODULE TypeSetProofs ----------------------------
(***************************************************************************)
(* The index of types is right and types that are found are complete, for  *)
(* any width of bit counts, any stack and any requests.                    *)
(***************************************************************************)
EXTENDS TypeSet, TLAPS

Frames == [key : Keys, info : Nat, done : Nat]

TypeOK ==
  /\ infos \in Seq(Keys)
  /\ DOMAIN interned \subseteq Keys
  /\ stack \in Seq(Frames)

\* A request that entered its info finds it there, and the parts it was given
\* can be found.
FrameSound(f, entered, known) ==
  /\ f.info # 0 => f.info \in DOMAIN entered /\ entered[f.info] = f.key
  /\ f.done <= Len(Parts(f.key))
  /\ \A j \in 1 .. f.done : Parts(f.key)[j] \in known

\* A request that is not the innermost waits for the part that the next one in
\* asks for.
Waits(caller, f) ==
  /\ caller.done + 1 \in DOMAIN Parts(caller.key)
  /\ Parts(caller.key)[caller.done + 1] = f.key

StackSound ==
  /\ \A i \in DOMAIN stack : FrameSound(stack[i], infos, DOMAIN interned)
  /\ \A i \in DOMAIN stack : i + 1 \in DOMAIN stack => Waits(stack[i + 1], stack[i])

IInv == TypeOK /\ StackSound /\ IndexLeadsHome /\ FoundComplete

-----------------------------------------------------------------------------
(* Keys, parts and frames.                                                 *)

LEMMA KeyType ==
  ASSUME NEW kind \in Kinds, NEW bits \in Nat
  PROVE  Key(kind, bits) \in Keys
<1>1. bits % Modulus \in 0 .. Modulus - 1
  BY ModulusAssumption
<1> QED BY <1>1 DEF Key, Keys, BitCounts

LEMMA PartsType ==
  ASSUME NEW key \in Keys
  PROVE  /\ Parts(key) \in Seq(Keys)
         /\ Len(Parts(key)) \in Nat /\ DOMAIN Parts(key) = 1 .. Len(Parts(key))
<1>1. key.kind \in Kinds /\ key.bits \in Nat
  BY ModulusAssumption DEF Keys, BitCounts
<1>2. /\ {"real", "ratio", "int", "nat"} = Kinds
      /\ key.bits \div 2 \in Nat /\ key.bits * 2 \in Nat /\ key.bits + 1 \in Nat
  BY <1>1 DEF Kinds
<1>3. CASE key.kind = "real"
  BY <1>3 DEF Parts
<1>4. CASE key.kind = "ratio"
  <2>1. {Key("int", key.bits \div 2), Key("nat", key.bits \div 2), Key("real", key.bits \div 2)}
          \subseteq Keys
    BY <1>2, KeyType
  <2> QED BY <1>4, <2>1 DEF Parts
<1>5. CASE key.kind = "int"
  <2>1. Key("ratio", key.bits * 2) \in Keys
    BY <1>1, <1>2, KeyType
  <2> QED BY <1>5, <2>1 DEF Parts
<1>6. CASE key.kind = "nat"
  <2>1. Key("int", key.bits + 1) \in Keys
    BY <1>1, <1>2, KeyType
  <2> QED BY <1>6, <2>1 DEF Parts
<1> QED BY <1>1, <1>2, <1>3, <1>4, <1>5, <1>6

LEMMA TopIsFrame ==
  ASSUME TypeOK, stack # <<>>
  PROVE  Top = stack[1] /\ 1 \in DOMAIN stack /\ Top \in Frames /\ Top.key \in Keys
<1>1. stack \in Seq(Frames) /\ Len(stack) \in Nat /\ Len(stack) >= 1 /\ DOMAIN stack = 1 .. Len(stack)
  BY DEF TypeOK
<1>2. Top = stack[1] /\ 1 \in DOMAIN stack
  BY <1>1 DEF Top
<1>3. stack[1] \in Frames
  BY <1>1, <1>2
<1> QED BY <1>2, <1>3 DEF Frames

\* A call in front of the stack.
LEMMA Pushed ==
  ASSUME NEW frames \in Seq(Frames), NEW f \in Frames
  PROVE  /\ <<f>> \o frames \in Seq(Frames)
         /\ DOMAIN (<<f>> \o frames) = 1 .. (Len(frames) + 1)
         /\ Len(frames) \in Nat /\ DOMAIN frames = 1 .. Len(frames)
         /\ (<<f>> \o frames)[1] = f
         /\ \A i \in DOMAIN frames : (<<f>> \o frames)[i + 1] = frames[i]
OBVIOUS

\* The requests below the innermost: all but the first.
LEMMA Callers ==
  ASSUME TypeOK, stack # <<>>
  PROVE  /\ Tail(stack) \in Seq(Frames)
         /\ Len(stack) \in Nat \ {0} /\ DOMAIN stack = 1 .. Len(stack)
         /\ DOMAIN Tail(stack) = 1 .. (Len(stack) - 1)
         /\ \A i \in DOMAIN Tail(stack) : Tail(stack)[i] = stack[i + 1]
         /\ Tail(stack) # <<>> => 1 \in DOMAIN Tail(stack)
<1>1. stack \in Seq(Frames) /\ Len(stack) \in Nat \ {0}
  BY DEF TypeOK
<1> QED BY <1>1

\* The first request is changed in place.
LEMMA FirstChanged ==
  ASSUME NEW frames \in Seq(Frames), 1 \in DOMAIN frames, NEW f \in Frames
  PROVE  /\ [frames EXCEPT ![1] = f] \in Seq(Frames)
         /\ DOMAIN [frames EXCEPT ![1] = f] = DOMAIN frames
         /\ [frames EXCEPT ![1] = f][1] = f
         /\ \A i \in DOMAIN frames : i # 1 => [frames EXCEPT ![1] = f][i] = frames[i]
OBVIOUS

\* What is interned stays so, in a step that enters one more key: a frame that
\* is sound stays sound.
LEMMA SoundStays ==
  ASSUME NEW f \in Frames, FrameSound(f, infos, DOMAIN interned),
         DOMAIN interned \subseteq DOMAIN interned',
         DOMAIN infos \subseteq DOMAIN infos',
         \A i \in DOMAIN infos : infos'[i] = infos[i]
  PROVE  FrameSound(f, infos', DOMAIN interned')
BY DEF FrameSound

-----------------------------------------------------------------------------
(* The steps.                                                              *)

LEMMA InitEstablishes == SetInit => IInv
<1> SUFFICES ASSUME SetInit PROVE IInv
  OBVIOUS
<1>2. \A kind \in Kinds : AbstractKey(kind) \in Keys
  BY ModulusAssumption DEF AbstractKey, Keys, BitCounts
<1>3. infos \in Seq(Keys) /\ DOMAIN infos = 1 .. 4
  <2>1. \A kind \in {"nat", "int", "ratio", "real"} : AbstractKey(kind) \in Keys
    BY <1>2 DEF Kinds
  <2> QED BY <2>1 DEF SetInit, Builtin
<1>4. DOMAIN interned = Abstract /\ Abstract \subseteq Keys
  BY <1>2 DEF SetInit, Abstract
<1>5. TypeOK
  BY <1>3, <1>4 DEF SetInit, TypeOK
<1>6. StackSound
  BY DEF SetInit, StackSound
<1>7. IndexLeadsHome
  <2> SUFFICES ASSUME NEW key \in Abstract
               PROVE  interned[key] \in 1 .. 4 /\ infos[interned[key]] = key
    BY <1>3, <1>4 DEF IndexLeadsHome
  <2>1. \E i \in 1 .. 4 : Builtin[i] = key
    BY DEF Abstract, Kinds, Builtin
  <2> QED BY <2>1 DEF SetInit
<1>8. FoundComplete
  BY <1>4 DEF FoundComplete
<1> QED BY <1>5, <1>6, <1>7, <1>8 DEF IInv

\* A request that is pushed has entered nothing and asked for nothing.
LEMMA PushPreserves ==
  ASSUME IInv, NEW key \in Keys, Push(stack, key), UNCHANGED <<infos, interned>>,
         stack # <<>> => Waits(Top, Frame(key))
  PROVE  IInv'
<1>1. CASE stack' = stack
  BY <1>1 DEF IInv, TypeOK, StackSound, FrameSound, IndexLeadsHome, FoundComplete
<1>2. CASE stack' = <<Frame(key)>> \o stack
  <2>1. Frame(key) \in Frames /\ stack \in Seq(Frames)
    BY DEF Frame, Frames, IInv, TypeOK
  <2>2. /\ stack' \in Seq(Frames) /\ DOMAIN stack' = 1 .. (Len(stack) + 1)
        /\ Len(stack) \in Nat /\ DOMAIN stack = 1 .. Len(stack)
        /\ stack'[1] = Frame(key)
        /\ \A i \in DOMAIN stack : stack'[i + 1] = stack[i]
    BY <1>2, <2>1, Pushed
  <2>3. FrameSound(Frame(key), infos, DOMAIN interned)
    BY PartsType DEF FrameSound, Frame
  <2>4. \A i \in DOMAIN stack' : FrameSound(stack'[i], infos, DOMAIN interned)
    <3> SUFFICES ASSUME NEW i \in DOMAIN stack', i # 1 PROVE FrameSound(stack'[i], infos, DOMAIN interned)
      BY <2>2, <2>3
    <3>1. i - 1 \in DOMAIN stack /\ stack'[i] = stack[i - 1]
      BY <2>2
    <3> QED BY <3>1 DEF IInv, StackSound
  <2>5. \A i \in DOMAIN stack' : i + 1 \in DOMAIN stack' => Waits(stack'[i + 1], stack'[i])
    <3> SUFFICES ASSUME NEW i \in DOMAIN stack', i + 1 \in DOMAIN stack'
                 PROVE  Waits(stack'[i + 1], stack'[i])
      OBVIOUS
    <3>1. i \in DOMAIN stack /\ stack'[i + 1] = stack[i]
      BY <2>2
    <3>2. CASE i = 1
      <4>1. stack # <<>> /\ Top = stack[1]
        BY <2>2, <3>1, <3>2, TopIsFrame DEF IInv
      <4> QED BY <2>2, <3>1, <3>2, <4>1
    <3>3. CASE i # 1
      <4>1. i - 1 \in DOMAIN stack /\ (i - 1) + 1 = i /\ stack'[i] = stack[i - 1]
        BY <2>2, <3>1, <3>3
      <4> QED BY <3>1, <4>1 DEF IInv, StackSound
    <3> QED BY <3>2, <3>3
  <2>6. StackSound'
    BY <2>4, <2>5 DEF StackSound, FrameSound
  <2> QED BY <2>2, <2>6 DEF IInv, TypeOK, IndexLeadsHome, FoundComplete
<1> QED BY <1>1, <1>2 DEF Push

LEMMA RequestPreserves ==
  ASSUME IInv, NEW key \in Wanted, Request(key)
  PROVE  IInv'
BY WantedAssumption, PushPreserves DEF Request

LEMMA AskPartPreserves ==
  ASSUME IInv, stack # <<>>, AskPart
  PROVE  IInv'
<1> DEFINE part == Parts(Top.key)[Top.done + 1]
<1>1. Top \in Frames /\ Top.key \in Keys /\ Top.done \in Nat
  BY TopIsFrame DEF IInv, Frames
<1>2. Top.done + 1 \in DOMAIN Parts(Top.key) /\ part \in Keys
  BY <1>1, PartsType DEF AskPart
<1>3. Waits(Top, Frame(part))
  BY <1>2 DEF Waits, Frame
<1> QED BY <1>2, <1>3, PushPreserves DEF AskPart

\* The innermost request is answered when its key can be found: its caller has
\* the part it waited for.
LEMMA AnsweredSound ==
  ASSUME IInv, stack # <<>>, stack' = Answered(stack), infos' = infos,
         DOMAIN interned \subseteq DOMAIN interned', Top.key \in DOMAIN interned'
  PROVE  stack' \in Seq(Frames) /\ StackSound'
<1> DEFINE below == Tail(stack)
<1>1. /\ below \in Seq(Frames)
      /\ Len(stack) \in Nat \ {0} /\ DOMAIN stack = 1 .. Len(stack)
      /\ DOMAIN below = 1 .. (Len(stack) - 1)
      /\ \A i \in DOMAIN below : below[i] = stack[i + 1]
      /\ below # <<>> => 1 \in DOMAIN below
  BY Callers DEF IInv
<1> HIDE DEF below
<1>2. CASE below = <<>>
  BY <1>2 DEF below, Answered, StackSound
<1>3. CASE below # <<>>
  <2> DEFINE caller == stack[2]
             resumed == [caller EXCEPT !.done = @ + 1]
  <2>1. 1 \in DOMAIN stack /\ 2 \in DOMAIN stack /\ below[1] = caller /\ Top = stack[1]
    BY <1>1, <1>3, TopIsFrame DEF IInv
  <2>2. stack' = [below EXCEPT ![1] = resumed]
    BY <1>3, <2>1 DEF below, Answered
  <2>3. caller \in Frames
    BY <2>1 DEF IInv, TypeOK
  <2>4. /\ resumed \in Frames /\ resumed.key = caller.key /\ resumed.info = caller.info
        /\ resumed.done = caller.done + 1
    BY <2>3 DEF Frames
  <2> HIDE DEF caller, resumed
  <2>5. /\ stack' \in Seq(Frames) /\ DOMAIN stack' = DOMAIN below
        /\ stack'[1] = resumed
        /\ \A i \in DOMAIN below : i # 1 => stack'[i] = stack[i + 1]
    <3>1. /\ stack' \in Seq(Frames) /\ DOMAIN stack' = DOMAIN below
          /\ stack'[1] = resumed
          /\ \A i \in DOMAIN below : i # 1 => stack'[i] = below[i]
      BY <1>1, <1>3, <2>2, <2>4, FirstChanged
    <3> QED BY <1>1, <3>1
  <2>6. \A f \in Frames : FrameSound(f, infos, DOMAIN interned) => FrameSound(f, infos', DOMAIN interned')
    BY SoundStays
  <2>7. FrameSound(resumed, infos', DOMAIN interned')
    <3>1. FrameSound(caller, infos', DOMAIN interned') /\ Waits(caller, stack[1])
      <4>1. FrameSound(caller, infos, DOMAIN interned)
        BY <2>1 DEF caller, IInv, StackSound
      <4>2. 1 + 1 \in DOMAIN stack /\ stack[1 + 1] = caller
        BY <2>1 DEF caller
      <4>3. Waits(stack[1 + 1], stack[1])
        BY <2>1, <4>2 DEF IInv, StackSound
      <4> QED BY <2>3, <2>6, <4>1, <4>2, <4>3
    <3>2. caller.done \in Nat /\ caller.key \in Keys
      BY <2>3 DEF Frames
    <3>3. caller.done + 1 <= Len(Parts(caller.key))
      BY <3>1, <3>2, PartsType DEF Waits
    <3>4. \A j \in 1 .. (caller.done + 1) : Parts(caller.key)[j] \in DOMAIN interned'
      <4> SUFFICES ASSUME NEW j \in 1 .. (caller.done + 1)
                   PROVE  Parts(caller.key)[j] \in DOMAIN interned'
        OBVIOUS
      <4>1. CASE j = caller.done + 1
        BY <2>1, <3>1, <4>1 DEF Waits
      <4>2. CASE j \in 1 .. caller.done
        BY <3>1, <4>2 DEF FrameSound
      <4> QED BY <3>2, <4>1, <4>2
    <3> QED BY <2>4, <3>1, <3>3, <3>4 DEF FrameSound
  <2>8. \A i \in DOMAIN stack' : FrameSound(stack'[i], infos', DOMAIN interned')
    <3> SUFFICES ASSUME NEW i \in DOMAIN stack', i # 1 PROVE FrameSound(stack'[i], infos', DOMAIN interned')
      BY <2>5, <2>7
    <3>1. i + 1 \in DOMAIN stack /\ stack'[i] = stack[i + 1] /\ stack[i + 1] \in Frames
      BY <1>1, <2>5 DEF IInv, TypeOK
    <3> QED BY <2>6, <3>1 DEF IInv, StackSound
  <2>9. \A i \in DOMAIN stack' : i + 1 \in DOMAIN stack' => Waits(stack'[i + 1], stack'[i])
    <3> SUFFICES ASSUME NEW i \in DOMAIN stack', i + 1 \in DOMAIN stack'
                 PROVE  Waits(stack'[i + 1], stack'[i])
      OBVIOUS
    <3>1. /\ i + 1 \in DOMAIN stack /\ (i + 1) + 1 \in DOMAIN stack
          /\ stack'[i + 1] = stack[(i + 1) + 1]
      BY <1>1, <2>5
    <3>2. stack'[i].key = stack[i + 1].key
      <4>1. CASE i = 1
        <5>1. stack'[i].key = caller.key
          BY <2>4, <2>5, <4>1
        <5>2. stack[i + 1] = caller
          BY <4>1 DEF caller
        <5> QED BY <5>1, <5>2
      <4>2. CASE i # 1
        BY <2>5, <4>2
      <4> QED BY <4>1, <4>2
    <3>3. Waits(stack[(i + 1) + 1], stack[i + 1])
      BY <3>1 DEF IInv, StackSound
    <3> QED BY <3>1, <3>2, <3>3 DEF Waits
  <2> QED BY <2>5, <2>8, <2>9 DEF StackSound
<1> QED BY <1>2, <1>3

LEMMA FoundPreserves ==
  ASSUME IInv, stack # <<>>, Found
  PROVE  IInv'
<1>1. stack' = Answered(stack) /\ UNCHANGED <<infos, interned>> /\ Top.key \in DOMAIN interned
  BY DEF Found
<1>2. stack' \in Seq(Frames) /\ StackSound'
  BY <1>1, AnsweredSound
<1> QED BY <1>1, <1>2 DEF IInv, TypeOK, IndexLeadsHome, FoundComplete

LEMMA EnterInfoPreserves ==
  ASSUME IInv, stack # <<>>, EnterInfo
  PROVE  IInv'
<1> DEFINE entered == [Top EXCEPT !.info = Len(infos) + 1]
<1>1. Top = stack[1] /\ 1 \in DOMAIN stack /\ Top \in Frames /\ Top.key \in Keys
  BY TopIsFrame DEF IInv
<1>2. /\ Len(infos) \in Nat /\ DOMAIN infos = 1 .. Len(infos)
      /\ infos' \in Seq(Keys) /\ DOMAIN infos' = 1 .. (Len(infos) + 1)
      /\ \A i \in DOMAIN infos : infos'[i] = infos[i]
      /\ infos'[Len(infos) + 1] = Top.key
  BY <1>1 DEF IInv, TypeOK, EnterInfo
<1>3. /\ entered \in Frames /\ entered.key = Top.key /\ entered.done = Top.done
      /\ entered.info = Len(infos) + 1
  BY <1>1, <1>2 DEF Frames
<1>4. /\ stack' = [stack EXCEPT ![1] = entered]
      /\ interned' = interned
  BY <1>1 DEF EnterInfo
<1>5. /\ stack' \in Seq(Frames) /\ DOMAIN stack' = DOMAIN stack /\ stack'[1] = entered
      /\ \A i \in DOMAIN stack : i # 1 => stack'[i] = stack[i]
  BY <1>1, <1>3, <1>4 DEF IInv, TypeOK
<1>6. \A f \in Frames : FrameSound(f, infos, DOMAIN interned) => FrameSound(f, infos', DOMAIN interned')
  BY <1>2, <1>4, SoundStays
<1>7. FrameSound(entered, infos', DOMAIN interned')
  <2>1. FrameSound(Top, infos', DOMAIN interned')
    BY <1>1, <1>6 DEF IInv, StackSound
  <2> QED BY <1>2, <1>3, <2>1 DEF FrameSound
<1>8. \A i \in DOMAIN stack' : FrameSound(stack'[i], infos', DOMAIN interned')
  <2> SUFFICES ASSUME NEW i \in DOMAIN stack', i # 1 PROVE FrameSound(stack'[i], infos', DOMAIN interned')
    BY <1>5, <1>7
  <2>1. i \in DOMAIN stack /\ stack'[i] = stack[i] /\ stack[i] \in Frames
    BY <1>5 DEF IInv, TypeOK
  <2> QED BY <1>6, <2>1 DEF IInv, StackSound
<1>9. \A i \in DOMAIN stack' : i + 1 \in DOMAIN stack' => Waits(stack'[i + 1], stack'[i])
  <2> SUFFICES ASSUME NEW i \in DOMAIN stack', i + 1 \in DOMAIN stack'
               PROVE  Waits(stack'[i + 1], stack'[i])
    OBVIOUS
  <2>1. i \in DOMAIN stack /\ i + 1 \in DOMAIN stack /\ i + 1 # 1
    BY <1>5 DEF IInv, TypeOK
  <2>2. stack'[i].key = stack[i].key /\ stack'[i + 1] = stack[i + 1]
    BY <1>1, <1>3, <1>5, <2>1
  <2> QED BY <2>1, <2>2 DEF IInv, StackSound, Waits
<1>10. StackSound'
  BY <1>8, <1>9 DEF StackSound
<1>11. TypeOK' /\ IndexLeadsHome' /\ FoundComplete'
  BY <1>2, <1>4, <1>5 DEF IInv, TypeOK, IndexLeadsHome, FoundComplete
<1> QED BY <1>10, <1>11 DEF IInv

\* A type is interned when all its parts are.
LEMMA InternPreserves ==
  ASSUME IInv, stack # <<>>, Intern
  PROVE  IInv'
<1>1. Top = stack[1] /\ 1 \in DOMAIN stack /\ Top \in Frames /\ Top.key \in Keys
  BY TopIsFrame DEF IInv
<1>2. FrameSound(Top, infos, DOMAIN interned) /\ Top.info # 0 /\ Top.done = Len(Parts(Top.key))
  BY <1>1 DEF IInv, StackSound, Intern
<1>3. \A j \in DOMAIN Parts(Top.key) : Parts(Top.key)[j] \in DOMAIN interned
  BY <1>1, <1>2, PartsType DEF FrameSound
<1>4. /\ DOMAIN interned' = DOMAIN interned \cup {Top.key}
      /\ \A key \in DOMAIN interned : interned'[key] = interned[key]
      /\ Top.key \notin DOMAIN interned => interned'[Top.key] = Top.info
  <2>1. CASE Top.key \in DOMAIN interned
    <3>1. interned' = interned
      BY <2>1 DEF Intern
    <3> QED BY <2>1, <3>1
  <2>2. CASE Top.key \notin DOMAIN interned
    <3>1. interned' = [k \in DOMAIN interned \cup {Top.key} |-> IF k = Top.key THEN Top.info ELSE interned[k]]
      BY <2>2 DEF Intern, Indexed
    <3> QED BY <2>2, <3>1
  <2> QED BY <2>1, <2>2
<1>5. infos' = infos /\ stack' = Answered(stack)
  BY DEF Intern
<1>6. stack' \in Seq(Frames) /\ StackSound'
  BY <1>4, <1>5, AnsweredSound
<1>7. TypeOK'
  BY <1>1, <1>4, <1>5, <1>6 DEF IInv, TypeOK
<1>8. IndexLeadsHome'
  BY <1>2, <1>4, <1>5 DEF IInv, IndexLeadsHome, FrameSound
<1>9. FoundComplete'
  BY <1>3, <1>4 DEF IInv, FoundComplete
<1> QED BY <1>6, <1>7, <1>8, <1>9 DEF IInv

-----------------------------------------------------------------------------
(* The theorems.                                                           *)

LEMMA NextPreserves ==
  ASSUME IInv, [SetNext]_setVars
  PROVE  IInv'
<1>1. CASE Step
  BY <1>1, FoundPreserves, EnterInfoPreserves, AskPartPreserves, InternPreserves DEF Step
<1>2. CASE \E key \in Wanted : Request(key)
  BY <1>2, RequestPreserves
<1>3. CASE UNCHANGED setVars
  BY <1>3 DEF setVars, IInv, TypeOK, StackSound, FrameSound, IndexLeadsHome, FoundComplete
<1> QED BY <1>1, <1>2, <1>3 DEF SetNext

\* The requests under way, the index and the parts that were given are right
\* together, in whatever order types are asked for.
THEOREM InductiveInvariant == SetSpec => []IInv
<1>1. SetInit => IInv
  BY InitEstablishes
<1>2. IInv /\ [SetNext]_setVars => IInv'
  BY NextPreserves
<1> QED BY <1>1, <1>2, PTL DEF SetSpec

\* lemniTypeInfoIndex always leads to the info made for the type.
THEOREM IndexAlwaysLeadsHome == SetSpec => []IndexLeadsHome
<1>1. IInv => IndexLeadsHome
  BY DEF IInv
<1> QED BY <1>1, InductiveInvariant, PTL

\* A type that lemniTypeSetGetReal, GetRatio, GetInt and GetNat find has all
\* the types it is made of.
THEOREM FoundAlwaysComplete == SetSpec => []FoundComplete
<1>1. IInv => FoundComplete
  BY DEF IInv
<1> QED BY <1>1, InductiveInvariant, PTL
=============================================================================
