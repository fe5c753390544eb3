------------------------------ MODULE TypeSet ------------------------------
(***************************************************************************)
(* The numeric tower of a type set: lemniTypeSetGetReal, GetRatio, GetInt  *)
(* and GetNat of lib/Type.cpp.                                             *)
(*                                                                         *)
(* Each request looks its type up in a map and, if it is not there, enters *)
(* a type info, asks for the types the new one is built from, and only     *)
(* then enters the new type in the map.  The requests are recursive, so    *)
(* the state is the C++ call stack: one frame per request under way.  The  *)
(* stack overflows at MaxDepth frames.  A bit count is a uint32_t and is   *)
(* computed modulo 2^32, here Modulus.                                     *)
(***************************************************************************)
EXTENDS Integers, SequencesExt

CONSTANTS Modulus,     \* one more than the largest bit count: 2^32 in the program
          MaxDepth,    \* frames the stack has room for
          Wanted       \* the [kind, bits] a client asks for

Kinds == {"real", "ratio", "int", "nat"}
BitCounts == 0 .. Modulus - 1
Keys == [kind : Kinds, bits : BitCounts]

ASSUME ModulusAssumption == Modulus \in Nat \ {0}
ASSUME MaxDepthAssumption == MaxDepth \in Nat \ {0}
ASSUME WantedAssumption == Wanted \subseteq Keys

VARIABLES infos,       \* LemniTypeSetT::typeInfos, what each info describes
          interned,    \* realTys, ratioTys, intTys and natTys: key to info index
          stack,       \* the requests under way, innermost first
          crashed      \* the stack overflowed

setVars == <<infos, interned, stack, crashed>>

Key(kind, bits) == [kind |-> kind, bits |-> bits % Modulus]

\* The abstract types (no bit count) are members of LemniTypeSetT, built with
\* it; the infos of the other built-in types are of no interest here.
AbstractKey(kind) == [kind |-> kind, bits |-> 0]
Abstract == {AbstractKey(kind) : kind \in Kinds}
Builtin == <<AbstractKey("nat"), AbstractKey("int"), AbstractKey("ratio"), AbstractKey("real")>>

\* The requests a new type makes before it is entered in its map, in order.
Parts(key) ==
    CASE key.kind = "real"  -> <<>>
      [] key.kind = "ratio" -> <<Key("int", key.bits \div 2), Key("nat", key.bits \div 2),
                                 Key("real", key.bits \div 2)>>
      [] key.kind = "int"   -> <<Key("ratio", key.bits * 2)>>
      [] key.kind = "nat"   -> <<Key("int", key.bits + 1)>>

\* A request: done counts the parts it has been given, info is the index of
\* the info it entered, 0 before it looked its type up.
Frame(key) == [key |-> key, info |-> 0, done |-> 0]

SetInit ==
    /\ infos = Builtin
    /\ interned = [key \in Abstract |-> CHOOSE i \in 1 .. 4 : Builtin[i] = key]
    /\ stack = <<>>
    /\ crashed = FALSE

Top == Head(stack)

Push(frames, key) ==
    IF Len(frames) = MaxDepth
    THEN crashed' = TRUE /\ stack' = frames
    ELSE stack' = <<Frame(key)>> \o frames /\ UNCHANGED crashed

\* A slip: the caller does not take the answer and asks again.
AnsweredLost(frames) == Tail(frames)

\* The request on top is answered: its caller has one more part.
Answered(frames) ==
    IF Tail(frames) = <<>> THEN <<>>
    ELSE [Tail(frames) EXCEPT ![1].done = @ + 1]

Request(key) ==
    /\ stack = <<>>
    /\ Push(stack, key)
    /\ UNCHANGED <<infos, interned>>

\* No bit count, or the type is in its map already.
Found ==
    /\ Top.info = 0
    /\ Top.key \in DOMAIN interned
    /\ stack' = Answered(stack)
    /\ UNCHANGED <<infos, interned, crashed>>

\* createTypeInfo: the info is entered before the parts are asked for.
EnterInfo ==
    /\ Top.info = 0
    /\ Top.key \notin DOMAIN interned
    /\ infos' = Append(infos, Top.key)
    /\ stack' = [stack EXCEPT ![1].info = Len(infos) + 1]
    /\ UNCHANGED <<interned, crashed>>

AskPart ==
    /\ Top.info # 0
    /\ Top.done < Len(Parts(Top.key))
    /\ Push(stack, Parts(Top.key)[Top.done + 1])
    /\ UNCHANGED <<infos, interned>>

\* The index of a key is entered in its map.
Indexed(key, info) == [k \in DOMAIN interned \cup {key} |-> IF k = key THEN info ELSE interned[k]]

\* Slips: the index of the newest info is taken for the type's own; the type
\* is entered before its parts are there.
InternNewest ==
    /\ Top.info # 0
    /\ Top.done = Len(Parts(Top.key))
    /\ interned' = Indexed(Top.key, Len(infos))
    /\ stack' = Answered(stack)
    /\ UNCHANGED <<infos, crashed>>
InternEarly ==
    /\ Top.info # 0
    /\ interned' = Indexed(Top.key, Top.info)
    /\ stack' = Answered(stack)
    /\ UNCHANGED <<infos, crashed>>

\* try_emplace: an entry made meanwhile is kept.
Intern ==
    /\ Top.info # 0
    /\ Top.done = Len(Parts(Top.key))
    /\ interned' = IF Top.key \in DOMAIN interned THEN interned ELSE Indexed(Top.key, Top.info)
    /\ stack' = Answered(stack)
    /\ UNCHANGED <<infos, crashed>>

Step == ~crashed /\ stack # <<>> /\ (Found \/ EnterInfo \/ AskPart \/ Intern)

SetNext == Step \/ (~crashed /\ \E key \in Wanted : Request(key))

\* A call runs until it returns; nothing makes the client ask again.
SetSpec == SetInit /\ [][SetNext]_setVars /\ WF_setVars(Step)

-----------------------------------------------------------------------------
\* lemniTypeInfoIndex: a type's index leads to the info made for it, whatever
\* infos its parts entered in between, and no two types share an info.
IndexLeadsHome == \A key \in DOMAIN interned :
                     interned[key] \in DOMAIN infos /\ infos[interned[key]] = key

\* A type that can be found has all its parts: the base of an integer and
\* the numerator and denominator of a ratio are never missing.
FoundComplete == \A key \in DOMAIN interned \ Abstract : \A i \in DOMAIN Parts(key) :
                    Parts(key)[i] \in DOMAIN interned

\* The types whose parts, and the parts of these, end at abstract types and
\* reals: an integer with a bit count is not one, its ratio asks for itself.
Grounded ==
    LET below[n \in 0 .. MaxDepth] ==
          IF n = 0 THEN Abstract
          ELSE {key \in Keys : \/ key \in Abstract
                              \/ \A i \in DOMAIN Parts(key) : Parts(key)[i] \in below[n - 1]}
    IN  below[MaxDepth - 1]

\* A request for a grounded type returns it, whatever was asked for before:
\* lemniTypeSetGetReal, GetRatio, GetInt and GetNat.
GroundedRequestsReturn ==
    (stack # <<>> /\ Last(stack).key \in Grounded) ~> (stack = <<>>)

\* Type.h:521-549: a request for a type returns it.
EveryRequestReturns == (stack # <<>>) ~> (stack = <<>>)
=============================================================================
