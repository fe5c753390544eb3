--------------------------- MODULE RegionsProofs ---------------------------
(***************************************************************************)
(* Theorems about Regions and RegionSizes, for every set of addresses,     *)
(* every request and every width of a size: about any client, then about   *)
(* an orderly one, whose regions implement RegionContract; then, from what *)
(* RegionSizes counts, that the queries of lib/Region.cpp count every      *)
(* storage below a region.                                                 *)
(***************************************************************************)
EXTENDS RegionSizes, SequenceTheorems, FiniteSetTheorems, TLAPS

-----------------------------------------------------------------------------
(* std::find and erase, and emplace_back, on a list without repeats.       *)

LEMMA RemoveFirstProperties ==
    ASSUME NEW S, NEW seq \in Seq(S), NEW e, NoRepeats(seq)
    PROVE  /\ RemoveFirst(seq, e) \in Seq(S)
           /\ NoRepeats(RemoveFirst(seq, e))
           /\ ToSet(RemoveFirst(seq, e)) = ToSet(seq) \ {e}
<1>0. Len(seq) \in Nat /\ DOMAIN seq = 1 .. Len(seq) /\ \A i \in 1 .. Len(seq) : seq[i] \in S
  BY LenProperties, ElementOfSeq
<1>1. CASE ~ \E i \in 1 .. Len(seq) : seq[i] = e
  <2>1. RemoveFirst(seq, e) = seq
    BY <1>1 DEF RemoveFirst
  <2> QED BY <2>1, <1>0, <1>1 DEF ToSet
<1>2. CASE \E i \in 1 .. Len(seq) : seq[i] = e
  <2>1. PICK p \in 1 .. Len(seq) : seq[p] = e
    BY <1>2
  <2>p. p \in Nat /\ 1 <= p /\ p <= Len(seq) /\ (p < Len(seq) \/ p = Len(seq))
    <3>1. Len(seq) \in Nat
      BY <1>0
    <3> QED BY <3>1
  <2>2. {i \in 1 .. Len(seq) : seq[i] = e} = {p}
    BY <2>1, <1>0 DEF NoRepeats
  <2>3. Min({p}) = p
    BY <2>1, <1>0 DEF Min
  <2>4. SelectInSeq(seq, LAMBDA v : v = e) = p
    BY <2>2, <2>3 DEF SelectInSeq
  <2> DEFINE front == SubSeq(seq, 1, p - 1)
             back == SubSeq(seq, p + 1, Len(seq))
             short == front \o back
  <2>5. RemoveFirst(seq, e) = short
    BY <1>2, <2>4 DEF RemoveFirst, RemoveAt
  <2>6. /\ front \in Seq(S)
        /\ Len(front) = p - 1
        /\ \A i \in 1 .. p - 1 : front[i] = seq[i]
    <3>1. /\ SubSeq(seq, 1, p - 1) \in Seq(S)
          /\ Len(SubSeq(seq, 1, p - 1)) = IF 1 <= p - 1 THEN (p - 1) - 1 + 1 ELSE 0
          /\ \A i \in 1 .. (p - 1) - 1 + 1 : SubSeq(seq, 1, p - 1)[i] = seq[1 + i - 1]
      BY <1>0, <2>1, SubSeqProperties
    <3> QED BY <3>1, <1>0, <2>1
  <2>7. /\ back \in Seq(S)
        /\ Len(back) = Len(seq) - p
        /\ \A i \in 1 .. Len(seq) - p : back[i] = seq[p + i]
    <3>1. /\ SubSeq(seq, p + 1, Len(seq)) \in Seq(S)
          /\ Len(SubSeq(seq, p + 1, Len(seq))) =
               IF p + 1 <= Len(seq) THEN Len(seq) - (p + 1) + 1 ELSE 0
          /\ \A i \in 1 .. Len(seq) - (p + 1) + 1 :
               SubSeq(seq, p + 1, Len(seq))[i] = seq[(p + 1) + i - 1]
      BY <1>0, <2>1, SubSeqProperties
    <3>2. Len(back) = Len(seq) - p
      <4>1. CASE p = Len(seq)
        <5>1. ~ (p + 1 <= Len(seq)) /\ Len(seq) - p = 0
          BY <4>1, <1>0
        <5> QED BY <5>1, <3>1
      <4>2. CASE p < Len(seq)
        <5>1. p + 1 <= Len(seq) /\ Len(seq) - (p + 1) + 1 = Len(seq) - p
          BY <4>2, <1>0, <2>1
        <5> QED BY <5>1, <3>1
      <4> QED BY <4>1, <4>2, <2>p
    <3>3. ASSUME NEW i \in 1 .. Len(seq) - p
          PROVE  back[i] = seq[p + i]
      <4>1. i \in 1 .. Len(seq) - (p + 1) + 1 /\ (p + 1) + i - 1 = p + i
        BY <1>0
      <4> QED BY <4>1, <3>1
    <3> QED BY <3>1, <3>2, <3>3
  <2> HIDE DEF front, back
  <2>8. /\ short \in Seq(S)
        /\ Len(short) = Len(front) + Len(back)
        /\ \A i \in 1 .. Len(front) + Len(back) :
             short[i] = IF i <= Len(front) THEN front[i] ELSE back[i - Len(front)]
    BY <2>6, <2>7, ConcatProperties
  <2> HIDE DEF short
  <2>9. Len(short) = Len(seq) - 1 /\ DOMAIN short = 1 .. Len(seq) - 1
    BY <2>6, <2>7, <2>8, <2>1, <1>0, LenProperties
  <2>10. \A i \in 1 .. Len(seq) - 1 : short[i] = IF i < p THEN seq[i] ELSE seq[i + 1]
    <3> SUFFICES ASSUME NEW i \in 1 .. Len(seq) - 1
                 PROVE  short[i] = IF i < p THEN seq[i] ELSE seq[i + 1]
      OBVIOUS
    <3>1. short[i] = IF i <= p - 1 THEN front[i] ELSE back[i - (p - 1)]
      BY <2>6, <2>7, <2>8, <2>1, <1>0
    <3>2. CASE i < p
      BY <3>1, <3>2, <2>6, <2>1, <1>0
    <3>3. CASE i >= p
      <4>1. i - (p - 1) \in 1 .. Len(seq) - p /\ p + (i - (p - 1)) = i + 1
        BY <3>3, <2>1, <1>0
      <4>2. back[i - (p - 1)] = seq[i + 1]
        BY <4>1, <2>7
      <4> QED BY <4>2, <3>1, <3>3, <2>1, <1>0
    <3> QED BY <3>2, <3>3, <2>1, <1>0
  <2>11. NoRepeats(short)
    BY <2>9, <2>10, <2>1, <1>0 DEF NoRepeats
  <2>12. ASSUME NEW x \in ToSet(short)
         PROVE  x \in ToSet(seq) \ {e}
    BY <2>9, <2>10, <2>1, <1>0 DEF ToSet, NoRepeats
  <2>13. ASSUME NEW x \in ToSet(seq) \ {e}
         PROVE  x \in ToSet(short)
    <3>1. PICK i \in 1 .. Len(seq) : seq[i] = x /\ i # p
      BY <2>1, <1>0 DEF ToSet
    <3>2. CASE i < p
      BY <3>1, <3>2, <2>9, <2>10, <2>1, <1>0 DEF ToSet
    <3>3. CASE i > p
      <4>1. i - 1 \in 1 .. Len(seq) - 1 /\ short[i - 1] = x
        BY <3>1, <3>3, <2>10, <2>1, <1>0
      <4> QED BY <4>1, <2>9 DEF ToSet
    <3> QED BY <3>1, <3>2, <3>3, <2>1
  <2> QED BY <2>5, <2>8, <2>11, <2>12, <2>13
<1> QED BY <1>1, <1>2

LEMMA AppendProperty ==
    ASSUME NEW S, NEW seq \in Seq(S), NEW e \in S, NoRepeats(seq), e \notin ToSet(seq)
    PROVE  /\ Append(seq, e) \in Seq(S)
           /\ NoRepeats(Append(seq, e))
           /\ ToSet(Append(seq, e)) = ToSet(seq) \cup {e}
<1>0. Len(seq) \in Nat /\ DOMAIN seq = 1 .. Len(seq)
  BY LenProperties
<1>1. /\ Append(seq, e) \in Seq(S)
      /\ Len(Append(seq, e)) = Len(seq) + 1
      /\ \A i \in 1 .. Len(seq) : Append(seq, e)[i] = seq[i]
      /\ Append(seq, e)[Len(seq) + 1] = e
  BY AppendProperties
<1>2. DOMAIN Append(seq, e) = 1 .. Len(seq) + 1
  BY <1>1, LenProperties
<1>3. NoRepeats(Append(seq, e))
  BY <1>0, <1>1, <1>2 DEF NoRepeats, ToSet
<1>4. ToSet(Append(seq, e)) = ToSet(seq) \cup {e}
  BY <1>0, <1>1, <1>2 DEF ToSet
<1> QED BY <1>1, <1>3, <1>4

-----------------------------------------------------------------------------
(* Any client.  The three invariants are proved together: a list has to be *)
(* free of repeats for its erasure to be defined by one position, and the  *)
(* links of a listed object have to lead back for a destruction not to     *)
(* leave its address in some other list.                                   *)

IInv == TypeOK /\ ListsOwned /\ ChildrenLinked

LEMMA InitIInv == Init => IInv
<1> SUFFICES ASSUME Init PROVE IInv
  OBVIOUS
<1>1. \A S : <<>> \in Seq(S)
  BY EmptySeq
<1>2. TypeOK
  BY <1>1 DEF Init, TypeOK
<1> QED BY <1>2 DEF Init, IInv, ListsOwned, ChildrenLinked

LEMMA CreateIInv ==
    ASSUME IInv, NEW r \in Region, NEW p \in Region \cup {NULL}, CreateRegion(r, p)
    PROVE  IInv'
<1> USE DEF IInv
<1>0. <<>> \in Seq(Region) /\ <<>> \in Seq(Storage) /\ ToSet(<<>>) = {} /\ NoRepeats(<<>>)
  BY EmptySeq DEF ToSet, NoRepeats
<1>1. ASSUME p \in regions
      PROVE  /\ Append(children[p], r) \in Seq(Region)
             /\ NoRepeats(Append(children[p], r))
             /\ ToSet(Append(children[p], r)) = ToSet(children[p]) \cup {r}
  <2>1. children[p] \in Seq(Region) /\ NoRepeats(children[p]) /\ r \notin ToSet(children[p])
    BY <1>1 DEF TypeOK, ChildrenLinked, CreateRegion
  <2> QED BY <2>1, AppendProperty
<1>2. /\ regions' = regions \cup {r}
      /\ parent' = [parent EXCEPT ![r] = p]
      /\ children' = [q \in Region |-> IF q = p THEN Append(children[q], r)
                                       ELSE IF q = r THEN <<>> ELSE children[q]]
      /\ alloced' = [alloced EXCEPT ![r] = <<>>]
      /\ r \notin regions /\ p \in regions \cup {NULL}
      /\ UNCHANGED <<storages, owner, layout, fault>>
  BY DEF CreateRegion
<1>3. TypeOK'
  <2>1. children' \in [Region -> Seq(Region)]
    BY <1>0, <1>1, <1>2, NullAssumption DEF TypeOK
  <2>2. alloced' \in [Region -> Seq(Storage)]
    BY <1>0, <1>2 DEF TypeOK
  <2> QED BY <2>1, <2>2, <1>2 DEF TypeOK
<1>4. ListsOwned'
  BY <1>0, <1>2 DEF ListsOwned, TypeOK
<1>5. ChildrenLinked'
  <2> SUFFICES ASSUME NEW t \in regions'
               PROVE  /\ NoRepeats(children'[t])
                      /\ \A q \in ToSet(children'[t]) : q \in regions' /\ parent'[q] = t
    BY DEF ChildrenLinked
  <2>1. CASE t = p
    BY <2>1, <1>1, <1>2, NullAssumption DEF ChildrenLinked, TypeOK
  <2>2. CASE t = r /\ t # p
    BY <2>2, <1>0, <1>2 DEF TypeOK
  <2>3. CASE t # r /\ t # p
    BY <2>3, <1>2 DEF ChildrenLinked, TypeOK
  <2> QED BY <2>1, <2>2, <2>3
<1> QED BY <1>3, <1>4, <1>5

LEMMA DestroyIInv ==
    ASSUME IInv, NEW r \in Region, DestroyRegion(r)
    PROVE  IInv'
<1> USE DEF IInv
<1>1. CASE parent[r] \notin regions \cup {NULL}
  BY <1>1 DEF DestroyRegion, Dangle, TypeOK, ListsOwned, ChildrenLinked
<1>2. CASE parent[r] \in regions \cup {NULL}
  <2>1. /\ r \in regions
        /\ regions' = regions \ {r}
        /\ children' = [q \in Region |-> IF q = parent[r] THEN RemoveFirst(children[q], r)
                                         ELSE children[q]]
        /\ storages' = storages \ FreedWith(r)
        /\ UNCHANGED <<parent, alloced, owner, layout, fault>>
    BY <1>2 DEF DestroyRegion, Unlinked
  <2>2. ASSUME parent[r] \in Region
        PROVE  /\ RemoveFirst(children[parent[r]], r) \in Seq(Region)
               /\ NoRepeats(RemoveFirst(children[parent[r]], r))
               /\ ToSet(RemoveFirst(children[parent[r]], r)) = ToSet(children[parent[r]]) \ {r}
    <3>1. children[parent[r]] \in Seq(Region) /\ NoRepeats(children[parent[r]])
      BY <1>2, <2>2, NullAssumption DEF TypeOK, ChildrenLinked
    <3> QED BY <3>1, RemoveFirstProperties
  <2>3. TypeOK'
    <3>1. children' \in [Region -> Seq(Region)]
      BY <2>1, <2>2 DEF TypeOK
    <3> QED BY <3>1, <2>1 DEF TypeOK
  <2>4. ListsOwned'
    <3>1. ASSUME NEW t \in regions, t # r, NEW s \in ToSet(alloced[t])
          PROVE  s \notin FreedWith(r)
      BY <3>1, <2>1 DEF ListsOwned, FreedWith
    <3> QED BY <3>1, <2>1 DEF ListsOwned
  <2>5. ChildrenLinked'
    <3> SUFFICES ASSUME NEW t \in regions'
                 PROVE  /\ NoRepeats(children'[t])
                        /\ \A q \in ToSet(children'[t]) : q \in regions' /\ parent'[q] = t
      BY DEF ChildrenLinked
    <3>1. t \in regions /\ t # r /\ t \in Region
      BY <2>1 DEF TypeOK
    <3>2. CASE t = parent[r]
      BY <3>1, <3>2, <2>1, <2>2 DEF ChildrenLinked
    <3>3. CASE t # parent[r]
      BY <3>1, <3>3, <2>1 DEF ChildrenLinked
    <3> QED BY <3>2, <3>3
  <2> QED BY <2>3, <2>4, <2>5
<1> QED BY <1>1, <1>2

LEMMA AllocIInv ==
    ASSUME IInv, NEW r \in Region, NEW s \in Storage, NEW request \in Request,
           RegionAlloc(r, s, request)
    PROVE  IInv'
<1> USE DEF IInv
<1>1. /\ Append(alloced[r], s) \in Seq(Storage)
      /\ NoRepeats(Append(alloced[r], s))
      /\ ToSet(Append(alloced[r], s)) = ToSet(alloced[r]) \cup {s}
  <2>1. alloced[r] \in Seq(Storage) /\ NoRepeats(alloced[r]) /\ s \notin ToSet(alloced[r])
    BY DEF TypeOK, ListsOwned, RegionAlloc
  <2> QED BY <2>1, AppendProperty
<1>2. TypeOK'
  BY <1>1 DEF TypeOK, RegionAlloc
<1>3. ListsOwned'
  BY <1>1 DEF ListsOwned, TypeOK, RegionAlloc
<1>4. ChildrenLinked'
  BY DEF ChildrenLinked, RegionAlloc
<1> QED BY <1>2, <1>3, <1>4

LEMMA RehomeIInv ==
    ASSUME IInv, NEW s \in storages, NEW r \in regions, owner[s] \in regions, Rehome(s, r)
    PROVE  IInv'
<1> USE DEF IInv
<1> DEFINE o == owner[s]
           without == [alloced EXCEPT ![o] = RemoveFirst(alloced[o], s)]
<1>0. s \in Storage /\ r \in Region /\ o \in Region /\ alloced \in [Region -> Seq(Storage)]
  BY DEF TypeOK
<1>1. /\ RemoveFirst(alloced[o], s) \in Seq(Storage)
      /\ NoRepeats(RemoveFirst(alloced[o], s))
      /\ ToSet(RemoveFirst(alloced[o], s)) = ToSet(alloced[o]) \ {s}
  <2>1. alloced[o] \in Seq(Storage) /\ NoRepeats(alloced[o])
    BY <1>0 DEF ListsOwned
  <2> QED BY <2>1, RemoveFirstProperties
<1>2. \A t \in Region : without[t] \in Seq(Storage)
  BY <1>0, <1>1
<1>3. \A t \in regions : /\ NoRepeats(without[t])
                         /\ s \notin ToSet(without[t])
                         /\ ToSet(without[t]) \subseteq ToSet(alloced[t])
  BY <1>0, <1>1 DEF ListsOwned, TypeOK
<1>4. alloced' = [without EXCEPT ![r] = Append(without[r], s)] /\ without \in [Region -> Seq(Storage)]
  BY <1>0, <1>2 DEF Rehome
<1>5. /\ owner' = [owner EXCEPT ![s] = r]
      /\ UNCHANGED <<regions, parent, children, storages, layout, fault>>
  BY DEF Rehome
<1> HIDE DEF without
<1>6. /\ Append(without[r], s) \in Seq(Storage)
      /\ NoRepeats(Append(without[r], s))
      /\ ToSet(Append(without[r], s)) = ToSet(without[r]) \cup {s}
  BY <1>0, <1>3, <1>4, AppendProperty
<1>7. TypeOK'
  <2>1. alloced' \in [Region -> Seq(Storage)]
    BY <1>4, <1>6
  <2> QED BY <2>1, <1>0, <1>5 DEF TypeOK
<1>8. ListsOwned'
  <2> SUFFICES ASSUME NEW t \in regions
               PROVE  /\ NoRepeats(alloced'[t])
                      /\ \A x \in ToSet(alloced'[t]) : x \in storages /\ owner'[x] = t
    BY <1>5 DEF ListsOwned
  <2>1. t \in Region
    BY DEF TypeOK
  <2>2. ASSUME NEW x \in ToSet(without[t])
        PROVE  x \in storages /\ owner'[x] = t
    <3>1. x \in storages /\ owner[x] = t /\ x # s
      BY <2>2, <1>3 DEF ListsOwned
    <3>2. x \in Storage
      BY <3>1 DEF TypeOK
    <3> QED BY <3>1, <3>2, <1>5 DEF TypeOK
  <2>3. owner'[s] = r
    BY <1>0, <1>5 DEF TypeOK
  <2>4. CASE t = r
    <3>1. alloced'[t] = Append(without[r], s)
      BY <2>4, <1>0, <1>4
    <3> QED BY <3>1, <2>2, <2>3, <2>4, <1>6
  <2>5. CASE t # r
    <3>1. alloced'[t] = without[t]
      BY <2>1, <2>5, <1>4
    <3> QED BY <3>1, <2>2, <1>3
  <2> QED BY <2>4, <2>5
<1>9. ChildrenLinked'
  BY <1>5 DEF ChildrenLinked
<1> QED BY <1>7, <1>8, <1>9

LEMMA NextIInv ==
    ASSUME IInv, [Next]_vars
    PROVE  IInv'
<1> USE DEF IInv
<1>1. ASSUME NEW r \in Region, NEW p \in Region \cup {NULL}, CreateRegion(r, p)
      PROVE  IInv'
  BY <1>1, CreateIInv
<1>2. ASSUME NEW r \in Region, DestroyRegion(r)
      PROVE  IInv'
  BY <1>2, DestroyIInv
<1>3. ASSUME NEW r \in Region, NEW s \in Storage, NEW request \in Request,
             RegionAlloc(r, s, request)
      PROVE  IInv'
  BY <1>3, AllocIInv
<1>4. CASE Dangle
  BY <1>4 DEF Dangle, TypeOK, ListsOwned, ChildrenLinked
<1>5. ASSUME NEW s \in Storage, NEW r \in Region, StorageTransfer(s, r)
      PROVE  IInv'
  BY <1>4, <1>5, RehomeIInv DEF StorageTransfer
<1>6. ASSUME NEW s \in Storage, NEW levels \in Levels, StoragePreserve(s, levels)
      PROVE  IInv'
  <2>1. PICK traveled \in 0 .. levels : \E path \in ParentPath(owner[s], traveled) :
          \/ Dangle
          \/ path[traveled] \in regions /\ path[traveled] # owner[s] /\ Rehome(s, path[traveled])
    BY <1>6 DEF StoragePreserve
  <2>2. PICK path \in ParentPath(owner[s], traveled) :
          \/ Dangle
          \/ path[traveled] \in regions /\ path[traveled] # owner[s] /\ Rehome(s, path[traveled])
    BY <2>1
  <2>3. traveled \in Nat
    BY LevelsAssumption
  <2>4. s \in storages
    BY <1>6 DEF StoragePreserve
  <2>5. CASE path[traveled] \in regions /\ path[traveled] # owner[s] /\ Rehome(s, path[traveled])
    \* The climb left the owner, so it dereferenced it.
    <3>1. traveled > 0 /\ path[0] = owner[s]
      BY <2>2, <2>3, <2>5 DEF ParentPath
    <3>2. owner[s] \in regions
      BY <3>1, <2>2, <2>3 DEF ParentPath
    <3> QED BY <3>2, <2>4, <2>5, RehomeIInv
  <2> QED BY <2>2, <2>5, <1>4
<1>7. CASE UNCHANGED vars
  BY <1>7 DEF vars, TypeOK, ListsOwned, ChildrenLinked
<1> QED BY <1>1, <1>2, <1>3, <1>5, <1>6, <1>7 DEF Next

\* The inductive invariant holds for every client that passes live handles.
THEOREM InductiveInvariant == Spec => []IInv
<1> QED BY InitIInv, NextIInv, PTL DEF Spec

\* The links of lib/Region.cpp keep their types (lib/Region.hpp).
THEOREM TypeCorrect == Spec => []TypeOK
<1>1. IInv => TypeOK
  BY DEF IInv
<1> QED BY <1>1, InductiveInvariant, PTL

\* No storage is ever listed twice, and ~LemniRegionT frees live storages
\* only, for every sequence of calls on live handles.
THEOREM NoDoubleFree == Spec => []ListsOwned
<1>1. IInv => ListsOwned
  BY DEF IInv
<1> QED BY <1>1, InductiveInvariant, PTL

\* The children lists lead to live regions only.
THEOREM ChildrenAlwaysLinked == Spec => []ChildrenLinked
<1>1. IInv => ChildrenLinked
  BY DEF IInv
<1> QED BY <1>1, InductiveInvariant, PTL

LEMMA FreedByDestroy ==
    ASSUME IInv, [Next]_vars, NEW s \in storages \ storages'
    PROVE  owner[s] \in regions \ regions'
<1>1. PICK r \in Region : DestroyRegion(r)
  BY DEF Next, vars, CreateRegion, RegionAlloc, StorageTransfer, StoragePreserve, Rehome, Dangle
<1>2. /\ r \in regions
      /\ regions' = regions \ {r}
      /\ s \in FreedWith(r)
  BY <1>1 DEF DestroyRegion, Dangle
<1>3. s \in ToSet(alloced[r])
  BY <1>2 DEF FreedWith
<1>4. owner[s] = r
  BY <1>2, <1>3 DEF IInv, ListsOwned
<1> QED BY <1>2, <1>3, <1>4

\* A storage dies only in the step that destroys its owner: what was preserved
\* or transferred to a live region survives the region it came from.
THEOREM FreedByOwner == Spec => FreedByOwnerOnly
<1>1. IInv /\ [Next]_vars =>
        [\A s \in storages \ storages' : owner[s] \in regions \ regions']_vars
  BY FreedByDestroy
<1> QED BY <1>1, InductiveInvariant, PTL DEF Spec, FreedByOwnerOnly

-----------------------------------------------------------------------------
(* The children lists have no cycle: a new region lists nobody, and lists  *)
(* only shrink otherwise.                                                  *)

LEMMA CreateAcyclic ==
    ASSUME IInv, DownwardAcyclic, NEW r \in Region, NEW p \in Region \cup {NULL}, CreateRegion(r, p)
    PROVE  DownwardAcyclic'
<1> USE DEF IInv
<1> SUFFICES ASSUME NEW S \in SUBSET regions', ListedWithin(S)' PROVE S = {}
  BY DEF DownwardAcyclic
<1>1. /\ r \notin regions /\ p # r /\ regions' = regions \cup {r}
      /\ children' = [q \in Region |-> IF q = p THEN Append(children[q], r)
                                       ELSE IF q = r THEN <<>> ELSE children[q]]
  BY NullAssumption DEF CreateRegion
<1>2. ASSUME NEW t \in S
      PROVE  \E q \in S \ {r} : t = r \/ t \in ToSet(children[q])
  <2>1. PICK q \in S : t \in ToSet(children'[q])
    BY DEF ListedWithin
  <2>2. q \in Region
    BY <1>1 DEF TypeOK
  <2>3. q # r
    <3>1. CASE q = r
      BY <1>1, <2>1, <2>2, <3>1 DEF ToSet
    <3> QED BY <3>1
  <2>4. CASE q = p
    <3>1. q \in regions /\ children[q] \in Seq(Region)
      BY <1>1, <2>3 DEF TypeOK
    <3>2. NoRepeats(children[q]) /\ r \notin ToSet(children[q])
      BY <1>1, <3>1 DEF ChildrenLinked
    <3>3. ToSet(children'[q]) = ToSet(children[q]) \cup {r}
      BY <1>1, <2>2, <2>4, <3>1, <3>2, AppendProperty
    <3> QED BY <2>1, <2>3, <3>3
  <2>5. CASE q # p
    BY <1>1, <2>1, <2>2, <2>3, <2>5
  <2> QED BY <2>4, <2>5
<1>3. ListedWithin(S \ {r})
  BY <1>2 DEF ListedWithin
<1>4. S \ {r} = {}
  BY <1>1, <1>3 DEF DownwardAcyclic
<1> QED BY <1>2, <1>4

LEMMA DestroyAcyclic ==
    ASSUME IInv, DownwardAcyclic, NEW r \in Region, DestroyRegion(r)
    PROVE  DownwardAcyclic'
<1> USE DEF IInv
<1> SUFFICES ASSUME NEW S \in SUBSET regions', ListedWithin(S)' PROVE S = {}
  BY DEF DownwardAcyclic
<1>1. CASE Dangle
  BY <1>1 DEF Dangle, DownwardAcyclic, ListedWithin
<1>2. CASE ~Dangle
  <2>1. regions' = regions \ {r} /\ children' = Unlinked(r)
    BY <1>2 DEF DestroyRegion
  <2>2. ASSUME NEW q \in S
        PROVE  ToSet(children'[q]) \subseteq ToSet(children[q])
    <3>1. q \in regions /\ q \in Region
      BY <2>1 DEF TypeOK
    <3>2. children[q] \in Seq(Region) /\ NoRepeats(children[q])
      BY <3>1 DEF TypeOK, ChildrenLinked
    <3>3. CASE q = parent[r]
      <4>1. children'[q] = RemoveFirst(children[q], r)
        BY <2>1, <3>1, <3>3 DEF Unlinked
      <4> QED BY <4>1, <3>2, RemoveFirstProperties
    <3>4. CASE q # parent[r]
      BY <2>1, <3>1, <3>4 DEF Unlinked
    <3> QED BY <3>3, <3>4
  <2>3. ListedWithin(S)
    BY <2>2 DEF ListedWithin
  <2> QED BY <2>1, <2>3 DEF DownwardAcyclic
<1> QED BY <1>1, <1>2

\* The recursive queries of lib/Region.cpp end, whatever the client destroyed
\* before: no live region is below itself.
THEOREM AlwaysAcyclic == Spec => []DownwardAcyclic
<1>1. Init => DownwardAcyclic
  BY DEF Init, DownwardAcyclic
<1>2. IInv /\ DownwardAcyclic /\ [Next]_vars => DownwardAcyclic'
  <2> SUFFICES ASSUME IInv, DownwardAcyclic, [Next]_vars PROVE DownwardAcyclic'
    OBVIOUS
  <2>1. CASE \E r \in Region, p \in Region \cup {NULL} : CreateRegion(r, p)
    BY <2>1, CreateAcyclic
  <2>2. CASE \E r \in Region : DestroyRegion(r)
    BY <2>2, DestroyAcyclic
  <2>3. CASE UNCHANGED <<regions, children>>
    BY <2>3 DEF DownwardAcyclic, ListedWithin
  <2> QED BY <2>1, <2>2, <2>3
      DEF Next, vars, RegionAlloc, StorageTransfer, StoragePreserve, Rehome, Dangle
<1> QED BY <1>1, <1>2, InductiveInvariant, PTL DEF Spec

-----------------------------------------------------------------------------
(* An orderly client never follows a dangling link, loses no storage, and  *)
(* gets what RegionContract promises.                                      *)

OInv == IInv /\ NoOrphans

-----------------------------------------------------------------------------
(* What an orderly client's calls do.  Each lemma says which variables of  *)
(* Regions change, with the invariants in use.                             *)

\* Neither a transfer nor a destruction finds a link to a freed object.
LEMMA OwnersLive ==
    ASSUME OInv, NEW s \in storages
    PROVE  s \in Storage /\ owner[s] \in regions /\ owner[s] \in Region /\ s \in ToSet(alloced[owner[s]])
BY DEF OInv, IInv, TypeOK, NoOrphans

LEMMA ParentsLive ==
    ASSUME OInv, NEW r \in regions
    PROVE  /\ r \in Region /\ parent[r] \in regions \cup {NULL}
           /\ parent[r] # NULL => r \in ToSet(children[parent[r]])
BY DEF OInv, IInv, TypeOK, NoOrphans

\* A climb along the parents ends at a live region.
LEMMA PathsLive ==
    ASSUME OInv, NEW s \in storages, NEW n \in Nat, NEW path \in ParentPath(owner[s], n)
    PROVE  path[n] \in regions
<1>1. path \in [0 .. n -> Region] /\ path[0] = owner[s]
      /\ \A i \in 0 .. n - 1 : path[i] \in regions /\ parent[path[i]] = path[i + 1]
  BY DEF ParentPath
<1>2. CASE n = 0
  BY <1>1, <1>2, OwnersLive
<1>3. CASE n # 0
  <2>1. n - 1 \in 0 .. n - 1 /\ (n - 1) + 1 = n /\ n \in 0 .. n
    BY <1>3
  <2>2. path[n - 1] \in regions /\ parent[path[n - 1]] = path[n] /\ path[n] \in Region
    BY <1>1, <2>1
  <2> QED BY <2>2, ParentsLive, NullAssumption
<1> QED BY <1>2, <1>3

LEMMA TransferRehomes ==
    ASSUME OInv, NEW s, NEW r, StorageTransfer(s, r)
    PROVE  s \in storages /\ r \in regions /\ Rehome(s, r)
BY OwnersLive DEF StorageTransfer

LEMMA PreserveRehomes ==
    ASSUME OInv, NEW s, NEW levels \in Levels, StoragePreserve(s, levels)
    PROVE  s \in storages /\ \E r \in regions : Rehome(s, r)
<1>1. s \in storages
  BY DEF StoragePreserve
<1>2. PICK n \in 0 .. levels : \E path \in ParentPath(owner[s], n) :
          path[n] \notin regions \/ Rehome(s, path[n])
  BY DEF StoragePreserve
<1>3. PICK path \in ParentPath(owner[s], n) :
          path[n] \notin regions \/ Rehome(s, path[n])
  BY <1>2
<1>4. n \in Nat
  BY LevelsAssumption
<1>5. path[n] \in regions
  BY <1>1, <1>3, <1>4, PathsLive
<1> QED BY <1>1, <1>3, <1>5

\* The destruction of a region that is left alone and empty, or has no parent.
LEMMA DestroyFrees ==
    ASSUME OInv, NEW r \in regions, DestroyRegion(r), Discharged(r)
    PROVE  /\ regions' = regions \ {r} /\ children' = Unlinked(r)
           /\ storages' = {s \in storages : owner[s] # r}
           /\ UNCHANGED <<parent, alloced, owner, layout, fault>>
<1>1. /\ regions' = regions \ {r} /\ children' = Unlinked(r)
      /\ storages' = storages \ FreedWith(r)
      /\ UNCHANGED <<parent, alloced, owner, layout, fault>>
  BY ParentsLive DEF DestroyRegion
<1>2. ASSUME NEW s \in storages
      PROVE  s \in FreedWith(r) <=> owner[s] = r
  <2>1. s \in ToSet(alloced[owner[s]])
    BY OwnersLive
  <2>2. \A t \in ToSet(alloced[r]) : owner[t] = r
    BY DEF OInv, IInv, ListsOwned
  <2>3. CASE parent[r] = NULL
    BY <2>1, <2>2, <2>3 DEF FreedWith
  <2>4. CASE parent[r] # NULL
    <3>1. alloced[r] = <<>>
      BY <2>4 DEF Discharged
    <3>2. owner[s] # r
      BY <2>1, <3>1 DEF ToSet
    <3> QED BY <2>4, <3>2 DEF FreedWith
  <2> QED BY <2>3, <2>4
<1> QED BY <1>1, <1>2

-----------------------------------------------------------------------------
(* The invariant.                                                          *)

LEMMA CreateNoOrphans ==
    ASSUME OInv, NEW r \in Region, NEW p \in Region \cup {NULL}, CreateRegion(r, p)
    PROVE  NoOrphans'
<1> USE DEF OInv, IInv
<1>1. /\ r \notin regions /\ p \in regions \cup {NULL} /\ p # r
      /\ regions' = regions \cup {r} /\ parent' = [parent EXCEPT ![r] = p]
      /\ children' = [q \in Region |-> IF q = p THEN Append(children[q], r)
                                       ELSE IF q = r THEN <<>> ELSE children[q]]
      /\ alloced' = [alloced EXCEPT ![r] = <<>>] /\ UNCHANGED <<storages, owner>>
  BY NullAssumption DEF CreateRegion
<1>2. ASSUME NEW s \in storages'
      PROVE  owner'[s] \in regions' /\ s \in ToSet(alloced'[owner'[s]])
  <2>1. owner[s] \in regions /\ owner[s] \in Region /\ owner[s] # r /\ s \in ToSet(alloced[owner[s]])
    BY <1>1, OwnersLive
  <2> QED BY <1>1, <2>1 DEF TypeOK
<1>3. ASSUME NEW q \in regions
      PROVE  ToSet(children[q]) \subseteq ToSet(children'[q])
  <2>1. q \in Region /\ q # r /\ children[q] \in Seq(Region) /\ NoRepeats(children[q])
        /\ r \notin ToSet(children[q])
    BY <1>1 DEF TypeOK, ChildrenLinked
  <2>2. CASE q = p
    BY <1>1, <2>1, <2>2, AppendProperty
  <2>3. CASE q # p
    BY <1>1, <2>1, <2>3
  <2> QED BY <2>2, <2>3
<1>4. ASSUME NEW q \in regions', parent'[q] # NULL
      PROVE  parent'[q] \in regions' /\ q \in ToSet(children'[parent'[q]])
  <2>1. CASE q = r
    <3>1. parent'[q] = p /\ p \in regions
      BY <1>1, <1>4, <2>1 DEF TypeOK
    <3>2. p \in Region /\ children[p] \in Seq(Region) /\ NoRepeats(children[p])
          /\ r \notin ToSet(children[p])
      BY <1>1, <3>1 DEF TypeOK, ChildrenLinked
    <3>3. r \in ToSet(children'[p])
      BY <1>1, <3>2, AppendProperty
    <3> QED BY <1>1, <2>1, <3>1, <3>3
  <2>2. CASE q # r
    <3>1. q \in regions /\ parent'[q] = parent[q]
      BY <1>1, <2>2 DEF TypeOK
    <3>2. parent[q] \in regions /\ q \in ToSet(children[parent[q]])
      BY <1>4, <3>1, ParentsLive
    <3>3. q \in ToSet(children'[parent[q]])
      BY <1>3, <3>2
    <3>4. parent[q] \in regions'
      BY <1>1, <3>2
    <3> QED BY <3>1, <3>3, <3>4
  <2> QED BY <2>1, <2>2
<1> QED BY <1>2, <1>4 DEF NoOrphans

LEMMA DestroyNoOrphans ==
    ASSUME OInv, NEW r \in regions, DestroyRegion(r), Discharged(r)
    PROVE  NoOrphans'
<1> USE DEF OInv, IInv
<1>1. /\ regions' = regions \ {r} /\ children' = Unlinked(r)
      /\ storages' = {s \in storages : owner[s] # r}
      /\ UNCHANGED <<parent, alloced, owner>>
  BY DestroyFrees
<1>2. ASSUME NEW s \in storages'
      PROVE  owner'[s] \in regions' /\ s \in ToSet(alloced'[owner'[s]])
  BY <1>1, <1>2, OwnersLive
<1>3. ASSUME NEW q \in regions', parent'[q] # NULL
      PROVE  parent'[q] \in regions' /\ q \in ToSet(children'[parent'[q]])
  <2>1. q # r /\ parent[q] \in regions /\ parent[q] \in Region /\ q \in ToSet(children[parent[q]])
    BY <1>1, <1>3, ParentsLive DEF TypeOK
  <2>2. parent[q] # r
    <3>1. ToSet(children[r]) = {}
      BY DEF Discharged, ToSet
    <3> QED BY <2>1, <3>1
  <2>3. q \in ToSet(children'[parent[q]])
    <3>1. CASE parent[q] = parent[r]
      <4>1. children'[parent[q]] = RemoveFirst(children[parent[q]], r)
        BY <1>1, <2>1, <3>1 DEF Unlinked
      <4>2. children[parent[q]] \in Seq(Region) /\ NoRepeats(children[parent[q]])
        BY <2>1 DEF TypeOK, ChildrenLinked
      <4> QED BY <2>1, <4>1, <4>2, RemoveFirstProperties
    <3>2. CASE parent[q] # parent[r]
      BY <1>1, <2>1, <3>2 DEF Unlinked
    <3> QED BY <3>1, <3>2
  <2> QED BY <1>1, <2>1, <2>2, <2>3
<1> QED BY <1>2, <1>3 DEF NoOrphans

LEMMA AllocNoOrphans ==
    ASSUME OInv, NEW r \in Region, NEW s \in Storage, NEW request, RegionAlloc(r, s, request)
    PROVE  NoOrphans'
<1> USE DEF OInv, IInv
<1>1. /\ r \in regions /\ s \notin storages /\ storages' = storages \cup {s}
      /\ owner' = [owner EXCEPT ![s] = r] /\ alloced' = [alloced EXCEPT ![r] = Append(@, s)]
      /\ UNCHANGED <<regions, parent, children>>
  BY DEF RegionAlloc
<1>2. alloced[r] \in Seq(Storage) /\ NoRepeats(alloced[r]) /\ s \notin ToSet(alloced[r])
  BY <1>1 DEF TypeOK, ListsOwned
<1>3. ToSet(Append(alloced[r], s)) = ToSet(alloced[r]) \cup {s}
  BY <1>2, AppendProperty
<1>4. ASSUME NEW t \in storages'
      PROVE  owner'[t] \in regions' /\ t \in ToSet(alloced'[owner'[t]])
  <2>1. CASE t = s
    BY <1>1, <1>3, <2>1 DEF TypeOK
  <2>2. CASE t # s
    <3>1. t \in storages /\ owner'[t] = owner[t]
      BY <1>1, <2>2 DEF TypeOK
    <3>2. owner[t] \in regions /\ owner[t] \in Region /\ t \in ToSet(alloced[owner[t]])
      BY <3>1, OwnersLive
    <3> QED BY <1>1, <1>3, <3>1, <3>2 DEF TypeOK
  <2> QED BY <2>1, <2>2
<1> QED BY <1>1, <1>4 DEF NoOrphans

LEMMA RehomeNoOrphans ==
    ASSUME OInv, NEW s \in storages, NEW r \in regions, Rehome(s, r)
    PROVE  NoOrphans'
<1> USE DEF OInv, IInv
<1> DEFINE without == [alloced EXCEPT ![owner[s]] = RemoveFirst(@, s)]
<1>1. /\ alloced' = [without EXCEPT ![r] = Append(@, s)] /\ owner' = [owner EXCEPT ![s] = r]
      /\ UNCHANGED <<regions, parent, children, storages>>
  BY DEF Rehome
<1>2. s \in Storage /\ r \in Region /\ owner[s] \in regions /\ owner[s] \in Region
  BY OwnersLive DEF TypeOK
<1>3. \A q \in regions : /\ q \in Region /\ alloced[q] \in Seq(Storage) /\ NoRepeats(alloced[q])
                         /\ \A t \in ToSet(alloced[q]) : owner[t] = q
  BY DEF TypeOK, ListsOwned
<1>4. \A q \in regions : /\ without[q] \in Seq(Storage) /\ NoRepeats(without[q])
                         /\ ToSet(without[q]) = ToSet(alloced[q]) \ {s}
  <2> SUFFICES ASSUME NEW q \in regions
               PROVE  /\ without[q] \in Seq(Storage) /\ NoRepeats(without[q])
                      /\ ToSet(without[q]) = ToSet(alloced[q]) \ {s}
    OBVIOUS
  <2>1. CASE q = owner[s]
    <3>1. without[q] = RemoveFirst(alloced[q], s)
      BY <1>3, <2>1 DEF TypeOK
    <3> QED BY <1>3, <3>1, RemoveFirstProperties
  <2>2. CASE q # owner[s]
    BY <1>3, <2>2 DEF TypeOK
  <2> QED BY <2>1, <2>2
<1>5. without \in [Region -> Seq(Storage)]
  BY <1>2, <1>3, <1>4 DEF TypeOK
<1> HIDE DEF without
<1>6. ToSet(Append(without[r], s)) = (ToSet(alloced[r]) \ {s}) \cup {s}
  <2>1. without[r] \in Seq(Storage) /\ NoRepeats(without[r]) /\ s \notin ToSet(without[r])
    BY <1>4
  <2>2. ToSet(Append(without[r], s)) = ToSet(without[r]) \cup {s}
    BY <1>2, <2>1, AppendProperty
  <2> QED BY <1>4, <2>2
<1>7. ASSUME NEW t \in storages'
      PROVE  owner'[t] \in regions' /\ t \in ToSet(alloced'[owner'[t]])
  <2>1. CASE t = s
    BY <1>1, <1>2, <1>5, <1>6, <2>1 DEF TypeOK
  <2>2. CASE t # s
    <3>1. t \in storages /\ owner'[t] = owner[t]
      BY <1>1, <2>2 DEF TypeOK
    <3>2. owner[t] \in regions /\ owner[t] \in Region /\ t \in ToSet(alloced[owner[t]])
      BY <3>1, OwnersLive
    <3>3. CASE owner[t] = r
      BY <1>1, <1>5, <1>6, <2>2, <3>1, <3>2, <3>3
    <3>4. CASE owner[t] # r
      <4>1. t \in ToSet(without[owner[t]])
        BY <1>4, <2>2, <3>2
      <4>2. alloced'[owner[t]] = without[owner[t]]
        BY <1>1, <1>5, <3>2, <3>4
      <4> QED BY <1>1, <3>1, <3>2, <4>1, <4>2
    <3> QED BY <3>3, <3>4
  <2> QED BY <2>1, <2>2
<1> QED BY <1>1, <1>7 DEF NoOrphans

LEMMA OrderlyPreserves ==
    ASSUME OInv, [OrderlyNext]_vars
    PROVE  OInv'
<1>1. IInv'
  BY NextIInv DEF OInv, OrderlyNext
<1>2. NoOrphans'
  <2>1. CASE \E r \in Region, p \in Region \cup {NULL} : CreateRegion(r, p)
    BY <2>1, CreateNoOrphans
  <2>2. CASE OrderlyNext /\ \E r \in Region : DestroyRegion(r)
    <3>1. PICK r \in regions : DestroyRegion(r)
      BY <2>2 DEF DestroyRegion
    <3>2. r \notin regions'
      BY <3>1, ParentsLive DEF DestroyRegion
    <3>3. Discharged(r)
      BY <2>2, <3>1, <3>2 DEF OrderlyNext
    <3> QED BY <3>1, <3>3, DestroyNoOrphans
  <2>3. CASE \E r \in Region, s \in Storage, request \in Request : RegionAlloc(r, s, request)
    BY <2>3, AllocNoOrphans
  <2>4. CASE \E s \in Storage, r \in Region : StorageTransfer(s, r)
    BY <2>4, TransferRehomes, RehomeNoOrphans
  <2>5. CASE \E s \in Storage, levels \in Levels : StoragePreserve(s, levels)
    BY <2>5, PreserveRehomes, RehomeNoOrphans
  <2>6. CASE UNCHANGED vars
    BY <2>6 DEF vars, OInv, NoOrphans
  <2> QED BY <2>1, <2>2, <2>3, <2>4, <2>5, <2>6 DEF OrderlyNext, Next
<1> QED BY <1>1, <1>2 DEF OInv

\* An orderly client never loses a storage or a region: the invariant of every
\* client, and that whatever is live is listed by what it names.
THEOREM OrderlyInvariant == OrderlySpec => []OInv
<1>1. Init => OInv
  BY InitIInv DEF Init, OInv, NoOrphans
<1>2. OInv /\ [OrderlyNext]_vars => OInv'
  BY OrderlyPreserves
<1> QED BY <1>1, <1>2, PTL DEF OrderlySpec

\* There is always a region whose destruction frees a live storage
\* (lib/Region.hpp, ~LemniRegionT).
THEOREM NeverOrphaned == OrderlySpec => []NoOrphans
<1>1. OInv => NoOrphans
  BY DEF OInv
<1> QED BY <1>1, OrderlyInvariant, PTL

LEMMA OrderlyStepFaultless ==
    ASSUME OInv, [OrderlyNext]_vars
    PROVE  fault' = fault
<1>1. CASE OrderlyNext /\ \E r \in Region : DestroyRegion(r)
  BY <1>1, ParentsLive DEF DestroyRegion
<1>2. CASE \E s \in Storage, r \in Region : StorageTransfer(s, r)
  BY <1>2, TransferRehomes DEF Rehome
<1>3. CASE \E s \in Storage, levels \in Levels : StoragePreserve(s, levels)
  BY <1>3, PreserveRehomes DEF Rehome
<1> QED BY <1>1, <1>2, <1>3 DEF OrderlyNext, Next, vars, CreateRegion, RegionAlloc

\* No call of an orderly client follows a link to a region that was freed.
THEOREM NeverFaults == OrderlySpec => []NoFault
<1>1. Init => NoFault
  BY DEF Init, NoFault
<1>2. OInv /\ NoFault /\ [OrderlyNext]_vars => NoFault'
  BY OrderlyStepFaultless DEF NoFault
<1> QED BY <1>1, <1>2, OrderlyInvariant, PTL DEF OrderlySpec

-----------------------------------------------------------------------------
(* The refinement: what a client sees are the regions that are live, the   *)
(* region each live storage is in and the region each live region was      *)
(* created in.  Lists, layouts and what freed memory contains are hidden.  *)

held == [s \in Storage |-> IF s \in storages THEN owner[s] ELSE NULL]
within == [r \in Region |-> IF r \in regions THEN parent[r] ELSE NULL]

LEMMA CreateOpens ==
    ASSUME OInv, NEW r \in Region, NEW p \in Region \cup {NULL}, CreateRegion(r, p)
    PROVE  Contract!Open(r, p)
<1>1. /\ r \notin regions /\ p \in regions \cup {NULL} /\ regions' = regions \cup {r}
      /\ parent' = [parent EXCEPT ![r] = p] /\ UNCHANGED <<storages, owner>>
  BY DEF CreateRegion
<1>2. parent \in [Region -> Region \cup {NULL}]
  BY DEF OInv, IInv, TypeOK
<1>3. within' = [within EXCEPT ![r] = p]
  BY <1>1, <1>2 DEF within
<1>4. held' = held
  BY <1>1 DEF held
<1> QED BY <1>1, <1>3, <1>4 DEF Contract!Open, held, within

LEMMA DestroyCloses ==
    ASSUME OInv, NEW r \in regions, DestroyRegion(r), Discharged(r)
    PROVE  Contract!Close(r)
<1>1. /\ regions' = regions \ {r} /\ storages' = {s \in storages : owner[s] # r}
      /\ UNCHANGED <<parent, owner>>
  BY DestroyFrees
<1>2. r \in Region /\ regions \subseteq Region
  BY DEF OInv, IInv, TypeOK
<1>3. \A q \in regions : within[q] # r
  <2> SUFFICES ASSUME NEW q \in regions, parent[q] = r PROVE FALSE
    BY <1>2 DEF within
  <2>1. r # NULL
    BY <1>2, NullAssumption
  <2>2. q \in ToSet(children[r])
    BY <2>1, ParentsLive
  <2> QED BY <2>2 DEF Discharged, ToSet
<1>4. within' = [within EXCEPT ![r] = NULL]
  BY <1>1, <1>2 DEF within
<1>5. held' = [s \in Storage |-> IF held[s] = r THEN NULL ELSE held[s]]
  BY <1>1 DEF held
<1> QED BY <1>1, <1>3, <1>4, <1>5 DEF Contract!Close, held, within

LEMMA AllocAllocates ==
    ASSUME OInv, NEW r \in Region, NEW s \in Storage, NEW request, RegionAlloc(r, s, request)
    PROVE  Contract!Allocate(s, r)
<1>1. /\ r \in regions /\ s \notin storages /\ storages' = storages \cup {s}
      /\ owner' = [owner EXCEPT ![s] = r] /\ UNCHANGED <<regions, parent>>
  BY DEF RegionAlloc
<1>2. owner \in [Storage -> Region \cup {NULL}]
  BY DEF OInv, IInv, TypeOK
<1>3. held[s] = NULL /\ held' = [held EXCEPT ![s] = r]
  BY <1>1, <1>2 DEF held
<1>4. within' = within
  BY <1>1 DEF within
<1> QED BY <1>1, <1>3, <1>4 DEF Contract!Allocate, held, within

LEMMA RehomeMoves ==
    ASSUME OInv, NEW s \in storages, NEW r \in regions, Rehome(s, r)
    PROVE  s \in Storage /\ r \in Region /\ Contract!Move(s, r)
<1>1. owner' = [owner EXCEPT ![s] = r] /\ UNCHANGED <<regions, parent, storages>>
  BY DEF Rehome
<1>2. owner \in [Storage -> Region \cup {NULL}] /\ s \in Storage /\ r \in Region
      /\ owner[s] \in Region
  BY OwnersLive DEF OInv, IInv, TypeOK
<1>3. held[s] # NULL /\ held' = [held EXCEPT ![s] = r]
  BY <1>1, <1>2, NullAssumption DEF held
<1>4. within' = within
  BY <1>1 DEF within
<1> QED BY <1>1, <1>2, <1>3, <1>4 DEF Contract!Move, held, within

LEMMA OrderlyStepPromised ==
    ASSUME OInv, [OrderlyNext]_vars
    PROVE  [Contract!Next]_<<regions, held, within>>
<1>1. CASE \E r \in Region, p \in Region \cup {NULL} : CreateRegion(r, p)
  BY <1>1, CreateOpens DEF Contract!Next
<1>2. CASE OrderlyNext /\ \E r \in Region : DestroyRegion(r)
  <2>1. PICK r \in Region : DestroyRegion(r) /\ r \in regions
    BY <1>2 DEF DestroyRegion
  <2>2. r \notin regions'
    BY <2>1, ParentsLive DEF DestroyRegion
  <2>3. Contract!Close(r)
    BY <1>2, <2>1, <2>2, DestroyCloses DEF OrderlyNext
  <2> QED BY <2>1, <2>3 DEF Contract!Next
<1>3. CASE \E r \in Region, s \in Storage, request \in Request : RegionAlloc(r, s, request)
  BY <1>3, AllocAllocates DEF Contract!Next
<1>4. CASE \E s \in storages, r \in regions : Rehome(s, r)
  BY <1>4, RehomeMoves DEF Contract!Next
<1>5. CASE UNCHANGED vars
  BY <1>5 DEF vars, held, within
<1>6. ASSUME NEW s \in Storage, NEW r \in Region, StorageTransfer(s, r)
      PROVE  \E t \in storages, q \in regions : Rehome(t, q)
  BY <1>6, TransferRehomes
<1>7. ASSUME NEW s \in Storage, NEW levels \in Levels, StoragePreserve(s, levels)
      PROVE  \E t \in storages, q \in regions : Rehome(t, q)
  BY <1>7, PreserveRehomes
<1> QED BY <1>1, <1>2, <1>3, <1>4, <1>5, <1>6, <1>7 DEF OrderlyNext, Next

\* include/lemni/Region.h: to an orderly client, the lists and links of
\* lib/Region.cpp are storages that live in one region each and die with it.
THEOREM PromisesKept == OrderlySpec => ImplementsContract
<1>1. Init => Contract!Init
  <2> SUFFICES ASSUME Init PROVE Contract!Init
    OBVIOUS
  <2> QED BY DEF Init, Contract!Init
<1>2. OInv /\ [OrderlyNext]_vars => [Contract!Next]_(Contract!cvars)
  BY OrderlyStepPromised DEF Contract!cvars, held, within
<1> QED BY <1>1, <1>2, OrderlyInvariant, PTL DEF OrderlySpec, ImplementsContract, Contract!Spec

-----------------------------------------------------------------------------
(* Naturals and finite sets.                                               *)

\* A set of naturals that is not empty has a least element.
LEMMA LeastNat ==
  ASSUME NEW S \in SUBSET Nat, S # {}
  PROVE  \E n \in S : \A m \in S : n <= m
<1> DEFINE R == OpToRel(<, Nat)
<1>1. IsWellFoundedOn(R, Nat)
  BY NatLessThanWellFounded
<1>2. PICK n \in S : \A m \in S : <<m, n>> \notin R
  <2> HIDE DEF R
  <2> QED BY <1>1, WFMin
<1>3. \A m \in S : ~(m < n)
  BY <1>2 DEF OpToRel
<1> QED BY <1>3

\* Min finds it, and nothing else is as small.
LEMMA MinNat ==
  ASSUME NEW S \in SUBSET Nat, S # {}
  PROVE  /\ Min(S) \in S /\ \A m \in S : Min(S) <= m
         /\ \A n \in S : (\A m \in S : n <= m) => Min(S) = n
<1>1. Min(S) \in S /\ \A m \in S : Min(S) <= m
  BY LeastNat DEF Min
<1>2. ASSUME NEW n \in S, \A m \in S : n <= m PROVE Min(S) = n
  <2>1. Min(S) \in S /\ Min(S) <= n /\ n <= Min(S)
    BY <1>1, <1>2
  <2>2. Min(S) \in Nat /\ n \in Nat
    BY <2>1
  <2> QED BY <2>1, <2>2
<1> QED BY <1>1, <1>2

\* Max finds the greatest element of a set that has a bound.
LEMMA MaxNat ==
  ASSUME NEW S \in SUBSET Nat, S # {}, NEW b \in Nat, \A m \in S : m <= b
  PROVE  Max(S) \in S /\ \A m \in S : m <= Max(S)
<1> DEFINE U == {n \in Nat : \A m \in S : m <= n}
<1>1. PICK n \in U : \A m \in U : n <= m
  BY LeastNat
<1>2. n \in S
  <2> SUFFICES ASSUME n \notin S PROVE FALSE
    OBVIOUS
  <2>1. n \in Nat /\ \A m \in S : m < n /\ m <= n - 1
    BY <1>1
  <2>2. PICK m \in S : TRUE
    OBVIOUS
  <2>3. n - 1 \in Nat
    BY <2>1, <2>2
  <2>4. n - 1 \in U
    BY <2>1, <2>3
  <2>5. n <= n - 1
    BY <1>1, <2>4
  <2> QED BY <2>1, <2>5
<1> QED BY <1>1, <1>2 DEF Max

\* What holds of a set when it holds of the set without any one element holds
\* of every finite set.
LEMMA FiniteDescent ==
  ASSUME NEW S, IsFiniteSet(S), NEW P,
         \A T \in SUBSET S : (\A x \in T : T \ {x} \in P) => T \in P
  PROVE  S \in P
<1> DEFINE Bad == {n \in Nat : \E T \in SUBSET S : T \notin P /\ Cardinality(T) = n}
<1>1. Bad = {}
  <2> SUFFICES ASSUME Bad # {} PROVE FALSE
    OBVIOUS
  <2>1. PICK n \in Bad : \A m \in Bad : n <= m
    <3>1. Bad \in SUBSET Nat
      OBVIOUS
    <3> HIDE DEF Bad
    <3> QED BY <3>1, LeastNat
  <2>2. PICK T \in SUBSET S : T \notin P /\ Cardinality(T) = n
    BY <2>1
  <2>3. PICK x \in T : T \ {x} \notin P
    BY <2>2
  <2>4. IsFiniteSet(T) /\ n \in Nat
    BY <2>1, FS_Subset
  <2>5. Cardinality(T \ {x}) = n - 1 /\ Cardinality(T \ {x}) \in Nat
    BY <2>2, <2>4, FS_RemoveElement, FS_CardinalityType
  <2>6. n - 1 \in Bad
    BY <2>3, <2>5
  <2> HIDE DEF Bad
  <2> QED BY <2>1, <2>4, <2>6
<1>2. Cardinality(S) \in Nat
  BY FS_CardinalityType
<1> QED BY <1>1, <1>2

\* A quotient and a remainder are unique.
LEMMA ModUnique ==
  ASSUME NEW m \in Nat \ {0}, NEW q \in Int, NEW r \in 0 .. m - 1
  PROVE  (m * q + r) % m = r
<1> DEFINE x == m * q + r
<1>1. x \in Int
  OBVIOUS
<1>2. x = m * (x \div m) + (x % m) /\ x % m \in 0 .. m - 1 /\ x \div m \in Int
  <2> HIDE DEF x
  <2> QED BY <1>1
<1>3. ASSUME NEW p \in Int, NEW u \in 0 .. m - 1, m * q + r = m * p + u
      PROVE  u = r
  <2>1. m * (q - p) = u - r
    BY <1>3
  <2>2. ASSUME NEW d \in Int, d > 0 PROVE m * d >= m
    BY <2>2
  <2>3. ASSUME NEW d \in Int, d < 0 PROVE m * d <= -m
    <3>1. m * (-d) >= m
      BY <2>2, <2>3
    <3> QED BY <3>1
  <2>4. q - p = 0
    BY <2>1, <2>2, <2>3
  <2> QED BY <2>1, <2>4
<1> QED BY <1>2, <1>3

LEMMA ModParts ==
  ASSUME NEW m \in Nat \ {0}, NEW x \in Int
  PROVE  \E q \in Int, r \in 0 .. m - 1 : x = m * q + r /\ x % m = r
<1>1. x = m * (x \div m) + (x % m) /\ x % m \in 0 .. m - 1 /\ x \div m \in Int
  OBVIOUS
<1> QED BY <1>1

\* What is left of a number, kept folded for the provers.
Rem(x, m) == x % m

\* Whole multiples vanish.
LEMMA RemShifts ==
  ASSUME NEW m \in Nat \ {0}, NEW x \in Int, NEW y \in Int
  PROVE  Rem(x + m * y, m) = Rem(x, m)
<1>1. PICK q \in Int, r \in 0 .. m - 1 : x = m * q + r /\ x % m = r
  BY ModParts
<1>2. x + m * y = m * (q + y) + r /\ q + y \in Int
  BY <1>1
<1> QED BY <1>1, <1>2, ModUnique DEF Rem

\* A sum depends on what is left of its parts.
LEMMA RemSums ==
  ASSUME NEW m \in Nat \ {0}, NEW a \in Int, NEW b \in Int, NEW c \in Int, NEW d \in Int,
         Rem(a, m) = Rem(c, m), Rem(b, m) = Rem(d, m)
  PROVE  Rem(a + b, m) = Rem(c + d, m)
<1>1. PICK q \in Int, r \in 0 .. m - 1 : a = m * q + r /\ a % m = r
  BY ModParts
<1>2. PICK p \in Int, s \in 0 .. m - 1 : c = m * p + s /\ c % m = s
  BY ModParts
<1>3. PICK u \in Int, t \in 0 .. m - 1 : b = m * u + t /\ b % m = t
  BY ModParts
<1>4. PICK v \in Int, w \in 0 .. m - 1 : d = m * v + w /\ d % m = w
  BY ModParts
<1>5. s = r /\ w = t
  BY <1>1, <1>2, <1>3, <1>4 DEF Rem
<1>6. q + u \in Int /\ p + v \in Int /\ r + t \in Int
  OBVIOUS
<1>7. Rem((r + t) + m * (q + u), m) = Rem(r + t, m) /\ Rem((r + t) + m * (p + v), m) = Rem(r + t, m)
  BY <1>6, RemShifts
<1>8. a + b = (r + t) + m * (q + u) /\ c + d = (r + t) + m * (p + v)
  BY <1>1, <1>2, <1>3, <1>4, <1>5
<1> QED BY <1>7, <1>8

LEMMA RemAdds ==
  ASSUME NEW m \in Nat \ {0}, NEW a \in Int, NEW b \in Int, NEW c \in Int, Rem(a, m) = Rem(c, m)
  PROVE  Rem(a + b, m) = Rem(c + b, m)
<1> DEFINE d == b
<1>1. d \in Int /\ Rem(b, m) = Rem(d, m)
  OBVIOUS
<1>2. b = d
  OBVIOUS
<1> HIDE DEF d
<1>3. Rem(a + b, m) = Rem(c + d, m)
  BY <1>1, RemSums
<1> QED BY <1>2, <1>3

\* What is left is less than the modulus, and nothing is left of it twice.
LEMMA RemRange ==
  ASSUME NEW m \in Nat \ {0}, NEW x \in Int
  PROVE  /\ Rem(x, m) \in 0 .. m - 1 /\ Rem(x, m) \in Nat /\ Rem(x, m) \in Int
         /\ Rem(Rem(x, m), m) = Rem(x, m)
         /\ x \in 0 .. m - 1 => Rem(x, m) = x
<1>1. ASSUME NEW y \in 0 .. m - 1 PROVE y % m = y
  OBVIOUS
<1>2. x % m \in 0 .. m - 1
  OBVIOUS
<1> QED BY <1>1, <1>2 DEF Rem

\* A sum of multiples is one.
LEMMA RemZeros ==
  ASSUME NEW m \in Nat \ {0}, NEW a \in Int, NEW b \in Int, Rem(a, m) = 0, Rem(b, m) = 0
  PROVE  Rem(a + b, m) = 0
<1>1. Rem(0, m) = 0 /\ 0 \in Int /\ 0 + 0 = 0
  BY RemRange
<1>2. Rem(a + b, m) = Rem(0 + 0, m)
  BY <1>1, RemSums
<1> QED BY <1>1, <1>2

LEMMA FirstNumbers ==
  ASSUME NEW n \in Nat
  PROVE  IsFiniteSet(1..n) /\ Cardinality(1..n) = n
BY FS_Interval

-----------------------------------------------------------------------------
(* Sums over finite sets: g[s] marks for every s.                          *)

Marks(T, g) == {p \in T \X Nat : p[2] \in 1 .. g[p[1]]}
Total(T, g) == Cardinality(Marks(T, g))

LEMMA TotalOne ==
  ASSUME NEW x, NEW g, g[x] \in Nat
  PROVE  IsFiniteSet(Marks({x}, g)) /\ Total({x}, g) = g[x]
<1> DEFINE f == [k \in 1 .. g[x] |-> <<x, k>>]
           S == 1 .. g[x]
           T == Marks({x}, g)
<1>1. f \in Bijection(1 .. g[x], Marks({x}, g))
  <2>1. f \in [1 .. g[x] -> Marks({x}, g)]
    BY DEF Marks
  <2>2. \A i, j \in 1 .. g[x] : f[i] = f[j] => i = j
    OBVIOUS
  <2>3. ASSUME NEW p \in Marks({x}, g) PROVE \E k \in 1 .. g[x] : f[k] = p
    <3>1. p = <<x, p[2]>> /\ p[2] \in 1 .. g[x]
      BY DEF Marks
    <3>2. f[p[2]] = <<x, p[2]>>
      BY <3>1
    <3> QED BY <3>1, <3>2
  <2> HIDE DEF f, S, T
  <2>4. f \in [S -> T] /\ \A i, j \in S : f[i] = f[j] => i = j
    BY <2>1, <2>2 DEF S, T
  <2>5. \A p \in T : \E k \in S : f[k] = p
    BY <2>3 DEF S, T
  <2>6. f \in Bijection(S, T)
    BY <2>4, <2>5 DEF Bijection, Injection, Surjection, IsInjective
  <2> QED BY <2>6 DEF S, T
<1>2. IsFiniteSet(1 .. g[x]) /\ Cardinality(1 .. g[x]) = g[x]
  BY FirstNumbers
<1>3. ExistsBijection(S, T)
  BY <1>1 DEF ExistsBijection
<1> HIDE DEF S, T
<1>4. IsFiniteSet(S) /\ Cardinality(S) = g[x]
  BY <1>2 DEF S
<1>5. IsFiniteSet(T) /\ Cardinality(T) = Cardinality(S)
  BY <1>3, <1>4, FS_Bijection
<1> QED BY <1>4, <1>5 DEF T, Total

LEMMA TotalEmpty ==
  ASSUME NEW g
  PROVE  IsFiniteSet(Marks({}, g)) /\ Total({}, g) = 0
<1>1. Marks({}, g) = {}
  BY DEF Marks
<1> QED BY <1>1, FS_EmptySet DEF Total

LEMMA MarksUnion ==
  ASSUME NEW T, NEW U, NEW g, IsFiniteSet(Marks(T, g)), IsFiniteSet(Marks(U, g)), T \cap U = {}
  PROVE  /\ IsFiniteSet(Marks(T \cup U, g))
         /\ Total(T \cup U, g) = Total(T, g) + Total(U, g)
<1>1. Marks(T \cup U, g) = Marks(T, g) \cup Marks(U, g) /\ Marks(T, g) \cap Marks(U, g) = {}
  BY DEF Marks
<1> DEFINE M == Marks(T, g)
           N == Marks(U, g)
<1>2. Cardinality(M) \in Nat /\ Cardinality(N) \in Nat /\ Cardinality(M \cap N) = 0
  BY <1>1, FS_CardinalityType, FS_EmptySet
<1>3. IsFiniteSet(M \cup N) /\ Cardinality(M \cup N) = Cardinality(M) + Cardinality(N) - Cardinality(M \cap N)
  <2> HIDE DEF M, N
  <2>1. IsFiniteSet(M) /\ IsFiniteSet(N)
    BY DEF M, N
  <2> QED BY <2>1, FS_Union
<1>4. Cardinality(M \cup N) = Cardinality(M) + Cardinality(N)
  <2> HIDE DEF M, N
  <2> QED BY <1>2, <1>3
<1> QED BY <1>1, <1>3, <1>4 DEF Total

LEMMA TotalType ==
  ASSUME NEW T, IsFiniteSet(T), NEW g, \A s \in T : g[s] \in Nat
  PROVE  IsFiniteSet(Marks(T, g)) /\ Total(T, g) \in Nat
<1> DEFINE P == {U \in SUBSET T : IsFiniteSet(Marks(U, g))}
<1>1. ASSUME NEW U \in SUBSET T, \A x \in U : U \ {x} \in P
      PROVE  U \in P
  <2>1. CASE U = {}
    BY <2>1, TotalEmpty
  <2>2. CASE U # {}
    <3>1. PICK x \in U : TRUE
      BY <2>2
    <3>2. IsFiniteSet(Marks(U \ {x}, g)) /\ IsFiniteSet(Marks({x}, g))
      BY <1>1, <3>1, TotalOne
    <3>3. (U \ {x}) \cup {x} = U /\ (U \ {x}) \cap {x} = {}
      BY <3>1
    <3> QED BY <3>2, <3>3, MarksUnion
  <2> QED BY <2>1, <2>2
<1>2. T \in P
  <2> HIDE DEF P
  <2> QED BY <1>1, FiniteDescent
<1>3. IsFiniteSet(Marks(T, g))
  BY <1>2
<1> QED BY <1>3, FS_CardinalityType DEF Total

\* The sum over two sets without a common element.
LEMMA TotalUnion ==
  ASSUME NEW T, IsFiniteSet(T), NEW U, IsFiniteSet(U), T \cap U = {},
         NEW g, \A s \in T \cup U : g[s] \in Nat
  PROVE  Total(T \cup U, g) = Total(T, g) + Total(U, g)
BY TotalType, MarksUnion

\* One element more.
LEMMA TotalAdds ==
  ASSUME NEW T, IsFiniteSet(T), NEW x \in T, NEW g, \A s \in T : g[s] \in Nat
  PROVE  Total(T, g) = Total(T \ {x}, g) + g[x]
<1>1. IsFiniteSet(T \ {x}) /\ IsFiniteSet({x})
  BY FS_RemoveElement, FS_Singleton
<1>2. (T \ {x}) \cap {x} = {} /\ (T \ {x}) \cup {x} = T
  OBVIOUS
<1>3. Total({x}, g) = g[x]
  BY TotalOne
<1>4. Total((T \ {x}) \cup {x}, g) = Total(T \ {x}, g) + Total({x}, g)
  BY <1>1, <1>2, TotalUnion
<1> QED BY <1>2, <1>3, <1>4

\* Only the members count.
LEMMA TotalSame ==
  ASSUME NEW T, NEW g, NEW h, \A s \in T : g[s] = h[s]
  PROVE  Total(T, g) = Total(T, h)
<1>1. Marks(T, g) = Marks(T, h)
  BY DEF Marks
<1> QED BY <1>1 DEF Total

\* The sum of the sums over parts is the sum over the whole.
LEMMA TotalOfParts ==
  ASSUME NEW C, IsFiniteSet(C), NEW F, NEW g,
         \A c \in C : IsFiniteSet(F[c]) /\ \A s \in F[c] : g[s] \in Nat,
         \A c, d \in C : c # d => F[c] \cap F[d] = {}
  PROVE  /\ IsFiniteSet(UNION {F[c] : c \in C})
         /\ Total(UNION {F[c] : c \in C}, g) = Total(C, [c \in C |-> Total(F[c], g)])
<1> DEFINE h == [c \in C |-> Total(F[c], g)]
           Whole(D) == UNION {F[c] : c \in D}
           P == {D \in SUBSET C : IsFiniteSet(Whole(D)) /\ Total(Whole(D), g) = Total(D, h)}
<1>0. \A c \in C : h[c] = Total(F[c], g) /\ h[c] \in Nat
  BY TotalType
<1>1. ASSUME NEW D \in SUBSET C, \A c \in D : D \ {c} \in P
      PROVE  D \in P
  <2> HIDE DEF h
  <2>1. CASE D = {}
    <3>1. Whole(D) = {}
      BY <2>1
    <3> HIDE DEF Whole
    <3> QED BY <2>1, <3>1, TotalEmpty, FS_EmptySet
  <2>2. CASE D # {}
    <3>1. PICK c \in D : D \ {c} \in P
      BY <1>1, <2>2
    <3>2. Whole(D) = Whole(D \ {c}) \cup F[c] /\ Whole(D \ {c}) \cap F[c] = {}
      BY <3>1
    <3>3. IsFiniteSet(Whole(D \ {c})) /\ Total(Whole(D \ {c}), g) = Total(D \ {c}, h)
      BY <3>1
    <3>4. \A s \in Whole(D \ {c}) \cup F[c] : g[s] \in Nat
      BY <3>1
    <3>5. IsFiniteSet(F[c]) /\ IsFiniteSet(D) /\ \A d \in D : h[d] \in Nat
      BY <1>0, <3>1, FS_Subset
    <3>6. Total(D, h) = Total(D \ {c}, h) + h[c] /\ h[c] = Total(F[c], g)
      BY <1>0, <3>1, <3>5, TotalAdds
    <3>7. ASSUME NEW A, NEW B, IsFiniteSet(A), IsFiniteSet(B), A \cap B = {},
                 \A s \in A \cup B : g[s] \in Nat
          PROVE  IsFiniteSet(A \cup B) /\ Total(A \cup B, g) = Total(A, g) + Total(B, g)
      <4>1. IsFiniteSet(A \cup B)
        BY <3>7, FS_Union
      <4>2. Total(A \cup B, g) = Total(A, g) + Total(B, g)
        BY <3>7, TotalUnion
      <4> QED BY <4>1, <4>2
    <3> HIDE DEF Whole
    <3>8. /\ IsFiniteSet(Whole(D \ {c}) \cup F[c])
          /\ Total(Whole(D \ {c}) \cup F[c], g) = Total(Whole(D \ {c}), g) + Total(F[c], g)
      BY <3>2, <3>3, <3>4, <3>5, <3>7
    <3> QED BY <3>2, <3>3, <3>6, <3>8
  <2> QED BY <2>1, <2>2
<1>2. C \in P
  <2> HIDE DEF P
  <2> QED BY <1>1, FiniteDescent
<1> QED BY <1>2

\* Numbers that are only reduced leave a sum the same but for multiples.
LEMMA TotalReduced ==
  ASSUME NEW T, IsFiniteSet(T), NEW m \in Nat \ {0}, NEW g, NEW h,
         \A s \in T : g[s] \in Nat /\ h[s] = Rem(g[s], m)
  PROVE  Rem(Total(T, h), m) = Rem(Total(T, g), m)
<1> DEFINE P == {U \in SUBSET T : Rem(Total(U, h), m) = Rem(Total(U, g), m)}
<1>0. \A s \in T : h[s] \in Nat /\ Rem(h[s], m) = Rem(g[s], m)
  BY RemRange
<1>1. ASSUME NEW U \in SUBSET T, \A x \in U : U \ {x} \in P
      PROVE  U \in P
  <2>1. CASE U = {}
    BY <2>1, TotalEmpty
  <2>2. CASE U # {}
    <3>1. PICK x \in U : Rem(Total(U \ {x}, h), m) = Rem(Total(U \ {x}, g), m)
      BY <1>1, <2>2
    <3>2. IsFiniteSet(U) /\ IsFiniteSet(U \ {x})
      BY FS_Subset
    <3>3. /\ Total(U, h) = Total(U \ {x}, h) + h[x] /\ Total(U \ {x}, h) \in Nat
          /\ Total(U, g) = Total(U \ {x}, g) + g[x] /\ Total(U \ {x}, g) \in Nat
      BY <1>0, <3>2, TotalAdds, TotalType
    <3>4. h[x] \in Nat /\ g[x] \in Nat /\ Rem(h[x], m) = Rem(g[x], m)
      BY <1>0, <3>1
    <3>5. Rem(Total(U \ {x}, h) + h[x], m) = Rem(Total(U \ {x}, g) + g[x], m)
      <4> DEFINE a == Total(U \ {x}, h)
                 b == h[x]
                 c == Total(U \ {x}, g)
                 d == g[x]
      <4>1. a \in Int /\ b \in Int /\ c \in Int /\ d \in Int
        BY <3>3, <3>4
      <4>2. Rem(a, m) = Rem(c, m) /\ Rem(b, m) = Rem(d, m)
        BY <3>1, <3>4
      <4> HIDE DEF a, b, c, d
      <4>3. Rem(a + b, m) = Rem(c + d, m)
        BY <4>1, <4>2, RemSums
      <4> QED BY <4>3 DEF a, b, c, d
    <3> QED BY <3>3, <3>5
  <2> QED BY <2>1, <2>2
<1>2. T \in P
  <2> HIDE DEF P
  <2> QED BY <1>1, FiniteDescent
<1> QED BY <1>2

\* A sum of multiples of e, each less than e above the number it stands for.
LEMMA TotalPadded ==
  ASSUME NEW T, IsFiniteSet(T), NEW e \in Nat \ {0}, NEW g, NEW h,
         \A s \in T : /\ g[s] \in Nat /\ h[s] \in Nat /\ Rem(h[s], e) = 0
                     /\ g[s] <= h[s] /\ h[s] <= g[s] + (e - 1)
  PROVE  /\ Rem(Total(T, h), e) = 0 /\ Total(T, g) <= Total(T, h)
         /\ Total(T, h) <= Total(T, g) + Cardinality(T) * (e - 1)
<1> DEFINE Good(U) == /\ Rem(Total(U, h), e) = 0 /\ Total(U, g) <= Total(U, h)
                      /\ Total(U, h) <= Total(U, g) + Cardinality(U) * (e - 1)
           P == {U \in SUBSET T : Good(U)}
<1>1. ASSUME NEW U \in SUBSET T, \A x \in U : U \ {x} \in P
      PROVE  U \in P
  <2>1. CASE U = {}
    <3>1. Total(U, g) = 0 /\ Total(U, h) = 0 /\ Cardinality(U) = 0
      BY <2>1, TotalEmpty, FS_EmptySet
    <3>2. Rem(0, e) = 0 /\ 0 * (e - 1) = 0
      BY RemRange
    <3> QED BY <3>1, <3>2
  <2>2. CASE U # {}
    <3>1. PICK x \in U : Good(U \ {x})
      BY <1>1, <2>2
    <3>2. IsFiniteSet(U) /\ IsFiniteSet(U \ {x})
      BY FS_Subset
    <3>3. /\ Total(U, h) = Total(U \ {x}, h) + h[x] /\ Total(U \ {x}, h) \in Nat
          /\ Total(U, g) = Total(U \ {x}, g) + g[x] /\ Total(U \ {x}, g) \in Nat
      BY <3>2, TotalAdds, TotalType
    <3>4. Cardinality(U) = Cardinality(U \ {x}) + 1 /\ Cardinality(U \ {x}) \in Nat
      BY <3>2, FS_RemoveElement, FS_CardinalityType
    <3>5. g[x] \in Nat /\ h[x] \in Nat /\ Rem(h[x], e) = 0 /\ g[x] <= h[x] /\ h[x] <= g[x] + (e - 1)
      BY <3>1
    <3>6. Rem(Total(U \ {x}, h), e) = 0
      BY <3>1
    <3>7. Rem(Total(U \ {x}, h) + h[x], e) = 0
      BY <3>3, <3>5, <3>6, RemZeros
    <3>8. ASSUME NEW n \in Nat PROVE (n + 1) * (e - 1) = n * (e - 1) + (e - 1) /\ n * (e - 1) \in Int
      OBVIOUS
    <3>9. /\ Total(U \ {x}, g) <= Total(U \ {x}, h)
          /\ Total(U \ {x}, h) <= Total(U \ {x}, g) + Cardinality(U \ {x}) * (e - 1)
      BY <3>1
    <3>10. Total(U, g) <= Total(U, h) /\ Total(U, h) <= Total(U, g) + Cardinality(U) * (e - 1)
      BY <3>3, <3>4, <3>5, <3>8, <3>9
    <3> QED BY <3>3, <3>7, <3>10
  <2> QED BY <2>1, <2>2
<1>2. T \in P
  <2> HIDE DEF P
  <2> QED BY <1>1, FiniteDescent
<1> QED BY <1>2

\* A sum of greater numbers is greater.
LEMMA TotalGrows ==
  ASSUME NEW T, IsFiniteSet(T), NEW g, NEW h,
         \A s \in T : g[s] \in Nat /\ h[s] \in Nat /\ g[s] <= h[s]
  PROVE  Total(T, g) <= Total(T, h)
<1>1. Marks(T, g) \subseteq Marks(T, h) /\ IsFiniteSet(Marks(T, h))
  <2>1. ASSUME NEW s \in T, NEW n \in 1 .. g[s] PROVE n \in 1 .. h[s]
    OBVIOUS
  <2> QED BY <2>1, TotalType DEF Marks
<1> QED BY <1>1, FS_Subset DEF Total

-----------------------------------------------------------------------------
(* Powers of two, and rounding up to one.                                  *)

LEMMA PowerPositive ==
  ASSUME NEW a \in Nat
  PROVE  2 ^ a \in Nat \ {0}
<1>1. IsFiniteSet(SUBSET (1..a)) /\ Cardinality(SUBSET (1..a)) = 2 ^ a
  BY FirstNumbers, FS_SUBSET
<1>2. SUBSET (1..a) # {}
  OBVIOUS
<1> QED BY <1>1, <1>2, FS_EmptySet, FS_CardinalityType

LEMMA PowerOfSum ==
  ASSUME NEW a \in Nat, NEW b \in Nat
  PROVE  2 ^ (a + b) = 2 ^ a * 2 ^ b
<1> DEFINE A == 1..a
           B == (a + 1)..(a + b)
           C == A \cup B
           f == [T \in SUBSET C |-> <<T \cap A, T \cap B>>]
<1>1. IsFiniteSet(A) /\ Cardinality(A) = a
  BY FirstNumbers
<1>2. IsFiniteSet(B) /\ Cardinality(B) = b
  <2>1. a + 1 \in Int /\ a + b \in Int /\ ((a + 1 > a + b) <=> b = 0) /\ (a + b) - (a + 1) + 1 = b
    OBVIOUS
  <2> QED BY <2>1, FS_Interval
<1>3. A \cap B = {} /\ C = 1..(a + b)
  OBVIOUS
<1>4. IsFiniteSet(C) /\ Cardinality(C) = a + b
  <2>1. a + b \in Nat
    OBVIOUS
  <2> HIDE DEF C
  <2> QED BY <1>3, <2>1, FirstNumbers
<1> HIDE DEF A, B
<1>5. f \in Bijection(SUBSET C, (SUBSET A) \X (SUBSET B))
  <2>1. f \in [SUBSET C -> (SUBSET A) \X (SUBSET B)]
    OBVIOUS
  <2>2. ASSUME NEW S \in SUBSET C, NEW T \in SUBSET C, f[S] = f[T] PROVE S = T
    <3>1. S \cap A = T \cap A /\ S \cap B = T \cap B
      BY <2>2
    <3> QED BY <3>1
  <2>3. ASSUME NEW p \in (SUBSET A) \X (SUBSET B) PROVE \E T \in SUBSET C : f[T] = p
    <3>1. PICK S \in SUBSET A, T \in SUBSET B : p = <<S, T>>
      OBVIOUS
    <3>2. S \cup T \in SUBSET C /\ (S \cup T) \cap A = S /\ (S \cup T) \cap B = T
      BY <1>3
    <3>3. f[S \cup T] = p
      BY <3>1, <3>2
    <3> QED BY <3>2, <3>3
  <2> QED BY <2>1, <2>2, <2>3 DEF Bijection, Injection, Surjection, IsInjective
<1>6. IsFiniteSet(SUBSET C) /\ Cardinality(SUBSET C) = 2 ^ (a + b)
  BY <1>4, FS_SUBSET
<1>7. /\ IsFiniteSet(SUBSET A) /\ Cardinality(SUBSET A) = 2 ^ a
      /\ IsFiniteSet(SUBSET B) /\ Cardinality(SUBSET B) = 2 ^ b
  BY <1>1, <1>2, FS_SUBSET
<1>8. Cardinality((SUBSET A) \X (SUBSET B)) = 2 ^ a * 2 ^ b
  <2> DEFINE S == SUBSET A
             T == SUBSET B
  <2> HIDE DEF S, T
  <2>1. IsFiniteSet(S) /\ IsFiniteSet(T) /\ Cardinality(S) = 2 ^ a /\ Cardinality(T) = 2 ^ b
    BY <1>7 DEF S, T
  <2>2. Cardinality(S \X T) = Cardinality(S) * Cardinality(T)
    BY <2>1, FS_Product
  <2> QED BY <2>1, <2>2 DEF S, T
<1>9. Cardinality(SUBSET C) = Cardinality((SUBSET A) \X (SUBSET B))
  BY <1>5, <1>6, FS_Bijection DEF ExistsBijection
<1> QED BY <1>6, <1>8, <1>9

\* The sizes a std::bit_ceil of a word can have.
Powers == {2 ^ k : k \in 0 .. Bits}

LEMMA WordType == Word \in Nat \ {0} /\ Word \in Powers
<1>1. Bits \in Nat
  BY BitsAssumption
<1>2. Word \in Nat \ {0}
  BY <1>1, PowerPositive DEF Word
<1>3. Word \in Powers
  BY <1>1 DEF Word, Powers
<1> QED BY <1>2, <1>3

\* A power divides the number of values of a word.
LEMMA PowersDivide ==
  ASSUME NEW e \in Powers
  PROVE  e \in Nat \ {0} /\ \E n \in Nat \ {0} : Word = e * n
<1>1. PICK k \in 0 .. Bits : e = 2 ^ k
  BY DEF Powers
<1>2. k \in Nat /\ Bits - k \in Nat /\ k + (Bits - k) = Bits
  BY BitsAssumption
<1>3. 2 ^ (k + (Bits - k)) = 2 ^ k * 2 ^ (Bits - k)
  BY <1>2, PowerOfSum
<1>4. 2 ^ k \in Nat \ {0} /\ 2 ^ (Bits - k) \in Nat \ {0}
  BY <1>2, PowerPositive
<1> QED BY <1>1, <1>2, <1>3, <1>4 DEF Word

\* std::bit_ceil finds a power, and leaves one as it is.
LEMMA BitCeilIs ==
  ASSUME NEW n \in 0 .. Word
  PROVE  /\ BitCeil(n) \in Powers /\ n <= BitCeil(n) /\ BitCeil(n) <= Word
         /\ n \in Powers => BitCeil(n) = n
         /\ \A q \in Powers : q >= n => BitCeil(n) <= q
<1> DEFINE S == {p \in Powers : p >= n}
<1>0. \A p \in Powers : p \in Nat \ {0}
  BY PowersDivide
<1>n. n \in Nat /\ Word >= n
  <2>1. Word \in Nat
    BY WordType
  <2> QED BY <2>1
<1>1. Word \in S /\ S \in SUBSET Nat
  BY <1>0, <1>n, WordType
<1>2. PICK p \in S : \A q \in S : p <= q
  <2> HIDE DEF S
  <2> QED BY <1>1, LeastNat
<1>3. p \in Powers /\ p >= n /\ \A k \in 0 .. Bits : 2 ^ k >= n => p <= 2 ^ k
  BY <1>2 DEF Powers
<1>4. /\ BitCeil(n) \in Powers /\ BitCeil(n) >= n
      /\ \A k \in 0 .. Bits : 2 ^ k >= n => BitCeil(n) <= 2 ^ k
  BY <1>3 DEF BitCeil, Powers
<1>5. \A q \in Powers : q >= n => BitCeil(n) <= q
  BY <1>4 DEF Powers
<1>6. n \in Powers => BitCeil(n) = n
  <2> SUFFICES ASSUME n \in Powers PROVE BitCeil(n) = n
    OBVIOUS
  <2>1. n \in Nat /\ BitCeil(n) \in Nat
    BY <1>0, <1>4
  <2>2. BitCeil(n) <= n
    BY <1>5, <2>1
  <2> QED BY <1>4, <2>1, <2>2
<1>7. BitCeil(n) <= Word
  BY <1>5, <1>n, WordType
<1>8. n \in Nat /\ BitCeil(n) \in Nat
  BY <1>0, <1>n, <1>4
<1> QED BY <1>4, <1>5, <1>6, <1>7, <1>8

\* The least multiple of e that is not below v.
Padded(v, e) == IF v % e = 0 THEN v ELSE v + (e - (v % e))

LEMMA PaddedFacts ==
  ASSUME NEW v \in Nat, NEW e \in Nat \ {0}
  PROVE  /\ Padded(v, e) \in Nat /\ Rem(Padded(v, e), e) = 0
         /\ v <= Padded(v, e) /\ Padded(v, e) <= v + (e - 1)
<1>1. v % e \in 0 .. e - 1
  OBVIOUS
<1>2. CASE v % e = 0
  BY <1>2 DEF Padded, Rem
<1>3. CASE v % e # 0
  <2>1. Padded(v, e) = v + (e - (v % e))
    BY <1>3 DEF Padded
  <2>2. PICK q \in Int, r \in 0 .. e - 1 : v = e * q + r /\ v % e = r
    <3>1. v \in Int
      OBVIOUS
    <3> QED BY <3>1, ModParts
  <2>3. Padded(v, e) = e * (q + 1) + 0 /\ q + 1 \in Int /\ 0 \in 0 .. e - 1
    BY <2>1, <2>2
  <2>4. (e * (q + 1) + 0) % e = 0
    BY <2>3, ModUnique
  <2>5. Rem(Padded(v, e), e) = 0
    BY <2>3, <2>4 DEF Rem
  <2>6. Padded(v, e) \in Nat /\ v <= Padded(v, e) /\ Padded(v, e) <= v + (e - 1)
    <3> DEFINE r0 == v % e
    <3>1. r0 \in 0 .. e - 1 /\ r0 # 0 /\ Padded(v, e) = v + (e - r0)
      BY <1>1, <1>3, <2>1
    <3> HIDE DEF r0
    <3> QED BY <3>1
  <2> QED BY <2>5, <2>6
<1> QED BY <1>2, <1>3

\* Rounding up after every storage is rounding up each of them.
LEMMA RoundsOn ==
  ASSUME NEW e \in Powers, NEW x \in Nat, Rem(x, e) = 0, NEW v \in Nat
  PROVE  RoundUp((Rem(x, Word) + v) % Word, e) = Rem(x + Padded(v, e), Word)
<1> DEFINE y == Rem(Rem(x, Word) + v, Word)
           r == Rem(v, e)
<1>0. e \in Nat \ {0} /\ Word \in Nat \ {0} /\ r \in 0 .. e - 1 /\ x + v \in Int /\ x + v \in Nat
  BY PowersDivide, WordType, RemRange
<1>1. y = Rem(x + v, Word) /\ y \in 0 .. Word - 1 /\ y \in Nat
  <2>1. Rem(x, Word) \in Int /\ Rem(Rem(x, Word), Word) = Rem(x, Word)
    BY <1>0, RemRange
  <2>2. v \in Int /\ x \in Int /\ Rem(v, Word) = Rem(v, Word)
    OBVIOUS
  <2>3. y = Rem(x + v, Word)
    BY <1>0, <2>1, <2>2, RemSums
  <2> HIDE DEF y
  <2> QED BY <1>0, <2>3, RemRange
<1>2. Rem(y, e) = r
  <2> HIDE DEF y
  <2>1. PICK n \in Nat \ {0} : Word = e * n
    BY PowersDivide
  <2>2. PICK q \in Int, s \in 0 .. Word - 1 : x + v = Word * q + s /\ (x + v) % Word = s
    <3> DEFINE z == x + v
    <3>1. z \in Int
      BY <1>0
    <3> HIDE DEF z
    <3>2. \E q \in Int, s \in 0 .. Word - 1 : z = Word * q + s /\ z % Word = s
      BY <1>0, <3>1, ModParts
    <3> QED BY <3>2 DEF z
  <2>3. y = s
    BY <1>1, <2>2 DEF Rem
  <2>4. x + v = s + e * (n * q) /\ n * q \in Int /\ s \in Int
    <3>1. (e * n) * q = e * (n * q) /\ n * q \in Int /\ e * (n * q) \in Int
      BY <1>0
    <3>2. x + v = (e * n) * q + s /\ s \in Int
      BY <1>0, <2>1, <2>2
    <3> QED BY <3>1, <3>2
  <2>5. Rem(s + e * (n * q), e) = Rem(s, e)
    BY <1>0, <2>4, RemShifts
  <2>6. Rem(x + v, e) = Rem(0 + v, e)
    <3>1. Rem(0, e) = 0 /\ 0 \in Int /\ x \in Int /\ v \in Int
      BY <1>0, RemRange
    <3> QED BY <1>0, <3>1, RemSums
  <2> QED BY <2>3, <2>4, <2>5, <2>6
<1>3. RoundUp(y, e) = Rem(IF r = 0 THEN y ELSE y + (e - r), Word)
  BY <1>2 DEF RoundUp, Rem
<1>4. Padded(v, e) = IF r = 0 THEN v ELSE v + (e - r)
  BY DEF Padded, Rem
<1>5. RoundUp(y, e) = Rem(x + Padded(v, e), Word)
  <2> DEFINE d == IF r = 0 THEN 0 ELSE e - r
  <2>1. d \in Int /\ Padded(v, e) = v + d /\ RoundUp(y, e) = Rem(y + d, Word)
    <3> HIDE DEF y, r
    <3> QED BY <1>0, <1>1, <1>3, <1>4
  <2> HIDE DEF y, d
  <2>2. Rem(y, Word) = Rem(x + v, Word) /\ y \in Int
    BY <1>0, <1>1, RemRange
  <2>3. Rem(y + d, Word) = Rem((x + v) + d, Word)
    <3> DEFINE z == x + v
    <3>1. z \in Int /\ Rem(y, Word) = Rem(z, Word)
      BY <1>0, <2>2
    <3> HIDE DEF z
    <3>2. Rem(y + d, Word) = Rem(z + d, Word)
      BY <1>0, <2>1, <2>2, <3>1, RemAdds
    <3> QED BY <3>2 DEF z
  <2>4. x + Padded(v, e) = (x + v) + d
    BY <2>1
  <2> QED BY <2>1, <2>3, <2>4
<1> QED BY <1>5 DEF Rem

-----------------------------------------------------------------------------
(* Folds over lists without repeats.                                       *)

LEMMA PositionsFinite ==
  ASSUME NEW X, NEW q \in Seq(X)
  PROVE  /\ IsFiniteSet(DOMAIN q) /\ DOMAIN q \in SUBSET Nat /\ IsFiniteSet(ToSet(q))
         /\ \A s \in SUBSET DOMAIN q : s # {} => Max(s) \in s
<1>1. DOMAIN q = 1 .. Len(q) /\ Len(q) \in Nat
  BY LenProperties
<1>2. IsFiniteSet(DOMAIN q)
  BY <1>1, FS_Interval
<1>3. q \in Surjection(DOMAIN q, ToSet(q))
  BY <1>1 DEF Surjection, ToSet
<1>4. IsFiniteSet(ToSet(q))
  BY <1>2, <1>3, FS_Surjection
<1>5. ASSUME NEW s \in SUBSET DOMAIN q, s # {} PROVE Max(s) \in s
  <2>1. s \in SUBSET Nat /\ \A i \in s : i <= Len(q)
    BY <1>1
  <2> QED BY <1>1, <1>5, <2>1, MaxNat
<1> QED BY <1>1, <1>2, <1>4, <1>5

\* Two folds that start alike and step alike end alike.
LEMMA FoldsAgree ==
  ASSUME NEW D, IsFiniteSet(D), NEW f, NEW g, f[{}] = g[{}],
         \A s \in SUBSET D : s # {} => Max(s) \in s,
         \A s \in SUBSET D : s # {} /\ f[s \ {Max(s)}] = g[s \ {Max(s)}] => f[s] = g[s]
  PROVE  f[D] = g[D]
<1> DEFINE P == {s \in SUBSET D : f[s] = g[s]}
<1>1. ASSUME NEW s \in SUBSET D, \A x \in s : s \ {x} \in P
      PROVE  s \in P
  <2>1. CASE s = {}
    BY <2>1
  <2>2. CASE s # {}
    <3>1. s \ {Max(s)} \in P
      BY <1>1, <2>2
    <3>2. f[s \ {Max(s)}] = g[s \ {Max(s)}]
      BY <3>1
    <3> QED BY <2>2, <3>2
  <2> QED BY <2>1, <2>2
<1>2. D \in P
  <2> HIDE DEF P
  <2> QED BY <1>1, FiniteDescent
<1> QED BY <1>2

\* The elements of a list at some of its positions.
Elements(q, s) == {q[i] : i \in s}

LEMMA ElementsWithout ==
  ASSUME NEW X, NEW q \in Seq(X), NoRepeats(q), NEW s \in SUBSET DOMAIN q, NEW i \in s
  PROVE  /\ IsFiniteSet(Elements(q, s)) /\ Elements(q, s) \subseteq ToSet(q)
         /\ q[i] \in Elements(q, s) /\ q[i] \in ToSet(q)
         /\ Elements(q, s \ {i}) = Elements(q, s) \ {q[i]}
<1>1. Elements(q, s) \subseteq ToSet(q)
  BY DEF Elements, ToSet
<1>2. IsFiniteSet(Elements(q, s))
  BY <1>1, PositionsFinite, FS_Subset
<1>3. q[i] \in Elements(q, s)
  BY DEF Elements
<1>4. Elements(q, s \ {i}) = Elements(q, s) \ {q[i]}
  BY DEF Elements, NoRepeats
<1> QED BY <1>1, <1>2, <1>3, <1>4

\* The closed form of a sum that is reduced at every step.
SumTo(q, base, v) == [s \in SUBSET DOMAIN q |-> Rem(base + Total(Elements(q, s), v), Word)]

\* Loops over q from the front: one that adds v, one that rounds up as well.
Adds(g, q, base, v) ==
    /\ g[{}] = base
    /\ \A s \in SUBSET DOMAIN q : s # {} =>
         g[s] = Rem(g[s \ {Max(s)}] + v[q[Max(s)]], Word)
Rounds(g, q, v, e) ==
    /\ g[{}] = 0
    /\ \A s \in SUBSET DOMAIN q : s # {} =>
         g[s] = RoundUp((g[s \ {Max(s)}] + v[q[Max(s)]]) % Word, e)

LEMMA SumSteps ==
  ASSUME NEW X, NEW q \in Seq(X), NoRepeats(q), NEW v, \A x \in ToSet(q) : v[x] \in Nat,
         NEW base \in 0 .. Word - 1
  PROVE  /\ Adds(SumTo(q, base, v), q, base, v)
         /\ SumTo(q, base, v)[DOMAIN q] = Rem(base + Total(ToSet(q), v), Word)
<1> DEFINE G == SumTo(q, base, v)
<1>0. Word \in Nat \ {0} /\ base \in Nat
  BY WordType
<1>1. G[{}] = base
  <2>1. Elements(q, {}) = {} /\ {} \in SUBSET DOMAIN q
    BY DEF Elements
  <2>2. G[{}] = Rem(base + Total({}, v), Word)
    BY <2>1 DEF SumTo
  <2>3. Rem(base, Word) = base /\ base + 0 = base
    BY <1>0, RemRange
  <2> QED BY <2>2, <2>3, TotalEmpty
<1>2. G[DOMAIN q] = Rem(base + Total(ToSet(q), v), Word)
  <2>1. Elements(q, DOMAIN q) = ToSet(q)
    BY DEF Elements, ToSet
  <2> QED BY <2>1 DEF SumTo
<1>3. ASSUME NEW s \in SUBSET DOMAIN q, s # {}
      PROVE  G[s] = Rem(G[s \ {Max(s)}] + v[q[Max(s)]], Word)
  <2> DEFINE i == Max(s)
             E == Elements(q, s)
             a == base + Total(E \ {q[i]}, v)
             b == v[q[i]]
  <2>1. i \in s
    BY <1>3, PositionsFinite
  <2> HIDE DEF i
  <2>2. /\ IsFiniteSet(E) /\ E \subseteq ToSet(q) /\ q[i] \in E
        /\ Elements(q, s \ {i}) = E \ {q[i]} /\ b \in Nat
    BY <2>1, ElementsWithout
  <2>3. Total(E, v) = Total(E \ {q[i]}, v) + b
    BY <2>2, TotalAdds
  <2>4. IsFiniteSet(E \ {q[i]})
    BY <2>2, FS_RemoveElement
  <2>5. Total(E \ {q[i]}, v) \in Nat
    BY <2>2, <2>4, TotalType
  <2>6. G[s \ {i}] = Rem(a, Word) /\ G[s] = Rem(base + Total(E, v), Word)
    BY <2>2 DEF SumTo
  <2>7. a \in Int /\ b \in Int /\ base + Total(E, v) = a + b
    BY <1>0, <2>2, <2>3, <2>5
  <2> HIDE DEF a, b
  <2>8. Rem(a, Word) \in Int /\ Rem(Rem(a, Word), Word) = Rem(a, Word)
    BY <1>0, <2>7, RemRange
  <2>9. Rem(Rem(a, Word) + b, Word) = Rem(a + b, Word)
    BY <1>0, <2>7, <2>8, RemAdds
  <2> QED BY <2>6, <2>7, <2>9 DEF i, b
<1> HIDE DEF G
<1>4. Adds(G, q, base, v)
  BY <1>1, <1>3 DEF Adds
<1> QED BY <1>2, <1>4 DEF G

\* The closed form of a sum that is rounded up at every step.
LEMMA RoundSteps ==
  ASSUME NEW X, NEW q \in Seq(X), NoRepeats(q), NEW v, NEW h, NEW e \in Powers,
         \A x \in ToSet(q) : v[x] \in Nat /\ h[x] = Padded(v[x], e)
  PROVE  /\ Rounds(SumTo(q, 0, h), q, v, e)
         /\ SumTo(q, 0, h)[DOMAIN q] = Rem(Total(ToSet(q), h), Word)
<1> DEFINE G == SumTo(q, 0, h)
<1>0. Word \in Nat \ {0} /\ 0 \in 0 .. Word - 1 /\ e \in Nat \ {0}
  BY WordType, PowersDivide
<1>1. \A x \in ToSet(q) : /\ v[x] \in Nat /\ h[x] \in Nat /\ Rem(h[x], e) = 0
                         /\ v[x] <= h[x] /\ h[x] <= v[x] + (e - 1)
  BY <1>0, PaddedFacts
<1>2. ASSUME NEW T, IsFiniteSet(T), T \subseteq ToSet(q)
      PROVE  Total(T, h) \in Nat /\ Rem(Total(T, h), e) = 0 /\ 0 + Total(T, h) = Total(T, h)
  <2>1. Total(T, h) \in Nat
    BY <1>1, <1>2, TotalType
  <2>2. Rem(Total(T, h), e) = 0
    BY <1>0, <1>1, <1>2, TotalPadded
  <2> QED BY <2>1, <2>2
<1>3. /\ G[{}] = 0 /\ G[DOMAIN q] = Rem(0 + Total(ToSet(q), h), Word)
  BY <1>0, <1>1, SumSteps DEF Adds
<1>4. 0 + Total(ToSet(q), h) = Total(ToSet(q), h)
  BY <1>2, PositionsFinite
<1>5. ASSUME NEW s \in SUBSET DOMAIN q, s # {}
      PROVE  G[s] = RoundUp((G[s \ {Max(s)}] + v[q[Max(s)]]) % Word, e)
  <2> DEFINE i == Max(s)
             E == Elements(q, s)
             x == Total(E \ {q[i]}, h)
             w == v[q[i]]
  <2>1. i \in s
    BY <1>5, PositionsFinite
  <2> HIDE DEF i
  <2>2. /\ IsFiniteSet(E) /\ E \subseteq ToSet(q) /\ q[i] \in E /\ q[i] \in ToSet(q)
        /\ Elements(q, s \ {i}) = E \ {q[i]}
    BY <2>1, ElementsWithout
  <2>3. Total(E, h) = x + h[q[i]]
    BY <1>1, <2>2, TotalAdds
  <2>4. IsFiniteSet(E \ {q[i]}) /\ E \ {q[i]} \subseteq ToSet(q)
    BY <2>2, FS_RemoveElement
  <2>5. x \in Nat /\ Rem(x, e) = 0 /\ 0 + x = x /\ 0 + Total(E, h) = Total(E, h)
    BY <1>2, <2>2, <2>4
  <2>6. G[s \ {i}] = Rem(0 + x, Word) /\ G[s] = Rem(0 + Total(E, h), Word)
    BY <2>2 DEF SumTo
  <2>7. w \in Nat /\ h[q[i]] = Padded(w, e)
    BY <2>2
  <2> HIDE DEF x, w
  <2>8. RoundUp((Rem(x, Word) + w) % Word, e) = Rem(x + Padded(w, e), Word)
    BY <2>5, <2>7, RoundsOn
  <2>9. G[s \ {i}] = Rem(x, Word) /\ G[s] = Rem(x + Padded(w, e), Word)
    BY <2>3, <2>5, <2>6, <2>7
  <2> QED BY <2>8, <2>9 DEF i, w
<1> HIDE DEF G
<1>6. Rounds(G, q, v, e)
  BY <1>3, <1>5 DEF Rounds
<1> QED BY <1>3, <1>4, <1>6 DEF G

-----------------------------------------------------------------------------
(* The loops of the queries, over the storages and over the children.      *)

Sized(q) == /\ q \in Seq(Storage) /\ NoRepeats(q)
            /\ \A s \in ToSet(q) : layout[s].aligned \in Nat
PaddedTo(e) == [s \in Storage |-> Padded(layout[s].aligned, e)]

LEMMA SizedElements ==
  ASSUME NEW q, Sized(q)
  PROVE  /\ IsFiniteSet(ToSet(q)) /\ \A i \in DOMAIN q : q[i] \in ToSet(q)
         /\ \A s \in ToSet(q) : /\ s \in Storage /\ layout[s].aligned \in Nat
                               /\ Aligned[s] = layout[s].aligned
                               /\ \A e : PaddedTo(e)[s] = Padded(layout[s].aligned, e)
<1>1. \A i \in DOMAIN q : q[i] \in ToSet(q) /\ q[i] \in Storage
  BY ElementOfSeq, LenProperties DEF Sized, ToSet
<1>2. \A s \in ToSet(q) : s \in Storage
  BY <1>1 DEF ToSet
<1> QED BY <1>1, <1>2, PositionsFinite DEF Sized, Aligned, PaddedTo

LEMMA AlignedSteps ==
  ASSUME NEW q, Sized(q)
  PROVE  LET G == SumTo(q, 0, Aligned)
         IN  /\ G[{}] = 0 /\ G[DOMAIN q] = Rem(Total(ToSet(q), Aligned), Word)
             /\ \A s \in SUBSET DOMAIN q : s # {} =>
                  G[s] = (G[s \ {Max(s)}] + layout[q[Max(s)]].aligned) % Word
<1> DEFINE G == SumTo(q, 0, Aligned)
<1>1. 0 \in 0 .. Word - 1 /\ Word \in Nat \ {0}
  BY WordType
<1>2. /\ G[{}] = 0 /\ G[DOMAIN q] = Rem(0 + Total(ToSet(q), Aligned), Word)
      /\ \A s \in SUBSET DOMAIN q : s # {} => G[s] = Rem(G[s \ {Max(s)}] + Aligned[q[Max(s)]], Word)
  <2>1. Adds(G, q, 0, Aligned) /\ G[DOMAIN q] = Rem(0 + Total(ToSet(q), Aligned), Word)
    BY <1>1, SizedElements, SumSteps DEF Sized
  <2> HIDE DEF G
  <2> QED BY <2>1 DEF Adds
<1>3. 0 + Total(ToSet(q), Aligned) = Total(ToSet(q), Aligned)
  BY SizedElements, TotalType
<1>4. \A s \in SUBSET DOMAIN q : s # {} => G[s] = (G[s \ {Max(s)}] + layout[q[Max(s)]].aligned) % Word
  <2> SUFFICES ASSUME NEW s \in SUBSET DOMAIN q, s # {}
               PROVE  G[s] = (G[s \ {Max(s)}] + layout[q[Max(s)]].aligned) % Word
    OBVIOUS
  <2>1. Max(s) \in DOMAIN q
    BY PositionsFinite DEF Sized
  <2>2. Aligned[q[Max(s)]] = layout[q[Max(s)]].aligned
    BY <2>1, SizedElements
  <2> HIDE DEF G
  <2> QED BY <1>2, <2>2 DEF Rem
<1> QED BY <1>2, <1>3, <1>4

LEMMA PaddedSteps ==
  ASSUME NEW q, Sized(q), NEW e, e \in Powers \/ q = <<>>
  PROVE  LET G == SumTo(q, 0, PaddedTo(e))
         IN  /\ G[{}] = 0 /\ G[DOMAIN q] = Rem(Total(ToSet(q), PaddedTo(e)), Word)
             /\ \A s \in SUBSET DOMAIN q : s # {} =>
                  G[s] = RoundUp((G[s \ {Max(s)}] + layout[q[Max(s)]].aligned) % Word, e)
<1> DEFINE G == SumTo(q, 0, PaddedTo(e))
<1>1. CASE e \in Powers
  <2> DEFINE h == PaddedTo(e)
  <2>1. \A s \in ToSet(q) : Aligned[s] \in Nat /\ h[s] = Padded(Aligned[s], e)
    BY SizedElements
  <2>q. q \in Seq(Storage) /\ NoRepeats(q)
    BY DEF Sized
  <2>2. /\ G[{}] = 0 /\ G[DOMAIN q] = Rem(Total(ToSet(q), PaddedTo(e)), Word)
        /\ \A s \in SUBSET DOMAIN q : s # {} =>
             G[s] = RoundUp((G[s \ {Max(s)}] + Aligned[q[Max(s)]]) % Word, e)
    <3> DEFINE v == Aligned
    <3>1. \A x \in ToSet(q) : v[x] \in Nat /\ h[x] = Padded(v[x], e)
      BY <2>1
    <3> HIDE DEF v, h, G
    <3>2. /\ Rounds(SumTo(q, 0, h), q, v, e)
          /\ SumTo(q, 0, h)[DOMAIN q] = Rem(Total(ToSet(q), h), Word)
      BY <1>1, <2>q, <3>1, RoundSteps
    <3>3. Rounds(G, q, Aligned, e) /\ G[DOMAIN q] = Rem(Total(ToSet(q), PaddedTo(e)), Word)
      BY <3>2 DEF v, h, G
    <3> QED BY <3>3 DEF Rounds
  <2>3. ASSUME NEW s \in SUBSET DOMAIN q, s # {}
        PROVE  Aligned[q[Max(s)]] = layout[q[Max(s)]].aligned
    <3>1. Max(s) \in DOMAIN q
      BY <2>3, PositionsFinite DEF Sized
    <3> QED BY <3>1, SizedElements
  <2> HIDE DEF G
  <2>4. \A s \in SUBSET DOMAIN q : s # {} =>
          G[s] = RoundUp((G[s \ {Max(s)}] + layout[q[Max(s)]].aligned) % Word, e)
    BY <2>2, <2>3
  <2> QED BY <2>2, <2>4 DEF G
<1>2. CASE q = <<>>
  <2>1. DOMAIN q = {} /\ ToSet(q) = {} /\ Elements(q, {}) = {}
    BY <1>2 DEF ToSet, Elements
  <2>2. G[{}] = Rem(0 + Total({}, PaddedTo(e)), Word)
    BY <2>1 DEF SumTo
  <2>3. Total({}, PaddedTo(e)) = 0 /\ Rem(0, Word) = 0
    BY TotalEmpty, RemRange, WordType
  <2> QED BY <2>1, <2>2, <2>3
<1> QED BY <1>1, <1>2

\* Both sizes at once, and the loops over the storages of a region and, from a
\* first size, over its children, whose sizes f holds.
Two(raw, aligned) == [raw |-> raw, aligned |-> aligned]
RawOf(q) == FoldLeft(LAMBDA size, s : (size + layout[s].aligned) % Word, 0, q)
PaddedOf(q, e) ==
    FoldLeft(LAMBDA sum, s : RoundUp((sum + layout[s].aligned) % Word, e), 0, q)
BothOf(q, e) ==
    FoldLeft(LAMBDA sum, s : [raw |-> (sum.raw + layout[s].aligned) % Word,
                              aligned |-> RoundUp((sum.aligned + layout[s].aligned) % Word, e)],
             [raw |-> 0, aligned |-> 0], q)
PlusRaw(q, first, f) == FoldLeft(LAMBDA size, c : (size + f[c]) % Word, first, q)
PlusPadded(q, first, f, e) == FoldLeft(LAMBDA sum, c : (sum + f[<<c, e>>]) % Word, first, q)
PlusBoth(q, first, f, e) ==
    FoldLeft(LAMBDA sum, c : [raw |-> (sum.raw + f[<<c, e>>].raw) % Word,
                              aligned |-> (sum.aligned + f[<<c, e>>].aligned) % Word],
             first, q)

LEMMA OwnRaw ==
  ASSUME NEW q, Sized(q)
  PROVE  RawOf(q) = Rem(Total(ToSet(q), Aligned), Word)
<1> DEFINE D == DOMAIN q
           Loop(f) == f = [s \in SUBSET D |->
                             IF s = {} THEN 0
                             ELSE (f[s \ {Max(s)}] + layout[q[Max(s)]].aligned) % Word]
           fold == CHOOSE f : Loop(f)
           G == SumTo(q, 0, Aligned)
<1>1. RawOf(q) = fold[D]
  BY DEF RawOf, FoldLeft, MapThenFoldSet
<1>2. IsFiniteSet(D) /\ \A s \in SUBSET D : s # {} => Max(s) \in s
  BY PositionsFinite DEF Sized
<1>3. /\ G[{}] = 0 /\ G[D] = Rem(Total(ToSet(q), Aligned), Word)
      /\ \A s \in SUBSET D : s # {} => G[s] = (G[s \ {Max(s)}] + layout[q[Max(s)]].aligned) % Word
  BY AlignedSteps
<1>4. Loop(G)
  <2>1. G = [s \in SUBSET D |-> G[s]]
    BY DEF SumTo
  <2> HIDE DEF G
  <2> QED BY <1>3, <2>1
<1>5. Loop(fold)
  <2> HIDE DEF Loop, G
  <2> QED BY <1>4
<1>6. /\ fold[{}] = 0
      /\ \A s \in SUBSET D : s # {} => fold[s] = (fold[s \ {Max(s)}] + layout[q[Max(s)]].aligned) % Word
  <2> HIDE DEF fold
  <2> QED BY <1>5
<1> HIDE DEF fold, G, D, Loop
<1>7. fold[D] = G[D]
  <2>1. fold[{}] = G[{}]
    BY <1>3, <1>6
  <2>2. ASSUME NEW s \in SUBSET D, s # {}, fold[s \ {Max(s)}] = G[s \ {Max(s)}]
        PROVE  fold[s] = G[s]
    BY <1>3, <1>6, <2>2
  <2> QED BY <1>2, <2>1, <2>2, FoldsAgree
<1> QED BY <1>1, <1>3, <1>7

LEMMA OwnPadded ==
  ASSUME NEW q, Sized(q), NEW e, e \in Powers \/ q = <<>>
  PROVE  PaddedOf(q, e) = Rem(Total(ToSet(q), PaddedTo(e)), Word)
<1> DEFINE D == DOMAIN q
           Loop(f) == f = [s \in SUBSET D |->
                             IF s = {} THEN 0
                             ELSE RoundUp((f[s \ {Max(s)}] + layout[q[Max(s)]].aligned) % Word, e)]
           fold == CHOOSE f : Loop(f)
           G == SumTo(q, 0, PaddedTo(e))
<1>1. PaddedOf(q, e) = fold[D]
  BY DEF PaddedOf, FoldLeft, MapThenFoldSet
<1>2. IsFiniteSet(D) /\ \A s \in SUBSET D : s # {} => Max(s) \in s
  BY PositionsFinite DEF Sized
<1>3. /\ G[{}] = 0 /\ G[D] = Rem(Total(ToSet(q), PaddedTo(e)), Word)
      /\ \A s \in SUBSET D : s # {} => G[s] = RoundUp((G[s \ {Max(s)}] + layout[q[Max(s)]].aligned) % Word, e)
  BY PaddedSteps
<1>4. Loop(G)
  <2>1. G = [s \in SUBSET D |-> G[s]]
    BY DEF SumTo
  <2> HIDE DEF G
  <2> QED BY <1>3, <2>1
<1>5. Loop(fold)
  <2> HIDE DEF Loop, G
  <2> QED BY <1>4
<1>6. /\ fold[{}] = 0
      /\ \A s \in SUBSET D : s # {} => fold[s] = RoundUp((fold[s \ {Max(s)}] + layout[q[Max(s)]].aligned) % Word, e)
  <2> HIDE DEF fold
  <2> QED BY <1>5
<1> HIDE DEF fold, G, D, Loop
<1>7. fold[D] = G[D]
  <2>1. fold[{}] = G[{}]
    BY <1>3, <1>6
  <2>2. ASSUME NEW s \in SUBSET D, s # {}, fold[s \ {Max(s)}] = G[s \ {Max(s)}]
        PROVE  fold[s] = G[s]
    BY <1>3, <1>6, <2>2
  <2> QED BY <1>2, <2>1, <2>2, FoldsAgree
<1> QED BY <1>1, <1>3, <1>7

LEMMA SumOfRaw ==
  ASSUME NEW X, NEW q \in Seq(X), NoRepeats(q), NEW base \in 0 .. Word - 1, NEW f, NEW v,
         \A c \in ToSet(q) : v[c] \in Nat /\ f[c] = v[c]
  PROVE  PlusRaw(q, base, f) = Rem(base + Total(ToSet(q), v), Word)
<1> DEFINE D == DOMAIN q
           Loop(g) == g = [s \in SUBSET D |->
                             IF s = {} THEN base
                             ELSE (g[s \ {Max(s)}] + f[q[Max(s)]]) % Word]
           fold == CHOOSE g : Loop(g)
           G == SumTo(q, base, v)
<1>1. PlusRaw(q, base, f) = fold[D]
  BY DEF PlusRaw, FoldLeft, MapThenFoldSet
<1>2. IsFiniteSet(D) /\ \A s \in SUBSET D : s # {} => Max(s) \in s
  BY PositionsFinite
<1>3. /\ G[{}] = base /\ G[D] = Rem(base + Total(ToSet(q), v), Word)
      /\ \A s \in SUBSET D : s # {} => G[s] = (G[s \ {Max(s)}] + f[q[Max(s)]]) % Word
  <2>1. Adds(G, q, base, v) /\ G[D] = Rem(base + Total(ToSet(q), v), Word)
    BY SumSteps
  <2>2. ASSUME NEW s \in SUBSET D, s # {} PROVE v[q[Max(s)]] = f[q[Max(s)]]
    <3>1. q[Max(s)] \in ToSet(q)
      BY <1>2, <2>2 DEF ToSet
    <3> QED BY <3>1
  <2> HIDE DEF G
  <2>3. \A s \in SUBSET D : s # {} => G[s] = (G[s \ {Max(s)}] + f[q[Max(s)]]) % Word
    BY <2>1, <2>2 DEF Adds, Rem
  <2> QED BY <2>1, <2>3 DEF Adds
<1>4. Loop(G)
  <2>1. G = [s \in SUBSET D |-> G[s]]
    BY DEF SumTo
  <2> HIDE DEF G
  <2> QED BY <1>3, <2>1
<1>5. Loop(fold)
  <2> HIDE DEF Loop, G
  <2> QED BY <1>4
<1>6. /\ fold[{}] = base
      /\ \A s \in SUBSET D : s # {} => fold[s] = (fold[s \ {Max(s)}] + f[q[Max(s)]]) % Word
  <2> HIDE DEF fold
  <2> QED BY <1>5
<1> HIDE DEF fold, G, D, Loop
<1>7. fold[D] = G[D]
  <2>1. fold[{}] = G[{}]
    BY <1>3, <1>6
  <2>2. ASSUME NEW s \in SUBSET D, s # {}, fold[s \ {Max(s)}] = G[s \ {Max(s)}]
        PROVE  fold[s] = G[s]
    BY <1>3, <1>6, <2>2
  <2> QED BY <1>2, <2>1, <2>2, FoldsAgree
<1> QED BY <1>1, <1>3, <1>7

LEMMA SumOfPadded ==
  ASSUME NEW X, NEW q \in Seq(X), NoRepeats(q), NEW base \in 0 .. Word - 1, NEW f, NEW v, NEW e,
         \A c \in ToSet(q) : v[c] \in Nat /\ f[<<c, e>>] = v[c]
  PROVE  PlusPadded(q, base, f, e) = Rem(base + Total(ToSet(q), v), Word)
<1> DEFINE D == DOMAIN q
           Loop(g) == g = [s \in SUBSET D |->
                             IF s = {} THEN base
                             ELSE (g[s \ {Max(s)}] + f[<<q[Max(s)], e>>]) % Word]
           fold == CHOOSE g : Loop(g)
           G == SumTo(q, base, v)
<1>1. PlusPadded(q, base, f, e) = fold[D]
  BY DEF PlusPadded, FoldLeft, MapThenFoldSet
<1>2. IsFiniteSet(D) /\ \A s \in SUBSET D : s # {} => Max(s) \in s
  BY PositionsFinite
<1>3. /\ G[{}] = base /\ G[D] = Rem(base + Total(ToSet(q), v), Word)
      /\ \A s \in SUBSET D : s # {} => G[s] = (G[s \ {Max(s)}] + f[<<q[Max(s)], e>>]) % Word
  <2>1. Adds(G, q, base, v) /\ G[D] = Rem(base + Total(ToSet(q), v), Word)
    BY SumSteps
  <2>2. ASSUME NEW s \in SUBSET D, s # {} PROVE v[q[Max(s)]] = f[<<q[Max(s)], e>>]
    <3>1. q[Max(s)] \in ToSet(q)
      BY <1>2, <2>2 DEF ToSet
    <3> QED BY <3>1
  <2> HIDE DEF G
  <2>3. \A s \in SUBSET D : s # {} => G[s] = (G[s \ {Max(s)}] + f[<<q[Max(s)], e>>]) % Word
    BY <2>1, <2>2 DEF Adds, Rem
  <2> QED BY <2>1, <2>3 DEF Adds
<1>4. Loop(G)
  <2>1. G = [s \in SUBSET D |-> G[s]]
    BY DEF SumTo
  <2> HIDE DEF G
  <2> QED BY <1>3, <2>1
<1>5. Loop(fold)
  <2> HIDE DEF Loop, G
  <2> QED BY <1>4
<1>6. /\ fold[{}] = base
      /\ \A s \in SUBSET D : s # {} => fold[s] = (fold[s \ {Max(s)}] + f[<<q[Max(s)], e>>]) % Word
  <2> HIDE DEF fold
  <2> QED BY <1>5
<1> HIDE DEF fold, G, D, Loop
<1>7. fold[D] = G[D]
  <2>1. fold[{}] = G[{}]
    BY <1>3, <1>6
  <2>2. ASSUME NEW s \in SUBSET D, s # {}, fold[s \ {Max(s)}] = G[s \ {Max(s)}]
        PROVE  fold[s] = G[s]
    BY <1>3, <1>6, <2>2
  <2> QED BY <1>2, <2>1, <2>2, FoldsAgree
<1> QED BY <1>1, <1>3, <1>7

LEMMA OwnBoth ==
  ASSUME NEW q, Sized(q), NEW e, e \in Powers \/ q = <<>>
  PROVE  BothOf(q, e) = [raw |-> Rem(Total(ToSet(q), Aligned), Word),
              aligned |-> Rem(Total(ToSet(q), PaddedTo(e)), Word)]
<1> DEFINE D == DOMAIN q
           Step(sum, s) == [raw |-> (sum.raw + layout[s].aligned) % Word,
                            aligned |-> RoundUp((sum.aligned + layout[s].aligned) % Word, e)]
           Loop(f) == f = [s \in SUBSET D |->
                             IF s = {} THEN [raw |-> 0, aligned |-> 0]
                             ELSE Step(f[s \ {Max(s)}], q[Max(s)])]
           fold == CHOOSE f : Loop(f)
           A == SumTo(q, 0, Aligned)
           B == SumTo(q, 0, PaddedTo(e))
           G == [s \in SUBSET D |-> [raw |-> A[s], aligned |-> B[s]]]
<1>1. BothOf(q, e) = fold[D]
  BY DEF BothOf, FoldLeft, MapThenFoldSet
<1>2. IsFiniteSet(D) /\ \A s \in SUBSET D : s # {} => Max(s) \in s
  BY PositionsFinite DEF Sized
<1>3. /\ A[{}] = 0 /\ A[D] = Rem(Total(ToSet(q), Aligned), Word)
      /\ \A s \in SUBSET D : s # {} => A[s] = (A[s \ {Max(s)}] + layout[q[Max(s)]].aligned) % Word
  BY AlignedSteps
<1>4. /\ B[{}] = 0 /\ B[D] = Rem(Total(ToSet(q), PaddedTo(e)), Word)
      /\ \A s \in SUBSET D : s # {} => B[s] = RoundUp((B[s \ {Max(s)}] + layout[q[Max(s)]].aligned) % Word, e)
  BY PaddedSteps
<1>5. /\ G[{}] = [raw |-> 0, aligned |-> 0]
      /\ \A s \in SUBSET D : s # {} => G[s] = Step(G[s \ {Max(s)}], q[Max(s)])
  <2> HIDE DEF A, B, D
  <2>1. G[{}] = [raw |-> 0, aligned |-> 0]
    BY <1>3, <1>4
  <2>2. ASSUME NEW s \in SUBSET D, s # {} PROVE G[s] = Step(G[s \ {Max(s)}], q[Max(s)])
    <3> DEFINE t == s \ {Max(s)}
    <3>1. t \in SUBSET D
      OBVIOUS
    <3>2. A[s] = (A[t] + layout[q[Max(s)]].aligned) % Word
      BY <1>3, <2>2
    <3>3. B[s] = RoundUp((B[t] + layout[q[Max(s)]].aligned) % Word, e)
      BY <1>4, <2>2
    <3>4. G[t].raw = A[t] /\ G[t].aligned = B[t] /\ G[s] = [raw |-> A[s], aligned |-> B[s]]
      BY <3>1
    <3> HIDE DEF G, t
    <3>5. Step(G[t], q[Max(s)]) = [raw |-> (A[t] + layout[q[Max(s)]].aligned) % Word,
                                   aligned |-> RoundUp((B[t] + layout[q[Max(s)]].aligned) % Word, e)]
      BY <3>4
    <3> QED BY <3>2, <3>3, <3>4, <3>5 DEF t
  <2> QED BY <2>1, <2>2
<1>6. Loop(G)
  <2>1. G = [s \in SUBSET D |-> G[s]]
    OBVIOUS
  <2> HIDE DEF G, Step
  <2> QED BY <1>5, <2>1
<1>7. Loop(fold)
  <2> HIDE DEF Loop, G
  <2> QED BY <1>6
<1>8. /\ fold[{}] = [raw |-> 0, aligned |-> 0]
      /\ \A s \in SUBSET D : s # {} => fold[s] = Step(fold[s \ {Max(s)}], q[Max(s)])
  <2> HIDE DEF fold, Step
  <2> QED BY <1>7
<1>9. G[D] = [raw |-> A[D], aligned |-> B[D]]
  OBVIOUS
<1> HIDE DEF fold, A, B, G, D, Loop, Step
<1>10. fold[D] = G[D]
  <2>1. fold[{}] = G[{}]
    BY <1>5, <1>8
  <2>2. ASSUME NEW s \in SUBSET D, s # {}, fold[s \ {Max(s)}] = G[s \ {Max(s)}]
        PROVE  fold[s] = G[s]
    BY <1>5, <1>8, <2>2
  <2> QED BY <1>2, <2>1, <2>2, FoldsAgree
<1> QED BY <1>1, <1>3, <1>4, <1>9, <1>10

LEMMA SumOfBoth ==
  ASSUME NEW X, NEW q \in Seq(X), NoRepeats(q), NEW b \in 0 .. Word - 1, NEW c \in 0 .. Word - 1,
         NEW f, NEW v, NEW w, NEW e,
         \A x \in ToSet(q) : /\ v[x] \in Nat /\ w[x] \in Nat
                             /\ f[<<x, e>>].raw = v[x] /\ f[<<x, e>>].aligned = w[x]
  PROVE  PlusBoth(q, Two(b, c), f, e)
           = Two(Rem(b + Total(ToSet(q), v), Word), Rem(c + Total(ToSet(q), w), Word))
<1> DEFINE D == DOMAIN q
           Step(sum, x) == [raw |-> (sum.raw + f[<<x, e>>].raw) % Word,
                            aligned |-> (sum.aligned + f[<<x, e>>].aligned) % Word]
           Loop(g) == g = [s \in SUBSET D |->
                             IF s = {} THEN [raw |-> b, aligned |-> c]
                             ELSE Step(g[s \ {Max(s)}], q[Max(s)])]
           fold == CHOOSE g : Loop(g)
           A == SumTo(q, b, v)
           B == SumTo(q, c, w)
           G == [s \in SUBSET D |-> [raw |-> A[s], aligned |-> B[s]]]
<1>1. PlusBoth(q, Two(b, c), f, e) = fold[D]
  BY DEF PlusBoth, Two, FoldLeft, MapThenFoldSet
<1>2. IsFiniteSet(D) /\ \A s \in SUBSET D : s # {} => Max(s) \in s
  BY PositionsFinite
<1>3. Adds(A, q, b, v) /\ A[D] = Rem(b + Total(ToSet(q), v), Word)
  BY SumSteps
<1>4. Adds(B, q, c, w) /\ B[D] = Rem(c + Total(ToSet(q), w), Word)
  BY SumSteps
<1>5. /\ G[{}] = [raw |-> b, aligned |-> c]
      /\ \A s \in SUBSET D : s # {} => G[s] = Step(G[s \ {Max(s)}], q[Max(s)])
  <2> HIDE DEF A, B
  <2>1. G[{}] = [raw |-> b, aligned |-> c]
    BY <1>3, <1>4 DEF Adds
  <2>2. ASSUME NEW s \in SUBSET D, s # {} PROVE G[s] = Step(G[s \ {Max(s)}], q[Max(s)])
    <3> DEFINE t == s \ {Max(s)}
               x == q[Max(s)]
    <3>1. t \in SUBSET D
      OBVIOUS
    <3>2. x \in ToSet(q)
      BY <1>2, <2>2 DEF ToSet
    <3>3. f[<<x, e>>].raw = v[x] /\ f[<<x, e>>].aligned = w[x]
      BY <3>2
    <3>4. A[s] = Rem(A[t] + v[x], Word) /\ B[s] = Rem(B[t] + w[x], Word)
      BY <1>3, <1>4, <2>2 DEF Adds
    <3>5. G[t].raw = A[t] /\ G[t].aligned = B[t] /\ G[s] = [raw |-> A[s], aligned |-> B[s]]
      BY <3>1
    <3> HIDE DEF G, t, x
    <3>6. Step(G[t], x) = [raw |-> Rem(A[t] + v[x], Word), aligned |-> Rem(B[t] + w[x], Word)]
      BY <3>3, <3>5 DEF Rem
    <3> QED BY <3>4, <3>5, <3>6 DEF t, x
  <2> QED BY <2>1, <2>2
<1>6. Loop(G)
  <2>1. G = [s \in SUBSET D |-> G[s]]
    OBVIOUS
  <2> HIDE DEF G, Step
  <2> QED BY <1>5, <2>1
<1>7. Loop(fold)
  <2> HIDE DEF Loop, G
  <2> QED BY <1>6
<1>8. /\ fold[{}] = [raw |-> b, aligned |-> c]
      /\ \A s \in SUBSET D : s # {} => fold[s] = Step(fold[s \ {Max(s)}], q[Max(s)])
  <2> HIDE DEF fold, Step
  <2> QED BY <1>7
<1>9. G[D] = [raw |-> A[D], aligned |-> B[D]]
  OBVIOUS
<1> HIDE DEF fold, A, B, G, D, Loop, Step
<1>10. fold[D] = G[D]
  <2>1. fold[{}] = G[{}]
    BY <1>5, <1>8
  <2>2. ASSUME NEW s \in SUBSET D, s # {}, fold[s \ {Max(s)}] = G[s \ {Max(s)}]
        PROVE  fold[s] = G[s]
    <3>1. /\ fold[s] = Step(fold[s \ {Max(s)}], q[Max(s)])
          /\ G[s] = Step(G[s \ {Max(s)}], q[Max(s)])
      BY <1>5, <1>8, <2>2
    <3> QED BY <2>2, <3>1
  <2>3. \A s \in SUBSET D : s # {} /\ fold[s \ {Max(s)}] = G[s \ {Max(s)}] => fold[s] = G[s]
    BY <2>2
  <2>4. IsFiniteSet(D) /\ \A s \in SUBSET D : s # {} => Max(s) \in s
    BY <1>2
  <2> QED BY ONLY <2>1, <2>3, <2>4, FoldsAgree
<1> QED BY <1>1, <1>3, <1>4, <1>9, <1>10 DEF Two

\* The sum over a set, whatever the order its elements are taken in.
LEMMA SumOverSet ==
  ASSUME NEW T, IsFiniteSet(T), NEW g, \A s \in T : g[s] \in Nat
  PROVE  SumFunctionOnSet(g, T) = Total(T, g)
<1> DEFINE Loop(f) == f = [s \in SUBSET T |->
                             IF s = {} THEN 0
                             ELSE g[CHOOSE x \in s : TRUE] + f[s \ {CHOOSE x \in s : TRUE}]]
           fold == CHOOSE f : Loop(f)
           G == [s \in SUBSET T |-> Total(s, g)]
<1>1. SumFunctionOnSet(g, T) = fold[T]
  BY DEF SumFunctionOnSet, FoldFunctionOnSet, MapThenFoldSet
<1>2. \A s \in T : g[s] \in Nat
  OBVIOUS
<1>3. ASSUME NEW s \in SUBSET T, NEW x \in s
      PROVE  G[s] = g[x] + G[s \ {x}]
  <2>1. IsFiniteSet(s) /\ IsFiniteSet(s \ {x}) /\ \A y \in s : g[y] \in Nat
    BY <1>2, FS_Subset
  <2>2. Total(s, g) = Total(s \ {x}, g) + g[x]
    BY <2>1, TotalAdds
  <2>3. Total(s \ {x}, g) \in Nat
    BY <2>1, TotalType
  <2> QED BY <1>2, <2>2, <2>3
<1>4. G[{}] = 0
  BY TotalEmpty
<1>5. Loop(G)
  <2>1. G = [s \in SUBSET T |-> G[s]]
    OBVIOUS
  <2>2. ASSUME NEW s \in SUBSET T, s # {}
        PROVE  G[s] = g[CHOOSE x \in s : TRUE] + G[s \ {CHOOSE x \in s : TRUE}]
    <3>1. (CHOOSE x \in s : TRUE) \in s
      BY <2>2
    <3> HIDE DEF G
    <3> QED BY <1>3, <3>1
  <2> HIDE DEF G
  <2> QED BY <1>4, <2>1, <2>2
<1>6. Loop(fold)
  <2> HIDE DEF Loop, G
  <2> QED BY <1>5
<1>7. /\ fold[{}] = 0
      /\ \A s \in SUBSET T : s # {} =>
           fold[s] = g[CHOOSE x \in s : TRUE] + fold[s \ {CHOOSE x \in s : TRUE}]
  <2> HIDE DEF fold
  <2> QED BY <1>6
<1> DEFINE P == {s \in SUBSET T : fold[s] = G[s]}
<1> HIDE DEF fold, G, Loop
<1>8. ASSUME NEW s \in SUBSET T, \A x \in s : s \ {x} \in P
      PROVE  s \in P
  <2>1. CASE s = {}
    BY <1>4, <1>7, <2>1
  <2>2. CASE s # {}
    <3> DEFINE x == CHOOSE x \in s : TRUE
    <3>1. x \in s
      BY <2>2
    <3>2. fold[s] = g[x] + fold[s \ {x}]
      BY <1>7, <2>2
    <3> HIDE DEF x
    <3>3. fold[s \ {x}] = G[s \ {x}]
      BY <1>8, <3>1
    <3>4. G[s] = g[x] + G[s \ {x}]
      BY <1>3, <3>1
    <3> QED BY <3>2, <3>3, <3>4
  <2> QED BY <2>1, <2>2
<1>9. T \in P
  <2> HIDE DEF P
  <2> QED BY <1>8, FiniteDescent
<1>10. fold[T] = G[T]
  BY <1>9
<1> QED BY <1>1, <1>10 DEF G

-----------------------------------------------------------------------------
(* The regions reached from a region down the lists, and their storages.   *)

Kids(r) == ToSet(children[r])

\* A set of regions each of which lists another of the set is empty: to compute
\* a query of a region after its children's comes to an end.
Founded == \A S \in SUBSET regions : (\A r \in S : Kids(r) \cap S # {}) => S = {}

\* The storages are finitely many, and laid out for a request.
Laid == IsFiniteSet(storages) /\ \A s \in storages : \E request \in Request : layout[s] = Layout(request)

SInv == IInv /\ Founded /\ Laid

LEMMA CreateFounded ==
  ASSUME SInv, NEW r \in Region, NEW p \in Region \cup {NULL}, CreateRegion(r, p)
  PROVE  Founded'
<1> SUFFICES ASSUME NEW S \in SUBSET regions', \A q \in S : Kids(q)' \cap S # {}
             PROVE  S = {}
  BY DEF Founded
<1>1. /\ r \notin regions /\ p # r /\ regions' = regions \cup {r}
      /\ children' = [q \in Region |-> IF q = p THEN Append(children[q], r)
                                       ELSE IF q = r THEN <<>> ELSE children[q]]
  BY NullAssumption DEF CreateRegion
<1>2. regions \subseteq Region /\ children \in [Region -> Seq(Region)]
  BY DEF SInv, IInv, TypeOK
<1>3. r \notin S
  <2>1. children'[r] = <<>>
    BY <1>1
  <2>2. Kids(r)' = {}
    BY <2>1 DEF Kids, ToSet
  <2> QED BY <2>2
<1>4. ASSUME NEW q \in regions PROVE Kids(q)' \subseteq Kids(q) \cup {r}
  <2>1. CASE q = p
    <3>1. children'[q] = Append(children[q], r) /\ children[q] \in Seq(Region)
      BY <1>1, <1>2, <2>1
    <3>2. NoRepeats(children[q]) /\ r \notin ToSet(children[q])
      BY <1>1 DEF SInv, IInv, ChildrenLinked
    <3> QED BY <3>1, <3>2, AppendProperty DEF Kids
  <2>2. CASE q # p
    BY <1>1, <1>2, <2>2 DEF Kids
  <2> QED BY <2>1, <2>2
<1>5. S \in SUBSET regions /\ \A q \in S : Kids(q) \cap S # {}
  BY <1>1, <1>3, <1>4
<1> QED BY <1>5 DEF SInv, Founded

LEMMA RegionsFounded ==
  ASSUME SInv, regions' \subseteq regions, \A q \in regions' : Kids(q)' \subseteq Kids(q)
  PROVE  Founded'
<1> SUFFICES ASSUME NEW S \in SUBSET regions', \A q \in S : Kids(q)' \cap S # {}
             PROVE  S = {}
  BY DEF Founded
<1>1. S \in SUBSET regions /\ \A q \in S : Kids(q) \cap S # {}
  OBVIOUS
<1> QED BY <1>1 DEF SInv, Founded

LEMMA AllocLaid ==
  ASSUME SInv, NEW r \in Region, NEW s \in Storage, NEW request \in Request, RegionAlloc(r, s, request)
  PROVE  Laid'
<1>1. /\ storages' = storages \cup {s} /\ layout' = [layout EXCEPT ![s] = Layout(request)]
      /\ storages \subseteq Storage
      /\ layout \in [Storage -> {NoLayout} \cup {Layout(q) : q \in Request}]
  BY DEF RegionAlloc, SInv, IInv, TypeOK
<1>2. IsFiniteSet(storages')
  BY <1>1, FS_AddElement DEF SInv, Laid
<1>3. ASSUME NEW t \in storages' PROVE \E q \in Request : layout'[t] = Layout(q)
  <2>1. CASE t = s
    <3>1. layout'[t] = Layout(request)
      BY <1>1, <2>1
    <3> QED BY <3>1
  <2>2. CASE t # s
    <3>1. t \in storages /\ layout'[t] = layout[t]
      BY <1>1, <2>2
    <3> QED BY <3>1 DEF SInv, Laid
  <2> QED BY <2>1, <2>2
<1> QED BY <1>2, <1>3 DEF Laid

LEMMA StoragesLaid ==
  ASSUME SInv, storages' \subseteq storages, layout' = layout
  PROVE  Laid'
<1>1. IsFiniteSet(storages')
  BY FS_Subset DEF SInv, Laid
<1> QED BY <1>1 DEF SInv, Laid

LEMMA SizesPreserved ==
  ASSUME SInv, [Next]_vars
  PROVE  SInv'
<1>1. IInv'
  BY NextIInv DEF SInv
<1>2. Founded' /\ Laid'
  <2>1. CASE \E r \in Region, p \in Region \cup {NULL} : CreateRegion(r, p)
    <3>1. Founded'
      BY <2>1, CreateFounded
    <3>2. storages' = storages /\ layout' = layout
      BY <2>1 DEF CreateRegion
    <3> QED BY <3>1, <3>2, StoragesLaid
  <2>2. CASE \E r \in Region : DestroyRegion(r)
    <3>1. PICK r \in Region : DestroyRegion(r)
      BY <2>2
    <3>2. regions' \subseteq regions /\ storages' \subseteq storages /\ layout' = layout
      BY <3>1 DEF DestroyRegion, Dangle
    <3>3. ASSUME NEW q \in regions PROVE Kids(q)' \subseteq Kids(q)
      <4>1. q \in Region /\ children[q] \in Seq(Region)
        BY DEF SInv, IInv, TypeOK
      <4>2. CASE children'[q] = children[q]
        BY <4>2 DEF Kids
      <4>3. CASE children'[q] = RemoveFirst(children[q], r)
        BY <4>1, <4>3, RemoveFirstProperties DEF SInv, IInv, ChildrenLinked, Kids
      <4> QED BY <3>1, <4>1, <4>2, <4>3 DEF DestroyRegion, Dangle, Unlinked
    <3> QED BY <3>2, <3>3, RegionsFounded, StoragesLaid
  <2>3. CASE \E r \in Region, s \in Storage, request \in Request : RegionAlloc(r, s, request)
    <3>1. regions' = regions /\ children' = children
      BY <2>3 DEF RegionAlloc
    <3> QED BY <2>3, <3>1, RegionsFounded, AllocLaid DEF Kids
  <2>4. CASE UNCHANGED <<regions, children, storages, layout>>
    BY <2>4, RegionsFounded, StoragesLaid DEF Kids
  <2>5. CASE \E s \in Storage, r \in Region : StorageTransfer(s, r)
    BY <2>4, <2>5 DEF StorageTransfer, Rehome, Dangle
  <2>6. CASE \E s \in Storage, levels \in Levels : StoragePreserve(s, levels)
    BY <2>4, <2>6 DEF StoragePreserve, Rehome, Dangle
  <2> QED BY <2>1, <2>2, <2>3, <2>4, <2>5, <2>6 DEF Next, vars
<1> QED BY <1>1, <1>2 DEF SInv

\* Any client's regions can be walked down to the end, whatever it destroys in
\* whatever order, and its storages are laid out as the code lays them out
\* (lib/Region.cpp).
THEOREM SizesInvariant == Spec => []SInv
<1>1. Init => SInv
  BY InitIInv, FS_EmptySet DEF Init, SInv, Founded, Laid
<1>2. SInv /\ [Next]_vars => SInv'
  BY SizesPreserved
<1> QED BY <1>1, <1>2, PTL DEF Spec

\* The largest power of two that a word holds.
LEMMA HalfOfWord ==
  LET h == 2 ^ (Bits - 1)
  IN  /\ h \in Nat \ {0} /\ h + h = Word /\ h \in Powers /\ 1 \in Powers
      /\ Word - 1 \in Nat \ {0}
<1> DEFINE h == 2 ^ (Bits - 1)
<1>1. Bits - 1 \in Nat /\ 1 \in Nat /\ Bits = (Bits - 1) + 1 /\ Bits - 1 \in 0 .. Bits /\ 0 \in 0 .. Bits
  BY BitsAssumption
<1>2. 2 ^ Bits = 2 ^ (Bits - 1) * 2 ^ 1
  BY <1>1, PowerOfSum
<1>3. 2 ^ 1 = 2 /\ 2 ^ 0 = 1
    OBVIOUS
<1>4. h \in Nat \ {0}
  BY <1>1, PowerPositive
<1>5. h \in Powers /\ 1 \in Powers
  BY <1>1, <1>3 DEF Powers
<1>6. h + h = Word
  BY <1>2, <1>3, <1>4 DEF Word
<1>7. Word - 1 \in Nat \ {0}
  <2> HIDE DEF h
  <2> QED BY <1>4, <1>6
<1> QED BY <1>4, <1>5, <1>6, <1>7

\* What is laid out for a request fits a word, at a power of two that is not
\* above the number that stands for no alignment.
LEMMA LayoutFits ==
  ASSUME NEW request \in Request
  PROVE  /\ Layout(request).aligned \in 0 .. Word - 1
         /\ Layout(request).alignment \in Powers /\ Layout(request).alignment <= NoAlignment
<1>0. Word \in Nat \ {0} /\ NoAlignment = Word - 1
  BY WordType DEF NoAlignment
<1>2. request.size \in 0 .. 2 ^ Bits - 1 /\ request.align \in 0 .. 2 ^ (Bits - 1)
  BY RequestAssumption
<1> DEFINE h == 2 ^ (Bits - 1)
           a == IF request.align = 0 THEN 1 ELSE BitCeil(request.align)
<1>3. h \in Nat \ {0} /\ h + h = Word /\ h \in Powers /\ 1 \in Powers
  BY HalfOfWord
<1>4. a \in Powers /\ a \in Nat \ {0} /\ a <= h
  <2>1. CASE request.align = 0
    BY <1>3, <2>1
  <2>2. CASE request.align # 0
    <3> DEFINE n == request.align
    <3>1. n \in 0 .. Word /\ h >= n
      BY <1>2, <1>3
    <3> HIDE DEF n, h
    <3>2. BitCeil(n) \in Powers /\ BitCeil(n) <= h
      BY <1>3, <3>1, BitCeilIs
    <3>3. a = BitCeil(n)
      BY <2>2 DEF n
    <3> QED BY <3>2, <3>3, PowersDivide
  <2> QED BY <2>1, <2>2
<1>5. Layout(request).alignment = a /\ Layout(request).aligned = RoundUp(request.size, a)
  BY DEF Layout
<1>6. RoundUp(request.size, a) \in 0 .. Word - 1
  <2> DEFINE z == request.size
             v == IF z % a = 0 THEN z ELSE z + (a - (z % a))
  <2>1. z \in Int
    BY <1>2
  <2> HIDE DEF a, z
  <2>2. v \in Int
    BY <1>4, <2>1
  <2>3. RoundUp(z, a) = Rem(v, Word)
    BY DEF RoundUp, Rem
  <2> HIDE DEF v
  <2> QED BY <1>0, <2>2, <2>3, RemRange DEF z
<1> HIDE DEF a, h
<1>7. a <= Word - 1
  BY <1>0, <1>3, <1>4
<1> QED BY <1>0, <1>4, <1>5, <1>6, <1>7

\* So is what a live storage takes up.
LEMMA StoragesSized ==
  ASSUME SInv, NEW s \in storages
  PROVE  /\ s \in Storage /\ layout[s].aligned \in Nat /\ layout[s].aligned < Word
         /\ layout[s].alignment \in Powers /\ layout[s].alignment <= NoAlignment
<1>1. s \in Storage /\ Word \in Nat \ {0}
  BY WordType DEF SInv, IInv, TypeOK
<1>2. \E request \in Request : layout[s] = Layout(request)
  BY DEF SInv, Laid
<1>3. layout[s].aligned \in 0 .. Word - 1
  BY <1>2, LayoutFits
<1> QED BY <1>1, <1>2, <1>3, LayoutFits

\* The storages that one of the regions lists.
Listed(S) == {s \in storages : \E r \in S : s \in ToSet(alloced[r])}

\* The lists of a region hold live regions and storages, each once.
LEMMA Lists ==
  ASSUME SInv, NEW r \in regions
  PROVE  /\ children[r] \in Seq(Region) /\ NoRepeats(children[r]) /\ ToSet(children[r]) = Kids(r)
         /\ IsFiniteSet(Kids(r)) /\ Kids(r) \subseteq regions
         /\ Sized(alloced[r]) /\ ToSet(alloced[r]) = Listed({r})
<1>1. r \in Region /\ children[r] \in Seq(Region) /\ alloced[r] \in Seq(Storage)
  BY DEF SInv, IInv, TypeOK
<1>2. NoRepeats(children[r]) /\ NoRepeats(alloced[r])
  BY DEF SInv, IInv, ListsOwned, ChildrenLinked
<1>3. \A s \in ToSet(alloced[r]) : s \in storages
  BY DEF SInv, IInv, ListsOwned
<1>4. ToSet(alloced[r]) = Listed({r})
  BY <1>3 DEF Listed
<1>5. Sized(alloced[r])
  <2>1. \A s \in storages : layout[s].aligned \in Nat
    BY StoragesSized
  <2>2. \A s \in ToSet(alloced[r]) : layout[s].aligned \in Nat
    BY <1>3, <2>1
  <2>3. alloced[r] \in Seq(Storage) /\ NoRepeats(alloced[r])
    BY <1>1, <1>2
  <2> QED BY <2>2, <2>3 DEF Sized
<1>6. IsFiniteSet(ToSet(children[r])) /\ ToSet(children[r]) = Kids(r)
  BY <1>1, PositionsFinite DEF Kids
<1>7. Kids(r) \subseteq regions
  BY DEF Kids, SInv, IInv, ChildrenLinked
<1> QED BY <1>1, <1>2, <1>4, <1>5, <1>6, <1>7

\* A live region is listed by one region at most, and a storage too.
LEMMA ListedOnce ==
  ASSUME SInv, NEW p \in regions, NEW q \in regions
  PROVE  /\ \A c \in Kids(p) : parent[c] = p /\ (c \in Kids(q) => p = q)
         /\ \A s \in Listed({p}) : owner[s] = p /\ (s \in Listed({q}) => p = q)
BY DEF SInv, IInv, ListsOwned, ChildrenLinked, Kids, Listed

\* What holds of a region when it holds of its children holds of every region.
LEMMA Descend ==
  ASSUME SInv, NEW P, \A r \in regions : (\A c \in Kids(r) : c \in P) => r \in P
  PROVE  regions \subseteq P
<1> DEFINE S == regions \ P
<1>1. \A r \in S : Kids(r) \cap S # {}
  BY Lists
<1>2. S \in SUBSET regions
  OBVIOUS
<1> HIDE DEF S
<1>3. S = {}
  BY <1>1, <1>2 DEF SInv, Founded
<1> QED BY <1>3 DEF S

\* The regions that the recursion of a query of r goes through: the least set
\* with r and, with every region, those it lists.
ClosedUnder(S) == \A p \in S : Kids(p) \subseteq S
Under(r) == {q \in regions : \A S \in SUBSET regions : r \in S /\ ClosedUnder(S) => q \in S}

LEMMA UnderLeast ==
  ASSUME SInv, NEW r \in regions
  PROVE  /\ r \in Under(r) /\ Under(r) \subseteq regions /\ ClosedUnder(Under(r))
         /\ \A S \in SUBSET regions : r \in S /\ ClosedUnder(S) => Under(r) \subseteq S
<1>1. r \in Under(r) /\ Under(r) \subseteq regions
  BY DEF Under
<1>2. \A S \in SUBSET regions : r \in S /\ ClosedUnder(S) => Under(r) \subseteq S
  BY DEF Under
<1>3. ASSUME NEW p \in Under(r), NEW q \in Kids(p)
      PROVE  q \in Under(r)
  <2>1. q \in regions
    BY <1>1, Lists
  <2> SUFFICES ASSUME NEW S \in SUBSET regions, r \in S, ClosedUnder(S) PROVE q \in S
    BY <2>1 DEF Under
  <2>2. p \in S
    BY <1>2
  <2> QED BY <2>2 DEF ClosedUnder
<1> QED BY <1>1, <1>2, <1>3 DEF ClosedUnder

\* Whoever is under a region is that region, or listed by one that is.
LEMMA UnderUp ==
  ASSUME SInv, NEW r \in regions, NEW q \in Under(r)
  PROVE  q = r \/ \E p \in Under(r) : q \in Kids(p)
<1> DEFINE S == {c \in Under(r) : c = r \/ \E p \in Under(r) : c \in Kids(p)}
<1>1. S \in SUBSET regions /\ r \in S
  BY UnderLeast
<1>2. ClosedUnder(S)
  BY UnderLeast DEF ClosedUnder
<1>3. q \in S
  <2> HIDE DEF S
  <2> QED BY <1>1, <1>2, UnderLeast
<1> QED BY <1>3

\* A listed region is under those that its lister is under, and under itself.
LEMMA UnderKid ==
  ASSUME SInv, NEW r \in regions, NEW p \in regions, NEW c \in Kids(p)
  PROVE  c \in regions /\ (c \in Under(r) <=> c = r \/ p \in Under(r))
<1>1. c \in regions
  BY Lists
<1>2. ASSUME p \in Under(r) PROVE c \in Under(r)
  BY <1>2, UnderLeast DEF ClosedUnder
<1>3. ASSUME c \in Under(r), c # r PROVE p \in Under(r)
  <2>1. PICK q \in Under(r) : c \in Kids(q)
    BY <1>3, UnderUp
  <2>2. q \in regions
    BY <2>1, UnderLeast
  <2> QED BY <2>1, <2>2, ListedOnce
<1> QED BY <1>1, <1>2, <1>3, UnderLeast

LEMMA UnderWithin ==
  ASSUME SInv, NEW r \in regions, NEW q \in Under(r)
  PROVE  q \in regions /\ Under(q) \subseteq Under(r)
BY UnderLeast

\* The regions under r are r and those under its children.
LEMMA UnderSplit ==
  ASSUME SInv, NEW r \in regions
  PROVE  Under(r) = {r} \cup UNION {Under(c) : c \in Kids(r)}
<1> DEFINE S == {r} \cup UNION {Under(c) : c \in Kids(r)}
<1>1. ASSUME NEW c \in Kids(r) PROVE c \in regions /\ c \in Under(c) /\ Under(c) \subseteq Under(r)
  <2>1. c \in regions /\ c \in Under(r)
    BY UnderKid, UnderLeast
  <2> QED BY <2>1, UnderLeast
<1>2. S \subseteq Under(r)
  BY <1>1, UnderLeast
<1>3. ClosedUnder(S)
  <2> SUFFICES ASSUME NEW p \in S, NEW q \in Kids(p) PROVE q \in S
    BY DEF ClosedUnder
  <2>1. CASE p = r
    BY <1>1, <2>1
  <2>2. CASE \E c \in Kids(r) : p \in Under(c)
    <3>1. PICK c \in Kids(r) : p \in Under(c)
      BY <2>2
    <3>2. q \in Under(c)
      BY <1>1, <3>1, UnderLeast DEF ClosedUnder
    <3> QED BY <3>2
  <2> QED BY <2>1, <2>2
<1>4. S \in SUBSET regions /\ r \in S
  BY <1>2, UnderLeast
<1>5. Under(r) \subseteq S
  <2> HIDE DEF S
  <2> QED BY <1>3, <1>4, UnderLeast
<1> QED BY <1>2, <1>5

\* No region is under its children, and no region is under two of them.
LEMMA UnderApart ==
  ASSUME SInv, NEW r \in regions, NEW c \in Kids(r)
  PROVE  /\ r \notin Under(c)
         /\ \A d \in Kids(r) : c # d => Under(c) \cap Under(d) = {}
<1>1. \A b \in Kids(r) : b \in regions /\ r \notin Under(b)
  <2> SUFFICES ASSUME NEW b \in Kids(r) PROVE b \in regions /\ r \notin Under(b)
    OBVIOUS
  <2>0. b \in regions
    BY Lists
  <2> SUFFICES ASSUME r \in Under(b) PROVE FALSE
    BY <2>0
  <2> DEFINE S == {q \in Under(b) : r \in Under(q)}
  <2>1. b \in S /\ S \in SUBSET regions
    BY <2>0, UnderLeast
  <2>2. ASSUME NEW q \in S PROVE Kids(q) \cap S # {}
    <3>0. q \in regions /\ q \in Under(b) /\ r \in Under(q)
      BY <2>1
    <3>1. CASE q = r
      BY <2>0, <2>1, <3>1
    <3>2. CASE q # r
      <4>1. PICK p \in Kids(q) : r \in Under(p)
        BY <3>0, <3>2, UnderSplit
      <4>2. p \in Under(b)
        BY <2>0, <3>0, <4>1, UnderLeast DEF ClosedUnder
      <4> QED BY <4>1, <4>2
    <3> QED BY <3>1, <3>2
  <2> HIDE DEF S
  <2>3. S = {}
    BY <2>1, <2>2 DEF SInv, Founded
  <2> QED BY <2>1, <2>3
<1>2. ASSUME NEW d \in Kids(r), c # d
      PROVE  Under(c) \cap Under(d) = {}
  <2>0. c \in regions /\ d \in regions
    BY <1>1, <1>2
  <2> DEFINE S == {q \in Under(c) : q \notin Under(d)}
  <2>1. c \in S
    <3>1. c \notin Under(d)
      BY <1>1, <1>2, <2>0, UnderKid
    <3> QED BY <2>0, <3>1, UnderLeast
  <2>2. ClosedUnder(S)
    <3> SUFFICES ASSUME NEW p \in S, NEW q \in Kids(p) PROVE q \in S
      BY DEF ClosedUnder
    <3>0. p \in regions /\ p \in Under(c) /\ p \notin Under(d)
      BY <2>0, UnderLeast
    <3>1. q \in Under(c)
      BY <2>0, <3>0, UnderKid
    <3>2. q \notin Under(d)
      <4>1. q # d
        <5>1. CASE q = d
          <6>1. p = r
            BY <1>2, <3>0, <5>1, ListedOnce
          <6> QED BY <1>1, <3>0, <6>1
        <5> QED BY <5>1
      <4> QED BY <2>0, <3>0, <4>1, UnderKid
    <3> QED BY <3>1, <3>2
  <2>3. S \in SUBSET regions
    BY <2>0, UnderLeast
  <2>4. Under(c) \subseteq S
    <3> HIDE DEF S
    <3> QED BY <2>0, <2>1, <2>2, <2>3, UnderLeast
  <2> QED BY <2>4
<1> QED BY <1>1, <1>2

\* What a query counts.
Reach(r, deep) == Listed(IF deep THEN Under(r) ELSE {r})

Within(r) == Listed(Under(r))

\* The storages below a region are its own and, apart from each other, those
\* below its children.
LEMMA ReachSplit ==
  ASSUME SInv, NEW r \in regions
  PROVE  /\ Reach(r, FALSE) = Listed({r})
         /\ Reach(r, TRUE) = Within(r)
         /\ Within(r) = Listed({r}) \cup UNION {Within(c) : c \in Kids(r)}
         /\ \A c \in Kids(r) : /\ Listed({r}) \cap Within(c) = {}
                               /\ \A d \in Kids(r) : c # d => Within(c) \cap Within(d) = {}
         /\ IsFiniteSet(Listed({r})) /\ IsFiniteSet(Within(r))
         /\ Listed({r}) \subseteq storages /\ Within(r) \subseteq storages
<1>1. Reach(r, FALSE) = Listed({r}) /\ Reach(r, TRUE) = Within(r)
  BY DEF Reach, Within
<1>2. Within(r) = Listed({r}) \cup UNION {Within(c) : c \in Kids(r)}
  BY UnderSplit DEF Within, Listed
<1>3. ASSUME NEW c \in Kids(r)
      PROVE  /\ Listed({r}) \cap Within(c) = {}
             /\ \A d \in Kids(r) : c # d => Within(c) \cap Within(d) = {}
  <2>1. \A b \in Kids(r) : b \in regions /\ Under(b) \subseteq regions
    BY Lists, UnderLeast
  <2>2. \A p, q \in regions : \A s \in ToSet(alloced[p]) : s \in ToSet(alloced[q]) => p = q
    BY DEF SInv, IInv, ListsOwned
  <2> QED BY <2>1, <2>2, UnderApart DEF Within, Listed
<1>4. Listed({r}) \subseteq storages /\ Within(r) \subseteq storages
  BY DEF Within, Listed
<1>5. IsFiniteSet(Listed({r})) /\ IsFiniteSet(Within(r))
  BY <1>4, FS_Subset DEF SInv, Laid
<1> QED BY <1>1, <1>2, <1>3, <1>4, <1>5

LEMMA ReachWithin ==
  ASSUME SInv, NEW r \in regions, NEW deep \in BOOLEAN
  PROVE  IsFiniteSet(Reach(r, deep)) /\ Reach(r, deep) \subseteq storages
<1>1. Reach(r, deep) \subseteq storages
  BY DEF Reach, Listed
<1>2. IsFiniteSet(storages)
  BY DEF SInv, Laid
<1> QED BY <1>1, <1>2, FS_Subset

\* What a query adds up is the sum over all storages below the region.
DeepTotal(g) == [r \in regions |-> Rem(Total(Within(r), g), Word)]

LEMMA TotalSplit ==
  ASSUME SInv, NEW r \in regions, NEW g, \A s \in storages : g[s] \in Nat
  PROVE  /\ Rem(Total(Listed({r}), g), Word) \in 0 .. Word - 1
         /\ \A c \in Kids(r) : DeepTotal(g)[c] \in Nat
         /\ Rem(Rem(Total(Listed({r}), g), Word) + Total(Kids(r), DeepTotal(g)), Word)
              = DeepTotal(g)[r]
<1> DEFINE F == [c \in Kids(r) |-> Within(c)]
           U == UNION {F[c] : c \in Kids(r)}
           T == [c \in Kids(r) |-> Total(F[c], g)]
           V == DeepTotal(g)
           o == Total(Listed({r}), g)
<1>0. Word \in Nat \ {0} /\ IsFiniteSet(Kids(r)) /\ Kids(r) \subseteq regions
  BY WordType, Lists
<1>1. \A c \in Kids(r) : IsFiniteSet(Within(c)) /\ Within(c) \subseteq storages
  BY <1>0, ReachSplit
<1>2. \A c \in Kids(r) : Total(Within(c), g) \in Nat
  BY <1>1, TotalType
<1>3. IsFiniteSet(U) /\ Total(U, g) = Total(Kids(r), T)
  <2>1. /\ \A c \in Kids(r) : IsFiniteSet(F[c]) /\ \A s \in F[c] : g[s] \in Nat
        /\ \A c, d \in Kids(r) : c # d => F[c] \cap F[d] = {}
    BY <1>1, ReachSplit
  <2> HIDE DEF F
  <2> QED BY <1>0, <2>1, TotalOfParts
<1>4. U = UNION {Within(c) : c \in Kids(r)}
  OBVIOUS
<1>5. Total(Within(r), g) = o + Total(U, g)
  <2> DEFINE O == Listed({r})
  <2>1. Within(r) = O \cup U
    BY <1>4, ReachSplit
  <2>2. O \cap U = {}
    <3> HIDE DEF U
    <3>1. \A s \in U : \E c \in Kids(r) : s \in Within(c)
      BY <1>4
    <3> QED BY <3>1, ReachSplit
  <2>3. \A s \in O \cup U : g[s] \in Nat
    BY <2>1, ReachSplit
  <2>4. IsFiniteSet(O) /\ IsFiniteSet(U)
    BY <1>3, ReachSplit
  <2>5. o = Total(O, g)
    OBVIOUS
  <2> HIDE DEF U, O, o
  <2>6. Total(O \cup U, g) = Total(O, g) + Total(U, g)
    BY <2>2, <2>3, <2>4, TotalUnion
  <2> QED BY <2>1, <2>5, <2>6
<1>6. o \in Nat
  BY ReachSplit, TotalType
<1>7. \A c \in Kids(r) : T[c] \in Nat /\ V[c] = Rem(T[c], Word) /\ V[c] \in Nat
  <2> SUFFICES ASSUME NEW c \in Kids(r) PROVE T[c] \in Nat /\ V[c] = Rem(T[c], Word) /\ V[c] \in Nat
    OBVIOUS
  <2>1. T[c] = Total(Within(c), g)
    OBVIOUS
  <2>2. V[c] = Rem(Total(Within(c), g), Word)
    BY <1>0 DEF DeepTotal
  <2> HIDE DEF T, V
  <2>3. T[c] \in Nat
    BY <1>2, <2>1
  <2>4. T[c] \in Int
    BY <2>3
  <2>5. Rem(T[c], Word) \in Nat
    BY <1>0, <2>4, RemRange
  <2> QED BY <2>5, <1>0, <2>1, <2>2, <2>3, RemRange
<1> HIDE DEF T, V, U
<1>8. Rem(Total(Kids(r), V), Word) = Rem(Total(Kids(r), T), Word)
  BY <1>0, <1>7, TotalReduced
<1>9. Total(Kids(r), V) \in Nat /\ Total(Kids(r), T) \in Nat
  BY <1>0, <1>7, TotalType
<1> HIDE DEF o
<1>10. Rem(o, Word) \in Int /\ Rem(o, Word) \in 0 .. Word - 1 /\ Rem(Rem(o, Word), Word) = Rem(o, Word)
  <2>1. o \in Int
    BY <1>6
  <2> QED BY <1>0, <2>1, RemRange
<1>11. Rem(Rem(o, Word) + Total(Kids(r), V), Word) = Rem(o + Total(Kids(r), T), Word)
  <2>1. o \in Int /\ Total(Kids(r), V) \in Int /\ Total(Kids(r), T) \in Int
    BY <1>6, <1>9
  <2> QED BY <1>0, <1>8, <1>10, <2>1, RemSums
<1>12. V[r] = Rem(o + Total(Kids(r), T), Word)
  BY <1>3, <1>5 DEF V, DeepTotal
<1> QED BY <1>7, <1>10, <1>11, <1>12 DEF o, V

-----------------------------------------------------------------------------
(* The queries.                                                            *)

LEMMA StoragesAligned ==
  ASSUME SInv, NEW s \in storages
  PROVE  Aligned[s] \in Nat /\ Aligned[s] = layout[s].aligned
BY StoragesSized DEF Aligned

LEMMA StoragesPacked ==
  ASSUME SInv, NEW s \in storages
  PROVE  Packed[s] \in Nat
<1>1. s \in Storage
  BY StoragesSized
<1>2. PICK request \in Request : layout[s] = Layout(request)
  BY DEF SInv, Laid
<1>3. request.size \in 0 .. 2 ^ Bits - 1
  BY RequestAssumption
<1> QED BY <1>1, <1>2, <1>3 DEF Layout, Packed

LEMMA RawSizeIs ==
  ASSUME SInv, NEW r \in regions, NEW queryChildren \in BOOLEAN
  PROVE  RawSize(r, queryChildren) = Rem(Total(Reach(r, queryChildren), Aligned), Word)
<1> DEFINE Body(f, q) == PlusRaw(children[q], RawOf(alloced[q]), f)
           Loop(f) == f = [q \in regions |-> Body(f, q)]
           deep == CHOOSE f : Loop(f)
           K == DeepTotal(Aligned)
<1>1. /\ RawSize(r, TRUE) = deep[r]
      /\ RawSize(r, FALSE) = RawOf(alloced[r])
  BY DEF RawSize, RawSizeOfStorages, PlusRaw, RawOf
<1>2. ASSUME NEW q \in regions
      PROVE  RawOf(alloced[q]) = Rem(Total(Listed({q}), Aligned), Word)
  BY OwnRaw, Lists
<1>3. ASSUME NEW f, NEW q \in regions, \A c \in Kids(q) : f[c] = K[c]
      PROVE  Body(f, q) = K[q]
  <2> DEFINE b == RawOf(alloced[q])
  <2> HIDE DEF K
  <2>1. b = Rem(Total(Listed({q}), Aligned), Word)
    BY <1>2
  <2>2. /\ b \in 0 .. Word - 1 /\ \A c \in Kids(q) : K[c] \in Nat
        /\ Rem(b + Total(Kids(q), K), Word) = K[q]
    BY <2>1, StoragesAligned, TotalSplit DEF K
  <2> HIDE DEF b
  <2>3. PlusRaw(children[q], b, f) = Rem(b + Total(Kids(q), K), Word)
    <3> DEFINE l == children[q]
    <3>1. l \in Seq(Region) /\ NoRepeats(l) /\ ToSet(l) = Kids(q)
      BY Lists
    <3>2. \A c \in ToSet(l) : K[c] \in Nat /\ f[c] = K[c]
      BY <1>3, <2>2, <3>1
    <3> HIDE DEF l
    <3>3. PlusRaw(l, b, f) = Rem(b + Total(ToSet(l), K), Word)
      BY <2>2, <3>1, <3>2, SumOfRaw
    <3> QED BY <3>1, <3>3 DEF l
  <2> QED BY <2>2, <2>3 DEF b
<1>4. Loop(K)
  <2>1. K = [q \in regions |-> K[q]]
    BY DEF DeepTotal
  <2> HIDE DEF K, Body
  <2> QED BY <1>3, <2>1
<1>5. Loop(deep)
  <2> HIDE DEF Loop, K
  <2> QED BY <1>4
<1> DEFINE P == {q \in regions : deep[q] = K[q]}
<1> HIDE DEF K, deep
<1>6. ASSUME NEW q \in regions, \A c \in Kids(q) : c \in P
      PROVE  q \in P
  <2>1. deep[q] = Body(deep, q)
    <3> HIDE DEF Body
    <3> QED BY <1>5
  <2>2. \A c \in Kids(q) : deep[c] = K[c]
    BY <1>6
  <2> HIDE DEF Body
  <2> QED BY <1>3, <2>1, <2>2
<1>7. deep[r] = K[r]
  <2>1. regions \subseteq P
    <3> HIDE DEF P
    <3> QED BY <1>6, Descend
  <2> QED BY <2>1
<1>8. RawSize(r, TRUE) = Rem(Total(Reach(r, TRUE), Aligned), Word)
  BY <1>1, <1>7, ReachSplit DEF K, DeepTotal
<1>9. RawSize(r, FALSE) = Rem(Total(Reach(r, FALSE), Aligned), Word)
  BY <1>1, <1>2, ReachSplit
<1> QED BY <1>8, <1>9

\* The least of the alignments of some storages, and of the number that stands
\* for none.
Least(T) == Min({NoAlignment} \cup {layout[s].alignment : s \in T})

LEMMA LeastIs ==
  ASSUME SInv, NEW T, T \subseteq storages
  PROVE  /\ Least(T) \in Nat \ {0} /\ Least(T) <= NoAlignment
         /\ \A s \in T : Least(T) <= layout[s].alignment
         /\ Least(T) = NoAlignment \/ \E s \in T : Least(T) = layout[s].alignment
         /\ T # {} => Least(T) \in Powers
<1> DEFINE A == {NoAlignment} \cup {layout[s].alignment : s \in T}
<1>1. \A s \in T : /\ layout[s].alignment \in Nat \ {0} /\ layout[s].alignment \in Powers
                   /\ layout[s].alignment <= NoAlignment
  BY StoragesSized, PowersDivide
<1>2. NoAlignment \in Nat \ {0}
  BY HalfOfWord DEF NoAlignment
<1>3. A \in SUBSET Nat /\ A # {} /\ NoAlignment \in A
  BY <1>1, <1>2
<1>4. Least(T) = Min(A)
  BY DEF Least
<1>5. Min(A) \in A /\ \A m \in A : Min(A) <= m
  <2> HIDE DEF A
  <2> QED BY <1>3, MinNat
<1>6. Least(T) \in A /\ \A m \in A : Least(T) <= m
  <2> HIDE DEF A
  <2> QED BY <1>4, <1>5
<1>7. Least(T) = NoAlignment \/ \E s \in T : Least(T) = layout[s].alignment
  BY <1>6
<1>8. \A s \in T : Least(T) <= layout[s].alignment
  BY <1>6
<1>9. Least(T) \in Nat \ {0} /\ Least(T) <= NoAlignment
  BY <1>1, <1>2, <1>6
<1>10. ASSUME NEW s \in T PROVE Least(T) \in Powers
  <2>1. CASE \E t \in T : Least(T) = layout[t].alignment
    BY <1>1, <2>1
  <2>2. CASE Least(T) = NoAlignment
    <3>1. layout[s].alignment <= Least(T) /\ Least(T) <= layout[s].alignment
      BY <1>1, <1>8, <2>2
    <3>2. layout[s].alignment = Least(T)
      BY <1>1, <1>9, <3>1
    <3> QED BY <1>1, <3>2
  <2> QED BY <1>7, <2>1, <2>2
<1> QED BY <1>7, <1>8, <1>9, <1>10

\* The least below a region is the least of its own and its children's.
LEMMA LeastSplit ==
  ASSUME SInv, NEW r \in regions, NEW f, \A c \in Kids(r) : f[c] = Least(Within(c))
  PROVE  Min({NoAlignment} \cup {layout[s].alignment : s \in Listed({r})} \cup {f[c] : c \in Kids(r)})
           = Least(Within(r))
<1> DEFINE A == {NoAlignment} \cup {layout[s].alignment : s \in Listed({r})} \cup {f[c] : c \in Kids(r)}
           m == Least(Within(r))
<1>0. \A s : s \in Within(r) <=> s \in Listed({r}) \/ \E c \in Kids(r) : s \in Within(c)
  <2>1. Within(r) = Listed({r}) \cup UNION {Within(c) : c \in Kids(r)}
    BY ReachSplit
  <2> QED BY <2>1
<1>1. \A c \in Kids(r) : Within(c) \subseteq Within(r) /\ Within(c) \subseteq storages
  <2>1. Within(r) \subseteq storages
    BY ReachSplit
  <2> QED BY <1>0, <2>1
<1>2. Listed({r}) \subseteq Within(r) /\ Within(r) \subseteq storages
  BY ReachSplit
<1>3. /\ m \in Nat /\ m <= NoAlignment /\ \A s \in Within(r) : m <= layout[s].alignment
      /\ m = NoAlignment \/ \E s \in Within(r) : m = layout[s].alignment
  BY <1>2, LeastIs
<1>4. ASSUME NEW c \in Kids(r)
      PROVE  /\ f[c] \in Nat /\ m <= f[c] /\ \A s \in Within(c) : f[c] <= layout[s].alignment
  <2> DEFINE k == Least(Within(c))
  <2>1. /\ k \in Nat /\ \A s \in Within(c) : k <= layout[s].alignment
        /\ k = NoAlignment \/ \E s \in Within(c) : k = layout[s].alignment
    BY <1>1, LeastIs
  <2>2. f[c] = k
    OBVIOUS
  <2> HIDE DEF k, m
  <2>3. m <= k
    BY <1>1, <1>3, <2>1
  <2> QED BY <2>1, <2>2, <2>3
<1>5. \A s \in storages : layout[s].alignment \in Nat
  BY StoragesSized, PowersDivide
<1>6. NoAlignment \in Nat
  BY HalfOfWord DEF NoAlignment
<1> HIDE DEF m
<1>7. A \in SUBSET Nat /\ A # {} /\ \A a \in A : m <= a
  BY <1>2, <1>3, <1>4, <1>5, <1>6
<1>8. m \in A
  <2>1. CASE m = NoAlignment
    BY <2>1
  <2>2. ASSUME NEW s \in Within(r), m = layout[s].alignment PROVE m \in A
    <3>1. CASE s \in Listed({r})
      BY <2>2, <3>1
    <3>2. ASSUME NEW c \in Kids(r), s \in Within(c) PROVE m \in A
      <4>1. f[c] <= m /\ m <= f[c] /\ f[c] \in Nat
        BY <1>4, <2>2, <3>2
      <4>2. f[c] = m
        BY <1>3, <4>1
      <4> QED BY <4>2
    <3>3. s \in Listed({r}) \/ \E c \in Kids(r) : s \in Within(c)
      BY <1>0
    <3> QED BY <3>1, <3>2, <3>3
  <2> QED BY <1>3, <2>1, <2>2
<1> HIDE DEF A
<1>9. Min(A) = m
  BY <1>7, <1>8, MinNat
<1> QED BY <1>9 DEF A, m

LEMMA MinAlignmentIs ==
  ASSUME SInv, NEW r \in regions, NEW queryChildren \in BOOLEAN
  PROVE  MinAlignment(r, queryChildren) = Least(Reach(r, queryChildren))
<1> DEFINE Body(f, q) == Min({NoAlignment} \cup AlignmentsOf(q) \cup {f[c] : c \in ToSet(children[q])})
           Loop(f) == f = [q \in regions |-> Body(f, q)]
           deep == CHOOSE f : Loop(f)
           K == [q \in regions |-> Least(Within(q))]
<1>1. /\ MinAlignment(r, TRUE) = deep[r]
      /\ MinAlignment(r, FALSE) = Min({NoAlignment} \cup AlignmentsOf(r))
  BY DEF MinAlignment
<1>2. ASSUME NEW q \in regions
      PROVE  /\ AlignmentsOf(q) = {layout[s].alignment : s \in Listed({q})}
             /\ ToSet(children[q]) = Kids(q) /\ Kids(q) \subseteq regions
  BY Lists DEF AlignmentsOf
<1>3. ASSUME NEW f, NEW q \in regions, \A c \in Kids(q) : f[c] = K[c]
      PROVE  Body(f, q) = K[q]
  <2>1. \A c \in Kids(q) : f[c] = Least(Within(c))
    BY <1>2, <1>3
  <2>2. Body(f, q) = Min({NoAlignment} \cup {layout[s].alignment : s \in Listed({q})} \cup {f[c] : c \in Kids(q)})
    BY <1>2
  <2> HIDE DEF Body
  <2> QED BY <2>1, <2>2, LeastSplit
<1>4. Loop(K)
  <2>1. K = [q \in regions |-> K[q]]
    OBVIOUS
  <2> HIDE DEF K, Body
  <2> QED BY <1>3, <2>1
<1>5. Loop(deep)
  <2> HIDE DEF Loop, K
  <2> QED BY <1>4
<1> DEFINE P == {q \in regions : deep[q] = K[q]}
<1> HIDE DEF K, deep
<1>6. ASSUME NEW q \in regions, \A c \in Kids(q) : c \in P
      PROVE  q \in P
  <2>1. deep[q] = Body(deep, q)
    <3> HIDE DEF Body
    <3> QED BY <1>5
  <2>2. \A c \in Kids(q) : deep[c] = K[c]
    BY <1>6
  <2> HIDE DEF Body
  <2> QED BY <1>3, <2>1, <2>2
<1>7. deep[r] = K[r]
  <2>1. regions \subseteq P
    <3> HIDE DEF P
    <3> QED BY <1>6, Descend
  <2> QED BY <2>1
<1>8. MinAlignment(r, TRUE) = Least(Reach(r, TRUE))
  BY <1>1, <1>7, ReachSplit DEF K
<1>9. MinAlignment(r, FALSE) = Least(Reach(r, FALSE))
  BY <1>1, <1>2, ReachSplit DEF Least
<1> QED BY <1>8, <1>9

\* A size query works with a power of two, unless there is nothing to align.
LEMMA EffectiveIs ==
  ASSUME SInv, NEW r \in regions, NEW queryChildren \in BOOLEAN, NEW a \in 0 .. Word
  PROVE  LET e == Effective(r, queryChildren, a)
         IN  /\ e \in 0 .. Word /\ e \in Nat \ {0}
             /\ e \in Powers \/ Reach(r, queryChildren) = {}
             /\ a \in Powers => e = a
<1> DEFINE e == Effective(r, queryChildren, a)
           T == Reach(r, queryChildren)
<1>0. Word \in Nat \ {0} /\ T \subseteq storages /\ NoAlignment = Word - 1 /\ a \in Nat
  <2>2. T \subseteq storages
    BY ReachWithin
  <2>3. Word \in Nat \ {0} /\ NoAlignment = Word - 1
    BY WordType DEF NoAlignment
  <2>4. a \in Nat
    BY <2>3
  <2> QED BY <2>2, <2>3, <2>4
<1>1. CASE a = 0
  <2>1. e = Least(T)
    BY <1>1, MinAlignmentIs DEF Effective
  <2>2. Least(T) \in Nat \ {0} /\ Least(T) <= NoAlignment /\ (T # {} => Least(T) \in Powers)
    BY <1>0, LeastIs
  <2>3. a \notin Powers
    BY <1>1, PowersDivide
  <2> HIDE DEF e, T
  <2>4. e \in 0 .. Word
    BY <1>0, <2>1, <2>2
  <2> QED BY <2>1, <2>2, <2>3, <2>4 DEF e, T
<1>2. CASE a # 0
  <2>1. e = BitCeil(a)
    BY <1>2 DEF Effective
  <2>2. BitCeil(a) \in Powers /\ BitCeil(a) <= Word /\ (a \in Powers => BitCeil(a) = a)
    BY BitCeilIs
  <2>3. BitCeil(a) \in Nat \ {0}
    BY <2>2, PowersDivide
  <2> HIDE DEF e, T
  <2>4. e \in 0 .. Word
    BY <1>0, <2>1, <2>2, <2>3
  <2> QED BY <2>1, <2>2, <2>3, <2>4 DEF e, T
<1> QED BY <1>1, <1>2

\* What AlignedSize asks of a region and an alignment.
Sums(r, a) == Rem(Total(Within(r), PaddedTo(Effective(r, TRUE, a))), Word)

\* The storages of a region and below it, aligned to e.
LEMMA AlignedParts ==
  ASSUME SInv, NEW r \in regions, NEW e \in 0 .. Word, e \in Nat \ {0},
         e \in Powers \/ Within(r) = {}
  PROVE  /\ \A s \in storages : PaddedTo(e)[s] \in Nat /\ PaddedTo(e)[s] = Padded(Aligned[s], e)
         /\ \A c \in Kids(r) : Sums(c, e) = DeepTotal(PaddedTo(e))[c]
         /\ Listed({r}) # {} => e \in Powers
<1>1. ASSUME NEW s \in storages
      PROVE  PaddedTo(e)[s] \in Nat /\ PaddedTo(e)[s] = Padded(Aligned[s], e)
  <2>1. s \in Storage /\ Aligned[s] \in Nat /\ PaddedTo(e)[s] = Padded(Aligned[s], e)
    BY StoragesSized, StoragesAligned DEF PaddedTo
  <2> QED BY <2>1, PaddedFacts
<1>2. ASSUME NEW c \in Kids(r)
      PROVE  Sums(c, e) = DeepTotal(PaddedTo(e))[c]
  <2>0. c \in regions /\ Within(c) \subseteq Within(r)
    <3>1. Within(r) = Listed({r}) \cup UNION {Within(b) : b \in Kids(r)}
      BY ReachSplit
    <3> QED BY <3>1, Lists
  <2>1. DeepTotal(PaddedTo(e))[c] = Rem(Total(Within(c), PaddedTo(e)), Word)
    BY <2>0, ReachSplit DEF DeepTotal
  <2>2. CASE e \in Powers
    <3>1. Effective(c, TRUE, e) = e
      BY <2>0, <2>2, EffectiveIs
    <3> QED BY <2>1, <3>1 DEF Sums
  <2>3. CASE Within(r) = {}
    <3>1. Within(c) = {}
      BY <2>0, <2>3
    <3>2. Sums(c, e) = Rem(0, Word) /\ DeepTotal(PaddedTo(e))[c] = Rem(0, Word)
      BY <2>1, <3>1, TotalEmpty DEF Sums
    <3> QED BY <3>2
  <2> QED BY <2>2, <2>3
<1>3. Listed({r}) \subseteq Within(r)
  <2>1. Within(r) = Listed({r}) \cup UNION {Within(b) : b \in Kids(r)}
    BY ReachSplit
  <2> QED BY <2>1
<1> QED BY <1>1, <1>2, <1>3

\* The storages of a region alone, and both loops over its lists.
LEMMA OwnSizes ==
  ASSUME SInv, NEW r \in regions, NEW e, e \in Powers \/ Listed({r}) = {}
  PROVE  /\ PaddedOf(alloced[r], e) = Rem(Total(Listed({r}), PaddedTo(e)), Word)
         /\ BothOf(alloced[r], e) = [raw |-> Rem(Total(Listed({r}), Aligned), Word),
                                     aligned |-> Rem(Total(Listed({r}), PaddedTo(e)), Word)]
<1> DEFINE q == alloced[r]
<1>1. Sized(q) /\ ToSet(q) = Listed({r})
  BY Lists
<1> HIDE DEF q
<1>2. e \in Powers \/ q = <<>>
  <2>1. CASE Listed({r}) = {}
    <3>1. ToSet(q) = {} /\ q \in Seq(Storage)
      BY <1>1, <2>1 DEF Sized
    <3>2. DOMAIN q = {} /\ DOMAIN q = 1 .. Len(q) /\ Len(q) \in Nat
      <4>1. DOMAIN q = 1 .. Len(q) /\ Len(q) \in Nat
        BY <3>1, LenProperties
      <4>2. DOMAIN q = {}
        BY <3>1 DEF ToSet
      <4> QED BY <4>1, <4>2
    <3>3. Len(q) = 0
      BY <3>2
    <3> QED BY <3>1, <3>3, EmptySeq
  <2> QED BY <2>1
<1>3. PaddedOf(q, e) = Rem(Total(ToSet(q), PaddedTo(e)), Word)
  BY <1>1, <1>2, OwnPadded
<1>4. BothOf(q, e) = [raw |-> Rem(Total(ToSet(q), Aligned), Word),
                      aligned |-> Rem(Total(ToSet(q), PaddedTo(e)), Word)]
  BY <1>1, <1>2, OwnBoth
<1> QED BY <1>1, <1>3, <1>4 DEF q

LEMMA AlignedSizeIs ==
  ASSUME SInv, NEW r \in regions, NEW queryChildren \in BOOLEAN, NEW a \in 0 .. Word
  PROVE  AlignedSize(r, queryChildren, a)
           = Rem(Total(Reach(r, queryChildren), PaddedTo(Effective(r, queryChildren, a))), Word)
<1> DEFINE Dom == regions \X (0 .. Word)
           Body(f, q, b) == PlusPadded(children[q], PaddedOf(alloced[q], Effective(q, TRUE, b)),
                                       f, Effective(q, TRUE, b))
           Loop(f) == f = [p \in Dom |-> Body(f, p[1], p[2])]
           deep == CHOOSE f : Loop(f)
           K == [p \in Dom |-> Sums(p[1], p[2])]
<1>1. /\ AlignedSize(r, TRUE, a) = deep[<<r, a>>]
      /\ AlignedSize(r, FALSE, a) = PaddedOf(alloced[r], Effective(r, FALSE, a))
  BY DEF AlignedSize, AlignedSizeOfStorages, PlusPadded, PaddedOf
<1>2. ASSUME NEW f, NEW q \in regions, NEW b \in 0 .. Word,
             \A c \in Kids(q), d \in 0 .. Word : f[<<c, d>>] = Sums(c, d)
      PROVE  Body(f, q, b) = Sums(q, b)
  <2> DEFINE e == Effective(q, TRUE, b)
             h == PaddedTo(e)
             V == DeepTotal(h)
             first == PaddedOf(alloced[q], e)
             l == children[q]
  <2>1. e \in 0 .. Word /\ e \in Nat \ {0} /\ (e \in Powers \/ Within(q) = {})
    BY EffectiveIs, ReachSplit
  <2>2. V[q] = Sums(q, b)
    BY ReachSplit DEF DeepTotal, Sums
  <2> HIDE DEF e
  <2>3. /\ \A s \in storages : h[s] \in Nat
        /\ \A c \in Kids(q) : Sums(c, e) = V[c]
        /\ e \in Powers \/ Listed({q}) = {}
    BY <2>1, AlignedParts
  <2>4. first = Rem(Total(Listed({q}), h), Word)
    BY <2>3, OwnSizes
  <2> HIDE DEF h
  <2>5. /\ first \in 0 .. Word - 1 /\ \A c \in Kids(q) : V[c] \in Nat
        /\ Rem(first + Total(Kids(q), V), Word) = V[q]
    BY <2>3, <2>4, TotalSplit
  <2>6. l \in Seq(Region) /\ NoRepeats(l) /\ ToSet(l) = Kids(q)
    BY Lists
  <2>7. \A c \in ToSet(l) : V[c] \in Nat /\ f[<<c, e>>] = V[c]
    BY <1>2, <2>1, <2>3, <2>5, <2>6
  <2> HIDE DEF V, first, l
  <2>8. PlusPadded(l, first, f, e) = Rem(first + Total(ToSet(l), V), Word)
    BY <2>5, <2>6, <2>7, SumOfPadded
  <2> QED BY <2>2, <2>5, <2>6, <2>8 DEF first, l, e
<1>3. \A q \in regions, b \in 0 .. Word : <<q, b>> \in Dom /\ K[<<q, b>>] = Sums(q, b)
  OBVIOUS
<1>4. Loop(K)
  <2>1. ASSUME NEW p \in Dom PROVE K[p] = Body(K, p[1], p[2])
    <3>1. p[1] \in regions /\ p[2] \in 0 .. Word /\ K[p] = Sums(p[1], p[2])
      OBVIOUS
    <3>2. \A c \in Kids(p[1]), d \in 0 .. Word : K[<<c, d>>] = Sums(c, d)
      <4> HIDE DEF K
      <4> QED BY <1>3, <3>1, Lists
    <3> HIDE DEF K, Body
    <3> QED BY <1>2, <3>1, <3>2
  <2>2. K = [p \in Dom |-> K[p]]
    OBVIOUS
  <2> HIDE DEF K, Body, Dom
  <2> QED BY <2>1, <2>2
<1>5. Loop(deep)
  <2> HIDE DEF Loop, K
  <2> QED BY <1>4
<1>6. \A q \in regions, b \in 0 .. Word : deep[<<q, b>>] = Body(deep, q, b)
  <2> HIDE DEF Body, deep
  <2> QED BY <1>5
<1> DEFINE P == {q \in regions : \A b \in 0 .. Word : deep[<<q, b>>] = Sums(q, b)}
<1> HIDE DEF deep, K, Loop, Body
<1>7. ASSUME NEW q \in regions, \A c \in Kids(q) : c \in P
      PROVE  q \in P
  <2>1. \A c \in Kids(q), d \in 0 .. Word : deep[<<c, d>>] = Sums(c, d)
    BY <1>7
  <2> QED BY <1>2, <1>6, <2>1
<1>8. deep[<<r, a>>] = Sums(r, a)
  <2>1. regions \subseteq P
    <3> HIDE DEF P
    <3> QED BY <1>7, Descend
  <2> QED BY <2>1
<1>9. AlignedSize(r, TRUE, a) = Rem(Total(Reach(r, TRUE), PaddedTo(Effective(r, TRUE, a))), Word)
  BY <1>1, <1>8, ReachSplit DEF Sums
<1>10. AlignedSize(r, FALSE, a) = Rem(Total(Reach(r, FALSE), PaddedTo(Effective(r, FALSE, a))), Word)
  <2>1. Effective(r, FALSE, a) \in Powers \/ Listed({r}) = {}
    BY EffectiveIs, ReachSplit
  <2> QED BY <1>1, <2>1, OwnSizes, ReachSplit
<1> QED BY <1>9, <1>10

\* Both sizes at once are the two sizes.
Both(r, a) == [raw |-> DeepTotal(Aligned)[r], aligned |-> Sums(r, a)]

LEMMA RegionSizeIs ==
  ASSUME SInv, NEW r \in regions, NEW queryChildren \in BOOLEAN, NEW a \in 0 .. Word
  PROVE  RegionSize(r, queryChildren, a)
           = [raw |-> Rem(Total(Reach(r, queryChildren), Aligned), Word),
              aligned |-> Rem(Total(Reach(r, queryChildren),
                                    PaddedTo(Effective(r, queryChildren, a))), Word)]
<1> DEFINE Dom == regions \X (0 .. Word)
           Body(f, q, b) == PlusBoth(children[q], BothOf(alloced[q], Effective(q, TRUE, b)),
                                     f, Effective(q, TRUE, b))
           Loop(f) == f = [p \in Dom |-> Body(f, p[1], p[2])]
           deep == CHOOSE f : Loop(f)
           K == [p \in Dom |-> Both(p[1], p[2])]
<1>1. /\ RegionSize(r, TRUE, a) = deep[<<r, a>>]
      /\ RegionSize(r, FALSE, a) = BothOf(alloced[r], Effective(r, FALSE, a))
  BY DEF RegionSize, BothSizesOfStorages, PlusBoth, BothOf
<1>2. ASSUME NEW f, NEW q \in regions, NEW b \in 0 .. Word,
             \A c \in Kids(q), d \in 0 .. Word : f[<<c, d>>] = Both(c, d)
      PROVE  Body(f, q, b) = Both(q, b)
  <2> DEFINE e == Effective(q, TRUE, b)
             h == PaddedTo(e)
             V == DeepTotal(Aligned)
             W == DeepTotal(h)
             raw == Rem(Total(Listed({q}), Aligned), Word)
             aligned == Rem(Total(Listed({q}), h), Word)
             l == children[q]
  <2>1. e \in 0 .. Word /\ e \in Nat \ {0} /\ (e \in Powers \/ Within(q) = {})
    BY EffectiveIs, ReachSplit
  <2>2. W[q] = Sums(q, b)
    BY ReachSplit DEF DeepTotal, Sums
  <2> HIDE DEF e
  <2>3. /\ \A s \in storages : h[s] \in Nat
        /\ \A c \in Kids(q) : Sums(c, e) = W[c]
        /\ e \in Powers \/ Listed({q}) = {}
    BY <2>1, AlignedParts
  <2>4. BothOf(alloced[q], e) = Two(raw, aligned)
    BY <2>3, OwnSizes DEF Two
  <2> HIDE DEF h
  <2>5. /\ aligned \in 0 .. Word - 1 /\ \A c \in Kids(q) : W[c] \in Nat
        /\ Rem(aligned + Total(Kids(q), W), Word) = W[q]
    BY <2>3, TotalSplit
  <2>6. /\ raw \in 0 .. Word - 1 /\ \A c \in Kids(q) : V[c] \in Nat
        /\ Rem(raw + Total(Kids(q), V), Word) = V[q]
    BY StoragesAligned, TotalSplit
  <2>7. l \in Seq(Region) /\ NoRepeats(l) /\ ToSet(l) = Kids(q)
    BY Lists
  <2>8. \A c \in ToSet(l) : /\ V[c] \in Nat /\ W[c] \in Nat
                            /\ f[<<c, e>>].raw = V[c] /\ f[<<c, e>>].aligned = W[c]
    <3> SUFFICES ASSUME NEW c \in Kids(q)
                 PROVE  /\ V[c] \in Nat /\ W[c] \in Nat
                        /\ f[<<c, e>>].raw = V[c] /\ f[<<c, e>>].aligned = W[c]
      BY <2>7
    <3>1. f[<<c, e>>] = [raw |-> V[c], aligned |-> Sums(c, e)]
      BY <1>2, <2>1 DEF Both
    <3> HIDE DEF V, W
    <3>2. f[<<c, e>>].raw = V[c] /\ f[<<c, e>>].aligned = Sums(c, e)
      BY <3>1
    <3> QED BY <2>3, <2>5, <2>6, <3>2 DEF V, W
  <2>9. Both(q, b) = Two(V[q], W[q])
    BY <2>2 DEF Both, Two
  <2> HIDE DEF V, W, raw, aligned, l
  <2>10. PlusBoth(l, Two(raw, aligned), f, e)
           = Two(Rem(raw + Total(ToSet(l), V), Word), Rem(aligned + Total(ToSet(l), W), Word))
    BY <2>5, <2>6, <2>7, <2>8, SumOfBoth
  <2>11. PlusBoth(l, BothOf(alloced[q], e), f, e) = Both(q, b)
    BY <2>4, <2>5, <2>6, <2>7, <2>9, <2>10
  <2> QED BY <2>11 DEF l, e
<1>3. \A q \in regions, b \in 0 .. Word : <<q, b>> \in Dom /\ K[<<q, b>>] = Both(q, b)
  OBVIOUS
<1>4. Loop(K)
  <2>1. ASSUME NEW p \in Dom PROVE K[p] = Body(K, p[1], p[2])
    <3>1. p[1] \in regions /\ p[2] \in 0 .. Word /\ K[p] = Both(p[1], p[2])
      OBVIOUS
    <3>2. \A c \in Kids(p[1]), d \in 0 .. Word : K[<<c, d>>] = Both(c, d)
      <4> HIDE DEF K
      <4> QED BY <1>3, <3>1, Lists
    <3> HIDE DEF K, Body
    <3> QED BY <1>2, <3>1, <3>2
  <2>2. K = [p \in Dom |-> K[p]]
    OBVIOUS
  <2> HIDE DEF K, Body, Dom
  <2> QED BY <2>1, <2>2
<1>5. Loop(deep)
  <2> HIDE DEF Loop, K
  <2> QED BY <1>4
<1>6. \A q \in regions, b \in 0 .. Word : deep[<<q, b>>] = Body(deep, q, b)
  <2> HIDE DEF Body, deep
  <2> QED BY <1>5
<1> DEFINE P == {q \in regions : \A b \in 0 .. Word : deep[<<q, b>>] = Both(q, b)}
<1> HIDE DEF deep, K, Loop, Body
<1>7. ASSUME NEW q \in regions, \A c \in Kids(q) : c \in P
      PROVE  q \in P
  <2>1. \A c \in Kids(q), d \in 0 .. Word : deep[<<c, d>>] = Both(c, d)
    BY <1>7
  <2> QED BY <1>2, <1>6, <2>1
<1>8. deep[<<r, a>>] = Both(r, a)
  <2>1. regions \subseteq P
    <3> HIDE DEF P
    <3> QED BY <1>7, Descend
  <2> QED BY <2>1
<1>9. CASE queryChildren = TRUE
  BY <1>1, <1>8, <1>9, ReachSplit DEF Both, Sums, DeepTotal
<1>10. CASE queryChildren = FALSE
  <2>1. Effective(r, FALSE, a) \in Powers \/ Listed({r}) = {}
    BY EffectiveIs, ReachSplit
  <2> QED BY <1>1, <1>10, <2>1, OwnSizes, ReachSplit
<1> QED BY <1>9, <1>10

-----------------------------------------------------------------------------
(* The theorem.                                                            *)

LEMMA SizesCount ==
  ASSUME SInv, NEW r \in regions, NEW deep \in BOOLEAN, NEW a \in 0 .. Word
  PROVE  LET T == Reach(r, deep)
             e == Effective(r, deep, a)
             bound == Total(T, Aligned) + Cardinality(T) * (e - 1)
             size == AlignedSize(r, deep, a)
         IN  T # {} /\ bound < Word =>
               Rem(size, e) = 0 /\ Total(T, Aligned) <= size /\ size <= bound
<1> DEFINE T == Reach(r, deep)
           e == Effective(r, deep, a)
           h == PaddedTo(e)
           bound == Total(T, Aligned) + Cardinality(T) * (e - 1)
           size == AlignedSize(r, deep, a)
<1> SUFFICES ASSUME T # {}, bound < Word
             PROVE  Rem(size, e) = 0 /\ Total(T, Aligned) <= size /\ size <= bound
  OBVIOUS
<1>0. Word \in Nat \ {0}
  BY WordType
<1>1. T \subseteq storages /\ IsFiniteSet(T)
  BY ReachWithin
<1>2. e \in Powers /\ e \in Nat \ {0}
  BY EffectiveIs
<1>3. size = Rem(Total(T, h), Word)
  BY AlignedSizeIs
<1> HIDE DEF T, e, size
<1>4. \A s \in T : Aligned[s] \in Nat /\ h[s] = Padded(Aligned[s], e)
  BY <1>1, StoragesSized, StoragesAligned DEF PaddedTo
<1> HIDE DEF h
<1>5. \A s \in T : /\ Aligned[s] \in Nat /\ h[s] \in Nat /\ Rem(h[s], e) = 0
                   /\ Aligned[s] <= h[s] /\ h[s] <= Aligned[s] + (e - 1)
  BY <1>2, <1>4, PaddedFacts
<1>6. Rem(Total(T, h), e) = 0 /\ Total(T, Aligned) <= Total(T, h) /\ Total(T, h) <= bound
  BY <1>1, <1>2, <1>5, TotalPadded
<1>7. Total(T, h) \in Nat /\ Total(T, Aligned) \in Nat /\ Cardinality(T) \in Nat
  BY <1>1, <1>5, TotalType, FS_CardinalityType
<1>8. bound \in Int
  BY <1>2, <1>7
<1> HIDE DEF bound
<1>9. Total(T, h) \in 0 .. Word - 1 /\ Total(T, h) \in Int
  BY <1>0, <1>6, <1>7, <1>8
<1>10. size = Total(T, h)
  BY <1>0, <1>3, <1>9, RemRange
<1> QED BY <1>6, <1>10

\* An orderly client's regions are listed by their parents and its storages by
\* their owners: the queries reach what the upward links lead from.
LEMMA OrderlyReach ==
  ASSUME SInv, OInv, NEW r \in regions, NEW deep \in BOOLEAN
  PROVE  Scope(r, deep) = Reach(r, deep)
<1>1. ASSUME NEW p \in regions PROVE Kids(p) = {c \in regions : parent[c] = p}
  <2>1. p # NULL
    BY NullAssumption DEF OInv, IInv, TypeOK
  <2>2. \A c : c \in Kids(p) <=> c \in regions /\ parent[c] = p
    BY <2>1 DEF OInv, IInv, ChildrenLinked, NoOrphans, Kids
  <2> QED BY <2>2
<1>2. \A S \in SUBSET regions : OwnedBy(S) = Listed(S)
  BY DEF OInv, IInv, ListsOwned, NoOrphans, OwnedBy, Listed
<1>3. \A S \in SUBSET regions : ClosedDown(S) <=> ClosedUnder(S)
  BY <1>1 DEF ClosedDown, ClosedUnder
<1>4. Below(r) = Under(r)
  BY <1>3 DEF Below, Under
<1>5. Under(r) \in SUBSET regions /\ {r} \in SUBSET regions
  BY DEF Under
<1> QED BY <1>2, <1>4, <1>5 DEF Scope, Reach

\* The raw size is the packed size of storages without padding, and between the
\* packed and the padded size of others.
LEMMA RawCounts ==
  ASSUME SInv, NEW r \in regions, NEW deep \in BOOLEAN
  PROVE  LET T == Reach(r, deep)
         IN  /\ (\A s \in T : Packed[s] = Aligned[s]) => RawSize(r, deep) = Rem(Total(T, Packed), Word)
             /\ (\A s \in T : Packed[s] <= Aligned[s]) /\ Total(T, Aligned) < Word =>
                  Total(T, Packed) <= RawSize(r, deep) /\ RawSize(r, deep) <= Total(T, Aligned)
<1> DEFINE T == Reach(r, deep)
           raw == RawSize(r, deep)
<1>1. T \subseteq storages /\ IsFiniteSet(T) /\ Word \in Nat \ {0}
  BY ReachWithin, WordType
<1>2. raw = Rem(Total(T, Aligned), Word)
  BY RawSizeIs
<1> HIDE DEF T, raw
<1>3. \A s \in T : Packed[s] \in Nat /\ Aligned[s] \in Nat
  BY <1>1, StoragesPacked, StoragesAligned
<1>4. (\A s \in T : Packed[s] = Aligned[s]) => raw = Rem(Total(T, Packed), Word)
  BY <1>2, TotalSame
<1>5. ASSUME \A s \in T : Packed[s] <= Aligned[s], Total(T, Aligned) < Word
      PROVE  Total(T, Packed) <= raw /\ raw <= Total(T, Aligned)
  <2>1. Total(T, Packed) <= Total(T, Aligned)
    BY <1>1, <1>3, <1>5, TotalGrows
  <2>2. Total(T, Aligned) \in Nat
    BY <1>1, <1>3, TotalType
  <2>3. raw = Total(T, Aligned)
    BY <1>1, <1>2, <1>5, <2>2, RemRange
  <2> QED BY <2>1, <2>2, <2>3
<1> QED BY <1>4, <1>5 DEF T, raw

\* lib/Region.cpp: the sizes and alignments that are computed down the lists
\* of an orderly client's regions count every storage whose owner leads up to
\* the region, for every width of LemniNat64: the raw size is the packed size
\* where nothing is padded, and no more than the padding above it elsewhere.
THEOREM QueriesCount == OrderlySpec => []QueriesCountEveryStorage
<1>1. SInv /\ OInv => QueriesCountEveryStorage
  <2> SUFFICES ASSUME SInv, OInv, NEW r \in regions, NEW deep \in BOOLEAN
               PROVE
        LET scope == Scope(r, deep)
            packed == SumFunctionOnSet(Packed, scope)
            padded == SumFunctionOnSet(Aligned, scope)
        IN  /\ (\A s \in scope : Packed[s] = Aligned[s]) => RawSize(r, deep) = packed % Word
            /\ (\A s \in scope : Packed[s] <= Aligned[s]) /\ padded < Word =>
                 packed <= RawSize(r, deep) /\ RawSize(r, deep) <= padded
            /\ MinAlignment(r, deep) = Min({NoAlignment} \cup {layout[s].alignment : s \in scope})
            /\ \A a \in {a \in Alignments : SizeDefined(r, deep, a)} :
                 LET alignment == Effective(r, deep, a)
                     bound == padded + Cardinality(scope) * (alignment - 1)
                     size == AlignedSize(r, deep, a)
                 IN  /\ RegionSize(r, deep, a) = [raw |-> RawSize(r, deep), aligned |-> size]
                     /\ scope # {} /\ bound < Word =>
                          size % alignment = 0 /\ padded <= size /\ size <= bound
    BY DEF QueriesCountEveryStorage
  <2> DEFINE T == Reach(r, deep)
             packed == SumFunctionOnSet(Packed, T)
             padded == SumFunctionOnSet(Aligned, T)
  <2>0. Scope(r, deep) = T
    BY OrderlyReach
  <2>1. T \subseteq storages /\ IsFiniteSet(T) /\ \A s \in T : Packed[s] \in Nat /\ Aligned[s] \in Nat
    BY ReachWithin, StoragesPacked, StoragesAligned
  <2>2. packed = Total(T, Packed) /\ padded = Total(T, Aligned)
    <3> HIDE DEF T
    <3> QED BY <2>1, SumOverSet
  <2>3. /\ (\A s \in T : Packed[s] = Aligned[s]) => RawSize(r, deep) = packed % Word
        /\ (\A s \in T : Packed[s] <= Aligned[s]) /\ padded < Word =>
             packed <= RawSize(r, deep) /\ RawSize(r, deep) <= padded
    <3> HIDE DEF packed, padded
    <3> QED BY <2>2, RawCounts DEF Rem
  <2>4. MinAlignment(r, deep) = Min({NoAlignment} \cup {layout[s].alignment : s \in T})
    BY MinAlignmentIs DEF Least
  <2>5. ASSUME NEW a \in Alignments
        PROVE  LET alignment == Effective(r, deep, a)
                   bound == padded + Cardinality(T) * (alignment - 1)
                   size == AlignedSize(r, deep, a)
               IN  /\ RegionSize(r, deep, a) = [raw |-> RawSize(r, deep), aligned |-> size]
                   /\ T # {} /\ bound < Word =>
                        size % alignment = 0 /\ padded <= size /\ size <= bound
    <3> HIDE DEF padded
    <3>1. a \in 0 .. Word
      <4> DEFINE h == 2 ^ (Bits - 1)
      <4>1. h \in Nat \ {0} /\ h + h = Word /\ a \in 0 .. h
        BY HalfOfWord, AlignmentsAssumption
      <4> HIDE DEF h
      <4> QED BY <4>1
    <3>2. RegionSize(r, deep, a) = [raw |-> RawSize(r, deep), aligned |-> AlignedSize(r, deep, a)]
      BY <3>1, RawSizeIs, AlignedSizeIs, RegionSizeIs
    <3> DEFINE alignment == Effective(r, deep, a)
               size == AlignedSize(r, deep, a)
               bound == padded + Cardinality(T) * (alignment - 1)
    <3>3. T # {} /\ bound < Word => Rem(size, alignment) = 0 /\ padded <= size /\ size <= bound
      BY <2>2, <3>1, SizesCount
    <3> HIDE DEF T, alignment, size, bound
    <3>4. T # {} /\ bound < Word => size % alignment = 0 /\ padded <= size /\ size <= bound
      BY <3>3 DEF Rem
    <3> QED BY <3>2, <3>4 DEF alignment, size, bound
  <2> HIDE DEF T
  <2> QED BY <2>0, <2>3, <2>4, <2>5
<1>2. OrderlySpec => Spec
  <2>1. [OrderlyNext]_vars => [Next]_vars
    BY DEF OrderlyNext
  <2> QED BY <2>1, PTL DEF OrderlySpec, Spec
<1> QED BY <1>1, <1>2, SizesInvariant, OrderlyInvariant, PTL
=============================================================================
