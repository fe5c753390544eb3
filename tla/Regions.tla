------------------------------ MODULE Regions ------------------------------
(***************************************************************************)
(* Region based memory of the lemni library: lib/Region.cpp and            *)
(* lib/Region.hpp, documented in include/lemni/Region.h.                   *)
(*                                                                         *)
(* A region (LemniRegionT) has a parent, a vector of children and a vector *)
(* of the storages allocated in it; a storage (LemniStorageT) points back  *)
(* at its owner.  All four links are raw pointers and the heap may hand    *)
(* out the address of a freed object again, so a link that is not cleared  *)
(* can come to denote an unrelated object.  Addresses are the elements of  *)
(* Region and Storage; an address is live while an object is stored there. *)
(*                                                                         *)
(* A client passes live handles only.  `fault' is raised by a step that    *)
(* follows a link to an object that is not live: what the program does     *)
(* from there on is undefined, and the model stops.                        *)
(***************************************************************************)
EXTENDS Naturals, SequencesExt

CONSTANTS Region,     \* the addresses a region can be allocated at
          Storage,    \* the addresses a storage can be allocated at
          NULL,       \* the null pointer
          Request,    \* the [size, align] pairs a client asks lemniRegionAlloc for
          Levels,     \* the level counts a client passes to lemniStoragePreserve
          Bits        \* width of LemniNat64: 64 in the program

ASSUME NullAssumption == NULL \notin Region /\ NULL \notin Storage
ASSUME LevelsAssumption == Levels \subseteq Nat
ASSUME BitsAssumption == Bits \in Nat \ {0}
\* std::bit_ceil is undefined above the largest power of two of the type.
ASSUME RequestAssumption ==
    Request \subseteq [size : 0 .. 2 ^ Bits - 1, align : 0 .. 2 ^ (Bits - 1)]

VARIABLES regions,    \* live regions
          parent,     \* LemniRegionT::parent
          children,   \* LemniRegionT::children
          alloced,    \* LemniRegionT::alloced
          storages,   \* live storages
          owner,      \* LemniStorageT::owner
          layout,     \* LemniStorageT::alignment and LemniStorageT::size
          fault       \* a freed object was dereferenced

vars == <<regions, parent, children, alloced, storages, owner, layout, fault>>

-----------------------------------------------------------------------------
(* Layout of a storage.                                                    *)

Word == 2 ^ Bits

\* std::bit_ceil: the least power of two that is not below n.
BitCeil(n) == CHOOSE p \in {2 ^ k : k \in 0 .. Bits} :
                 p >= n /\ \A k \in 0 .. Bits : 2 ^ k >= n => p <= 2 ^ k

RoundUp(size, alignment) ==
    LET rem == size % alignment
    IN  (IF rem = 0 THEN size ELSE size + (alignment - rem)) % Word

Layout(request) ==
    LET alignment == IF request.align = 0 THEN 1 ELSE BitCeil(request.align)
    IN  [alignment |-> alignment,
         raw       |-> request.size,
         aligned   |-> RoundUp(request.size, alignment)]

NoLayout == [alignment |-> 0, raw |-> 0, aligned |-> 0]

-----------------------------------------------------------------------------
Init ==
    /\ regions = {}
    /\ storages = {}
    /\ parent = [r \in Region |-> NULL]
    /\ children = [r \in Region |-> <<>>]
    /\ alloced = [r \in Region |-> <<>>]
    /\ owner = [s \in Storage |-> NULL]
    /\ layout = [s \in Storage |-> NoLayout]
    /\ fault = FALSE

\* The step reads or writes an object that has been freed.
Dangle == /\ fault' = TRUE
          /\ UNCHANGED <<regions, parent, children, alloced, storages, owner, layout>>

\* Plausible slips in the actions below, used to show that the properties can
\* tell: a new region that is not entered in its parent's list, one built
\* without running the constructors, a destroyed region that stays in the
\* list, storages that are not freed at all.
CreateUnlisted(r, p) ==
    /\ r \notin regions
    /\ p \in regions \cup {NULL}
    /\ regions' = regions \cup {r}
    /\ parent' = [parent EXCEPT ![r] = p]
    /\ children' = [children EXCEPT ![r] = <<>>]
    /\ alloced' = [alloced EXCEPT ![r] = <<>>]
    /\ UNCHANGED <<storages, owner, layout, fault>>
CreateUninitialised(r, p) ==
    /\ r \notin regions
    /\ p \in regions \cup {NULL}
    /\ regions' = regions \cup {r}
    /\ parent' = [parent EXCEPT ![r] = p]
    /\ children' = [q \in Region |-> IF q = p THEN Append(children[q], r) ELSE children[q]]
    /\ UNCHANGED <<alloced, storages, owner, layout, fault>>
StillLinked(r) == children
FreedNever(r) == {}

CreateRegion(r, p) ==
    /\ r \notin regions
    /\ p \in regions \cup {NULL}
    /\ regions' = regions \cup {r}
    /\ parent' = [parent EXCEPT ![r] = p]
    /\ children' = [q \in Region |-> IF q = p THEN Append(children[q], r)
                                     ELSE IF q = r THEN <<>> ELSE children[q]]
    /\ alloced' = [alloced EXCEPT ![r] = <<>>]
    /\ UNCHANGED <<storages, owner, layout, fault>>

\* ~LemniRegionT: a region without a parent frees the storages it lists.
FreedWith(r) == IF parent[r] = NULL THEN ToSet(alloced[r]) ELSE {}

\* The children lists once r is erased from its parent's.
Unlinked(r) == [q \in Region |-> IF q = parent[r] THEN RemoveFirst(children[q], r)
                                 ELSE children[q]]

\* A freed object keeps its bytes until its address is used again.
DestroyRegion(r) ==
    /\ r \in regions
    /\ IF parent[r] \notin regions \cup {NULL}
       THEN Dangle
       ELSE /\ regions' = regions \ {r}
            /\ children' = Unlinked(r)
            /\ storages' = storages \ FreedWith(r)
            /\ UNCHANGED <<parent, alloced, owner, layout, fault>>

RegionAlloc(r, s, request) ==
    /\ r \in regions
    /\ s \notin storages
    /\ storages' = storages \cup {s}
    /\ owner' = [owner EXCEPT ![s] = r]
    /\ layout' = [layout EXCEPT ![s] = Layout(request)]
    /\ alloced' = [alloced EXCEPT ![r] = Append(@, s)]
    /\ UNCHANGED <<regions, parent, children, fault>>

\* Slips in the transfer: the old owner's list, the new owner's list or the
\* owner link is forgotten.
RehomeNoErase(s, r) ==
    /\ alloced' = [alloced EXCEPT ![r] = Append(@, s)]
    /\ owner' = [owner EXCEPT ![s] = r]
    /\ UNCHANGED <<regions, parent, children, storages, layout, fault>>
RehomeNullOwner(s, r) ==
    LET without == [alloced EXCEPT ![owner[s]] = RemoveFirst(@, s)]
    IN  /\ alloced' = [without EXCEPT ![r] = Append(@, s)]
        /\ owner' = [owner EXCEPT ![s] = NULL]
        /\ UNCHANGED <<regions, parent, children, storages, layout, fault>>

\* lemniStorageTransfer once both arguments are known not to be NULL.
Rehome(s, r) ==
    LET without == [alloced EXCEPT ![owner[s]] = RemoveFirst(@, s)]
    IN  /\ alloced' = [without EXCEPT ![r] = Append(@, s)]
        /\ owner' = [owner EXCEPT ![s] = r]
        /\ UNCHANGED <<regions, parent, children, storages, layout, fault>>

StorageTransfer(s, r) ==
    /\ s \in storages
    /\ r \in regions
    /\ IF owner[s] \in regions THEN Rehome(s, r) ELSE Dangle

\* The regions visited by following `parent' n times, every one but the last
\* of them dereferenced on the way.
ParentPath(r, n) ==
    {path \in [0 .. n -> Region] :
        /\ path[0] = r
        /\ \A i \in 0 .. n - 1 : path[i] \in regions /\ parent[path[i]] = path[i + 1]}

StoragePreserve(s, levels) ==
    /\ s \in storages
    /\ levels > 0
    /\ \E traveled \in 0 .. levels : \E path \in ParentPath(owner[s], traveled) :
          LET top == path[traveled]
          IN  \/ /\ top \notin regions
                 /\ Dangle
              \/ /\ top \in regions
                 /\ traveled = levels \/ parent[top] = NULL
                 /\ top # owner[s]
                 /\ Rehome(s, top)

\* Any client: every call that passes live handles, in any order.
Next ==
    /\ ~fault
    /\ \/ \E r \in Region, p \in Region \cup {NULL} : CreateRegion(r, p)
       \/ \E r \in Region : DestroyRegion(r)
       \/ \E r \in Region, s \in Storage, request \in Request : RegionAlloc(r, s, request)
       \/ \E s \in Storage, r \in Region : StorageTransfer(s, r)
       \/ \E s \in Storage, levels \in Levels : StoragePreserve(s, levels)

Spec == Init /\ [][Next]_vars

\* A client that destroys a region only when it has no children left and,
\* because only a region without a parent frees its storages, only after the
\* storages of a region with a parent were moved elsewhere.
Discharged(r) == children[r] = <<>> /\ (parent[r] = NULL \/ alloced[r] = <<>>)

OrderlyNext == Next /\ \A r \in regions \ regions' : Discharged(r)

OrderlySpec == Init /\ [][OrderlyNext]_vars

-----------------------------------------------------------------------------
(* Properties of every client.                                             *)

\* The links have the types of the C++ fields; a live storage has an owner.
TypeOK ==
    /\ regions \subseteq Region
    /\ storages \subseteq Storage
    /\ parent \in [Region -> Region \cup {NULL}]
    /\ children \in [Region -> Seq(Region)]
    /\ alloced \in [Region -> Seq(Storage)]
    /\ owner \in [Storage -> Region \cup {NULL}]
    /\ layout \in [Storage -> {NoLayout} \cup {Layout(request) : request \in Request}]
    /\ fault \in BOOLEAN
    /\ \A s \in storages : owner[s] \in Region

NoRepeats(seq) == \A i, j \in DOMAIN seq : seq[i] = seq[j] => i = j

\* A live region lists each of its storages once, lists live storages only,
\* and every storage it lists names it as owner.  No storage is therefore
\* listed twice or by two regions, and ~LemniRegionT never frees a storage
\* twice, whatever the client did to the other regions before.
ListsOwned ==
    \A r \in regions :
        /\ NoRepeats(alloced[r])
        /\ \A s \in ToSet(alloced[r]) : s \in storages /\ owner[s] = r

\* A live region lists each of its children once, lists live regions only,
\* and every region it lists names it as parent: the queries that walk down
\* the children never reach a freed region, even after regions were
\* destroyed parent first and their addresses were used again.
ChildrenLinked ==
    \A r \in regions :
        /\ NoRepeats(children[r])
        /\ \A q \in ToSet(children[r]) : q \in regions /\ parent[q] = r

\* A set of live regions each of which is listed by a member of the set.
ListedWithin(S) == \A r \in S : \E q \in S : r \in ToSet(children[q])

\* No cycle in the children lists, so the recursive queries of Region.cpp
\* (minimum alignment, raw size, aligned size) terminate; the parent links
\* of a client that destroys parents first can form a cycle, these cannot.
DownwardAcyclic == \A S \in SUBSET regions : ListedWithin(S) => S = {}

\* A storage is freed only by the destruction of the region that owns it at
\* that time, whatever region it was allocated in and moved through: what was
\* preserved from a region or transferred out of it survives it
\* (lemniStoragePreserve, lemniStorageTransfer).
FreedByOwnerOnly == [][\A s \in storages \ storages' : owner[s] \in regions \ regions']_vars

\* Region.h:132 also says the converse, that a storage goes with the region
\* that owns it, which ~LemniRegionT does for a region without a parent only.
FreedWithOwner == \A s \in storages : owner[s] \in regions

-----------------------------------------------------------------------------
(* Properties of an orderly client.                                        *)

\* No call follows a link to a freed region.
NoFault == ~fault

\* Every live storage is listed by the live region it names as owner, and
\* every live region with a parent by that parent, which is live: there is
\* always a region whose destruction frees the storage.
NoOrphans ==
    /\ \A s \in storages : owner[s] \in regions /\ s \in ToSet(alloced[owner[s]])
    /\ \A r \in regions : parent[r] # NULL =>
          parent[r] \in regions /\ r \in ToSet(children[parent[r]])

-----------------------------------------------------------------------------
(* What a client relies on: see RegionContract.                            *)
Contract == INSTANCE RegionContract WITH
                alive <- regions,
                held <- [s \in Storage |-> IF s \in storages THEN owner[s] ELSE NULL],
                within <- [r \in Region |-> IF r \in regions THEN parent[r] ELSE NULL]

\* An orderly client's regions implement the contract.
ImplementsContract == Contract!Spec
=============================================================================
