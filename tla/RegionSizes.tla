---------------------------- MODULE RegionSizes ----------------------------
(***************************************************************************)
(* The queries of lib/Region.cpp over the regions of Regions: minimum      *)
(* alignment, raw size, aligned size, both sizes at once, and the lookups  *)
(* by index.  They change nothing, so each is an operator over the state   *)
(* of Regions; what they compute is checked in every reachable state.      *)
(* They are asked of live regions, whose children are live.                *)
(* Sums and roundings are LemniNat64 arithmetic, modulo 2^Bits.            *)
(***************************************************************************)
EXTENDS Regions

CONSTANT Alignments   \* the alignments passed to the size queries; 0 asks for the minimum

\* std::bit_ceil is undefined above the largest power of two of the type.
ASSUME AlignmentsAssumption == Alignments \subseteq 0 .. 2 ^ (Bits - 1)

NoAlignment == Word - 1      \* std::numeric_limits<LemniNat64>::max()

AlignmentsOf(r) == {layout[s].alignment : s \in ToSet(alloced[r])}

MinAlignment(region, queryChildren) ==
    LET deep[r \in regions] ==
          Min({NoAlignment} \cup AlignmentsOf(r) \cup {deep[c] : c \in ToSet(children[r])})
    IN  IF queryChildren THEN deep[region] ELSE Min({NoAlignment} \cup AlignmentsOf(region))

RawSizeOfStorages(r) ==
    FoldLeft(LAMBDA size, s : (size + layout[s].aligned) % Word, 0, alloced[r])

\* A slip: the children are asked without their own children.
RawSizeShallow(region, queryChildren) ==
    IF queryChildren
    THEN FoldLeft(LAMBDA size, c : (size + RawSizeOfStorages(c)) % Word,
                  RawSizeOfStorages(region), children[region])
    ELSE RawSizeOfStorages(region)

RawSize(region, queryChildren) ==
    LET deep[r \in regions] ==
          FoldLeft(LAMBDA size, c : (size + deep[c]) % Word, RawSizeOfStorages(r), children[r])
    IN  IF queryChildren THEN deep[region] ELSE RawSizeOfStorages(region)

\* The alignment a size query works with.
Effective(r, queryChildren, alignment) ==
    IF alignment = 0 THEN MinAlignment(r, queryChildren) ELSE BitCeil(alignment)

AlignedSizeOfStorages(r, alignment) ==
    FoldLeft(LAMBDA sum, s : RoundUp((sum + layout[s].aligned) % Word, alignment),
             0, alloced[r])

AlignedSize(region, queryChildren, alignment_) ==
    LET deep[asked \in regions \X (0 .. Word)] ==
          LET r == asked[1]
              alignment == Effective(r, TRUE, asked[2])
          IN  FoldLeft(LAMBDA sum, c : (sum + deep[<<c, alignment>>]) % Word,
                       AlignedSizeOfStorages(r, alignment), children[r])
    IN  IF queryChildren
        THEN deep[<<region, alignment_>>]
        ELSE AlignedSizeOfStorages(region, Effective(region, FALSE, alignment_))

BothSizesOfStorages(r, alignment) ==
    FoldLeft(LAMBDA sum, s : [raw |-> (sum.raw + layout[s].aligned) % Word,
                              aligned |-> RoundUp((sum.aligned + layout[s].aligned) % Word,
                                                  alignment)],
             [raw |-> 0, aligned |-> 0], alloced[r])

RegionSize(region, queryChildren, alignment_) ==
    LET deep[asked \in regions \X (0 .. Word)] ==
          LET r == asked[1]
              alignment == Effective(r, TRUE, asked[2])
          IN  FoldLeft(LAMBDA sum, c :
                         [raw |-> (sum.raw + deep[<<c, alignment>>].raw) % Word,
                          aligned |-> (sum.aligned + deep[<<c, alignment>>].aligned) % Word],
                       BothSizesOfStorages(r, alignment), children[r])
    IN  IF queryChildren
        THEN deep[<<region, alignment_>>]
        ELSE BothSizesOfStorages(region, Effective(region, FALSE, alignment_))

\* std::bit_ceil is undefined above the largest power of two: it is reached
\* when the children of a region are given the minimum of no alignments.
SizeDefined(r, deep, alignment) ==
    alignment = 0 /\ deep /\ children[r] # <<>> => MinAlignment(r, TRUE) # NoAlignment

-----------------------------------------------------------------------------
\* Every region whose parent is in the set is in the set.
ClosedDown(S) == \A q \in regions : parent[q] \in S => q \in S

\* The live regions from which r is reached by following parent links: the
\* least set with r and, with every region, those that name it as parent.
Below(r) == {q \in regions : \A S \in SUBSET regions : r \in S /\ ClosedDown(S) => q \in S}

\* The storages that name one of the regions as owner.
OwnedBy(S) == {s \in storages : owner[s] \in S}

Scope(r, deep) == OwnedBy(IF deep THEN Below(r) ELSE {r})

\* The bytes asked for, and those bytes padded to the alignment asked for.
Packed == [s \in Storage |-> layout[s].raw]
Aligned == [s \in Storage |-> layout[s].aligned]

\* The downward walk over children and alloced finds exactly the storages
\* whose upward links lead to the region.  The minimum alignment is the least of
\* theirs.  The raw size is their packed size where no storage is padded;
\* otherwise it lies between the packed size and the size with every storage
\* padded, so that none is lost or counted twice.  An aligned size pads each of
\* them by less than its alignment, of which it is a multiple; both sizes asked
\* for at once are the two sizes.  The bounds hold as long as neither a storage
\* nor the sum wraps round at 2^Bits.
QueriesCountEveryStorage ==
    \A r \in regions, deep \in BOOLEAN :
        LET scope == Scope(r, deep)
            packed == SumFunctionOnSet(Packed, scope)
            padded == SumFunctionOnSet(Aligned, scope)
        IN  /\ (\A s \in scope : Packed[s] = Aligned[s]) => RawSize(r, deep) = packed % Word
            /\ (\A s \in scope : Packed[s] <= Aligned[s]) /\ padded < Word =>
                 packed <= RawSize(r, deep) /\ RawSize(r, deep) <= padded
            /\ MinAlignment(r, deep) = Min({NoAlignment} \cup {layout[s].alignment : s \in scope})
            /\ \A a \in {a \in Alignments : SizeDefined(r, deep, a)} :
                 LET alignment == Effective(r, deep, a)
                     bound == padded + Cardinality(scope) * (alignment - 1)
                     size == AlignedSize(r, deep, a)
                 IN  /\ RegionSize(r, deep, a) = [raw |-> RawSize(r, deep), aligned |-> size]
                     /\ scope # {} /\ bound < Word =>
                          size % alignment = 0 /\ padded <= size /\ size <= bound
=============================================================================
