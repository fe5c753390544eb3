---------------------------- MODULE MCRegionSizes ----------------------------
(***************************************************************************)
(* Small instances of RegionSizes for TLC.                                 *)
(***************************************************************************)
EXTENDS RegionSizes

\* A byte, a size whose alignment is not a power of two, and one whose
\* rounding wraps round at 2^4.
ThreeRequests == {[size |-> 1, align |-> 0], [size |-> 5, align |-> 3], [size |-> 15, align |-> 8]}

MCLevels == {1}
MCAlignments == {0, 1, 3, 8}
=============================================================================
