------------------------------ MODULE MCRegions ------------------------------
(***************************************************************************)
(* Small instances of Regions for TLC.                                     *)
(***************************************************************************)
EXTENDS Regions, TLC

\* One request is enough for the properties about links.
OneRequest == {[size |-> 3, align |-> 2]}

\* One level, and more levels than any region is deep.
MCLevels == {1, 3}

Symmetric == Permutations(Region) \cup Permutations(Storage)
=============================================================================
