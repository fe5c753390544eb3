----------------------------- MODULE MCModules -----------------------------
(* Two files and a name that is none; files may import one another, and     *)
(* themselves, and the host may alias, register and load any name.          *)
EXTENDS Modules

CONSTANTS a, b, d

\* No two names share a path without extension.
OwnKeys == [n \in Names |-> n]
=============================================================================
