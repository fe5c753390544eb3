--------------------------- MODULE RegionContract ---------------------------
(***************************************************************************)
(* What regions promise their client (include/lemni/Region.h), without the *)
(* lists and links that implement them: a storage lives in exactly one     *)
(* live region, it can be moved to another one at any time, and it dies in *)
(* the step that destroys the region it lives in; a region dies after the  *)
(* regions created within it.                                              *)
(***************************************************************************)
EXTENDS Naturals

CONSTANTS Region, Storage, NULL

VARIABLES alive,      \* the regions that exist
          held,       \* the region each storage lives in, NULL if there is none
          within      \* the region each region was created in, or NULL

cvars == <<alive, held, within>>

Init ==
    /\ alive = {}
    /\ held = [s \in Storage |-> NULL]
    /\ within = [r \in Region |-> NULL]

Open(r, p) ==
    /\ r \notin alive
    /\ p \in alive \cup {NULL}
    /\ alive' = alive \cup {r}
    /\ within' = [within EXCEPT ![r] = p]
    /\ UNCHANGED held

\* Everything that lives in the region dies with it, and nothing else.
Close(r) ==
    /\ r \in alive
    /\ \A q \in alive : within[q] # r
    /\ alive' = alive \ {r}
    /\ within' = [within EXCEPT ![r] = NULL]
    /\ held' = [s \in Storage |-> IF held[s] = r THEN NULL ELSE held[s]]

Allocate(s, r) ==
    /\ held[s] = NULL
    /\ r \in alive
    /\ held' = [held EXCEPT ![s] = r]
    /\ UNCHANGED <<alive, within>>

Move(s, r) ==
    /\ held[s] # NULL
    /\ r \in alive
    /\ held' = [held EXCEPT ![s] = r]
    /\ UNCHANGED <<alive, within>>

Next ==
    \/ \E r \in Region, p \in Region \cup {NULL} : Open(r, p)
    \/ \E r \in Region : Close(r)
    \/ \E s \in Storage, r \in Region : Allocate(s, r) \/ Move(s, r)

Spec == Init /\ [][Next]_cvars
=============================================================================
