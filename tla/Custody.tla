------------------------------ MODULE Custody ------------------------------
(***************************************************************************)
(* What the migration promises about database contents, without saying how *)
(* it copies anything: an item is kept where it was until some copy of it  *)
(* is pinned, that is complete and mounted by a container that protects    *)
(* it; only then may the original be released, and a pinned copy stays.    *)
(* PostDocker implements this specification.                               *)
(***************************************************************************)
CONSTANTS
    Items,      \* the v3 data volumes
    Copies      \* the places a copy may be made to

VARIABLES
    origin,     \* which item each copy is a copy of; fixed
    kept,       \* items still in their original place
    pinned      \* copies that are complete and protected

custodyVars == <<origin, kept, pinned>>

CustodyTypeOK ==
    /\ kept \subseteq Items
    /\ pinned \subseteq Copies

CustodyInit ==
    /\ kept \subseteq Items
    /\ pinned = {}

(* A copy can be completed only from an original that is still there.      *)
Pin(c) ==
    /\ c \in Copies \ pinned
    /\ origin[c] \in kept
    /\ pinned' = pinned \cup {c}
    /\ UNCHANGED <<origin, kept>>

(* An original can go only once a pinned copy stands in for it.            *)
Release(x) ==
    /\ x \in kept
    /\ \E c \in pinned : origin[c] = x
    /\ kept' = kept \ {x}
    /\ UNCHANGED <<origin, pinned>>

CustodyNext ==
    \/ \E c \in Copies : Pin(c)
    \/ \E x \in Items : Release(x)

CustodySpec == CustodyInit /\ [][CustodyNext]_custodyVars
=============================================================================
