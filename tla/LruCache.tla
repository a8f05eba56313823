------------------------------ MODULE LruCache ------------------------------
(***************************************************************************)
(* What the overlay cache of a Plexus peer promises to the threads that    *)
(* call it: every call of add and every hit of lookup is one step of the   *)
(* bounded list of LruList.                                                *)
(***************************************************************************)
EXTENDS LruList

CONSTANT Keys      \* overlay ids

VARIABLE lru

LruInit == lru = <<>>

LruNext == \E k \in Keys :
    \/ \E declined \in BOOLEAN : lru' = CacheAdd(lru, k, declined)
    \/ lru' = Touch(lru, k)

LruSpec == LruInit /\ [][LruNext]_lru
=============================================================================
