------------------------------ MODULE LruList ------------------------------
(***************************************************************************)
(* The overlay cache of a Plexus peer seen as a list of distinct overlay   *)
(* ids, the most recently used one first (plnode/ds/cache.h with the       *)
(* policies CacheInsertEndpoint and CacheReplaceLRU).  PlexusCache shows   *)
(* that the linked list of plnode/ds implements it; PlexusNetwork routes   *)
(* with it.                                                                *)
(***************************************************************************)
EXTENDS Naturals, Sequences

CONSTANT Capacity   \* peer.k, the argument of the Cache constructor

ASSUME CapacityAssumption == Capacity \in Nat \ {0, 1}

Cached(s) == {s[i] : i \in 1..Len(s)}

\* CacheReplaceLRU::processHit.
Touch(s, k) ==
    IF k \notin Cached(s) THEN s
    ELSE LET p == CHOOSE i \in 1..Len(s) : s[i] = k
         IN  [i \in 1..Len(s) |-> IF i = 1 THEN k ELSE IF i <= p THEN s[i - 1] ELSE s[i]]

\* CacheReplaceLRU::evict.
Evict(s) == IF s = <<>> THEN s ELSE SubSeq(s, 1, Len(s) - 1)

\* CacheInsertEndpoint::insert; declined says that the id is the peer's own or
\* is in its routing table or in its proactive cache.
InsertNew(s, k, declined) ==
    IF declined \/ k \in Cached(s) THEN s ELSE <<k>> \o s

\* Cache::add.  A hit refreshes the entry only when the cache is full, and a
\* full cache gives up its last entry even when the new id is then declined.
CacheAdd(s, k, declined) ==
    IF Len(s) = Capacity
    THEN IF k \in Cached(s) THEN Touch(s, k) ELSE InsertNew(Evict(s), k, declined)
    ELSE InsertNew(s, k, declined)
=============================================================================
