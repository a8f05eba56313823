---------------------------- MODULE PlexusCache ----------------------------
(***************************************************************************)
(* The overlay cache of a Plexus peer as plnode/ds implements it: a doubly *)
(* linked list, the map hm from overlay ids to its nodes, and a counter.   *)
(* add and lookup hold cache_lock; the iterators of setNextHop hold no     *)
(* lock, and the processing and the controlling thread both route, so one  *)
(* walks the list while the other changes it.                              *)
(*                                                                         *)
(* A node that is evicted from a list of two or more is never freed (the   *)
(* delete is commented out); the model takes a node for a new entry from   *)
(* those no thread can reach.                                              *)
(***************************************************************************)
EXTENDS Integers, Sequences, FiniteSets

CONSTANTS Keys,      \* overlay ids
          Capacity,  \* the capacity given to the constructor
          Nodes,     \* addresses of DLLNodes
          Threads,   \* threads that call add, lookup and the iterator
          NULL

Idle == "idle"

\* The allocator has a node beside those in the list and those that other
\* threads stand on.
ASSUME CacheAssumption ==
    /\ Capacity \in Nat \ {0, 1}
    /\ NULL \notin Nodes \cup Keys /\ Idle \notin Nodes \cup {NULL}
    /\ IsFiniteSet(Threads)
    /\ IsFiniteSet(Nodes) => Cardinality(Nodes) >= Capacity + Cardinality(Threads)

VARIABLES head, tail, next, prev,  \* DoublyLinkedList and DLLNode
          key,                     \* DLLNode::key
          hm,                      \* Cache::hm, a partial map
          size,                    \* Cache::size
          freed,                   \* nodes given back to the allocator
          current,                 \* CacheIterator::current of each thread
          witness                  \* ids cached at some time of a thread's walk

listVars == <<head, tail, next, prev, key, hm, size, freed>>
cacheVars == <<head, tail, next, prev, key, hm, size, freed, current, witness>>

CacheInit ==
    /\ head = NULL /\ tail = NULL
    /\ next = [n \in Nodes |-> NULL] /\ prev = [n \in Nodes |-> NULL]
    /\ key = [n \in Nodes |-> NULL]
    /\ hm = <<>>
    /\ size = 0
    /\ freed = {}
    /\ current = [t \in Threads |-> Idle]
    /\ witness = [t \in Threads |-> {}]

-----------------------------------------------------------------------------
(* The list, as a record, so that one locked call can make several changes. *)

List == [head |-> head, tail |-> tail, next |-> next, prev |-> prev,
         key |-> key, hm |-> hm, size |-> size, freed |-> freed]

Becomes(L) ==
    /\ head' = L.head /\ tail' = L.tail
    /\ next' = L.next /\ prev' = L.prev
    /\ key' = L.key /\ hm' = L.hm /\ size' = L.size /\ freed' = L.freed

hm_add(m, k, n) == [x \in DOMAIN m \cup {k} |-> IF x = k THEN n ELSE m[x]]
hm_remove(m, k) == [x \in DOMAIN m \ {k} |-> m[x]]

append2Head(L, n) ==
    IF L.head = NULL
    THEN [L EXCEPT !.head = n, !.tail = n, !.prev[n] = NULL, !.next[n] = NULL]
    ELSE [L EXCEPT !.next[n] = L.head, !.prev = [@ EXCEPT ![L.head] = n, ![n] = NULL],
                   !.head = n]

move2Head(L, n) ==
    IF L.head = NULL \/ L.tail = NULL \/ L.head = n THEN L
    ELSE LET p == L.prev[n]
             unlinked ==
               IF L.tail = n
               THEN [L EXCEPT !.tail = p, !.next[p] = NULL]
               ELSE [L EXCEPT !.next[p] = L.next[n], !.prev[L.next[n]] = p]
         IN  [unlinked EXCEPT !.next[n] = L.head, !.head = n,
                              !.prev = [@ EXCEPT ![L.head] = n, ![n] = NULL]]

removeTail(L) ==
    IF L.tail = L.head
    THEN [L EXCEPT !.freed = @ \cup {L.tail}, !.head = NULL, !.tail = NULL]
    ELSE LET p == L.prev[L.tail]
         IN  [L EXCEPT !.tail = p, !.next[p] = NULL, !.prev[L.tail] = NULL]

processHit(L, k) == IF k \in DOMAIN L.hm THEN move2Head(L, L.hm[k]) ELSE L

\* evict takes the key out of the map through a pointer into the node that
\* removeTail has just dealt with; if that was the only node it is freed, and
\* what the pointer reads is anything: the entry goes, or it stays.
evict(L) ==
    IF L.tail = NULL THEN {L}
    ELSE LET R == removeTail(L)
             gone == [R EXCEPT !.hm = hm_remove(@, L.key[L.tail])]
         IN  IF L.tail = L.head THEN {R, gone} ELSE {gone}

\* Variant: a new entry goes to the end of the list.
insertAtTail(L, k, n, known) ==
    IF known \/ k \in DOMAIN L.hm THEN L
    ELSE LET M == [L EXCEPT !.key[n] = k, !.next[n] = NULL, !.prev[n] = L.tail,
                            !.tail = n, !.head = IF @ = NULL THEN n ELSE @]
             N == IF L.tail = NULL THEN M ELSE [M EXCEPT !.next[L.tail] = n]
         IN  [N EXCEPT !.hm = hm_add(@, k, n), !.size = @ + 1]

insert(L, k, n, known) ==
    IF known \/ k \in DOMAIN L.hm THEN L
    ELSE LET M == [L EXCEPT !.key[n] = k]
         IN  [append2Head(M, n) EXCEPT !.hm = hm_add(@, k, n), !.size = @ + 1]

\* The lists Cache::add may leave; n is the node it would allocate.
add(L, k, n, known) ==
    IF L.size = Capacity /\ k \notin DOMAIN L.hm
    THEN {insert([E EXCEPT !.size = @ - 1], k, n, known) : E \in evict(L)}
    ELSE {insert(IF L.size = Capacity THEN processHit(L, k) ELSE L, k, n, known)}

-----------------------------------------------------------------------------
(* What the threads do. *)

NewNode == CHOOSE n \in Nodes :
    /\ n \notin {hm[k] : k \in DOMAIN hm}
    /\ n \notin {current[t] : t \in Threads}

\* Cache::add; known: the id is the peer's own, or in its routing table or its
\* proactive cache, and CacheInsertEndpoint declines it.
Add(t, k, known) ==
    /\ current[t] = Idle
    /\ \E L \in add(List, k, NewNode, known) : Becomes(L)
    /\ witness' = [u \in Threads |->
         IF current[u] = Idle THEN {} ELSE witness[u] \cup DOMAIN hm']
    /\ UNCHANGED current

\* CacheIterator(cache) and reset_iterator, from setNextHop.
WalkStart(t) ==
    /\ current[t] = Idle
    /\ head # NULL
    /\ current' = [current EXCEPT ![t] = head]
    /\ witness' = [witness EXCEPT ![t] = DOMAIN hm]
    /\ UNCHANGED listVars

\* getNext, and cache->lookup of the id when it matches the target better than
\* what the walk has seen: a hit moves the entry to the head.
WalkNext(t, better) ==
    LET n == current[t] IN
    /\ n \notin {Idle, NULL}
    /\ current' = [current EXCEPT ![t] = next[n]]
    /\ IF better /\ key[n] \in DOMAIN hm
       THEN Becomes(processHit(List, key[n]))
       ELSE UNCHANGED listVars
    /\ UNCHANGED witness

WalkEnd(t) ==
    /\ current[t] = NULL
    /\ current' = [current EXCEPT ![t] = Idle]
    /\ witness' = [witness EXCEPT ![t] = {}]
    /\ UNCHANGED listVars

CacheNext == \E t \in Threads :
    \/ \E k \in Keys, known \in BOOLEAN : Add(t, k, known)
    \/ WalkStart(t)
    \/ \E better \in BOOLEAN : WalkNext(t, better)
    \/ WalkEnd(t)

-----------------------------------------------------------------------------
(* Properties. *)

\* The nodes from the head along next; Capacity + 1 steps are enough to see a
\* list that is too long or cyclic.
Follow(first, link) ==
    LET f[i \in 0..(Capacity + 1)] ==
          IF i = 0 THEN <<>>
          ELSE LET s == f[i - 1]
                   n == IF i = 1 THEN first
                        ELSE IF Len(s) < i - 1 THEN NULL ELSE link[s[i - 1]]
               IN  IF n = NULL THEN s ELSE Append(s, n)
    IN  f[Capacity + 1]

Forward == Follow(head, next)

Ids == [i \in 1..Len(Forward) |-> key[Forward[i]]]

CacheTypeOK ==
    /\ head \in Nodes \cup {NULL} /\ tail \in Nodes \cup {NULL}
    /\ next \in [Nodes -> Nodes \cup {NULL}]
    /\ prev \in [Nodes -> Nodes \cup {NULL}]
    /\ key \in [Nodes -> Keys \cup {NULL}]
    /\ DOMAIN hm \subseteq Keys
    /\ \A k \in DOMAIN hm : hm[k] \in Nodes
    /\ size \in -1..Capacity
    /\ freed \subseteq Nodes
    /\ current \in [Threads -> Nodes \cup {NULL, Idle}]

\* The list, the map and the counter agree after every call: the walk from the
\* head meets exactly the nodes of the map, ends at tail, prev is the inverse
\* of next, and size counts them (double_linked_list.h, cache.h).
Linked ==
    LET F == Forward IN
    /\ size = Len(F) /\ size <= Capacity
    /\ {F[i] : i \in 1..Len(F)} = {hm[k] : k \in DOMAIN hm}
    /\ Cardinality(DOMAIN hm) = Len(F)
    /\ \A k \in DOMAIN hm : key[hm[k]] = k
    /\ tail = IF F = <<>> THEN NULL ELSE F[Len(F)]
    /\ \A i \in 1..Len(F) : prev[F[i]] = IF i = 1 THEN NULL ELSE F[i - 1]

\* An iterator that runs without the lock never stands on freed memory and
\* never reads an id that was not cached at some time since the walk began,
\* however the other thread moves and evicts entries meanwhile
\* (cache_iterator.h, plexus_protocol.h setNextHop).
WalkSound == \A t \in Threads :
    current[t] \notin {Idle, NULL} =>
        /\ current[t] \notin freed
        /\ key[current[t]] \in witness[t]

\* The linked list implements the bounded most-recently-used list.
Lru == INSTANCE LruCache WITH lru <- Ids
ImplementsLru == Lru!LruSpec
=============================================================================
