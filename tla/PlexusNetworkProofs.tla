------------------------ MODULE PlexusNetworkProofs ------------------------
(***************************************************************************)
(* Proofs about the overlay, for any sizes, ids, names, targets, capacity  *)
(* of the caches and scenarios.  A message keeps a type that says whose it *)
(* is and where it may be (Letters, Mail); a request is in one place from  *)
(* the moment it is made until its reply is logged or it is dropped.       *)
(***************************************************************************)
EXTENDS PlexusNetwork, FiniteSetTheorems, SequenceTheorems, WellFoundedInduction, TLAPS

Requests == [origin : Peers, seq : Nat]

Kinds == Routed \cup {"CACHE_ME", "INIT", "INITIATE_GET", "INITIATE_PUT",
                      "START_GENERATE_NAME", "START_LOOKUP_NAME", "FORCE_LOG"}

AnyMessage ==
    [type : Kinds, src : Peers \cup {Client}, dest : Peers \cup {None},
     dst : Peers \cup {Garbage}, ttl : 0..255, target : Int,
     name : Names \cup {None}, req : Requests \cup {NoReq}, ok : BOOLEAN]

\* What the code relies on when it handles a message: who made the request, and
\* that a request names a name and a reply or an announcement its sender.
Sensible(m) ==
    /\ IF m.type \in Routed THEN m.req \in Requests ELSE m.req = NoReq
    /\ m.type \in Counted => m.src = m.req.origin
    /\ m.type \in Counted \cup {"INITIATE_GET", "INITIATE_PUT"} => m.name \in Names
    /\ Reply(m) \/ m.type = "CACHE_ME" => m.src \in Peers

\* A message peer p may handle: a reply that is not routed has come to the peer
\* that made the request.
Due(p) == {m \in AnyMessage :
    Sensible(m) /\ (config.storage = "end_point" /\ Reply(m) => m.req.origin = p)}

\* The neighbours of a peer, and the peers whose announcement reaches it.
RtOf(p) == rtArray[config.n][p]
Heard(p) == {q \in Peers : p \in RtOf(q) \/ \E r \in RtOf(q) : p \in RtOf(r)}

\* An announcement is one hop from its source, or two.
Announced(m) == m.type = "CACHE_ME" =>
    \/ m.ttl = 2 /\ m.dest \in RtOf(m.src)
    \/ m.ttl = 1 /\ \E r \in RtOf(m.src) : m.dest \in RtOf(r)

\* A message that is on its way, with a hop left, and one on its way to p.
Letters == {m \in AnyMessage :
    m.dest \in Peers /\ m \in Due(m.dest) /\ m.ttl \in 1..DefaultTtl /\ Announced(m)}
Mail(p) == {m \in Letters : m.dest = p}

Entries == [type : {"GET", "PUT", "ALL_LOGS"}, req : Requests \cup {NoReq}, ok : BOOLEAN]
OwnEntries(p) ==
    {e \in Entries : config.storage = "end_point" /\ e.req # NoReq => e.req.origin = p}

Counters == [generated : Nat, received : Nat, processed : Nat, forwarded : Nat, dropped : Nat]

State(p) ==
    [init : BOOLEAN, rt : {{}, RtOf(p)}, index : UNION {[D -> Requests] : D \in SUBSET Names},
     pc : SUBSET (Heard(p) \ ({p} \cup RtOf(p))), cache : Seq(Peers \ {p}),
     unresolved : SUBSET Requests,
     incoming : Seq(Mail(p)), outgoing : Seq(Letters),
     received_before_init : Seq(Mail(p)), listener : Seq(Mail(p)),
     pending : {"wait", "drain", "done"}, gen : BOOLEAN, lkp : BOOLEAN,
     published : Nat, looked_up : Nat, seq : Nat,
     count : [Counted -> Counters], initiated : [Counted -> Nat], log : Seq(OwnEntries(p))]

TypesInv ==
    /\ config \in Scenarios
    /\ peer = [p \in Peers |-> peer[p]]
    /\ net \in [DOMAIN net -> Nat \ {0}] /\ DOMAIN net \subseteq Letters
    /\ driver.next \in 0..config.n /\ failures \in Nat
    /\ issued \subseteq Requests /\ dropped \subseteq issued

\* The thread that hands on what came before INIT: once INIT is complete only
\* the message the listener is about to push can still be kept back.
PendingOk(s) ==
    /\ s.pending # "wait" => s.init
    /\ Len(s.listener) <= 1
    /\ s.pending = "done" => Len(s.received_before_init) + Len(s.listener) <= 1

\* A peer that INIT has not reached knows nobody and has only INIT to process.
InitOk(s, p) ==
    /\ s.init => s.rt = RtOf(p)
    /\ ~s.init => /\ s.rt = {} /\ s.pc = {}
                  /\ \A i \in 1..Len(s.incoming) : s.incoming[i].type = "INIT"

\* The positions of a sequence that hold a member of S.
NumIn(s, S) == Cardinality({i \in 1..Len(s) : s[i] \in S})

OfRequest(r) == {m \in Letters : m.req = r}
EntriesOf(r) == {e \in Entries : e.req = r}

\* How often request r, its reply or the log entry of it is at a peer.
Copies(s, r) ==
    NumIn(s.received_before_init, OfRequest(r)) + NumIn(s.listener, OfRequest(r))
    + NumIn(s.incoming, OfRequest(r)) + NumIn(s.outgoing, OfRequest(r))
    + NumIn(s.log, EntriesOf(r))

Nowhere(r) ==
    /\ \A p \in Peers : Copies(peer[p], r) = 0
    /\ \A m \in DOMAIN net : m.req # r

AtPeer(r) == \E c \in Peers :
    /\ \A p \in Peers : Copies(peer[p], r) = IF p = c THEN 1 ELSE 0
    /\ \A m \in DOMAIN net : m.req # r

OnTheWay(r) ==
    /\ \A p \in Peers : Copies(peer[p], r) = 0
    /\ \E m \in DOMAIN net : m.req = r /\ net[m] = 1 /\ \A o \in DOMAIN net : o.req = r => o = m

TokenOk(r) ==
    /\ r \in issued <=> r.seq < peer[r.origin].seq
    /\ IF r \in issued \ dropped THEN AtPeer(r) \/ OnTheWay(r) ELSE Nowhere(r)

TokenInv == \A r \in Requests : TokenOk(r)

\* The messages a counter of op counts.
Types(op) == {op} \cup (IF op = "GET" THEN {"INITIATE_GET"} ELSE {"INITIATE_PUT"})
OfType(op) == {m \in Letters : m.type \in Types(op)}
HeldOf(s, op) ==
    NumIn(s.received_before_init, OfType(op)) + NumIn(s.listener, OfType(op))
    + NumIn(s.incoming, OfType(op)) + NumIn(s.outgoing, OfType(op))

\* The counters of one peer balance.
Even(s, op) ==
    s.count[op].received + s.count[op].generated =
      s.count[op].processed + s.count[op].forwarded + s.count[op].dropped
      + s.initiated[op] + HeldOf(s, op)

\* A peer sends no commands.
Outward(a) == \A i \in 1..Len(a) : a[i].type \in Routed \cup {"CACHE_ME"}

PeerOk(p, s) ==
    /\ s \in State(p) /\ Len(s.cache) <= Capacity /\ Outward(s.outgoing)
    /\ PendingOk(s) /\ InitOk(s, p) /\ \A op \in Counted : Even(s, op)

PeersInv == \A p \in Peers : PeerOk(p, peer[p])

\* A message that is at a peer, or anywhere.
In(s, m) == \E i \in 1..Len(s) : s[i] = m
At(s, m) ==
    \/ In(s.incoming, m) \/ In(s.outgoing, m)
    \/ In(s.received_before_init, m) \/ In(s.listener, m)
There(m) == m \in DOMAIN net \/ \E p \in Peers : At(peer[p], m)

Notice(src, q, ttl) == Message("CACHE_ME", src, q, q, ttl, 0, None, NoReq, TRUE)
Knows(p, q) == q = p \/ q \in peer[p].rt \/ q \in peer[p].pc

\* Unless a message was lost, INIT and the announcements of a peer are on their
\* way or have been taken in.
ToldInv == config.type = "proactive" /\ failures = 0 =>
    /\ \A p \in Peers : p < driver.next => peer[p].init \/ There(Control("INIT", p, None))
    /\ \A q \in Peers : peer[q].init => \A d \in RtOf(q) :
         \/ There(Notice(q, d, 2))
         \/ /\ Knows(d, q)
            /\ \A e \in RtOf(d) : There(Notice(q, e, 1)) \/ Knows(e, q)

NetworkInv == TypesInv /\ PeersInv /\ TokenInv /\ ToldInv

-----------------------------------------------------------------------------
(* The overlay's tree. *)

LEMMA LeastNat ==
    ASSUME NEW T \in SUBSET Nat, T # {}
    PROVE  \E t \in T : \A u \in T : t <= u
<1>1. IsWellFoundedOn(OpToRel(<, Nat), Nat)
  BY NatLessThanWellFounded
<1>2. PICK t \in T : \A u \in T : ~(<<u, t>> \in OpToRel(<, Nat))
  BY <1>1, WFMin
<1>3. ASSUME NEW u \in T
      PROVE  t <= u
  <2>1. <<u, t>> \in Nat \X Nat
    OBVIOUS
  <2>2. ~(u < t)
    BY <1>2, <2>1 DEF OpToRel
  <2> QED BY <2>2
<1> QED BY <1>3

\* Max and Min of a set of naturals with a bound.
LEMMA Extremes ==
    ASSUME NEW n \in Nat, NEW T \in SUBSET (0..n), T # {}
    PROVE  /\ Max(T) \in T /\ \A u \in T : u <= Max(T)
           /\ Min(T) \in T /\ \A u \in T : Min(T) <= u
<1>0. T \subseteq Nat /\ \A t \in T : t <= n
  OBVIOUS
<1>1. \E t \in T : \A u \in T : t <= u
  BY <1>0, LeastNat
<1>2. \E t \in T : \A u \in T : t >= u
  <2> DEFINE U == {n - t : t \in T}
  <2>0. \A t \in T : n - t \in Nat
    BY <1>0
  <2>1. U \subseteq Nat /\ U # {}
    <3>1. PICK t \in T : TRUE
      OBVIOUS
    <3>2. n - t \in U
      BY <3>1
    <3> QED BY <2>0, <3>2
  <2>2. PICK x \in U : \A y \in U : x <= y
    <3> HIDE DEF U
    <3> QED BY <2>1, LeastNat
  <2>3. PICK t \in T : x = n - t
    OBVIOUS
  <2>4. ASSUME NEW u \in T
        PROVE  t >= u
    <3>1. n - u \in U
      OBVIOUS
    <3>2. n - t <= n - u /\ u \in Nat /\ t \in Nat
      BY <1>0, <2>2, <2>3, <3>1
    <3> QED BY <3>2
  <2> QED BY <2>4
<1>3. Max(T) \in T /\ \A u \in T : Max(T) >= u
  BY <1>2 DEF Max
<1>4. Min(T) \in T /\ \A u \in T : Min(T) <= u
  BY <1>1 DEF Min
<1> QED BY <1>0, <1>3, <1>4

\* Two ids match in less than K bits.
LEMMA MatchRange ==
    ASSUME NEW a, NEW b
    PROVE  GetMatchedPrefixLength(a, b) \in 0..(K - 1)
<1> DEFINE T == {0} \cup {i \in 1..(K - 1) : Bit(a, i) # Bit(b, i)}
<1>1. K - 1 \in Nat /\ T \subseteq 0..(K - 1) /\ T # {}
  BY TreeAssumption
<1>2. Max(T) \in 0..(K - 1)
  <2> HIDE DEF T
  <2> QED BY <1>1, Extremes
<1>3. GetMatchedPrefixLength(a, b) = K - 1 - Max(T)
  BY DEF GetMatchedPrefixLength
<1> HIDE DEF T
<1> QED BY <1>1, <1>2, <1>3

\* The peer an id belongs to is one of the peers.
LEMMA IndexRange ==
    ASSUME NEW n \in Sizes, NEW v
    PROVE  GetIndexOfLongestMatchedPrefix(n, v) \in 0..(n - 1)
<1> DEFINE len(i) == GetMatchedPrefixLength(v, idArray[n][i])
           T == {len(i) : i \in 0..(n - 1)}
           best == Max(T)
           B == {i \in 0..(n - 1) : len(i) = best}
<1>0. n - 1 \in Nat /\ K - 1 \in Nat
  BY TreeAssumption
<1>1. \A i \in 0..(n - 1) : len(i) \in 0..(K - 1)
  BY MatchRange
<1>2. T \subseteq 0..(K - 1) /\ T # {}
  <2> HIDE DEF len
  <2>1. 0 \in 0..(n - 1)
    BY <1>0
  <2> QED BY <1>1, <2>1
<1>3. best \in T
  <2> HIDE DEF T
  <2> QED BY <1>0, <1>2, Extremes
<1>4. B \subseteq 0..(n - 1) /\ B # {}
  <2> HIDE DEF len, best
  <2> QED BY <1>3
<1>5. Min(B) \in 0..(n - 1)
  <2> HIDE DEF B
  <2> QED BY <1>0, <1>4, Extremes
<1>6. GetIndexOfLongestMatchedPrefix(n, v) = IF best = 0 THEN 0 ELSE Min(B)
  BY DEF GetIndexOfLongestMatchedPrefix
<1> HIDE DEF best, B
<1> QED BY <1>0, <1>5, <1>6

LEMMA RoutingTableRange ==
    ASSUME NEW n \in Sizes, NEW i \in 0..(n - 1)
    PROVE  rtArray[n][i] \subseteq 0..(n - 1) /\ i \notin rtArray[n][i]
<1>1. rtArrayOf(n, i) \subseteq 0..(n - 1) /\ i \notin rtArrayOf(n, i)
  BY IndexRange DEF rtArrayOf
<1>2. rtArray[n][i] = rtArrayOf(n, i)
  BY DEF rtArray
<1> QED BY <1>1, <1>2

\* The powers of two, defined one from the other.
LEMMA Pow2Facts ==
    /\ Pow2[0] = 1
    /\ \A h \in 0..K : Pow2[h] \in Nat /\ Pow2[h] > 0 /\ (h # 0 => Pow2[h] = 2 * Pow2[h - 1])
<1> DEFINE Double(f) == [h \in 0..K |-> IF h = 0 THEN 1 ELSE 2 * f[h - 1]]
           Built(k) == \E g : /\ DOMAIN g = 0..k /\ g[0] = 1
                              /\ \A i \in 1..k : g[i] = 2 * g[i - 1]
<1>0. K \in Nat
  BY TreeAssumption
<1>1. Built(K)
  <2> DEFINE T == {k \in 0..K : ~Built(k)}
  <2> SUFFICES ASSUME T # {}  PROVE FALSE
    BY <1>0
  <2>1. T \subseteq Nat
    BY <1>0
  <2>2. PICK k \in T : \A u \in T : k <= u
    <3> HIDE DEF T
    <3> QED BY <2>1, LeastNat
  <2>3. k \in Int /\ 0 <= k /\ k <= K /\ ~Built(k)
    BY <1>0
  <2> HIDE DEF T
  <2>4. k # 0
    <3>1. Built(0)
      <4> DEFINE g == [i \in 0..0 |-> 1]
      <4>1. DOMAIN g = 0..0 /\ g[0] = 1 /\ \A i \in 1..0 : g[i] = 2 * g[i - 1]
        OBVIOUS
      <4> HIDE DEF g
      <4> QED BY <4>1
    <3> HIDE DEF Built
    <3> QED BY <2>3, <3>1
  <2>5. Built(k - 1)
    <3> HIDE DEF Built
    <3>1. k - 1 \in 0..K /\ ~(k <= k - 1)
      BY <1>0, <2>3, <2>4
    <3>2. k - 1 \notin T
      BY <2>2, <3>1
    <3> QED BY <3>1, <3>2 DEF T
  <2>6. PICK g : /\ DOMAIN g = 0..(k - 1) /\ g[0] = 1
                 /\ \A i \in 1..(k - 1) : g[i] = 2 * g[i - 1]
    BY <2>5
  <2> DEFINE h == [i \in 0..k |-> IF i = k THEN 2 * g[k - 1] ELSE g[i]]
  <2>7. DOMAIN h = 0..k /\ h[0] = 1
    BY <2>3, <2>4, <2>6
  <2>8. ASSUME NEW i \in 1..k
        PROVE  h[i] = 2 * h[i - 1]
    <3>1. i - 1 \in 0..k /\ i - 1 # k /\ i \in 0..k
      BY <2>3
    <3>2. h[i - 1] = g[i - 1]
      BY <3>1
    <3>3. CASE i = k
      BY <3>1, <3>2, <3>3
    <3>4. CASE i # k
      <4>1. i \in 1..(k - 1)
        BY <2>3, <3>4
      <4>2. h[i] = g[i]
        BY <3>1, <3>4
      <4> HIDE DEF h
      <4> QED BY <2>6, <3>2, <4>1, <4>2
    <3> QED BY <3>3, <3>4
  <2>9. Built(k)
    <3> HIDE DEF h
    <3> QED BY <2>7, <2>8
  <2> QED BY <2>3, <2>9
<1>2. PICK g : /\ DOMAIN g = 0..K /\ g[0] = 1 /\ \A i \in 1..K : g[i] = 2 * g[i - 1]
  BY <1>1
<1>3. \E x : x = Double(x)
  <2> DEFINE h == [i \in 0..K |-> g[i]]
  <2>1. ASSUME NEW i \in 0..K
        PROVE  h[i] = IF i = 0 THEN 1 ELSE 2 * h[i - 1]
    <3>1. CASE i = 0
      BY <1>2, <3>1
    <3>2. CASE i # 0
      <4>1. i \in 1..K /\ i - 1 \in 0..K
        BY <1>0, <3>2
      <4> QED BY <1>2, <3>2, <4>1
    <3> QED BY <3>1, <3>2
  <2>2. h = Double(h)
    BY <2>1
  <2> QED BY <2>2
<1>4. Pow2 = Double(Pow2)
  <2>1. Pow2 = CHOOSE f : f = Double(f)
    BY DEF Pow2
  <2> HIDE DEF Double
  <2> QED BY <1>3, <2>1
<1>5. \A h \in 0..K : Pow2[h] = IF h = 0 THEN 1 ELSE 2 * Pow2[h - 1]
  BY <1>4
<1>6. Pow2[0] = 1
  BY <1>0, <1>5
<1> DEFINE T == {k \in 0..K : ~(Pow2[k] \in Nat /\ Pow2[k] > 0)}
<1>7. T = {}
  <2> SUFFICES ASSUME T # {}  PROVE FALSE
    OBVIOUS
  <2>1. T \subseteq Nat
    BY <1>0
  <2>2. PICK k \in T : \A u \in T : k <= u
    <3> HIDE DEF T
    <3> QED BY <2>1, LeastNat
  <2>3. k \in Int /\ 0 <= k /\ k <= K /\ ~(Pow2[k] \in Nat /\ Pow2[k] > 0)
    BY <1>0
  <2> HIDE DEF T
  <2>4. k # 0
    BY <1>6, <2>3
  <2>5. Pow2[k - 1] \in Nat /\ Pow2[k - 1] > 0
    <3>1. k - 1 \in 0..K /\ ~(k <= k - 1)
      BY <1>0, <2>3, <2>4
    <3>2. k - 1 \notin T
      BY <2>2, <3>1
    <3> QED BY <3>1, <3>2 DEF T
  <2>6. Pow2[k] = 2 * Pow2[k - 1]
    <3>1. k \in 0..K
      BY <1>0, <2>3
    <3> QED BY <1>5, <2>4, <3>1
  <2> QED BY <2>3, <2>5, <2>6
<1> QED BY <1>5, <1>6, <1>7

\* The leaves of the tree from left to right, at the distance of the lowest:
\* a leaf one level higher takes the place of two.
Place(n, i) == IF i < nodesAtMaxHeight(n) THEN i ELSE 2 * i - nodesAtMaxHeight(n)
Scale(n) == Pow2[K - MaxHeight(n)]

LEMMA IdIsPlace ==
    ASSUME NEW n \in Sizes
    PROVE  /\ nodesAtMaxHeight(n) \in Nat /\ Scale(n) \in Nat /\ Scale(n) # 0
           /\ \A i \in 0..(n - 1) : idArray[n][i] = Place(n, i) * Scale(n)
<1>0. K \in Nat /\ K - 1 \in 0..K /\ n \in Nat /\ n >= 2 /\ n <= Pow2[K - 1]
  BY TreeAssumption
<1>1. \E h \in 0..K : n <= Pow2[h] /\ (h = 0 \/ Pow2[h - 1] < n)
  <2> DEFINE T == {h \in 0..K : n <= Pow2[h]}
  <2>1. T \subseteq Nat /\ K - 1 \in T
    BY <1>0
  <2>2. PICK h \in T : \A u \in T : h <= u
    <3> HIDE DEF T
    <3> QED BY <2>1, LeastNat
  <2>3. h \in 0..K /\ n <= Pow2[h]
    OBVIOUS
  <2>4. CASE h # 0
    <3>1. h - 1 \in 0..K /\ ~(h <= h - 1)
      BY <1>0, <2>3, <2>4
    <3>2. h - 1 \notin T
      <4> HIDE DEF T
      <4> QED BY <2>2, <3>1
    <3>3. ~(n <= Pow2[h - 1]) /\ Pow2[h - 1] \in Int
      BY <3>1, <3>2, Pow2Facts
    <3>4. Pow2[h - 1] < n
      BY <1>0, <3>3
    <3> QED BY <2>3, <3>4
  <2> QED BY <2>3, <2>4
<1> DEFINE H == MaxHeight(n)
           A == nodesAtMaxHeight(n)
<1>2. H \in 0..K /\ n <= Pow2[H] /\ (H = 0 \/ Pow2[H - 1] < n)
  BY <1>1 DEF MaxHeight
<1>3. H # 0
  <2> SUFFICES ASSUME H = 0  PROVE FALSE
    OBVIOUS
  <2>1. n <= Pow2[0]
    BY <1>2, Zenon
  <2> QED BY <1>0, <2>1, Pow2Facts
<1>4. A = 2 * n - Pow2[H]
  BY DEF nodesAtMaxHeight
<1> HIDE DEF H, A
<1>5. H - 1 \in 0..K /\ K - H \in 0..K /\ K - (H - 1) \in 0..K /\ K - (H - 1) # 0
      /\ (K - (H - 1)) - 1 = K - H
  BY <1>0, <1>2, <1>3
<1>6. /\ Pow2[H] \in Nat /\ Pow2[H - 1] \in Nat /\ Pow2[H] = 2 * Pow2[H - 1]
      /\ Scale(n) \in Nat /\ Scale(n) # 0 /\ Pow2[K - (H - 1)] = 2 * Scale(n)
  <2>1. Scale(n) = Pow2[K - H]
    BY DEF Scale, H
  <2>2. Pow2[K - (H - 1)] = 2 * Pow2[(K - (H - 1)) - 1]
    BY <1>5, Pow2Facts
  <2>3. Pow2[K - (H - 1)] = 2 * Pow2[K - H]
    BY <1>5, <2>2
  <2>4. Pow2[H] \in Nat /\ Pow2[H - 1] \in Nat /\ Pow2[H] = 2 * Pow2[H - 1]
    BY <1>2, <1>3, <1>5, Pow2Facts
  <2>5. Pow2[K - H] \in Nat /\ Pow2[K - H] > 0
    BY <1>5, Pow2Facts
  <2> QED BY <2>1, <2>3, <2>4, <2>5
<1>7. A \in Nat
  <2>1. A = 2 * (n - Pow2[H - 1]) /\ Pow2[H - 1] < n
    BY <1>0, <1>2, <1>3, <1>4, <1>6
  <2> QED BY <1>0, <1>6, <2>1
<1>8. ASSUME NEW i \in 0..(n - 1)
      PROVE  idArray[n][i] = Place(n, i) * Scale(n)
  <2>0. i \in Int /\ idArray[n][i] = Pattern(n, i) * Pow2[K - Height(n, i)]
    BY DEF idArray
  <2>1. CASE i < A
    <3>1. Pattern(n, i) = i /\ Height(n, i) = H /\ Place(n, i) = i
      BY <2>1 DEF Pattern, Height, Place, A, H
    <3>2. Scale(n) = Pow2[K - H]
      BY DEF Scale, H
    <3> QED BY <2>0, <3>1, <3>2, Zenon
  <2>2. CASE ~(i < A)
    <3>1. /\ Pattern(n, i) = Pow2[H - 1] - (n - A) + (i - A) /\ Height(n, i) = H - 1
          /\ Place(n, i) = 2 * i - A
      BY <2>2 DEF Pattern, Height, Place, A, H
    <3>2. idArray[n][i] = (Pow2[H - 1] - (n - A) + (i - A)) * (2 * Scale(n))
      BY <1>6, <2>0, <3>1, Zenon
    <3>3. 2 * (Pow2[H - 1] - (n - A) + (i - A)) = 2 * i - A
      BY <1>0, <1>4, <1>6, <1>7, <2>0
    <3> DEFINE x == Pow2[H - 1] - (n - A) + (i - A)
               y == Scale(n)
    <3>4. x \in Int /\ y \in Int
      BY <1>0, <1>6, <1>7, <2>0
    <3>5. x * (2 * y) = (2 * x) * y
      <4> HIDE DEF x, y
      <4> QED BY <3>4
    <3> QED BY <3>1, <3>2, <3>3, <3>5, Zenon
  <2> QED BY <2>1, <2>2
<1> QED BY <1>6, <1>7, <1>8 DEF A

\* Ids are naturals, and no two peers have the same.
LEMMA IdsDistinct ==
    ASSUME NEW n \in Sizes
    PROVE  /\ \A i \in 0..(n - 1) : idArray[n][i] \in Nat
           /\ \A i, j \in 0..(n - 1) : idArray[n][i] = idArray[n][j] => i = j
<1> DEFINE A == nodesAtMaxHeight(n)
           u == Scale(n)
<1>1. A \in Nat /\ u \in Nat /\ u # 0 /\ \A i \in 0..(n - 1) : idArray[n][i] = Place(n, i) * u
  BY IdIsPlace
<1>2. \A i \in 0..(n - 1) : Place(n, i) = IF i < A THEN i ELSE 2 * i - A
  BY DEF Place
<1> HIDE DEF A, u
<1>3. \A i \in 0..(n - 1) : Place(n, i) \in Nat
  BY <1>1, <1>2
<1>4. \A i, j \in 0..(n - 1) : Place(n, i) = Place(n, j) => i = j
  <2> TAKE i, j \in 0..(n - 1)
  <2>1. i \in Int /\ j \in Int
    OBVIOUS
  <2> QED BY <1>1, <1>2, <2>1
<1>5. \A x, y \in Nat : x * u \in Nat /\ (x * u = y * u => x = y)
  BY <1>1
<1>6. ASSUME NEW i \in 0..(n - 1)
      PROVE  idArray[n][i] \in Nat
  BY <1>1, <1>3, <1>5
<1>7. ASSUME NEW i \in 0..(n - 1), NEW j \in 0..(n - 1), idArray[n][i] = idArray[n][j]
      PROVE  i = j
  <2>1. Place(n, i) * u = Place(n, j) * u
    BY <1>1, <1>7
  <2>2. Place(n, i) = Place(n, j)
    BY <1>3, <1>5, <2>1
  <2> QED BY <1>4, <2>2
<1> QED BY <1>6, <1>7

LEMMA FirstIsMember ==
    ASSUME config.n \in Sizes, NEW S \in SUBSET Peers, S # {}
    PROVE  FirstById(S) \in S
<1> DEFINE T == {Id(q) : q \in S}
<1>0. \A q \in S : Id(q) \in Nat
  BY IdsDistinct DEF Id, Peers
<1>1. T \subseteq Nat /\ T # {}
  BY <1>0
<1>2. PICK t \in T : \A u \in T : t <= u
  <2> HIDE DEF T
  <2> QED BY <1>1, LeastNat
<1>3. PICK q \in S : t = Id(q)
  OBVIOUS
<1>4. \A r \in S : Id(q) <= Id(r)
  BY <1>2, <1>3
<1>5. \E r \in S : \A u \in S : Id(r) <= Id(u)
  BY <1>4
<1> QED BY <1>5 DEF FirstById

-----------------------------------------------------------------------------
(* Routing: the next hop is a peer. *)

LEMMA LongestRange ==
    ASSUME NEW S, NEW t
    PROVE  /\ LongestMatch(S, t) \in 0..(K - 1)
           /\ LongestMatch(S, t) # 0 => \E q \in S : MatchTarget(t, q) = LongestMatch(S, t)
           /\ \A q \in S : MatchTarget(t, q) <= LongestMatch(S, t)
<1> DEFINE T == {0} \cup {MatchTarget(t, q) : q \in S}
<1>0. K - 1 \in Nat
  BY TreeAssumption
<1>1. T \subseteq 0..(K - 1) /\ T # {}
  BY <1>0, MatchRange DEF MatchTarget
<1>2. Max(T) \in T /\ \A u \in T : u <= Max(T)
  <2> HIDE DEF T
  <2> QED BY <1>0, <1>1, Extremes
<1>3. LongestMatch(S, t) = Max(T)
  BY DEF LongestMatch
<1> HIDE DEF T
<1>4. Max(T) \in 0..(K - 1)
  BY <1>1, <1>2
<1>5. Max(T) # 0 => \E q \in S : MatchTarget(t, q) = Max(T)
  BY <1>2 DEF T
<1>6. \A q \in S : MatchTarget(t, q) <= Max(T)
  BY <1>2 DEF T
<1> QED BY <1>3, <1>4, <1>5, <1>6

LEMMA BestHopIsPeer ==
    ASSUME config.n \in Sizes, NEW s, NEW t, s.rt \subseteq Peers, s.pc \subseteq Peers,
           s.cache \in Seq(Peers),
           LongestMatch(s.rt \cup s.pc \cup Cached(s.cache), t) # 0
    PROVE  BestHop(s, t) \in Peers
<1> DEFINE all == s.rt \cup s.pc \cup Cached(s.cache)
           M == LongestMatch(all, t)
           I == {i \in 1..Len(s.cache) : MatchTarget(t, s.cache[i]) = M}
<1>1. PICK q \in all : MatchTarget(t, q) = M
  BY LongestRange
<1>2. \A S : S \subseteq all /\ q \in S => LongestMatch(S, t) = M
  <2> TAKE S
  <2> HAVE S \subseteq all /\ q \in S
  <2> HIDE DEF all
  <2>1. LongestMatch(S, t) \in Int /\ M \in Int
    BY LongestRange, TreeAssumption
  <2>2. M <= LongestMatch(S, t)
    BY <1>1, LongestRange
  <2>3. LongestMatch(S, t) <= M
    <3>1. LongestMatch(S, t) # 0 => \E x \in all : MatchTarget(t, x) = LongestMatch(S, t)
      BY LongestRange
    <3>2. 0 <= M
      BY LongestRange, TreeAssumption
    <3>3. \A x \in all : MatchTarget(t, x) <= M
      BY LongestRange
    <3> QED BY <3>1, <3>2, <3>3
  <2> QED BY <2>1, <2>2, <2>3
<1>3. ASSUME NEW S \in SUBSET Peers, S \subseteq all, LongestMatch(S, t) = M
      PROVE  FirstById(Best(S, t)) \in Peers
  <2>1. \E x \in S : MatchTarget(t, x) = LongestMatch(S, t)
    <3>1. LongestMatch(S, t) # 0
      BY <1>3
    <3> QED BY <3>1, LongestRange
  <2>2. Best(S, t) \in SUBSET Peers /\ Best(S, t) # {}
    BY <2>1 DEF Best
  <2> QED BY <2>2, FirstIsMember
<1>4. CASE LongestMatch(s.rt, t) = M
  <2>1. FirstById(Best(s.rt, t)) \in Peers
    BY <1>3, <1>4
  <2> QED BY <1>4, <2>1 DEF BestHop
<1>5. CASE LongestMatch(s.rt, t) # M /\ LongestMatch(s.pc, t) = M
  <2>1. FirstById(Best(s.pc, t)) \in Peers
    BY <1>3, <1>5
  <2> QED BY <1>5, <2>1 DEF BestHop
<1>6. CASE LongestMatch(s.rt, t) # M /\ LongestMatch(s.pc, t) # M
  <2>1. q \notin s.rt /\ q \notin s.pc
    BY <1>2, <1>6
  <2>2. PICK i \in 1..Len(s.cache) : q = s.cache[i]
    BY <2>1 DEF Cached
  <2>3. Len(s.cache) \in Nat /\ i \in I /\ I \subseteq 0..Len(s.cache)
    BY <1>1, <2>2
  <2>4. Min(I) \in I
    <3> HIDE DEF I
    <3> QED BY <2>3, Extremes
  <2>5. s.cache[Min(I)] \in Peers
    BY <2>4, ElementOfSeq
  <2>6. BestHop(s, t) = s.cache[Min(I)]
    BY <1>6 DEF BestHop
  <2> QED BY <2>5, <2>6
<1> QED BY <1>4, <1>5, <1>6

-----------------------------------------------------------------------------
(* The cache of a peer holds overlay ids of peers, at most Capacity. *)

LEMMA TouchType ==
    ASSUME NEW Q, NEW s \in Seq(Q), NEW k
    PROVE  Touch(s, k) \in Seq(Q) /\ Len(Touch(s, k)) = Len(s)
<1>1. CASE k \notin Cached(s)
  BY <1>1 DEF Touch
<1>2. CASE k \in Cached(s)
  <2> DEFINE p == CHOOSE i \in 1..Len(s) : s[i] = k
             u == [i \in 1..Len(s) |-> IF i = 1 THEN k ELSE IF i <= p THEN s[i - 1] ELSE s[i]]
  <2>1. k \in Q
    BY <1>2, ElementOfSeq DEF Cached
  <2>2. \A i \in 1..Len(s) : u[i] \in Q
    <3> TAKE i \in 1..Len(s)
    <3>1. s[i] \in Q /\ (i # 1 => s[i - 1] \in Q)
      <4>1. i # 1 => i - 1 \in 1..Len(s)
        BY LenProperties
      <4> QED BY <4>1, ElementOfSeq
    <3> QED BY <2>1, <3>1
  <2>3. u \in [1..Len(s) -> Q] /\ Len(s) \in Nat
    BY <2>2, LenProperties
  <2>4. u \in Seq(Q) /\ Len(u) = Len(s)
    <3> HIDE DEF u
    <3> QED BY <2>3
  <2>5. Touch(s, k) = u
    BY <1>2 DEF Touch
  <2> QED BY <2>4, <2>5
<1> QED BY <1>1, <1>2

LEMMA CacheAddType ==
    ASSUME NEW Q, NEW s \in Seq(Q), Len(s) <= Capacity, NEW k, NEW declined \in BOOLEAN,
           ~declined => k \in Q
    PROVE  CacheAdd(s, k, declined) \in Seq(Q) /\ Len(CacheAdd(s, k, declined)) <= Capacity
<1>0. Capacity \in Nat /\ Capacity # 0 /\ Len(s) \in Nat
  BY CapacityAssumption, LenProperties
<1>1. Evict(s) \in Seq(Q) /\ (s # <<>> => Len(Evict(s)) = Len(s) - 1) /\ (s = <<>> => Evict(s) = s)
  <2>1. CASE s = <<>>
    BY <2>1 DEF Evict
  <2>2. CASE s # <<>>
    <3>1. Len(s) # 0
      BY <2>2, EmptySeq
    <3>2. \A i \in 1..(Len(s) - 1) : s[i] \in Q
      BY <1>0, ElementOfSeq
    <3> DEFINE m == Len(s) - 1
    <3>4. m \in Nat
      BY <1>0, <3>1
    <3>3. SubSeq(s, 1, m) \in Seq(Q) /\ Len(SubSeq(s, 1, m)) = m
      <4>1. \A i \in 1..m : s[i] \in Q
        BY <3>2
      <4> HIDE DEF m
      <4>2. SubSeq(s, 1, m) \in Seq(Q) /\ Len(SubSeq(s, 1, m)) = IF 1 <= m THEN m - 1 + 1 ELSE 0
        BY <3>4, <4>1, SubSeqProperties
      <4> QED BY <3>4, <4>2
    <3> QED BY <2>2, <3>3 DEF Evict
  <2> QED BY <2>1, <2>2
<1>2. ASSUME NEW c \in Seq(Q), Len(c) < Capacity
      PROVE  InsertNew(c, k, declined) \in Seq(Q) /\ Len(InsertNew(c, k, declined)) <= Capacity
  <2>0. Len(c) \in Nat
    BY LenProperties
  <2>1. CASE declined \/ k \in Cached(c)
    BY <1>0, <1>2, <2>0, <2>1 DEF InsertNew
  <2>2. CASE ~(declined \/ k \in Cached(c))
    <3>1. <<k>> \in Seq(Q) /\ Len(<<k>>) = 1
      BY <2>2
    <3>2. <<k>> \o c \in Seq(Q) /\ Len(<<k>> \o c) = 1 + Len(c)
      BY <3>1, ConcatProperties
    <3> QED BY <1>0, <1>2, <2>0, <2>2, <3>2 DEF InsertNew
  <2> QED BY <2>1, <2>2
<1>3. CASE Len(s) = Capacity /\ k \in Cached(s)
  <2>1. CacheAdd(s, k, declined) = Touch(s, k)
    BY <1>3 DEF CacheAdd
  <2> QED BY <1>0, <2>1, TouchType
<1>4. CASE Len(s) = Capacity /\ k \notin Cached(s)
  <2>1. s # <<>>
    BY <1>0, <1>4, EmptySeq
  <2>2. Len(Evict(s)) < Capacity
    BY <1>0, <1>1, <1>4, <2>1
  <2>3. CacheAdd(s, k, declined) = InsertNew(Evict(s), k, declined)
    BY <1>4 DEF CacheAdd
  <2> QED BY <1>1, <1>2, <2>2, <2>3
<1>5. CASE Len(s) # Capacity
  <2>1. CacheAdd(s, k, declined) = InsertNew(s, k, declined) /\ Len(s) < Capacity
    BY <1>0, <1>5 DEF CacheAdd
  <2> QED BY <1>2, <2>1
<1> QED BY <1>3, <1>4, <1>5

Refreshed(s, t, i, c) == IF i \in Hits(s, t) THEN Touch(c, s.cache[i]) ELSE c

\* A search changes the order of the cache only.
LEMMA AfterHitsCache ==
    ASSUME NEW Q, NEW s, NEW t, s.cache \in Seq(Q)
    PROVE  \E c \in Seq(Q) : Len(c) = Len(s.cache) /\ AfterHits(s, t) = [s EXCEPT !.cache = c]
<1> DEFINE N == Len(s.cache)
           Walk(f) == [i \in 0..N |-> IF i = 0 THEN s.cache ELSE Refreshed(s, t, i, f[i - 1])]
           f == CHOOSE g : g = Walk(g)
           Fits(c) == c \in Seq(Q) /\ Len(c) = N
           Built(k) == \E g : /\ DOMAIN g = 0..k /\ g[0] = s.cache
                              /\ \A i \in 1..k : g[i] = Refreshed(s, t, i, g[i - 1])
<1>0. N \in Nat
  BY LenProperties
<1>1. AfterHits(s, t) = [s EXCEPT !.cache = f[N]]
  BY DEF AfterHits, Refreshed
<1>2. ASSUME NEW c, Fits(c), NEW i
      PROVE  Fits(Refreshed(s, t, i, c))
  BY <1>2, TouchType DEF Refreshed
<1>3. Built(N)
  <2> DEFINE T == {k \in 0..N : ~Built(k)}
  <2>1. T = {}
    <3> SUFFICES ASSUME T # {}  PROVE FALSE
      OBVIOUS
    <3>1. T \subseteq Nat
      BY <1>0
    <3>2. PICK k \in T : \A u \in T : k <= u
      <4> HIDE DEF T
      <4> QED BY <3>1, LeastNat
    <3>3. k \in Int /\ 0 <= k /\ k <= N /\ ~Built(k)
      BY <1>0
    <3> HIDE DEF T
    <3>4. k # 0
      <4>1. Built(0)
        <5> DEFINE g == [i \in 0..0 |-> s.cache]
        <5>1. DOMAIN g = 0..0 /\ g[0] = s.cache /\ \A i \in 1..0 : g[i] = Refreshed(s, t, i, g[i - 1])
          OBVIOUS
        <5> HIDE DEF g
        <5> QED BY <5>1
      <4> HIDE DEF Built
      <4> QED BY <3>3, <4>1
    <3>5. Built(k - 1)
      <4> HIDE DEF Built
      <4>1. k - 1 \in 0..N /\ ~(k <= k - 1)
        BY <1>0, <3>3, <3>4
      <4>2. k - 1 \notin T
        BY <3>2, <4>1
      <4> QED BY <4>1, <4>2 DEF T
    <3>6. PICK g : /\ DOMAIN g = 0..(k - 1) /\ g[0] = s.cache
                   /\ \A i \in 1..(k - 1) : g[i] = Refreshed(s, t, i, g[i - 1])
      BY <3>5
    <3> DEFINE h == [i \in 0..k |-> IF i = k THEN Refreshed(s, t, k, g[k - 1]) ELSE g[i]]
    <3>7. DOMAIN h = 0..k /\ h[0] = s.cache
      BY <3>3, <3>4, <3>6
    <3>8. ASSUME NEW i \in 1..k
          PROVE  h[i] = Refreshed(s, t, i, h[i - 1])
      <4>1. i - 1 \in 0..k /\ i - 1 # k /\ i \in 0..k
        BY <3>3
      <4>2. h[i - 1] = g[i - 1]
        BY <4>1
      <4>3. CASE i = k
        BY <4>1, <4>2, <4>3
      <4>4. CASE i # k
        <5>1. i \in 1..(k - 1)
          BY <3>3, <4>4
        <5>2. h[i] = g[i]
          BY <4>1, <4>4
        <5> HIDE DEF h
        <5> QED BY <3>6, <4>2, <5>1, <5>2
      <4> QED BY <4>3, <4>4
    <3>9. Built(k)
      <4> HIDE DEF h
      <4> QED BY <3>7, <3>8
    <3> QED BY <3>3, <3>9
  <2> HIDE DEF Built
  <2> QED BY <1>0, <2>1
<1>4. PICK g : /\ DOMAIN g = 0..N /\ g[0] = s.cache
               /\ \A i \in 1..N : g[i] = Refreshed(s, t, i, g[i - 1])
  BY <1>3
<1>5. \E x : x = Walk(x)
  <2> DEFINE h == [i \in 0..N |-> g[i]]
  <2>1. ASSUME NEW i \in 0..N
        PROVE  h[i] = IF i = 0 THEN s.cache ELSE Refreshed(s, t, i, h[i - 1])
    <3>1. CASE i = 0
      BY <1>4, <3>1
    <3>2. CASE i # 0
      <4>1. i \in 1..N /\ i - 1 \in 0..N
        BY <1>0, <3>2
      <4> QED BY <1>4, <3>2, <4>1
    <3> QED BY <3>1, <3>2
  <2>2. h = Walk(h)
    BY <2>1
  <2> QED BY <2>2
<1>6. f = Walk(f)
  <2> HIDE DEF Walk
  <2> QED BY <1>5
<1> HIDE DEF f
<1>7. f[0] = s.cache /\ \A i \in 1..N : f[i] = Refreshed(s, t, i, f[i - 1])
  <2>1. \A i \in 0..N : f[i] = IF i = 0 THEN s.cache ELSE Refreshed(s, t, i, f[i - 1])
    BY <1>6
  <2>2. 0 \in 0..N /\ \A i \in 1..N : i \in 0..N /\ i # 0
    BY <1>0
  <2> QED BY <2>1, <2>2
<1>8. \A i \in 0..N : Fits(f[i])
  <2> DEFINE T == {k \in 0..N : ~Fits(f[k])}
  <2> SUFFICES ASSUME T # {}  PROVE FALSE
    OBVIOUS
  <2>1. T \subseteq Nat
    BY <1>0
  <2>2. PICK k \in T : \A u \in T : k <= u
    <3> HIDE DEF T
    <3> QED BY <2>1, LeastNat
  <2>3. k \in Int /\ 0 <= k /\ k <= N /\ ~Fits(f[k])
    BY <1>0
  <2> HIDE DEF T
  <2>4. k # 0
    BY <1>7, <2>3
  <2>5. Fits(f[k - 1])
    <3> HIDE DEF Fits
    <3>1. k - 1 \in 0..N /\ ~(k <= k - 1)
      BY <1>0, <2>3, <2>4
    <3>2. k - 1 \notin T
      BY <2>2, <3>1
    <3> QED BY <3>1, <3>2 DEF T
  <2>6. f[k] = Refreshed(s, t, k, f[k - 1])
    <3>1. k \in 1..N
      BY <1>0, <2>3, <2>4
    <3> QED BY <1>7, <3>1
  <2> HIDE DEF Fits
  <2> QED BY <1>2, <2>3, <2>5, <2>6
<1>9. Fits(f[N])
  BY <1>0, <1>8
<1> QED BY <1>1, <1>9

-----------------------------------------------------------------------------
(* What the handlers leave alone, and what they send and log. *)

\* A handler leaves these to the other threads of the peer.
Untouched(s, t) ==
    /\ t.incoming = s.incoming /\ t.listener = s.listener
    /\ t.received_before_init = s.received_before_init /\ t.pending = s.pending
    /\ t.seq = s.seq /\ t.published = s.published /\ t.looked_up = s.looked_up
    /\ t.unresolved = s.unresolved /\ t.initiated = s.initiated
    /\ s.init => t.init

\* What a peer knows of the others.
Known(s, t) == t.init = s.init /\ t.rt = s.rt /\ t.pc = s.pc

LEMMA ConfigFacts ==
    ASSUME config \in Scenarios
    PROVE  /\ config \in ScenarioType /\ config.n \in Sizes /\ config.n \in Nat /\ config.n >= 2
           /\ Peers \subseteq Nat /\ 0 \in Peers /\ Client \notin Peers /\ None \notin Peers
           /\ Capacity \in Nat /\ K \in Nat
<1>1. config \in ScenarioType
  BY NetworkAssumption
<1>2. config.n \in Sizes
  BY <1>1 DEF ScenarioType
<1>3. config.n \in Nat /\ config.n >= 2
  BY <1>2, TreeAssumption
<1> QED BY <1>1, <1>2, <1>3, TreeAssumption, CapacityAssumption DEF Peers, Client, None

LEMMA RtFacts ==
    ASSUME config \in Scenarios, NEW p \in Peers
    PROVE  RtOf(p) \subseteq Peers /\ p \notin RtOf(p)
<1>1. config.n \in Sizes /\ p \in 0..(config.n - 1)
  BY ConfigFacts DEF Peers
<1> QED BY <1>1, RoutingTableRange DEF RtOf, Peers

LEMMA KnownPeers ==
    ASSUME config \in Scenarios, NEW p \in Peers, NEW s \in State(p)
    PROVE  s.rt \subseteq Peers /\ s.pc \subseteq Peers \ {p}
<1>1. s.rt \in {{}, RtOf(p)} /\ s.pc \subseteq Heard(p) \ ({p} \cup RtOf(p))
  BY DEF State
<1> QED BY <1>1, RtFacts DEF Heard

LEMMA SetCache ==
    ASSUME NEW p, NEW s \in State(p), NEW c \in Seq(Peers \ {p}), NEW t,
           t = [s EXCEPT !.cache = c]
    PROVE  /\ t \in State(p) /\ t.cache = c /\ Untouched(s, t)
           /\ t.outgoing = s.outgoing /\ t.log = s.log /\ t.count = s.count
           /\ Known(s, t) /\ t.index = s.index
BY DEF State, Untouched, Known

LEMMA SetOutgoing ==
    ASSUME NEW p, NEW s \in State(p), NEW q \in Seq(Letters), NEW t,
           t = [s EXCEPT !.outgoing = q]
    PROVE  /\ t \in State(p) /\ t.outgoing = q /\ Untouched(s, t)
           /\ t.cache = s.cache /\ t.log = s.log /\ t.count = s.count
           /\ Known(s, t) /\ t.index = s.index
BY DEF State, Untouched, Known

LEMMA SetLog ==
    ASSUME NEW p, NEW s \in State(p), NEW q \in Seq(OwnEntries(p)), NEW t,
           t = [s EXCEPT !.log = q]
    PROVE  /\ t \in State(p) /\ t.log = q /\ Untouched(s, t)
           /\ t.cache = s.cache /\ t.outgoing = s.outgoing /\ t.count = s.count
           /\ Known(s, t) /\ t.index = s.index
BY DEF State, Untouched, Known

-----------------------------------------------------------------------------
(* Counting in the queues. *)

LEMMA NumIsNat ==
    ASSUME NEW Q, NEW s \in Seq(Q), NEW S
    PROVE  NumIn(s, S) \in Nat /\ IsFiniteSet({i \in 1..Len(s) : s[i] \in S})
<1>1. Len(s) \in Int
  BY LenProperties
<1>2. IsFiniteSet(1..Len(s))
  BY <1>1, FS_Interval
<1>3. IsFiniteSet({i \in 1..Len(s) : s[i] \in S})
  BY <1>2, FS_Subset
<1> QED BY <1>3, FS_CardinalityType DEF NumIn

LEMMA NumNone ==
    ASSUME NEW Q, NEW s \in Seq(Q), NEW S, \A i \in 1..Len(s) : s[i] \notin S
    PROVE  NumIn(s, S) = 0
<1>1. {i \in 1..Len(s) : s[i] \in S} = {}
  OBVIOUS
<1> QED BY <1>1, FS_EmptySet DEF NumIn

LEMMA NumZero ==
    ASSUME NEW Q, NEW s \in Seq(Q), NEW S, NumIn(s, S) = 0, NEW i \in 1..Len(s)
    PROVE  s[i] \notin S
<1> DEFINE T == {j \in 1..Len(s) : s[j] \in S}
<1>1. IsFiniteSet(T) /\ Cardinality(T) = 0
  BY NumIsNat DEF NumIn
<1>2. T = {}
  <2> HIDE DEF T
  <2> QED BY <1>1, FS_EmptySet
<1> QED BY <1>2

LEMMA NumEmpty ==
    ASSUME NEW S
    PROVE  NumIn(<<>>, S) = 0
<1>1. <<>> \in Seq(S) /\ \A i \in 1..Len(<<>>) : <<>>[i] \notin S
  OBVIOUS
<1> QED BY <1>1, NumNone

LEMMA NumOne ==
    ASSUME NEW e, NEW S
    PROVE  NumIn(<<e>>, S) = IF e \in S THEN 1 ELSE 0
<1>1. Len(<<e>>) = 1 /\ <<e>>[1] = e /\ 1..1 = {1} /\ <<e>> \in Seq({e})
  OBVIOUS
<1>2. CASE e \in S
  <2>1. {i \in 1..Len(<<e>>) : <<e>>[i] \in S} = {1}
    BY <1>1, <1>2
  <2> QED BY <1>2, <2>1, FS_Singleton DEF NumIn
<1>3. CASE e \notin S
  <2>1. \A i \in 1..Len(<<e>>) : <<e>>[i] \notin S
    BY <1>1, <1>3
  <2> QED BY <1>1, <1>3, <2>1, NumNone
<1> QED BY <1>2, <1>3

LEMMA NumConcat ==
    ASSUME NEW Q, NEW a \in Seq(Q), NEW b \in Seq(Q), NEW S
    PROVE  NumIn(a \o b, S) = NumIn(a, S) + NumIn(b, S)
<1> DEFINE A == {i \in 1..Len(a) : a[i] \in S}
           B == {i \in 1..Len(b) : b[i] \in S}
           n == Len(a)
           shift == [i \in B |-> n + i]
           C == {n + i : i \in B}
<1>0. n \in Nat /\ Len(b) \in Nat
  BY LenProperties
<1>1. IsFiniteSet(A) /\ IsFiniteSet(B)
  BY NumIsNat
<1>2. IsFiniteSet(C) /\ Cardinality(C) = Cardinality(B)
  <2>1. shift \in [B -> C]
    OBVIOUS
  <2>2. \A i, j \in B : shift[i] = shift[j] => i = j
    BY <1>0
  <2>3. \A c \in C : \E i \in B : shift[i] = c
    OBVIOUS
  <2>4. shift \in Bijection(B, C)
    <3> HIDE DEF shift, B, C
    <3> QED BY <2>1, <2>2, <2>3 DEF Bijection, Injection, Surjection, IsInjective
  <2>5. ExistsBijection(B, C)
    BY <2>4 DEF ExistsBijection
  <2> HIDE DEF B, C
  <2> QED BY <1>1, <2>5, FS_Bijection
<1>3. A \cap C = {}
  BY <1>0
<1>4. {i \in 1..Len(a \o b) : (a \o b)[i] \in S} = A \cup C
  <2>1. Len(a \o b) = n + Len(b)
    BY ConcatProperties
  <2>2. \A i \in 1..(n + Len(b)) : (a \o b)[i] = IF i <= Len(a) THEN a[i] ELSE b[i - Len(a)]
    BY ConcatProperties
  <2>3. ASSUME NEW i \in 1..(n + Len(b))
        PROVE  (a \o b)[i] \in S <=> i \in A \cup C
    <3>1. CASE i <= n
      <4>1. i \in 1..n /\ i \notin C
        BY <1>0, <3>1
      <4>2. (a \o b)[i] = a[i]
        BY <2>2, <3>1
      <4> HIDE DEF C
      <4> QED BY <4>1, <4>2
    <3>2. CASE ~(i <= n)
      <4>1. i - n \in 1..Len(b) /\ i \notin A /\ i = n + (i - n)
        BY <1>0, <3>2
      <4>2. (a \o b)[i] = b[i - n]
        BY <2>2, <3>2
      <4>3. ASSUME i \in C  PROVE i - n \in B
        <5>1. PICK j \in B : i = n + j
          BY <4>3
        <5>2. j = i - n
          BY <1>0, <5>1
        <5> QED BY <5>2
      <4>4. ASSUME i - n \in B  PROVE i \in C
        BY <4>1, <4>4
      <4>5. i - n \in B <=> b[i - n] \in S
        BY <4>1
      <4> HIDE DEF A, B, C
      <4> QED BY <4>1, <4>2, <4>3, <4>4, <4>5
    <3> QED BY <3>1, <3>2
  <2>4. A \cup C \subseteq 1..(n + Len(b))
    BY <1>0
  <2> HIDE DEF A, C
  <2> QED BY <2>1, <2>3, <2>4
<1>5. Cardinality(A \cup C) = Cardinality(A) + Cardinality(C)
  <2> HIDE DEF A, C
  <2>1. Cardinality(A \cup C) = Cardinality(A) + Cardinality(C) - Cardinality({})
    BY <1>1, <1>2, <1>3, FS_Union
  <2>2. Cardinality({}) = 0 /\ Cardinality(A) \in Nat /\ Cardinality(C) \in Nat
    BY <1>1, <1>2, FS_EmptySet, FS_CardinalityType
  <2> QED BY <2>1, <2>2
<1> QED BY <1>2, <1>4, <1>5 DEF NumIn

LEMMA NumHeadTail ==
    ASSUME NEW Q, NEW s \in Seq(Q), s # <<>>, NEW S
    PROVE  /\ Head(s) \in Q /\ Tail(s) \in Seq(Q)
           /\ NumIn(s, S) = NumIn(Tail(s), S) + IF Head(s) \in S THEN 1 ELSE 0
<1>1. Head(s) \in Q /\ Tail(s) \in Seq(Q) /\ <<Head(s)>> \in Seq(Q)
  BY HeadTailProperties
<1>2. s = <<Head(s)>> \o Tail(s)
  <2>1. Len(s) \in Nat /\ Len(s) # 0
    BY EmptySeq
  <2>2. Len(Tail(s)) = Len(s) - 1 /\ \A i \in 1..(Len(s) - 1) : Tail(s)[i] = s[i + 1]
    BY HeadTailProperties, <2>1
  <2>3. Len(<<Head(s)>>) = 1 /\ <<Head(s)>>[1] = s[1]
    OBVIOUS
  <2> DEFINE c == <<Head(s)>> \o Tail(s)
  <2>4. c \in Seq(Q) /\ Len(c) = Len(s)
    BY <1>1, <2>1, <2>2, <2>3, ConcatProperties
  <2>5. ASSUME NEW i \in 1..Len(s)
        PROVE  s[i] = c[i]
    <3>1. c[i] = IF i <= Len(<<Head(s)>>) THEN <<Head(s)>>[i] ELSE Tail(s)[i - Len(<<Head(s)>>)]
      <4>1. i \in 1..(Len(<<Head(s)>>) + Len(Tail(s)))
        BY <2>1, <2>2, <2>3
      <4> QED BY <1>1, <4>1, ConcatProperties
    <3> HIDE DEF c
    <3>2. CASE i = 1
      BY <2>3, <3>1, <3>2
    <3>3. CASE i # 1
      <4>1. i - 1 \in 1..(Len(s) - 1) /\ (i - 1) + 1 = i
        BY <2>1, <3>3
      <4>2. Tail(s)[i - 1] = s[i]
        BY <2>2, <4>1
      <4> QED BY <2>3, <3>1, <3>3, <4>2
    <3> QED BY <3>2, <3>3
  <2> HIDE DEF c
  <2>6. s = c
    BY <2>4, <2>5, SeqEqual
  <2> QED BY <2>6 DEF c
<1>3. NumIn(<<Head(s)>> \o Tail(s), S) = NumIn(<<Head(s)>>, S) + NumIn(Tail(s), S)
  BY <1>1, NumConcat
<1>4. NumIn(<<Head(s)>>, S) = (IF Head(s) \in S THEN 1 ELSE 0) /\ NumIn(Tail(s), S) \in Nat
  BY <1>1, NumOne, NumIsNat
<1>5. NumIn(s, S) = NumIn(<<Head(s)>>, S) + NumIn(Tail(s), S)
  BY <1>2, <1>3, Zenon
<1>6. NumIn(s, S) = NumIn(Tail(s), S) + IF Head(s) \in S THEN 1 ELSE 0
  BY <1>4, <1>5
<1> QED BY <1>1, <1>6

-----------------------------------------------------------------------------
(* The neighbours of a peer in the order of their ids. *)

Below(R, q) == {r \in R : Id(r) < Id(q)}
Neighbour(R, i) == CHOOSE q \in R : Cardinality(Below(R, q)) = i - 1

\* Each neighbour has a place in that order, and each place a neighbour.
LEMMA NeighboursListed ==
    ASSUME config.n \in Sizes, NEW R \in SUBSET Peers
    PROVE  /\ IsFiniteSet(R) /\ Cardinality(R) \in Nat
           /\ \A i \in 1..Cardinality(R) : Neighbour(R, i) \in R
           /\ \A q \in R : \E i \in 1..Cardinality(R) : Neighbour(R, i) = q
<1> DEFINE rank == [q \in R |-> Cardinality(Below(R, q))]
           ranks == {rank[q] : q \in R}
           N == Cardinality(R)
<1>0. \A q \in R : Id(q) \in Nat
  BY IdsDistinct DEF Id, Peers
<1>1. \A q, r \in R : Id(q) = Id(r) => q = r
  BY IdsDistinct DEF Id, Peers
<1>2. IsFiniteSet(R) /\ N \in Nat
  <2>1. config.n \in Int
    BY TreeAssumption
  <2>2. IsFiniteSet(Peers)
    BY <2>1, FS_Interval DEF Peers
  <2> QED BY <2>2, FS_Subset, FS_CardinalityType
<1>3. ASSUME NEW q \in R
      PROVE  IsFiniteSet(Below(R, q)) /\ rank[q] \in 0..(N - 1)
  <2>1. IsFiniteSet(Below(R, q)) /\ Cardinality(Below(R, q)) <= N /\ (N = Cardinality(Below(R, q)) => R = Below(R, q))
    <3>1. Below(R, q) \in SUBSET R
      BY DEF Below
    <3> QED BY <1>2, <3>1, FS_Subset
  <2>2. q \notin Below(R, q)
    BY <1>0 DEF Below
  <2>3. Cardinality(Below(R, q)) \in Nat
    BY <2>1, FS_CardinalityType
  <2> QED BY <1>2, <2>1, <2>2, <2>3
<1>4. ASSUME NEW q \in R, NEW r \in R, Id(q) < Id(r)
      PROVE  rank[q] < rank[r]
  <2>1. Below(R, q) \subseteq Below(R, r) /\ q \in Below(R, r) /\ q \notin Below(R, q)
    <3>1. \A x \in R : Id(x) \in Int
      BY <1>0
    <3> QED BY <1>4, <3>1 DEF Below
  <2>2. Cardinality(Below(R, q)) <= Cardinality(Below(R, r))
        /\ (Cardinality(Below(R, r)) = Cardinality(Below(R, q)) => Below(R, r) = Below(R, q))
    BY <1>3, <2>1, FS_Subset
  <2>3. rank[q] \in Int /\ rank[r] \in Int
    BY <1>3
  <2>4. Cardinality(Below(R, q)) = rank[q] /\ Cardinality(Below(R, r)) = rank[r]
    OBVIOUS
  <2> HIDE DEF rank
  <2> QED BY <2>1, <2>2, <2>3, <2>4
<1>5. \A q, r \in R : rank[q] = rank[r] => q = r
  <2> TAKE q, r \in R
  <2>1. Id(q) \in Int /\ Id(r) \in Int /\ rank[q] \in Int /\ rank[r] \in Int
    BY <1>0, <1>3
  <2> HIDE DEF rank
  <2> QED BY <1>1, <1>4, <2>1
<1>6. ranks = 0..(N - 1)
  <2>1. rank \in Bijection(R, ranks)
    <3>1. rank \in [R -> ranks] /\ \A x \in ranks : \E q \in R : rank[q] = x
      OBVIOUS
    <3> HIDE DEF rank, ranks
    <3> QED BY <1>5, <3>1 DEF Bijection, Injection, Surjection, IsInjective
  <2>2. IsFiniteSet(ranks) /\ Cardinality(ranks) = N
    <3>1. ExistsBijection(R, ranks)
      BY <2>1 DEF ExistsBijection
    <3> HIDE DEF ranks
    <3> QED BY <1>2, <3>1, FS_Bijection
  <2>3. IsFiniteSet(0..(N - 1)) /\ Cardinality(0..(N - 1)) = N
    BY <1>2, FS_Interval
  <2>4. ranks \in SUBSET (0..(N - 1))
    BY <1>3
  <2> HIDE DEF ranks
  <2> QED BY <2>2, <2>3, <2>4, FS_Subset
<1>7. ASSUME NEW i \in 1..N
      PROVE  Neighbour(R, i) \in R /\ rank[Neighbour(R, i)] = i - 1
  <2>1. i - 1 \in ranks
    <3>1. i - 1 \in 0..(N - 1)
      BY <1>2
    <3> QED BY <1>6, <3>1
  <2>2. \E q \in R : Cardinality(Below(R, q)) = i - 1
    BY <2>1
  <2>3. Neighbour(R, i) \in R /\ Cardinality(Below(R, Neighbour(R, i))) = i - 1
    BY <2>2 DEF Neighbour
  <2> QED BY <2>3
<1>8. ASSUME NEW q \in R
      PROVE  \E i \in 1..N : Neighbour(R, i) = q
  <2> DEFINE i == rank[q] + 1
  <2>1. i \in 1..N /\ i - 1 = rank[q]
    BY <1>2, <1>3
  <2>2. Neighbour(R, i) \in R /\ rank[Neighbour(R, i)] = rank[q]
    <3> HIDE DEF rank
    <3> QED BY <1>7, <2>1
  <2>3. Neighbour(R, i) = q
    <3> HIDE DEF rank, i
    <3> QED BY <1>5, <2>2
  <2> QED BY <2>1, <2>3
<1> HIDE DEF rank
<1> QED BY <1>2, <1>7, <1>8

-----------------------------------------------------------------------------
(* The handlers. *)

\* What is sent and logged when m is handled carries the request of m once.
Carries(a, b, r, m) ==
    NumIn(a, OfRequest(r)) + NumIn(b, EntriesOf(r)) = IF m.req = r THEN 1 ELSE 0

\* A message that is counted is processed or sent on.
Accounted(s, t, a, m, op) ==
    /\ t.count[op].processed + NumIn(a, OfType(op)) =
          s.count[op].processed + IF m.type = op THEN 1 ELSE 0
    /\ t.count[op].generated = s.count[op].generated
    /\ t.count[op].received = s.count[op].received
    /\ t.count[op].forwarded = s.count[op].forwarded
    /\ t.count[op].dropped = s.count[op].dropped

\* The announcements that handling m sends, and what it teaches the peer.
NoticesFor(s, p, m) ==
    IF config.type # "proactive" THEN {}
    ELSE IF m.type = "INIT" THEN {Notice(p, q, CacheMeTtl) : q \in RtOf(p)}
    ELSE IF m.type = "CACHE_ME" /\ m.ttl > 0 THEN {Notice(m.src, q, m.ttl) : q \in s.rt}
    ELSE {}
Notices == {m \in Letters : m.type = "CACHE_ME"}
Announces(s, p, m, a) ==
    \A o \in Notices : (\E i \in 1..Len(a) : a[i] = o) <=> o \in NoticesFor(s, p, m)

Learns(s, p, m, t) ==
    /\ t.init <=> s.init \/ m.type = "INIT"
    /\ t.rt = IF m.type = "INIT" THEN RtOf(p) ELSE s.rt
    /\ t.pc = IF m.type = "CACHE_ME" /\ config.type = "proactive"
              THEN s.pc \cup ({m.src} \ ({p} \cup s.rt)) ELSE s.pc

Effect(s, p, m, t) == \E a \in Seq(Letters), b \in Seq(OwnEntries(p)) :
    /\ t.outgoing = s.outgoing \o a /\ t.log = s.log \o b
    /\ \A r \in Requests : Carries(a, b, r, m)
    /\ \A op \in Counted : Accounted(s, t, a, m, op)
    /\ Announces(s, p, m, a) /\ Outward(a)

WellHandled(s, p, m, t) ==
    /\ t \in State(p) /\ Len(t.cache) <= Capacity /\ Untouched(s, t)
    /\ Learns(s, p, m, t) /\ Effect(s, p, m, t)

LEMMA NoRequest ==
    ASSUME config \in Scenarios
    PROVE  NoReq \notin Requests
<1>1. None \notin Peers
  BY ConfigFacts
<1> QED BY <1>1 DEF NoReq, Requests

\* The three ways: one message is sent on or answered, a reply is logged, or
\* only announcements leave.
LEMMA EffectSend ==
    ASSUME config \in Scenarios, NEW p \in Peers, NEW s \in State(p), NEW t \in State(p),
           NEW m, NEW o \in Letters, o.req = m.req,
           o.type \in Routed, m.type \notin {"INIT", "CACHE_ME"},
           t.outgoing = Append(s.outgoing, o), t.log = s.log,
           \A op \in Counted : Accounted(s, t, <<o>>, m, op)
    PROVE  Effect(s, p, m, t)
<1>1. s.outgoing \in Seq(Letters) /\ s.log \in Seq(OwnEntries(p))
  BY DEF State
<1>2. <<o>> \in Seq(Letters) /\ t.outgoing = s.outgoing \o <<o>>
  BY <1>1, AppendIsConcat
<1>3. <<>> \in Seq(OwnEntries(p)) /\ t.log = s.log \o <<>>
  BY <1>1, ConcatEmptySeq
<1>4. ASSUME NEW r \in Requests
      PROVE  Carries(<<o>>, <<>>, r, m)
  <2>1. NumIn(<<o>>, OfRequest(r)) = IF m.req = r THEN 1 ELSE 0
    BY NumOne DEF OfRequest
  <2>2. NumIn(<<>>, EntriesOf(r)) = 0
    BY NumEmpty
  <2> QED BY <2>1, <2>2 DEF Carries
<1>5. Announces(s, p, m, <<o>>)
  <2>1. \A i \in 1..Len(<<o>>) : <<o>>[i] = o
    OBVIOUS
  <2> QED BY <2>1 DEF Announces, NoticesFor, Notices, Routed
<1>6. Outward(<<o>>)
  <2>1. \A i \in 1..Len(<<o>>) : <<o>>[i] = o
    OBVIOUS
  <2> QED BY <2>1 DEF Outward
<1> QED BY <1>2, <1>3, <1>4, <1>5, <1>6 DEF Effect

LEMMA EffectLog ==
    ASSUME config \in Scenarios, NEW p \in Peers, NEW s \in State(p), NEW t \in State(p),
           NEW m, NEW e \in OwnEntries(p), e.req = m.req, m.type \notin Counted \cup {"INIT", "CACHE_ME"},
           t.outgoing = s.outgoing, t.log = Append(s.log, e), t.count = s.count
    PROVE  Effect(s, p, m, t)
<1>1. s.outgoing \in Seq(Letters) /\ s.log \in Seq(OwnEntries(p)) /\ s.count \in [Counted -> Counters]
  BY DEF State
<1>2. <<e>> \in Seq(OwnEntries(p)) /\ t.log = s.log \o <<e>>
  BY <1>1, AppendIsConcat
<1>3. <<>> \in Seq(Letters) /\ t.outgoing = s.outgoing \o <<>>
  BY <1>1, ConcatEmptySeq
<1>4. ASSUME NEW r \in Requests
      PROVE  Carries(<<>>, <<e>>, r, m)
  <2>1. NumIn(<<e>>, EntriesOf(r)) = IF m.req = r THEN 1 ELSE 0
    BY NumOne DEF EntriesOf, OwnEntries
  <2>2. NumIn(<<>>, OfRequest(r)) = 0
    BY NumEmpty
  <2> QED BY <2>1, <2>2 DEF Carries
<1>5. ASSUME NEW op \in Counted
      PROVE  Accounted(s, t, <<>>, m, op)
  <2>1. NumIn(<<>>, OfType(op)) = 0 /\ m.type # op /\ t.count[op].processed \in Nat
    BY <1>1, NumEmpty DEF Counters
  <2> QED BY <2>1 DEF Accounted
<1>6. Announces(s, p, m, <<>>)
  <2>1. \A i \in 1..Len(<<>>) : FALSE
    OBVIOUS
  <2> QED BY <2>1 DEF Announces, NoticesFor
<1>7. Outward(<<>>)
  BY DEF Outward
<1> QED BY <1>2, <1>3, <1>4, <1>5, <1>6, <1>7 DEF Effect

\* Messages and entries that belong to no request.
Idle(a) == \A i \in 1..Len(a) : a[i].req = NoReq

LEMMA EffectNone ==
    ASSUME config \in Scenarios, NEW p \in Peers, NEW s \in State(p), NEW t \in State(p),
           NEW m, m.req = NoReq, m.type \notin Counted,
           NEW a \in Seq(Notices), NEW b \in Seq(OwnEntries(p)), Idle(b), Announces(s, p, m, a),
           t.outgoing = s.outgoing \o a, t.log = s.log \o b, t.count = s.count
    PROVE  Effect(s, p, m, t)
<1>1. s.count \in [Counted -> Counters]
  BY DEF State
<1>2. a \in Seq(Letters) /\ \A i \in 1..Len(a) : a[i].type = "CACHE_ME" /\ a[i].req = NoReq
  <2>1. Notices \subseteq Letters /\ \A x \in Notices : x.type = "CACHE_ME" /\ x.req = NoReq
    BY DEF Notices, Letters, Due, Sensible, Routed
  <2>2. \A i \in 1..Len(a) : a[i] \in Notices
    BY ElementOfSeq
  <2> QED BY <2>1, <2>2, SeqMonotonic
<1>3. ASSUME NEW r \in Requests
      PROVE  Carries(a, b, r, m)
  <2>1. r # NoReq
    BY NoRequest
  <2>2. NumIn(a, OfRequest(r)) = 0
    <3>1. \A i \in 1..Len(a) : a[i] \notin OfRequest(r)
      BY <1>2, <2>1 DEF OfRequest
    <3> QED BY <3>1, NumNone
  <2>3. NumIn(b, EntriesOf(r)) = 0
    <3>1. \A i \in 1..Len(b) : b[i] \notin EntriesOf(r)
      BY <2>1 DEF EntriesOf, Idle
    <3> QED BY <3>1, NumNone
  <2> QED BY <2>1, <2>2, <2>3 DEF Carries
<1>4. ASSUME NEW op \in Counted
      PROVE  Accounted(s, t, a, m, op)
  <2>1. NumIn(a, OfType(op)) = 0
    <3>1. \A i \in 1..Len(a) : a[i] \notin OfType(op)
      BY <1>2 DEF OfType, Types, Counted
    <3> QED BY <1>2, <3>1, NumNone
  <2>2. m.type # op /\ t.count[op].processed \in Nat
    BY <1>1 DEF Counters
  <2> QED BY <2>1, <2>2 DEF Accounted
<1>5. Outward(a)
  BY <1>2 DEF Outward
<1> QED BY <1>2, <1>3, <1>4, <1>5 DEF Effect

\* A search keeps everything but the order of the cache.
Searched(s, p, t) ==
    /\ t \in State(p) /\ (Len(s.cache) <= Capacity => Len(t.cache) <= Capacity) /\ Untouched(s, t)
    /\ t.outgoing = s.outgoing /\ t.log = s.log /\ t.count = s.count
    /\ Known(s, t) /\ t.index = s.index

LEMMA SearchedItself ==
    ASSUME NEW p, NEW s \in State(p)
    PROVE  Searched(s, p, s)
BY DEF Searched, Untouched, Known

LEMMA RoutingKeeps ==
    ASSUME NEW p, NEW s \in State(p), NEW m
    PROVE  Searched(s, p, Routing(s, m))
<1> DEFINE Q == Peers \ {p}
<1>1. s.cache \in Seq(Q)
  BY DEF State
<1>2. PICK c \in Seq(Q) :
         Len(c) = Len(s.cache) /\ AfterHits(s, m.target) = [s EXCEPT !.cache = c]
  <2> DEFINE x == m.target
  <2> HIDE DEF Q, x
  <2>1. \E c \in Seq(Q) : Len(c) = Len(s.cache) /\ AfterHits(s, x) = [s EXCEPT !.cache = c]
    BY <1>1, AfterHitsCache
  <2> QED BY <2>1 DEF x
<1>3. Searched(s, p, AfterHits(s, m.target))
  BY <1>2, SetCache DEF Searched
<1>4. Searched(s, p, s)
  BY SearchedItself
<1> QED BY <1>3, <1>4 DEF Routing

\* A message that is passed on stays what it was and has a peer to go to.
LEMMA NextHopIsLetter ==
    ASSUME config \in Scenarios, NEW p \in Peers, NEW s \in State(p), NEW g,
           NEW m \in AnyMessage, Sensible(m), m.ttl \in 0..DefaultTtl, Forwards(s, p, m, g)
    PROVE  /\ setNextHop(s, p, m, g) \in Letters
           /\ setNextHop(s, p, m, g).req = m.req /\ setNextHop(s, p, m, g).type = m.type
<1> DEFINE q == BestHop(s, m.target)
           n == [m EXCEPT !.dest = q]
           o == [n EXCEPT !.dst = q]
<1>1. /\ LongestMatch(s.rt \cup s.pc \cup Cached(s.cache), m.target) # 0
      /\ m.ttl # 0 /\ ~(config.storage = "end_point" /\ Reply(m))
  BY DEF Forwards, Searches
<1>2. s.rt \subseteq Peers /\ s.pc \subseteq Peers /\ s.cache \in Seq(Peers)
  <2>1. s.cache \in Seq(Peers \ {p})
    BY DEF State
  <2> QED BY <2>1, KnownPeers, SeqMonotonic
<1>3. q \in Peers
  BY <1>1, <1>2, ConfigFacts, BestHopIsPeer
<1>4. setNextHop(s, p, m, g) = o
  BY DEF setNextHop
<1> HIDE DEF q
<1>n. /\ n \in AnyMessage /\ n.dest = q /\ n.type = m.type /\ n.req = m.req /\ n.ttl = m.ttl
      /\ n.name = m.name /\ n.src = m.src
  BY <1>3 DEF AnyMessage
<1> HIDE DEF n
<1>5. /\ o \in AnyMessage /\ o.dest = q /\ o.type = m.type /\ o.req = m.req /\ o.ttl = m.ttl
      /\ o.name = m.name /\ o.src = m.src
  BY <1>3, <1>n DEF AnyMessage
<1> HIDE DEF o
<1>6. Sensible(o) /\ Reply(o) = Reply(m)
  BY <1>5 DEF Sensible, Reply
<1>7. o.ttl \in 1..DefaultTtl
  BY <1>1, <1>5 DEF DefaultTtl
<1>8. o \in Due(o.dest)
  BY <1>1, <1>5, <1>6 DEF Due
<1>9. Announced(o)
  BY <1>5 DEF Forwards, Searches, Routed, Announced
<1> QED BY <1>3, <1>4, <1>5, <1>7, <1>8, <1>9 DEF Letters

Sends(s, p, t, o) ==
    /\ t \in State(p) /\ (Len(s.cache) <= Capacity => Len(t.cache) <= Capacity) /\ Untouched(s, t)
    /\ t.outgoing = Append(s.outgoing, o) /\ t.log = s.log /\ t.count = s.count /\ Known(s, t)

LEMMA SendKeeps ==
    ASSUME NEW p, NEW s \in State(p), NEW u, Searched(s, p, u), NEW o \in Letters
    PROVE  Sends(s, p, addToOutgoingQueue(u, o), o)
<1> DEFINE t == addToOutgoingQueue(u, o)
<1>1. u \in State(p) /\ u.outgoing \in Seq(Letters)
  BY DEF Searched, State
<1>2. Append(u.outgoing, o) \in Seq(Letters)
  BY <1>1, AppendProperties
<1>3. t = [u EXCEPT !.outgoing = Append(u.outgoing, o)]
  BY DEF addToOutgoingQueue
<1> HIDE DEF t
<1>4. /\ t \in State(p) /\ t.outgoing = Append(u.outgoing, o) /\ Untouched(u, t)
      /\ t.cache = u.cache /\ t.log = u.log /\ t.count = u.count /\ Known(u, t)
  <2> DEFINE a == Append(u.outgoing, o)
  <2> HIDE DEF a
  <2>1. a \in Seq(Letters) /\ t = [u EXCEPT !.outgoing = a]
    BY <1>2, <1>3 DEF a
  <2>2. /\ t \in State(p) /\ t.outgoing = a /\ Untouched(u, t)
        /\ t.cache = u.cache /\ t.log = u.log /\ t.count = u.count /\ Known(u, t)
    BY <1>1, <2>1, SetOutgoing
  <2> QED BY <2>2 DEF a
<1>5. Sends(s, p, t, o)
  BY <1>4 DEF Sends, Searched, Untouched, Known
<1> QED BY <1>5 DEF t

LEMMA SendReplySends ==
    ASSUME config \in Scenarios, NEW p \in Peers, NEW s \in State(p), NEW g,
           NEW m \in AnyMessage, Sensible(m), m.type \in Counted,
           NEW type \in {"GET_REPLY", "PUT_REPLY"}, NEW ok \in BOOLEAN, NEW route \in BOOLEAN
    PROVE  \E o \in Letters : /\ o.req = m.req /\ Reply(o)
                              /\ Sends(s, p, SendReply(s, p, m, type, ok, route, g), o)
<1> DEFINE reply == Message(type, p, m.src, Garbage, DefaultTtl, Id(m.src), m.name, m.req, ok)
<1>1. m.src \in Peers /\ m.req \in Requests /\ m.src = m.req.origin /\ m.name \in Names
  BY DEF Sensible, Counted, Routed, Requests
<1>2. Id(m.src) \in Nat
  <2>1. m.src \in 0..(config.n - 1) /\ config.n \in Sizes
    BY <1>1, ConfigFacts DEF Peers
  <2> QED BY <2>1, IdsDistinct DEF Id
<1> DEFINE x == Id(m.src)
<1> HIDE DEF x
<1>3. /\ reply \in AnyMessage /\ reply.dest = m.src /\ reply.type = type /\ reply.req = m.req
      /\ reply.ttl = DefaultTtl /\ reply.src = p
  <2>1. x \in Int
    BY <1>2 DEF x
  <2>2. reply = Message(type, p, m.src, Garbage, DefaultTtl, x, m.name, m.req, ok)
    BY DEF x
  <2> HIDE DEF reply
  <2> QED BY <1>1, <2>1, <2>2 DEF AnyMessage, Message, DefaultTtl, Kinds, Routed
<1> HIDE DEF reply
<1>4. Sensible(reply) /\ Reply(reply) /\ reply.req.origin = reply.dest
  BY <1>1, <1>3 DEF Sensible, Reply, Routed, Counted
<1>5. reply \in Letters
  <2>1. reply \in Due(reply.dest)
    BY <1>3, <1>4 DEF Due
  <2>2. reply.ttl \in 1..DefaultTtl
    BY <1>3 DEF DefaultTtl
  <2>3. Announced(reply)
    BY <1>3 DEF Announced
  <2> QED BY <1>1, <1>3, <2>1, <2>2, <2>3 DEF Letters
<1>6. CASE route /\ config.storage = "path"
  <2>1. Searched(s, p, Routing(s, reply))
    BY RoutingKeeps
  <2> DEFINE o == setNextHop(s, p, reply, g)
  <2>2. o \in Letters /\ o.req = reply.req /\ o.type = reply.type
    <3>1. CASE Forwards(s, p, reply, g)
      <4>1. reply.ttl \in 0..DefaultTtl
        BY <1>3 DEF DefaultTtl
      <4> QED BY <1>3, <1>4, <3>1, <4>1, NextHopIsLetter
    <3>2. CASE ~Forwards(s, p, reply, g)
      BY <1>5, <3>2 DEF setNextHop
    <3> QED BY <3>1, <3>2
  <2>3. SendReply(s, p, m, type, ok, route, g) = addToOutgoingQueue(Routing(s, reply), o)
    BY <1>6 DEF SendReply, reply
  <2> HIDE DEF o
  <2>4. Sends(s, p, addToOutgoingQueue(Routing(s, reply), o), o)
    BY <2>1, <2>2, SendKeeps
  <2>5. o.req = m.req /\ Reply(o)
    BY <1>3, <1>4, <2>2 DEF Reply
  <2> QED BY <2>2, <2>3, <2>4, <2>5
<1>7. CASE ~(route /\ config.storage = "path")
  <2>1. SendReply(s, p, m, type, ok, route, g) = addToOutgoingQueue(s, reply)
    BY <1>7 DEF SendReply, reply
  <2>2. Searched(s, p, s)
    BY SearchedItself
  <2>3. Sends(s, p, addToOutgoingQueue(s, reply), reply)
    BY <1>5, <2>2, SendKeeps
  <2> QED BY <1>3, <1>4, <1>5, <2>1, <2>3
<1> QED BY <1>6, <1>7

\* Counting a message changes one counter and nothing else.
Elsewhere(s, t, op) ==
    \A o \in Counted \ {op} : t.count[o] = s.count[o]

Recounted(s, p, t) ==
    /\ t \in State(p) /\ t.cache = s.cache /\ Untouched(s, t)
    /\ t.outgoing = s.outgoing /\ t.log = s.log
    /\ Known(s, t) /\ t.index = s.index

LEMMA SetCount ==
    ASSUME NEW p, NEW s \in State(p), NEW c \in [Counted -> Counters], NEW t,
           t = [s EXCEPT !.count = c]
    PROVE  Recounted(s, p, t) /\ t.count = c
BY DEF State, Recounted, Untouched, Known

Fields == {"generated", "received", "processed", "forwarded", "dropped"}

LEMMA BumpCount ==
    ASSUME NEW p, NEW s \in State(p), NEW op \in Counted, NEW field \in Fields
    PROVE  LET t == Bump(s, op, field)
           IN  /\ Recounted(s, p, t) /\ Elsewhere(s, t, op)
               /\ t.count[op] = [s.count[op] EXCEPT ![field] = @ + 1]
               /\ s.count[op] \in Counters
<1> DEFINE c == s.count[op]
           x == [c EXCEPT ![field] = @ + 1]
           e == [s.count EXCEPT ![op] = x]
           t == Bump(s, op, field)
<1>1. s.count \in [Counted -> Counters] /\ c \in Counters
  BY DEF State
<1>2. t = [s EXCEPT !.count = e]
  BY DEF Bump
<1>3. x \in Counters
  <2> HIDE DEF c
  <2>1. CASE field = "generated"
    BY <1>1, <2>1 DEF Counters
  <2>2. CASE field = "received"
    BY <1>1, <2>2 DEF Counters
  <2>3. CASE field = "processed"
    BY <1>1, <2>3 DEF Counters
  <2>4. CASE field = "forwarded"
    BY <1>1, <2>4 DEF Counters
  <2>5. CASE field = "dropped"
    BY <1>1, <2>5 DEF Counters
  <2> QED BY <2>1, <2>2, <2>3, <2>4, <2>5 DEF Fields
<1>4. x = [s.count[op] EXCEPT ![field] = @ + 1]
  OBVIOUS
<1> HIDE DEF t, x
<1>5. e \in [Counted -> Counters] /\ e[op] = x /\ \A o \in Counted \ {op} : e[o] = s.count[o]
  BY <1>1, <1>3
<1> HIDE DEF e
<1>6. Recounted(s, p, t) /\ t.count = e
  BY <1>2, <1>5, SetCount
<1>7. t.count[op] = x /\ Elsewhere(s, t, op)
  BY <1>5, <1>6 DEF Elsewhere
<1> QED BY <1>1, <1>4, <1>6, <1>7 DEF t

\* One more message of type op is processed, or made here.
OneProcessed(s, t, op) ==
    LET c == s.count[op]
        d == t.count[op]
    IN  /\ d.processed = c.processed + 1
        /\ d.generated = c.generated /\ d.received = c.received
        /\ d.forwarded = c.forwarded /\ d.dropped = c.dropped
OneGenerated(s, t, op) ==
    LET c == s.count[op]
        d == t.count[op]
    IN  /\ d.generated = c.generated + 1
        /\ d.processed = c.processed /\ d.received = c.received
        /\ d.forwarded = c.forwarded /\ d.dropped = c.dropped

LEMMA BumpProcessed ==
    ASSUME NEW p, NEW s \in State(p), NEW op \in Counted
    PROVE  LET t == Bump(s, op, "processed")
           IN  Recounted(s, p, t) /\ Elsewhere(s, t, op) /\ OneProcessed(s, t, op)
<1> DEFINE f == "processed"
           t == Bump(s, op, f)
<1>0. f \in Fields
  BY DEF Fields
<1> HIDE DEF f
<1>1. /\ Recounted(s, p, t) /\ Elsewhere(s, t, op) /\ s.count[op] \in Counters
      /\ t.count[op] = [s.count[op] EXCEPT ![f] = @ + 1]
  BY <1>0, BumpCount
<1> HIDE DEF t
<1>2. OneProcessed(s, t, op)
  BY <1>1 DEF OneProcessed, Counters, f
<1> QED BY <1>1, <1>2 DEF t, f

LEMMA BumpGenerated ==
    ASSUME NEW p, NEW s \in State(p), NEW op \in Counted
    PROVE  LET t == Bump(s, op, "generated")
           IN  Recounted(s, p, t) /\ Elsewhere(s, t, op) /\ OneGenerated(s, t, op)
<1> DEFINE f == "generated"
           t == Bump(s, op, f)
<1>0. f \in Fields
  BY DEF Fields
<1> HIDE DEF f
<1>1. /\ Recounted(s, p, t) /\ Elsewhere(s, t, op) /\ s.count[op] \in Counters
      /\ t.count[op] = [s.count[op] EXCEPT ![f] = @ + 1]
  BY <1>0, BumpCount
<1> HIDE DEF t
<1>2. OneGenerated(s, t, op)
  BY <1>1 DEF OneGenerated, Counters, f
<1> QED BY <1>1, <1>2 DEF t, f

\* A request is counted as processed and answered.
LEMMA Answering ==
    ASSUME config \in Scenarios, NEW p \in Peers, NEW s \in State(p), Len(s.cache) <= Capacity,
           NEW m \in AnyMessage, NEW op \in Counted, m.type = op,
           NEW u \in State(p), u.cache = s.cache, Untouched(s, u), u.outgoing = s.outgoing,
           u.log = s.log, Known(s, u), Elsewhere(s, u, op), OneProcessed(s, u, op),
           NEW o \in Letters, o.req = m.req, Reply(o), NEW t, Sends(u, p, t, o)
    PROVE  WellHandled(s, p, m, t)
<1>1. /\ t \in State(p) /\ Len(t.cache) <= Capacity /\ Untouched(s, t)
      /\ t.outgoing = Append(s.outgoing, o) /\ t.log = s.log /\ t.count = u.count /\ Known(s, t)
  BY DEF Sends, Untouched, Known
<1>2. ASSUME NEW x \in Counted
      PROVE  Accounted(s, t, <<o>>, m, x)
  <2>1. NumIn(<<o>>, OfType(x)) = 0
    <3>1. o \notin OfType(x)
      BY DEF OfType, Types, Reply, Counted
    <3> QED BY <3>1, NumOne
  <2>2. t.count[x].processed \in Nat /\ s.count[x].processed \in Nat
    BY <1>1 DEF State, Counters
  <2>3. CASE x = op
    BY <1>1, <2>1, <2>2, <2>3 DEF Accounted, OneProcessed
  <2>4. CASE x # op
    <3>1. t.count[x] = s.count[x]
      BY <1>1, <2>4 DEF Elsewhere
    <3> QED BY <2>1, <2>2, <2>4, <3>1 DEF Accounted
  <2> QED BY <2>3, <2>4
<1>3. Effect(s, p, m, t)
  <2>1. o.type \in Routed /\ m.type \notin {"INIT", "CACHE_ME"}
    BY DEF Reply, Counted, Routed
  <2> QED BY <1>1, <1>2, <2>1, EffectSend
<1>4. Learns(s, p, m, t)
  BY <1>1 DEF Learns, Known, Counted
<1> QED BY <1>1, <1>3, <1>4 DEF WellHandled

LEMMA OnPutHandles ==
    ASSUME config \in Scenarios, NEW p \in Peers, NEW s \in State(p), Len(s.cache) <= Capacity,
           NEW m \in AnyMessage, Sensible(m), m.type = "PUT", NEW g
    PROVE  WellHandled(s, p, m, OnPut(s, p, m, g))
<1> DEFINE u == Bump(s, "PUT", "processed")
           f == IF m.name \in DOMAIN u.index THEN u.index
                ELSE [x \in DOMAIN u.index \cup {m.name} |->
                       IF x = m.name THEN m.req ELSE u.index[x]]
           v == [u EXCEPT !.index = f]
<1>0. "PUT" \in Counted /\ m.name \in Names /\ m.req \in Requests
  BY DEF Counted, Sensible, Routed
<1>1. Recounted(s, p, u) /\ Elsewhere(s, u, "PUT") /\ OneProcessed(s, u, "PUT")
  BY <1>0, BumpProcessed
<1>2. OnPut(s, p, m, g) = SendReply(v, p, m, "PUT_REPLY", TRUE, TRUE, g)
  BY DEF OnPut
<1> HIDE DEF u
<1>3. u \in State(p) /\ u.index \in UNION {[D -> Requests] : D \in SUBSET Names}
  BY <1>1 DEF Recounted, State
<1>4. f \in UNION {[D -> Requests] : D \in SUBSET Names}
  <2>1. PICK D \in SUBSET Names : u.index \in [D -> Requests]
    BY <1>3
  <2>2. CASE m.name \in DOMAIN u.index
    BY <1>3, <2>2
  <2>3. CASE m.name \notin DOMAIN u.index
    <3>1. f \in [D \cup {m.name} -> Requests]
      BY <1>0, <2>1, <2>3
    <3>2. D \cup {m.name} \in SUBSET Names
      BY <1>0
    <3> HIDE DEF f
    <3> QED BY <3>1, <3>2
  <2> QED BY <2>2, <2>3
<1> HIDE DEF f
<1>5. /\ v \in State(p) /\ v.cache = u.cache /\ Untouched(u, v) /\ v.outgoing = u.outgoing
      /\ v.log = u.log /\ v.count = u.count /\ Known(u, v)
  BY <1>3, <1>4 DEF State, Untouched, Known
<1> HIDE DEF v
<1>6. /\ v.cache = s.cache /\ Untouched(s, v) /\ v.outgoing = s.outgoing
      /\ v.log = s.log /\ Known(s, v) /\ Elsewhere(s, v, "PUT") /\ OneProcessed(s, v, "PUT")
  BY <1>1, <1>5 DEF Recounted, Untouched, Known, Elsewhere, OneProcessed
<1>7. PICK o \in Letters : /\ o.req = m.req /\ Reply(o)
                           /\ Sends(v, p, SendReply(v, p, m, "PUT_REPLY", TRUE, TRUE, g), o)
  <2>1. "PUT_REPLY" \in {"GET_REPLY", "PUT_REPLY"} /\ m.type \in Counted
    BY <1>0
  <2> QED BY <1>5, <2>1, SendReplySends
<1> QED BY <1>0, <1>2, <1>5, <1>6, <1>7, Answering

LEMMA OnGetHandles ==
    ASSUME config \in Scenarios, NEW p \in Peers, NEW s \in State(p), Len(s.cache) <= Capacity,
           NEW m \in AnyMessage, Sensible(m), m.type = "GET", NEW g
    PROVE  WellHandled(s, p, m, OnGet(s, p, m, g))
<1> DEFINE u == Bump(s, "GET", "processed")
           ok == m.name \in DOMAIN s.index
<1>0. "GET" \in Counted
  BY DEF Counted
<1>1. Recounted(s, p, u) /\ Elsewhere(s, u, "GET") /\ OneProcessed(s, u, "GET")
  BY <1>0, BumpProcessed
<1>2. OnGet(s, p, m, g) = SendReply(u, p, m, "GET_REPLY", ok, ok, g)
  BY DEF OnGet
<1>3. ok \in BOOLEAN
  OBVIOUS
<1> HIDE DEF u, ok
<1>4. /\ u \in State(p) /\ u.cache = s.cache /\ Untouched(s, u) /\ u.outgoing = s.outgoing
      /\ u.log = s.log /\ Known(s, u)
  BY <1>1 DEF Recounted
<1>5. PICK o \in Letters : /\ o.req = m.req /\ Reply(o)
                           /\ Sends(u, p, SendReply(u, p, m, "GET_REPLY", ok, ok, g), o)
  <2>1. "GET_REPLY" \in {"GET_REPLY", "PUT_REPLY"} /\ m.type \in Counted
    BY <1>0
  <2> QED BY <1>3, <1>4, <2>1, SendReplySends
<1> QED BY <1>0, <1>1, <1>2, <1>4, <1>5, Answering

LEMMA NoticeFacts ==
    ASSUME config \in Scenarios, NEW src \in Peers, NEW q \in Peers, NEW ttl \in 1..DefaultTtl,
           Announced(Notice(src, q, ttl))
    PROVE  Notice(src, q, ttl) \in Notices
<1> DEFINE o == Notice(src, q, ttl)
<1>0. ttl \in 0..255
  BY DEF DefaultTtl
<1>1. /\ o \in AnyMessage /\ o.type = "CACHE_ME" /\ o.dest = q /\ o.req = NoReq /\ o.src = src
      /\ o.ttl = ttl
  BY <1>0 DEF Notice, Message, AnyMessage, Kinds
<1>a. Announced(o)
  OBVIOUS
<1> HIDE DEF o
<1>2. Sensible(o) /\ ~Reply(o)
  BY <1>1 DEF Sensible, Reply, Routed, Counted
<1>3. o \in Due(o.dest)
  BY <1>1, <1>2 DEF Due
<1>4. o \in Notices
  BY <1>1, <1>3, <1>a DEF Notices, Letters
<1> QED BY <1>4 DEF o

\* An announcement goes to every neighbour, and to nobody else.
Covers(a, R, src, ttl) ==
    /\ \A i \in 1..Len(a) : \E q \in R : a[i] = Notice(src, q, ttl)
    /\ \A q \in R : \E i \in 1..Len(a) : a[i] = Notice(src, q, ttl)

LEMMA AnnounceSends ==
    ASSUME config \in Scenarios, NEW p \in Peers, NEW s \in State(p), NEW src \in Peers,
           NEW ttl \in 1..DefaultTtl, \A q \in s.rt : Announced(Notice(src, q, ttl))
    PROVE  \E a \in Seq(Notices) :
             /\ Announce(s, src, ttl) = [s EXCEPT !.outgoing = s.outgoing \o a]
             /\ Covers(a, s.rt, src, ttl)
<1> DEFINE N == Cardinality(s.rt)
           a == [i \in 1..N |-> Notice(src, Neighbour(s.rt, i), ttl)]
<1>1. s.rt \subseteq Peers
  BY KnownPeers
<1>2. /\ N \in Nat /\ \A i \in 1..N : Neighbour(s.rt, i) \in s.rt
      /\ \A q \in s.rt : \E i \in 1..N : Neighbour(s.rt, i) = q
  BY <1>1, ConfigFacts, NeighboursListed
<1>3. \A i \in 1..N : Notice(src, Neighbour(s.rt, i), ttl) \in Notices
  BY <1>1, <1>2, NoticeFacts
<1>4. a \in Seq(Notices) /\ Len(a) = N
  <2> HIDE DEF N
  <2> QED BY <1>2, <1>3
<1>5. Announce(s, src, ttl) = [s EXCEPT !.outgoing = s.outgoing \o a]
  <2> DEFINE nbr == [i \in 1..N |-> Neighbour(s.rt, i)]
             b == [i \in DOMAIN nbr |->
                     Message("CACHE_ME", src, nbr[i], nbr[i], ttl, 0, None, NoReq, TRUE)]
  <2>1. Announce(s, src, ttl) = [s EXCEPT !.outgoing = s.outgoing \o b]
    BY DEF Announce, Neighbour, Below
  <2>2. b = a
    <3>1. DOMAIN nbr = 1..N /\ \A i \in 1..N : nbr[i] = Neighbour(s.rt, i)
      OBVIOUS
    <3> HIDE DEF nbr, N
    <3> QED BY <3>1 DEF Notice
  <2> QED BY <2>1, <2>2, Zenon
<1>6. \A i \in 1..N : a[i] = Notice(src, Neighbour(s.rt, i), ttl)
  OBVIOUS
<1> HIDE DEF N, a
<1>7. \A i \in 1..Len(a) : \E q \in s.rt : a[i] = Notice(src, q, ttl)
  BY <1>2, <1>4, <1>6
<1>8. \A q \in s.rt : \E i \in 1..Len(a) : a[i] = Notice(src, q, ttl)
  BY <1>2, <1>4, <1>6
<1>9. Covers(a, s.rt, src, ttl)
  BY <1>7, <1>8 DEF Covers
<1> QED BY <1>4, <1>5, <1>9, Zenon

LEMMA OnGetReplyHandles ==
    ASSUME config \in Scenarios, NEW p \in Peers, NEW s \in State(p), Len(s.cache) <= Capacity,
           NEW m \in Due(p), m.type = "GET_REPLY"
    PROVE  WellHandled(s, p, m, OnGetReply(s, p, m))
<1> DEFINE c == CacheAdd(s.cache, m.src, Declined(s, p, m.src))
           u == CacheSource(s, p, m)
           e == [type |-> "GET", req |-> m.req, ok |-> m.ok]
           q == Append(s.log, e)
           t == OnGetReply(s, p, m)
<1>0. /\ m \in AnyMessage /\ Reply(m) /\ m.src \in Peers /\ m.req \in Requests
      /\ config.storage = "end_point" => m.req.origin = p
  BY DEF Due, Sensible, Reply, Routed
<1>1. c \in Seq(Peers \ {p}) /\ Len(c) <= Capacity
  <2> DEFINE Q == Peers \ {p}
             x == m.src
  <2>1. s.cache \in Seq(Q) /\ (~Declined(s, p, x) => x \in Q)
    BY <1>0 DEF State, Declined
  <2>2. Declined(s, p, x) \in BOOLEAN
    BY DEF Declined
  <2> HIDE DEF Q, x
  <2>3. CacheAdd(s.cache, x, Declined(s, p, x)) \in Seq(Q)
        /\ Len(CacheAdd(s.cache, x, Declined(s, p, x))) <= Capacity
    BY <2>1, <2>2, CacheAddType
  <2> QED BY <2>3 DEF Q, x
<1>2. e \in OwnEntries(p) /\ e.req = m.req
  BY <1>0 DEF OwnEntries, Entries, AnyMessage
<1>3. u = [s EXCEPT !.cache = c]
  BY DEF CacheSource
<1>4. t = addToLogQueue(u, e)
  BY DEF OnGetReply
<1> HIDE DEF c, u, e
<1>5. /\ u \in State(p) /\ u.cache = c /\ Untouched(s, u)
      /\ u.outgoing = s.outgoing /\ u.log = s.log /\ u.count = s.count /\ Known(s, u)
  BY <1>1, <1>3, SetCache
<1>6. q \in Seq(OwnEntries(p)) /\ t = [u EXCEPT !.log = q]
  <2>1. s.log \in Seq(OwnEntries(p))
    BY DEF State
  <2> QED BY <1>2, <1>4, <1>5, <2>1, AppendProperties DEF addToLogQueue
<1>7. q = Append(s.log, e)
  OBVIOUS
<1> HIDE DEF q, t
<1>8. /\ t \in State(p) /\ t.log = q /\ Untouched(u, t)
      /\ t.cache = u.cache /\ t.outgoing = u.outgoing /\ t.count = u.count /\ Known(u, t)
  BY <1>5, <1>6, SetLog
<1>9. Effect(s, p, m, t)
  <2>1. m.type \notin Counted \cup {"INIT", "CACHE_ME"}
    BY DEF Counted
  <2> QED BY <1>2, <1>5, <1>7, <1>8, <2>1, EffectLog
<1>10. Untouched(s, t)
  BY <1>5, <1>8 DEF Untouched
<1>11. Learns(s, p, m, t)
  BY <1>5, <1>8 DEF Learns, Known
<1>12. WellHandled(s, p, m, t)
  BY <1>1, <1>5, <1>8, <1>9, <1>10, <1>11 DEF WellHandled
<1> QED BY <1>12 DEF t

LEMMA OnPutReplyHandles ==
    ASSUME config \in Scenarios, NEW p \in Peers, NEW s \in State(p), Len(s.cache) <= Capacity,
           NEW m \in Due(p), m.type = "PUT_REPLY"
    PROVE  WellHandled(s, p, m, OnPutReply(s, p, m))
<1> DEFINE e == [type |-> "PUT", req |-> m.req, ok |-> m.ok]
           q == Append(s.log, e)
           t == OnPutReply(s, p, m)
<1>0. /\ m \in AnyMessage /\ Reply(m) /\ m.req \in Requests
      /\ config.storage = "end_point" => m.req.origin = p
  BY DEF Due, Sensible, Reply, Routed
<1>2. e \in OwnEntries(p) /\ e.req = m.req
  BY <1>0 DEF OwnEntries, Entries, AnyMessage
<1>4. t = addToLogQueue(s, e)
  BY DEF OnPutReply
<1> HIDE DEF e
<1>6. q \in Seq(OwnEntries(p)) /\ t = [s EXCEPT !.log = q]
  <2>1. s.log \in Seq(OwnEntries(p))
    BY DEF State
  <2> QED BY <1>2, <1>4, <2>1, AppendProperties DEF addToLogQueue
<1>7. q = Append(s.log, e)
  OBVIOUS
<1> HIDE DEF q, t
<1>8. /\ t \in State(p) /\ t.log = q /\ Untouched(s, t)
      /\ t.cache = s.cache /\ t.outgoing = s.outgoing /\ t.count = s.count /\ Known(s, t)
  BY <1>6, SetLog
<1>9. Effect(s, p, m, t)
  <2>1. m.type \notin Counted \cup {"INIT", "CACHE_ME"}
    BY DEF Counted
  <2> QED BY <1>2, <1>7, <1>8, <2>1, EffectLog
<1>11. Learns(s, p, m, t)
  BY <1>8 DEF Learns, Known
<1>12. WellHandled(s, p, m, t)
  BY <1>8, <1>9, <1>11 DEF WellHandled
<1> QED BY <1>12 DEF t

\* A peer that has learnt something announces it, or only keeps it.
LEMMA Announcing ==
    ASSUME config \in Scenarios, NEW p \in Peers, NEW s \in State(p), NEW u \in State(p),
           Len(u.cache) <= Capacity, Untouched(s, u), u.outgoing = s.outgoing, u.log = s.log,
           u.count = s.count, NEW m, m.req = NoReq, m.type \notin Counted, Learns(s, p, m, u),
           NEW a \in Seq(Notices), Announces(s, p, m, a), NEW t,
           t = [u EXCEPT !.outgoing = u.outgoing \o a]
    PROVE  WellHandled(s, p, m, t)
<1> DEFINE q == u.outgoing \o a
<1>1. a \in Seq(Letters) /\ u.outgoing \in Seq(Letters) /\ s.log \in Seq(OwnEntries(p))
  <2>1. Notices \subseteq Letters
    BY DEF Notices
  <2> QED BY <2>1, SeqMonotonic DEF State
<1>2. q \in Seq(Letters)
  BY <1>1, ConcatProperties
<1>3. q = s.outgoing \o a /\ t = [u EXCEPT !.outgoing = q]
  OBVIOUS
<1> HIDE DEF q
<1>4. /\ t \in State(p) /\ t.outgoing = q /\ Untouched(u, t) /\ Known(u, t)
      /\ t.cache = u.cache /\ t.log = u.log /\ t.count = u.count
  BY <1>2, <1>3 DEF State, Untouched, Known
<1>5. Learns(s, p, m, t)
  BY <1>4 DEF Learns, Known
<1>6. <<>> \in Seq(OwnEntries(p)) /\ Idle(<<>>) /\ t.log = s.log \o <<>>
  BY <1>1, <1>4, ConcatEmptySeq DEF Idle
<1>7. Effect(s, p, m, t)
  BY <1>3, <1>4, <1>6, EffectNone
<1>8. Untouched(s, t)
  BY <1>4 DEF Untouched
<1> QED BY <1>4, <1>5, <1>7, <1>8 DEF WellHandled

LEMMA NothingToAnnounce ==
    ASSUME config \in Scenarios, NEW p \in Peers, NEW s \in State(p), NEW t \in State(p),
           Len(t.cache) <= Capacity, Untouched(s, t), t.outgoing = s.outgoing, t.log = s.log,
           t.count = s.count, NEW m, m.req = NoReq, m.type \notin Counted, Learns(s, p, m, t),
           NoticesFor(s, p, m) = {}
    PROVE  WellHandled(s, p, m, t)
<1>1. <<>> \in Seq(Notices) /\ \A i \in 1..Len(<<>>) : FALSE
  OBVIOUS
<1>2. Announces(s, p, m, <<>>)
  BY <1>1 DEF Announces
<1>3. s.outgoing \in Seq(Letters) /\ s.log \in Seq(OwnEntries(p))
  BY DEF State
<1>4. <<>> \in Seq(OwnEntries(p)) /\ Idle(<<>>) /\ t.log = s.log \o <<>> /\ t.outgoing = s.outgoing \o <<>>
  BY <1>3, ConcatEmptySeq DEF Idle
<1>5. Effect(s, p, m, t)
  BY <1>1, <1>2, <1>4, EffectNone
<1> QED BY <1>5 DEF WellHandled

\* Announces for a sequence that covers one set of neighbours.
LEMMA AnnouncesAll ==
    ASSUME NEW s, NEW p, NEW m, NEW R, NEW src, NEW ttl, NEW a,
           Covers(a, R, src, ttl), NoticesFor(s, p, m) = {Notice(src, q, ttl) : q \in R}
    PROVE  Announces(s, p, m, a)
<1>1. ASSUME NEW o, NEW i \in 1..Len(a), a[i] = o
      PROVE  o \in NoticesFor(s, p, m)
  BY <1>1 DEF Covers
<1>2. ASSUME NEW o \in NoticesFor(s, p, m)
      PROVE  \E i \in 1..Len(a) : a[i] = o
  BY <1>2 DEF Covers
<1> QED BY <1>1, <1>2 DEF Announces

LEMMA OnInitHandles ==
    ASSUME config \in Scenarios, NEW p \in Peers, NEW s \in State(p), NEW m,
           m.type = "INIT", m.req = NoReq
    PROVE  WellHandled(s, p, m, OnInit(s, p))
<1> DEFINE u == [s EXCEPT !.rt = RtOf(p), !.index = <<>>, !.cache = <<>>, !.init = TRUE]
<1>1. RtOf(p) \subseteq Peers /\ <<>> \in Seq(Peers \ {p}) /\ Len(<<>>) <= Capacity
  <2>1. 0 <= Capacity
    BY ConfigFacts
  <2> QED BY <2>1, RtFacts
<1>2. <<>> \in UNION {[D -> Requests] : D \in SUBSET Names}
  <2>1. <<>> \in [{} -> Requests]
    OBVIOUS
  <2> QED BY <2>1
<1>3. /\ u \in State(p) /\ u.cache = <<>> /\ Untouched(s, u) /\ u.outgoing = s.outgoing
      /\ u.log = s.log /\ u.count = s.count /\ u.init = TRUE /\ u.rt = RtOf(p) /\ u.pc = s.pc
  BY <1>1, <1>2 DEF State, Untouched
<1>4. OnInit(s, p) = IF config.type = "proactive" THEN Announce(u, p, CacheMeTtl) ELSE u
  BY DEF OnInit, RtOf
<1> HIDE DEF u
<1>5. Learns(s, p, m, u)
  BY <1>3 DEF Learns
<1>6. m.type \notin Counted
  BY DEF Counted
<1>7. CASE config.type = "proactive"
  <2>1. CacheMeTtl \in 1..DefaultTtl
    BY DEF CacheMeTtl, DefaultTtl
  <2>2. PICK a \in Seq(Notices) :
          /\ Announce(u, p, CacheMeTtl) = [u EXCEPT !.outgoing = u.outgoing \o a]
          /\ Covers(a, u.rt, p, CacheMeTtl)
    <3>1. ASSUME NEW q \in u.rt
          PROVE  Announced(Notice(p, q, CacheMeTtl))
      BY <1>3 DEF Announced, Notice, Message, CacheMeTtl
    <3> QED BY <1>3, <2>1, <3>1, AnnounceSends
  <2>3. NoticesFor(s, p, m) = {Notice(p, q, CacheMeTtl) : q \in u.rt}
    BY <1>3, <1>7 DEF NoticesFor
  <2>4. Announces(s, p, m, a)
    BY <2>2, <2>3, AnnouncesAll
  <2> DEFINE t == Announce(u, p, CacheMeTtl)
  <2>5. t = [u EXCEPT !.outgoing = u.outgoing \o a]
    BY <2>2
  <2> HIDE DEF t
  <2>6. WellHandled(s, p, m, t)
    BY <1>1, <1>3, <1>5, <1>6, <2>4, <2>5, Announcing
  <2> QED BY <1>4, <1>7, <2>6 DEF t
<1>8. CASE config.type # "proactive"
  <2>1. NoticesFor(s, p, m) = {}
    BY <1>8 DEF NoticesFor
  <2>2. WellHandled(s, p, m, u)
    BY <1>1, <1>3, <1>5, <1>6, <2>1, NothingToAnnounce
  <2> QED BY <1>4, <1>8, <2>2
<1> QED BY <1>7, <1>8

\* An announcement that has reached p, by one hop or two.
Spreads(s, p, m) == m.type = "CACHE_ME" =>
    /\ s.rt = RtOf(p) /\ m.src \in Heard(p)
    /\ m.ttl > 0 => m.ttl = 1 /\ p \in RtOf(m.src)

LEMMA OnCacheMeHandles ==
    ASSUME config \in Scenarios, NEW p \in Peers, NEW s \in State(p), Len(s.cache) <= Capacity,
           NEW m \in Due(p), m.type = "CACHE_ME", m.ttl \in 0..DefaultTtl, Spreads(s, p, m)
    PROVE  WellHandled(s, p, m, OnCacheMe(s, p, m))
<1> DEFINE c == s.pc \cup ({m.src} \ ({p} \cup s.rt))
           u == [s EXCEPT !.pc = c]
<1>a. c \in SUBSET (Heard(p) \ ({p} \cup RtOf(p))) /\ s.rt = RtOf(p)
  BY DEF State, Spreads
<1>0. m.src \in Peers /\ m.req = NoReq /\ m.type \notin Counted
  BY DEF Due, Sensible, Routed, Counted
<1>1. CASE config.type # "proactive"
  <2>1. Learns(s, p, m, s) /\ Untouched(s, s) /\ NoticesFor(s, p, m) = {}
    BY <1>1 DEF Learns, Untouched, NoticesFor, State
  <2>2. WellHandled(s, p, m, s)
    BY <1>0, <2>1, NothingToAnnounce
  <2> QED BY <1>1, <2>2 DEF OnCacheMe
<1>2. CASE config.type = "proactive"
  <2>1. /\ u \in State(p) /\ u.cache = s.cache /\ Untouched(s, u) /\ u.outgoing = s.outgoing
        /\ u.log = s.log /\ u.count = s.count /\ u.init = s.init /\ u.rt = s.rt
        /\ u.pc = s.pc \cup ({m.src} \ ({p} \cup s.rt))
    <3> HIDE DEF c
    <3>1. /\ u \in State(p) /\ u.cache = s.cache /\ Untouched(s, u) /\ u.outgoing = s.outgoing
          /\ u.log = s.log /\ u.count = s.count /\ u.init = s.init /\ u.rt = s.rt /\ u.pc = c
      BY <1>a DEF State, Untouched
    <3> QED BY <3>1 DEF c
  <2>2. OnCacheMe(s, p, m) = IF m.ttl > 0 THEN Announce(u, m.src, m.ttl) ELSE u
    BY <1>2 DEF OnCacheMe
  <2> HIDE DEF u
  <2>3. Learns(s, p, m, u)
    BY <1>2, <2>1 DEF Learns, State
  <2>4. CASE m.ttl > 0
    <3>1. m.ttl \in 1..DefaultTtl
      BY <2>4 DEF DefaultTtl
    <3>2. PICK a \in Seq(Notices) :
            /\ Announce(u, m.src, m.ttl) = [u EXCEPT !.outgoing = u.outgoing \o a]
            /\ Covers(a, u.rt, m.src, m.ttl)
      <4>1. ASSUME NEW q \in u.rt
            PROVE  Announced(Notice(m.src, q, m.ttl))
        BY <1>a, <2>1, <2>4 DEF Announced, Notice, Message, Spreads
      <4> QED BY <1>0, <2>1, <3>1, <4>1, AnnounceSends
    <3>3. NoticesFor(s, p, m) = {Notice(m.src, q, m.ttl) : q \in u.rt}
      BY <1>2, <2>1, <2>4 DEF NoticesFor
    <3>4. Announces(s, p, m, a)
      BY <3>2, <3>3, AnnouncesAll
    <3> DEFINE t == Announce(u, m.src, m.ttl)
    <3>5. t = [u EXCEPT !.outgoing = u.outgoing \o a]
      BY <3>2
    <3> HIDE DEF t
    <3>6. WellHandled(s, p, m, t)
      BY <1>0, <2>1, <2>3, <3>4, <3>5, Announcing
    <3> QED BY <2>2, <2>4, <3>6 DEF t
  <2>5. CASE ~(m.ttl > 0)
    <3>1. NoticesFor(s, p, m) = {}
      BY <2>5 DEF NoticesFor
    <3>2. WellHandled(s, p, m, u)
      BY <1>0, <2>1, <2>3, <3>1, NothingToAnnounce
    <3> QED BY <2>2, <2>5, <3>2
  <2> QED BY <2>4, <2>5
<1> QED BY <1>1, <1>2

\* The user tells the controlling thread to begin, or asks for the logs.
LEMMA OnStartHandles ==
    ASSUME config \in Scenarios, NEW p \in Peers, NEW s \in State(p), Len(s.cache) <= Capacity,
           NEW m, m.req = NoReq, NEW t, m.type \notin Counted \cup {"INIT", "CACHE_ME"},
           t = [s EXCEPT !.gen = TRUE] \/ t = [s EXCEPT !.lkp = TRUE] \/ t = s
    PROVE  WellHandled(s, p, m, t)
<1> DEFINE Same == /\ t \in State(p) /\ t.cache = s.cache /\ Untouched(s, t) /\ Known(s, t)
                   /\ t.outgoing = s.outgoing /\ t.log = s.log /\ t.count = s.count
<1>1. Same
  <2>1. CASE t = [s EXCEPT !.gen = TRUE]
    BY <2>1 DEF State, Untouched, Known
  <2>2. CASE t = [s EXCEPT !.lkp = TRUE]
    BY <2>2 DEF State, Untouched, Known
  <2>3. CASE t = s
    BY <2>3 DEF Untouched, Known
  <2> QED BY <2>1, <2>2, <2>3
<1>2. Learns(s, p, m, t) /\ NoticesFor(s, p, m) = {}
  BY <1>1 DEF Learns, Known, NoticesFor
<1> QED BY <1>1, <1>2, NothingToAnnounce

LEMMA OnForceLogHandles ==
    ASSUME config \in Scenarios, NEW p \in Peers, NEW s \in State(p), Len(s.cache) <= Capacity,
           NEW m, m.req = NoReq, m.type \notin Counted \cup {"INIT", "CACHE_ME"}
    PROVE  WellHandled(s, p, m,
             addToLogQueue(s, [type |-> "ALL_LOGS", req |-> NoReq, ok |-> TRUE]))
<1> DEFINE e == [type |-> "ALL_LOGS", req |-> NoReq, ok |-> TRUE]
           q == Append(s.log, e)
           t == addToLogQueue(s, e)
<1>1. e \in OwnEntries(p) /\ e.req = m.req
  BY DEF OwnEntries, Entries
<1>2. t = [s EXCEPT !.log = q]
  BY DEF addToLogQueue
<1> HIDE DEF e
<1>3. q \in Seq(OwnEntries(p))
  <2>1. s.log \in Seq(OwnEntries(p))
    BY DEF State
  <2> QED BY <1>1, <2>1, AppendProperties
<1>4. q = Append(s.log, e)
  OBVIOUS
<1> HIDE DEF q, t
<1>5. /\ t \in State(p) /\ t.log = q /\ Untouched(s, t) /\ Known(s, t)
      /\ t.cache = s.cache /\ t.outgoing = s.outgoing /\ t.count = s.count
  BY <1>2, <1>3, SetLog
<1>6. Effect(s, p, m, t)
  BY <1>1, <1>4, <1>5, EffectLog
<1>7. Learns(s, p, m, t)
  BY <1>5 DEF Learns, Known
<1>8. WellHandled(s, p, m, t)
  BY <1>5, <1>6, <1>7 DEF WellHandled
<1> QED BY <1>8 DEF t, e

LEMMA HandleHandles ==
    ASSUME config \in Scenarios, NEW p \in Peers, NEW s \in State(p), Len(s.cache) <= Capacity,
           NEW m \in Due(p), m.ttl \in 0..DefaultTtl, Spreads(s, p, m), NEW g
    PROVE  WellHandled(s, p, m, Handle(s, p, m, g))
<1>0. m \in AnyMessage /\ Sensible(m) /\ m.type \in Kinds
  BY DEF Due, AnyMessage
<1>1. CASE m.type = "PUT"
  <2>1. Handle(s, p, m, g) = OnPut(s, p, m, g)
    BY <1>1 DEF Handle
  <2> QED BY <1>0, <1>1, <2>1, OnPutHandles
<1>2. CASE m.type = "GET"
  <2>1. Handle(s, p, m, g) = OnGet(s, p, m, g)
    BY <1>2 DEF Handle
  <2> QED BY <1>0, <1>2, <2>1, OnGetHandles
<1>3. CASE m.type = "GET_REPLY"
  <2>1. Handle(s, p, m, g) = OnGetReply(s, p, m)
    BY <1>3 DEF Handle
  <2> QED BY <1>3, <2>1, OnGetReplyHandles
<1>4. CASE m.type = "PUT_REPLY"
  <2>1. Handle(s, p, m, g) = OnPutReply(s, p, m)
    BY <1>4 DEF Handle
  <2> QED BY <1>4, <2>1, OnPutReplyHandles
<1>5. CASE m.type = "CACHE_ME"
  <2>1. Handle(s, p, m, g) = OnCacheMe(s, p, m)
    BY <1>5 DEF Handle
  <2> QED BY <1>5, <2>1, OnCacheMeHandles
<1>6. CASE m.type \notin Routed \cup {"CACHE_ME"}
  <2>0. m.req = NoReq /\ m.type \notin Counted \cup {"CACHE_ME"}
    BY <1>0, <1>6 DEF Sensible, Routed, Counted
  <2>1. CASE m.type = "INIT"
    <3>1. Handle(s, p, m, g) = OnInit(s, p)
      BY <2>1 DEF Handle
    <3> QED BY <2>0, <2>1, <3>1, OnInitHandles
  <2>2. CASE m.type = "FORCE_LOG"
    <3>1. Handle(s, p, m, g) = addToLogQueue(s, [type |-> "ALL_LOGS", req |-> NoReq, ok |-> TRUE])
      BY <2>2 DEF Handle
    <3>2. m.type \notin Counted \cup {"INIT", "CACHE_ME"}
      BY <2>0, <2>2
    <3> QED BY <2>0, <3>1, <3>2, OnForceLogHandles
  <2>3. CASE m.type \notin {"INIT", "FORCE_LOG"}
    <3> DEFINE t == Handle(s, p, m, g)
    <3>1. t = [s EXCEPT !.gen = TRUE] \/ t = [s EXCEPT !.lkp = TRUE] \/ t = s
      BY <1>6, <2>3 DEF Handle, Routed
    <3> HIDE DEF t
    <3>2. m.type \notin Counted \cup {"INIT", "CACHE_ME"}
      BY <2>0, <2>3
    <3>3. WellHandled(s, p, m, t)
      BY <2>0, <3>1, <3>2, OnStartHandles
    <3> QED BY <3>3 DEF t
  <2> QED BY <2>1, <2>2, <2>3
<1> QED BY <1>1, <1>2, <1>3, <1>4, <1>5, <1>6 DEF Routed

\* A search comes before the handling of a message that stays here.
LEMMA SearchedFirst ==
    ASSUME NEW p, NEW s \in State(p), NEW u, Searched(s, p, u), NEW m, NEW t,
           WellHandled(u, p, m, t)
    PROVE  WellHandled(s, p, m, t)
<1>1. /\ u.outgoing = s.outgoing /\ u.log = s.log /\ u.count = s.count /\ Known(s, u)
      /\ Untouched(s, u)
  BY DEF Searched
<1>2. Untouched(s, t)
  BY <1>1 DEF WellHandled, Untouched
<1>3. Learns(s, p, m, t)
  BY <1>1 DEF WellHandled, Learns, Known
<1>4. Effect(s, p, m, t)
  <2>1. PICK a \in Seq(Letters), b \in Seq(OwnEntries(p)) :
          /\ t.outgoing = u.outgoing \o a /\ t.log = u.log \o b
          /\ \A r \in Requests : Carries(a, b, r, m)
          /\ \A op \in Counted : Accounted(u, t, a, m, op)
          /\ Announces(u, p, m, a) /\ Outward(a)
    BY DEF WellHandled, Effect
  <2>2. \A op \in Counted : Accounted(s, t, a, m, op)
    BY <1>1, <2>1 DEF Accounted
  <2>3. Announces(s, p, m, a)
    BY <1>1, <2>1 DEF Announces, NoticesFor, Known
  <2> QED BY <1>1, <2>1, <2>2, <2>3 DEF Effect
<1> QED BY <1>2, <1>3, <1>4 DEF WellHandled

Decremented(m) == [m EXCEPT !.ttl = Dec(@)]

LEMMA DecFacts ==
    ASSUME NEW p, NEW msg \in Due(p), msg.ttl \in 1..DefaultTtl
    PROVE  LET m == Decremented(msg)
           IN  /\ m \in Due(p) /\ m.ttl \in 0..DefaultTtl /\ m.ttl = msg.ttl - 1
               /\ m.type = msg.type /\ m.req = msg.req /\ m.src = msg.src /\ m.name = msg.name
<1> DEFINE m == Decremented(msg)
           d == Dec(msg.ttl)
<1>1. d = msg.ttl - 1
  BY DEF Dec, DefaultTtl
<1>2. msg \in AnyMessage /\ Sensible(msg)
  BY DEF Due
<1>3. m = [msg EXCEPT !.ttl = d]
  BY DEF Decremented
<1> HIDE DEF m, d
<1>4. d \in 0..255 /\ d \in 0..DefaultTtl
  BY <1>1 DEF DefaultTtl
<1>5. /\ m \in AnyMessage /\ m.ttl = d /\ m.type = msg.type /\ m.req = msg.req
      /\ m.src = msg.src /\ m.name = msg.name
  BY <1>2, <1>3, <1>4 DEF AnyMessage
<1>6. m \in Due(p)
  <2>1. Sensible(m) /\ Reply(m) = Reply(msg)
    BY <1>2, <1>5 DEF Sensible, Reply
  <2> QED BY <1>5, <2>1 DEF Due
<1> QED BY <1>1, <1>4, <1>5, <1>6 DEF m

LEMMA CacheSourceKeeps ==
    ASSUME config \in Scenarios, NEW p \in Peers, NEW s \in State(p), Len(s.cache) <= Capacity,
           NEW u, Searched(s, p, u), NEW m, m.src \in Peers
    PROVE  Searched(s, p, CacheSource(u, p, m))
<1> DEFINE Q == Peers \ {p}
           x == m.src
           d == Declined(u, p, x)
           c == CacheAdd(u.cache, x, d)
           t == CacheSource(u, p, m)
<1>1. u \in State(p) /\ Len(u.cache) <= Capacity
  BY DEF Searched
<1>2. u.cache \in Seq(Q) /\ d \in BOOLEAN /\ (~d => x \in Q)
  BY <1>1 DEF State, Declined
<1>3. c \in Seq(Q) /\ Len(c) <= Capacity
  <2> HIDE DEF Q, x, d
  <2> QED BY <1>1, <1>2, CacheAddType
<1>4. t = [u EXCEPT !.cache = c]
  BY DEF CacheSource
<1> HIDE DEF c, t
<1>5. /\ t \in State(p) /\ t.cache = c /\ Untouched(u, t) /\ Known(u, t) /\ t.index = u.index
      /\ t.outgoing = u.outgoing /\ t.log = u.log /\ t.count = u.count
  BY <1>1, <1>3, <1>4, SetCache
<1>6. Searched(s, p, t)
  BY <1>3, <1>5 DEF Searched, Untouched, Known
<1> QED BY <1>6 DEF t

LEMMA ProcessHandles ==
    ASSUME config \in Scenarios, NEW p \in Peers, NEW s \in State(p), Len(s.cache) <= Capacity,
           NEW msg \in Due(p), msg.ttl \in 1..DefaultTtl, Spreads(s, p, Decremented(msg)), NEW g
    PROVE  WellHandled(s, p, Decremented(msg), processMessage(s, p, msg, g))
<1> DEFINE m == Decremented(msg)
           u == Routing(s, m)
           v == IF config.storage = "path" /\ Reply(m) THEN CacheSource(u, p, m) ELSE u
           o == setNextHop(s, p, m, g)
           t == processMessage(s, p, msg, g)
<1>1. t = IF Forwards(s, p, m, g) THEN addToOutgoingQueue(v, o) ELSE Handle(u, p, m, g)
  BY DEF processMessage, Decremented
<1>2. m \in Due(p) /\ m.ttl \in 0..DefaultTtl /\ Spreads(s, p, m)
  BY DecFacts
<1>3. m \in AnyMessage /\ Sensible(m)
  BY <1>2 DEF Due
<1> HIDE DEF m
<1>4. Searched(s, p, u)
  BY RoutingKeeps
<1> HIDE DEF u
<1>5. CASE Forwards(s, p, m, g)
  <2>1. o \in Letters /\ o.req = m.req /\ o.type = m.type
    BY <1>2, <1>3, <1>5, NextHopIsLetter
  <2>2. m.type \in Routed
    BY <1>5 DEF Forwards, Searches
  <2>3. Searched(s, p, v)
    <3>1. CASE Reply(m)
      <4>1. m.src \in Peers
        BY <1>3, <3>1 DEF Sensible
      <4> QED BY <1>4, <4>1, CacheSourceKeeps
    <3>2. CASE ~Reply(m)
      BY <1>4, <3>2
    <3> QED BY <3>1, <3>2
  <2> HIDE DEF v, o, t
  <2>4. t = addToOutgoingQueue(v, o)
    BY <1>1, <1>5
  <2>5. Sends(s, p, t, o)
    BY <2>1, <2>3, <2>4, SendKeeps
  <2>6. /\ t \in State(p) /\ Len(t.cache) <= Capacity /\ Untouched(s, t) /\ Known(s, t)
        /\ t.outgoing = Append(s.outgoing, o) /\ t.log = s.log /\ t.count = s.count
    BY <2>5 DEF Sends
  <2>7. ASSUME NEW op \in Counted
        PROVE  Accounted(s, t, <<o>>, m, op)
    <3>1. NumIn(<<o>>, OfType(op)) = IF m.type = op THEN 1 ELSE 0
      <4>1. o \in OfType(op) <=> m.type = op
        BY <2>1, <2>2 DEF OfType, Types, Routed, Counted
      <4> QED BY <4>1, NumOne
    <3>2. s.count[op].processed \in Nat
      BY DEF State, Counters
    <3> QED BY <2>6, <3>1, <3>2 DEF Accounted
  <2>8. Effect(s, p, m, t)
    <3>1. o.type \in Routed /\ m.type \notin {"INIT", "CACHE_ME"}
      BY <2>1, <2>2 DEF Routed
    <3> QED BY <2>1, <2>6, <2>7, <3>1, EffectSend
  <2>9. Learns(s, p, m, t)
    BY <2>2, <2>6 DEF Learns, Known, Routed
  <2>10. WellHandled(s, p, m, t)
    BY <2>6, <2>8, <2>9 DEF WellHandled
  <2> QED BY <2>10 DEF m, t
<1>6. CASE ~Forwards(s, p, m, g)
  <2>1. u \in State(p) /\ Len(u.cache) <= Capacity /\ Spreads(u, p, m)
    BY <1>2, <1>4 DEF Searched, Known, Spreads
  <2>2. WellHandled(u, p, m, Handle(u, p, m, g))
    BY <1>2, <2>1, HandleHandles
  <2>3. t = Handle(u, p, m, g)
    BY <1>1, <1>6
  <2> HIDE DEF t
  <2>4. WellHandled(s, p, m, t)
    BY <1>4, <2>2, <2>3, SearchedFirst
  <2> QED BY <2>4 DEF m, t
<1> QED BY <1>5, <1>6

-----------------------------------------------------------------------------
(* A peer makes a request. *)

OwnRequest(p, op, name, r) ==
    Message(op, p, None, Garbage, DefaultTtl, Target[name], name, r, TRUE)

LEMMA OwnRequestFacts ==
    ASSUME config \in Scenarios, NEW p \in Peers, NEW op \in Counted, NEW name \in Names,
           NEW r \in Requests, r.origin = p
    PROVE  LET m == OwnRequest(p, op, name, r)
           IN  m \in Due(p) /\ m.ttl \in 1..DefaultTtl /\ m.type = op /\ m.req = r
<1> DEFINE m == OwnRequest(p, op, name, r)
           x == Target[name]
<1>1. x \in Int
  BY NetworkAssumption DEF Oids
<1>2. m = Message(op, p, None, Garbage, DefaultTtl, x, name, r, TRUE)
  BY DEF OwnRequest
<1> HIDE DEF m, x
<1>3. /\ m \in AnyMessage /\ m.type = op /\ m.src = p /\ m.req = r /\ m.name = name
      /\ m.ttl = DefaultTtl
  BY <1>1, <1>2 DEF AnyMessage, Message, DefaultTtl, Kinds, Routed, Counted
<1>4. Sensible(m) /\ ~Reply(m)
  BY <1>3 DEF Sensible, Reply, Routed, Counted
<1>5. m \in Due(p) /\ m.ttl \in 1..DefaultTtl
  BY <1>3, <1>4 DEF Due, DefaultTtl
<1> QED BY <1>3, <1>5 DEF m

\* What a new request leaves to the other threads, and what it sends, logs and counts.
Aside(s, x) ==
    /\ x.incoming = s.incoming /\ x.listener = s.listener
    /\ x.received_before_init = s.received_before_init /\ x.pending = s.pending
    /\ x.published = s.published /\ x.looked_up = s.looked_up
    /\ x.unresolved = s.unresolved /\ x.initiated = s.initiated
    /\ x.seq = s.seq + 1 /\ Known(s, x)

CountsOne(s, x, a, op, o) ==
    /\ x.count[o].processed + NumIn(a, OfType(o)) =
          s.count[o].processed + IF o = op THEN 1 ELSE 0
    /\ x.count[o].generated = s.count[o].generated + IF o = op THEN 1 ELSE 0
    /\ x.count[o].received = s.count[o].received
    /\ x.count[o].forwarded = s.count[o].forwarded
    /\ x.count[o].dropped = s.count[o].dropped

Makes(s, p, op, x) == \E a \in Seq(Letters), b \in Seq(OwnEntries(p)) :
    /\ x.outgoing = s.outgoing \o a /\ x.log = s.log \o b
    /\ \A r \in Requests : NumIn(a, OfRequest(r)) + NumIn(b, EntriesOf(r)) =
                             IF r = NextReq(s, p) THEN 1 ELSE 0
    /\ \A o \in Counted : CountsOne(s, x, a, op, o)
    /\ Outward(a)

Started(s, p, op, x) ==
    x \in State(p) /\ Len(x.cache) <= Capacity /\ Aside(s, x) /\ Makes(s, p, op, x)

LEMMA StartStarts ==
    ASSUME config \in Scenarios, NEW p \in Peers, NEW s \in State(p), Len(s.cache) <= Capacity,
           NEW op \in Counted, NEW name \in Names, NEW g
    PROVE  Started(s, p, op, Start(s, p, op, name, g))
<1> DEFINE r == NextReq(s, p)
           msg == OwnRequest(p, op, name, r)
           m == Decremented(msg)
           n == s.seq + 1
           u == [s EXCEPT !.seq = n]
           v == processMessage(u, p, msg, g)
           x == Start(s, p, op, name, g)
<1>1. x = Bump(v, op, "generated")
  BY DEF Start, OwnRequest
<1>2. r \in Requests /\ r.origin = p
  BY DEF NextReq, Requests, State
<1> HIDE DEF r
<1>3. msg \in Due(p) /\ msg.ttl \in 1..DefaultTtl /\ msg.type = op /\ msg.req = r
  BY <1>2, OwnRequestFacts
<1> HIDE DEF msg
<1>4. m.type = op /\ m.req = r
  BY <1>3, DecFacts
<1>n. n \in Nat
  BY DEF State
<1> HIDE DEF n
<1>5. /\ u \in State(p) /\ u.cache = s.cache /\ u.seq = n /\ Known(s, u)
      /\ u.incoming = s.incoming /\ u.listener = s.listener
      /\ u.received_before_init = s.received_before_init /\ u.pending = s.pending
      /\ u.published = s.published /\ u.looked_up = s.looked_up
      /\ u.unresolved = s.unresolved /\ u.initiated = s.initiated
      /\ u.outgoing = s.outgoing /\ u.log = s.log /\ u.count = s.count
  BY <1>n DEF State, Known
<1> HIDE DEF u
<1>6. WellHandled(u, p, m, v)
  <2>1. Spreads(u, p, m)
    BY <1>4 DEF Spreads, Counted
  <2> QED BY <1>3, <1>5, <2>1, ProcessHandles
<1> HIDE DEF m, v
<1>7. v \in State(p) /\ Len(v.cache) <= Capacity /\ Untouched(u, v) /\ Learns(u, p, m, v)
  BY <1>6 DEF WellHandled
<1>8. Recounted(v, p, x) /\ Elsewhere(v, x, op) /\ OneGenerated(v, x, op)
  BY <1>1, <1>7, BumpGenerated
<1> HIDE DEF x
<1>9. x \in State(p) /\ Len(x.cache) <= Capacity
  BY <1>7, <1>8 DEF Recounted
<1>10. Known(u, v)
  <2>1. u.init \in BOOLEAN /\ v.init \in BOOLEAN
    BY <1>5, <1>7 DEF State
  <2>2. (v.init <=> u.init) /\ v.rt = u.rt /\ v.pc = u.pc
    BY <1>4, <1>7 DEF Learns, Counted
  <2>3. v.init = u.init
    BY <2>1, <2>2
  <2> QED BY <2>2, <2>3 DEF Known
<1>11. Aside(s, x)
  BY <1>5, <1>7, <1>8, <1>10 DEF Aside, Untouched, Recounted, Known, n
<1>12. PICK a \in Seq(Letters), b \in Seq(OwnEntries(p)) :
         /\ v.outgoing = u.outgoing \o a /\ v.log = u.log \o b
         /\ \A q \in Requests : Carries(a, b, q, m)
         /\ \A o \in Counted : Accounted(u, v, a, m, o)
         /\ Announces(u, p, m, a) /\ Outward(a)
  BY <1>6 DEF WellHandled, Effect
<1>13. ASSUME NEW q \in Requests
       PROVE  NumIn(a, OfRequest(q)) + NumIn(b, EntriesOf(q)) = IF q = r THEN 1 ELSE 0
  BY <1>4, <1>12 DEF Carries
<1>14. ASSUME NEW o \in Counted
       PROVE  CountsOne(s, x, a, op, o)
  <2>1. Accounted(u, v, a, m, o)
    BY <1>12
  <2>2. s.count[o].generated \in Nat /\ s.count[o].processed \in Nat
    BY DEF State, Counters
  <2>3. CASE o = op
    BY <1>4, <1>5, <1>8, <2>1, <2>3 DEF Accounted, OneGenerated, CountsOne
  <2>4. CASE o # op
    <3>1. x.count[o] = v.count[o]
      BY <1>8, <2>4 DEF Elsewhere
    <3> QED BY <1>4, <1>5, <2>1, <2>2, <2>4, <3>1 DEF Accounted, CountsOne
  <2> QED BY <2>3, <2>4
<1>16. x.outgoing = s.outgoing \o a /\ x.log = s.log \o b
  BY <1>5, <1>8, <1>12 DEF Recounted
<1>17. Makes(s, p, op, x)
  BY <1>12, <1>13, <1>14, <1>16 DEF Makes, r
<1>18. Started(s, p, op, x)
  BY <1>9, <1>11, <1>17 DEF Started
<1> QED BY <1>18 DEF x

-----------------------------------------------------------------------------
(* The steps. *)

\* What is defined from the scenario stays.
LEMMA ConfigKept ==
    ASSUME config' = config
    PROVE  /\ Peers' = Peers /\ Requests' = Requests /\ Letters' = Letters
           /\ \A p : RtOf(p)' = RtOf(p) /\ Heard(p)' = Heard(p) /\ State(p)' = State(p)
           /\ \A r : OfRequest(r)' = OfRequest(r) /\ EntriesOf(r)' = EntriesOf(r)
           /\ \A op : OfType(op)' = OfType(op)
           /\ \A p, s : PeerOk(p, s)' <=> PeerOk(p, s)
           /\ \A s, r : Copies(s, r)' = Copies(s, r)
<1>1. Peers' = Peers
  BY DEF Peers
<1>2. Requests' = Requests
  BY <1>1 DEF Requests
<1>3. \A p : RtOf(p)' = RtOf(p)
  BY DEF RtOf
<1>4. \A p : Heard(p)' = Heard(p)
  BY <1>1, <1>3 DEF Heard
<1>5. AnyMessage' = AnyMessage
  BY <1>1, <1>2 DEF AnyMessage
<1>6. \A m : Sensible(m)' <=> Sensible(m)
  BY <1>1, <1>2 DEF Sensible, Reply
<1>7. \A p : Due(p)' = Due(p)
  BY <1>5, <1>6 DEF Due, Reply
<1>8. \A m : Announced(m)' <=> Announced(m)
  BY <1>3 DEF Announced
<1>9. Letters' = Letters
  BY <1>1, <1>5, <1>7, <1>8 DEF Letters
<1>10. \A p : Mail(p)' = Mail(p)
  BY <1>9 DEF Mail
<1>11. Entries' = Entries
  BY <1>2 DEF Entries
<1>12. \A p : OwnEntries(p)' = OwnEntries(p)
  BY <1>11 DEF OwnEntries
<1>13. \A p : State(p)' = State(p)
  <2> TAKE p
  <2>1. /\ RtOf(p)' = RtOf(p) /\ Heard(p)' = Heard(p) /\ Mail(p)' = Mail(p)
        /\ OwnEntries(p)' = OwnEntries(p)
    BY <1>3, <1>4, <1>10, <1>12
  <2> DEFINE A == {{}, RtOf(p)}
             B == UNION {[D -> Requests] : D \in SUBSET Names}
             C == SUBSET (Heard(p) \ ({p} \cup RtOf(p)))
             D == Seq(Peers \ {p})
             E == SUBSET Requests
             F == Seq(Mail(p))
             G == Seq(Letters)
             H == Seq(OwnEntries(p))
             All(a, b, c, d, e, f, g, h) ==
               [init : BOOLEAN, rt : a, index : b, pc : c, cache : d, unresolved : e,
                incoming : f, outgoing : g, received_before_init : f, listener : f,
                pending : {"wait", "drain", "done"}, gen : BOOLEAN, lkp : BOOLEAN,
                published : Nat, looked_up : Nat, seq : Nat,
                count : [Counted -> Counters], initiated : [Counted -> Nat], log : h]
  <2>2. /\ State(p) = All(A, B, C, D, E, F, G, H)
        /\ State(p)' = All(A', B', C', D', E', F', G', H')
    BY DEF State
  <2>3. A' = A /\ B' = B /\ C' = C /\ D' = D /\ E' = E /\ F' = F /\ G' = G /\ H' = H
    BY <1>1, <1>2, <1>9, <2>1
  <2> HIDE DEF A, B, C, D, E, F, G, H, All
  <2> QED BY <2>2, <2>3
<1>14. \A r : OfRequest(r)' = OfRequest(r) /\ EntriesOf(r)' = EntriesOf(r)
  BY <1>9, <1>11 DEF OfRequest, EntriesOf
<1>15. \A op : OfType(op)' = OfType(op)
  BY <1>9 DEF OfType, Types
<1>16. \A s, op : Even(s, op)' <=> Even(s, op)
  BY <1>15 DEF Even, HeldOf
<1>17. \A p, s : InitOk(s, p)' <=> InitOk(s, p)
  BY <1>3 DEF InitOk
<1>18. \A p, s : PeerOk(p, s)' <=> PeerOk(p, s)
  BY <1>13, <1>16, <1>17 DEF PeerOk, PendingOk, Outward
<1>19. \A s, r : Copies(s, r)' = Copies(s, r)
  BY <1>14 DEF Copies
<1> QED BY <1>1, <1>2, <1>3, <1>4, <1>9, <1>13, <1>14, <1>15, <1>18, <1>19

\* Only peer p takes the step, and its state becomes t.
Becomes(p, t) == config' = config /\ peer' = [peer EXCEPT ![p] = t]

LEMMA OnePeerChanges ==
    ASSUME TypesInv, PeersInv, NEW p \in Peers, NEW t, PeerOk(p, t), Becomes(p, t)
    PROVE  /\ PeersInv' /\ peer' = [q \in Peers' |-> peer'[q]]
           /\ \A q \in Peers : peer'[q] = IF q = p THEN t ELSE peer[q]
<1>1. \A q \in Peers : peer'[q] = IF q = p THEN t ELSE peer[q]
  BY DEF TypesInv, Becomes
<1>2. config' = config /\ Peers' = Peers
  BY ConfigKept DEF Becomes
<1>3. ASSUME NEW q \in Peers'
      PROVE  PeerOk(q, peer[q])'
  <2>1. PeerOk(q, peer'[q])
    BY <1>1, <1>2, <1>3 DEF PeersInv
  <2>2. \A a, b : PeerOk(a, b)' <=> PeerOk(a, b)
    BY <1>2, ConfigKept
  <2> QED BY <2>1, <2>2
<1>4. peer' = [q \in Peers' |-> peer'[q]]
  BY <1>2 DEF TypesInv, Becomes
<1> QED BY <1>1, <1>3, <1>4 DEF PeersInv

LEMMA CopiesIsNat ==
    ASSUME NEW p, NEW s \in State(p), NEW r
    PROVE  Copies(s, r) \in Nat
<1>1. /\ s.received_before_init \in Seq(Mail(p)) /\ s.listener \in Seq(Mail(p))
      /\ s.incoming \in Seq(Mail(p)) /\ s.outgoing \in Seq(Letters) /\ s.log \in Seq(OwnEntries(p))
  BY DEF State
<1>2. /\ NumIn(s.received_before_init, OfRequest(r)) \in Nat /\ NumIn(s.listener, OfRequest(r)) \in Nat
      /\ NumIn(s.incoming, OfRequest(r)) \in Nat /\ NumIn(s.outgoing, OfRequest(r)) \in Nat
      /\ NumIn(s.log, EntriesOf(r)) \in Nat
  BY <1>1, NumIsNat
<1> QED BY <1>2 DEF Copies

\* What a step of peer p, whose state becomes t, means for the requests.
Requested(p, t) ==
    /\ Peers' = Peers /\ Requests' = Requests
    /\ \A q \in Peers : peer'[q] = IF q = p THEN t ELSE peer[q]
    /\ \A q \in Peers, r \in Requests :
         /\ Copies(peer[q], r) \in Nat
         /\ Copies(peer[q], r)' = IF q = p THEN Copies(t, r) ELSE Copies(peer[q], r)

LEMMA StepOfRequests ==
    ASSUME TypesInv, PeersInv, NEW p \in Peers, NEW t, PeerOk(p, t), Becomes(p, t)
    PROVE  Requested(p, t)
<1>1. Peers' = Peers /\ Requests' = Requests /\ \A s, r : Copies(s, r)' = Copies(s, r)
  BY ConfigKept DEF Becomes
<1>2. \A q \in Peers : peer'[q] = IF q = p THEN t ELSE peer[q]
  BY OnePeerChanges
<1>3. ASSUME NEW q \in Peers, NEW r \in Requests
      PROVE  /\ Copies(peer[q], r) \in Nat
             /\ Copies(peer[q], r)' = IF q = p THEN Copies(t, r) ELSE Copies(peer[q], r)
  <2>1. Copies(peer[q], r) \in Nat
    BY CopiesIsNat DEF PeersInv, PeerOk
  <2>2. Copies(peer[q], r)' = Copies(peer'[q], r)
    BY <1>1
  <2> QED BY <1>2, <2>1, <2>2
<1> QED BY <1>1, <1>2, <1>3 DEF Requested

LEMMA RequestsStay ==
    ASSUME TokenInv, NEW p \in Peers, NEW t, Requested(p, t), t.seq = peer[p].seq,
           \A r \in Requests : Copies(t, r) = Copies(peer[p], r),
           net' = net, issued' = issued, dropped' = dropped
    PROVE  TokenInv'
<1>1. SUFFICES ASSUME NEW r \in Requests
               PROVE  TokenOk(r)'
  BY DEF TokenInv, Requested
<1>2. TokenOk(r) /\ Peers' = Peers /\ r.origin \in Peers
  BY DEF TokenInv, Requested, Requests
<1>3. \A q \in Peers : Copies(peer[q], r)' = Copies(peer[q], r)
  BY DEF Requested
<1>4. \A q \in Peers : peer'[q].seq = peer[q].seq
  BY DEF Requested
<1>5. Nowhere(r)' <=> Nowhere(r)
  BY <1>2, <1>3 DEF Nowhere
<1>6. AtPeer(r)' <=> AtPeer(r)
  BY <1>2, <1>3 DEF AtPeer
<1>7. OnTheWay(r)' <=> OnTheWay(r)
  BY <1>2, <1>3 DEF OnTheWay
<1> QED BY <1>2, <1>4, <1>5, <1>6, <1>7 DEF TokenOk

\* A new request is at the peer that makes it.
LEMMA RequestMade ==
    ASSUME TypesInv, PeersInv, TokenInv, NEW p \in Peers, NEW t, Requested(p, t),
           t.seq = peer[p].seq + 1,
           \A r \in Requests : Copies(t, r) =
               Copies(peer[p], r) + IF r = NextReq(peer[p], p) THEN 1 ELSE 0,
           net' = net, issued' = issued \cup {NextReq(peer[p], p)}, dropped' = dropped
    PROVE  TokenInv'
<1> DEFINE n == NextReq(peer[p], p)
<1>1. SUFFICES ASSUME NEW r \in Requests
               PROVE  TokenOk(r)'
  BY DEF TokenInv, Requested
<1>2. TokenOk(r) /\ Peers' = Peers /\ r.origin \in Peers /\ r.seq \in Nat
  BY DEF TokenInv, Requested, Requests
<1>3. n.origin = p /\ n.seq = peer[p].seq /\ peer[p].seq \in Nat
  BY DEF NextReq, PeersInv, PeerOk, State
<1>4. r = n <=> r.origin = p /\ r.seq = peer[p].seq
  BY DEF NextReq, Requests
<1> HIDE DEF n
<1>5. \A q \in Peers : peer'[q].seq = IF q = p THEN peer[p].seq + 1 ELSE peer[q].seq
  BY DEF Requested
<1>6. \A q \in Peers : Copies(peer[q], r)' =
                         IF q = p /\ r = n THEN Copies(peer[q], r) + 1 ELSE Copies(peer[q], r)
  BY DEF Requested, n
<1>7. r \in issued' <=> r.seq < peer'[r.origin].seq
  <2>1. r \in issued <=> r.seq < peer[r.origin].seq
    BY <1>2 DEF TokenOk
  <2>2. r \in issued' <=> r \in issued \/ r = n
    BY DEF n
  <2>3. CASE r.origin = p
    BY <1>2, <1>3, <1>4, <1>5, <2>1, <2>2, <2>3
  <2>4. CASE r.origin # p
    BY <1>2, <1>4, <1>5, <2>1, <2>2, <2>4
  <2> QED BY <2>3, <2>4
<1>8. CASE r = n
  <2>1. r \notin issued
    BY <1>2, <1>3, <1>8 DEF TokenOk
  <2>2. Nowhere(r) /\ r \notin dropped
    BY <1>2, <2>1 DEF TokenOk, TypesInv
  <2>3. AtPeer(r)'
    <3>1. \A q \in Peers : Copies(peer[q], r)' = IF q = p THEN 1 ELSE 0
      BY <1>6, <1>8, <2>2 DEF Nowhere
    <3> QED BY <1>2, <2>2, <3>1 DEF AtPeer, Nowhere
  <2>4. r \in issued' \ dropped'
    BY <1>8, <2>2 DEF n
  <2> QED BY <1>7, <2>3, <2>4 DEF TokenOk
<1>9. CASE r # n
  <2>1. \A q \in Peers : Copies(peer[q], r)' = Copies(peer[q], r)
    BY <1>6, <1>9
  <2>2. (Nowhere(r)' <=> Nowhere(r)) /\ (AtPeer(r)' <=> AtPeer(r)) /\ (OnTheWay(r)' <=> OnTheWay(r))
    <3>1. Nowhere(r)' <=> Nowhere(r)
      BY <1>2, <2>1 DEF Nowhere
    <3>2. AtPeer(r)' <=> AtPeer(r)
      BY <1>2, <2>1 DEF AtPeer
    <3>3. OnTheWay(r)' <=> OnTheWay(r)
      BY <1>2, <2>1 DEF OnTheWay
    <3> QED BY <3>1, <3>2, <3>3
  <2>3. r \in issued' \ dropped' <=> r \in issued \ dropped
    BY <1>9 DEF n
  <2> QED BY <1>2, <1>7, <2>2, <2>3 DEF TokenOk
<1> QED BY <1>8, <1>9

\* One message more on the way, or one less.
OneMore(m) ==
    /\ net' \in [DOMAIN net' -> Nat \ {0}] /\ DOMAIN net' = DOMAIN net \cup {m}
    /\ net'[m] = IF m \in DOMAIN net THEN net[m] + 1 ELSE 1
    /\ \A o \in DOMAIN net : o # m => net'[o] = net[o]
OneLess(m) ==
    /\ net' \in [DOMAIN net' -> Nat \ {0}]
    /\ DOMAIN net' = IF net[m] = 1 THEN DOMAIN net \ {m} ELSE DOMAIN net
    /\ \A o \in DOMAIN net : o # m => net'[o] = net[o]

LEMMA BagAddsOne ==
    ASSUME NEW m, net \in [DOMAIN net -> Nat \ {0}], net' = net (+) SetToBag({m})
    PROVE  OneMore(m)
<1> DEFINE S == SetToBag({m})
           D == DOMAIN net \cup {m}
           v(e) == (IF e \in DOMAIN net THEN net[e] ELSE 0) + (IF e = m THEN 1 ELSE 0)
<1>1. DOMAIN S = {m} /\ S[m] = 1
  BY DEF SetToBag
<1>2. net' = [e \in DOMAIN net \cup DOMAIN S |->
                (IF e \in DOMAIN net THEN net[e] ELSE 0) + (IF e \in DOMAIN S THEN S[e] ELSE 0)]
  BY DEF (+)
<1> HIDE DEF S
<1>3. net' = [e \in D |-> v(e)]
  BY <1>1, <1>2
<1>4. \A e \in D : v(e) \in Nat \ {0}
  OBVIOUS
<1>5. \A e \in DOMAIN net : e # m => v(e) = net[e]
  OBVIOUS
<1>6. v(m) = IF m \in DOMAIN net THEN net[m] + 1 ELSE 1
  OBVIOUS
<1> HIDE DEF v
<1>7. DOMAIN net' = D /\ \A e \in D : net'[e] = v(e)
  BY <1>3
<1>8. net' \in [DOMAIN net' -> Nat \ {0}]
  BY <1>3, <1>4, <1>7
<1> QED BY <1>5, <1>6, <1>7, <1>8 DEF OneMore

LEMMA BagTakesOne ==
    ASSUME NEW m, net \in [DOMAIN net -> Nat \ {0}], BagIn(m, net), net' = net (-) SetToBag({m})
    PROVE  OneLess(m) /\ m \in DOMAIN net
<1> DEFINE S == SetToBag({m})
           B == [e \in DOMAIN net |-> IF e \in DOMAIN S THEN net[e] - S[e] ELSE net[e]]
           D == {d \in DOMAIN B : B[d] > 0}
<1>1. DOMAIN S = {m} /\ S[m] = 1
  BY DEF SetToBag
<1>2. m \in DOMAIN net
  BY DEF BagIn, BagToSet
<1>3. net' = [e \in D |-> B[e]]
  BY DEF (-)
<1> HIDE DEF S
<1>4. DOMAIN B = DOMAIN net /\ \A e \in DOMAIN net : B[e] = IF e = m THEN net[e] - 1 ELSE net[e]
  BY <1>1
<1> HIDE DEF B
<1>5. D = IF net[m] = 1 THEN DOMAIN net \ {m} ELSE DOMAIN net
  <2>1. \A e \in DOMAIN net : B[e] > 0 <=> ~(e = m /\ net[m] = 1)
    BY <1>2, <1>4
  <2> QED BY <1>2, <1>4, <2>1
<1>6. \A e \in D : B[e] \in Nat \ {0}
  BY <1>4
<1> HIDE DEF D
<1>7. DOMAIN net' = D /\ \A e \in D : net'[e] = B[e]
  BY <1>3
<1>8. net' \in [DOMAIN net' -> Nat \ {0}]
  BY <1>3, <1>6, <1>7
<1>9. \A o \in DOMAIN net : o # m => net'[o] = net[o]
  BY <1>4, <1>5, <1>7
<1> QED BY <1>2, <1>5, <1>7, <1>8, <1>9 DEF OneLess

\* A request, or its reply, is read from a connection.
LEMMA RequestArrives ==
    ASSUME TypesInv, PeersInv, TokenInv, NEW p \in Peers, NEW t, Requested(p, t),
           t.seq = peer[p].seq, NEW m \in DOMAIN net, OneLess(m),
           \A r \in Requests : Copies(t, r) = Copies(peer[p], r) + IF m.req = r THEN 1 ELSE 0,
           issued' = issued, dropped' = dropped
    PROVE  TokenInv'
<1>1. SUFFICES ASSUME NEW r \in Requests
               PROVE  TokenOk(r)'
  BY DEF TokenInv, Requested
<1>2. TokenOk(r) /\ Peers' = Peers /\ r.origin \in Peers
  BY DEF TokenInv, Requested, Requests
<1>3. \A q \in Peers : peer'[q].seq = peer[q].seq
  BY DEF Requested
<1>4. \A q \in Peers : Copies(peer[q], r)' =
         IF q = p /\ m.req = r THEN Copies(peer[q], r) + 1 ELSE Copies(peer[q], r)
  BY DEF Requested
<1>5. CASE m.req = r
  <2>1. ~Nowhere(r) /\ ~AtPeer(r)
    BY <1>5 DEF Nowhere, AtPeer
  <2>2. OnTheWay(r) /\ r \in issued \ dropped
    BY <1>2, <2>1 DEF TokenOk
  <2>3. net[m] = 1 /\ \A o \in DOMAIN net : o.req = r => o = m
    BY <1>5, <2>2 DEF OnTheWay
  <2>4. \A o \in DOMAIN net' : o.req # r
    BY <2>3 DEF OneLess
  <2>5. \A q \in Peers : Copies(peer[q], r)' = IF q = p THEN 1 ELSE 0
    BY <1>4, <1>5, <2>2 DEF OnTheWay
  <2>6. AtPeer(r)'
    BY <1>2, <2>4, <2>5 DEF AtPeer
  <2> QED BY <1>2, <1>3, <2>2, <2>6 DEF TokenOk
<1>6. CASE m.req # r
  <2>1. \A q \in Peers : Copies(peer[q], r)' = Copies(peer[q], r)
    BY <1>4, <1>6
  <2>2. \A o : o \in DOMAIN net' /\ o.req = r <=> o \in DOMAIN net /\ o.req = r
    BY <1>6 DEF OneLess
  <2>3. \A o \in DOMAIN net : o.req = r => net'[o] = net[o]
    BY <1>6 DEF OneLess
  <2>4. Nowhere(r)' <=> Nowhere(r)
    BY <1>2, <2>1, <2>2 DEF Nowhere
  <2>5. AtPeer(r)' <=> AtPeer(r)
    BY <1>2, <2>1, <2>2 DEF AtPeer
  <2>6. OnTheWay(r)' <=> OnTheWay(r)
    BY <1>2, <2>1, <2>2, <2>3 DEF OnTheWay
  <2> QED BY <1>2, <1>3, <2>4, <2>5, <2>6 DEF TokenOk
<1> QED BY <1>5, <1>6

\* It is written to a connection.
LEMMA RequestLeaves ==
    ASSUME TypesInv, PeersInv, TokenInv, NEW p \in Peers, NEW t, Requested(p, t),
           t.seq = peer[p].seq, NEW m, OneMore(m), PeerOk(p, t),
           \A r \in Requests : Copies(peer[p], r) = Copies(t, r) + IF m.req = r THEN 1 ELSE 0,
           issued' = issued, dropped' = dropped
    PROVE  TokenInv'
<1>1. SUFFICES ASSUME NEW r \in Requests
               PROVE  TokenOk(r)'
  BY DEF TokenInv, Requested
<1>2. TokenOk(r) /\ Peers' = Peers /\ r.origin \in Peers
  BY DEF TokenInv, Requested, Requests
<1>3. \A q \in Peers : peer'[q].seq = peer[q].seq
  BY DEF Requested
<1>4. Copies(t, r) \in Nat /\ Copies(peer[p], r) = Copies(t, r) + IF m.req = r THEN 1 ELSE 0
  BY CopiesIsNat DEF PeerOk
<1>5. \A q \in Peers : Copies(peer[q], r)' = IF q = p THEN Copies(t, r) ELSE Copies(peer[q], r)
  BY DEF Requested
<1>6. CASE m.req = r
  <2>1. ~Nowhere(r) /\ ~OnTheWay(r)
    BY <1>4, <1>6 DEF Nowhere, OnTheWay
  <2>2. AtPeer(r) /\ r \in issued \ dropped
    BY <1>2, <2>1 DEF TokenOk
  <2>3. \A q \in Peers : Copies(peer[q], r) = IF q = p THEN 1 ELSE 0
    BY <1>4, <1>6, <2>2 DEF AtPeer
  <2>4. \A q \in Peers : Copies(peer[q], r)' = 0
    BY <1>4, <1>5, <1>6, <2>3
  <2>5. \A o \in DOMAIN net : o.req # r
    BY <2>2 DEF AtPeer
  <2>6. m \in DOMAIN net' /\ net'[m] = 1 /\ \A o \in DOMAIN net' : o.req = r => o = m
    BY <1>6, <2>5 DEF OneMore
  <2>7. OnTheWay(r)'
    BY <1>2, <1>6, <2>4, <2>6 DEF OnTheWay
  <2> QED BY <1>2, <1>3, <2>2, <2>7 DEF TokenOk
<1>7. CASE m.req # r
  <2>1. \A q \in Peers : Copies(peer[q], r)' = Copies(peer[q], r)
    BY <1>4, <1>5, <1>7
  <2>2. \A o : o \in DOMAIN net' /\ o.req = r <=> o \in DOMAIN net /\ o.req = r
    BY <1>7 DEF OneMore
  <2>3. \A o \in DOMAIN net : o.req = r => net'[o] = net[o]
    BY <1>7 DEF OneMore
  <2>4. Nowhere(r)' <=> Nowhere(r)
    BY <1>2, <2>1, <2>2 DEF Nowhere
  <2>5. AtPeer(r)' <=> AtPeer(r)
    BY <1>2, <2>1, <2>2 DEF AtPeer
  <2>6. OnTheWay(r)' <=> OnTheWay(r)
    BY <1>2, <2>1, <2>2, <2>3 DEF OnTheWay
  <2> QED BY <1>2, <1>3, <2>4, <2>5, <2>6 DEF TokenOk
<1> QED BY <1>6, <1>7

\* It is deleted after the last try.
LEMMA RequestLost ==
    ASSUME TypesInv, PeersInv, TokenInv, NEW p \in Peers, NEW t, Requested(p, t),
           t.seq = peer[p].seq, NEW m, net' = net, PeerOk(p, t),
           \A r \in Requests : Copies(peer[p], r) = Copies(t, r) + IF m.req = r THEN 1 ELSE 0,
           issued' = issued, dropped' = dropped \cup ({m.req} \ {NoReq})
    PROVE  TokenInv'
<1>1. SUFFICES ASSUME NEW r \in Requests
               PROVE  TokenOk(r)'
  BY DEF TokenInv, Requested
<1>2. TokenOk(r) /\ Peers' = Peers /\ r.origin \in Peers /\ r # NoReq
  BY NoRequest DEF TokenInv, Requested, Requests, TypesInv
<1>3. \A q \in Peers : peer'[q].seq = peer[q].seq
  BY DEF Requested
<1>4. Copies(t, r) \in Nat /\ Copies(peer[p], r) = Copies(t, r) + IF m.req = r THEN 1 ELSE 0
  BY CopiesIsNat DEF PeerOk
<1>5. \A q \in Peers : Copies(peer[q], r)' = IF q = p THEN Copies(t, r) ELSE Copies(peer[q], r)
  BY DEF Requested
<1>6. CASE m.req = r
  <2>1. ~Nowhere(r) /\ ~OnTheWay(r)
    BY <1>4, <1>6 DEF Nowhere, OnTheWay
  <2>2. AtPeer(r) /\ r \in issued
    BY <1>2, <2>1 DEF TokenOk
  <2>3. \A q \in Peers : Copies(peer[q], r) = IF q = p THEN 1 ELSE 0
    BY <1>4, <1>6, <2>2 DEF AtPeer
  <2>4. \A q \in Peers : Copies(peer[q], r)' = 0
    BY <1>4, <1>5, <1>6, <2>3
  <2>5. Nowhere(r)'
    BY <1>2, <2>2, <2>4 DEF Nowhere, AtPeer
  <2>6. r \in dropped'
    BY <1>2, <1>6
  <2> QED BY <1>2, <1>3, <2>2, <2>5, <2>6 DEF TokenOk
<1>7. CASE m.req # r
  <2>1. \A q \in Peers : Copies(peer[q], r)' = Copies(peer[q], r)
    BY <1>4, <1>5, <1>7
  <2>4. Nowhere(r)' <=> Nowhere(r)
    BY <1>2, <2>1 DEF Nowhere
  <2>5. AtPeer(r)' <=> AtPeer(r)
    BY <1>2, <2>1 DEF AtPeer
  <2>6. OnTheWay(r)' <=> OnTheWay(r)
    BY <1>2, <2>1 DEF OnTheWay
  <2>7. r \in dropped' <=> r \in dropped
    BY <1>7
  <2> QED BY <1>2, <1>3, <2>4, <2>5, <2>6, <2>7 DEF TokenOk
<1> QED BY <1>6, <1>7

-----------------------------------------------------------------------------
(* The threads, one by one: what a step leaves of the state of its peer. *)

LEMMA NumAppend ==
    ASSUME NEW Q, NEW s \in Seq(Q), NEW e \in Q, NEW S
    PROVE  NumIn(Append(s, e), S) = NumIn(s, S) + IF e \in S THEN 1 ELSE 0
<1>1. <<e>> \in Seq(Q) /\ Append(s, e) = s \o <<e>>
  BY AppendIsConcat
<1>2. NumIn(s \o <<e>>, S) = NumIn(s, S) + NumIn(<<e>>, S)
  BY <1>1, NumConcat
<1>3. NumIn(<<e>>, S) = IF e \in S THEN 1 ELSE 0
  BY NumOne
<1> QED BY <1>1, <1>2, <1>3, Zenon

LEMMA InConcat ==
    ASSUME NEW Q, NEW a \in Seq(Q), NEW b \in Seq(Q), NEW x
    PROVE  In(a, x) \/ In(b, x) => In(a \o b, x)
<1>0. Len(a) \in Nat /\ Len(b) \in Nat
  BY LenProperties
<1>1. /\ Len(a \o b) = Len(a) + Len(b)
      /\ \A i \in 1..(Len(a) + Len(b)) :
           (a \o b)[i] = IF i <= Len(a) THEN a[i] ELSE b[i - Len(a)]
  BY ConcatProperties
<1>2. ASSUME NEW i \in 1..Len(a), a[i] = x
      PROVE  In(a \o b, x)
  <2>1. i \in 1..(Len(a) + Len(b)) /\ i <= Len(a)
    BY <1>0
  <2>2. (a \o b)[i] = x
    BY <1>1, <1>2, <2>1
  <2> QED BY <1>1, <2>1, <2>2 DEF In
<1>3. ASSUME NEW i \in 1..Len(b), b[i] = x
      PROVE  In(a \o b, x)
  <2> DEFINE j == Len(a) + i
  <2>1. j \in 1..(Len(a) + Len(b)) /\ ~(j <= Len(a)) /\ j - Len(a) = i
    BY <1>0
  <2> HIDE DEF j
  <2>2. (a \o b)[j] = x
    BY <1>1, <1>3, <2>1
  <2> QED BY <1>1, <2>1, <2>2 DEF In
<1> QED BY <1>2, <1>3 DEF In

LEMMA InAppend ==
    ASSUME NEW Q, NEW s \in Seq(Q), NEW e \in Q
    PROVE  In(Append(s, e), e) /\ \A x : In(s, x) => In(Append(s, e), x)
<1>1. <<e>> \in Seq(Q) /\ Append(s, e) = s \o <<e>>
  BY AppendIsConcat
<1>2. In(<<e>>, e)
  <2>1. 1 \in 1..Len(<<e>>) /\ <<e>>[1] = e
    OBVIOUS
  <2> QED BY <2>1 DEF In
<1>3. \A x : In(s, x) \/ In(<<e>>, x) => In(s \o <<e>>, x)
  BY <1>1, InConcat
<1> QED BY <1>1, <1>2, <1>3, Zenon

LEMMA InHeadTail ==
    ASSUME NEW Q, NEW s \in Seq(Q), s # <<>>, NEW x, In(s, x), x # Head(s)
    PROVE  In(Tail(s), x)
<1>1. PICK i \in 1..Len(s) : s[i] = x
  BY DEF In
<1>2. Len(s) \in Nat /\ Len(s) # 0 /\ Head(s) = s[1]
  BY EmptySeq
<1>3. Len(Tail(s)) = Len(s) - 1 /\ \A j \in 1..(Len(s) - 1) : Tail(s)[j] = s[j + 1]
  BY HeadTailProperties, <1>2
<1>4. i # 1
  BY <1>1, <1>2
<1>5. i - 1 \in 1..(Len(s) - 1) /\ (i - 1) + 1 = i
  BY <1>2, <1>4
<1>6. Tail(s)[i - 1] = x
  BY <1>1, <1>3, <1>5
<1> QED BY <1>3, <1>5, <1>6 DEF In

LEMMA Belongs ==
    ASSUME NEW m \in Letters
    PROVE  /\ \A r : m \in OfRequest(r) <=> m.req = r
           /\ \A op : m \in OfType(op) <=> m.type \in Types(op)
BY DEF OfRequest, OfType

\* The queues of a peer are sequences of its mail and of letters.
LEMMA QueueTypes ==
    ASSUME NEW p, NEW s \in State(p)
    PROVE  /\ s.received_before_init \in Seq(Mail(p)) /\ s.listener \in Seq(Mail(p))
           /\ s.incoming \in Seq(Mail(p)) /\ s.outgoing \in Seq(Letters)
           /\ s.log \in Seq(OwnEntries(p)) /\ s.count \in [Counted -> Counters]
           /\ s.initiated \in [Counted -> Nat] /\ s.init \in BOOLEAN /\ s.seq \in Nat
           /\ Mail(p) \subseteq Letters
BY DEF State, Mail

LEMMA Nums ==
    ASSUME NEW p, NEW s \in State(p), NEW S
    PROVE  /\ NumIn(s.received_before_init, S) \in Nat /\ NumIn(s.listener, S) \in Nat
           /\ NumIn(s.incoming, S) \in Nat /\ NumIn(s.outgoing, S) \in Nat
           /\ NumIn(s.log, S) \in Nat
BY QueueTypes, NumIsNat

\* A step within a peer that loses no message, and one that takes m in.
Keeps(s, t) ==
    /\ t.seq = s.seq /\ Known(s, t)
    /\ \A x : At(s, x) => At(t, x)
    /\ \A r \in Requests : Copies(t, r) = Copies(s, r)
TakesIn(s, t, m) ==
    /\ t.seq = s.seq /\ Known(s, t)
    /\ At(t, m) /\ \A x : At(s, x) => At(t, x)
    /\ \A r \in Requests : Copies(t, r) = Copies(s, r) + IF m.req = r THEN 1 ELSE 0

LEMMA KeepBackKeeps ==
    ASSUME NEW p, NEW s, PeerOk(p, s), NEW t,
           t = [s EXCEPT !.received_before_init = s.received_before_init \o s.listener,
                         !.listener = <<>>]
    PROVE  PeerOk(p, t) /\ Keeps(s, t)
<1> DEFINE q == s.received_before_init \o s.listener
           e == <<>>
<1>1. s \in State(p)
  BY DEF PeerOk
<1>2. s.received_before_init \in Seq(Mail(p)) /\ s.listener \in Seq(Mail(p))
  BY <1>1, QueueTypes
<1>3. /\ q \in Seq(Mail(p)) /\ Len(q) = Len(s.received_before_init) + Len(s.listener)
      /\ e \in Seq(Mail(p)) /\ Len(e) = 0
      /\ Len(s.received_before_init) \in Nat /\ Len(s.listener) \in Nat
  BY <1>2, ConcatProperties
<1>4. \A S : NumIn(q, S) = NumIn(s.received_before_init, S) + NumIn(s.listener, S)
  BY <1>2, NumConcat
<1>5. \A S : NumIn(e, S) = 0
  BY NumEmpty
<1>6. \A x : In(s.received_before_init, x) \/ In(s.listener, x) => In(q, x)
  BY <1>2, InConcat
<1> HIDE DEF q, e
<1>7. /\ t \in State(p) /\ t.received_before_init = q /\ t.listener = e /\ t.incoming = s.incoming
      /\ t.outgoing = s.outgoing /\ t.log = s.log /\ t.cache = s.cache /\ t.count = s.count
      /\ t.initiated = s.initiated /\ t.pending = s.pending /\ t.seq = s.seq /\ Known(s, t)
  <2>1. t = [s EXCEPT !.received_before_init = q, !.listener = e]
    BY DEF q, e
  <2> QED BY <1>1, <1>3, <2>1 DEF State, Known
<1>8. \A S : /\ NumIn(t.received_before_init, S) + NumIn(t.listener, S)
                  = NumIn(s.received_before_init, S) + NumIn(s.listener, S)
             /\ NumIn(s.incoming, S) \in Nat /\ NumIn(s.outgoing, S) \in Nat
  <2> TAKE S
  <2>1. NumIn(t.received_before_init, S) = NumIn(q, S) /\ NumIn(t.listener, S) = NumIn(e, S)
    BY <1>7
  <2>2. /\ NumIn(q, S) = NumIn(s.received_before_init, S) + NumIn(s.listener, S)
        /\ NumIn(e, S) = 0
    BY <1>4, <1>5
  <2>3. /\ NumIn(s.received_before_init, S) \in Nat /\ NumIn(s.listener, S) \in Nat
        /\ NumIn(s.incoming, S) \in Nat /\ NumIn(s.outgoing, S) \in Nat
    BY <1>1, Nums
  <2> QED BY <2>1, <2>2, <2>3
<1>9. \A r \in Requests : Copies(t, r) = Copies(s, r)
  BY <1>7, <1>8 DEF Copies
<1>10. \A op \in Counted : HeldOf(t, op) = HeldOf(s, op)
  BY <1>7, <1>8 DEF HeldOf
<1>11. \A op \in Counted : Even(t, op)
  BY <1>7, <1>10 DEF Even, PeerOk
<1>12. \A x : At(s, x) => At(t, x)
  BY <1>6, <1>7 DEF At
<1>13. PendingOk(t)
  <2>1. PendingOk(s)
    BY DEF PeerOk
  <2>2. t.pending # "wait" => t.init
    BY <1>7, <2>1 DEF PendingOk, Known
  <2>3. /\ Len(t.listener) = 0
        /\ Len(t.received_before_init) = Len(s.received_before_init) + Len(s.listener)
    BY <1>3, <1>7
  <2>4. t.pending = "done" => Len(s.received_before_init) + Len(s.listener) <= 1
    BY <1>7, <2>1 DEF PendingOk
  <2>5. Len(t.listener) <= 1
    BY <2>3
  <2>6. Len(t.received_before_init) + Len(t.listener) = Len(s.received_before_init) + Len(s.listener)
    BY <1>3, <2>3
  <2>7. t.pending = "done" => Len(t.received_before_init) + Len(t.listener) <= 1
    BY <2>4, <2>6, Zenon
  <2> QED BY <2>2, <2>5, <2>7, Zenon DEF PendingOk
<1>14. InitOk(t, p)
  BY <1>7 DEF InitOk, PeerOk, Known
<1> QED BY <1>7, <1>9, <1>11, <1>12, <1>13, <1>14 DEF PeerOk, Keeps

LEMMA PendingStartKeeps ==
    ASSUME NEW p, NEW s, PeerOk(p, s), s.init, NEW t, t = [s EXCEPT !.pending = "drain"]
    PROVE  PeerOk(p, t) /\ Keeps(s, t)
<1>1. s \in State(p)
  BY DEF PeerOk
<1>2. /\ t \in State(p) /\ t.received_before_init = s.received_before_init
      /\ t.listener = s.listener /\ t.incoming = s.incoming /\ t.outgoing = s.outgoing
      /\ t.log = s.log /\ t.cache = s.cache /\ t.count = s.count
      /\ t.initiated = s.initiated /\ t.pending = "drain" /\ t.seq = s.seq /\ Known(s, t)
  BY <1>1 DEF State, Known
<1>3. \A r \in Requests : Copies(t, r) = Copies(s, r)
  BY <1>2 DEF Copies
<1>4. \A op \in Counted : Even(t, op)
  BY <1>2 DEF Even, HeldOf, PeerOk
<1>5. PendingOk(t) /\ InitOk(t, p)
  BY <1>2 DEF PendingOk, InitOk, PeerOk, Known
<1>6. \A x : At(s, x) => At(t, x)
  BY <1>2 DEF At
<1> QED BY <1>2, <1>3, <1>4, <1>5, <1>6 DEF PeerOk, Keeps

LEMMA PendingStepKeeps ==
    ASSUME NEW p, NEW s, PeerOk(p, s), s.pending = "drain", NEW t,
           t = IF s.received_before_init = <<>> THEN [s EXCEPT !.pending = "done"]
               ELSE [addToIncomingQueue(s, Head(s.received_before_init))
                       EXCEPT !.received_before_init = Tail(s.received_before_init)]
    PROVE  PeerOk(p, t) /\ Keeps(s, t)
<1>1. s \in State(p) /\ PendingOk(s) /\ InitOk(s, p) /\ s.init
  BY DEF PeerOk, PendingOk
<1>2. CASE s.received_before_init = <<>>
  <2>0. t = [s EXCEPT !.pending = "done"]
    BY <1>2
  <2>1. /\ t \in State(p) /\ t.received_before_init = s.received_before_init
        /\ t.listener = s.listener /\ t.incoming = s.incoming /\ t.outgoing = s.outgoing
        /\ t.log = s.log /\ t.cache = s.cache /\ t.count = s.count
        /\ t.initiated = s.initiated /\ t.pending = "done" /\ t.seq = s.seq /\ Known(s, t)
    BY <1>1, <2>0 DEF State, Known
  <2>2. \A r \in Requests : Copies(t, r) = Copies(s, r)
    BY <2>1 DEF Copies
  <2>3. \A op \in Counted : Even(t, op)
    BY <2>1 DEF Even, HeldOf, PeerOk
  <2>4. PendingOk(t)
    <3>1. Len(t.received_before_init) = 0 /\ Len(t.listener) <= 1 /\ Len(t.listener) \in Nat
      <4>1. t.listener \in Seq(Mail(p))
        BY <2>1, QueueTypes
      <4> QED BY <1>1, <1>2, <2>1, <4>1, LenProperties DEF PendingOk
    <3>2. t.init
      BY <1>1, <2>1 DEF Known
    <3>4. \A i, j : i = 0 /\ j \in Nat /\ j <= 1 => i + j <= 1
      OBVIOUS
    <3>3. Len(t.received_before_init) + Len(t.listener) <= 1
      BY <3>1, <3>4, Zenon
    <3> QED BY <3>1, <3>2, <3>3, Zenon DEF PendingOk
  <2>5. InitOk(t, p)
    BY <2>1 DEF InitOk, PeerOk, Known
  <2>6. \A x : At(s, x) => At(t, x)
    BY <2>1 DEF At
  <2> QED BY <2>1, <2>2, <2>3, <2>4, <2>5, <2>6 DEF PeerOk, Keeps
<1>3. CASE s.received_before_init # <<>>
  <2> DEFINE h == Head(s.received_before_init)
             a == Append(s.incoming, h)
             b == Tail(s.received_before_init)
  <2>1. s.received_before_init \in Seq(Mail(p)) /\ s.incoming \in Seq(Mail(p))
    BY <1>1, QueueTypes
  <2>2. h \in Mail(p) /\ b \in Seq(Mail(p)) /\ Len(b) = Len(s.received_before_init) - 1
    <3>1. Len(s.received_before_init) # 0
      BY <1>3, <2>1, EmptySeq
    <3> QED BY <1>3, <2>1, <3>1, HeadTailProperties
  <2>3. a \in Seq(Mail(p))
    BY <2>1, <2>2, AppendProperties
  <2>4. \A S : /\ NumIn(a, S) = NumIn(s.incoming, S) + (IF h \in S THEN 1 ELSE 0)
               /\ NumIn(s.received_before_init, S) = NumIn(b, S) + (IF h \in S THEN 1 ELSE 0)
               /\ NumIn(b, S) \in Nat
    <3> TAKE S
    <3>1. NumIn(a, S) = NumIn(s.incoming, S) + IF h \in S THEN 1 ELSE 0
      BY <2>1, <2>2, NumAppend
    <3>2. NumIn(s.received_before_init, S) = NumIn(b, S) + IF h \in S THEN 1 ELSE 0
      BY <1>3, <2>1, NumHeadTail
    <3>3. NumIn(b, S) \in Nat
      BY <2>2, NumIsNat
    <3> QED BY <3>1, <3>2, <3>3
  <2>5. \A x : In(s.received_before_init, x) \/ In(s.incoming, x) => In(b, x) \/ In(a, x)
    <3>1. In(a, h) /\ \A x : In(s.incoming, x) => In(a, x)
      BY <2>1, <2>2, InAppend
    <3>2. \A x : In(s.received_before_init, x) /\ x # h => In(b, x)
      BY <1>3, <2>1, InHeadTail
    <3> QED BY <3>1, <3>2
  <2>6. t = [s EXCEPT !.incoming = a, !.received_before_init = b]
    BY <1>3 DEF addToIncomingQueue
  <2> HIDE DEF a, b, h
  <2>7. /\ t \in State(p) /\ t.received_before_init = b /\ t.listener = s.listener
        /\ t.incoming = a /\ t.outgoing = s.outgoing /\ t.log = s.log /\ t.cache = s.cache
        /\ t.count = s.count /\ t.initiated = s.initiated /\ t.pending = "drain"
        /\ t.seq = s.seq /\ Known(s, t)
    BY <1>1, <2>2, <2>3, <2>6 DEF State, Known
  <2>8. \A S : /\ NumIn(t.received_before_init, S) + NumIn(t.incoming, S)
                    = NumIn(s.received_before_init, S) + NumIn(s.incoming, S)
               /\ NumIn(t.received_before_init, S) \in Nat /\ NumIn(t.incoming, S) \in Nat
               /\ NumIn(s.received_before_init, S) \in Nat /\ NumIn(s.incoming, S) \in Nat
               /\ NumIn(s.listener, S) \in Nat /\ NumIn(s.outgoing, S) \in Nat /\ NumIn(s.log, S) \in Nat
    <3> TAKE S
    <3>1. NumIn(t.received_before_init, S) = NumIn(b, S) /\ NumIn(t.incoming, S) = NumIn(a, S)
      BY <2>7
    <3>2. /\ NumIn(s.received_before_init, S) \in Nat /\ NumIn(s.listener, S) \in Nat
          /\ NumIn(s.incoming, S) \in Nat /\ NumIn(s.outgoing, S) \in Nat /\ NumIn(s.log, S) \in Nat
      BY <1>1, Nums
    <3>3. /\ NumIn(a, S) = NumIn(s.incoming, S) + (IF h \in S THEN 1 ELSE 0)
          /\ NumIn(s.received_before_init, S) = NumIn(b, S) + (IF h \in S THEN 1 ELSE 0)
          /\ NumIn(b, S) \in Nat
      BY <2>4
    <3> QED BY <3>1, <3>2, <3>3
  <2>20. \A S : /\ NumIn(t.listener, S) = NumIn(s.listener, S)
                /\ NumIn(t.outgoing, S) = NumIn(s.outgoing, S) /\ NumIn(t.log, S) = NumIn(s.log, S)
    BY <2>7
  <2>9. \A r \in Requests : Copies(t, r) = Copies(s, r)
    <3> TAKE r \in Requests
    <3> DEFINE S == OfRequest(r)
    <3>1. /\ NumIn(t.received_before_init, S) + NumIn(t.incoming, S)
              = NumIn(s.received_before_init, S) + NumIn(s.incoming, S)
          /\ NumIn(t.received_before_init, S) \in Nat /\ NumIn(t.incoming, S) \in Nat
          /\ NumIn(s.received_before_init, S) \in Nat /\ NumIn(s.incoming, S) \in Nat
          /\ NumIn(s.listener, S) \in Nat /\ NumIn(s.outgoing, S) \in Nat
      BY <2>8
    <3>2. /\ NumIn(t.listener, S) = NumIn(s.listener, S)
          /\ NumIn(t.outgoing, S) = NumIn(s.outgoing, S)
      BY <2>20
    <3>3. /\ NumIn(t.log, EntriesOf(r)) = NumIn(s.log, EntriesOf(r))
          /\ NumIn(s.log, EntriesOf(r)) \in Nat
      BY <2>8, <2>20
    <3> HIDE DEF S
    <3> QED BY <3>1, <3>2, <3>3, SMTT(30) DEF Copies, S
  <2>10. \A op \in Counted : HeldOf(t, op) = HeldOf(s, op)
    <3> TAKE op \in Counted
    <3> DEFINE S == OfType(op)
    <3>1. /\ NumIn(t.received_before_init, S) + NumIn(t.incoming, S)
              = NumIn(s.received_before_init, S) + NumIn(s.incoming, S)
          /\ NumIn(t.received_before_init, S) \in Nat /\ NumIn(t.incoming, S) \in Nat
          /\ NumIn(s.received_before_init, S) \in Nat /\ NumIn(s.incoming, S) \in Nat
          /\ NumIn(s.listener, S) \in Nat /\ NumIn(s.outgoing, S) \in Nat
      BY <2>8
    <3>2. /\ NumIn(t.listener, S) = NumIn(s.listener, S)
          /\ NumIn(t.outgoing, S) = NumIn(s.outgoing, S)
      BY <2>20
    <3> QED BY <3>1, <3>2 DEF HeldOf
  <2>11. \A op \in Counted : Even(t, op)
    BY <2>7, <2>10 DEF Even, PeerOk
  <2>12. \A x : At(s, x) => At(t, x)
    BY <2>5, <2>7 DEF At
  <2>13. PendingOk(t)
    BY <1>1, <2>7 DEF PendingOk, Known
  <2>14. InitOk(t, p)
    BY <1>1, <2>7 DEF InitOk, Known
  <2>15. Outward(t.outgoing)
    BY <2>7 DEF PeerOk
  <2> QED BY <2>7, <2>9, <2>11, <2>12, <2>13, <2>14, <2>15 DEF PeerOk, Keeps
<1> QED BY <1>2, <1>3

\* The messages of S at a peer.
Load(s, S) ==
    NumIn(s.received_before_init, S) + NumIn(s.listener, S)
    + NumIn(s.incoming, S) + NumIn(s.outgoing, S)

LEMMA Loads ==
    ASSUME NEW p, NEW s \in State(p)
    PROVE  /\ \A S : Load(s, S) \in Nat
           /\ \A r : NumIn(s.log, EntriesOf(r)) \in Nat
           /\ \A r : Copies(s, r) = Load(s, OfRequest(r)) + NumIn(s.log, EntriesOf(r))
           /\ \A op : HeldOf(s, op) = Load(s, OfType(op))
<1>1. ASSUME NEW S
      PROVE  Load(s, S) \in Nat
  BY Nums DEF Load
<1>2. \A r : Copies(s, r) = Load(s, OfRequest(r)) + NumIn(s.log, EntriesOf(r))
  BY DEF Load, Copies
<1>3. \A op : HeldOf(s, op) = Load(s, OfType(op))
  BY DEF Load, HeldOf
<1>4. \A r : NumIn(s.log, EntriesOf(r)) \in Nat
  BY Nums
<1> QED BY <1>1, <1>2, <1>3, <1>4

\* One message more of a type is received.
Receives(s, u, m, op) ==
    /\ u.count[op].received = s.count[op].received + IF m.type \in Types(op) THEN 1 ELSE 0
    /\ u.count[op].generated = s.count[op].generated
    /\ u.count[op].processed = s.count[op].processed
    /\ u.count[op].forwarded = s.count[op].forwarded
    /\ u.count[op].dropped = s.count[op].dropped

LEMMA BumpReceived ==
    ASSUME NEW p, NEW s \in State(p), NEW op \in Counted, NEW m, m.type \in Types(op)
    PROVE  LET t == Bump(s, op, "received")
           IN  Recounted(s, p, t) /\ \A o \in Counted : Receives(s, t, m, o)
<1> DEFINE f == "received"
           t == Bump(s, op, f)
<1>1. f \in Fields
  BY DEF Fields
<1>2. f = "received"
  OBVIOUS
<1> HIDE DEF f
<1>3. /\ Recounted(s, p, t) /\ Elsewhere(s, t, op)
      /\ t.count[op] = [s.count[op] EXCEPT ![f] = @ + 1] /\ s.count[op] \in Counters
  BY <1>1, BumpCount
<1> HIDE DEF t
<1>4. ASSUME NEW o \in Counted
      PROVE  Receives(s, t, m, o)
  <2>0. s.count \in [Counted -> Counters]
    BY DEF State
  <2>1. CASE o = op
    <3>1. /\ t.count[o].received = s.count[o].received + 1
          /\ t.count[o].generated = s.count[o].generated
          /\ t.count[o].processed = s.count[o].processed
          /\ t.count[o].forwarded = s.count[o].forwarded
          /\ t.count[o].dropped = s.count[o].dropped
      BY <1>2, <1>3, <2>1 DEF Counters
    <3> QED BY <2>1, <3>1 DEF Receives
  <2>2. CASE o # op
    <3>1. t.count[o] = s.count[o]
      BY <1>3, <2>2 DEF Elsewhere
    <3>2. m.type \notin Types(o)
      BY <2>2 DEF Types, Counted
    <3>3. s.count[o].received \in Nat
      BY <2>0 DEF Counters
    <3> QED BY <3>1, <3>2, <3>3 DEF Receives
  <2> QED BY <2>1, <2>2
<1> QED BY <1>3, <1>4 DEF t, f

LEMMA ArrivedFacts ==
    ASSUME NEW p, NEW s \in State(p), NEW m
    PROVE  Recounted(s, p, Arrived(s, m)) /\ \A o \in Counted : Receives(s, Arrived(s, m), m, o)
<1>1. CASE m.type \in {"GET", "INITIATE_GET"}
  <2>1. Arrived(s, m) = Bump(s, "GET", "received")
    BY <1>1 DEF Arrived
  <2>2. m.type \in Types("GET") /\ "GET" \in Counted
    BY <1>1 DEF Types, Counted
  <2> QED BY <2>1, <2>2, BumpReceived
<1>2. CASE m.type \in {"PUT", "INITIATE_PUT"}
  <2>1. Arrived(s, m) = Bump(s, "PUT", "received")
    BY <1>2 DEF Arrived
  <2>2. m.type \in Types("PUT") /\ "PUT" \in Counted
    BY <1>2 DEF Types, Counted
  <2> QED BY <2>1, <2>2, BumpReceived
<1>3. CASE m.type \notin {"GET", "INITIATE_GET", "PUT", "INITIATE_PUT"}
  <2>1. Arrived(s, m) = s
    BY <1>3 DEF Arrived
  <2>2. \A o \in Counted : m.type \notin Types(o)
    BY <1>3 DEF Types, Counted
  <2>3. \A o \in Counted : s.count[o].received \in Nat
    BY DEF State, Counters
  <2>4. \A o \in Counted : Receives(s, s, m, o)
    BY <2>2, <2>3 DEF Receives
  <2>5. Recounted(s, p, s)
    BY DEF Recounted, Untouched, Known
  <2> QED BY <2>1, <2>4, <2>5
<1> QED BY <1>1, <1>2, <1>3

\* A message that comes in is in one of the two places.
Inserting(u, m) ==
    IF u.init \/ m.type = "INIT" THEN addToIncomingQueue(u, m)
    ELSE [u EXCEPT !.listener = <<m>>]
LEMMA Inserted ==
    ASSUME NEW p, NEW s \in State(p), NEW u \in State(p), NEW m \in Mail(p),
           Untouched(s, u), u.outgoing = s.outgoing, u.log = s.log,
           Known(s, u), u.cache = s.cache,
           NEW t, t = Inserting(u, m)
    PROVE  /\ t \in State(p) /\ t.seq = s.seq /\ Known(s, t) /\ t.cache = s.cache
           /\ t.count = u.count /\ t.initiated = s.initiated /\ t.outgoing = s.outgoing
           /\ t.log = s.log /\ t.received_before_init = s.received_before_init
           /\ t.pending = s.pending
           /\ IF s.init \/ m.type = "INIT"
              THEN t.listener = s.listener /\ t.incoming = Append(s.incoming, m)
              ELSE t.listener = <<m>> /\ t.incoming = s.incoming
<1>1. u.init = s.init /\ u.incoming = s.incoming /\ u.listener = s.listener
  BY DEF Known, Untouched
<1>2. CASE s.init \/ m.type = "INIT"
  <2> DEFINE q == Append(u.incoming, m)
  <2>1. q \in Seq(Mail(p)) /\ q = Append(s.incoming, m)
    <3>1. u.incoming \in Seq(Mail(p))
      BY QueueTypes
    <3> QED BY <1>1, <3>1, AppendProperties
  <2>2. t = [u EXCEPT !.incoming = q]
    BY <1>1, <1>2 DEF addToIncomingQueue, Inserting
  <2> HIDE DEF q
  <2>3. /\ t \in State(p) /\ t.incoming = q /\ t.listener = u.listener /\ t.seq = u.seq
        /\ Known(u, t) /\ t.cache = u.cache /\ t.count = u.count /\ t.initiated = u.initiated
        /\ t.outgoing = u.outgoing /\ t.log = u.log
        /\ t.received_before_init = u.received_before_init /\ t.pending = u.pending
    BY <2>1, <2>2 DEF State, Known
  <2> QED BY <1>1, <1>2, <2>1, <2>3 DEF Known, Untouched
<1>3. CASE ~(s.init \/ m.type = "INIT")
  <2> DEFINE q == <<m>>
  <2>1. q \in Seq(Mail(p))
    OBVIOUS
  <2>2. t = [u EXCEPT !.listener = q]
    BY <1>1, <1>3 DEF Inserting
  <2> HIDE DEF q
  <2>3. /\ t \in State(p) /\ t.incoming = u.incoming /\ t.listener = q /\ t.seq = u.seq
        /\ Known(u, t) /\ t.cache = u.cache /\ t.count = u.count /\ t.initiated = u.initiated
        /\ t.outgoing = u.outgoing /\ t.log = u.log
        /\ t.received_before_init = u.received_before_init /\ t.pending = u.pending
    BY <2>1, <2>2 DEF State, Known
  <2> QED BY <1>1, <1>3, <2>3 DEF Known, Untouched, q
<1> QED BY <1>2, <1>3

LEMMA CountsAreNat ==
    ASSUME NEW p, NEW s \in State(p), NEW op \in Counted
    PROVE  /\ s.count[op].received \in Nat /\ s.count[op].generated \in Nat
           /\ s.count[op].processed \in Nat /\ s.count[op].forwarded \in Nat
           /\ s.count[op].dropped \in Nat /\ s.initiated[op] \in Nat
<1>1. s.count[op] \in Counters /\ s.initiated[op] \in Nat
  BY QueueTypes
<1> QED BY <1>1 DEF Counters

\* The counters stay in balance when what changes is in balance.
Shift(s, t, op, a, b, c, d, e, i, l) ==
    /\ t.count[op].received = s.count[op].received + a
    /\ t.count[op].generated = s.count[op].generated + b
    /\ t.count[op].processed = s.count[op].processed + c
    /\ t.count[op].forwarded = s.count[op].forwarded + d
    /\ t.count[op].dropped = s.count[op].dropped + e
    /\ t.initiated[op] = s.initiated[op] + i
    /\ Load(t, OfType(op)) = Load(s, OfType(op)) + l
    /\ a + b = c + d + e + i + l

LEMMA EvenStays ==
    ASSUME NEW p, NEW s \in State(p), NEW t \in State(p), NEW op \in Counted, Even(s, op),
           NEW a \in Int, NEW b \in Int, NEW c \in Int, NEW d \in Int, NEW e \in Int,
           NEW i \in Int, NEW l \in Int, Shift(s, t, op, a, b, c, d, e, i, l)
    PROVE  Even(t, op)
<1> DEFINE x1 == s.count[op].received
           x2 == s.count[op].generated
           x3 == s.count[op].processed
           x4 == s.count[op].forwarded
           x5 == s.count[op].dropped
           x6 == s.initiated[op]
           x7 == Load(s, OfType(op))
           y1 == t.count[op].received
           y2 == t.count[op].generated
           y3 == t.count[op].processed
           y4 == t.count[op].forwarded
           y5 == t.count[op].dropped
           y6 == t.initiated[op]
           y7 == Load(t, OfType(op))
<1>1. /\ y1 = x1 + a /\ y2 = x2 + b /\ y3 = x3 + c /\ y4 = x4 + d /\ y5 = x5 + e
      /\ y6 = x6 + i /\ y7 = x7 + l /\ a + b = c + d + e + i + l
  BY DEF Shift
<1>2. x1 \in Int /\ x2 \in Int /\ x3 \in Int /\ x4 \in Int /\ x5 \in Int /\ x6 \in Int
  BY CountsAreNat
<1>3. HeldOf(t, op) = y7 /\ HeldOf(s, op) = x7 /\ x7 \in Int
  BY Loads
<1>4. x1 + x2 = x3 + x4 + x5 + x6 + x7
  BY <1>3 DEF Even
<1>5. Even(t, op) <=> y1 + y2 = y3 + y4 + y5 + y6 + y7
  BY <1>3 DEF Even
<1> HIDE DEF x1, x2, x3, x4, x5, x6, x7, y1, y2, y3, y4, y5, y6, y7
<1> QED BY <1>1, <1>2, <1>3, <1>4, <1>5

LEMMA ListenTakes ==
    ASSUME NEW p, NEW s, PeerOk(p, s), s.listener = <<>>, NEW m \in Mail(p), NEW t,
           t = Inserting(Arrived(s, m), m)
    PROVE  PeerOk(p, t) /\ TakesIn(s, t, m)
<1> DEFINE u == Arrived(s, m)
<1>1. s \in State(p) /\ m \in Letters
  BY DEF PeerOk, Mail
<1>2. Recounted(s, p, u) /\ \A o \in Counted : Receives(s, u, m, o)
  BY <1>1, ArrivedFacts
<1>3. t = Inserting(u, m)
  OBVIOUS
<1> HIDE DEF u
<1>4. /\ u \in State(p) /\ Untouched(s, u) /\ u.outgoing = s.outgoing /\ u.log = s.log
      /\ Known(s, u) /\ u.cache = s.cache
  BY <1>2 DEF Recounted
<1>5. /\ t \in State(p) /\ t.seq = s.seq /\ Known(s, t) /\ t.cache = s.cache
      /\ t.count = u.count /\ t.initiated = s.initiated /\ t.outgoing = s.outgoing
      /\ t.log = s.log /\ t.received_before_init = s.received_before_init
      /\ t.pending = s.pending
      /\ IF s.init \/ m.type = "INIT"
         THEN t.listener = s.listener /\ t.incoming = Append(s.incoming, m)
         ELSE t.listener = <<m>> /\ t.incoming = s.incoming
  BY <1>1, <1>3, <1>4, Inserted
<1>6. s.incoming \in Seq(Mail(p)) /\ s.listener \in Seq(Mail(p)) /\ <<m>> \in Seq(Mail(p))
  BY <1>1, QueueTypes
<1>7. \A S : Load(t, S) = Load(s, S) + IF m \in S THEN 1 ELSE 0
  <2> TAKE S
  <2>1. /\ NumIn(s.received_before_init, S) \in Nat /\ NumIn(s.listener, S) = 0
        /\ NumIn(s.incoming, S) \in Nat /\ NumIn(s.outgoing, S) \in Nat
    BY <1>1, Nums, NumEmpty
  <2>2. /\ NumIn(t.received_before_init, S) = NumIn(s.received_before_init, S)
        /\ NumIn(t.outgoing, S) = NumIn(s.outgoing, S)
    BY <1>5
  <2>3. CASE s.init \/ m.type = "INIT"
    <3>1. NumIn(Append(s.incoming, m), S) = NumIn(s.incoming, S) + IF m \in S THEN 1 ELSE 0
      BY <1>6, NumAppend
    <3>2. t.incoming = Append(s.incoming, m) /\ t.listener = s.listener
      BY <1>5, <2>3
    <3>3. /\ NumIn(t.incoming, S) = NumIn(s.incoming, S) + IF m \in S THEN 1 ELSE 0
          /\ NumIn(t.listener, S) = NumIn(s.listener, S)
      BY <3>1, <3>2, Zenon
    <3> QED BY <2>1, <2>2, <3>3 DEF Load
  <2>4. CASE ~(s.init \/ m.type = "INIT")
    <3>1. /\ NumIn(t.listener, S) = IF m \in S THEN 1 ELSE 0
          /\ NumIn(t.incoming, S) = NumIn(s.incoming, S)
      BY <1>5, <2>4, NumOne
    <3> QED BY <2>1, <2>2, <3>1 DEF Load
  <2> QED BY <2>3, <2>4
<1>8. \A r \in Requests : Copies(t, r) = Copies(s, r) + IF m.req = r THEN 1 ELSE 0
  <2> TAKE r \in Requests
  <2>1. Load(t, OfRequest(r)) = Load(s, OfRequest(r)) + IF m.req = r THEN 1 ELSE 0
    BY <1>1, <1>7, Belongs
  <2>2. NumIn(t.log, EntriesOf(r)) = NumIn(s.log, EntriesOf(r))
    BY <1>5
  <2>3. /\ Copies(t, r) = Load(t, OfRequest(r)) + NumIn(t.log, EntriesOf(r))
        /\ Copies(s, r) = Load(s, OfRequest(r)) + NumIn(s.log, EntriesOf(r))
        /\ Load(s, OfRequest(r)) \in Nat /\ NumIn(s.log, EntriesOf(r)) \in Nat
    BY <1>1, <1>5, Loads
  <2> QED BY <2>1, <2>2, <2>3
<1>9. \A op \in Counted : Even(t, op)
  <2> TAKE op \in Counted
  <2> DEFINE x == IF m.type \in Types(op) THEN 1 ELSE 0
  <2>1. Even(s, op)
    BY DEF PeerOk
  <2>2. Load(t, OfType(op)) = Load(s, OfType(op)) + x
    BY <1>1, <1>7, Belongs
  <2>4. x \in Int /\ 0 \in Int /\ x + 0 = 0 + 0 + 0 + 0 + x
    OBVIOUS
  <2>3. Shift(s, t, op, x, 0, 0, 0, 0, 0, x)
    <3>1. /\ t.count[op].received = s.count[op].received + x
          /\ t.count[op].generated = s.count[op].generated
          /\ t.count[op].processed = s.count[op].processed
          /\ t.count[op].forwarded = s.count[op].forwarded
          /\ t.count[op].dropped = s.count[op].dropped
          /\ t.initiated[op] = s.initiated[op]
      BY <1>2, <1>5 DEF Receives
    <3> HIDE DEF x
    <3> QED BY <1>1, <2>2, <2>4, <3>1, CountsAreNat DEF Shift
  <2> HIDE DEF x
  <2> QED BY <1>1, <1>5, <2>1, <2>3, <2>4, EvenStays
<1>10. At(t, m) /\ \A x : At(s, x) => At(t, x)
  <2>1. CASE s.init \/ m.type = "INIT"
    <3>1. /\ In(Append(s.incoming, m), m)
          /\ \A x : In(s.incoming, x) => In(Append(s.incoming, m), x)
      BY <1>6, InAppend
    <3>2. t.incoming = Append(s.incoming, m) /\ t.listener = s.listener
      BY <1>5, <2>1
    <3>3. In(t.incoming, m) /\ \A x : In(s.incoming, x) => In(t.incoming, x)
      BY <3>1, <3>2, Zenon
    <3> QED BY <1>5, <3>2, <3>3 DEF At
  <2>2. CASE ~(s.init \/ m.type = "INIT")
    <3>1. In(t.listener, m)
      <4>1. t.listener = <<m>> /\ 1 \in 1..Len(<<m>>) /\ <<m>>[1] = m
        BY <1>5, <2>2
      <4> QED BY <4>1 DEF In
    <3>2. \A x : ~In(s.listener, x)
      BY DEF In
    <3> QED BY <1>5, <2>2, <3>1, <3>2 DEF At
  <2> QED BY <2>1, <2>2
<1>11. PendingOk(t)
  <2>1. PendingOk(s)
    BY DEF PeerOk
  <2>2. CASE s.init \/ m.type = "INIT"
    BY <1>5, <2>1, <2>2 DEF PendingOk, Known
  <2>3. CASE ~(s.init \/ m.type = "INIT")
    <3>1. t.pending = "wait" /\ Len(t.listener) = 1
      <4>1. t.pending = s.pending /\ s.pending = "wait"
        BY <1>5, <2>1, <2>3 DEF PendingOk
      <4>2. t.listener = <<m>>
        BY <1>5, <2>3
      <4>3. Len(<<m>>) = 1
        OBVIOUS
      <4> QED BY <4>1, <4>2, <4>3, Zenon
    <3>4. 1 <= 1
      OBVIOUS
    <3>2. Len(t.listener) <= 1
      BY <3>1, <3>4, Zenon
    <3>3. t.pending # "done"
      BY <3>1
    <3> QED BY <3>1, <3>2, <3>3, Zenon DEF PendingOk
  <2> QED BY <2>2, <2>3
<1>12. InitOk(t, p)
  <2>1. InitOk(s, p)
    BY DEF PeerOk
  <2>2. CASE s.init
    BY <1>5, <2>1, <2>2 DEF InitOk, Known
  <2>3. CASE ~s.init
    <3>1. /\ ~t.init /\ t.rt = {} /\ t.pc = {}
          /\ \A i \in 1..Len(s.incoming) : s.incoming[i].type = "INIT"
      BY <1>5, <2>1, <2>3 DEF InitOk, Known
    <3>2. \A i \in 1..Len(t.incoming) : t.incoming[i].type = "INIT"
      <4>1. CASE m.type = "INIT"
        <5>1. /\ t.incoming = Append(s.incoming, m) /\ Len(t.incoming) = Len(s.incoming) + 1
              /\ \A i \in 1..Len(s.incoming) : t.incoming[i] = s.incoming[i]
              /\ t.incoming[Len(s.incoming) + 1] = m /\ Len(s.incoming) \in Nat
          BY <1>5, <1>6, <4>1, AppendProperties, LenProperties
        <5>2. ASSUME NEW i \in 1..Len(t.incoming)
              PROVE  t.incoming[i].type = "INIT"
          <6>1. i \in 1..Len(s.incoming) \/ i = Len(s.incoming) + 1
            BY <5>1
          <6> QED BY <3>1, <4>1, <5>1, <6>1
        <5> QED BY <5>2
      <4>2. CASE m.type # "INIT"
        BY <1>5, <2>3, <3>1, <4>2
      <4> QED BY <4>1, <4>2
    <3> QED BY <3>1, <3>2 DEF InitOk
  <2> QED BY <2>2, <2>3
<1>13. Len(t.cache) <= Capacity /\ Outward(t.outgoing)
  BY <1>5 DEF PeerOk
<1> QED BY <1>5, <1>8, <1>9, <1>10, <1>11, <1>12, <1>13 DEF PeerOk, TakesIn

\* A message of a type that is counted is sent, or deleted.
Leaves(s, t, op, d, e) ==
    /\ t.count[op].received = s.count[op].received
    /\ t.count[op].generated = s.count[op].generated
    /\ t.count[op].processed = s.count[op].processed
    /\ t.count[op].forwarded = s.count[op].forwarded + d
    /\ t.count[op].dropped = s.count[op].dropped + e

LEMMA BumpSent ==
    ASSUME NEW p, NEW s \in State(p), NEW type, NEW sent \in BOOLEAN
    PROVE  LET t == Bump(s, type, IF sent THEN "forwarded" ELSE "dropped")
           IN  /\ Recounted(s, p, t)
               /\ \A o \in Counted : Leaves(s, t, o, IF sent /\ o = type THEN 1 ELSE 0,
                                                     IF ~sent /\ o = type THEN 1 ELSE 0)
<1> DEFINE f == IF sent THEN "forwarded" ELSE "dropped"
           t == Bump(s, type, f)
<1>1. /\ f \in Fields /\ (sent => f = "forwarded") /\ (~sent => f = "dropped")
  BY DEF Fields
<1> HIDE DEF f
<1>2. CASE type \in Counted
  <2>1. /\ Recounted(s, p, t) /\ Elsewhere(s, t, type)
        /\ t.count[type] = [s.count[type] EXCEPT ![f] = @ + 1] /\ s.count[type] \in Counters
    BY <1>1, <1>2, BumpCount
  <2> HIDE DEF t
  <2>2. ASSUME NEW o \in Counted
        PROVE  Leaves(s, t, o, IF sent /\ o = type THEN 1 ELSE 0, IF ~sent /\ o = type THEN 1 ELSE 0)
    <3>1. CASE o = type /\ sent
      <4>1. /\ t.count[o].received = s.count[o].received
            /\ t.count[o].generated = s.count[o].generated
            /\ t.count[o].processed = s.count[o].processed
            /\ t.count[o].forwarded = s.count[o].forwarded + 1
            /\ t.count[o].dropped = s.count[o].dropped
            /\ s.count[o].dropped \in Nat
        BY <1>1, <2>1, <3>1 DEF Counters
      <4> QED BY <3>1, <4>1 DEF Leaves
    <3>2. CASE o = type /\ ~sent
      <4>1. /\ t.count[o].received = s.count[o].received
            /\ t.count[o].generated = s.count[o].generated
            /\ t.count[o].processed = s.count[o].processed
            /\ t.count[o].forwarded = s.count[o].forwarded
            /\ t.count[o].dropped = s.count[o].dropped + 1
            /\ s.count[o].forwarded \in Nat
        BY <1>1, <2>1, <3>2 DEF Counters
      <4> QED BY <3>2, <4>1 DEF Leaves
    <3>3. CASE o # type
      <4>1. t.count[o] = s.count[o]
        BY <2>1, <3>3 DEF Elsewhere
      <4>2. s.count[o].forwarded \in Nat /\ s.count[o].dropped \in Nat
        BY CountsAreNat
      <4> QED BY <3>3, <4>1, <4>2 DEF Leaves
    <3> QED BY <3>1, <3>2, <3>3
  <2> QED BY <2>1, <2>2 DEF t, f
<1>3. CASE type \notin Counted
  <2>1. t = s
    BY <1>3 DEF Bump
  <2>2. Recounted(s, p, s)
    BY DEF Recounted, Untouched, Known
  <2>3. ASSUME NEW o \in Counted
        PROVE  Leaves(s, s, o, IF sent /\ o = type THEN 1 ELSE 0, IF ~sent /\ o = type THEN 1 ELSE 0)
    <3>1. s.count[o].forwarded \in Nat /\ s.count[o].dropped \in Nat /\ o # type
      BY <1>3, CountsAreNat
    <3> QED BY <3>1 DEF Leaves
  <2> HIDE DEF t
  <2> QED BY <2>1, <2>2, <2>3 DEF t, f
<1> QED BY <1>2, <1>3

\* A step that lets m out.
LetsOut(s, t, m) ==
    /\ t.seq = s.seq /\ Known(s, t)
    /\ \A x : At(s, x) /\ x # m => At(t, x)
    /\ \A r \in Requests : Copies(s, r) = Copies(t, r) + IF m.req = r THEN 1 ELSE 0

LEMMA ForwardLetsOut ==
    ASSUME NEW p, NEW s, PeerOk(p, s), s.outgoing # <<>>, NEW sent \in BOOLEAN, NEW m,
           m = Head(s.outgoing), NEW t,
           t = Bump(getOutgoingQueueFront(s), m.type, IF sent THEN "forwarded" ELSE "dropped")
    PROVE  PeerOk(p, t) /\ LetsOut(s, t, m) /\ m \in Letters /\ m.type \in Routed \cup {"CACHE_ME"}
<1> DEFINE q == Tail(s.outgoing)
           u == getOutgoingQueueFront(s)
<1>1. s \in State(p) /\ s.outgoing \in Seq(Letters)
  BY QueueTypes DEF PeerOk
<1>2. /\ Len(s.outgoing) \in Nat /\ Len(s.outgoing) # 0 /\ m = s.outgoing[1]
  BY <1>1, EmptySeq
<1>3. /\ m \in Letters /\ q \in Seq(Letters)
      /\ \A S : NumIn(s.outgoing, S) = NumIn(q, S) + IF m \in S THEN 1 ELSE 0
  BY <1>1, NumHeadTail
<1>4. Len(q) = Len(s.outgoing) - 1 /\ \A j \in 1..(Len(s.outgoing) - 1) : q[j] = s.outgoing[j + 1]
  BY <1>1, <1>2, HeadTailProperties
<1>5. m.type \in Routed \cup {"CACHE_ME"} /\ Outward(q)
  <2>1. \A i \in 1..Len(s.outgoing) : s.outgoing[i].type \in Routed \cup {"CACHE_ME"}
    BY DEF PeerOk, Outward
  <2>2. m.type \in Routed \cup {"CACHE_ME"}
    <3>1. 1 \in 1..Len(s.outgoing)
      BY <1>2
    <3> QED BY <1>2, <2>1, <3>1
  <2>3. ASSUME NEW i \in 1..Len(q)
        PROVE  q[i].type \in Routed \cup {"CACHE_ME"}
    <3>1. i \in 1..(Len(s.outgoing) - 1) /\ i + 1 \in 1..Len(s.outgoing)
      BY <1>2, <1>4
    <3> HIDE DEF q
    <3> QED BY <1>4, <2>1, <3>1
  <2> QED BY <2>2, <2>3 DEF Outward
<1>6. \A x : In(s.outgoing, x) /\ x # m => In(q, x)
  BY <1>1, InHeadTail
<1>7. u = [s EXCEPT !.outgoing = q]
  BY DEF getOutgoingQueueFront
<1>8. t = Bump(u, m.type, IF sent THEN "forwarded" ELSE "dropped")
  OBVIOUS
<1> HIDE DEF q, u
<1>9. /\ u \in State(p) /\ u.outgoing = q /\ Untouched(s, u) /\ u.cache = s.cache
      /\ u.log = s.log /\ u.count = s.count /\ Known(s, u)
  BY <1>1, <1>3, <1>7, SetOutgoing
<1>10. /\ Recounted(u, p, t)
       /\ \A o \in Counted : Leaves(u, t, o, IF sent /\ o = m.type THEN 1 ELSE 0,
                                             IF ~sent /\ o = m.type THEN 1 ELSE 0)
  BY <1>8, <1>9, BumpSent, Zenon
<1>11. /\ t \in State(p) /\ t.outgoing = q /\ t.incoming = s.incoming
       /\ t.listener = s.listener /\ t.received_before_init = s.received_before_init
       /\ t.pending = s.pending /\ t.seq = s.seq /\ t.initiated = s.initiated
       /\ t.cache = s.cache /\ t.log = s.log /\ Known(s, t)
  BY <1>9, <1>10 DEF Recounted, Untouched, Known
<1>12. \A S : Load(s, S) = Load(t, S) + IF m \in S THEN 1 ELSE 0
  <2> TAKE S
  <2>1. /\ NumIn(s.received_before_init, S) \in Nat /\ NumIn(s.listener, S) \in Nat
        /\ NumIn(s.incoming, S) \in Nat /\ NumIn(q, S) \in Nat
    BY <1>1, <1>3, Nums, NumIsNat
  <2>2. /\ NumIn(t.received_before_init, S) = NumIn(s.received_before_init, S)
        /\ NumIn(t.listener, S) = NumIn(s.listener, S)
        /\ NumIn(t.incoming, S) = NumIn(s.incoming, S)
        /\ NumIn(t.outgoing, S) = NumIn(q, S)
    BY <1>11
  <2>3. NumIn(s.outgoing, S) = NumIn(q, S) + IF m \in S THEN 1 ELSE 0
    BY <1>3
  <2> QED BY <2>1, <2>2, <2>3 DEF Load
<1>13. \A r \in Requests : Copies(s, r) = Copies(t, r) + IF m.req = r THEN 1 ELSE 0
  <2> TAKE r \in Requests
  <2>1. Load(s, OfRequest(r)) = Load(t, OfRequest(r)) + IF m.req = r THEN 1 ELSE 0
    BY <1>3, <1>12, Belongs
  <2>2. NumIn(t.log, EntriesOf(r)) = NumIn(s.log, EntriesOf(r))
    BY <1>11
  <2>3. /\ Copies(t, r) = Load(t, OfRequest(r)) + NumIn(t.log, EntriesOf(r))
        /\ Copies(s, r) = Load(s, OfRequest(r)) + NumIn(s.log, EntriesOf(r))
        /\ Load(t, OfRequest(r)) \in Nat /\ NumIn(s.log, EntriesOf(r)) \in Nat
    BY <1>1, <1>11, Loads
  <2> QED BY <2>1, <2>2, <2>3
<1>14. \A op \in Counted : Even(t, op)
  <2> TAKE op \in Counted
  <2> DEFINE d == IF sent /\ op = m.type THEN 1 ELSE 0
             e == IF ~sent /\ op = m.type THEN 1 ELSE 0
             l == IF op = m.type THEN -1 ELSE 0
  <2>1. Even(s, op)
    BY DEF PeerOk
  <2>2. Load(t, OfType(op)) = Load(s, OfType(op)) + l
    <3>1. Load(s, OfType(op)) = Load(t, OfType(op)) + IF m.type \in Types(op) THEN 1 ELSE 0
      BY <1>3, <1>12, Belongs
    <3>2. m.type \in Types(op) <=> op = m.type
      BY <1>5 DEF Types, Routed, Counted
    <3>3. Load(t, OfType(op)) \in Nat
      BY <1>11, Loads
    <3> QED BY <3>1, <3>2, <3>3
  <2>3. /\ d \in Int /\ e \in Int /\ l \in Int /\ 0 \in Int /\ 0 + 0 = 0 + d + e + 0 + l
    OBVIOUS
  <2>4. Leaves(u, t, op, d, e)
    BY <1>10
  <2> HIDE DEF d, e, l
  <2>5. Shift(s, t, op, 0, 0, 0, d, e, 0, l)
    <3>1. /\ t.count[op].received = s.count[op].received
          /\ t.count[op].generated = s.count[op].generated
          /\ t.count[op].processed = s.count[op].processed
          /\ t.count[op].forwarded = s.count[op].forwarded + d
          /\ t.count[op].dropped = s.count[op].dropped + e
          /\ t.initiated[op] = s.initiated[op]
      BY <1>9, <1>11, <2>4 DEF Leaves
    <3> QED BY <1>1, <2>2, <2>3, <3>1, CountsAreNat DEF Shift
  <2> QED BY <1>1, <1>11, <2>1, <2>3, <2>5, EvenStays
<1>15. \A x : At(s, x) /\ x # m => At(t, x)
  BY <1>6, <1>11 DEF At
<1>16. PendingOk(t) /\ InitOk(t, p) /\ Len(t.cache) <= Capacity /\ Outward(t.outgoing)
  <2>1. PendingOk(t)
    BY <1>11 DEF PendingOk, PeerOk, Known
  <2>2. InitOk(t, p)
    BY <1>11 DEF InitOk, PeerOk, Known
  <2>3. Len(t.cache) <= Capacity /\ Outward(t.outgoing)
    BY <1>5, <1>11 DEF PeerOk
  <2> QED BY <2>1, <2>2, <2>3
<1> QED BY <1>3, <1>5, <1>11, <1>13, <1>14, <1>15, <1>16 DEF PeerOk, LetsOut

\* A message is taken from the incoming queue.
TakenFrom(s, u, p, h) ==
    /\ u \in State(p) /\ u.outgoing = s.outgoing /\ u.log = s.log /\ u.cache = s.cache
    /\ u.listener = s.listener /\ u.received_before_init = s.received_before_init
    /\ u.pending = s.pending /\ u.seq = s.seq /\ u.count = s.count
    /\ u.initiated = s.initiated /\ u.unresolved = s.unresolved /\ Known(s, u)
    /\ \A S : NumIn(s.incoming, S) = NumIn(u.incoming, S) + IF h \in S THEN 1 ELSE 0
    /\ \A x : In(s.incoming, x) /\ x # h => In(u.incoming, x)
    /\ \A i \in 1..Len(u.incoming) : In(s.incoming, u.incoming[i])

LEMMA FrontTaken ==
    ASSUME NEW p, NEW s \in State(p), s.incoming # <<>>, NEW h, h = Head(s.incoming)
    PROVE  TakenFrom(s, getIncomingQueueFront(s), p, h) /\ h \in Mail(p) /\ In(s.incoming, h)
<1> DEFINE q == Tail(s.incoming)
           u == getIncomingQueueFront(s)
<1>1. s.incoming \in Seq(Mail(p))
  BY QueueTypes
<1>2. /\ Len(s.incoming) \in Nat /\ Len(s.incoming) # 0 /\ h = s.incoming[1]
  BY <1>1, EmptySeq
<1>3. /\ h \in Mail(p) /\ q \in Seq(Mail(p))
      /\ \A S : NumIn(s.incoming, S) = NumIn(q, S) + IF h \in S THEN 1 ELSE 0
  BY <1>1, NumHeadTail
<1>4. Len(q) = Len(s.incoming) - 1 /\ \A j \in 1..(Len(s.incoming) - 1) : q[j] = s.incoming[j + 1]
  BY <1>1, <1>2, HeadTailProperties
<1>5. \A x : In(s.incoming, x) /\ x # h => In(q, x)
  BY <1>1, InHeadTail
<1>6. ASSUME NEW i \in 1..Len(q)
      PROVE  In(s.incoming, q[i])
  <2>1. i \in 1..(Len(s.incoming) - 1) /\ i + 1 \in 1..Len(s.incoming)
    BY <1>2, <1>4
  <2>2. q[i] = s.incoming[i + 1]
    BY <1>4, <2>1
  <2> HIDE DEF q
  <2> QED BY <2>1, <2>2 DEF In
<1>7. In(s.incoming, h)
  <2>1. 1 \in 1..Len(s.incoming)
    BY <1>2
  <2> QED BY <1>2, <2>1 DEF In
<1>8. u = [s EXCEPT !.incoming = q]
  BY DEF getIncomingQueueFront
<1> HIDE DEF q, u
<1>9. /\ u \in State(p) /\ u.incoming = q /\ u.outgoing = s.outgoing /\ u.log = s.log
      /\ u.cache = s.cache /\ u.listener = s.listener
      /\ u.received_before_init = s.received_before_init
      /\ u.pending = s.pending /\ u.seq = s.seq /\ u.count = s.count
      /\ u.initiated = s.initiated /\ u.unresolved = s.unresolved /\ Known(s, u)
  BY <1>3, <1>8 DEF State, Known
<1>10. TakenFrom(s, u, p, h)
  BY <1>3, <1>5, <1>6, <1>9 DEF TakenFrom
<1> QED BY <1>3, <1>7, <1>10 DEF u

\* What the processing of h leaves, makes known and announces.
Handled(s, p, h, t) ==
    /\ t.seq = s.seq /\ Learns(s, p, Decremented(h), t)
    /\ \A x : At(s, x) /\ x # h => At(t, x)
    /\ \A o \in NoticesFor(s, p, Decremented(h)) : At(t, o)
    /\ \A r \in Requests : Copies(t, r) = Copies(s, r)

LEMMA SpreadsOnce ==
    ASSUME config \in Scenarios, NEW p \in Peers, NEW s, PeerOk(p, s), NEW h \in Mail(p),
           In(s.incoming, h)
    PROVE  /\ ~s.init => h.type = "INIT"
           /\ Spreads(s, p, Decremented(h))
<1>1. ~s.init => h.type = "INIT"
  BY DEF PeerOk, InitOk, In
<1>2. h \in Letters /\ h.dest = p /\ h \in Due(p) /\ h.ttl \in 1..DefaultTtl
  BY DEF Mail, Letters
<1> DEFINE m == Decremented(h)
<1>3. m.type = h.type /\ m.src = h.src /\ m.ttl = h.ttl - 1
  BY <1>2, DecFacts
<1> HIDE DEF m
<1>4. ASSUME m.type = "CACHE_ME"
      PROVE  /\ s.rt = RtOf(p) /\ m.src \in Heard(p)
             /\ m.ttl > 0 => m.ttl = 1 /\ p \in RtOf(m.src)
  <2>1. s.init
    BY <1>1, <1>3, <1>4
  <2>2. s.rt = RtOf(p)
    BY <2>1 DEF PeerOk, InitOk
  <2>3. h.src \in Peers
    BY <1>2, <1>3, <1>4 DEF Due, Sensible
  <2>4. \/ h.ttl = 2 /\ p \in RtOf(h.src)
        \/ h.ttl = 1 /\ \E r \in RtOf(h.src) : p \in RtOf(r)
    BY <1>2, <1>3, <1>4 DEF Letters, Announced
  <2>5. m.src \in Heard(p)
    BY <1>3, <2>3, <2>4 DEF Heard
  <2>6. m.ttl > 0 => m.ttl = 1 /\ p \in RtOf(m.src)
    BY <1>3, <2>4
  <2> QED BY <2>2, <2>5, <2>6
<1> QED BY <1>1, <1>4 DEF Spreads, m

LEMMA OutwardConcat ==
    ASSUME NEW a \in Seq(Letters), NEW b \in Seq(Letters), Outward(a), Outward(b)
    PROVE  Outward(a \o b)
<1>1. Len(a) \in Nat /\ Len(b) \in Nat
  BY LenProperties
<1>2. /\ Len(a \o b) = Len(a) + Len(b)
      /\ \A i \in 1..(Len(a) + Len(b)) :
           (a \o b)[i] = IF i <= Len(a) THEN a[i] ELSE b[i - Len(a)]
  BY ConcatProperties
<1>3. ASSUME NEW i \in 1..Len(a \o b)
      PROVE  (a \o b)[i].type \in Routed \cup {"CACHE_ME"}
  <2>1. i \in 1..(Len(a) + Len(b))
    BY <1>2
  <2>2. CASE i <= Len(a)
    <3>1. i \in 1..Len(a) /\ (a \o b)[i] = a[i]
      BY <1>1, <1>2, <2>1, <2>2
    <3> QED BY <3>1 DEF Outward
  <2>3. CASE ~(i <= Len(a))
    <3>1. i - Len(a) \in 1..Len(b) /\ (a \o b)[i] = b[i - Len(a)]
      BY <1>1, <1>2, <2>1, <2>3
    <3> QED BY <3>1 DEF Outward
  <2> QED BY <2>2, <2>3
<1> QED BY <1>3 DEF Outward

LEMMA NoticesSent ==
    ASSUME config \in Scenarios, NEW p \in Peers, NEW s, NEW m, Spreads(s, p, m),
           m.type = "CACHE_ME" => m.src \in Peers
    PROVE  NoticesFor(s, p, m) \subseteq Notices
<1>0. /\ \A q : RtOf(q) = rtArray[config.n][q]
      /\ RtOf(p) \subseteq Peers
  BY RtFacts DEF RtOf
<1>1. ASSUME m.type = "INIT", NEW q \in RtOf(p)
      PROVE  Notice(p, q, CacheMeTtl) \in Notices
  <2> DEFINE k == CacheMeTtl
  <2>1. Announced(Notice(p, q, k)) /\ k \in 1..DefaultTtl
    BY DEF Announced, Notice, Message, CacheMeTtl, DefaultTtl
  <2> HIDE DEF k
  <2>2. q \in Peers
    BY <1>0
  <2>3. Notice(p, q, k) \in Notices
    BY <2>1, <2>2, NoticeFacts
  <2> QED BY <2>3 DEF k
<1>2. ASSUME m.type = "CACHE_ME", m.ttl > 0, NEW q \in s.rt
      PROVE  Notice(m.src, q, m.ttl) \in Notices
  <2> DEFINE x == m.src
             k == m.ttl
  <2>1. s.rt = RtOf(p) /\ k = 1 /\ p \in RtOf(x) /\ x \in Peers
    BY <1>2 DEF Spreads
  <2> HIDE DEF x, k
  <2>2. Announced(Notice(x, q, k)) /\ k \in 1..DefaultTtl
    BY <2>1 DEF Announced, Notice, Message, DefaultTtl
  <2>3. q \in Peers
    BY <1>0, <2>1
  <2>4. Notice(x, q, k) \in Notices
    BY <2>1, <2>2, <2>3, NoticeFacts
  <2> QED BY <2>4 DEF x, k
<1> QED BY <1>1, <1>2 DEF NoticesFor

\* A message that makes no request is processed.
LEMMA ProcessKeeps ==
    ASSUME config \in Scenarios, NEW p \in Peers, NEW s, PeerOk(p, s), s.incoming # <<>>,
           NEW h, h = Head(s.incoming), h.type \notin {"INITIATE_GET", "INITIATE_PUT"}, NEW g,
           NEW t, t = processMessage(getIncomingQueueFront(s), p, h, g)
    PROVE  PeerOk(p, t) /\ Handled(s, p, h, t) /\ h \in Mail(p) /\ In(s.incoming, h)
<1> DEFINE u == getIncomingQueueFront(s)
           m == Decremented(h)
<1>1. s \in State(p)
  BY DEF PeerOk
<1>2. TakenFrom(s, u, p, h) /\ h \in Mail(p) /\ In(s.incoming, h)
  BY <1>1, FrontTaken
<1>3. (~s.init => h.type = "INIT") /\ Spreads(s, p, m)
  BY <1>2, SpreadsOnce
<1>4. h \in Letters /\ h \in Due(p) /\ h.ttl \in 1..DefaultTtl
  BY <1>2 DEF Mail, Letters
<1>5. /\ m.type = h.type /\ m.req = h.req
  BY <1>4, DecFacts
<1>6. t = processMessage(u, p, h, g)
  OBVIOUS
<1> HIDE DEF u
<1>7. /\ u \in State(p) /\ u.outgoing = s.outgoing /\ u.log = s.log /\ u.cache = s.cache
      /\ u.listener = s.listener /\ u.received_before_init = s.received_before_init
      /\ u.pending = s.pending /\ u.seq = s.seq /\ u.count = s.count
      /\ u.initiated = s.initiated /\ u.init = s.init /\ u.rt = s.rt /\ u.pc = s.pc
  BY <1>2 DEF TakenFrom, Known
<1>8. Len(u.cache) <= Capacity /\ Spreads(u, p, m)
  BY <1>3, <1>7 DEF PeerOk, Spreads
<1>9. WellHandled(u, p, m, t)
  BY <1>4, <1>6, <1>7, <1>8, ProcessHandles
<1> HIDE DEF m
<1>10. /\ t \in State(p) /\ Len(t.cache) <= Capacity /\ Untouched(u, t) /\ Learns(u, p, m, t)
  BY <1>9 DEF WellHandled
<1>11. PICK a \in Seq(Letters), b \in Seq(OwnEntries(p)) :
         /\ t.outgoing = u.outgoing \o a /\ t.log = u.log \o b
         /\ \A r \in Requests : Carries(a, b, r, m)
         /\ \A op \in Counted : Accounted(u, t, a, m, op)
         /\ Announces(u, p, m, a) /\ Outward(a)
  BY <1>9 DEF WellHandled, Effect
<1>12. /\ t.incoming = u.incoming /\ t.listener = s.listener
       /\ t.received_before_init = s.received_before_init /\ t.pending = s.pending
       /\ t.seq = s.seq /\ t.initiated = s.initiated /\ (s.init => t.init)
       /\ t.outgoing = s.outgoing \o a /\ t.log = s.log \o b
  BY <1>7, <1>10, <1>11 DEF Untouched
<1>13. s.outgoing \in Seq(Letters) /\ s.log \in Seq(OwnEntries(p))
  BY <1>1, QueueTypes
<1>14. \A S : NumIn(t.outgoing, S) = NumIn(s.outgoing, S) + NumIn(a, S) /\ NumIn(a, S) \in Nat
  <2> TAKE S
  <2>1. NumIn(s.outgoing \o a, S) = NumIn(s.outgoing, S) + NumIn(a, S)
    BY <1>11, <1>13, NumConcat
  <2>2. NumIn(a, S) \in Nat
    BY <1>11, NumIsNat
  <2> QED BY <1>12, <2>1, <2>2
<1>15. \A S : NumIn(t.log, S) = NumIn(s.log, S) + NumIn(b, S) /\ NumIn(b, S) \in Nat
  <2> TAKE S
  <2>1. NumIn(s.log \o b, S) = NumIn(s.log, S) + NumIn(b, S)
    BY <1>11, <1>13, NumConcat
  <2>2. NumIn(b, S) \in Nat
    BY <1>11, NumIsNat
  <2> QED BY <1>12, <2>1, <2>2
<1>16. \A S : Load(t, S) + (IF h \in S THEN 1 ELSE 0) = Load(s, S) + NumIn(a, S)
  <2> TAKE S
  <2>1. /\ NumIn(s.received_before_init, S) \in Nat /\ NumIn(s.listener, S) \in Nat
        /\ NumIn(u.incoming, S) \in Nat /\ NumIn(s.outgoing, S) \in Nat
    BY <1>1, <1>7, Nums
  <2>2. /\ NumIn(t.received_before_init, S) = NumIn(s.received_before_init, S)
        /\ NumIn(t.listener, S) = NumIn(s.listener, S)
        /\ NumIn(t.incoming, S) = NumIn(u.incoming, S)
    BY <1>12
  <2>3. NumIn(s.incoming, S) = NumIn(u.incoming, S) + IF h \in S THEN 1 ELSE 0
    BY <1>2 DEF TakenFrom
  <2>4. NumIn(t.outgoing, S) = NumIn(s.outgoing, S) + NumIn(a, S) /\ NumIn(a, S) \in Nat
    BY <1>14
  <2> QED BY <2>1, <2>2, <2>3, <2>4 DEF Load
<1>17. \A r \in Requests : Copies(t, r) = Copies(s, r)
  <2> TAKE r \in Requests
  <2>1. Load(t, OfRequest(r)) + (IF h.req = r THEN 1 ELSE 0) = Load(s, OfRequest(r)) + NumIn(a, OfRequest(r))
    BY <1>4, <1>16, Belongs
  <2>2. /\ NumIn(t.log, EntriesOf(r)) = NumIn(s.log, EntriesOf(r)) + NumIn(b, EntriesOf(r))
        /\ NumIn(b, EntriesOf(r)) \in Nat /\ NumIn(a, OfRequest(r)) \in Nat
    BY <1>14, <1>15
  <2>3. NumIn(a, OfRequest(r)) + NumIn(b, EntriesOf(r)) = IF h.req = r THEN 1 ELSE 0
    BY <1>5, <1>11 DEF Carries
  <2>4. /\ Copies(t, r) = Load(t, OfRequest(r)) + NumIn(t.log, EntriesOf(r))
        /\ Copies(s, r) = Load(s, OfRequest(r)) + NumIn(s.log, EntriesOf(r))
        /\ Load(s, OfRequest(r)) \in Nat /\ NumIn(s.log, EntriesOf(r)) \in Nat
        /\ Load(t, OfRequest(r)) \in Nat
    BY <1>1, <1>10, Loads
  <2> QED BY <2>1, <2>2, <2>3, <2>4
<1>18. \A op \in Counted : Even(t, op)
  <2> TAKE op \in Counted
  <2> DEFINE n == NumIn(a, OfType(op))
             x == IF h.type = op THEN 1 ELSE 0
             c == x - n
             l == n - x
  <2>1. Even(s, op)
    BY DEF PeerOk
  <2>2. n \in Nat /\ x \in Int
    BY <1>14
  <2>3. Load(t, OfType(op)) + x = Load(s, OfType(op)) + n
    <3>1. h.type \in Types(op) <=> h.type = op
      BY DEF Types
    <3> QED BY <1>4, <1>16, <3>1, Belongs
  <2>4. /\ t.count[op].processed + n = s.count[op].processed + x
        /\ t.count[op].generated = s.count[op].generated
        /\ t.count[op].received = s.count[op].received
        /\ t.count[op].forwarded = s.count[op].forwarded
        /\ t.count[op].dropped = s.count[op].dropped
        /\ t.initiated[op] = s.initiated[op]
    BY <1>5, <1>7, <1>11, <1>12 DEF Accounted
  <2>5. /\ t.count[op].processed \in Nat /\ s.count[op].processed \in Nat
        /\ s.count[op].received \in Nat /\ s.count[op].generated \in Nat
        /\ s.count[op].forwarded \in Nat /\ s.count[op].dropped \in Nat
        /\ s.initiated[op] \in Nat
        /\ Load(t, OfType(op)) \in Nat /\ Load(s, OfType(op)) \in Nat
    BY <1>1, <1>10, CountsAreNat, Loads
  <2> HIDE DEF n, x
  <2>6. /\ c \in Int /\ l \in Int /\ 0 \in Int /\ 0 + 0 = c + 0 + 0 + 0 + l
        /\ t.count[op].processed = s.count[op].processed + c
        /\ Load(t, OfType(op)) = Load(s, OfType(op)) + l
    <3>1. \A i, j \in Nat : i + n = j + x => i = j + c
      BY <2>2
    <3>2. \A i, j \in Nat : i + x = j + n => i = j + l
      BY <2>2
    <3>3. c \in Int /\ l \in Int /\ 0 \in Int /\ 0 + 0 = c + 0 + 0 + 0 + l
      BY <2>2
    <3> HIDE DEF c, l
    <3> QED BY <2>3, <2>4, <2>5, <3>1, <3>2, <3>3
  <2> HIDE DEF c, l
  <2>7. Shift(s, t, op, 0, 0, c, 0, 0, 0, l)
    <3>1. \A i \in Nat : i = i + 0
      OBVIOUS
    <3>2. /\ t.count[op].received = s.count[op].received + 0
          /\ t.count[op].generated = s.count[op].generated + 0
          /\ t.count[op].forwarded = s.count[op].forwarded + 0
          /\ t.count[op].dropped = s.count[op].dropped + 0
          /\ t.initiated[op] = s.initiated[op] + 0
      BY <2>4, <2>5, <3>1, Zenon
    <3> QED BY <2>6, <3>2, Zenon DEF Shift
  <2> QED BY <1>1, <1>10, <2>1, <2>6, <2>7, EvenStays
<1>19. (\A x : In(s.outgoing, x) \/ In(a, x) => In(t.outgoing, x))
  <2>1. \A x : In(s.outgoing, x) \/ In(a, x) => In(s.outgoing \o a, x)
    BY <1>11, <1>13, InConcat
  <2> QED BY <1>12, <2>1
<1>20. \A x : At(s, x) /\ x # h => At(t, x)
  <2>1. \A x : In(s.incoming, x) /\ x # h => In(u.incoming, x)
    BY <1>2 DEF TakenFrom
  <2> QED BY <1>12, <1>19, <2>1 DEF At
<1>21. \A o \in NoticesFor(s, p, m) : At(t, o)
  <2>1. NoticesFor(u, p, m) = NoticesFor(s, p, m)
    BY <1>7 DEF NoticesFor
  <2>2. NoticesFor(s, p, m) \subseteq Notices
    <3>1. m.type = "CACHE_ME" => m.src \in Peers
      BY <1>4, <1>5, DecFacts DEF Due, Sensible, m
    <3> QED BY <1>3, <3>1, NoticesSent
  <2>3. \A o \in NoticesFor(s, p, m) : In(a, o)
    BY <1>11, <2>1, <2>2 DEF Announces, In
  <2> QED BY <1>19, <2>3 DEF At
<1>22. Learns(s, p, m, t)
  BY <1>7, <1>10 DEF Learns
<1>23. PendingOk(t)
  <2>1. PendingOk(s)
    BY DEF PeerOk
  <2> QED BY <1>12, <2>1 DEF PendingOk
<1>24. InitOk(t, p)
  <2>1. t.init
    BY <1>3, <1>5, <1>22 DEF Learns
  <2>2. t.rt = RtOf(p)
    BY <1>3, <1>5, <1>22 DEF Learns, PeerOk, InitOk
  <2> QED BY <2>1, <2>2 DEF InitOk
<1>25. Outward(t.outgoing)
  <2>1. Outward(s.outgoing) /\ Outward(a)
    BY <1>11 DEF PeerOk
  <2> QED BY <1>11, <1>12, <1>13, <2>1, OutwardConcat
<1>26. Handled(s, p, h, t)
  BY <1>12, <1>17, <1>20, <1>21, <1>22 DEF Handled, m
<1> QED BY <1>2, <1>10, <1>18, <1>23, <1>24, <1>25, <1>26 DEF PeerOk

\* The state in which a request is made: a command may have been taken from the
\* queue, and counted (i is 1).
Prepared(s, u, p, op, i) ==
    /\ u \in State(p) /\ u.outgoing = s.outgoing /\ u.log = s.log /\ u.cache = s.cache
    /\ u.listener = s.listener /\ u.received_before_init = s.received_before_init
    /\ u.pending = s.pending /\ u.seq = s.seq /\ u.count = s.count /\ Known(s, u)
    /\ \A o \in Counted :
         /\ u.initiated[o] = s.initiated[o] + IF o = op THEN i ELSE 0
         /\ NumIn(s.incoming, OfType(o)) = NumIn(u.incoming, OfType(o)) + IF o = op THEN i ELSE 0
    /\ \A r \in Requests : NumIn(s.incoming, OfRequest(r)) = NumIn(u.incoming, OfRequest(r))
    /\ InitOk(u, p)

\* What the controlling thread counts besides.
Alike(x, t) ==
    /\ t.outgoing = x.outgoing /\ t.log = x.log /\ t.cache = x.cache /\ t.incoming = x.incoming
    /\ t.listener = x.listener /\ t.received_before_init = x.received_before_init
    /\ t.pending = x.pending /\ t.seq = x.seq /\ t.count = x.count
    /\ t.initiated = x.initiated /\ Known(x, t)

\* A step that makes a request.
Made(s, p, t) ==
    /\ t.seq = s.seq + 1 /\ Known(s, t)
    /\ \A r \in Requests : Copies(t, r) = Copies(s, r) + IF r = NextReq(s, p) THEN 1 ELSE 0

LEMMA NewRequest ==
    ASSUME config \in Scenarios, NEW p \in Peers, NEW s, PeerOk(p, s), NEW op \in Counted,
           NEW i \in {0, 1}, NEW u, Prepared(s, u, p, op, i), NEW x, Started(u, p, op, x),
           NEW t \in State(p), Alike(x, t)
    PROVE  PeerOk(p, t) /\ Made(s, p, t) /\ \A y : At(u, y) => At(t, y)
<1>1. s \in State(p)
  BY DEF PeerOk
<1>2. /\ u \in State(p) /\ u.outgoing = s.outgoing /\ u.log = s.log /\ u.cache = s.cache
      /\ u.listener = s.listener /\ u.received_before_init = s.received_before_init
      /\ u.pending = s.pending /\ u.seq = s.seq /\ u.count = s.count
      /\ u.init = s.init /\ u.rt = s.rt /\ u.pc = s.pc
  BY DEF Prepared, Known
<1>3. /\ x.incoming = u.incoming /\ x.listener = u.listener
      /\ x.received_before_init = u.received_before_init /\ x.pending = u.pending
      /\ x.initiated = u.initiated /\ x.seq = u.seq + 1
      /\ x.init = u.init /\ x.rt = u.rt /\ x.pc = u.pc
  BY DEF Started, Aside, Known
<1>4. PICK a \in Seq(Letters), b \in Seq(OwnEntries(p)) :
        /\ x.outgoing = u.outgoing \o a /\ x.log = u.log \o b
        /\ \A r \in Requests : NumIn(a, OfRequest(r)) + NumIn(b, EntriesOf(r)) =
                                 IF r = NextReq(u, p) THEN 1 ELSE 0
        /\ \A o \in Counted : CountsOne(u, x, a, op, o)
        /\ Outward(a)
  BY DEF Started, Makes
<1>5. /\ t.incoming = u.incoming /\ t.listener = s.listener
      /\ t.received_before_init = s.received_before_init /\ t.pending = s.pending
      /\ t.seq = s.seq + 1 /\ t.initiated = u.initiated /\ Known(s, t)
      /\ t.outgoing = s.outgoing \o a /\ t.log = s.log \o b /\ t.count = x.count
      /\ t.cache = x.cache
  BY <1>2, <1>3, <1>4 DEF Alike, Known
<1>6. s.outgoing \in Seq(Letters) /\ s.log \in Seq(OwnEntries(p))
  BY <1>1, QueueTypes
<1>7. \A S : NumIn(t.outgoing, S) = NumIn(s.outgoing, S) + NumIn(a, S) /\ NumIn(a, S) \in Nat
  <2> TAKE S
  <2>1. NumIn(s.outgoing \o a, S) = NumIn(s.outgoing, S) + NumIn(a, S)
    BY <1>4, <1>6, NumConcat
  <2>2. NumIn(a, S) \in Nat
    BY <1>4, NumIsNat
  <2> QED BY <1>5, <2>1, <2>2
<1>8. \A S : NumIn(t.log, S) = NumIn(s.log, S) + NumIn(b, S) /\ NumIn(b, S) \in Nat
  <2> TAKE S
  <2>1. NumIn(s.log \o b, S) = NumIn(s.log, S) + NumIn(b, S)
    BY <1>4, <1>6, NumConcat
  <2>2. NumIn(b, S) \in Nat
    BY <1>4, NumIsNat
  <2> QED BY <1>5, <2>1, <2>2
<1>9. ASSUME NEW S, NEW j \in Nat, NumIn(s.incoming, S) = NumIn(u.incoming, S) + j
      PROVE  Load(t, S) + j = Load(s, S) + NumIn(a, S)
  <2>1. /\ NumIn(s.received_before_init, S) \in Nat /\ NumIn(s.listener, S) \in Nat
        /\ NumIn(u.incoming, S) \in Nat /\ NumIn(s.outgoing, S) \in Nat
    BY <1>1, <1>2, Nums
  <2>2. /\ NumIn(t.received_before_init, S) = NumIn(s.received_before_init, S)
        /\ NumIn(t.listener, S) = NumIn(s.listener, S)
        /\ NumIn(t.incoming, S) = NumIn(u.incoming, S)
    BY <1>5
  <2>3. NumIn(t.outgoing, S) = NumIn(s.outgoing, S) + NumIn(a, S) /\ NumIn(a, S) \in Nat
    BY <1>7
  <2> QED BY <1>9, <2>1, <2>2, <2>3 DEF Load
<1>10. \A r \in Requests : Copies(t, r) = Copies(s, r) + IF r = NextReq(s, p) THEN 1 ELSE 0
  <2> TAKE r \in Requests
  <2>1. Load(t, OfRequest(r)) + 0 = Load(s, OfRequest(r)) + NumIn(a, OfRequest(r))
    <3>1. NumIn(s.incoming, OfRequest(r)) = NumIn(u.incoming, OfRequest(r)) + 0
      <4>1. NumIn(s.incoming, OfRequest(r)) = NumIn(u.incoming, OfRequest(r))
        BY DEF Prepared
      <4>2. NumIn(u.incoming, OfRequest(r)) \in Nat
        BY <1>2, Nums
      <4> QED BY <4>1, <4>2
    <3> QED BY <1>9, <3>1
  <2>2. /\ NumIn(t.log, EntriesOf(r)) = NumIn(s.log, EntriesOf(r)) + NumIn(b, EntriesOf(r))
        /\ NumIn(b, EntriesOf(r)) \in Nat /\ NumIn(a, OfRequest(r)) \in Nat
    BY <1>7, <1>8
  <2>3. NumIn(a, OfRequest(r)) + NumIn(b, EntriesOf(r)) = IF r = NextReq(s, p) THEN 1 ELSE 0
    BY <1>2, <1>4 DEF NextReq
  <2>4. /\ Copies(t, r) = Load(t, OfRequest(r)) + NumIn(t.log, EntriesOf(r))
        /\ Copies(s, r) = Load(s, OfRequest(r)) + NumIn(s.log, EntriesOf(r))
        /\ Load(s, OfRequest(r)) \in Nat /\ NumIn(s.log, EntriesOf(r)) \in Nat
        /\ Load(t, OfRequest(r)) \in Nat
    BY <1>1, Loads
  <2> QED BY <2>1, <2>2, <2>3, <2>4
<1>11. \A o \in Counted : Even(t, o)
  <2> TAKE o \in Counted
  <2> DEFINE n == NumIn(a, OfType(o))
             k == IF o = op THEN 1 ELSE 0
             j == IF o = op THEN i ELSE 0
             c == k - n
             l == n - j
  <2>1. Even(s, o)
    BY DEF PeerOk
  <2>2. n \in Nat /\ k \in Nat /\ j \in Nat
    BY <1>7
  <2>3. Load(t, OfType(o)) + j = Load(s, OfType(o)) + n
    <3>1. NumIn(s.incoming, OfType(o)) = NumIn(u.incoming, OfType(o)) + j
      BY DEF Prepared
    <3> HIDE DEF j, n
    <3>2. Load(t, OfType(o)) + j = Load(s, OfType(o)) + NumIn(a, OfType(o))
      BY <1>9, <2>2, <3>1
    <3> QED BY <3>2 DEF n
  <2>4. /\ t.count[o].processed + n = s.count[o].processed + k
        /\ t.count[o].generated = s.count[o].generated + k
        /\ t.count[o].received = s.count[o].received
        /\ t.count[o].forwarded = s.count[o].forwarded
        /\ t.count[o].dropped = s.count[o].dropped
        /\ t.initiated[o] = s.initiated[o] + j
    <3>1. CountsOne(u, x, a, op, o)
      BY <1>4
    <3>2. t.initiated[o] = s.initiated[o] + j
      BY <1>5 DEF Prepared
    <3> QED BY <1>2, <1>5, <3>1, <3>2 DEF CountsOne
  <2>5. /\ t.count[o].processed \in Nat /\ s.count[o].processed \in Nat
        /\ s.count[o].received \in Nat /\ s.count[o].generated \in Nat
        /\ s.count[o].forwarded \in Nat /\ s.count[o].dropped \in Nat
        /\ Load(t, OfType(o)) \in Nat /\ Load(s, OfType(o)) \in Nat
    BY <1>1, CountsAreNat, Loads
  <2> HIDE DEF n, k, j
  <2>6. /\ c \in Int /\ l \in Int /\ 0 \in Int /\ 0 + k = c + 0 + 0 + j + l
        /\ k \in Int /\ j \in Int
        /\ t.count[o].processed = s.count[o].processed + c
        /\ Load(t, OfType(o)) = Load(s, OfType(o)) + l
    <3>1. \A d, e \in Nat : d + n = e + k => d = e + c
      BY <2>2
    <3>2. \A d, e \in Nat : d + j = e + n => d = e + l
      BY <2>2
    <3>3. /\ c \in Int /\ l \in Int /\ 0 \in Int /\ 0 + k = c + 0 + 0 + j + l
          /\ k \in Int /\ j \in Int
      BY <2>2
    <3> HIDE DEF c, l
    <3> QED BY <2>3, <2>4, <2>5, <3>1, <3>2, <3>3
  <2> HIDE DEF c, l
  <2>7. Shift(s, t, o, 0, k, c, 0, 0, j, l)
    <3>1. \A d \in Nat : d = d + 0
      OBVIOUS
    <3>2. /\ t.count[o].received = s.count[o].received + 0
          /\ t.count[o].forwarded = s.count[o].forwarded + 0
          /\ t.count[o].dropped = s.count[o].dropped + 0
      BY <2>4, <2>5, <3>1, Zenon
    <3> QED BY <2>4, <2>6, <3>2, Zenon DEF Shift
  <2> QED BY <1>1, <2>1, <2>6, <2>7, EvenStays
<1>12. \A y : At(u, y) => At(t, y)
  <2>1. \A y : In(s.outgoing, y) \/ In(a, y) => In(s.outgoing \o a, y)
    BY <1>4, <1>6, InConcat
  <2> QED BY <1>2, <1>5, <2>1 DEF At
<1>13. PendingOk(t)
  <2>1. PendingOk(s)
    BY DEF PeerOk
  <2> QED BY <1>5, <2>1 DEF PendingOk, Known
<1>14. InitOk(t, p)
  <2>1. InitOk(u, p)
    BY DEF Prepared
  <2> QED BY <1>2, <1>5, <2>1 DEF InitOk, Known
<1>15. Outward(t.outgoing)
  <2>1. Outward(s.outgoing) /\ Outward(a)
    BY <1>4 DEF PeerOk
  <2> QED BY <1>4, <1>5, <1>6, <2>1, OutwardConcat
<1>16. Len(t.cache) <= Capacity
  BY <1>5 DEF Started
<1> QED BY <1>5, <1>10, <1>11, <1>12, <1>13, <1>14, <1>15, <1>16 DEF PeerOk, Made

LEMMA NameInRange ==
    ASSUME config \in Scenarios, NEW p \in Peers, NEW k \in Nat,
           FirstName(p) + k <= LastName(p)
    PROVE  FirstName(p) + k \in Names
<1> DEFINE n == config.n
           C == Cardinality(Names)
           d == C \div n
<1>1. n \in Nat /\ n >= 2 /\ p \in Nat /\ p <= n - 1
  BY ConfigFacts DEF Peers
<1>2. C \in Nat /\ Names = 0..(C - 1)
  BY NetworkAssumption, FS_CardinalityType
<1>3. FirstName(p) = d * p /\ LastName(p) = IF p < n - 1 THEN d * (p + 1) - 1 ELSE C - 1
  BY DEF FirstName, LastName
<1> HIDE DEF n, C
<1>4. d \in Nat /\ n * d <= C
  BY <1>1, <1>2
<1> HIDE DEF d
<1>5. d * p \in Nat
  BY <1>1, <1>4
<1>6. d * (p + 1) <= C
  <2>1. p + 1 \in Nat /\ n - (p + 1) \in Nat /\ n = (p + 1) + (n - (p + 1))
    BY <1>1
  <2>2. \A a, b, c \in Nat : a * (b + c) = a * b + a * c /\ a * c \in Nat /\ a * b \in Nat
    OBVIOUS
  <2>3. d * n = d * (p + 1) + d * (n - (p + 1)) /\ d * (n - (p + 1)) \in Nat /\ d * (p + 1) \in Nat
    BY <1>4, <2>1, <2>2
  <2>4. d * n = n * d
    BY <1>1, <1>4
  <2> DEFINE x == d * n
             y == d * (p + 1)
             z == d * (n - (p + 1))
             w == n * d
  <2>5. x = y + z /\ z \in Nat /\ y \in Nat /\ x = w /\ w <= C
    BY <1>4, <2>3, <2>4
  <2>6. y <= C
    <3> HIDE DEF x, y, z, w
    <3> QED BY <1>2, <2>5
  <2> QED BY <2>6
<1> DEFINE f == d * p
           e == d * (p + 1)
<1>7. /\ f \in Nat /\ e <= C /\ FirstName(p) = f
      /\ LastName(p) = IF p < n - 1 THEN e - 1 ELSE C - 1
  BY <1>3, <1>5, <1>6
<1>8. e \in Int
  BY <1>1, <1>4
<1> HIDE DEF e, f
<1>9. f + k \in Nat /\ f + k <= C - 1
  BY <1>2, <1>7, <1>8
<1> QED BY <1>2, <1>7, <1>9

LEMMA NextReqFacts ==
    ASSUME NEW p \in Peers, NEW s \in State(p)
    PROVE  NextReq(s, p) \in Requests /\ NextReq(s, p).origin = p
BY QueueTypes DEF NextReq, Requests

\* The controlling thread makes a request.
LEMMA ControllingMakes ==
    ASSUME config \in Scenarios, NEW p \in Peers, NEW s, PeerOk(p, s), NEW op \in Counted,
           NEW name \in Names, NEW g, NEW x, x = Start(s, p, op, name, g), NEW t,
           \/ t = [x EXCEPT !.published = @ + 1]
           \/ t = [x EXCEPT !.looked_up = @ + 1]
    PROVE  PeerOk(p, t) /\ Made(s, p, t) /\ \A y : At(s, y) => At(t, y)
<1>1. s \in State(p) /\ Len(s.cache) <= Capacity /\ InitOk(s, p)
  BY DEF PeerOk
<1>2. Prepared(s, s, p, op, 0)
  <2>1. \A o \in Counted : s.initiated[o] = s.initiated[o] + IF o = op THEN 0 ELSE 0
    BY <1>1, CountsAreNat
  <2>2. \A S : NumIn(s.incoming, S) = NumIn(s.incoming, S) + 0
    <3>1. \A S : NumIn(s.incoming, S) \in Nat
      BY <1>1, Nums
    <3>2. \A j \in Nat : j = j + 0
      OBVIOUS
    <3> QED BY <3>1, <3>2
  <2>3. \A o \in Counted : NumIn(s.incoming, OfType(o)) =
                             NumIn(s.incoming, OfType(o)) + IF o = op THEN 0 ELSE 0
    BY <2>2
  <2>4. Known(s, s)
    BY DEF Known
  <2> QED BY <1>1, <2>1, <2>3, <2>4 DEF Prepared
<1>3. Started(s, p, op, x)
  BY <1>1, StartStarts
<1>4. x \in State(p)
  BY <1>3 DEF Started
<1>5. t \in State(p) /\ Alike(x, t)
  <2> DEFINE k == x.published + 1
             l == x.looked_up + 1
  <2>1. k \in Nat /\ l \in Nat
    BY <1>4 DEF State
  <2>2. t = [x EXCEPT !.published = k] \/ t = [x EXCEPT !.looked_up = l]
    OBVIOUS
  <2> HIDE DEF k, l
  <2>3. CASE t = [x EXCEPT !.published = k]
    BY <1>4, <2>1, <2>3 DEF State, Alike, Known
  <2>4. CASE t = [x EXCEPT !.looked_up = l]
    BY <1>4, <2>1, <2>4 DEF State, Alike, Known
  <2> QED BY <2>2, <2>3, <2>4
<1>6. 0 \in {0, 1}
  OBVIOUS
<1> QED BY <1>2, <1>3, <1>5, <1>6, NewRequest

Initiates(op) == IF op = "GET" THEN "INITIATE_GET" ELSE "INITIATE_PUT"

\* The state of a peer when it has taken the command of a client.
Commanded(u, p, op) ==
    IF op = "GET" THEN [u EXCEPT !.unresolved = @ \cup {NextReq(u, p)}, !.initiated["GET"] = @ + 1]
    ELSE [u EXCEPT !.initiated["PUT"] = @ + 1]

LEMMA CommandPrepares ==
    ASSUME config \in Scenarios, NEW p \in Peers, NEW s, PeerOk(p, s), s.incoming # <<>>,
           NEW h, h = Head(s.incoming), NEW op \in Counted,
           h.type = Initiates(op), NEW w,
           w = Commanded(getIncomingQueueFront(s), p, op)
    PROVE  /\ Prepared(s, w, p, op, 1) /\ h \in Mail(p)
           /\ \A y : At(s, y) /\ y # h => At(w, y)
<1> DEFINE u == getIncomingQueueFront(s)
<1>1. s \in State(p) /\ InitOk(s, p)
  BY DEF PeerOk
<1>2. TakenFrom(s, u, p, h) /\ h \in Mail(p) /\ In(s.incoming, h)
  BY <1>1, FrontTaken
<1>3. w = Commanded(u, p, op)
  OBVIOUS
<1> HIDE DEF u
<1>4. /\ u \in State(p) /\ u.outgoing = s.outgoing /\ u.log = s.log /\ u.cache = s.cache
      /\ u.listener = s.listener /\ u.received_before_init = s.received_before_init
      /\ u.pending = s.pending /\ u.seq = s.seq /\ u.count = s.count
      /\ u.initiated = s.initiated /\ Known(s, u)
      /\ \A S : NumIn(s.incoming, S) = NumIn(u.incoming, S) + IF h \in S THEN 1 ELSE 0
      /\ \A x : In(s.incoming, x) /\ x # h => In(u.incoming, x)
  BY <1>2 DEF TakenFrom
<1>5. h \in Letters /\ h.req = NoReq /\ NoReq \notin Requests
  <2>1. h \in Letters /\ Sensible(h)
    BY <1>2 DEF Mail, Letters, Due
  <2>2. h.type \notin Routed
    BY DEF Routed, Counted, Initiates
  <2> QED BY <2>1, <2>2, NoRequest DEF Sensible
<1>6. \A o \in Counted : h.type \in Types(o) <=> o = op
  BY DEF Types, Counted, Initiates
<1>7. /\ w \in State(p) /\ w.outgoing = u.outgoing /\ w.log = u.log /\ w.cache = u.cache
      /\ w.listener = u.listener /\ w.received_before_init = u.received_before_init
      /\ w.pending = u.pending /\ w.seq = u.seq /\ w.count = u.count /\ Known(u, w)
      /\ w.incoming = u.incoming
      /\ \A o \in Counted : w.initiated[o] = u.initiated[o] + IF o = op THEN 1 ELSE 0
  <2> DEFINE c == [u.initiated EXCEPT ![op] = u.initiated[op] + 1]
             e == u.unresolved \cup {NextReq(u, p)}
  <2>1. u.initiated \in [Counted -> Nat]
    BY <1>4, QueueTypes
  <2>2. /\ c \in [Counted -> Nat]
        /\ \A o \in Counted : c[o] = u.initiated[o] + IF o = op THEN 1 ELSE 0
    BY <2>1
  <2>3. e \in SUBSET Requests
    <3>1. NextReq(u, p) \in Requests
      BY <1>4, NextReqFacts
    <3>2. u.unresolved \in SUBSET Requests
      BY <1>4 DEF State
    <3> QED BY <3>1, <3>2
  <2>4. IF op = "GET" THEN w = [u EXCEPT !.unresolved = e, !.initiated = c]
                      ELSE w = [u EXCEPT !.initiated = c]
    BY <1>3, <1>4 DEF Commanded, Counted, State
  <2> HIDE DEF c, e
  <2>5. CASE op = "GET"
    <3>1. w = [u EXCEPT !.unresolved = e, !.initiated = c]
      BY <2>4, <2>5
    <3> DEFINE v == [u EXCEPT !.unresolved = e]
    <3>2. w = [v EXCEPT !.initiated = c]
      BY <1>4, <3>1 DEF State
    <3>3. /\ v \in State(p) /\ v.outgoing = u.outgoing /\ v.log = u.log /\ v.cache = u.cache
          /\ v.listener = u.listener /\ v.received_before_init = u.received_before_init
          /\ v.pending = u.pending /\ v.seq = u.seq /\ v.count = u.count
          /\ v.incoming = u.incoming /\ v.init = u.init /\ v.rt = u.rt /\ v.pc = u.pc
      BY <1>4, <2>3 DEF State
    <3> HIDE DEF v
    <3>4. /\ w \in State(p) /\ w.outgoing = v.outgoing /\ w.log = v.log /\ w.cache = v.cache
          /\ w.listener = v.listener /\ w.received_before_init = v.received_before_init
          /\ w.pending = v.pending /\ w.seq = v.seq /\ w.count = v.count
          /\ w.incoming = v.incoming /\ w.init = v.init /\ w.rt = v.rt /\ w.pc = v.pc
          /\ w.initiated = c
      BY <2>2, <3>2, <3>3 DEF State
    <3> QED BY <2>2, <3>3, <3>4 DEF Known
  <2>6. CASE op # "GET"
    <3>1. w = [u EXCEPT !.initiated = c]
      BY <2>4, <2>6
    <3> QED BY <1>4, <2>2, <3>1 DEF State, Known
  <2> QED BY <2>5, <2>6
<1>8. \A o \in Counted :
        /\ w.initiated[o] = s.initiated[o] + IF o = op THEN 1 ELSE 0
        /\ NumIn(s.incoming, OfType(o)) = NumIn(w.incoming, OfType(o)) + IF o = op THEN 1 ELSE 0
  <2> TAKE o \in Counted
  <2>1. NumIn(s.incoming, OfType(o)) = NumIn(u.incoming, OfType(o)) + IF h \in OfType(o) THEN 1 ELSE 0
    BY <1>4
  <2>2. h \in OfType(o) <=> o = op
    BY <1>5, <1>6, Belongs
  <2> QED BY <1>4, <1>7, <2>1, <2>2
<1>9. \A r \in Requests : NumIn(s.incoming, OfRequest(r)) = NumIn(w.incoming, OfRequest(r))
  <2> TAKE r \in Requests
  <2>1. NumIn(s.incoming, OfRequest(r)) = NumIn(u.incoming, OfRequest(r)) + IF h \in OfRequest(r) THEN 1 ELSE 0
    BY <1>4
  <2>2. h \notin OfRequest(r)
    BY <1>5, Belongs
  <2>3. NumIn(u.incoming, OfRequest(r)) \in Nat
    BY <1>4, Nums
  <2> QED BY <1>7, <2>1, <2>2, <2>3
<1>10. InitOk(w, p)
  <2>1. s.init
    BY <1>1, <1>2 DEF InitOk, In, Initiates
  <2> QED BY <1>1, <1>4, <1>7, <2>1 DEF InitOk, Known
<1>11. Known(s, w)
  BY <1>4, <1>7 DEF Known
<1>12. Prepared(s, w, p, op, 1)
  BY <1>4, <1>7, <1>8, <1>9, <1>10, <1>11 DEF Prepared
<1>13. \A y : At(s, y) /\ y # h => At(w, y)
  BY <1>4, <1>7 DEF At
<1> QED BY <1>2, <1>12, <1>13

TakesCommand(s, p, h, op, w) ==
    /\ s.incoming # <<>> /\ h = Head(s.incoming) /\ h.type = Initiates(op)
    /\ w = Commanded(getIncomingQueueFront(s), p, op)

\* A request for a client.
LEMMA CommandMakes ==
    ASSUME config \in Scenarios, NEW p \in Peers, NEW s, PeerOk(p, s), NEW h,
           NEW op \in Counted, NEW w, TakesCommand(s, p, h, op, w), NEW name, name = h.name,
           NEW g, NEW t, t = Start(w, p, op, name, g)
    PROVE  PeerOk(p, t) /\ Made(s, p, t) /\ \A y : At(s, y) /\ y # h => At(t, y)
<1>1. /\ Prepared(s, w, p, op, 1) /\ h \in Mail(p)
      /\ \A y : At(s, y) /\ y # h => At(w, y)
  BY CommandPrepares DEF TakesCommand
<1>3. name \in Names
  <2>1. h \in Letters /\ Sensible(h)
    BY <1>1 DEF Mail, Letters, Due
  <2>2. h.type = Initiates(op)
    BY DEF TakesCommand
  <2> QED BY <2>1, <2>2 DEF Sensible, Initiates
<1>4. w \in State(p) /\ Len(w.cache) <= Capacity
  BY <1>1 DEF Prepared, PeerOk
<1>5. Started(w, p, op, t)
  BY <1>3, <1>4, StartStarts
<1>6. t \in State(p)
  BY <1>5 DEF Started
<1>7. Alike(t, t) /\ 1 \in {0, 1}
  BY DEF Alike, Known
<1>8. PeerOk(p, t) /\ Made(s, p, t) /\ \A y : At(w, y) => At(t, y)
  BY <1>1, <1>5, <1>6, <1>7, NewRequest
<1> QED BY <1>1, <1>8

-----------------------------------------------------------------------------
(* Every step keeps the invariant. *)

LEMMA StepTypes ==
    ASSUME TypesInv, config' = config, peer' = [q \in Peers' |-> peer'[q]],
           net' \in [DOMAIN net' -> Nat \ {0}], DOMAIN net' \subseteq Letters,
           driver'.next \in 0..config.n, failures' \in Nat,
           issued' \subseteq Requests, dropped' \subseteq issued'
    PROVE  TypesInv'
<1>1. Peers' = Peers /\ Requests' = Requests /\ Letters' = Letters
  BY ConfigKept
<1> QED BY <1>1 DEF TypesInv

\* What is at a peer or on its way after a step of peer p.
LEMMA ThereAfter ==
    ASSUME NEW p \in Peers, NEW t, Peers' = Peers,
           \A q \in Peers : peer'[q] = IF q = p THEN t ELSE peer[q], NEW x
    PROVE  /\ There(x)' <=> x \in DOMAIN net' \/ At(t, x) \/ \E q \in Peers \ {p} : At(peer[q], x)
           /\ There(x) <=> x \in DOMAIN net \/ At(peer[p], x) \/ \E q \in Peers \ {p} : At(peer[q], x)
<1>1. There(x)' <=> x \in DOMAIN net' \/ \E q \in Peers : At(peer'[q], x)
  BY DEF There, At, In
<1>2. \A q \in Peers : At(peer'[q], x) <=> IF q = p THEN At(t, x) ELSE At(peer[q], x)
  OBVIOUS
<1> QED BY <1>1, <1>2 DEF There

\* Nothing that is known or on its way is lost.
LEMMA ToldQuietly ==
    ASSUME TypesInv, ToldInv, config' = config, failures' = failures, driver'.next = driver.next,
           \A x : x.type \in {"INIT", "CACHE_ME"} /\ There(x) => There(x)',
           \A q \in Peers : Known(peer[q], peer'[q])
    PROVE  ToldInv'
<1>1. Peers' = Peers /\ \A q : RtOf(q)' = RtOf(q)
  BY ConfigKept
<1>2. \A x : \A q \in Peers : Knows(q, x)' <=> Knows(q, x)
  BY DEF Knows, Known
<1>3. \A q \in Peers : peer'[q].init = peer[q].init
  BY DEF Known
<1>4. config \in Scenarios /\ \A q \in Peers : RtOf(q) \subseteq Peers
  BY RtFacts DEF TypesInv
<1>6. /\ \A q : There(Control("INIT", q, None)) => There(Control("INIT", q, None))'
      /\ \A q, d, ttl : There(Notice(q, d, ttl)) => There(Notice(q, d, ttl))'
  <2>1. \A q : Control("INIT", q, None).type = "INIT"
    BY DEF Control, Message
  <2>2. \A q, d, ttl : Notice(q, d, ttl).type = "CACHE_ME"
    BY DEF Notice, Message
  <2> QED BY <2>1, <2>2
<1>5. SUFFICES ASSUME config.type = "proactive" /\ failures = 0
               PROVE  /\ \A p \in Peers : p < driver.next =>
                           peer'[p].init \/ There(Control("INIT", p, None))'
                      /\ \A q \in Peers : peer'[q].init => \A d \in RtOf(q) :
                           \/ There(Notice(q, d, 2))'
                           \/ /\ Knows(d, q)'
                              /\ \A e \in RtOf(d) : There(Notice(q, e, 1))' \/ Knows(e, q)'
  BY <1>1 DEF ToldInv
<1> QED BY <1>2, <1>3, <1>4, <1>5, <1>6 DEF ToldInv

\* A message that is handled has said what it has to say.
LEMMA ToldHandled ==
    ASSUME TypesInv, PeersInv, ToldInv, NEW p \in Peers, NEW t, PeerOk(p, t), Becomes(p, t),
           NEW h \in Mail(p), In(peer[p].incoming, h), Handled(peer[p], p, h, t),
           net' = net, failures' = failures, driver' = driver
    PROVE  ToldInv'
<1> DEFINE s == peer[p]
           m == Decremented(h)
<1>1. Peers' = Peers /\ (\A q : RtOf(q)' = RtOf(q)) /\ config' = config
  BY ConfigKept DEF Becomes
<1>2. \A q \in Peers : peer'[q] = IF q = p THEN t ELSE peer[q]
  BY OnePeerChanges
<1>3. config \in Scenarios /\ \A q \in Peers : RtOf(q) \subseteq Peers
  BY RtFacts DEF TypesInv
<1>4. PeerOk(p, s) /\ s \in State(p) /\ s.rt \in {{}, RtOf(p)}
  BY DEF PeersInv, PeerOk, State
<1>5. (~s.init => h.type = "INIT") /\ (s.init => s.rt = RtOf(p))
  BY <1>3, <1>4, SpreadsOnce DEF PeerOk, InitOk
<1>6. h \in Due(p) /\ h.ttl \in 1..DefaultTtl /\ h.dest = p
  BY DEF Mail, Letters
<1>7. m.type = h.type /\ m.src = h.src /\ m.ttl = h.ttl - 1
  BY <1>6, DecFacts
<1>8. /\ t.init <=> s.init \/ h.type = "INIT"
      /\ t.rt = IF h.type = "INIT" THEN RtOf(p) ELSE s.rt
      /\ t.pc = IF h.type = "CACHE_ME" /\ config.type = "proactive"
                THEN s.pc \cup ({h.src} \ ({p} \cup s.rt)) ELSE s.pc
  BY <1>7 DEF Handled, Learns
<1>9. \A x : x # h /\ There(x) => There(x)'
  <2>1. \A x : At(s, x) /\ x # h => At(t, x)
    BY DEF Handled
  <2> HIDE DEF s
  <2> QED BY <1>1, <1>2, <2>1, ThereAfter DEF s
<1>10. \A x \in NoticesFor(s, p, m) : There(x)'
  <2>1. \A x \in NoticesFor(s, p, m) : At(t, x)
    BY DEF Handled
  <2> QED BY <1>1, <1>2, <2>1, ThereAfter
<1> HIDE DEF m, s
<1>11. \A x : \A q \in Peers : Knows(q, x) => Knows(q, x)'
  <2> TAKE x
  <2> TAKE q \in Peers
  <2>1. CASE q = p
    BY <1>2, <1>4, <1>8, <2>1 DEF Knows, s
  <2>2. CASE q # p
    BY <1>2, <2>2 DEF Knows
  <2> QED BY <2>1, <2>2
<1>12. \A q \in Peers : peer[q].init => peer'[q].init
  BY <1>2, <1>8 DEF s
<1>13. SUFFICES ASSUME config.type = "proactive", failures = 0
                PROVE  /\ \A q \in Peers : q < driver.next =>
                            peer'[q].init \/ There(Control("INIT", q, None))'
                       /\ \A q \in Peers : peer'[q].init => \A d \in RtOf(q) :
                            \/ There(Notice(q, d, 2))'
                            \/ /\ Knows(d, q)'
                               /\ \A e \in RtOf(d) : There(Notice(q, e, 1))' \/ Knows(e, q)'
  BY <1>1 DEF ToldInv
<1>14. /\ \A q \in Peers : q < driver.next => peer[q].init \/ There(Control("INIT", q, None))
       /\ \A q \in Peers : peer[q].init => \A d \in RtOf(q) :
            \/ There(Notice(q, d, 2))
            \/ /\ Knows(d, q)
               /\ \A e \in RtOf(d) : There(Notice(q, e, 1)) \/ Knows(e, q)
  BY <1>13 DEF ToldInv
<1>15. ASSUME NEW q \in Peers, q < driver.next
       PROVE  peer'[q].init \/ There(Control("INIT", q, None))'
  <2>1. CASE Control("INIT", q, None) = h
    <3>1. q = p /\ h.type = "INIT"
      BY <1>6, <2>1 DEF Control, Message
    <3> QED BY <1>2, <1>8, <3>1
  <2>2. CASE Control("INIT", q, None) # h
    BY <1>9, <1>12, <1>14, <1>15, <2>2
  <2> QED BY <2>1, <2>2
\* h is an announcement of q.
<1>16. ASSUME NEW q \in Peers, NEW ttl, Notice(q, p, ttl) = h
       PROVE  Knows(p, q)'
  <2>1. h.type = "CACHE_ME" /\ h.src = q
    BY <1>16 DEF Notice, Message
  <2>2. q = p \/ q \in t.rt \/ q \in t.pc
    BY <1>8, <1>13, <2>1
  <2> QED BY <1>2, <2>2 DEF Knows
<1>17. ASSUME NEW q \in Peers, NEW e \in Peers, There(Notice(q, e, 1))
       PROVE  There(Notice(q, e, 1))' \/ Knows(e, q)'
  <2>1. CASE Notice(q, e, 1) = h
    <3>1. e = p
      BY <1>6, <2>1 DEF Notice, Message
    <3> QED BY <1>16, <2>1, <3>1
  <2>2. CASE Notice(q, e, 1) # h
    BY <1>9, <1>17, <2>2
  <2> QED BY <2>1, <2>2
<1>18. ASSUME NEW q \in Peers, NEW d \in Peers, Notice(q, d, 2) = h
       PROVE  Knows(d, q)' /\ \A e \in RtOf(d) : There(Notice(q, e, 1))'
  <2>1. d = p /\ h.type = "CACHE_ME" /\ h.src = q /\ h.ttl = 2
    BY <1>6, <1>18 DEF Notice, Message
  <2>2. Knows(d, q)'
    BY <1>16, <1>18, <2>1
  <2>3. s.init /\ s.rt = RtOf(p)
    BY <1>5, <2>1
  <2>4. m.ttl = 1
    BY <1>7, <2>1
  <2>5. NoticesFor(s, p, m) = {Notice(q, e, 1) : e \in RtOf(p)}
    BY <1>7, <1>13, <2>1, <2>3, <2>4 DEF NoticesFor
  <2> QED BY <1>10, <2>1, <2>2, <2>5
<1>19. ASSUME NEW q \in Peers, peer'[q].init, NEW d \in RtOf(q)
       PROVE  \/ There(Notice(q, d, 2))'
              \/ /\ Knows(d, q)'
                 /\ \A e \in RtOf(d) : There(Notice(q, e, 1))' \/ Knows(e, q)'
  <2>0. d \in Peers /\ RtOf(d) \subseteq Peers
    BY <1>3
  <2>1. CASE peer[q].init
    <3>1. CASE There(Notice(q, d, 2))
      <4>1. CASE Notice(q, d, 2) = h
        BY <1>18, <2>0, <4>1
      <4>2. CASE Notice(q, d, 2) # h
        BY <1>9, <3>1, <4>2
      <4> QED BY <4>1, <4>2
    <3>2. CASE ~There(Notice(q, d, 2))
      <4>1. Knows(d, q) /\ \A e \in RtOf(d) : There(Notice(q, e, 1)) \/ Knows(e, q)
        BY <1>14, <2>1, <3>2
      <4> QED BY <1>11, <1>17, <2>0, <4>1
    <3> QED BY <3>1, <3>2
  <2>2. CASE ~peer[q].init
    <3>1. q = p /\ h.type = "INIT"
      BY <1>2, <1>8, <1>19, <2>2 DEF s
    <3>2. NoticesFor(s, p, m) = {Notice(p, e, 2) : e \in RtOf(p)}
      BY <1>7, <1>13, <3>1 DEF NoticesFor, CacheMeTtl
    <3> QED BY <1>10, <3>1, <3>2
  <2> QED BY <2>1, <2>2
<1> QED BY <1>15, <1>19

\* A step inside a peer that takes nothing in and lets nothing out.
LEMMA InsideStep ==
    ASSUME NetworkInv, NEW p \in Peers, NEW t, PeerOk(p, t), Becomes(p, t), Keeps(peer[p], t),
           UNCHANGED <<net, driver, failures, issued, dropped>>
    PROVE  NetworkInv'
<1>1. TypesInv /\ PeersInv /\ TokenInv /\ ToldInv /\ config' = config
  BY DEF NetworkInv, Becomes
<1>2. /\ PeersInv' /\ peer' = [q \in Peers' |-> peer'[q]]
      /\ \A q \in Peers : peer'[q] = IF q = p THEN t ELSE peer[q]
  BY <1>1, OnePeerChanges
<1>3. Requested(p, t)
  BY <1>1, StepOfRequests
<1>4. TokenInv'
  BY <1>1, <1>3, RequestsStay DEF Keeps
<1>5. TypesInv'
  BY <1>1, <1>2, StepTypes DEF TypesInv
<1>6. ToldInv'
  <2>1. Peers' = Peers
    BY <1>1, ConfigKept
  <2>2. \A x : There(x) => There(x)'
    BY <1>2, <2>1, ThereAfter DEF Keeps
  <2>3. \A q \in Peers : Known(peer[q], peer'[q])
    BY <1>2 DEF Keeps, Known
  <2> QED BY <1>1, <2>2, <2>3, ToldQuietly
<1> QED BY <1>2, <1>4, <1>5, <1>6 DEF NetworkInv

LEMMA KeepBackStep ==
    ASSUME NetworkInv, NEW p \in Peers, KeepBack(p)
    PROVE  NetworkInv'
<1> DEFINE s == peer[p]
           t == [s EXCEPT !.received_before_init = s.received_before_init \o s.listener,
                          !.listener = <<>>]
<1>1. PeerOk(p, s) /\ peer = [q \in Peers |-> peer[q]]
  BY DEF NetworkInv, TypesInv, PeersInv
<1>2. peer' = [peer EXCEPT ![p] = t]
  BY <1>1 DEF KeepBack
<1>3. UNCHANGED <<config, net, driver, failures, issued, dropped>>
  BY DEF KeepBack
<1>4. PeerOk(p, t) /\ Keeps(s, t)
  <2> HIDE DEF s
  <2> QED BY <1>1, KeepBackKeeps
<1> HIDE DEF t
<1> QED BY <1>2, <1>3, <1>4, InsideStep DEF Becomes

LEMMA PendingStartStep ==
    ASSUME NetworkInv, NEW p \in Peers, PendingStart(p)
    PROVE  NetworkInv'
<1> DEFINE s == peer[p]
           t == [s EXCEPT !.pending = "drain"]
<1>1. PeerOk(p, s) /\ peer = [q \in Peers |-> peer[q]] /\ s.init
  BY DEF NetworkInv, TypesInv, PeersInv, PendingStart
<1>2. peer' = [peer EXCEPT ![p] = t]
  BY <1>1 DEF PendingStart
<1>3. UNCHANGED <<config, net, driver, failures, issued, dropped>>
  BY DEF PendingStart
<1>4. PeerOk(p, t) /\ Keeps(s, t)
  <2> HIDE DEF s
  <2> QED BY <1>1, PendingStartKeeps
<1> HIDE DEF t
<1> QED BY <1>2, <1>3, <1>4, InsideStep DEF Becomes

LEMMA PendingStepStep ==
    ASSUME NetworkInv, NEW p \in Peers, PendingStep(p)
    PROVE  NetworkInv'
<1> DEFINE s == peer[p]
           t == IF s.received_before_init = <<>> THEN [s EXCEPT !.pending = "done"]
                ELSE [addToIncomingQueue(s, Head(s.received_before_init))
                        EXCEPT !.received_before_init = Tail(s.received_before_init)]
<1>1. PeerOk(p, s) /\ peer = [q \in Peers |-> peer[q]] /\ s.pending = "drain"
  BY DEF NetworkInv, TypesInv, PeersInv, PendingStep
<1>2. peer' = [peer EXCEPT ![p] = t]
  BY <1>1 DEF PendingStep
<1>3. UNCHANGED <<config, net, driver, failures, issued, dropped>>
  BY DEF PendingStep
<1>4. PeerOk(p, t) /\ Keeps(s, t)
  <2> HIDE DEF s
  <2> QED BY <1>1, PendingStepKeeps
<1> HIDE DEF t
<1> QED BY <1>2, <1>3, <1>4, InsideStep DEF Becomes

LEMMA ListenStep ==
    ASSUME NetworkInv, NEW p \in Peers, NEW m, Listen(p, m)
    PROVE  NetworkInv'
<1> DEFINE s == peer[p]
           t == Inserting(Arrived(s, m), m)
<1>1. TypesInv /\ PeersInv /\ TokenInv /\ ToldInv /\ config' = config
  BY DEF NetworkInv, Listen
<1>2. PeerOk(p, s) /\ net \in [DOMAIN net -> Nat \ {0}] /\ DOMAIN net \subseteq Letters
  BY <1>1 DEF TypesInv, PeersInv
<1>3. BagIn(m, net) /\ m.dest = p /\ s.listener = <<>> /\ net' = net (-) SetToBag({m})
  BY DEF Listen
<1>4. peer' = [peer EXCEPT ![p] = t]
  BY DEF Listen, Inserting
<1>5. UNCHANGED <<driver, failures, issued, dropped>>
  BY DEF Listen
<1>6. OneLess(m) /\ m \in DOMAIN net
  BY <1>2, <1>3, BagTakesOne
<1>7. m \in Mail(p)
  BY <1>2, <1>3, <1>6 DEF Mail
<1>8. PeerOk(p, t) /\ TakesIn(s, t, m)
  <2> HIDE DEF s
  <2>1. t = Inserting(Arrived(s, m), m)
    OBVIOUS
  <2> HIDE DEF t
  <2> QED BY <1>2, <1>3, <1>7, <2>1, ListenTakes
<1> HIDE DEF t
<1>9. Becomes(p, t)
  BY <1>1, <1>4 DEF Becomes
<1>10. /\ PeersInv' /\ peer' = [q \in Peers' |-> peer'[q]]
       /\ \A q \in Peers : peer'[q] = IF q = p THEN t ELSE peer[q]
  BY <1>1, <1>8, <1>9, OnePeerChanges
<1>11. Requested(p, t)
  BY <1>1, <1>8, <1>9, StepOfRequests
<1>12. TokenInv'
  BY <1>1, <1>5, <1>6, <1>8, <1>11, RequestArrives DEF TakesIn
<1>13. TypesInv'
  <2>1. net' \in [DOMAIN net' -> Nat \ {0}] /\ DOMAIN net' \subseteq Letters
    BY <1>2, <1>6 DEF OneLess
  <2> QED BY <1>1, <1>5, <1>10, <2>1, StepTypes DEF TypesInv
<1>14. ToldInv'
  <2>1. Peers' = Peers
    BY <1>1, ConfigKept
  <2>2. ASSUME NEW x, There(x)
        PROVE  There(x)'
    <3>1. CASE x = m
      <4>1. At(t, m)
        BY <1>8 DEF TakesIn
      <4> QED BY <1>10, <2>1, <3>1, <4>1, ThereAfter
    <3>2. CASE x # m
      <4>1. x \in DOMAIN net => x \in DOMAIN net'
        BY <1>6, <3>2 DEF OneLess
      <4>2. At(s, x) => At(t, x)
        BY <1>8 DEF TakesIn
      <4> QED BY <1>10, <2>1, <2>2, <4>1, <4>2, ThereAfter
    <3> QED BY <3>1, <3>2
  <2>3. \A q \in Peers : Known(peer[q], peer'[q])
    BY <1>8, <1>10 DEF TakesIn, Known
  <2> QED BY <1>1, <1>5, <2>2, <2>3, ToldQuietly
<1> QED BY <1>10, <1>12, <1>13, <1>14 DEF NetworkInv

LEMMA ForwardStep ==
    ASSUME NetworkInv, NEW p \in Peers, NEW sent \in BOOLEAN, Forward(p, sent)
    PROVE  NetworkInv'
<1> DEFINE s == peer[p]
           m == Head(s.outgoing)
           t == Bump(getOutgoingQueueFront(s), m.type, IF sent THEN "forwarded" ELSE "dropped")
<1>1. TypesInv /\ PeersInv /\ TokenInv /\ ToldInv /\ config' = config
  BY DEF NetworkInv, Forward
<1>2. /\ PeerOk(p, s) /\ net \in [DOMAIN net -> Nat \ {0}] /\ DOMAIN net \subseteq Letters
      /\ peer = [q \in Peers |-> peer[q]] /\ failures \in Nat
  BY <1>1 DEF TypesInv, PeersInv
<1>3. s.outgoing # <<>>
  BY DEF Forward
<1>4. peer' = [peer EXCEPT ![p] = t]
  BY <1>2 DEF Forward
<1>5. /\ UNCHANGED <<driver, issued>>
      /\ sent => net' = net (+) SetToBag({m}) /\ UNCHANGED <<failures, dropped>>
      /\ ~sent => /\ failures' = failures + 1 /\ net' = net
                  /\ dropped' = dropped \cup ({m.req} \ {NoReq})
  BY DEF Forward
<1>6. PeerOk(p, t) /\ LetsOut(s, t, m) /\ m \in Letters
  <2>1. t = Bump(getOutgoingQueueFront(s), m.type, IF sent THEN "forwarded" ELSE "dropped")
    OBVIOUS
  <2>2. m = Head(s.outgoing)
    OBVIOUS
  <2> HIDE DEF s, m, t
  <2> QED BY <1>2, <1>3, <2>1, <2>2, ForwardLetsOut
<1> HIDE DEF t, m
<1>9. Becomes(p, t)
  BY <1>1, <1>4 DEF Becomes
<1>10. /\ PeersInv' /\ peer' = [q \in Peers' |-> peer'[q]]
       /\ \A q \in Peers : peer'[q] = IF q = p THEN t ELSE peer[q]
  BY <1>1, <1>6, <1>9, OnePeerChanges
<1>11. Requested(p, t)
  BY <1>1, <1>6, <1>9, StepOfRequests
<1>12. Peers' = Peers
  BY <1>1, ConfigKept
<1>13. CASE sent
  <2>1. OneMore(m)
    BY <1>2, <1>5, <1>13, BagAddsOne
  <2>2. TokenInv'
    BY <1>1, <1>5, <1>6, <1>11, <1>13, <2>1, RequestLeaves DEF LetsOut
  <2>3. TypesInv'
    <3>1. net' \in [DOMAIN net' -> Nat \ {0}] /\ DOMAIN net' \subseteq Letters
      BY <1>2, <1>6, <2>1 DEF OneMore
    <3> QED BY <1>1, <1>5, <1>10, <1>13, <3>1, StepTypes DEF TypesInv
  <2>4. ToldInv'
    <3>2. ASSUME NEW x, There(x)
          PROVE  There(x)'
      <4>1. CASE x = m
        <5>1. m \in DOMAIN net'
          BY <2>1 DEF OneMore
        <5> QED BY <1>10, <1>12, <4>1, <5>1, ThereAfter
      <4>2. CASE x # m
        <5>1. x \in DOMAIN net => x \in DOMAIN net'
          BY <2>1 DEF OneMore
        <5>2. At(s, x) => At(t, x)
          BY <1>6, <4>2 DEF LetsOut
        <5> QED BY <1>10, <1>12, <3>2, <5>1, <5>2, ThereAfter
      <4> QED BY <4>1, <4>2
    <3>3. \A q \in Peers : Known(peer[q], peer'[q])
      BY <1>6, <1>10 DEF LetsOut, Known
    <3> QED BY <1>1, <1>5, <1>13, <3>2, <3>3, ToldQuietly
  <2> QED BY <1>10, <2>2, <2>3, <2>4 DEF NetworkInv
<1>14. CASE ~sent
  <2>1. TokenInv'
    BY <1>1, <1>5, <1>6, <1>11, <1>14, RequestLost DEF LetsOut
  <2>2. m.req \in Requests \cup {NoReq} /\ (m.req \in Requests => m.req \in issued)
    <3>1. m.req \in Requests \cup {NoReq}
      BY <1>6 DEF Letters, AnyMessage
    <3>2. ASSUME m.req \in Requests
          PROVE  m.req \in issued
      <4> DEFINE r == m.req
      <4>1. Copies(s, r) = Copies(t, r) + 1 /\ Copies(t, r) \in Nat
        <5>1. Copies(s, r) = Copies(t, r) + 1
          BY <1>6, <3>2 DEF LetsOut
        <5>2. t \in State(p)
          BY <1>6 DEF PeerOk
        <5> QED BY <5>1, <5>2, CopiesIsNat
      <4>2. r \in Requests /\ TokenOk(r)
        BY <1>1, <3>2 DEF TokenInv
      <4> HIDE DEF r
      <4>3. ~Nowhere(r)
        BY <4>1 DEF Nowhere
      <4>4. r \in issued
        BY <4>2, <4>3 DEF TokenOk
      <4> QED BY <4>4 DEF r
    <3> QED BY <3>1, <3>2
  <2>3. TypesInv'
    <3>1. /\ net' \in [DOMAIN net' -> Nat \ {0}] /\ DOMAIN net' \subseteq Letters
          /\ failures' \in Nat /\ dropped' \subseteq issued' /\ issued' \subseteq Requests
          /\ driver'.next \in 0..config.n
      BY <1>1, <1>2, <1>5, <1>14, <2>2 DEF TypesInv
    <3> QED BY <1>1, <1>10, <3>1, StepTypes
  <2>4. ToldInv'
    <3>1. failures' # 0
      BY <1>2, <1>5, <1>14
    <3> QED BY <3>1 DEF ToldInv
  <2> QED BY <1>10, <2>1, <2>3, <2>4 DEF NetworkInv
<1> QED BY <1>13, <1>14

\* A peer makes a request; a command it takes from its queue is the only message
\* that is gone.
LEMMA RequestStep ==
    ASSUME NetworkInv, NEW p \in Peers, NEW t, PeerOk(p, t), Becomes(p, t), Made(peer[p], p, t),
           NEW h, h.type \notin {"INIT", "CACHE_ME"}, \A x : At(peer[p], x) /\ x # h => At(t, x),
           UNCHANGED <<net, driver, failures, dropped>>,
           issued' = issued \cup {NextReq(peer[p], p)}
    PROVE  NetworkInv'
<1>1. TypesInv /\ PeersInv /\ TokenInv /\ ToldInv /\ config' = config
  BY DEF NetworkInv, Becomes
<1>2. /\ PeersInv' /\ peer' = [q \in Peers' |-> peer'[q]]
      /\ \A q \in Peers : peer'[q] = IF q = p THEN t ELSE peer[q]
  BY <1>1, OnePeerChanges
<1>3. Requested(p, t)
  BY <1>1, StepOfRequests
<1>4. TokenInv'
  BY <1>1, <1>3, RequestMade DEF Made
<1>5. TypesInv'
  <2>1. NextReq(peer[p], p) \in Requests
    BY <1>1, NextReqFacts DEF PeersInv, PeerOk
  <2>2. issued' \subseteq Requests /\ dropped' \subseteq issued'
    BY <1>1, <2>1 DEF TypesInv
  <2> QED BY <1>1, <1>2, <2>2, StepTypes DEF TypesInv
<1>6. ToldInv'
  <2>1. Peers' = Peers
    BY <1>1, ConfigKept
  <2>2. ASSUME NEW x, x.type \in {"INIT", "CACHE_ME"}, There(x)
        PROVE  There(x)'
    <3>1. At(peer[p], x) => At(t, x)
      BY <2>2
    <3> QED BY <1>2, <2>1, <2>2, <3>1, ThereAfter
  <2>3. \A q \in Peers : Known(peer[q], peer'[q])
    BY <1>2 DEF Made, Known
  <2> QED BY <1>1, <2>2, <2>3, ToldQuietly
<1> QED BY <1>2, <1>4, <1>5, <1>6 DEF NetworkInv

LEMMA PublishStep ==
    ASSUME NetworkInv, NEW p \in Peers, Publish(p)
    PROVE  NetworkInv'
<1> DEFINE s == peer[p]
           name == FirstName(p) + s.published
           op == "PUT"
<1>1. /\ PeerOk(p, s) /\ s \in State(p) /\ config \in Scenarios /\ s.published \in Nat
  BY DEF NetworkInv, TypesInv, PeersInv, PeerOk, State
<1>2. PICK g \in 0..(K - 1) :
        peer' = [peer EXCEPT ![p] = [Start(s, p, op, name, g) EXCEPT !.published = @ + 1]]
  BY DEF Publish
<1>3. name \in Names
  <2>1. name <= LastName(p)
    BY DEF Publish
  <2> HIDE DEF s
  <2> QED BY <1>1, <2>1, NameInRange
<1>4. /\ UNCHANGED <<config, net, driver, failures, dropped>>
      /\ issued' = issued \cup {NextReq(s, p)}
  BY DEF Publish
<1> DEFINE x == Start(s, p, op, name, g)
           t == [x EXCEPT !.published = @ + 1]
<1>5. peer' = [peer EXCEPT ![p] = t]
  BY <1>2
<1>6. op \in Counted
  BY DEF Counted
<1>7. x = Start(s, p, op, name, g) /\ t = [x EXCEPT !.published = @ + 1]
  OBVIOUS
<1> HIDE DEF x, t, name, op
<1>8. PeerOk(p, t) /\ Made(s, p, t) /\ \A y : At(s, y) => At(t, y)
  <2> HIDE DEF s
  <2> QED BY <1>1, <1>3, <1>6, <1>7, ControllingMakes
<1>9. Becomes(p, t)
  BY <1>4, <1>5 DEF Becomes
<1> DEFINE h == [type |-> "PUT"]
<1>10. h.type \notin {"INIT", "CACHE_ME"}
  OBVIOUS
<1> HIDE DEF h
<1> QED BY <1>4, <1>8, <1>9, <1>10, RequestStep

LEMMA LookupStep ==
    ASSUME NetworkInv, NEW p \in Peers, Lookup(p)
    PROVE  NetworkInv'
<1> DEFINE s == peer[p]
           name == FirstName(p) + s.looked_up
           op == "GET"
<1>1. /\ PeerOk(p, s) /\ s \in State(p) /\ config \in Scenarios /\ s.looked_up \in Nat
  BY DEF NetworkInv, TypesInv, PeersInv, PeerOk, State
<1>2. PICK g \in 0..(K - 1) :
        peer' = [peer EXCEPT ![p] = [Start(s, p, op, name, g) EXCEPT !.looked_up = @ + 1]]
  BY DEF Lookup
<1>3. name \in Names
  <2>1. name <= LastName(p)
    BY DEF Lookup
  <2> HIDE DEF s
  <2> QED BY <1>1, <2>1, NameInRange
<1>4. /\ UNCHANGED <<config, net, driver, failures, dropped>>
      /\ issued' = issued \cup {NextReq(s, p)}
  BY DEF Lookup
<1> DEFINE x == Start(s, p, op, name, g)
           t == [x EXCEPT !.looked_up = @ + 1]
<1>5. peer' = [peer EXCEPT ![p] = t]
  BY <1>2
<1>6. op \in Counted
  BY DEF Counted
<1>7. x = Start(s, p, op, name, g) /\ t = [x EXCEPT !.looked_up = @ + 1]
  OBVIOUS
<1> HIDE DEF x, t, name, op
<1>8. PeerOk(p, t) /\ Made(s, p, t) /\ \A y : At(s, y) => At(t, y)
  <2> HIDE DEF s
  <2> QED BY <1>1, <1>3, <1>6, <1>7, ControllingMakes
<1>9. Becomes(p, t)
  BY <1>4, <1>5 DEF Becomes
<1> DEFINE h == [type |-> "GET"]
<1>10. h.type \notin {"INIT", "CACHE_ME"}
  OBVIOUS
<1> HIDE DEF h
<1> QED BY <1>4, <1>8, <1>9, <1>10, RequestStep

LEMMA ProcessStep ==
    ASSUME NetworkInv, NEW p \in Peers, Process(p)
    PROVE  NetworkInv'
<1> DEFINE s == peer[p]
           u == getIncomingQueueFront(s)
           h == Head(s.incoming)
<1>1. /\ TypesInv /\ PeersInv /\ ToldInv /\ TokenInv /\ PeerOk(p, s) /\ s \in State(p)
      /\ config \in Scenarios
  BY DEF NetworkInv, TypesInv, PeersInv, PeerOk
<1>2. s.incoming # <<>> /\ UNCHANGED <<config, net, driver, failures, dropped>>
  BY DEF Process
<1>3. PICK g \in 0..(K - 1) :
        peer' = [peer EXCEPT ![p] =
           CASE h.type = "INITIATE_GET" -> get_for_client(u, p, h.name, g)
             [] h.type = "INITIATE_PUT" ->
                  Start([u EXCEPT !.initiated["PUT"] = @ + 1], p, "PUT", h.name, g)
             [] OTHER -> processMessage(u, p, h, g)]
  BY DEF Process
<1>4. CASE h.type \in {"INITIATE_GET", "INITIATE_PUT"}
  <2> DEFINE op == IF h.type = "INITIATE_GET" THEN "GET" ELSE "PUT"
             w == Commanded(u, p, op)
             t == Start(w, p, op, h.name, g)
  <2>1. op \in Counted /\ h.type = Initiates(op)
    BY <1>4 DEF Counted, Initiates
  <2>2. peer' = [peer EXCEPT ![p] = t]
    <3>1. CASE h.type = "INITIATE_GET"
      <4>1. w = [u EXCEPT !.unresolved = @ \cup {NextReq(u, p)}, !.initiated["GET"] = @ + 1]
        BY <3>1 DEF Commanded
      <4>2. get_for_client(u, p, h.name, g) = t
        BY <3>1, <4>1 DEF get_for_client
      <4> HIDE DEF t, h
      <4> QED BY <1>3, <3>1, <4>2
    <3>2. CASE h.type = "INITIATE_PUT"
      <4>1. w = [u EXCEPT !.initiated["PUT"] = @ + 1]
        BY <3>2 DEF Commanded
      <4>2. Start([u EXCEPT !.initiated["PUT"] = @ + 1], p, "PUT", h.name, g) = t
        BY <3>2, <4>1
      <4> HIDE DEF t, h
      <4> QED BY <1>3, <3>2, <4>2
    <3> QED BY <1>4, <3>1, <3>2
  <2>3. issued' = issued \cup {NextReq(s, p)}
    <3>1. issued' = issued \cup {NextReq(u, p)}
      BY <1>4 DEF Process
    <3>2. TakenFrom(s, u, p, h)
      BY <1>1, <1>2, FrontTaken
    <3> HIDE DEF u, s
    <3> QED BY <3>1, <3>2 DEF TakenFrom, NextReq
  <2> DEFINE name == h.name
  <2>4. /\ t = Start(w, p, op, name, g) /\ w = Commanded(getIncomingQueueFront(s), p, op)
        /\ h = Head(s.incoming) /\ name = h.name
    OBVIOUS
  <2> HIDE DEF t, w, h, op, u, name
  <2>5. PeerOk(p, t) /\ Made(s, p, t) /\ \A y : At(s, y) /\ y # h => At(t, y)
    <3> HIDE DEF s
    <3>1. config \in Scenarios /\ PeerOk(p, s) /\ s.incoming # <<>>
      BY <1>1, <1>2
    <3>2. TakesCommand(s, p, h, op, w)
      BY <2>1, <2>4, <3>1 DEF TakesCommand
    <3>3. t = Start(w, p, op, name, g) /\ name = h.name
      BY <2>4
    <3> QED BY <2>1, <3>1, <3>2, <3>3, CommandMakes
  <2>6. Becomes(p, t) /\ h.type \notin {"INIT", "CACHE_ME"}
    BY <1>2, <1>4, <2>2 DEF Becomes
  <2> QED BY <1>2, <2>3, <2>5, <2>6, RequestStep
<1>5. CASE h.type \notin {"INITIATE_GET", "INITIATE_PUT"}
  <2> DEFINE t == processMessage(u, p, h, g)
  <2>1. peer' = [peer EXCEPT ![p] = t]
    <3> HIDE DEF t, h
    <3> QED BY <1>3, <1>5 DEF t
  <2>2. issued' = issued
    BY <1>5 DEF Process
  <2>3. t = processMessage(getIncomingQueueFront(s), p, h, g) /\ h = Head(s.incoming)
    OBVIOUS
  <2> HIDE DEF t, h, u
  <2>4. PeerOk(p, t) /\ Handled(s, p, h, t) /\ h \in Mail(p) /\ In(s.incoming, h)
    <3> HIDE DEF s
    <3> QED BY <1>1, <1>2, <1>5, <2>3, ProcessKeeps
  <2>5. Becomes(p, t)
    BY <1>2, <2>1 DEF Becomes
  <2>6. /\ PeersInv' /\ peer' = [q \in Peers' |-> peer'[q]]
    BY <1>1, <2>4, <2>5, OnePeerChanges
  <2>7. Requested(p, t)
    BY <1>1, <2>4, <2>5, StepOfRequests
  <2>8. TokenInv'
    BY <1>1, <1>2, <2>2, <2>4, <2>7, RequestsStay DEF Handled
  <2>9. TypesInv'
    BY <1>1, <1>2, <2>2, <2>6, StepTypes DEF TypesInv
  <2>10. ToldInv'
    BY <1>1, <1>2, <2>4, <2>5, ToldHandled
  <2> QED BY <2>6, <2>8, <2>9, <2>10 DEF NetworkInv
<1> QED BY <1>4, <1>5

\* Messages of the driver.
LEMMA BagAddsSet ==
    ASSUME NEW S, net \in [DOMAIN net -> Nat \ {0}], net' = net (+) SetToBag(S)
    PROVE  /\ net' \in [DOMAIN net' -> Nat \ {0}] /\ DOMAIN net' = DOMAIN net \cup S
           /\ \A o \in DOMAIN net \ S : net'[o] = net[o]
<1> DEFINE B == SetToBag(S)
           D == DOMAIN net \cup S
           v(e) == (IF e \in DOMAIN net THEN net[e] ELSE 0) + (IF e \in S THEN 1 ELSE 0)
<1>1. DOMAIN B = S /\ \A e \in S : B[e] = 1
  BY DEF SetToBag
<1>2. net' = [e \in DOMAIN net \cup DOMAIN B |->
                (IF e \in DOMAIN net THEN net[e] ELSE 0) + (IF e \in DOMAIN B THEN B[e] ELSE 0)]
  BY DEF (+)
<1> HIDE DEF B
<1>3. net' = [e \in D |-> v(e)]
  BY <1>1, <1>2
<1>4. \A e \in D : v(e) \in Nat \ {0}
  OBVIOUS
<1>5. \A e \in DOMAIN net \ S : v(e) = net[e]
  OBVIOUS
<1> HIDE DEF v
<1>7. DOMAIN net' = D /\ \A e \in D : net'[e] = v(e)
  BY <1>3
<1>8. net' \in [DOMAIN net' -> Nat \ {0}]
  BY <1>3, <1>4, <1>7
<1> QED BY <1>5, <1>7, <1>8

Controls == {m \in Letters : m.req = NoReq}

LEMMA ControlIsLetter ==
    ASSUME config \in Scenarios, NEW p \in Peers, NEW type, NEW name,
           \/ type \in {"INIT", "START_GENERATE_NAME", "START_LOOKUP_NAME", "FORCE_LOG"} /\ name = None
           \/ type \in {"INITIATE_PUT", "INITIATE_GET"} /\ name \in Names
    PROVE  Control(type, p, name) \in Controls
<1> DEFINE m == Control(type, p, name)
<1>1. /\ m.type = type /\ m.src = Client /\ m.dest = p /\ m.dst = p /\ m.ttl = DefaultTtl
      /\ m.target = 0 /\ m.name = name /\ m.req = NoReq /\ m.ok = TRUE
  BY DEF Control, Message
<1>2. m \in AnyMessage
  <2>1. type \in Kinds
    BY DEF Kinds
  <2>2. name \in Names \cup {None}
    OBVIOUS
  <2>3. m = [type |-> type, src |-> Client, dest |-> p, dst |-> p, ttl |-> DefaultTtl,
             target |-> 0, name |-> name, req |-> NoReq, ok |-> TRUE]
    BY DEF Control, Message
  <2>4. DefaultTtl \in 0..255
    BY DEF DefaultTtl
  <2> QED BY <2>1, <2>2, <2>3, <2>4 DEF AnyMessage
<1> HIDE DEF m
<1>3. Sensible(m) /\ ~Reply(m) /\ m.type # "CACHE_ME"
  BY <1>1 DEF Sensible, Reply, Routed, Counted
<1>4. m \in Due(p) /\ Announced(m)
  BY <1>2, <1>3 DEF Due, Announced
<1>5. m.ttl \in 1..DefaultTtl
  BY <1>1 DEF DefaultTtl
<1> QED BY <1>1, <1>2, <1>4, <1>5 DEF Controls, Letters, m

LEMMA ControlsSent ==
    ASSUME TypesInv, TokenInv, NEW S \in SUBSET Controls, net' = net (+) SetToBag(S),
           UNCHANGED <<config, peer, issued, dropped>>
    PROVE  TokenInv' /\ net' \in [DOMAIN net' -> Nat \ {0}] /\ DOMAIN net' \subseteq Letters
<1>1. /\ net' \in [DOMAIN net' -> Nat \ {0}] /\ DOMAIN net' = DOMAIN net \cup S
      /\ \A o \in DOMAIN net \ S : net'[o] = net[o]
  BY BagAddsSet DEF TypesInv
<1>2. DOMAIN net' \subseteq Letters
  BY <1>1 DEF TypesInv, Controls
<1>3. ASSUME NEW r \in Requests
      PROVE  TokenOk(r)'
  <2>1. TokenOk(r) /\ Peers' = Peers /\ r # NoReq
    BY <1>3, ConfigKept, NoRequest DEF TokenInv, TypesInv
  <2>2. \A q \in Peers : Copies(peer[q], r)' = Copies(peer[q], r)
    BY ConfigKept
  <2>3. \A o : o \in DOMAIN net' /\ o.req = r <=> o \in DOMAIN net /\ o.req = r
    BY <1>1, <2>1 DEF Controls
  <2>4. \A o \in DOMAIN net : o.req = r => net'[o] = net[o]
    BY <1>1, <2>1 DEF Controls
  <2>5. Nowhere(r)' <=> Nowhere(r)
    BY <2>1, <2>2, <2>3 DEF Nowhere
  <2>6. AtPeer(r)' <=> AtPeer(r)
    BY <2>1, <2>2, <2>3 DEF AtPeer
  <2>7. OnTheWay(r)' <=> OnTheWay(r)
    BY <2>1, <2>2, <2>3, <2>4 DEF OnTheWay
  <2> QED BY <2>1, <2>5, <2>6, <2>7 DEF TokenOk
<1>4. Requests' = Requests
  BY ConfigKept
<1> QED BY <1>1, <1>2, <1>3, <1>4 DEF TokenInv

LEMMA DriverStep ==
    ASSUME NetworkInv, NEW S \in SUBSET Controls, net' = net (+) SetToBag(S),
           UNCHANGED <<config, peer, issued, dropped>>,
           driver'.next \in 0..config.n, failures' \in Nat
    PROVE  TypesInv' /\ PeersInv' /\ TokenInv' /\ \A x : There(x) => There(x)'
<1>1. TypesInv /\ PeersInv /\ TokenInv
  BY DEF NetworkInv
<1>2. TokenInv' /\ net' \in [DOMAIN net' -> Nat \ {0}] /\ DOMAIN net' \subseteq Letters
  BY <1>1, ControlsSent
<1>3. /\ Peers' = Peers /\ \A p, s : PeerOk(p, s)' <=> PeerOk(p, s)
  BY ConfigKept
<1>4. PeersInv'
  BY <1>1, <1>3 DEF PeersInv
<1>5. TypesInv'
  <2>1. /\ peer' = [q \in Peers' |-> peer'[q]]
        /\ issued' \subseteq Requests /\ dropped' \subseteq issued'
    BY <1>1, <1>3 DEF TypesInv
  <2> QED BY <1>1, <1>2, <2>1, StepTypes
<1>6. DOMAIN net \subseteq DOMAIN net'
  BY <1>1, BagAddsSet DEF TypesInv
<1>7. \A x : There(x) => There(x)'
  BY <1>3, <1>6 DEF There, At, In
<1> QED BY <1>2, <1>4, <1>5, <1>7

LEMMA CommandStep ==
    ASSUME NetworkInv, Command
    PROVE  NetworkInv'
<1>1. TypesInv /\ ToldInv /\ config \in Scenarios
  BY DEF NetworkInv, TypesInv
<1>2. UNCHANGED <<config, peer, failures, issued, dropped>> /\ driver'.next = driver.next
  <2>1. UNCHANGED <<config, peer, failures, issued, dropped>>
    BY DEF Command
  <2>2. driver' = [driver EXCEPT !.left = @ - 1]
    BY DEF Command
  <2> QED BY <2>1, <2>2
<1>3. \E S \in SUBSET Controls : net' = net (+) SetToBag(S)
  <2>1. CASE \E p \in Peers, name \in Names, type \in {"INITIATE_PUT", "INITIATE_GET"} :
               net' = net (+) ToOne(type, p, name)
    <3>1. PICK p \in Peers, name \in Names, type \in {"INITIATE_PUT", "INITIATE_GET"} :
            net' = net (+) ToOne(type, p, name)
      BY <2>1
    <3> DEFINE S == {Control(type, p, name)}
    <3>2. S \in SUBSET Controls
      BY <1>1, ControlIsLetter
    <3>3. net' = net (+) SetToBag(S)
      BY <3>1 DEF ToOne
    <3> HIDE DEF S
    <3> QED BY <3>2, <3>3
  <2>2. CASE \E type \in {"START_GENERATE_NAME", "START_LOOKUP_NAME", "FORCE_LOG"} :
               net' = net (+) ToAll(type)
    <3>1. PICK type \in {"START_GENERATE_NAME", "START_LOOKUP_NAME", "FORCE_LOG"} :
            net' = net (+) ToAll(type)
      BY <2>2
    <3> DEFINE S == {Control(type, p, None) : p \in Peers}
    <3>2. S \in SUBSET Controls
      <4>1. \A p \in Peers : Control(type, p, None) \in Controls
        BY <1>1, ControlIsLetter
      <4> QED BY <4>1
    <3>3. net' = net (+) SetToBag(S)
      BY <3>1 DEF ToAll
    <3> HIDE DEF S
    <3> QED BY <3>2, <3>3
  <2> QED BY <2>1, <2>2 DEF Command
<1>4. TypesInv' /\ PeersInv' /\ TokenInv' /\ \A x : There(x) => There(x)'
  <2>1. driver'.next \in 0..config.n /\ failures' \in Nat
    BY <1>1, <1>2 DEF TypesInv
  <2> QED BY <1>2, <1>3, <2>1, DriverStep
<1>5. \A q \in Peers : Known(peer[q], peer'[q])
  BY <1>2 DEF Known
<1>6. ToldInv'
  BY <1>1, <1>2, <1>4, <1>5, ToldQuietly
<1> QED BY <1>4, <1>6 DEF NetworkInv

LEMMA SendInitStep ==
    ASSUME NetworkInv, NEW reached \in BOOLEAN, SendInit(reached)
    PROVE  NetworkInv'
<1>0. PICK p : p = driver.next
  OBVIOUS
<1> DEFINE m == Control("INIT", p, None)
<1>1. /\ TypesInv /\ PeersInv /\ TokenInv /\ ToldInv /\ config \in Scenarios
      /\ p \in Nat /\ failures \in Nat /\ config.n \in Nat
  BY <1>0, ConfigFacts DEF NetworkInv, TypesInv
<1>2. /\ p < config.n /\ UNCHANGED <<config, peer, issued, dropped>>
      /\ failures' = IF reached THEN failures ELSE failures + 1
      /\ net' = IF reached THEN net (+) SetToBag({m}) ELSE net
      /\ driver'.next = p + 1
  <2>1. driver' = [driver EXCEPT !.next = @ + 1]
    BY DEF SendInit
  <2>2. driver'.next = p + 1
    BY <1>0, <1>1, <2>1 DEF NetworkInv, TypesInv
  <2> QED BY <1>0, <2>2 DEF SendInit
<1>3. p \in Peers /\ p + 1 \in 0..config.n /\ failures' \in Nat
  BY <1>1, <1>2 DEF Peers
<1>4. m \in Controls
  BY <1>1, <1>3, ControlIsLetter
<1>5. CASE reached
  <2> DEFINE S == {m}
  <2>1. S \in SUBSET Controls /\ net' = net (+) SetToBag(S)
    BY <1>2, <1>4, <1>5
  <2>2. TypesInv' /\ PeersInv' /\ TokenInv' /\ \A x : There(x) => There(x)'
    <3> HIDE DEF S, m
    <3> QED BY <1>2, <1>3, <2>1, DriverStep
  <2>3. There(m)'
    <3>1. m \in DOMAIN net'
      <4> HIDE DEF m
      <4>1. m \in S
        OBVIOUS
      <4> HIDE DEF S
      <4> QED BY <1>1, <2>1, <4>1, BagAddsSet DEF TypesInv
    <3> QED BY <3>1 DEF There
  <2>4. ToldInv'
    <3>1. Peers' = Peers /\ (\A q : RtOf(q)' = RtOf(q)) /\ config' = config
      BY <1>2, ConfigKept
    <3>2. \A x : \A q \in Peers : Knows(q, x)' <=> Knows(q, x)
      BY <1>2 DEF Knows
    <3>3. \A q \in Peers : RtOf(q) \subseteq Peers
      BY <1>1, RtFacts
    <3>4. SUFFICES ASSUME config.type = "proactive" /\ failures = 0
                   PROVE  /\ \A q \in Peers : q < driver'.next =>
                               peer'[q].init \/ There(Control("INIT", q, None))'
                          /\ \A q \in Peers : peer'[q].init => \A d \in RtOf(q) :
                               \/ There(Notice(q, d, 2))'
                               \/ /\ Knows(d, q)'
                                  /\ \A e \in RtOf(d) : There(Notice(q, e, 1))' \/ Knows(e, q)'
      BY <1>2, <1>5, <3>1 DEF ToldInv
    <3>5. ASSUME NEW q \in Peers, q < driver'.next
          PROVE  peer'[q].init \/ There(Control("INIT", q, None))'
      <4>1. CASE q = p
        BY <2>3, <4>1
      <4>2. CASE q # p
        <5>1. q < driver.next
          BY <1>0, <1>1, <1>2, <3>5, <4>2, ConfigFacts
        <5> QED BY <1>1, <1>2, <2>2, <3>4, <5>1 DEF ToldInv
      <4> QED BY <4>1, <4>2
    <3>6. \A q \in Peers : peer'[q].init => \A d \in RtOf(q) :
            \/ There(Notice(q, d, 2))'
            \/ /\ Knows(d, q)'
               /\ \A e \in RtOf(d) : There(Notice(q, e, 1))' \/ Knows(e, q)'
      BY <1>1, <1>2, <2>2, <3>2, <3>3, <3>4 DEF ToldInv
    <3> QED BY <3>5, <3>6
  <2> QED BY <2>2, <2>4 DEF NetworkInv
<1>6. CASE ~reached
  <2>1. net' = net /\ failures' # 0
    BY <1>1, <1>2, <1>6
  <2>2. Peers' = Peers /\ Requests' = Requests /\ \A q, s : PeerOk(q, s)' <=> PeerOk(q, s)
    BY <1>2, ConfigKept
  <2>3. PeersInv'
    BY <1>1, <1>2, <2>2 DEF PeersInv
  <2>4. TypesInv'
    BY <1>1, <1>2, <1>3, <2>1, <2>2, StepTypes DEF TypesInv
  <2>5. TokenInv'
    <3>1. \A q \in Peers, r \in Requests : Copies(peer[q], r)' = Copies(peer[q], r)
      BY <1>2, ConfigKept
    <3>2. ASSUME NEW r \in Requests
          PROVE  TokenOk(r)'
      <4>1. (Nowhere(r)' <=> Nowhere(r)) /\ (AtPeer(r)' <=> AtPeer(r))
        BY <2>1, <2>2, <3>1 DEF Nowhere, AtPeer
      <4>2. OnTheWay(r)' <=> OnTheWay(r)
        BY <2>1, <2>2, <3>1 DEF OnTheWay
      <4>3. TokenOk(r)
        BY <1>1 DEF TokenInv
      <4> QED BY <1>2, <4>1, <4>2, <4>3 DEF TokenOk
    <3> QED BY <2>2, <3>2 DEF TokenInv
  <2>6. ToldInv'
    BY <2>1 DEF ToldInv
  <2> QED BY <2>3, <2>4, <2>5, <2>6 DEF NetworkInv
<1> QED BY <1>5, <1>6

\* Every step of a peer, of the driver and of its user keeps the invariant.
LEMMA NetworkStep ==
    ASSUME NetworkInv, [Next]_netVars
    PROVE  NetworkInv'
<1>1. CASE \E p \in Peers : PeerNext(p)
  <2>1. PICK p \in Peers : PeerNext(p)
    BY <1>1
  <2>2. CASE \E m \in BagToSet(net) : Listen(p, m)
    BY <2>2, ListenStep
  <2>3. CASE KeepBack(p)
    BY <2>3, KeepBackStep
  <2>4. CASE PendingStart(p)
    BY <2>4, PendingStartStep
  <2>5. CASE PendingStep(p)
    BY <2>5, PendingStepStep
  <2>6. CASE Process(p)
    BY <2>6, ProcessStep
  <2>7. CASE \E sent \in BOOLEAN : Forward(p, sent)
    BY <2>7, ForwardStep
  <2>8. CASE Publish(p)
    BY <2>8, PublishStep
  <2>9. CASE Lookup(p)
    BY <2>9, LookupStep
  <2> QED BY <2>1, <2>2, <2>3, <2>4, <2>5, <2>6, <2>7, <2>8, <2>9 DEF PeerNext
<1>2. CASE \E reached \in BOOLEAN : SendInit(reached)
  BY <1>2, SendInitStep
<1>3. CASE Command
  BY <1>3, CommandStep
<1>4. CASE UNCHANGED netVars
  <2>1. /\ TypesInv /\ PeersInv /\ TokenInv /\ ToldInv /\ config' = config /\ peer' = peer
        /\ net' = net /\ driver' = driver /\ failures' = failures /\ issued' = issued
        /\ dropped' = dropped
    BY <1>4 DEF NetworkInv, netVars
  <2>2. TypesInv'
    BY <2>1, ConfigKept, StepTypes DEF TypesInv
  <2>3. PeersInv'
    <3>1. Peers' = Peers /\ \A p, s : PeerOk(p, s)' <=> PeerOk(p, s)
      BY <2>1, ConfigKept
    <3> QED BY <2>1, <3>1 DEF PeersInv
  <2>4. TokenInv'
    <3>1. /\ Peers' = Peers /\ Requests' = Requests
          /\ \A q \in Peers, r \in Requests : Copies(peer[q], r)' = Copies(peer[q], r)
      BY <2>1, ConfigKept
    <3>2. \A r \in Requests : /\ Nowhere(r)' <=> Nowhere(r)
                              /\ AtPeer(r)' <=> AtPeer(r)
                              /\ OnTheWay(r)' <=> OnTheWay(r)
      BY <2>1, <3>1 DEF Nowhere, AtPeer, OnTheWay
    <3> QED BY <2>1, <3>1, <3>2 DEF TokenInv, TokenOk
  <2>5. ToldInv'
    <3>1. Peers' = Peers
      BY <2>1, ConfigKept
    <3>2. \A x : There(x) => There(x)'
      BY <2>1, <3>1 DEF There, At, In
    <3>3. \A q \in Peers : Known(peer[q], peer'[q])
      BY <2>1 DEF Known
    <3> QED BY <2>1, <3>2, <3>3, ToldQuietly
  <2> QED BY <2>2, <2>3, <2>4, <2>5 DEF NetworkInv
<1> QED BY <1>1, <1>2, <1>3, <1>4 DEF Next

-----------------------------------------------------------------------------
(* The start. *)

\* Nothing has happened at the peer yet.
Untold(s) ==
    /\ s.received_before_init = <<>> /\ s.listener = <<>> /\ s.incoming = <<>>
    /\ s.outgoing = <<>> /\ s.log = <<>> /\ s.seq = 0 /\ s.pending = "wait"
    /\ s.init = FALSE /\ s.rt = {} /\ s.pc = {} /\ s.cache = <<>>
    /\ \A op \in Counted : /\ s.initiated[op] = 0 /\ s.count[op].generated = 0
                           /\ s.count[op].received = 0 /\ s.count[op].processed = 0
                           /\ s.count[op].forwarded = 0 /\ s.count[op].dropped = 0

LEMMA NewPeerFacts ==
    ASSUME NEW p, NEW gen \in BOOLEAN, NEW lkp \in BOOLEAN
    PROVE  NewPeer(gen, lkp) \in State(p) /\ Untold(NewPeer(gen, lkp))
<1> DEFINE z == [generated |-> 0, received |-> 0, processed |-> 0, forwarded |-> 0, dropped |-> 0]
           c == [op \in Counted |-> z]
           i == [op \in Counted |-> 0]
           s == NewPeer(gen, lkp)
           D == UNION {[E -> Requests] : E \in SUBSET Names}
<1>1. c \in [Counted -> Counters] /\ i \in [Counted -> Nat]
  BY DEF Counters
<1>2. \A op \in Counted : /\ i[op] = 0 /\ c[op].generated = 0 /\ c[op].received = 0
                          /\ c[op].processed = 0 /\ c[op].forwarded = 0 /\ c[op].dropped = 0
  OBVIOUS
<1>3. <<>> \in D
  <2>1. <<>> \in [{} -> Requests]
    OBVIOUS
  <2> QED BY <2>1
<1>4. s = [init |-> FALSE, rt |-> {}, index |-> <<>>, pc |-> {}, cache |-> <<>>,
           unresolved |-> {}, incoming |-> <<>>, outgoing |-> <<>>,
           received_before_init |-> <<>>, listener |-> <<>>, pending |-> "wait",
           gen |-> gen, lkp |-> lkp, published |-> 0, looked_up |-> 0, seq |-> 0,
           count |-> c, initiated |-> i, log |-> <<>>]
  BY DEF NewPeer
<1> HIDE DEF c, i, s, D
<1>5. s \in State(p)
  <2> DEFINE A == {{}, RtOf(p)}
             C == SUBSET (Heard(p) \ ({p} \cup RtOf(p)))
             F == Seq(Mail(p))
             G == Seq(Letters)
             H == Seq(OwnEntries(p))
             J == Seq(Peers \ {p})
             N == [Counted -> Counters]
             M == [Counted -> Nat]
             R == SUBSET Requests
  <2>1. {} \in A /\ {} \in C /\ <<>> \in F /\ <<>> \in G /\ <<>> \in H /\ <<>> \in J /\ {} \in R
    OBVIOUS
  <2>2. State(p) =
          [init : BOOLEAN, rt : A, index : D, pc : C, cache : J, unresolved : R,
           incoming : F, outgoing : G, received_before_init : F, listener : F,
           pending : {"wait", "drain", "done"}, gen : BOOLEAN, lkp : BOOLEAN,
           published : Nat, looked_up : Nat, seq : Nat, count : N, initiated : M, log : H]
    BY DEF State, D
  <2>3. c \in N /\ i \in M
    BY <1>1
  <2> HIDE DEF A, C, F, G, H, J, N, M, R
  <2> QED BY <1>3, <1>4, <2>1, <2>2, <2>3
<1>6. Untold(s)
  BY <1>2, <1>4 DEF Untold
<1> QED BY <1>5, <1>6 DEF s

LEMMA UntoldOk ==
    ASSUME config \in Scenarios, NEW p \in Peers, NEW s \in State(p), Untold(s)
    PROVE  PeerOk(p, s) /\ \A r : Copies(s, r) = 0
<1>1. \A S : NumIn(<<>>, S) = 0
  BY NumEmpty
<1>2. Len(<<>>) = 0 /\ \A i \in 1..Len(<<>>) : FALSE
  OBVIOUS
<1>3. ASSUME NEW op \in Counted
      PROVE  Even(s, op)
  <2>1. HeldOf(s, op) = 0
    BY <1>1 DEF HeldOf, Untold
  <2> QED BY <2>1 DEF Even, Untold
<1>4. Len(s.cache) <= Capacity
  BY <1>2, ConfigFacts DEF Untold
<1>5. PendingOk(s) /\ InitOk(s, p) /\ Outward(s.outgoing)
  BY <1>2 DEF PendingOk, InitOk, Outward, Untold
<1>6. \A r : Copies(s, r) = 0
  BY <1>1 DEF Copies, Untold
<1> QED BY <1>3, <1>4, <1>5, <1>6 DEF PeerOk

\* A peer that INIT reached before the others send anything.
LEMMA FirstInit ==
    ASSUME config \in Scenarios, NEW p \in Peers, NEW s \in State(p), Untold(s), NEW t,
           t = OnInit(s, p)
    PROVE  /\ PeerOk(p, t) /\ t.init /\ t.seq = 0
           /\ \A r \in Requests : Copies(t, r) = 0
           /\ config.type = "proactive" => \A q \in RtOf(p) : At(t, Notice(p, q, 2))
<1> DEFINE m == Control("INIT", p, None)
<1>1. m.type = "INIT" /\ m.req = NoReq
  BY DEF Control, Message
<1> HIDE DEF m
<1>2. WellHandled(s, p, m, t)
  BY <1>1, OnInitHandles
<1>3. /\ t \in State(p) /\ Len(t.cache) <= Capacity /\ Untouched(s, t) /\ t.init /\ t.rt = RtOf(p)
      /\ t.seq = 0 /\ t.received_before_init = <<>> /\ t.listener = <<>> /\ t.incoming = <<>>
      /\ t.pending = "wait" /\ t.initiated = s.initiated
  BY <1>1, <1>2 DEF WellHandled, Untouched, Learns, Untold
<1>4. PICK a \in Seq(Letters), b \in Seq(OwnEntries(p)) :
        /\ t.outgoing = s.outgoing \o a /\ t.log = s.log \o b
        /\ \A r \in Requests : Carries(a, b, r, m)
        /\ \A op \in Counted : Accounted(s, t, a, m, op)
        /\ Announces(s, p, m, a) /\ Outward(a)
  BY <1>2 DEF WellHandled, Effect
<1>5. t.outgoing = a /\ t.log = b
  <2>1. <<>> \o a = a /\ <<>> \o b = b
    BY ConcatEmptySeq
  <2> QED BY <1>4, <2>1 DEF Untold
<1>6. (\A S : NumIn(<<>>, S) = 0) /\ Len(<<>>) = 0 /\ \A i \in 1..Len(<<>>) : FALSE
  <2>1. \A S : NumIn(<<>>, S) = 0
    BY NumEmpty
  <2> QED BY <2>1
<1>7. ASSUME NEW r \in Requests
      PROVE  Copies(t, r) = 0
  <2>1. r # m.req
    BY <1>1, <1>7, NoRequest
  <2>2. NumIn(a, OfRequest(r)) + NumIn(b, EntriesOf(r)) = 0
    BY <1>4, <2>1 DEF Carries
  <2>3. NumIn(a, OfRequest(r)) \in Nat /\ NumIn(b, EntriesOf(r)) \in Nat
    BY NumIsNat
  <2> DEFINE x == NumIn(a, OfRequest(r))
             y == NumIn(b, EntriesOf(r))
  <2>4. Copies(t, r) = 0 + 0 + 0 + x + y
    BY <1>3, <1>5, <1>6 DEF Copies
  <2> HIDE DEF x, y
  <2> QED BY <2>2, <2>3, <2>4 DEF x, y
<1>8. ASSUME NEW op \in Counted
      PROVE  Even(t, op)
  <2> DEFINE x == NumIn(a, OfType(op))
             c == t.count[op]
  <2>1. x \in Nat /\ c.processed \in Nat
    <3>1. t.count \in [Counted -> Counters]
      BY <1>3, QueueTypes
    <3> QED BY <3>1, NumIsNat DEF Counters
  <2>2. m.type # op
    BY <1>1 DEF Counted
  <2>3. c.processed + x = 0 /\ c.generated = 0 /\ c.received = 0 /\ c.forwarded = 0 /\ c.dropped = 0
    BY <1>4, <2>2 DEF Accounted, Untold
  <2>4. HeldOf(t, op) = 0 + 0 + 0 + x
    BY <1>3, <1>5, <1>6 DEF HeldOf
  <2>5. t.initiated[op] = 0
    BY <1>3 DEF Untold
  <2>6. Even(t, op) <=> c.received + c.generated =
          c.processed + c.forwarded + c.dropped + t.initiated[op] + HeldOf(t, op)
    BY DEF Even
  <2> HIDE DEF x, c
  <2> QED BY <2>1, <2>3, <2>4, <2>5, <2>6
<1>9. PeerOk(p, t)
  <2>1. PendingOk(t) /\ InitOk(t, p)
    BY <1>3, <1>6 DEF PendingOk, InitOk
  <2> QED BY <1>3, <1>4, <1>5, <1>8, <2>1 DEF PeerOk
<1>10. ASSUME config.type = "proactive", NEW q \in RtOf(p)
       PROVE  At(t, Notice(p, q, 2))
  <2>1. Notice(p, q, 2) \in NoticesFor(s, p, m)
    BY <1>1, <1>10 DEF NoticesFor, CacheMeTtl
  <2>2. NoticesFor(s, p, m) \subseteq Notices
    <3>1. Spreads(s, p, m) /\ m.type # "CACHE_ME"
      BY <1>1 DEF Spreads
    <3> QED BY <3>1, NoticesSent
  <2>3. \E i \in 1..Len(a) : a[i] = Notice(p, q, 2)
    BY <1>4, <2>1, <2>2 DEF Announces
  <2> QED BY <1>5, <2>3 DEF At, In
<1> QED BY <1>3, <1>7, <1>9, <1>10

LEMMA NetworkInit ==
    ASSUME Init
    PROVE  NetworkInv
<1> DEFINE k == config.n - config.late
           new == NewPeer(config.gen, config.lkp)
<1>1. /\ config \in Scenarios /\ net = EmptyBag /\ failures = 0 /\ issued = {} /\ dropped = {}
      /\ driver.next = k
  BY DEF Init
<1>2. /\ config.gen \in BOOLEAN /\ config.lkp \in BOOLEAN
      /\ config.n \in Nat /\ k \in 0..config.n
  <2>1. config.late \in Nat /\ config.late <= config.n /\ config.gen \in BOOLEAN /\ config.lkp \in BOOLEAN
    BY <1>1, NetworkAssumption DEF ScenarioType
  <2>2. config.n \in Nat
    BY <1>1, ConfigFacts
  <2> QED BY <2>1, <2>2
<1>3. /\ peer = [p \in Peers |-> IF p < k THEN OnInit(new, p) ELSE new]
  BY DEF Init
<1> HIDE DEF k, new
<1>4. peer = [p \in Peers |-> peer[p]]
  BY <1>3
<1>5. \A p \in Peers : new \in State(p) /\ Untold(new)
  BY <1>2, NewPeerFacts DEF new
<1>6. ASSUME NEW p \in Peers
      PROVE  /\ PeerOk(p, peer[p]) /\ peer[p].seq = 0 /\ (peer[p].init <=> p < k)
             /\ \A r \in Requests : Copies(peer[p], r) = 0
             /\ config.type = "proactive" /\ p < k => \A q \in RtOf(p) : At(peer[p], Notice(p, q, 2))
  <2>1. CASE p < k
    <3> DEFINE t == OnInit(new, p)
    <3>1. peer[p] = t
      BY <1>3, <2>1
    <3>2. /\ PeerOk(p, t) /\ t.init /\ t.seq = 0 /\ \A r \in Requests : Copies(t, r) = 0
          /\ config.type = "proactive" => \A q \in RtOf(p) : At(t, Notice(p, q, 2))
      BY <1>1, <1>5, FirstInit
    <3> HIDE DEF t
    <3> QED BY <2>1, <3>1, <3>2
  <2>2. CASE ~(p < k)
    <3>1. peer[p] = new
      BY <1>3, <2>2
    <3>2. PeerOk(p, new) /\ \A r : Copies(new, r) = 0
      BY <1>1, <1>5, UntoldOk
    <3>3. new.init = FALSE /\ new.seq = 0
      BY <1>5 DEF Untold
    <3> QED BY <2>2, <3>1, <3>2, <3>3
  <2> QED BY <2>1, <2>2
<1>7. DOMAIN net = {} /\ net \in [DOMAIN net -> Nat \ {0}]
  BY <1>1 DEF EmptyBag, SetToBag
<1>8. TypesInv
  BY <1>1, <1>2, <1>4, <1>7 DEF TypesInv
<1>9. PeersInv
  BY <1>6 DEF PeersInv
<1>10. TokenInv
  <2>1. ASSUME NEW r \in Requests
        PROVE  TokenOk(r)
    <3>1. r.seq \in Nat /\ peer[r.origin].seq = 0
      BY <1>6 DEF Requests
    <3>2. Nowhere(r)
      BY <1>6, <1>7 DEF Nowhere
    <3> QED BY <1>1, <3>1, <3>2 DEF TokenOk
  <2> QED BY <2>1 DEF TokenInv
<1>11. ToldInv
  BY <1>1, <1>6 DEF ToldInv, There
<1> QED BY <1>8, <1>9, <1>10, <1>11 DEF NetworkInv

\* In every reachable state the invariant holds.
THEOREM NetworkInvariant == Spec => []NetworkInv
<1>1. Init => NetworkInv
  BY NetworkInit
<1>2. NetworkInv /\ [Next]_netVars => NetworkInv'
  BY NetworkStep
<1> QED BY <1>1, <1>2, PTL DEF Spec

-----------------------------------------------------------------------------
(* What the invariant says of the properties. *)

\* What a peer holds, as one sequence.
LEMMA HeldFacts ==
    ASSUME NetworkInv, NEW p \in Peers
    PROVE  /\ Held(p) \in Seq(Letters) /\ KeptBack(p) \in Seq(Letters)
           /\ Len(KeptBack(p)) = Len(peer[p].received_before_init) + Len(peer[p].listener)
           /\ \A S : NumIn(Held(p), S) =
                 NumIn(peer[p].received_before_init, S) + NumIn(peer[p].listener, S)
                 + NumIn(peer[p].incoming, S) + NumIn(peer[p].outgoing, S)
<1>1. PICK s \in State(p) : s = peer[p]
  BY DEF NetworkInv, PeersInv, PeerOk
<1> DEFINE a == s.received_before_init
           b == s.listener
           c == s.incoming
           d == s.outgoing
<1>2. a \in Seq(Letters) /\ b \in Seq(Letters) /\ c \in Seq(Letters) /\ d \in Seq(Letters)
  BY QueueTypes, SeqMonotonic
<1>3. KeptBack(p) = a \o b /\ Held(p) = ((a \o b) \o c) \o d
  BY <1>1 DEF KeptBack, Held
<1>b. peer[p].received_before_init = a /\ peer[p].listener = b /\ peer[p].incoming = c /\ peer[p].outgoing = d
  BY <1>1
<1> HIDE DEF a, b, c, d
<1>4. a \o b \in Seq(Letters) /\ Len(a \o b) = Len(a) + Len(b)
  BY <1>2, ConcatProperties
<1>5. (a \o b) \o c \in Seq(Letters)
  BY <1>2, <1>4, ConcatProperties
<1>6. ((a \o b) \o c) \o d \in Seq(Letters)
  BY <1>2, <1>5, ConcatProperties
<1>7. ASSUME NEW S
      PROVE  NumIn(((a \o b) \o c) \o d, S) = NumIn(a, S) + NumIn(b, S) + NumIn(c, S) + NumIn(d, S)
  <2>1. NumIn(a \o b, S) = NumIn(a, S) + NumIn(b, S)
    BY <1>2, NumConcat
  <2>2. NumIn((a \o b) \o c, S) = NumIn(a \o b, S) + NumIn(c, S)
    BY <1>2, <1>4, NumConcat
  <2>3. NumIn(((a \o b) \o c) \o d, S) = NumIn((a \o b) \o c, S) + NumIn(d, S)
    BY <1>2, <1>5, NumConcat
  <2> QED BY <2>1, <2>2, <2>3, Zenon
<1>8. /\ Held(p) \in Seq(Letters) /\ KeptBack(p) \in Seq(Letters)
      /\ Len(KeptBack(p)) = Len(a) + Len(b)
  BY <1>3, <1>4, <1>6
<1>9. \A S : NumIn(Held(p), S) = NumIn(a, S) + NumIn(b, S) + NumIn(c, S) + NumIn(d, S)
  BY <1>3, <1>7, Zenon
<1> QED BY <1>b, <1>8, <1>9, Zenon

LEMMA TypesRight ==
    ASSUME NetworkInv
    PROVE  TypeOK
<1>1. config \in Scenarios /\ config \in ScenarioType /\ DOMAIN peer = Peers
  <2>1. config \in Scenarios /\ peer = [p \in Peers |-> peer[p]]
    BY DEF NetworkInv, TypesInv
  <2> QED BY <2>1, ConfigFacts
<1>2. ASSUME NEW p \in Peers
      PROVE  /\ peer[p].rt \subseteq Peers /\ peer[p].pc \subseteq Peers \ {p}
             /\ Len(peer[p].cache) <= Capacity /\ Cached(peer[p].cache) \subseteq Peers \ {p}
             /\ DOMAIN peer[p].index \subseteq Names
             /\ peer[p].pending \in {"wait", "drain", "done"}
             /\ \A i \in 1..Len(Held(p)) : Held(p)[i].ttl \in 0..DefaultTtl
  <2>1. PICK s \in State(p) : s = peer[p]
    BY DEF NetworkInv, PeersInv, PeerOk
  <2>2. s.rt \subseteq Peers /\ s.pc \subseteq Peers \ {p}
    BY <1>1, KnownPeers
  <2>3. Len(s.cache) <= Capacity
    BY <2>1 DEF NetworkInv, PeersInv, PeerOk
  <2>4. Cached(s.cache) \subseteq Peers \ {p}
    <3>1. s.cache \in Seq(Peers \ {p})
      BY DEF State
    <3> QED BY <3>1 DEF Cached
  <2>5. DOMAIN s.index \subseteq Names
    <3>1. s.index \in UNION {[D -> Requests] : D \in SUBSET Names}
      BY DEF State
    <3> QED BY <3>1
  <2>6. s.pending \in {"wait", "drain", "done"}
    BY DEF State
  <2>7. \A i \in 1..Len(Held(p)) : Held(p)[i].ttl \in 0..DefaultTtl
    <3>1. \A m \in Letters : m.ttl \in 0..DefaultTtl
      BY DEF Letters, DefaultTtl
    <3>2. Held(p) \in Seq(Letters)
      BY HeldFacts
    <3> QED BY <3>1, <3>2
  <2> QED BY <2>1, <2>2, <2>3, <2>4, <2>5, <2>6, <2>7
<1> QED BY <1>1, <1>2 DEF TypeOK

LEMMA AtMostOneLeft ==
    ASSUME NetworkInv
    PROVE  OneLeftBehind
<1>1. ASSUME NEW p \in Peers, peer[p].pending = "done"
      PROVE  Len(KeptBack(p)) <= 1
  <2>1. PendingOk(peer[p])
    BY DEF NetworkInv, PeersInv, PeerOk
  <2>2. Len(KeptBack(p)) = Len(peer[p].received_before_init) + Len(peer[p].listener)
    BY HeldFacts
  <2> QED BY <1>1, <2>1, <2>2, Zenon DEF PendingOk
<1> QED BY <1>1 DEF OneLeftBehind

LEMMA CountersBalance ==
    ASSUME NetworkInv
    PROVE  Balanced
<1>1. ASSUME NEW p \in Peers, NEW op \in Counted
      PROVE  LET c == peer[p].count[op] IN
             c.received + c.generated =
               c.processed + c.forwarded + c.dropped + peer[p].initiated[op]
               + CountIn(Held(p), LAMBDA m : m.type = op \/ (op = "GET" /\ m.type = "INITIATE_GET")
                                                        \/ (op = "PUT" /\ m.type = "INITIATE_PUT"))
  <2> DEFINE h == Held(p)
             N == CountIn(h, LAMBDA m : m.type = op \/ (op = "GET" /\ m.type = "INITIATE_GET")
                                                    \/ (op = "PUT" /\ m.type = "INITIATE_PUT"))
             c == peer[p].count[op]
  <2>1. Even(peer[p], op)
    BY DEF NetworkInv, PeersInv, PeerOk
  <2>2. h \in Seq(Letters)
    BY HeldFacts
  <2>3. HeldOf(peer[p], op) = NumIn(h, OfType(op))
    BY HeldFacts, Zenon DEF HeldOf
  <2> HIDE DEF h
  <2>4. N = NumIn(h, OfType(op))
    <3>1. N = Cardinality({i \in 1..Len(h) : h[i].type = op
                             \/ (op = "GET" /\ h[i].type = "INITIATE_GET")
                             \/ (op = "PUT" /\ h[i].type = "INITIATE_PUT")})
      BY DEF CountIn
    <3>2. \A i \in 1..Len(h) : h[i] \in OfType(op) <=> h[i].type = op
                             \/ (op = "GET" /\ h[i].type = "INITIATE_GET")
                             \/ (op = "PUT" /\ h[i].type = "INITIATE_PUT")
      <4>1. \A m \in Letters : m \in OfType(op) <=> m.type = op
                             \/ (op = "GET" /\ m.type = "INITIATE_GET")
                             \/ (op = "PUT" /\ m.type = "INITIATE_PUT")
        BY Belongs DEF Types, Counted
      <4> QED BY <2>2, <4>1
    <3>3. {i \in 1..Len(h) : h[i] \in OfType(op)} =
            {i \in 1..Len(h) : h[i].type = op
                             \/ (op = "GET" /\ h[i].type = "INITIATE_GET")
                             \/ (op = "PUT" /\ h[i].type = "INITIATE_PUT")}
      BY <3>2
    <3> QED BY <3>1, <3>3 DEF NumIn
  <2>5. c.received + c.generated =
          c.processed + c.forwarded + c.dropped + peer[p].initiated[op] + N
    <3> HIDE DEF N
    <3> QED BY <2>1, <2>3, <2>4 DEF Even
  <2> QED BY <2>5 DEF h
<1> QED BY <1>1 DEF Balanced

LEMMA AllAreTold ==
    ASSUME NetworkInv
    PROVE  ProactiveComplete
<1> SUFFICES ASSUME Quiet, config.type = "proactive", failures = 0, driver.next = config.n,
                    \A p \in Peers : peer[p].received_before_init = <<>>,
                    NEW p \in Peers
             PROVE  LET rt == rtArray[config.n]
                        heard == {q \in Peers : p \in rt[q] \/ \E r \in rt[q] : p \in rt[r]}
                    IN  peer[p].pc = heard \ ({p} \cup rt[p])
  BY DEF ProactiveComplete
<1>1. ToldInv /\ config \in Scenarios /\ \A q \in Peers : PeerOk(q, peer[q])
  BY DEF NetworkInv, TypesInv, PeersInv
<1>2. \A x : ~There(x)
  <2>1. Len(<<>>) = 0 /\ \A x : ~In(<<>>, x)
    BY DEF In
  <2>2. \A x : \A q \in Peers : ~At(peer[q], x)
    BY <2>1 DEF Quiet, At
  <2>3. DOMAIN net = {}
    BY DEF Quiet, EmptyBag, SetToBag
  <2> QED BY <2>2, <2>3 DEF There
<1>3. \A q \in Peers : peer[q].init
  <2>1. \A q \in Peers : q < driver.next
    BY <1>1, ConfigFacts DEF Peers
  <2> QED BY <1>1, <1>2, <2>1 DEF ToldInv
<1>4. \A q \in Peers : \A d \in RtOf(q) : Knows(d, q) /\ \A e \in RtOf(d) : Knows(e, q)
  BY <1>1, <1>2, <1>3 DEF ToldInv
<1>5. peer[p].rt = RtOf(p) /\ peer[p].pc \subseteq Heard(p) \ ({p} \cup RtOf(p))
  BY <1>1, <1>3 DEF PeerOk, InitOk, State
<1>6. Heard(p) \ ({p} \cup RtOf(p)) \subseteq peer[p].pc
  BY <1>4, <1>5 DEF Heard, Knows
<1>7. peer[p].pc = Heard(p) \ ({p} \cup RtOf(p))
  BY <1>5, <1>6
<1> QED BY <1>7 DEF Heard, RtOf

LEMMA NumSome ==
    ASSUME NEW Q, NEW s \in Seq(Q), NEW S, NumIn(s, S) # 0
    PROVE  \E i \in 1..Len(s) : s[i] \in S
BY NumNone

\* A request is in at most one place.
LEMMA OnePlace ==
    ASSUME NetworkInv, NEW r \in Requests
    PROVE  /\ \A p \in Peers : Copies(peer[p], r) \in {0, 1}
           /\ \A p, q \in Peers : Copies(peer[p], r) = 1 /\ Copies(peer[q], r) = 1 => p = q
<1>1. AtPeer(r) \/ OnTheWay(r) \/ Nowhere(r)
  BY DEF NetworkInv, TokenInv, TokenOk
<1>2. CASE AtPeer(r)
  <2>1. PICK c \in Peers : \A p \in Peers : Copies(peer[p], r) = IF p = c THEN 1 ELSE 0
    BY <1>2 DEF AtPeer
  <2>2. \A p \in Peers : (p = c /\ Copies(peer[p], r) = 1) \/ (p # c /\ Copies(peer[p], r) = 0)
    BY <2>1
  <2> QED BY <2>2
<1>3. CASE OnTheWay(r) \/ Nowhere(r)
  <2>1. \A p \in Peers : Copies(peer[p], r) = 0
    BY <1>3 DEF OnTheWay, Nowhere
  <2> QED BY <2>1
<1> QED BY <1>1, <1>2, <1>3

\* The log of a peer has a request as often as its entries say.
LEMMA LogCounts ==
    ASSUME NetworkInv, NEW p \in Peers, NEW r \in Requests
    PROVE  /\ CountIn(peer[p].log, LAMBDA e : e.req = r) = NumIn(peer[p].log, EntriesOf(r))
           /\ NumIn(peer[p].log, EntriesOf(r)) \in Nat
           /\ NumIn(peer[p].log, EntriesOf(r)) <= Copies(peer[p], r)
           /\ NumIn(peer[p].log, EntriesOf(r)) # 0 <=> p \in LoggedAt(r)
<1>1. PICK s \in State(p) : s = peer[p]
  BY DEF NetworkInv, PeersInv, PeerOk
<1> DEFINE l == s.log
<1>2. l \in Seq(OwnEntries(p)) /\ OwnEntries(p) \subseteq Entries
  BY QueueTypes DEF OwnEntries
<1>3. NumIn(l, EntriesOf(r)) <= Copies(s, r) /\ NumIn(l, EntriesOf(r)) \in Nat
  <2> DEFINE a == NumIn(s.received_before_init, OfRequest(r))
             b == NumIn(s.listener, OfRequest(r))
             c == NumIn(s.incoming, OfRequest(r))
             d == NumIn(s.outgoing, OfRequest(r))
             e == NumIn(l, EntriesOf(r))
  <2>1. a \in Nat /\ b \in Nat /\ c \in Nat /\ d \in Nat /\ e \in Nat
    BY Nums
  <2>2. Copies(s, r) = a + b + c + d + e
    BY DEF Copies
  <2> HIDE DEF a, b, c, d, e
  <2>3. e <= Copies(s, r) /\ e \in Nat
    BY <2>1, <2>2
  <2> QED BY <2>3 DEF e
<1>a. peer[p].log = l
  BY <1>1
<1> HIDE DEF l
<1>4. \A i \in 1..Len(l) : l[i] \in EntriesOf(r) <=> l[i].req = r
  BY <1>2 DEF EntriesOf
<1>5. CountIn(l, LAMBDA e : e.req = r) = NumIn(l, EntriesOf(r))
  <2>1. CountIn(l, LAMBDA e : e.req = r) = Cardinality({i \in 1..Len(l) : l[i].req = r})
    BY DEF CountIn
  <2>2. {i \in 1..Len(l) : l[i].req = r} = {i \in 1..Len(l) : l[i] \in EntriesOf(r)}
    BY <1>4
  <2> QED BY <2>1, <2>2 DEF NumIn
<1>6. NumIn(l, EntriesOf(r)) # 0 <=> \E i \in 1..Len(l) : l[i].req = r
  <2>1. NumIn(l, EntriesOf(r)) # 0 => \E i \in 1..Len(l) : l[i] \in EntriesOf(r)
    BY <1>2, NumSome
  <2>2. NumIn(l, EntriesOf(r)) = 0 => \A i \in 1..Len(l) : l[i] \notin EntriesOf(r)
    BY <1>2, NumZero
  <2> QED BY <1>4, <2>1, <2>2
<1>7. p \in LoggedAt(r) <=> \E i \in 1..Len(l) : l[i].req = r
  BY <1>a DEF LoggedAt, SeqMembers
<1> QED BY <1>1, <1>3, <1>5, <1>6, <1>7, <1>a

LEMMA LogsOnce ==
    ASSUME NetworkInv
    PROVE  LoggedOnce
<1> SUFFICES ASSUME NEW r \in issued
             PROVE  /\ \A p \in Peers : CountIn(peer[p].log, LAMBDA e : e.req = r) <= 1
                    /\ \A p, q \in LoggedAt(r) : p = q
                    /\ config.storage = "end_point" => LoggedAt(r) \subseteq {r.origin}
  BY DEF LoggedOnce
<1>1. r \in Requests /\ config \in Scenarios
  BY DEF NetworkInv, TypesInv
<1>2. ASSUME NEW p \in Peers
      PROVE  CountIn(peer[p].log, LAMBDA e : e.req = r) <= 1
  <2> DEFINE n == NumIn(peer[p].log, EntriesOf(r))
             c == Copies(peer[p], r)
  <2>1. CountIn(peer[p].log, LAMBDA e : e.req = r) = n
    BY <1>1, LogCounts
  <2>2. n \in Nat /\ n <= c /\ c \in {0, 1}
    BY <1>1, LogCounts, OnePlace
  <2> HIDE DEF n, c
  <2>3. n <= 1
    BY <2>2
  <2> QED BY <2>1, <2>3, Zenon
<1>3. ASSUME NEW p \in LoggedAt(r)
      PROVE  p \in Peers /\ Copies(peer[p], r) = 1
  <2> DEFINE n == NumIn(peer[p].log, EntriesOf(r))
             c == Copies(peer[p], r)
  <2>1. p \in Peers
    BY DEF LoggedAt
  <2>2. n \in Nat /\ n <= c /\ c \in {0, 1} /\ n # 0
    BY <1>1, <2>1, LogCounts, OnePlace
  <2> HIDE DEF n, c
  <2>3. c = 1
    BY <2>2
  <2> QED BY <2>1, <2>3 DEF c
<1>4. \A p, q \in LoggedAt(r) : p = q
  BY <1>1, <1>3, OnePlace
<1>5. ASSUME config.storage = "end_point", NEW p \in LoggedAt(r)
      PROVE  p = r.origin
  <2>1. PICK i \in 1..Len(peer[p].log) : peer[p].log[i].req = r
    BY DEF LoggedAt, SeqMembers
  <2>2. peer[p].log \in Seq(OwnEntries(p))
    <3>1. p \in Peers
      BY DEF LoggedAt
    <3> QED BY <3>1, QueueTypes DEF NetworkInv, PeersInv, PeerOk
  <2>3. peer[p].log[i] \in OwnEntries(p)
    BY <2>1, <2>2
  <2> QED BY <1>1, <1>5, <2>1, <2>3, NoRequest DEF OwnEntries
<1> QED BY <1>2, <1>4, <1>5

LEMMA AllAnswered ==
    ASSUME NetworkInv
    PROVE  Answered
<1> SUFFICES ASSUME Quiet, NEW r \in issued, r \notin dropped
             PROVE  \/ LoggedAt(r) # {}
                    \/ \E p \in Peers : \E m \in SeqMembers(KeptBack(p)) : m.req = r
  BY DEF Answered
<1>1. r \in Requests
  BY DEF NetworkInv, TypesInv
<1>2. AtPeer(r)
  <2>1. DOMAIN net = {}
    BY DEF Quiet, EmptyBag, SetToBag
  <2>2. AtPeer(r) \/ OnTheWay(r)
    BY <1>1 DEF NetworkInv, TokenInv, TokenOk
  <2> QED BY <2>1, <2>2 DEF OnTheWay
<1>3. PICK c \in Peers : Copies(peer[c], r) = 1
  <2>1. PICK c \in Peers : \A p \in Peers : Copies(peer[p], r) = IF p = c THEN 1 ELSE 0
    BY <1>2 DEF AtPeer
  <2>2. Copies(peer[c], r) = 1
    BY <2>1
  <2> QED BY <2>2
<1>4. PICK s \in State(c) : s = peer[c]
  BY DEF NetworkInv, PeersInv, PeerOk
<1>5. s.incoming = <<>> /\ s.outgoing = <<>> /\ s.listener = <<>>
  BY <1>4 DEF Quiet
<1>6. CASE NumIn(s.log, EntriesOf(r)) # 0
  BY <1>1, <1>4, <1>6, LogCounts
<1>7. CASE NumIn(s.log, EntriesOf(r)) = 0
  <2> DEFINE b == s.received_before_init
             n == NumIn(b, OfRequest(r))
  <2>1. n # 0
    <3>1. NumIn(<<>>, OfRequest(r)) = 0
      BY NumEmpty
    <3>2. n \in Nat
      BY Nums
    <3>3. Copies(s, r) = n + 0 + 0 + 0 + 0
      BY <1>5, <1>7, <3>1 DEF Copies
    <3> HIDE DEF n
    <3> QED BY <1>3, <1>4, <3>2, <3>3
  <2>2. b \in Seq(Mail(c))
    BY QueueTypes
  <2>3. PICK i \in 1..Len(b) : b[i] \in OfRequest(r)
    <3> HIDE DEF b
    <3> QED BY <2>1, <2>2, NumSome DEF n
  <2>4. KeptBack(c) = b
    <3>1. b \o <<>> = b
      <4> HIDE DEF b
      <4> QED BY <2>2, ConcatEmptySeq
    <3> QED BY <1>4, <1>5, <3>1 DEF KeptBack
  <2> HIDE DEF b
  <2>5. b[i] \in SeqMembers(KeptBack(c)) /\ b[i].req = r
    BY <2>3, <2>4 DEF SeqMembers, OfRequest
  <2> QED BY <2>5
<1> QED BY <1>6, <1>7

-----------------------------------------------------------------------------
(* The theorems. *)

\* In every reachable state of an overlay of any size, each peer keeps its
\* tables, caches and queues well formed, leaves at most one message behind when
\* its pending thread ends, has counters that balance, and once all has settled
\* without a failure knows exactly the peers two announcements away
\* (server_system_test.cc, plexus_message_processor.h).
THEOREM PeersCorrect == Spec => []PeersRight
<1>1. NetworkInv => PeersRight
  BY TypesRight, AtMostOneLeft, CountersBalance, AllAreTold DEF PeersRight
<1> QED BY <1>1, NetworkInvariant, PTL

\* However a reply is routed back, it is logged at most once and by one peer,
\* with "end_point" storage by the peer that made the request
\* (plexus_message_processor.h, GET_REPLY and PUT_REPLY).
THEOREM RepliesLoggedOnce == Spec => []LoggedOnce
<1>1. NetworkInv => LoggedOnce
  BY LogsOnce
<1> QED BY <1>1, NetworkInvariant, PTL

\* No request vanishes: when nothing is under way each was answered, or lost
\* after all tries of a forwarding thread, or left behind before INIT
\* (forwarding_thread, pending_message_process_thread).
THEOREM RequestsAccounted == Spec => []Answered
<1>1. NetworkInv => Answered
  BY AllAnswered
<1> QED BY <1>1, NetworkInvariant, PTL
=============================================================================
