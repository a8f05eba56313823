---------------------------- MODULE GatewayProofs ----------------------------
(***************************************************************************)
(* Proofs about the front of the DNS gateway, its instrumentation client   *)
(* and the reply path of its speakers, for any number of proxies,          *)
(* connections, queries and datagrams, any streams of messages, and        *)
(* metrics of any sizes up to the limit of a datagram.                     *)
(***************************************************************************)
EXTENDS Gateway, DnsSpeaker, SequenceTheorems, FiniteSetTheorems, TLAPS

-----------------------------------------------------------------------------
(* The load balancer.                                                      *)

ScanState == [query : 0 .. MaxQueries, hs : Nat, cnt : Nat]
Stage == { "receive", "accept", "length", "body", "select", "closed" }

\* IntakeTypeOK without the connections, with the state of the loops.
BalancerTypeOK ==
    /\ pc \in [Receivers -> Stage] /\ scan \in [Receivers -> ScanState]
    /\ enabled \subseteq Proxies /\ resolving \subseteq Proxies
    /\ completed \subseteq admitted
    /\ given \in [Queries -> Proxies \cup { Nobody }] /\ upAt \in [Queries -> SUBSET Proxies]

\* The queries are numbered in the order in which they increment offset_.
Numbered == offset_ \in 0 .. MaxQueries /\ admitted = 1 .. offset_

\* Proxies are enabled and stay so.
UpStays ==
    /\ \A q \in admitted : upAt[q] \subseteq enabled
    /\ \A p, q \in admitted : p < q => upAt[p] \subseteq upAt[q]
    /\ \A q \in Queries \ admitted : given[q] = Nobody

\* The n-th proxy that the loop looks at for a query.
Candidate(q, n) == (q - 1 + n) % size_

\* A loop is at its cnt-th candidate, and those before it were down when the
\* query came in.
Scanning(r) ==
    LET s == scan[r] IN
    /\ s.query \in admitted \ completed /\ given[s.query] = Nobody
    /\ s.cnt < size_ /\ s.hs = Candidate(s.query, s.cnt)
    /\ \A n \in 0 .. (s.cnt - 1) : Candidate(s.query, n) \notin upAt[s.query]

Loops ==
    /\ \A r \in Receivers : pc[r] = "select" => Scanning(r)
    /\ \A r, t \in Receivers :
          pc[r] = "select" /\ pc[t] = "select" /\ scan[r].query = scan[t].query => r = t

\* A query is with a loop, was given to a proxy or was refused, and one that
\* came in while all were enabled got the first candidate.
Settled ==
    \A q \in admitted :
        /\ \/ given[q] # Nobody \/ q \in completed
           \/ \E r \in Receivers : pc[r] = "select" /\ scan[r].query = q
        /\ upAt[q] = Proxies /\ given[q] # Nobody => given[q] = Candidate(q, 0)

BalancerInv ==
    BalancerTypeOK /\ Numbered /\ UpStays /\ Loops /\ Settled /\ RefusedOnlyIfNoneUp


\* Arithmetic of the round-robin counter.
LEMMA RemainderRange ==
    ASSUME NEW n \in Nat, NEW s \in Nat \ {0}
    PROVE  n % s \in 0 .. (s - 1)
OBVIOUS

LEMMA RemainderOf ==
    ASSUME NEW s \in Nat \ {0}, NEW r \in 0 .. (s - 1), NEW k \in Nat
    PROVE  (k * s + r) % s = r
OBVIOUS

LEMMA Quotient ==
    ASSUME NEW n \in Nat, NEW s \in Nat \ {0}
    PROVE  \E k \in Nat : n = k * s + (n % s)
  <1>1. n \div s \in Nat
    OBVIOUS
  <1>2. n = (n \div s) * s + (n % s)
    OBVIOUS
  <1> QED BY <1>1, <1>2

LEMMA RemainderAdd ==
    ASSUME NEW n \in Nat, NEW s \in Nat \ {0}, NEW d \in 0 .. (s - 1)
    PROVE  (n + d) % s = IF (n % s) + d < s THEN (n % s) + d ELSE (n % s) + d - s
  <1>1. PICK k \in Nat : n = k * s + (n % s)
    BY Quotient
  <1>2. n % s \in 0 .. (s - 1)
    BY RemainderRange
  <1>3. CASE (n % s) + d < s
    <2>1. (n % s) + d \in 0 .. (s - 1)
      BY <1>2, <1>3
    <2>2. n + d = k * s + ((n % s) + d)
      BY <1>1, <1>2
    <2> QED BY <2>1, <2>2, <1>3, RemainderOf
  <1>4. CASE ~((n % s) + d < s)
    <2> DEFINE r == (n % s) + d - s
    <2>1. r \in 0 .. (s - 1) /\ k + 1 \in Nat
      BY <1>2, <1>4
    <2>2. n + d = (k + 1) * s + r
      BY <1>1, <1>2
    <2> HIDE DEF r
    <2>3. ((k + 1) * s + r) % s = r
      BY <2>1, RemainderOf
    <2> QED BY <2>2, <2>3, <1>4 DEF r
  <1> QED BY <1>3, <1>4

LEMMA SameRemainder ==
    ASSUME NEW n \in Nat, NEW m \in Nat, NEW s \in Nat \ {0}, n % s = m % s, n < m
    PROVE  n + s <= m
  <1> SUFFICES ASSUME m < n + s PROVE FALSE
    OBVIOUS
  <1> DEFINE d == m - n
  <1>1. d \in 0 .. (s - 1) /\ n + d = m /\ d > 0
    OBVIOUS
  <1>2. n % s \in 0 .. (s - 1)
    BY RemainderRange
  <1> HIDE DEF d
  <1>3. m % s = IF (n % s) + d < s THEN (n % s) + d ELSE (n % s) + d - s
    BY <1>1, RemainderAdd
  <1> QED BY <1>1, <1>2, <1>3

\* The proxies are numbered from zero.
LEMMA ProxyFacts ==
    /\ size_ \in Nat \ {0} /\ Proxies = 0 .. (size_ - 1)
    /\ Nobody \notin Proxies /\ Proxies # {}
  <1>1. size_ \in Nat
    BY IntakeAssumption, FS_CardinalityType DEF size_
  <1>2. Proxies = 0 .. (size_ - 1) /\ Proxies # {}
    BY IntakeAssumption DEF size_
  <1>3. size_ # 0
    BY <1>1, <1>2
  <1> QED BY <1>1, <1>2, <1>3 DEF Nobody

\* A candidate is a proxy, the next candidate is the next proxy, and the loop
\* has looked at every proxy when it has looked at size_ of them.
LEMMA CandidateIsProxy ==
    ASSUME NEW q \in Nat \ {0}, NEW n \in Nat
    PROVE  Candidate(q, n) \in Proxies
  <1>1. q - 1 + n \in Nat
    OBVIOUS
  <1> QED BY <1>1, ProxyFacts, RemainderRange DEF Candidate

LEMMA NextCandidate ==
    ASSUME NEW q \in Nat \ {0}, NEW n \in Nat, n + 1 < size_
    PROVE  (Candidate(q, n) + 1) % size_ = Candidate(q, n + 1)
  <1> DEFINE m == q - 1 + n
             c == m % size_
  <1>1. m \in Nat /\ q - 1 + (n + 1) = m + 1 /\ size_ \in Nat \ {0} /\ 1 \in 0 .. (size_ - 1)
    BY ProxyFacts
  <1> HIDE DEF m
  <1>2. c \in 0 .. (size_ - 1) /\ c \in Nat
    BY <1>1, RemainderRange
  <1>3. (m + 1) % size_ = IF c + 1 < size_ THEN c + 1 ELSE c + 1 - size_
    BY <1>1, RemainderAdd
  <1> HIDE DEF c
  <1>4. (c + 1) % size_ = IF (c % size_) + 1 < size_ THEN (c % size_) + 1 ELSE (c % size_) + 1 - size_
    BY <1>1, <1>2, RemainderAdd
  <1>5. c % size_ = c
    <2>1. (0 * size_ + c) % size_ = c
      BY <1>1, <1>2, RemainderOf
    <2>2. 0 * size_ + c = c
      BY <1>1, <1>2
    <2> QED BY <2>1, <2>2
  <1>6. (c + 1) % size_ = (m + 1) % size_
    BY <1>3, <1>4, <1>5
  <1> QED BY <1>1, <1>6 DEF Candidate, c, m

LEMMA AllCandidates ==
    ASSUME NEW q \in Nat \ {0}, NEW h \in Proxies
    PROVE  \E n \in 0 .. (size_ - 1) : Candidate(q, n) = h
  <1> DEFINE m == q - 1
             c == m % size_
             n == IF c <= h THEN h - c ELSE h - c + size_
  <1>1. m \in Nat /\ size_ \in Nat \ {0} /\ h \in 0 .. (size_ - 1)
    BY ProxyFacts
  <1> HIDE DEF m
  <1>2. c \in 0 .. (size_ - 1)
    BY <1>1, RemainderRange
  <1>3. n \in 0 .. (size_ - 1)
    BY <1>1, <1>2
  <1>4. (m + n) % size_ = IF c + n < size_ THEN c + n ELSE c + n - size_
    BY <1>1, <1>3, RemainderAdd
  <1>5. (m + n) % size_ = h
    BY <1>1, <1>2, <1>4
  <1>6. Candidate(q, n) = h
    BY <1>5 DEF Candidate, m
  <1> QED BY <1>3, <1>6

\* Nothing has been admitted yet.
LEMMA BalancerInitial == IntakeInit => BalancerInv
  <1> SUFFICES ASSUME IntakeInit PROVE BalancerInv
    OBVIOUS
  <1>1. MaxQueries \in Nat /\ admitted = {} /\ offset_ = 0 /\ completed = {}
    BY IntakeAssumption DEF IntakeInit
  <1>2. pc \in [Receivers -> Stage]
    BY DEF IntakeInit, Receivers, Stage
  <1>3. scan \in [Receivers -> ScanState]
    <2>1. NoScan \in ScanState
      BY <1>1 DEF NoScan, ScanState
    <2> QED BY <2>1 DEF IntakeInit
  <1>4. BalancerTypeOK
    BY <1>1, <1>2, <1>3 DEF BalancerTypeOK, IntakeInit, hasendproxy
  <1>5. Numbered
    BY <1>1 DEF Numbered
  <1>6. \A r \in Receivers : pc[r] # "select"
    BY DEF IntakeInit, Receivers
  <1>7. UpStays /\ Loops /\ Settled /\ RefusedOnlyIfNoneUp
    BY <1>1, <1>6 DEF UpStays, Loops, Settled, RefusedOnlyIfNoneUp, IntakeInit
  <1> QED BY <1>4, <1>5, <1>7 DEF BalancerInv

\* A step that changes neither the balancer's state nor who is in its loop.
LEMMA OthersKeepBalancer ==
    ASSUME BalancerInv, UNCHANGED balancer, pc' \in [Receivers -> Stage],
           \A r \in Receivers : pc'[r] = "select" <=> pc[r] = "select"
    PROVE  BalancerInv'
  <1> USE DEF balancer
  <1>1. BalancerTypeOK' /\ Numbered' /\ UpStays' /\ RefusedOnlyIfNoneUp'
    BY DEF BalancerInv, BalancerTypeOK, Numbered, UpStays, RefusedOnlyIfNoneUp
  <1>2. Loops'
    BY DEF BalancerInv, Loops, Scanning, Candidate
  <1>3. Settled'
    BY DEF BalancerInv, Settled, Candidate
  <1> QED BY <1>1, <1>2, <1>3 DEF BalancerInv

\* handle_resolve enables a proxy, or not.
LEMMA ResolveKeepsBalancer ==
    ASSUME BalancerInv, NEW h \in Proxies, handle_resolve(h)
    PROVE  BalancerInv'
  <1>1. BalancerTypeOK' /\ Numbered' /\ UpStays' /\ RefusedOnlyIfNoneUp'
    BY DEF BalancerInv, BalancerTypeOK, Numbered, UpStays, RefusedOnlyIfNoneUp, handle_resolve
  <1>2. Loops'
    BY DEF BalancerInv, Loops, Scanning, Candidate, handle_resolve
  <1>3. Settled'
    BY DEF BalancerInv, Settled, Candidate, handle_resolve
  <1> QED BY <1>1, <1>2, <1>3 DEF BalancerInv

\* A query gets the next number and starts its loop at that proxy.
LEMMA SaneKeepsBalancer ==
    ASSUME BalancerInv, NEW r \in Receivers, pc[r] # "select", Sane(r)
    PROVE  BalancerInv'
  <1>1. PICK q \in Queries :
          /\ \A p \in Queries : p < q <=> p \in admitted
          /\ admitted' = admitted \cup { q }
          /\ upAt' = [upAt EXCEPT ![q] = enabled]
          /\ scan' = [scan EXCEPT ![r] = [query |-> q, hs |-> offset_ % size_, cnt |-> 0]]
    BY DEF Sane
  <1>2. /\ offset_' = offset_ + 1 /\ pc' = [pc EXCEPT ![r] = "select"]
        /\ enabled' = enabled /\ resolving' = resolving /\ given' = given /\ completed' = completed
    BY DEF Sane
  <1>3. BalancerTypeOK /\ Numbered /\ UpStays /\ Loops /\ Settled /\ RefusedOnlyIfNoneUp
    BY DEF BalancerInv
  <1>4. MaxQueries \in Nat /\ offset_ \in Nat /\ q \in 1 .. MaxQueries
    BY <1>3, IntakeAssumption DEF Numbered, Queries
  <1>5. q = offset_ + 1 /\ q \notin admitted
    <2>1. q \notin admitted
      BY <1>1, <1>4
    <2>2. q > offset_
      BY <2>1, <1>3, <1>4 DEF Numbered
    <2>3. ~(offset_ + 1 < q)
      <3> SUFFICES ASSUME offset_ + 1 < q PROVE FALSE
        OBVIOUS
      <3>1. offset_ + 1 \in Queries
        BY <1>4 DEF Queries
      <3>2. offset_ + 1 \in admitted
        BY <1>1, <3>1
      <3> QED BY <3>2, <1>3, <1>4 DEF Numbered
    <2> QED BY <2>1, <2>2, <2>3, <1>4
  <1>6. /\ scan'[r].query = q /\ scan'[r].cnt = 0 /\ scan'[r].hs = offset_ % size_
        /\ \A t \in Receivers \ { r } : scan'[t] = scan[t]
        /\ pc'[r] = "select" /\ \A t \in Receivers \ { r } : pc'[t] = pc[t]
    BY <1>1, <1>2, <1>3 DEF BalancerTypeOK
  <1>7. offset_ % size_ \in Nat /\ offset_ % size_ = Candidate(q, 0)
    <2>1. q - 1 + 0 = offset_
      BY <1>4, <1>5
    <2>2. offset_ % size_ \in 0 .. (size_ - 1)
      BY <1>4, ProxyFacts, RemainderRange
    <2> QED BY <2>1, <2>2, ProxyFacts DEF Candidate
  <1>8. BalancerTypeOK'
    <2>1. [query |-> q, hs |-> offset_ % size_, cnt |-> 0] \in ScanState
      BY <1>4, <1>7 DEF ScanState
    <2>2. scan' \in [Receivers -> ScanState] /\ pc' \in [Receivers -> Stage]
      BY <1>1, <1>2, <1>3, <2>1 DEF BalancerTypeOK, Stage
    <2>3. upAt' \in [Queries -> SUBSET Proxies] /\ completed' \subseteq admitted'
      BY <1>1, <1>2, <1>3 DEF BalancerTypeOK
    <2> QED BY <2>2, <2>3, <1>2, <1>3 DEF BalancerTypeOK
  <1>9. Numbered'
    <2>1. admitted' = 1 .. (offset_ + 1)
      BY <1>1, <1>3, <1>4, <1>5 DEF Numbered
    <2> QED BY <2>1, <1>2, <1>4, <1>5 DEF Numbered
  <1>10. /\ upAt'[q] = enabled
         /\ \A p \in admitted : upAt'[p] = upAt[p] /\ p # q /\ p < q /\ p \in Queries
    <2>1. \A p \in admitted : p \in Queries /\ p < q
      BY <1>3, <1>4, <1>5 DEF Numbered, Queries
    <2> QED BY <1>1, <1>3, <1>5, <2>1 DEF BalancerTypeOK
  <1>11. UpStays'
    <2>1. \A p \in admitted' : upAt'[p] \subseteq enabled'
      BY <1>1, <1>2, <1>3, <1>10 DEF UpStays
    <2>2. ASSUME NEW p \in admitted', NEW t \in admitted', p < t
          PROVE  upAt'[p] \subseteq upAt'[t]
      <3>1. CASE t = q
        <4>1. p # q
          BY <2>2, <3>1, <1>4
        <4> QED BY <3>1, <4>1, <1>1, <1>3, <1>10 DEF UpStays
      <3>2. CASE t # q
        <4>1. t \in admitted /\ t < q
          BY <3>2, <1>1, <1>10
        <4>2. p # q
          BY <2>2, <4>1, <1>3, <1>4 DEF Numbered
        <4> QED BY <2>2, <4>1, <4>2, <1>1, <1>3, <1>10 DEF UpStays
      <3> QED BY <3>1, <3>2
    <2>3. \A p \in Queries \ admitted' : given'[p] = Nobody
      BY <1>1, <1>2, <1>3 DEF UpStays
    <2> QED BY <2>1, <2>2, <2>3 DEF UpStays
  <1>12. Loops'
    <2>1. Scanning(r)'
      <3>1. given[q] = Nobody /\ q \notin completed
        BY <1>3, <1>5 DEF UpStays, BalancerTypeOK
      <3>2. 0 < size_ /\ 0 .. (0 - 1) = {}
        BY ProxyFacts
      <3> QED BY <1>1, <1>2, <1>6, <1>7, <3>1, <3>2 DEF Scanning, Candidate
    <2>2. ASSUME NEW t \in Receivers, t # r, pc'[t] = "select"
          PROVE  Scanning(t)'
      <3>1. pc[t] = "select" /\ scan'[t] = scan[t]
        BY <2>2, <1>6
      <3>2. Scanning(t)
        BY <3>1, <1>3 DEF Loops
      <3>3. upAt'[scan[t].query] = upAt[scan[t].query]
        BY <3>2, <1>10 DEF Scanning
      <3> QED BY <3>1, <3>2, <3>3, <1>1, <1>2 DEF Scanning, Candidate
    <2>3. ASSUME NEW t \in Receivers, NEW u \in Receivers, pc'[t] = "select", pc'[u] = "select",
                 scan'[t].query = scan'[u].query
          PROVE  t = u
      <3>1. \A v \in Receivers \ { r } : pc[v] = "select" => scan[v].query # q
        BY <1>3, <1>5 DEF Loops, Scanning
      <3> QED BY <2>3, <3>1, <1>3, <1>6 DEF Loops
    <2> QED BY <2>1, <2>2, <2>3 DEF Loops
  <1>13. Settled'
    <2> SUFFICES ASSUME NEW p \in admitted'
                 PROVE  /\ \/ given'[p] # Nobody \/ p \in completed'
                           \/ \E t \in Receivers : pc'[t] = "select" /\ scan'[t].query = p
                        /\ upAt'[p] = Proxies /\ given'[p] # Nobody => given'[p] = Candidate(p, 0)
      BY DEF Settled, Candidate
    <2>1. CASE p = q
      <3>1. given[q] = Nobody
        BY <1>3, <1>5 DEF UpStays
      <3> QED BY <2>1, <3>1, <1>2, <1>6
    <2>2. CASE p # q
      <3>1. p \in admitted /\ upAt'[p] = upAt[p]
        BY <2>2, <1>1, <1>10
      <3>2. \A t \in Receivers : pc[t] = "select" => pc'[t] = "select" /\ scan'[t] = scan[t]
        BY <1>6
      <3> QED BY <3>1, <3>2, <1>2, <1>3 DEF Settled
    <2> QED BY <2>1, <2>2
  <1>14. RefusedOnlyIfNoneUp'
    BY <1>2, <1>3, <1>10 DEF RefusedOnlyIfNoneUp, BalancerTypeOK
  <1> QED BY <1>8, <1>9, <1>11, <1>12, <1>13, <1>14 DEF BalancerInv

\* One turn of the loop: the proxy takes the query, the next one is looked at,
\* or the query is refused.
LEMMA ProcessQueryKeepsBalancer ==
    ASSUME BalancerInv, NEW r \in Receivers, process_query(r)
    PROVE  BalancerInv'
  <1> DEFINE s == scan[r]
             q == s.query
             back == IF r = "udp" THEN "receive" ELSE "length"
  <1>1. /\ pc[r] = "select" /\ offset_' = offset_ /\ enabled' = enabled /\ resolving' = resolving
        /\ admitted' = admitted /\ upAt' = upAt
    BY DEF process_query
  <1>2. BalancerTypeOK /\ Numbered /\ UpStays /\ Loops /\ Settled /\ RefusedOnlyIfNoneUp
    BY DEF BalancerInv
  <1>3. /\ q \in admitted \ completed /\ given[q] = Nobody
        /\ s.cnt < size_ /\ s.hs = Candidate(q, s.cnt)
        /\ \A n \in 0 .. (s.cnt - 1) : Candidate(q, n) \notin upAt[q]
    BY <1>1, <1>2 DEF Loops, Scanning
  <1>4. /\ s \in ScanState /\ s.cnt \in Nat /\ s.hs \in Nat /\ q \in Nat \ {0} /\ q \in Queries
        /\ MaxQueries \in Nat
    <2>1. s \in ScanState
      BY <1>2 DEF BalancerTypeOK
    <2>2. offset_ \in 0 .. MaxQueries /\ q \in 1 .. offset_ /\ MaxQueries \in Nat
      BY <1>2, <1>3, IntakeAssumption DEF Numbered
    <2> QED BY <2>1, <2>2 DEF ScanState, Queries
  <1>5. \A t \in Receivers : t # r /\ pc[t] = "select" => scan[t].query # q
    BY <1>1, <1>2 DEF Loops
  <1>6. back \in Stage /\ back # "select"
    BY DEF Stage
  <1>7. CASE s.hs \in enabled
    <2>1. /\ given' = [given EXCEPT ![q] = s.hs] /\ completed' = completed
          /\ scan' = [scan EXCEPT ![r] = NoScan] /\ pc' = [pc EXCEPT ![r] = back]
      <3>1. scan' = [scan EXCEPT ![r] = NoScan] /\ given' = [given EXCEPT ![q] = s.hs] /\ completed' = completed
        BY <1>7 DEF process_query
      <3>2. scan'[r] = NoScan
        BY <3>1, <1>2 DEF BalancerTypeOK
      <3> QED BY <3>1, <3>2 DEF process_query
    <2>2. /\ pc'[r] = back /\ \A t \in Receivers \ { r } : pc'[t] = pc[t] /\ scan'[t] = scan[t]
          /\ given'[q] = s.hs /\ \A p \in Queries \ { q } : given'[p] = given[p]
      BY <2>1, <1>2, <1>4 DEF BalancerTypeOK
    <2>3. BalancerTypeOK'
      <3>1. NoScan \in ScanState
        BY <1>4 DEF NoScan, ScanState
      <3>2. scan' \in [Receivers -> ScanState] /\ pc' \in [Receivers -> Stage]
        BY <2>1, <3>1, <1>2, <1>6 DEF BalancerTypeOK
      <3>3. given' \in [Queries -> Proxies \cup { Nobody }]
        BY <2>1, <1>2, <1>7 DEF BalancerTypeOK
      <3> QED BY <2>1, <3>2, <3>3, <1>1, <1>2 DEF BalancerTypeOK
    <2>4. Numbered' /\ UpStays'
      <3>1. \A p \in Queries \ admitted : p # q
        BY <1>3
      <3> QED BY <3>1, <2>2, <1>1, <1>2 DEF Numbered, UpStays
    <2>5. Loops'
      <3>1. ASSUME NEW t \in Receivers, pc'[t] = "select"
            PROVE  Scanning(t)' /\ t # r /\ pc[t] = "select" /\ scan'[t] = scan[t]
        <4>1. t # r /\ pc[t] = "select" /\ scan'[t] = scan[t]
          BY <3>1, <2>2, <1>6
        <4>2. Scanning(t) /\ scan[t].query # q
          BY <4>1, <1>2, <1>5 DEF Loops
        <4>3. given'[scan[t].query] = given[scan[t].query]
          <5>1. scan[t].query \in Queries
            BY <4>2, <1>2, <1>4 DEF Scanning, Numbered, Queries
          <5> QED BY <5>1, <4>2, <2>2
        <4> QED BY <4>1, <4>2, <4>3, <2>1, <1>1 DEF Scanning, Candidate
      <3> QED BY <3>1, <1>2 DEF Loops
    <2>6. Settled'
      <3> SUFFICES ASSUME NEW p \in admitted
                   PROVE  /\ \/ given'[p] # Nobody \/ p \in completed'
                             \/ \E t \in Receivers : pc'[t] = "select" /\ scan'[t].query = p
                          /\ upAt[p] = Proxies /\ given'[p] # Nobody => given'[p] = Candidate(p, 0)
        BY <1>1 DEF Settled, Candidate
      <3>1. CASE p = q
        <4>1. s.hs # Nobody
          BY <1>2, <1>7, ProxyFacts DEF BalancerTypeOK
        <4>2. ASSUME upAt[q] = Proxies PROVE s.cnt = 0
          <5>1. Candidate(q, 0) \in Proxies
            BY <1>4, CandidateIsProxy
          <5>2. 0 \notin 0 .. (s.cnt - 1)
            BY <4>2, <5>1, <1>3
          <5> QED BY <5>2, <1>4
        <4> QED BY <3>1, <4>1, <4>2, <2>2, <1>3
      <3>2. CASE p # q
        <4>1. p \in Queries
          BY <1>2, <1>4 DEF Numbered, Queries
        <4>2. given'[p] = given[p]
          BY <3>2, <4>1, <2>2
        <4>3. \A t \in Receivers : pc[t] = "select" /\ scan[t].query = p => pc'[t] = "select" /\ scan'[t].query = p
          BY <3>2, <2>2
        <4> QED BY <4>2, <4>3, <2>1, <1>2 DEF Settled
      <3> QED BY <3>1, <3>2
    <2>7. RefusedOnlyIfNoneUp'
      <3>1. \A p \in completed : p # q /\ p \in Queries
        BY <1>2, <1>3, <1>4 DEF BalancerTypeOK, Numbered, Queries
      <3> QED BY <3>1, <2>1, <2>2, <1>1, <1>2 DEF RefusedOnlyIfNoneUp
    <2> QED BY <2>3, <2>4, <2>5, <2>6, <2>7 DEF BalancerInv
  <1>8. CASE s.hs \notin enabled /\ s.cnt + 1 < size_
    <2> DEFINE n == [s EXCEPT !.cnt = s.cnt + 1, !.hs = (s.hs + 1) % size_]
    <2>1. /\ given' = given /\ completed' = completed
          /\ scan' = [scan EXCEPT ![r].cnt = @ + 1, ![r].hs = (@ + 1) % size_]
      BY <1>8 DEF process_query
    <2>2. /\ scan'[r].query = q /\ scan'[r].cnt = s.cnt + 1 /\ scan'[r].hs = (s.hs + 1) % size_
          /\ scan' \in [Receivers -> ScanState]
          /\ \A t \in Receivers \ { r } : scan'[t] = scan[t]
      <3>1. (s.hs + 1) % size_ \in 0 .. (size_ - 1)
        <4>1. s.hs + 1 \in Nat
          BY <1>4
        <4> HIDE DEF s
        <4> QED BY <4>1, ProxyFacts, RemainderRange
      <3>2. (s.hs + 1) % size_ \in Nat
        BY <3>1, ProxyFacts
      <3>3. scan \in [Receivers -> ScanState]
        BY <1>2 DEF BalancerTypeOK
      <3>4. scan' = [scan EXCEPT ![r] = n]
        BY <2>1, <3>3
      <3>5. n \in ScanState /\ n.query = q /\ n.cnt = s.cnt + 1 /\ n.hs = (s.hs + 1) % size_
        <4> DEFINE h == (s.hs + 1) % size_
        <4> HIDE DEF s, h
        <4>1. h \in Nat
          BY <3>2 DEF h
        <4>2. n = [s EXCEPT !.cnt = s.cnt + 1, !.hs = h]
          BY DEF h
        <4> HIDE DEF n
        <4>3. s = [query |-> s.query, hs |-> s.hs, cnt |-> s.cnt] /\ s.query \in 0 .. MaxQueries /\ s.cnt + 1 \in Nat
          BY <1>4 DEF ScanState
        <4>4. n = [query |-> s.query, hs |-> h, cnt |-> s.cnt + 1]
          BY <4>2, <4>3
        <4>5. n \in ScanState /\ n.query = s.query /\ n.cnt = s.cnt + 1 /\ n.hs = h
          BY <4>1, <4>3, <4>4 DEF ScanState
        <4> QED BY <4>5 DEF h
      <3> HIDE DEF n
      <3>6. scan'[r] = n /\ scan' \in [Receivers -> ScanState] /\ \A t \in Receivers \ { r } : scan'[t] = scan[t]
        BY <3>3, <3>4, <3>5
      <3> QED BY <3>5, <3>6
    <2>3. pc' = pc
      <3>1. scan'[r] # NoScan
        BY <2>2, <1>4 DEF NoScan
      <3> QED BY <3>1 DEF process_query
    <2>4. BalancerTypeOK' /\ Numbered' /\ UpStays' /\ RefusedOnlyIfNoneUp'
      BY <2>1, <2>2, <2>3, <1>1, <1>2 DEF BalancerTypeOK, Numbered, UpStays, RefusedOnlyIfNoneUp
    <2>5. Scanning(r)'
      <3>1. scan'[r].hs = Candidate(q, s.cnt + 1)
        BY <2>2, <1>3, <1>4, <1>8, NextCandidate
      <3>2. Candidate(q, s.cnt) \notin upAt[q]
        BY <1>2, <1>3, <1>8 DEF UpStays
      <3>3. \A k \in 0 .. (s.cnt + 1 - 1) : k \in 0 .. (s.cnt - 1) \/ k = s.cnt
        BY <1>4
      <3>4. \A k \in 0 .. (s.cnt + 1 - 1) : Candidate(q, k) \notin upAt[q]
        BY <3>2, <3>3, <1>3
      <3>5. scan'[r].query \in admitted' \ completed' /\ given'[scan'[r].query] = Nobody
        BY <2>1, <2>2, <1>1, <1>3
      <3>6. scan'[r].cnt < size_ /\ scan'[r].hs = Candidate(scan'[r].query, scan'[r].cnt)
        BY <3>1, <2>2, <1>8
      <3>7. \A k \in 0 .. (scan'[r].cnt - 1) : Candidate(scan'[r].query, k) \notin upAt'[scan'[r].query]
        <4> SUFFICES ASSUME NEW k \in 0 .. (scan'[r].cnt - 1)
                     PROVE  Candidate(scan'[r].query, k) \notin upAt'[scan'[r].query]
          OBVIOUS
        <4>0. scan'[r].cnt = s.cnt + 1
          BY <2>2, Zenon
        <4>1. k \in 0 .. (s.cnt + 1 - 1)
          BY <4>0, <1>4
        <4>2. Candidate(q, k) \notin upAt[q]
          BY <4>1, <3>4
        <4> QED BY <4>2, <2>2, <1>1
      <3> QED BY <3>5, <3>6, <3>7 DEF Scanning, Candidate
    <2>6. Loops'
      <3>1. ASSUME NEW t \in Receivers, pc[t] = "select", t # r
            PROVE  Scanning(t)'
        <4>1. Scanning(t) /\ scan'[t] = scan[t]
          BY <3>1, <2>2, <1>2 DEF Loops
        <4> QED BY <4>1, <2>1, <1>1 DEF Scanning, Candidate
      <3>2. \A t \in Receivers : scan'[t].query = scan[t].query
        BY <2>2
      <3> QED BY <3>1, <3>2, <2>3, <2>5, <1>2 DEF Loops
    <2>7. Settled'
      <3>1. \A t \in Receivers : scan'[t].query = scan[t].query
        BY <2>2
      <3> QED BY <3>1, <2>1, <2>3, <1>1, <1>2 DEF Settled, Candidate
    <2> QED BY <2>4, <2>6, <2>7 DEF BalancerInv
  <1>9. CASE s.hs \notin enabled /\ ~(s.cnt + 1 < size_)
    <2>1. /\ given' = given /\ completed' = completed \cup { q }
          /\ scan' = [scan EXCEPT ![r] = NoScan] /\ pc' = [pc EXCEPT ![r] = back]
      <3>1. scan' = [scan EXCEPT ![r] = NoScan] /\ given' = given /\ completed' = completed \cup { q }
        BY <1>9 DEF process_query, complete
      <3>2. scan'[r] = NoScan
        BY <3>1, <1>2 DEF BalancerTypeOK
      <3> QED BY <3>1, <3>2 DEF process_query
    <2>2. pc'[r] = back /\ \A t \in Receivers \ { r } : pc'[t] = pc[t] /\ scan'[t] = scan[t]
      BY <2>1, <1>2 DEF BalancerTypeOK
    <2>3. BalancerTypeOK'
      <3>1. NoScan \in ScanState
        BY <1>4 DEF NoScan, ScanState
      <3>2. scan' \in [Receivers -> ScanState] /\ pc' \in [Receivers -> Stage]
        BY <2>1, <3>1, <1>2, <1>6 DEF BalancerTypeOK
      <3> QED BY <2>1, <3>2, <1>1, <1>2, <1>3 DEF BalancerTypeOK
    <2>4. Numbered' /\ UpStays'
      BY <2>1, <1>1, <1>2 DEF Numbered, UpStays
    <2>5. Loops'
      <3>1. ASSUME NEW t \in Receivers, pc'[t] = "select"
            PROVE  Scanning(t)' /\ pc[t] = "select" /\ scan'[t] = scan[t]
        <4>1. t # r /\ pc[t] = "select" /\ scan'[t] = scan[t]
          BY <3>1, <2>2, <1>6
        <4>2. Scanning(t) /\ scan[t].query # q
          BY <4>1, <1>2, <1>5 DEF Loops
        <4> QED BY <4>1, <4>2, <2>1, <1>1 DEF Scanning, Candidate
      <3> QED BY <3>1, <1>2 DEF Loops
    <2>6. Settled'
      <3>1. \A p \in admitted : p # q => \A t \in Receivers :
                pc[t] = "select" /\ scan[t].query = p => pc'[t] = "select" /\ scan'[t].query = p
        BY <2>2
      <3> QED BY <3>1, <2>1, <1>1, <1>2 DEF Settled, Candidate
    <2>7. upAt[q] = {}
      <3>1. \A k \in 0 .. (size_ - 1) : Candidate(q, k) \notin upAt[q]
        <4>1. Candidate(q, s.cnt) \notin upAt[q]
          BY <1>2, <1>3, <1>9 DEF UpStays
        <4>2. \A k \in 0 .. (size_ - 1) : k \in 0 .. (s.cnt - 1) \/ k = s.cnt
          BY <1>3, <1>4, <1>9, ProxyFacts
        <4> QED BY <4>1, <4>2, <1>3
      <3>2. \A h \in Proxies : h \notin upAt[q]
        BY <3>1, <1>4, AllCandidates
      <3> QED BY <3>2, <1>2, <1>4 DEF BalancerTypeOK
    <2>8. RefusedOnlyIfNoneUp'
      BY <2>1, <2>7, <1>1, <1>2 DEF RefusedOnlyIfNoneUp
    <2> QED BY <2>3, <2>4, <2>5, <2>6, <2>8 DEF BalancerInv
  <1> QED BY <1>7, <1>8, <1>9

\* A proxy completes what it was given.
LEMMA ProxyCompletesKeepsBalancer ==
    ASSUME BalancerInv, ProxyCompletes
    PROVE  BalancerInv'
  <1>1. PICK q \in Queries : given[q] # Nobody /\ completed' = completed \cup { q }
    BY DEF ProxyCompletes, complete
  <1>2. UNCHANGED << pc, scan, offset_, enabled, resolving, admitted, given, upAt >>
    BY DEF ProxyCompletes
  <1>3. q \in admitted
    BY <1>1 DEF BalancerInv, UpStays
  <1>4. BalancerTypeOK' /\ Numbered' /\ UpStays' /\ RefusedOnlyIfNoneUp'
    BY <1>1, <1>2, <1>3 DEF BalancerInv, BalancerTypeOK, Numbered, UpStays, RefusedOnlyIfNoneUp
  <1>5. Loops'
    BY <1>1, <1>2 DEF BalancerInv, Loops, Scanning, Candidate
  <1>6. Settled'
    BY <1>1, <1>2 DEF BalancerInv, Settled, Candidate
  <1> QED BY <1>4, <1>5, <1>6 DEF BalancerInv

\* Consecutive numbers are dealt to the proxies in turn: all but the last of
\* those with one remainder are followed by one with the other.
LEMMA Dealt == BalancerInv => RoundRobin
  <1> SUFFICES ASSUME BalancerInv, \A r \in Receivers : pc[r] # "select",
                      NEW g \in Proxies, NEW h \in Proxies
               PROVE  Cardinality({ q \in admitted : upAt[q] = Proxies /\ given[q] = g })
                      <= Cardinality({ q \in admitted : upAt[q] = Proxies /\ given[q] = h }) + 1
    BY DEF RoundRobin
  <1> DEFINE G == { q \in admitted : upAt[q] = Proxies /\ given[q] = g }
             H == { q \in admitted : upAt[q] = Proxies /\ given[q] = h }
             d == IF g <= h THEN h - g ELSE h - g + size_
             B == { q \in G : q + size_ > offset_ }
  <1>1. BalancerTypeOK /\ Numbered /\ UpStays /\ Settled /\ RefusedOnlyIfNoneUp
    BY DEF BalancerInv
  <1>2. /\ size_ \in Nat \ {0} /\ g \in 0 .. (size_ - 1) /\ h \in 0 .. (size_ - 1)
        /\ offset_ \in Nat /\ offset_ <= MaxQueries /\ MaxQueries \in Nat
    BY <1>1, ProxyFacts, IntakeAssumption DEF Numbered
  <1>3. d \in 0 .. (size_ - 1)
    BY <1>2
  <1>4. \A q \in admitted : q \in Nat \ {0} /\ q <= offset_ /\ q \in Queries /\ q - 1 \in Nat
    BY <1>1, <1>2 DEF Numbered, Queries
  <1>5. ASSUME NEW q \in admitted, upAt[q] = Proxies
        PROVE  given[q] = (q - 1) % size_
    <2>1. given[q] # Nobody
      BY <1>1, <1>5, ProxyFacts DEF Settled, RefusedOnlyIfNoneUp
    <2>2. given[q] = Candidate(q, 0)
      BY <2>1, <1>1, <1>5 DEF Settled
    <2>3. q - 1 + 0 = q - 1
      BY <1>4
    <2> QED BY <2>2, <2>3 DEF Candidate
  <1>6. IsFiniteSet(G) /\ IsFiniteSet(H)
    <2>1. IsFiniteSet(admitted)
      BY <1>1, <1>2, FS_Interval DEF Numbered
    <2> QED BY <2>1, FS_Subset
  <1>7. ASSUME NEW q \in G, q + size_ <= offset_
        PROVE  q + d \in H
    <2>1. q \in admitted /\ q \in Nat \ {0} /\ upAt[q] = Proxies /\ given[q] = g
      BY <1>4
    <2>2. q + d \in admitted
      BY <2>1, <1>1, <1>2, <1>3, <1>7 DEF Numbered
    <2>3. upAt[q + d] = Proxies
      <3>1. CASE d = 0
        BY <2>1, <3>1
      <3>2. CASE d # 0
        <4>1. q < q + d
          BY <2>1, <3>2, <1>3, <1>2
        <4>2. Proxies \subseteq upAt[q + d]
          BY <2>1, <2>2, <4>1, <1>1 DEF UpStays
        <4>3. upAt[q + d] \subseteq Proxies
          BY <2>2, <1>1, <1>4 DEF BalancerTypeOK
        <4> QED BY <4>2, <4>3
      <3> QED BY <3>1, <3>2
    <2>4. (q - 1) % size_ = g
      BY <2>1, <1>5
    <2>5. (q - 1 + d) % size_ = IF g + d < size_ THEN g + d ELSE g + d - size_
      <3> DEFINE m == q - 1
      <3>1. m \in Nat
        BY <2>1
      <3> HIDE DEF d, m
      <3>2. (m + d) % size_ = IF (m % size_) + d < size_ THEN (m % size_) + d ELSE (m % size_) + d - size_
        BY <3>1, <1>2, <1>3, RemainderAdd
      <3> QED BY <3>2, <2>4 DEF m
    <2>6. (q - 1 + d) % size_ = h
      BY <2>5, <1>2
    <2>7. (q + d) - 1 = q - 1 + d
      BY <2>1, <1>2, <1>3
    <2>8. given[q + d] = h
      <3> DEFINE t == q + d
      <3>1. t \in admitted /\ upAt[t] = Proxies
        BY <2>2, <2>3
      <3>2. t - 1 = q - 1 + d
        BY <2>7
      <3> HIDE DEF d, t
      <3>3. given[t] = (t - 1) % size_
        BY <3>1, <1>5
      <3>4. given[t] = h
        BY <3>2, <3>3, <2>6
      <3> QED BY <3>4 DEF t
    <2> QED BY <2>2, <2>3, <2>8
  <1>8. ASSUME NEW p \in B, NEW q \in B, p < q
        PROVE  FALSE
    <2>1. /\ p \in admitted /\ q \in admitted /\ p + size_ > offset_ /\ q <= offset_
          /\ p - 1 \in Nat /\ q - 1 \in Nat /\ p \in Nat /\ q \in Nat
      BY <1>4
    <2>2. (p - 1) % size_ = (q - 1) % size_
      BY <1>5
    <2>3. p - 1 + size_ <= q - 1
      <3>1. p - 1 < q - 1
        BY <2>1, <1>8
      <3> QED BY <2>1, <2>2, <3>1, <1>2, SameRemainder
    <2> QED BY <2>1, <2>3, <1>2
  <1>9. Cardinality(G \ B) <= Cardinality(H)
    <2> DEFINE f == [q \in G \ B |-> q + d]
    <2>1. \A q \in G \ B : q + d \in H /\ q \in Nat
      BY <1>2, <1>4, <1>7
    <2>2. \A p, q \in G \ B : p + d = q + d => p = q
      BY <2>1, <1>2, <1>3
    <2> HIDE DEF G, H, B, d
    <2>3. f \in Injection(G \ B, H)
      BY <2>1, <2>2 DEF Injection, IsInjective
    <2> QED BY <2>3, <1>6, FS_Injection
  <1>10. Cardinality(G) \in Nat /\ Cardinality(H) \in Nat
    BY <1>6, FS_CardinalityType
  <1>11. CASE B = {}
    <2>1. G \ B = G
      BY <1>11
    <2> QED BY <2>1, <1>9, <1>10
  <1>12. CASE B # {}
    <2>1. PICK b : b \in B
      BY <1>12
    <2>2. \A q \in B : q = b
      <3>1. \A q \in B : q \in Nat
        BY <1>4
      <3> QED BY <2>1, <3>1, <1>8
    <2>3. G \ B = G \ { b } /\ b \in G
      BY <2>1, <2>2
    <2> HIDE DEF G, H, B
    <2>4. Cardinality(G \ { b }) = Cardinality(G) - 1
      BY <2>3, <1>6, FS_RemoveElement
    <2>5. Cardinality(G) - 1 <= Cardinality(H)
      BY <2>3, <2>4, <1>9
    <2> QED BY <2>5, <1>10 DEF G, H
  <1> QED BY <1>11, <1>12

-----------------------------------------------------------------------------
(* The framing of a TCP stream.                                            *)

FrameTypeOK ==
    /\ pc \in [Receivers -> Stage]
    /\ at \in [Conns -> Nat] /\ want \in [Conns -> 0 .. (Header + RecvBuf)]
    /\ short \in [Conns -> BOOLEAN] /\ stream \in [Conns -> Streams \cup { << >> }]

\* Between messages a connection is at a boundary, and the octets it waits for
\* lead to the next one.
Aligned(c) ==
    /\ pc[c] = "accept" => at[c] = 0 /\ ~short[c]
    /\ pc[c] \in { "accept", "length", "select" } /\ ~short[c] => Boundary(c, at[c])
    /\ pc[c] = "body" /\ ~short[c] => Boundary(c, at[c] + want[c])

FrameInv == FrameTypeOK /\ \A c \in Conns : Aligned(c)

\* The start of a stream and the end of each of its messages are boundaries.
LEMMA Boundaries ==
    ASSUME FrameTypeOK, NEW c \in Conns
    PROVE  /\ Boundary(c, 0) /\ Written(c) \in Nat
           /\ \A k \in DOMAIN stream[c] :
                 /\ stream[c][k].start \in Nat /\ stream[c][k].len \in Nat
                 /\ Boundary(c, End(stream[c][k]))
  <1> DEFINE s == stream[c]
  <1>1. s \in Seq(Message) /\ Contiguous(s)
    <2>1. s \in Streams \cup { << >> }
      BY DEF FrameTypeOK
    <2>2. << >> \in Seq(Message) /\ DOMAIN << >> = {}
      BY EmptySeq
    <2> QED BY <2>1, <2>2, IntakeAssumption DEF Contiguous
  <1>2. /\ Len(s) \in Nat /\ DOMAIN s = 1 .. Len(s) /\ s = << >> <=> Len(s) = 0
        /\ \A k \in DOMAIN s : s[k] \in Message
    BY <1>1
  <1>3. \A k \in DOMAIN s : s[k].start \in Nat /\ s[k].len \in Nat
    BY <1>2, IntakeAssumption DEF Message
  <1>4. Boundary(c, 0)
    <2>1. CASE s = << >>
      BY <2>1 DEF Boundary, Written
    <2>2. CASE s # << >>
      <3>1. 1 \in DOMAIN s
        BY <2>2, <1>2
      <3>2. s[1].start = 0
        BY <3>1, <1>1 DEF Contiguous
      <3> QED BY <3>1, <3>2 DEF Boundary
    <2> QED BY <2>1, <2>2
  <1>5. Written(c) \in Nat
    BY <1>2, <1>3 DEF Written, End
  <1>6. ASSUME NEW k \in DOMAIN s PROVE Boundary(c, End(s[k]))
    <2>1. CASE k = Len(s)
      BY <2>1, <1>2 DEF Boundary, Written
    <2>2. CASE k # Len(s)
      <3>1. k + 1 \in DOMAIN s /\ k + 1 # 1 /\ (k + 1) - 1 = k
        BY <2>2, <1>2
      <3>2. s[k + 1].start = End(s[k])
        BY <3>1, <1>1 DEF Contiguous, End
      <3> QED BY <3>1, <3>2 DEF Boundary
    <2> QED BY <2>1, <2>2
  <1> QED BY <1>3, <1>4, <1>5, <1>6

LEMMA FrameInitial == IntakeInit => FrameInv
  <1> SUFFICES ASSUME IntakeInit PROVE FrameInv
    OBVIOUS
  <1>1. FrameTypeOK
    <2>1. pc \in [Receivers -> Stage]
      BY DEF IntakeInit, Receivers, Stage
    <2>2. at \in [Conns -> Nat] /\ want \in [Conns -> 0 .. (Header + RecvBuf)]
      BY IntakeAssumption DEF IntakeInit, tcp_dnsspeaker
    <2>3. short \in [Conns -> BOOLEAN]
      BY DEF IntakeInit, tcp_dnsspeaker
    <2>4. stream \in [Conns -> Streams \cup { << >> }]
      BY DEF IntakeInit, tcp_dnsspeaker
    <2> QED BY <2>1, <2>2, <2>3, <2>4 DEF FrameTypeOK
  <1>2. ASSUME NEW c \in Conns PROVE Aligned(c)
    <2>1. pc[c] = "accept" /\ at[c] = 0 /\ ~short[c]
      BY DEF IntakeInit, tcp_dnsspeaker
    <2>2. Boundary(c, 0)
      BY <1>1, Boundaries
    <2> QED BY <2>1, <2>2 DEF Aligned
  <1> QED BY <1>1, <1>2 DEF FrameInv

\* The octets stay where they are, and a connection goes on between messages.
LEMMA OthersKeepFrame ==
    ASSUME FrameInv, UNCHANGED tcp, pc' \in [Receivers -> Stage],
           \A c \in Conns : \/ pc'[c] = pc[c]
                            \/ pc[c] \in { "accept", "select" } /\ pc'[c] \in { "length", "select" }
    PROVE  FrameInv'
  <1>1. FrameTypeOK'
    BY DEF FrameInv, FrameTypeOK, tcp
  <1>2. ASSUME NEW c \in Conns PROVE Aligned(c)'
    <2>1. /\ \A n : Boundary(c, n)' <=> Boundary(c, n)
          /\ at' = at /\ want' = want /\ short' = short
      BY DEF Boundary, Written, tcp
    <2>2. Aligned(c)
      BY DEF FrameInv
    <2>3. /\ Boundary(c, at[c])' <=> Boundary(c, at[c])
          /\ Boundary(c, at[c] + want[c])' <=> Boundary(c, at[c] + want[c])
      BY DEF Boundary, Written, tcp
    <2> QED BY <2>1, <2>2, <2>3 DEF Aligned
  <1> QED BY <1>1, <1>2 DEF FrameInv

\* What happens to one connection leaves the others alone.
LEMMA OtherConnections ==
    ASSUME FrameInv, NEW c \in Conns, NEW e \in Conns, e # c,
           pc'[e] = pc[e], stream'[e] = stream[e], at'[e] = at[e], want'[e] = want[e], short'[e] = short[e]
    PROVE  Aligned(e)'
  BY DEF FrameInv, Aligned, Boundary, Written

LEMMA GoneKeepsFrame ==
    ASSUME FrameInv, NEW c \in Conns, Gone(c)
    PROVE  FrameInv'
  <1>1. FrameTypeOK'
    <2>1. c \in Receivers /\ "closed" \in Stage
      BY DEF Receivers, Stage
    <2>2. pc' \in [Receivers -> Stage] /\ stream' \in [Conns -> Streams \cup { << >> }]
      BY <2>1 DEF Gone, FrameInv, FrameTypeOK
    <2>3. at' \in [Conns -> Nat] /\ want' \in [Conns -> 0 .. (Header + RecvBuf)]
      BY IntakeAssumption DEF Gone, FrameInv, FrameTypeOK
    <2>4. short' \in [Conns -> BOOLEAN]
      BY DEF Gone, FrameInv, FrameTypeOK
    <2> QED BY <2>2, <2>3, <2>4 DEF FrameTypeOK
  <1>2. Aligned(c)'
    <2>1. pc'[c] = "closed"
      BY DEF Gone, FrameInv, FrameTypeOK, Receivers
    <2> QED BY <2>1 DEF Aligned
  <1>3. ASSUME NEW e \in Conns, e # c PROVE Aligned(e)'
    <2>1. e \in Receivers
      BY DEF Receivers
    <2> QED BY <1>3, <2>1, OtherConnections DEF Gone, FrameInv, FrameTypeOK
  <1> QED BY <1>1, <1>2, <1>3 DEF FrameInv

\* A length is read where there is one, and the octets it asks for end where
\* the next length is.
LEMMA LengthKeepsFrame ==
    ASSUME FrameInv, NEW c \in Conns, handle_msg_len_read(c)
    PROVE  FrameInv'
  <1>1. PICK l \in LengthRead(c) :
          IF l > Header + RecvBuf THEN Gone(c)
          ELSE /\ short' = [short EXCEPT ![c] = @ \/ l < Header]
               /\ pc' = [pc EXCEPT ![c] = "body"]
               /\ at' = [at EXCEPT ![c] = @ + 2]
               /\ want' = [want EXCEPT ![c] = IF l >= Header THEN l ELSE Header + RecvBuf]
               /\ UNCHANGED stream
    BY DEF handle_msg_len_read
  <1>2. CASE l > Header + RecvBuf
    BY <1>1, <1>2, GoneKeepsFrame
  <1>3. CASE ~(l > Header + RecvBuf)
    <2> DEFINE w == IF l >= Header THEN l ELSE Header + RecvBuf
    <2>1. /\ short' = [short EXCEPT ![c] = short[c] \/ l < Header] /\ pc' = [pc EXCEPT ![c] = "body"]
          /\ at' = [at EXCEPT ![c] = at[c] + 2] /\ want' = [want EXCEPT ![c] = w] /\ stream' = stream
      BY <1>1, <1>3
    <2>2. FrameTypeOK /\ c \in Receivers /\ Aligned(c)
      BY DEF FrameInv, Receivers
    <2>3. pc[c] = "length" /\ at[c] + 2 <= Written(c)
      BY DEF handle_msg_len_read
    <2>4. l \in Nat
      BY <2>2, Boundaries, IntakeAssumption DEF LengthRead
    <2>5. w \in 0 .. (Header + RecvBuf)
      BY <2>4, <1>3, IntakeAssumption
    <2> HIDE DEF w
    <2>6. FrameTypeOK'
      <3>1. pc' \in [Receivers -> Stage]
        BY <2>1, <2>2 DEF FrameTypeOK, Stage
      <3>2. at' \in [Conns -> Nat] /\ want' \in [Conns -> 0 .. (Header + RecvBuf)]
        BY <2>1, <2>2, <2>5 DEF FrameTypeOK
      <3>3. short' \in [Conns -> BOOLEAN]
        BY <2>1, <2>2 DEF FrameTypeOK
      <3> QED BY <2>1, <2>2, <3>1, <3>2, <3>3 DEF FrameTypeOK
    <2>7. /\ pc'[c] = "body" /\ at'[c] = at[c] + 2 /\ want'[c] = w
          /\ short'[c] <=> short[c] \/ l < Header
      BY <2>1, <2>2 DEF FrameTypeOK
    <2>8. ASSUME ~short'[c] PROVE Boundary(c, (at[c] + 2) + w)
      <3>1. ~short[c] /\ ~(l < Header)
        BY <2>7, <2>8
      <3>2. w = l
        BY <3>1, <2>4, IntakeAssumption DEF w
      <3>3. Boundary(c, at[c])
        BY <3>1, <2>2, <2>3 DEF Aligned
      <3>4. PICK k \in DOMAIN stream[c] : stream[c][k].start = at[c] /\ l = stream[c][k].len
        BY <3>3 DEF LengthRead
      <3>5. Boundary(c, End(stream[c][k])) /\ stream[c][k].start \in Nat /\ stream[c][k].len \in Nat
        BY <2>2, Boundaries
      <3>6. End(stream[c][k]) = (at[c] + 2) + w
        BY <3>2, <3>4, <3>5 DEF End
      <3> QED BY <3>5, <3>6
    <2>9. Aligned(c)'
      <3>1. Boundary(c, at[c] + want[c])' <=> Boundary(c, at'[c] + want'[c])
        BY <2>1 DEF Boundary, Written
      <3> QED BY <3>1, <2>7, <2>8 DEF Aligned
    <2>10. ASSUME NEW e \in Conns, e # c PROVE Aligned(e)'
      <3>1. e \in Receivers
        BY DEF Receivers
      <3> QED BY <2>1, <2>2, <2>10, <3>1, OtherConnections DEF FrameTypeOK
    <2> QED BY <2>6, <2>9, <2>10 DEF FrameInv
  <1> QED BY <1>2, <1>3

\* The octets of a message have been read.
LEMMA BodyKeepsFrame ==
    ASSUME FrameInv, NEW c \in Conns, handle_query_read(c)
    PROVE  FrameInv'
  <1>1. CASE Gone(c)
    BY <1>1, GoneKeepsFrame
  <1>2. CASE ~Gone(c)
    <2>1. /\ \/ pc' = [pc EXCEPT ![c] = "length"]
             \/ pc' = [pc EXCEPT ![c] = "select"]
          /\ at' = [at EXCEPT ![c] = at[c] + want[c]] /\ want' = [want EXCEPT ![c] = 0]
          /\ stream' = stream /\ short' = short /\ pc[c] = "body"
      BY <1>2 DEF handle_query_read, Sane
    <2>2. FrameTypeOK /\ c \in Receivers /\ Aligned(c)
      BY DEF FrameInv, Receivers
    <2>3. FrameTypeOK'
      <3>1. pc' \in [Receivers -> Stage]
        BY <2>1, <2>2 DEF FrameTypeOK, Stage
      <3>2. at' \in [Conns -> Nat] /\ want' \in [Conns -> 0 .. (Header + RecvBuf)]
        BY <2>1, <2>2, IntakeAssumption DEF FrameTypeOK
      <3> QED BY <2>1, <2>2, <3>1, <3>2 DEF FrameTypeOK
    <2>4. /\ pc'[c] \in { "length", "select" } /\ at'[c] = at[c] + want[c]
          /\ short'[c] = short[c]
      BY <2>1, <2>2 DEF FrameTypeOK
    <2>5. Aligned(c)'
      <3>1. Boundary(c, at[c])' <=> Boundary(c, at'[c])
        BY <2>1 DEF Boundary, Written
      <3> QED BY <3>1, <2>1, <2>2, <2>4 DEF Aligned
    <2>6. ASSUME NEW e \in Conns, e # c PROVE Aligned(e)'
      <3>1. e \in Receivers
        BY DEF Receivers
      <3> QED BY <2>1, <2>2, <2>6, <3>1, OtherConnections DEF FrameTypeOK
    <2> QED BY <2>3, <2>5, <2>6 DEF FrameInv
  <1> QED BY <1>1, <1>2

-----------------------------------------------------------------------------
(* The instrumentation client.                                             *)

InstrumenterTypeOK ==
    /\ inbox \in Seq(Metrics) /\ buf_ \in Seq(Metrics)
    /\ delivered \in Seq(Metrics) /\ added \in Seq(Metrics)
    /\ buf_size_ \in Nat /\ timer_ \in BOOLEAN /\ timeouts \in Nat

\* add_metric_ takes "the buffer's size is that of this metric" for "this metric
\* is the first of its batch", which is right because only an empty buffer has
\* size zero.
EmptyMeansZero == (buf_ = << >>) <=> (buf_size_ = 0)

BatchInv == InstrumenterTypeOK /\ EmptyMeansZero /\ BatchRight

\* What the three functions that change a batch do to sequences.
LEMMA SequenceFacts ==
    ASSUME NEW S, NEW s \in Seq(S), NEW t \in Seq(S), NEW m \in S
    PROVE  /\ s \o t \in Seq(S) /\ Append(t, m) \in Seq(S) /\ Append(t, m) # << >>
           /\ s \o << >> = s
           /\ Append(t, m) = t \o << m >>
           /\ << m >> \in Seq(S) /\ << m >> # << >> /\ Append(<< >>, m) = << m >>
OBVIOUS

\* The first batch is empty.
LEMMA BatchInit == InstrumenterInit => BatchInv
  <1> SUFFICES ASSUME InstrumenterInit PROVE BatchInv
    OBVIOUS
  <1>1. InstrumenterTypeOK
    <2>1. inbox \in Seq(Metrics) /\ buf_ \in Seq(Metrics) /\ delivered \in Seq(Metrics) /\ added \in Seq(Metrics)
      BY EmptySeq DEF InstrumenterInit
    <2>2. buf_size_ \in Nat /\ timeouts \in Nat
      BY DEF InstrumenterInit
    <2>3. timer_ \in BOOLEAN
      BY Zenon DEF InstrumenterInit
    <2> QED BY <2>1, <2>2, <2>3 DEF InstrumenterTypeOK
  <1>2. EmptyMeansZero
    BY DEF InstrumenterInit, EmptyMeansZero
  <1>3. BatchRight
    BY InstrumenterAssumption DEF InstrumenterInit, BatchRight, Conserved, Nagled, DatagramFits
  <1> QED BY <1>1, <1>2, <1>3 DEF BatchInv

\* Queueing a metric leaves the batch alone.
LEMMA AddMetricKeeps ==
    ASSUME BatchInv, NEW m \in Metrics, do_add_metric(m)
    PROVE  BatchInv'
  BY DEF BatchInv, do_add_metric, InstrumenterTypeOK, EmptyMeansZero, BatchRight, Conserved, Nagled, DatagramFits

\* add_metric_: the metric that does not fit, the one that fills the datagram,
\* the first of a batch and any other.
LEMMA RunAddMetricKeeps ==
    ASSUME BatchInv, RunAddMetric
    PROVE  BatchInv'
  <1> DEFINE m == Head(inbox)
             b1 == IF buf_size_ + SizeOf[m] > MAX_BUF_SIZE THEN send_now(Batch) ELSE Batch
             b2 == push_back(b1, m)
             b3 == IF b2.size = MAX_BUF_SIZE THEN send_now(b2) ELSE b2
             b4 == IF b3.size = SizeOf[m] THEN start_timer(b3) ELSE b3
             Full == buf_size_ + SizeOf[m] > MAX_BUF_SIZE
  <1>t. InstrumenterTypeOK /\ EmptyMeansZero /\ Conserved /\ Nagled /\ DatagramFits
    BY DEF BatchInv, BatchRight
  <1>m. /\ m \in Metrics /\ inbox' \in Seq(Metrics) /\ added' = Append(added, m)
        /\ timeouts' = timeouts
    BY <1>t, HeadTailProperties DEF RunAddMetric, InstrumenterTypeOK
  <1>s. SizeOf[m] \in Nat /\ SizeOf[m] > 0 /\ SizeOf[m] <= MAX_BUF_SIZE /\ MAX_BUF_SIZE \in Nat
    BY <1>m, InstrumenterAssumption
  <1>b. buf_' = b4.buf /\ buf_size_' = b4.size /\ timer_' = b4.timer /\ delivered' = b4.sent
    BY DEF RunAddMetric, add_metric_, Becomes
  <1>a. /\ added = delivered \o buf_
        /\ buf_ \in Seq(Metrics) /\ delivered \in Seq(Metrics) /\ added \in Seq(Metrics)
        /\ buf_size_ \in Nat /\ timeouts \in Nat
        /\ buf_size_ = 0 => buf_ = << >>
        /\ buf_ = << >> => buf_size_ = 0
    BY <1>t DEF InstrumenterTypeOK, Conserved, EmptyMeansZero
  <1>n. buf_size_ # 0 => timer_ \/ timeouts > 0
    BY <1>t DEF Nagled, EmptyMeansZero
  <1> HIDE DEF m
  <1>f. /\ Append(buf_, m) \in Seq(Metrics) /\ Append(buf_, m) # << >>
        /\ << m >> \in Seq(Metrics) /\ << m >> # << >> /\ Append(<< >>, m) = << m >>
        /\ Append(added, m) \in Seq(Metrics)
        /\ Append(added, m) = added \o << m >>
        /\ Append(added, m) = delivered \o Append(buf_, m)
        /\ Append(added, m) \o << >> = Append(added, m)
    <2>0. ASSUME NEW s \in Seq(Metrics), NEW t \in Seq(Metrics)
          PROVE  Append(s \o t, m) = s \o Append(t, m)
      <3>1. << m >> \in Seq(Metrics) /\ s \o t \in Seq(Metrics)
        BY <1>m
      <3>2. Append(s \o t, m) = (s \o t) \o << m >>
        BY <1>m, <3>1, AppendIsConcat
      <3>3. Append(t, m) = t \o << m >>
        BY <1>m, AppendIsConcat
      <3>4. (s \o t) \o << m >> = s \o (t \o << m >>)
        BY <3>1, ConcatAssociative
      <3> QED BY <3>2, <3>3, <3>4, Zenon
    <2>1. /\ Append(buf_, m) \in Seq(Metrics) /\ Append(buf_, m) # << >>
          /\ Append(delivered \o buf_, m) = delivered \o Append(buf_, m)
      <3>1. Append(buf_, m) \in Seq(Metrics) /\ Append(buf_, m) # << >>
        BY <1>a, <1>m, SequenceFacts
      <3>2. Append(delivered \o buf_, m) = delivered \o Append(buf_, m)
        BY <1>a, <2>0, Zenon
      <3> QED BY <3>1, <3>2
    <2>2. << m >> \in Seq(Metrics) /\ << m >> # << >> /\ Append(<< >>, m) = << m >>
      BY <1>a, <1>m, SequenceFacts
    <2>3. Append(added, m) \in Seq(Metrics) /\ Append(added, m) = added \o << m >>
      BY <1>a, <1>m, SequenceFacts
    <2>4. Append(added, m) \o << >> = Append(added, m)
      BY <2>3, ConcatEmptySeq
    <2> QED BY <2>1, <2>2, <2>3, <2>4, <1>a
  <1>1. /\ b1.buf = IF Full THEN << >> ELSE buf_
        /\ b1.size = IF Full THEN 0 ELSE buf_size_
        /\ b1.sent = IF Full THEN delivered \o buf_ ELSE delivered
        /\ b1.timer = IF Full THEN FALSE ELSE timer_
    BY DEF send_now, Batch
  <1>2. DOMAIN b1 = { "buf", "size", "timer", "sent" }
    BY DEF send_now, Batch
  <1> HIDE DEF b1, Full
  <1>3. /\ b2.buf = Append(b1.buf, m) /\ b2.size = b1.size + SizeOf[m]
        /\ b2.timer = b1.timer /\ b2.sent = b1.sent
        /\ DOMAIN b2 = { "buf", "size", "timer", "sent" }
    BY <1>2 DEF push_back
  <1> HIDE DEF b2
  <1>4. /\ b3.buf = IF b2.size = MAX_BUF_SIZE THEN << >> ELSE b2.buf
        /\ b3.size = IF b2.size = MAX_BUF_SIZE THEN 0 ELSE b2.size
        /\ b3.sent = IF b2.size = MAX_BUF_SIZE THEN b2.sent \o b2.buf ELSE b2.sent
        /\ b2.size # MAX_BUF_SIZE => b3.timer = b2.timer
        /\ DOMAIN b3 = { "buf", "size", "timer", "sent" }
    BY <1>3 DEF send_now
  <1>5. b3.timer \in BOOLEAN
    <2>1. b1.timer \in BOOLEAN
      BY <1>1, <1>t DEF InstrumenterTypeOK
    <2>2. b2.timer \in BOOLEAN
      BY <2>1, <1>3
    <2> QED BY <2>2 DEF send_now
  <1> HIDE DEF b3
  <1>6. /\ b4.buf = b3.buf /\ b4.size = b3.size /\ b4.sent = b3.sent
        /\ b3.size = SizeOf[m] => b4.timer = TRUE
        /\ b3.size # SizeOf[m] => b4.timer = b3.timer
    BY <1>4 DEF start_timer
  <1> HIDE DEF b4
  <1>7. buf_' \in Seq(Metrics) /\ delivered' \in Seq(Metrics) /\ buf_size_' \in Nat
    BY <1>1, <1>3, <1>4, <1>6, <1>a, <1>b, <1>f, <1>m, <1>s DEF Full
  <1>8. timer_' \in BOOLEAN
    BY <1>5, <1>6, <1>b
  <1>9. /\ (buf_' = << >>) <=> (buf_size_' = 0)
        /\ buf_size_' <= MAX_BUF_SIZE
    <2>1. b1.size \in Nat /\ b1.size + SizeOf[m] <= MAX_BUF_SIZE
      BY <1>1, <1>a, <1>s DEF Full
    <2>2. b2.size \in Nat /\ b2.size # 0 /\ b2.size <= MAX_BUF_SIZE
      BY <2>1, <1>3, <1>s
    <2>3. b2.buf # << >>
      BY <1>1, <1>3, <1>f
    <2> QED BY <2>2, <2>3, <1>4, <1>6, <1>b, <1>s
  <1>10. added' = delivered' \o buf_'
    BY <1>1, <1>3, <1>4, <1>6, <1>a, <1>b, <1>f, <1>m DEF Full
  <1>11. buf_' # << >> => timer_' \/ timeouts' > 0
    <2> SUFFICES ASSUME buf_' # << >> PROVE timer_' \/ timeouts' > 0
      OBVIOUS
    <2>1. b2.size # MAX_BUF_SIZE /\ b3.size = b2.size
      BY <1>4, <1>6, <1>b
    <2>2. CASE b3.size = SizeOf[m]
      BY <2>2, <1>6, <1>b
    <2>3. CASE b3.size # SizeOf[m]
      <3>1. b1.size # 0
        BY <2>1, <2>3, <1>3, <1>s
      <3>2. ~Full /\ buf_size_ # 0
        BY <3>1, <1>1
      <3>3. b1.timer = timer_
        BY <3>2, <1>1
      <3>4. timer_' = timer_
        BY <2>1, <2>3, <3>3, <1>3, <1>4, <1>6, <1>b
      <3> QED BY <3>2, <3>4, <1>n, <1>m
    <2> QED BY <2>2, <2>3
  <1>12. InstrumenterTypeOK'
    BY <1>7, <1>8, <1>m, <1>a, <1>f DEF InstrumenterTypeOK
  <1> QED
    BY <1>9, <1>10, <1>11, <1>12 DEF BatchInv, EmptyMeansZero, BatchRight, Conserved, Nagled, DatagramFits

\* The timer runs out: its handler is queued in its place.
LEMMA TimerExpiresKeeps ==
    ASSUME BatchInv, TimerExpires
    PROVE  BatchInv'
  <1>1. timer_' \in BOOLEAN
    BY Zenon DEF TimerExpires
  <1>2. timeouts' \in Nat /\ timeouts' > 0
    BY DEF TimerExpires, BatchInv, InstrumenterTypeOK
  <1>3. InstrumenterTypeOK'
    BY <1>1, <1>2 DEF TimerExpires, BatchInv, InstrumenterTypeOK
  <1>4. EmptyMeansZero' /\ Conserved' /\ DatagramFits'
    BY DEF TimerExpires, BatchInv, EmptyMeansZero, BatchRight, Conserved, DatagramFits
  <1>5. Nagled'
    BY <1>2 DEF Nagled
  <1> QED BY <1>3, <1>4, <1>5 DEF BatchInv, BatchRight

\* Any handler that is queued flushes what there is.
LEMMA TimeoutKeeps ==
    ASSUME BatchInv, handle_nagle_timeout
    PROVE  BatchInv'
  <1>1. /\ buf_' = << >> /\ buf_size_' = 0 /\ timer_' = FALSE /\ delivered' = delivered \o buf_
        /\ timeouts > 0 /\ timeouts' = timeouts - 1 /\ inbox' = inbox /\ added' = added
    BY DEF handle_nagle_timeout, Becomes, send_now, Batch
  <1>2. delivered \o buf_ \in Seq(Metrics) /\ added = delivered \o buf_ /\ timeouts \in Nat
    BY DEF BatchInv, InstrumenterTypeOK, BatchRight, Conserved
  <1>3. delivered' \o << >> = delivered'
    BY <1>1, <1>2
  <1>4. InstrumenterTypeOK'
    <2>1. timer_' \in BOOLEAN
      BY Zenon, <1>1
    <2>2. buf_' \in Seq(Metrics)
      BY <1>1, EmptySeq
    <2>3. buf_size_' \in Nat /\ timeouts' \in Nat
      BY <1>1, <1>2
    <2> QED BY <1>1, <1>2, <2>1, <2>2, <2>3 DEF BatchInv, InstrumenterTypeOK
  <1>5. EmptyMeansZero' /\ Nagled' /\ DatagramFits'
    BY <1>1, InstrumenterAssumption DEF EmptyMeansZero, Nagled, DatagramFits
  <1>6. Conserved'
    BY <1>1, <1>2, <1>3 DEF Conserved
  <1> QED BY <1>4, <1>5, <1>6 DEF BatchInv, BatchRight

-----------------------------------------------------------------------------
(* The gateway.                                                            *)

IntakeInv ==
    /\ running \in BOOLEAN /\ waiting \in 0 .. MaxDatagrams
    /\ BalancerInv /\ FrameInv

LEMMA IntakeInitial == IntakeInit => IntakeInv
  <1> SUFFICES ASSUME IntakeInit PROVE IntakeInv
    OBVIOUS
  <1>1. waiting \in 0 .. MaxDatagrams
    BY IntakeAssumption DEF IntakeInit, udp_dnsspeaker
  <1>2. running \in BOOLEAN
    BY DEF IntakeInit
  <1> QED BY <1>1, <1>2, BalancerInitial, FrameInitial DEF IntakeInv

LEMMA IntakeStep == IntakeInv /\ IntakeNext => IntakeInv'
  <1> SUFFICES ASSUME IntakeInv, IntakeNext PROVE IntakeInv'
    OBVIOUS
  <1>1. BalancerInv /\ FrameInv /\ pc \in [Receivers -> Stage]
    BY DEF IntakeInv, FrameInv, FrameTypeOK
  <1>2. "udp" \in Receivers /\ "udp" \notin Conns /\ Conns \subseteq Receivers
    BY IntakeAssumption DEF Receivers
  <1>3. ASSUME NEW h \in Proxies, handle_resolve(h) PROVE IntakeInv'
    <2>1. BalancerInv'
      BY <1>1, <1>3, ResolveKeepsBalancer
    <2>2. FrameInv'
      BY <1>1, <1>3, OthersKeepFrame DEF handle_resolve
    <2>3. running' = running /\ waiting' = waiting
      BY <1>3 DEF handle_resolve
    <2> QED BY <2>1, <2>2, <2>3 DEF IntakeInv
  <1>4. ASSUME NEW r \in Receivers, process_query(r) PROVE IntakeInv'
    <2>1. BalancerInv'
      BY <1>1, <1>4, ProcessQueryKeepsBalancer
    <2>2. pc' \in [Receivers -> Stage]
      BY <2>1 DEF BalancerInv, BalancerTypeOK
    <2>3. \A c \in Conns : \/ pc'[c] = pc[c]
                           \/ pc[c] \in { "accept", "select" } /\ pc'[c] \in { "length", "select" }
      BY <1>1, <1>2, <1>4 DEF process_query
    <2>4. UNCHANGED tcp /\ running' = running /\ waiting' = waiting
      BY <1>4 DEF process_query
    <2>5. FrameInv'
      BY <1>1, <2>2, <2>3, <2>4, OthersKeepFrame
    <2> QED BY <2>1, <2>4, <2>5 DEF IntakeInv
  <1>5. ASSUME ProxyCompletes PROVE IntakeInv'
    <2>1. BalancerInv'
      BY <1>1, <1>5, ProxyCompletesKeepsBalancer
    <2>2. FrameInv'
      BY <1>1, <1>5, OthersKeepFrame DEF ProxyCompletes
    <2>3. running' = running /\ waiting' = waiting
      BY <1>5 DEF ProxyCompletes
    <2> QED BY <2>1, <2>2, <2>3 DEF IntakeInv
  <1>6. ASSUME handle_datagram_received PROVE IntakeInv'
    <2>1. waiting' \in 0 .. MaxDatagrams /\ running' = running /\ UNCHANGED tcp
      BY <1>6, IntakeAssumption DEF handle_datagram_received, IntakeInv
    <2>2. CASE UNCHANGED << pc, balancer >>
      <3>1. BalancerInv'
        BY <1>1, <2>2, OthersKeepBalancer
      <3>2. FrameInv'
        BY <1>1, <2>1, <2>2, OthersKeepFrame
      <3> QED BY <2>1, <3>1, <3>2 DEF IntakeInv
    <2>3. CASE Sane("udp")
      <3>1. pc["udp"] # "select"
        BY <1>6 DEF handle_datagram_received
      <3>2. BalancerInv'
        BY <1>1, <1>2, <2>3, <3>1, SaneKeepsBalancer
      <3>3. pc' \in [Receivers -> Stage] /\ \A c \in Conns : pc'[c] = pc[c]
        BY <1>1, <1>2, <2>3 DEF Sane, Stage
      <3>4. FrameInv'
        BY <1>1, <2>1, <3>3, OthersKeepFrame
      <3> QED BY <2>1, <3>2, <3>4 DEF IntakeInv
    <2> QED BY <1>6, <2>2, <2>3 DEF handle_datagram_received
  <1>7. ASSUME NEW c \in Conns, handle_accept(c) PROVE IntakeInv'
    <2>1. UNCHANGED balancer /\ UNCHANGED tcp /\ waiting' = waiting
      BY <1>7 DEF handle_accept
    <2>2. running' \in BOOLEAN
      BY <1>7 DEF handle_accept, IntakeInv
    <2>3. /\ pc' \in [Receivers -> Stage]
          /\ \A r \in Receivers : \/ pc'[r] = pc[r]
                                  \/ pc[r] = "accept" /\ pc'[r] = "length"
      BY <1>1, <1>2, <1>7 DEF handle_accept, Stage
    <2>4. BalancerInv'
      BY <1>1, <2>1, <2>3, OthersKeepBalancer
    <2>5. FrameInv'
      BY <1>1, <1>2, <2>1, <2>3, OthersKeepFrame
    <2> QED BY <2>1, <2>2, <2>4, <2>5 DEF IntakeInv
  <1>8. ASSUME NEW c \in Conns, handle_msg_len_read(c) PROVE IntakeInv'
    <2>1. FrameInv'
      BY <1>1, <1>8, LengthKeepsFrame
    <2>2. UNCHANGED balancer /\ waiting' = waiting /\ running' = running
      BY <1>8 DEF handle_msg_len_read
    <2>3. pc[c] = "length" /\ \/ pc' = [pc EXCEPT ![c] = "closed"]
                              \/ pc' = [pc EXCEPT ![c] = "body"]
      BY <1>8 DEF handle_msg_len_read, Gone
    <2>4. \A r \in Receivers : pc'[r] = "select" <=> pc[r] = "select"
      BY <1>1, <2>3
    <2>5. BalancerInv'
      BY <1>1, <2>1, <2>2, <2>4, OthersKeepBalancer DEF FrameInv, FrameTypeOK
    <2> QED BY <2>1, <2>2, <2>5 DEF IntakeInv
  <1>9. ASSUME NEW c \in Conns, handle_query_read(c) PROVE IntakeInv'
    <2>1. FrameInv'
      BY <1>1, <1>9, BodyKeepsFrame
    <2>2. waiting' = waiting /\ running' = running /\ pc[c] = "body"
      BY <1>9 DEF handle_query_read
    <2>3. CASE UNCHANGED balancer /\ \/ pc' = [pc EXCEPT ![c] = "closed"]
                                     \/ pc' = [pc EXCEPT ![c] = "length"]
      <3>1. \A r \in Receivers : pc'[r] = "select" <=> pc[r] = "select"
        BY <1>1, <2>2, <2>3
      <3>2. BalancerInv'
        BY <1>1, <2>1, <2>3, <3>1, OthersKeepBalancer DEF FrameInv, FrameTypeOK
      <3> QED BY <2>1, <2>2, <3>2 DEF IntakeInv
    <2>4. CASE Sane(c)
      <3>1. BalancerInv'
        BY <1>1, <1>2, <2>2, <2>4, SaneKeepsBalancer
      <3> QED BY <2>1, <2>2, <3>1 DEF IntakeInv
    <2> QED BY <1>9, <2>3, <2>4 DEF handle_query_read, Gone
  <1>10. ASSUME NEW c \in Conns, ReadFails(c) PROVE IntakeInv'
    <2>1. FrameInv'
      BY <1>1, <1>10, GoneKeepsFrame DEF ReadFails
    <2>2. UNCHANGED balancer /\ waiting' = waiting /\ running' = running
      BY <1>10 DEF ReadFails
    <2>3. \A r \in Receivers : pc'[r] = "select" <=> pc[r] = "select"
      BY <1>1, <1>10 DEF ReadFails, Gone
    <2>4. BalancerInv'
      BY <1>1, <2>1, <2>2, <2>3, OthersKeepBalancer DEF FrameInv, FrameTypeOK
    <2> QED BY <2>1, <2>2, <2>4 DEF IntakeInv
  <1> QED BY <1>3, <1>4, <1>5, <1>6, <1>7, <1>8, <1>9, <1>10 DEF IntakeNext

LEMMA IntakeStutter == IntakeInv /\ UNCHANGED nvars => IntakeInv'
  <1> SUFFICES ASSUME IntakeInv, UNCHANGED nvars PROVE IntakeInv'
    OBVIOUS
  <1>1. UNCHANGED << pc, balancer, tcp, running, waiting >>
    BY DEF nvars, balancer, tcp
  <1>2. pc \in [Receivers -> Stage]
    BY DEF IntakeInv, FrameInv, FrameTypeOK
  <1>3. BalancerInv'
    BY <1>1, <1>2, OthersKeepBalancer DEF IntakeInv
  <1>4. FrameInv'
    BY <1>1, <1>2, OthersKeepFrame DEF IntakeInv
  <1> QED BY <1>1, <1>3, <1>4 DEF IntakeInv

\* The invariant of the whole gateway: the intake's and the instrumenter's.
LEMMA GatewayInductive ==
    /\ Init => IntakeInv /\ BatchInv
    /\ IntakeInv /\ BatchInv /\ [Next]_vars => (IntakeInv /\ BatchInv)'
  <1>1. Init => IntakeInv /\ BatchInv
    BY IntakeInitial, BatchInit DEF Init
  <1>2. ASSUME IntakeInv, BatchInv, IntakeNext, Instrumented PROVE (IntakeInv /\ BatchInv)'
    <2>1. IntakeInv'
      BY <1>2, IntakeStep
    <2>2. completed' \subseteq Queries
      BY <2>1, IntakeAssumption DEF IntakeInv, BalancerInv, BalancerTypeOK, Numbered, Queries
    <2>3. CASE UNCHANGED ivars
      <3>1. BatchInv'
        BY <1>2, <2>3 DEF ivars, BatchInv, InstrumenterTypeOK, EmptyMeansZero, BatchRight, Conserved, Nagled,
                          DatagramFits
      <3> QED BY <2>1, <3>1
    <2>4. CASE \E q \in completed' : do_add_metric(q)
      <3>1. PICK q \in Metrics : do_add_metric(q)
        BY <2>2, <2>4, GatewayAssumption
      <3>2. BatchInv'
        BY <1>2, <3>1, AddMetricKeeps
      <3> QED BY <2>1, <3>2
    <2> QED BY <1>2, <2>3, <2>4 DEF Instrumented
  <1>3. ASSUME IntakeInv, BatchInv, Instrument PROVE (IntakeInv /\ BatchInv)'
    <2>1. IntakeInv'
      BY <1>3, IntakeStutter DEF Instrument
    <2>2. BatchInv'
      BY <1>3, RunAddMetricKeeps, TimerExpiresKeeps, TimeoutKeeps DEF Instrument, InstrumenterStep
    <2> QED BY <2>1, <2>2
  <1>4. ASSUME IntakeInv, BatchInv, UNCHANGED vars PROVE (IntakeInv /\ BatchInv)'
    <2>1. IntakeInv'
      BY <1>4, IntakeStutter DEF vars
    <2>2. BatchInv'
      BY <1>4 DEF vars, ivars, BatchInv, InstrumenterTypeOK, EmptyMeansZero, BatchRight, Conserved, Nagled,
                  DatagramFits
    <2> QED BY <2>1, <2>2
  <1> QED BY <1>1, <1>2, <1>3, <1>4 DEF Next

LEMMA IntakeInvSuffices == IntakeInv => IntakeRight
  <1> SUFFICES ASSUME IntakeInv PROVE IntakeRight
    OBVIOUS
  <1>1. BalancerTypeOK /\ Numbered /\ RefusedOnlyIfNoneUp /\ FrameTypeOK /\ RoundRobin
    BY Dealt DEF IntakeInv, BalancerInv, FrameInv
  <1>2. offset_ \in Nat /\ admitted \subseteq Queries
    BY <1>1, IntakeAssumption DEF Numbered, Queries
  <1>3. IntakeTypeOK
    BY <1>1, <1>2 DEF IntakeInv, IntakeTypeOK, BalancerTypeOK, FrameTypeOK, Stage
  <1>4. Framed
    BY DEF IntakeInv, FrameInv, Aligned, Framed
  <1> QED BY <1>1, <1>3, <1>4 DEF IntakeRight

\* IntakeRight: for any number of threads, proxies and queries, the loop of
\* ha_load_balancer::process_query refuses a query only if no proxy was up when
\* it came, queries are dealt to the proxies in turn, and a TCP connection looks
\* for a length field only where there is one.
THEOREM IntakeCorrect == Spec => []IntakeRight
  BY GatewayInductive, IntakeInvSuffices, PTL DEF Spec

\* BatchRight: no metric is lost, repeated or reordered on its way into the
\* datagrams, no datagram is too long, and none waits without a timer, however
\* add_metric_ and late nagle handlers interleave (instrumenter.cpp).
THEOREM BatchCorrect == Spec => []BatchRight
  <1>1. BatchInv => BatchRight
    BY DEF BatchInv
  <1> QED BY GatewayInductive, <1>1, PTL DEF Spec

-----------------------------------------------------------------------------
(* The reply path of the speakers: any number of queries and completions,  *)
(* any buffer size and, unless said otherwise, any unwritable replies.     *)

\* An outstanding send excludes a second one (the flag is set) and the send
\* buffer still holds its reply.
BufferOwned == sending # NoQuery => send_in_progress /\ send_buf = sending

\* The inductive invariant: what completes is typed and unmixed because the
\* buffer is owned while a send is outstanding.
SpeakerInv == TypeOK /\ BufferOwned /\ NoMixedReplies

\* The invariant is inductive: send_reply_ refills the send buffer only when
\* the flag is clear, and handle_send_reply only after the send completed.
LEMMA SpeakerInvariance == SpeakerSpec => []SpeakerInv
<1> USE DnsSpeakerAssumption
<1>1. SpeakerInit => SpeakerInv
    <2> SUFFICES ASSUME SpeakerInit PROVE SpeakerInv
        OBVIOUS
    <2>1. completions \in [Query -> 0 .. MaxCompletions]
        BY DEF SpeakerInit
    <2>2. Len(reply_buf) <= BufSize
        BY DEF SpeakerInit
    <2>3. strand \in Seq(Query) /\ reply_buf \in Seq(Query) /\ sent \in Seq(Send)
        BY DEF SpeakerInit
    <2>4. TypeOK
        BY <2>1, <2>2, <2>3 DEF SpeakerInit, TypeOK
    <2>5. BufferOwned /\ NoMixedReplies
        BY DEF SpeakerInit, BufferOwned, NoMixedReplies
    <2> QED BY <2>4, <2>5 DEF SpeakerInv
<1>2. SpeakerInv /\ [SpeakerNext]_svars => SpeakerInv'
    <2> SUFFICES ASSUME SpeakerInv, [SpeakerNext]_svars PROVE SpeakerInv'
        OBVIOUS
    <2> USE DEF SpeakerInv
    <2>1. ASSUME NEW q \in Query, send_reply(q) PROVE SpeakerInv'
        <3>1. TypeOK'
            BY <2>1 DEF TypeOK, send_reply
        <3> QED BY <2>1, <3>1 DEF send_reply, BufferOwned, NoMixedReplies
    <2>2. CASE send_reply_
        <3>1. Head(strand) \in Query /\ Tail(strand) \in Seq(Query)
            BY <2>2 DEF TypeOK, send_reply_
        <3> DEFINE q == Head(strand)
        <3>a. \/ /\ reply_buf' = reply_buf /\ dropped' = dropped + 1
                 /\ UNCHANGED <<send_in_progress, send_buf, sending, io_running>>
              \/ /\ Len(reply_buf) < BufSize /\ reply_buf' = Append(reply_buf, q)
                 /\ UNCHANGED <<send_in_progress, send_buf, sending, dropped, io_running>>
              \/ /\ StartSend(q)
                 /\ UNCHANGED <<reply_buf, dropped, io_running>>
              \/ /\ ~send_in_progress
                 /\ \E caught \in BOOLEAN : ComposeThrows(q, caught)
                 /\ UNCHANGED <<reply_buf, dropped>>
            BY <2>2 DEF send_reply_
        <3> HIDE DEF q
        <3>b. q \in Query
            BY <3>1 DEF q
        <3>2. reply_buf' \in Seq(Query) /\ Len(reply_buf') <= BufSize
            <4>1. Append(reply_buf, q) \in Seq(Query) /\ Len(Append(reply_buf, q)) = Len(reply_buf) + 1
                  /\ Len(reply_buf) \in Nat /\ reply_buf \in Seq(Query)
                BY <3>b DEF TypeOK
            <4>2. reply_buf' = reply_buf \/ (Len(reply_buf) < BufSize /\ reply_buf' = Append(reply_buf, q))
                BY <3>a
            <4>3. CASE reply_buf' = reply_buf
                BY <4>3 DEF TypeOK
            <4>4. CASE Len(reply_buf) < BufSize /\ reply_buf' = Append(reply_buf, q)
                BY <4>1, <4>4
            <4> QED BY <4>2, <4>3, <4>4
        <3>3. dropped' \in Nat
            <4>1. dropped' = dropped \/ dropped' = dropped + 1
                BY <3>a
            <4> QED BY <4>1 DEF TypeOK
        <3>4. /\ send_in_progress' \in BOOLEAN
              /\ io_running' \in BOOLEAN
              /\ send_buf' \in Query \cup {NoQuery}
              /\ sending' \in Query \cup {NoQuery}
            BY <3>a, <3>b DEF TypeOK, StartSend, ComposeThrows
        <3>5. TypeOK'
            BY <2>2, <3>1, <3>2, <3>3, <3>4 DEF TypeOK, send_reply_
        <3>6. BufferOwned'
            BY <3>a, <3>b DEF BufferOwned, StartSend, ComposeThrows
        <3>7. NoMixedReplies'
            BY <2>2 DEF NoMixedReplies, send_reply_
        <3> QED BY <3>5, <3>6, <3>7
    <2>3. CASE handle_send_reply
        <3> DEFINE r == [to |-> sending, body |-> send_buf]
        <3>1. r \in Send /\ r.to = r.body /\ sent' = Append(sent, r)
            BY <2>3 DEF TypeOK, BufferOwned, handle_send_reply, Send
        <3> HIDE DEF r
        <3>2. sent' \in Seq(Send) /\ NoMixedReplies'
            BY <3>1 DEF TypeOK, NoMixedReplies
        <3>3. reply_buf # << >> => Head(reply_buf) \in Query /\ Tail(reply_buf) \in Seq(Query)
                                   /\ Len(Tail(reply_buf)) <= BufSize
            BY DEF TypeOK
        <3>4. /\ reply_buf' \in Seq(Query) /\ Len(reply_buf') <= BufSize
              /\ send_buf' \in Query \cup {NoQuery}
              /\ sending' \in Query \cup {NoQuery}
            BY <2>3, <3>3 DEF TypeOK, handle_send_reply, StartSend
        <3>5. send_in_progress' \in BOOLEAN /\ io_running' \in BOOLEAN
            BY <2>3 DEF TypeOK, handle_send_reply, StartSend
        <3>6. BufferOwned'
            BY <2>3, <3>3 DEF BufferOwned, handle_send_reply, StartSend
        <3>7. TypeOK'
            BY <2>3, <3>2, <3>4, <3>5 DEF TypeOK, handle_send_reply
        <3> QED BY <3>2, <3>6, <3>7
    <2>4. CASE UNCHANGED svars
        BY <2>4 DEF TypeOK, BufferOwned, NoMixedReplies, svars
    <2> QED BY <2>1, <2>2, <2>3, <2>4 DEF SpeakerNext
<1> QED BY <1>1, <1>2, PTL DEF SpeakerSpec

\* The reply buffer never exceeds its capacity and every variable keeps its
\* type, whatever the order of completions and sends.
THEOREM SpeakerTypeCorrect == SpeakerSpec => []TypeOK
BY SpeakerInvariance, PTL DEF SpeakerInv

\* Whatever is sent to a client is the reply to its own query: the shared send
\* buffer is never refilled under an outstanding send, exceptions included.
THEOREM RepliesUnmixed == SpeakerSpec => []NoMixedReplies
BY SpeakerInvariance, PTL DEF SpeakerInv

-----------------------------------------------------------------------------
(* When every reply can be written.                                        *)

\* The flag is exact and replies wait only behind a send.
Busy ==
    /\ send_in_progress <=> sending # NoQuery
    /\ sending = NoQuery => reply_buf = << >>

\* Busy is inductive when compose_dns_response never throws.
LEMMA BusyInvariance == ASSUME Unwritable = {} PROVE SpeakerSpec => []Busy
<1> USE DnsSpeakerAssumption
<1>1. SpeakerInit => Busy
    BY DEF SpeakerInit, Busy
<1>2. SpeakerInv /\ Busy /\ [SpeakerNext]_svars => Busy'
    <2> SUFFICES ASSUME SpeakerInv, Busy, [SpeakerNext]_svars
                 PROVE  Busy'
        OBVIOUS
    <2> USE DEF Busy
    <2>1. ASSUME NEW q \in Query, send_reply(q) PROVE Busy'
        BY <2>1 DEF send_reply
    <2>2. CASE send_reply_
        <3>1. Head(strand) \in Query
            BY <2>2 DEF SpeakerInv, TypeOK, send_reply_
        <3>2. CASE send_in_progress
            BY <2>2, <3>2 DEF send_reply_
        <3>3. CASE ~send_in_progress
            <4>1. StartSend(Head(strand)) /\ UNCHANGED reply_buf
                BY <2>2, <3>1, <3>3 DEF send_reply_
            <4> QED BY <3>1, <4>1 DEF StartSend
        <3> QED BY <3>2, <3>3
    <2>3. CASE handle_send_reply
        <3>1. reply_buf # << >> => Head(reply_buf) \in Query
            BY DEF SpeakerInv, TypeOK
        <3>2. CASE reply_buf = << >>
            BY <2>3, <3>2 DEF handle_send_reply
        <3>3. CASE reply_buf # << >>
            BY <2>3, <3>1, <3>3 DEF handle_send_reply, StartSend
        <3> QED BY <3>2, <3>3
    <2>4. CASE UNCHANGED svars
        BY <2>4 DEF svars
    <2> QED BY <2>1, <2>2, <2>3, <2>4 DEF SpeakerNext
<1> QED BY <1>1, <1>2, SpeakerInvariance, PTL DEF SpeakerSpec

\* send_in_progress_ is set exactly while a send is outstanding, provided that
\* every reply can be written.
THEOREM FlagIsExact == ASSUME Unwritable = {} PROVE SpeakerSpec => []FlagMeansSending
<1>1. Busy => FlagMeansSending
    BY DEF Busy, FlagMeansSending
<1> QED BY <1>1, BusyInvariance, PTL

\* What Append, Head and Tail do to a sequence with one more element in front.
LEMMA ConsFacts ==
    ASSUME NEW T, NEW s \in Seq(T), NEW a \in T, NEW b \in T
    PROVE  /\ <<a>> \o Append(s, b) = Append(<<a>> \o s, b)
           /\ Len(<<a>> \o s) = 1 + Len(s)
           /\ Head(<<a>> \o s) = a
           /\ Tail(<<a>> \o s) = s
           /\ <<a>> \o s # << >>
           /\ << >> \o s = s
           /\ s # << >> => <<Head(s)>> \o Tail(s) = s
OBVIOUS

\* The reply path implements the bounded FIFO of ReplyChannel with one place
\* more than reply_buf_ has: order is kept, nothing is duplicated, and a reply
\* is dropped only when the channel is full, provided that every reply can be
\* written.
THEOREM ChannelImplemented == ASSUME Unwritable = {} PROVE SpeakerSpec => ImplementsChannel
<1> USE DnsSpeakerAssumption
<1> DEFINE Q == (IF sending = NoQuery THEN << >> ELSE <<sending>>) \o reply_buf
           S == [k \in DOMAIN sent |-> sent[k].to]
<1>1. SpeakerInit => ToChannel!Init
    BY DEF SpeakerInit, ToChannel!Init
<1>2. SpeakerInv /\ Busy /\ [SpeakerNext]_svars => [ToChannel!Next]_(ToChannel!vars)
    <2> SUFFICES ASSUME SpeakerInv, Busy, [SpeakerNext]_svars
                 PROVE  [ToChannel!Next]_(ToChannel!vars)
        OBVIOUS
    <2>0. reply_buf \in Seq(Query) /\ sending \in Query \cup {NoQuery}
        BY DEF SpeakerInv, TypeOK
    <2>1. ASSUME NEW q \in Query, send_reply(q) PROVE UNCHANGED ToChannel!vars
        BY <2>1 DEF send_reply, ToChannel!vars
    <2>2. CASE send_reply_
        <3> DEFINE q == Head(strand)
        <3>1. q \in Query
            BY <2>2 DEF SpeakerInv, TypeOK, send_reply_
        <3>2. UNCHANGED sent
            BY <2>2 DEF send_reply_
        <3>3. CASE send_in_progress /\ Len(reply_buf) = BufSize
            <4>1. sending \in Query /\ Q = <<sending>> \o reply_buf
                BY <2>0, <3>3 DEF Busy
            <4>2. Len(Q) = BufSize + 1
                BY <2>0, <3>3, <4>1, ConsFacts
            <4>a. dropped' = dropped + 1 /\ UNCHANGED <<sending, reply_buf>>
                <5>1. ~(Len(reply_buf) < BufSize)
                    BY <3>3, <2>0
                <5> QED BY <2>2, <3>3, <5>1 DEF send_reply_
            <4>3. dropped' = dropped + 1 /\ Q' = Q /\ S' = S
                BY <3>2, <4>a
            <4>4. ToChannel!Drop
                BY <4>2, <4>3 DEF ToChannel!Drop
            <4> QED BY <4>4 DEF ToChannel!Next
        <3>4. CASE send_in_progress /\ Len(reply_buf) # BufSize
            <4>1. sending \in Query /\ Q = <<sending>> \o reply_buf
                BY <2>0, <3>4 DEF Busy
            <4>2. Len(reply_buf) < BufSize /\ reply_buf' = Append(reply_buf, q)
                  /\ UNCHANGED <<sending, dropped>>
                BY <2>2, <3>4 DEF send_reply_
            <4>3. Q' = Append(Q, q) /\ Len(Q) < BufSize + 1
                BY <2>0, <3>1, <4>1, <4>2, ConsFacts
            <4>4. ToChannel!Accept(q)
                BY <3>2, <4>2, <4>3 DEF ToChannel!Accept
            <4> QED BY <3>1, <4>4 DEF ToChannel!Next
        <3>5. CASE ~send_in_progress
            <4>1. sending = NoQuery /\ reply_buf = << >>
                BY <3>5 DEF Busy
            <4>2. sending' = q /\ UNCHANGED <<reply_buf, dropped>>
                BY <2>2, <3>1, <3>5 DEF send_reply_, StartSend
            <4>3. Q = << >> /\ Q' = <<q>>
                BY <3>1, <4>1, <4>2
            <4>4. ToChannel!Accept(q)
                BY <3>2, <4>2, <4>3 DEF ToChannel!Accept
            <4> QED BY <3>1, <4>4 DEF ToChannel!Next
        <3> QED BY <3>3, <3>4, <3>5 DEF SpeakerInv, TypeOK
    <2>3. CASE handle_send_reply
        <3>1. sending \in Query /\ Q = <<sending>> \o reply_buf
            BY <2>0, <2>3 DEF handle_send_reply
        <3>2. Q # << >> /\ Head(Q) = sending /\ Tail(Q) = reply_buf
            BY <2>0, <3>1, ConsFacts
        <3>3. Q' = reply_buf
            <4>1. CASE reply_buf = << >>
                BY <2>3, <4>1 DEF handle_send_reply
            <4>2. CASE reply_buf # << >>
                <5>1. Head(reply_buf) \in Query
                    BY <2>0, <4>2
                <5>2. sending' = Head(reply_buf) /\ reply_buf' = Tail(reply_buf)
                    BY <2>3, <4>2, <5>1 DEF handle_send_reply, StartSend
                <5>3. <<Head(reply_buf)>> \o Tail(reply_buf) = reply_buf
                    BY <2>0, <4>2, <5>1, ConsFacts
                <5> QED BY <5>1, <5>2, <5>3
            <4> QED BY <4>1, <4>2
        <3>4. S' = Append(S, sending)
            <4>1. sent \in Seq(Send) /\ [to |-> sending, body |-> send_buf].to = sending
                BY DEF SpeakerInv, TypeOK
            <4>2. sent' = Append(sent, [to |-> sending, body |-> send_buf])
                BY <2>3 DEF handle_send_reply
            <4> QED BY <4>1, <4>2
        <3>5. ToChannel!Leave
            BY <2>3, <3>2, <3>3, <3>4 DEF ToChannel!Leave, handle_send_reply
        <3> QED BY <3>5 DEF ToChannel!Next
    <2>4. CASE UNCHANGED svars
        BY <2>4 DEF svars, ToChannel!vars
    <2> QED BY <2>1, <2>2, <2>3, <2>4 DEF SpeakerNext
<1> QED BY <1>1, <1>2, SpeakerInvariance, BusyInvariance, PTL DEF SpeakerSpec, ImplementsChannel, ToChannel!Spec
=============================================================================
