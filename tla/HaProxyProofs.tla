---------------------------- MODULE HaProxyProofs ----------------------------
(***************************************************************************)
(* Proofs about HaProxy, for any set of queries, any range of transaction  *)
(* ids and any number of receive connections.                              *)
(***************************************************************************)
EXTENDS HaProxy, SequenceTheorems, TLAPS

-----------------------------------------------------------------------------
(* The inductive invariant.                                                *)

\* A map entry is filed under its query's own id; a query has an id from the
\* moment it is received, and its timer starts after the constructor.
Bookkeeping ==
    /\ \A i \in Id : map[i] # NoQuery => id[map[i]] = i
    /\ \A q \in Query : id[q] = NoId <=> conn[q] = "new"
    /\ \A q \in Query : conn[q] \in {"new", "ctor"} => timer[q] = "idle"
    /\ \A q \in ha : conn[q] # "new"

IInv == TypeOK /\ Bookkeeping /\ Watched

LEMMA IdFacts == NoId \notin Id /\ Id \subseteq Sequence /\ 0 \in Id /\ MaxId + 1 \in Sequence
  BY HaProxyAssumption DEF Id, NoId, Sequence

LEMMA InitIInv == Init => IInv
  BY HaProxyAssumption, IdFacts DEF Init, IInv, TypeOK, Bookkeeping, Watched, InMap, TimerState, ConnState,
     Receiving, Free, Stage, Body

\* The updates of remove and complete_query keep their types.
LEMMA UpdateTypes ==
  ASSUME TypeOK, NEW i \in Id, NEW v, NEW tm \in [Query -> TimerState],
         NEW rc \in Rcode, NEW rs \in Result, NEW by \in Query
  PROVE  /\ Erase(i) \in [Id -> Query \cup {NoQuery}]
         /\ Cancel(tm, v) \in [Query -> TimerState]
         /\ Complete(v, rc, rs, by) \in [Query -> Seq(Reply)]
  <1>1. Erase(i) \in [Id -> Query \cup {NoQuery}]
    BY DEF Erase, TypeOK
  <1>2. Cancel(tm, v) \in [Query -> TimerState]
    BY DEF Cancel, TimerState
  <1>3. ASSUME NEW q \in Query
        PROVE  Append(replies[q], [rcode |-> rc, result |-> rs, by |-> by]) \in Seq(Reply)
    <2>1. replies[q] \in Seq(Reply)
      BY DEF TypeOK
    <2>2. [rcode |-> rc, result |-> rs, by |-> by] \in Reply
      BY DEF Reply
    <2> QED BY <2>1, <2>2, AppendProperties
  <1>4. Complete(v, rc, rs, by) \in [Query -> Seq(Reply)]
    BY <1>3 DEF Complete, TypeOK
  <1> QED BY <1>1, <1>2, <1>4

\* No step breaks the invariant: one case per handler.
LEMMA NextIInv == IInv /\ [Next]_vars => IInv'
  <1> SUFFICES ASSUME IInv, [Next]_vars
               PROVE  IInv'
    OBVIOUS
  <1> USE IdFacts, HaProxyAssumption
  <1>1. ASSUME NEW q \in Query, NEW i \in Id, NEW why \in Rejections, Reject(q, i, why)
        PROVE  IInv'
    <2>1. why[1] \in Rcode /\ why[2] \in Result
      BY DEF Rejections, Rcode, Result
    <2>2. TypeOK'
      BY <1>1, <2>1, UpdateTypes DEF IInv, Reject, TypeOK, ConnState
    <2>3. Bookkeeping'
      BY <1>1 DEF IInv, TypeOK, Bookkeeping, Reject
    <2>4. Watched'
      BY <1>1 DEF IInv, TypeOK, Bookkeeping, Watched, InMap, Reject
    <2> QED BY <2>2, <2>3, <2>4 DEF IInv
  <1>2. ASSUME NEW q \in Query, NEW i \in Id, DropDuplicate(q, i)
        PROVE  IInv'
    <2>1. TypeOK'
      BY <1>2 DEF IInv, DropDuplicate, TypeOK, ConnState
    <2>2. Bookkeeping'
      BY <1>2 DEF IInv, TypeOK, Bookkeeping, DropDuplicate
    <2>3. Watched'
      BY <1>2 DEF IInv, TypeOK, Bookkeeping, Watched, InMap, DropDuplicate
    <2> QED BY <2>1, <2>2, <2>3 DEF IInv
  <1>3. ASSUME NEW q \in Query, NEW i \in Id, Insert(q, i)
        PROVE  IInv'
    <2>1. TypeOK'
      BY <1>3 DEF IInv, Insert, TypeOK, ConnState
    <2>2. Bookkeeping'
      BY <1>3 DEF IInv, TypeOK, Bookkeeping, Insert
    <2>3. Watched'
      BY <1>3 DEF IInv, TypeOK, Bookkeeping, Watched, InMap, Insert
    <2> QED BY <2>1, <2>2, <2>3 DEF IInv
  <1>4. ASSUME NEW q \in Query, ArmAndStart(q)
        PROVE  IInv'
    <2>1. TypeOK'
      BY <1>4 DEF IInv, ArmAndStart, TypeOK, ConnState, TimerState
    <2>2. Bookkeeping'
      BY <1>4 DEF IInv, TypeOK, Bookkeeping, ArmAndStart
    <2>3. Watched'
      BY <1>4 DEF IInv, TypeOK, Bookkeeping, Watched, InMap, ArmAndStart, ConnState
    <2> QED BY <2>1, <2>2, <2>3 DEF IInv
  <1>5. ASSUME NEW q \in Query, Elapse(q) \/ Destroy(q)
        PROVE  IInv'
    <2>1. TypeOK'
      BY <1>5 DEF IInv, Elapse, Destroy, TypeOK, TimerState
    <2>2. Bookkeeping'
      BY <1>5 DEF IInv, TypeOK, Bookkeeping, Elapse, Destroy
    <2>3. Watched'
      BY <1>5 DEF IInv, TypeOK, Watched, InMap, Elapse, Destroy, ConnState
    <2> QED BY <2>1, <2>2, <2>3 DEF IInv
  <1>6. ASSUME NEW q \in Query, expire(q)
        PROVE  IInv'
    <2> DEFINE v == map[id[q]]
    <2>1. id[q] \in Id
      BY <1>6 DEF IInv, TypeOK, Bookkeeping, expire
    <2>2. [timer EXCEPT ![q] = "done"] \in [Query -> TimerState]
      BY DEF IInv, TypeOK, TimerState
    <2>3. "R_NAME_ERROR" \in Rcode /\ "TIMEOUT" \in Result
      BY DEF Rcode, Result
    <2>4. TypeOK'
      BY <1>6, <2>1, <2>2, <2>3, UpdateTypes DEF IInv, expire, TypeOK
    <2>5. Bookkeeping'
      BY <1>6, <2>1 DEF IInv, TypeOK, Bookkeeping, expire, Erase, Cancel
    <2>6. Watched'
      BY <1>6, <2>1 DEF IInv, TypeOK, Bookkeeping, Watched, InMap, expire, Erase, Cancel
    <2> QED BY <2>4, <2>5, <2>6 DEF IInv
  <1>7. ASSUME NEW q \in Query, Fail(q), conn[q] \in {"connecting", "writing"}
        PROVE  IInv'
    <2>1. id[q] \in Id
      BY <1>7 DEF IInv, TypeOK, Bookkeeping
    <2>2. "R_SERVER_FAILURE" \in Rcode /\ "HA_CONNECTION_ERROR" \in Result
      BY DEF Rcode, Result
    <2>3. timer \in [Query -> TimerState]
      BY DEF IInv, TypeOK
    <2>4. TypeOK'
      BY <1>7, <2>1, <2>2, <2>3, UpdateTypes DEF IInv, Fail, TypeOK, ConnState
    <2>5. Bookkeeping'
      BY <1>7, <2>1 DEF IInv, TypeOK, Bookkeeping, Fail, Erase, Cancel
    <2>6. Watched'
      BY <1>7, <2>1 DEF IInv, TypeOK, Bookkeeping, Watched, InMap, Fail, Erase, Cancel, ConnState
    <2> QED BY <2>4, <2>5, <2>6 DEF IInv
  <1>8. ASSUME NEW q \in Query, NEW ok \in BOOLEAN, handle_connect(q, ok)
        PROVE  IInv'
    <2>1. CASE ok
      <3>1. TypeOK'
        BY <1>8, <2>1 DEF IInv, handle_connect, TypeOK, ConnState
      <3>2. Bookkeeping'
        BY <1>8, <2>1 DEF IInv, TypeOK, Bookkeeping, handle_connect
      <3>3. Watched'
        BY <1>8, <2>1 DEF IInv, TypeOK, Watched, InMap, handle_connect, ConnState
      <3> QED BY <3>1, <3>2, <3>3 DEF IInv
    <2>2. CASE ~ok
      BY <1>7, <1>8, <2>2 DEF handle_connect
    <2> QED BY <2>1, <2>2
  <1>9. ASSUME NEW q \in Query, HaReceive(q)
        PROVE  IInv'
    <2>1. TypeOK'
      BY <1>9 DEF IInv, HaReceive, TypeOK, ConnState
    <2>2. Bookkeeping'
      BY <1>9 DEF IInv, TypeOK, Bookkeeping, HaReceive
    <2>3. Watched'
      BY <1>9 DEF IInv, TypeOK, Watched, InMap, HaReceive, ConnState
    <2> QED BY <2>1, <2>2, <2>3 DEF IInv
  <1>10. ASSUME NEW q \in Query, handle_query_sent(q)
         PROVE  IInv'
    <2>1. CASE conn[q] = "written"
      <3>1. TypeOK'
        BY <1>10, <2>1 DEF IInv, handle_query_sent, TypeOK, ConnState
      <3>2. Bookkeeping'
        BY <1>10, <2>1 DEF IInv, TypeOK, Bookkeeping, handle_query_sent
      <3>3. Watched'
        BY <1>10, <2>1 DEF IInv, TypeOK, Watched, InMap, handle_query_sent, ConnState
      <3> QED BY <3>1, <3>2, <3>3 DEF IInv
    <2>2. CASE conn[q] = "writing" /\ Fail(q)
      BY <1>7, <2>2
    <2> QED BY <1>10, <2>1, <2>2 DEF handle_query_sent
  <1>11. ASSUME NEW q \in Query, NEW c \in RecvConn, NEW body \in Body, HaAnswer(q, c, body)
         PROVE  IInv'
    <2>1. id[q] \in Id
      BY <1>11 DEF IInv, TypeOK, Bookkeeping, HaAnswer
    <2>2. PICK s \in Sequence : recv' = [recv EXCEPT ![c] =
                     [stage |-> "desthost", seq |-> s, about |-> q, body |-> body]]
      BY <1>11, <2>1 DEF HaAnswer
    <2>3. TypeOK'
      BY <1>11, <2>2 DEF IInv, HaAnswer, TypeOK, Receiving
    <2>4. Bookkeeping' /\ Watched'
      BY <1>11 DEF IInv, Bookkeeping, Watched, InMap, HaAnswer
    <2> QED BY <2>3, <2>4 DEF IInv
  <1>12. ASSUME NEW q \in Query, HaForget(q)
         PROVE  IInv'
    BY <1>12 DEF IInv, TypeOK, Bookkeeping, Watched, InMap, HaForget
  <1>13. ASSUME NEW c \in RecvConn,
                handle_read_to_desthostlen(c) \/ SkipFields(c) \/ CloseRecv(c)
         PROVE  IInv'
    <2>1. recv[c] \in Receiving
      BY DEF IInv, TypeOK
    <2>2. recv'[c] \in Receiving /\ recv' = [recv EXCEPT ![c] = recv'[c]]
      <3>1. CASE handle_read_to_desthostlen(c)
        <4>1. recv[c] \in [stage : {"desthost"}, seq : Sequence, about : Query, body : Body]
          BY <2>1, <3>1 DEF handle_read_to_desthostlen, Receiving, Free
        <4> DEFINE r == [recv[c] EXCEPT !.stage = "skip",
                                        !.seq = IF @ \in Id THEN @ ELSE 0]
        <4>2. r \in [stage : Stage \ {"free", "desthost"}, seq : Id, about : Query, body : Body]
          BY <4>1 DEF Stage
        <4>3. recv' = [recv EXCEPT ![c] = r] /\ recv'[c] = r
          BY <3>1 DEF IInv, TypeOK, handle_read_to_desthostlen
        <4> QED BY <4>2, <4>3 DEF Receiving
      <3>2. CASE SkipFields(c)
        <4>1. recv[c] \in [stage : Stage \ {"free", "desthost"}, seq : Id, about : Query, body : Body]
          BY <2>1, <3>2 DEF SkipFields, Receiving, Free
        <4> DEFINE r == [recv[c] EXCEPT !.stage = "devicename_len"]
        <4>2. r \in [stage : Stage \ {"free", "desthost"}, seq : Id, about : Query, body : Body]
          BY <4>1 DEF Stage
        <4>3. recv' = [recv EXCEPT ![c] = r] /\ recv'[c] = r
          BY <3>2 DEF IInv, TypeOK, SkipFields
        <4> QED BY <4>2, <4>3 DEF Receiving
      <3>3. CASE CloseRecv(c)
        BY <2>1, <3>3 DEF IInv, TypeOK, CloseRecv, Receiving
      <3> QED BY <1>13, <3>1, <3>2, <3>3
    <2>3. TypeOK'
      BY <1>13, <2>2 DEF IInv, TypeOK, handle_read_to_desthostlen, SkipFields, CloseRecv
    <2>4. Bookkeeping' /\ Watched'
      BY <1>13 DEF IInv, Bookkeeping, Watched, InMap, handle_read_to_desthostlen, SkipFields, CloseRecv
    <2> QED BY <2>3, <2>4 DEF IInv
  <1>14. ASSUME NEW c \in RecvConn, NEW ok \in BOOLEAN, handle_read_to_devicenamelen(c, ok)
         PROVE  IInv'
    <2>1. /\ recv[c] \in Receiving
          /\ recv[c].seq \in Id
          /\ recv[c].about \in Query
      BY <1>14 DEF IInv, TypeOK, handle_read_to_devicenamelen, Receiving, Free
    <2> DEFINE a == Answer(IF ok THEN recv[c].body ELSE "junk")
    <2>2. a[1] \in Rcode /\ a[2] \in Result
      BY <1>14, <2>1 DEF handle_read_to_devicenamelen, Receiving, Free, Body, Answer, Rcode, Result
    <2>3. (IF ok THEN [recv[c] EXCEPT !.stage = "devicename"] ELSE Free) \in Receiving
      BY <1>14, <2>1 DEF handle_read_to_devicenamelen, Receiving, Free, Stage
    <2>4. recv' \in [RecvConn -> Receiving]
      BY <1>14, <2>3 DEF IInv, TypeOK, handle_read_to_devicenamelen
    <2>5. timer \in [Query -> TimerState]
      BY DEF IInv, TypeOK
    <2>6. TypeOK'
      BY <1>14, <2>1, <2>2, <2>4, <2>5, UpdateTypes DEF IInv, handle_read_to_devicenamelen, TypeOK
    <2>7. Bookkeeping'
      BY <1>14, <2>1 DEF IInv, TypeOK, Bookkeeping, handle_read_to_devicenamelen, Erase, Cancel
    <2>8. Watched'
      BY <1>14, <2>1 DEF IInv, TypeOK, Bookkeeping, Watched, InMap, handle_read_to_devicenamelen, Erase, Cancel
    <2> QED BY <2>6, <2>7, <2>8 DEF IInv
  <1>15. CASE UNCHANGED vars
    BY <1>15 DEF vars, IInv, TypeOK, Bookkeeping, Watched, InMap
  <1> QED
    BY <1>1, <1>2, <1>3, <1>4, <1>5, <1>6, <1>8, <1>9, <1>10, <1>11, <1>12, <1>13, <1>14, <1>15
    DEF Next, Receive, Timer, Send, HomeAgent, Recv

\* QueriesWatched: whatever clients and home agents do, a query in the map of
\* querymap always has a deadline ahead of it that will take it out, and
\* sequence_ is a transaction id once a receive connection has read it.
THEOREM NeverStranded == Spec => []QueriesWatched
  <1>1. IInv => QueriesWatched
    BY DEF IInv, QueriesWatched
  <1> QED BY InitIInv, NextIInv, <1>1, PTL DEF Spec
-----------------------------------------------------------------------------
(* At most one claim per query.                                            *)

\* A query in the map has not been answered, and a query whose connection is
\* still being made has not got the connection error.
ClaimInv ==
    /\ \A q \in Query : conn[q] = "new" \/ InMap(q) => replies[q] = << >>
    /\ \A q \in Query : conn[q] \in {"ctor", "connecting", "writing"} =>
           \A k \in DOMAIN replies[q] : replies[q][k].result # "HA_CONNECTION_ERROR"
    /\ ClaimedOnce

\* What one more reply does to the replies of a query.
LEMMA CompleteEffect ==
  ASSUME TypeOK, NEW q \in Query, NEW e \in Reply
  PROVE  /\ Append(replies[q], e) # << >>
         /\ DOMAIN replies[q] = 1 .. Len(replies[q])
         /\ DOMAIN Append(replies[q], e) = 1 .. (Len(replies[q]) + 1)
         /\ Len(replies[q]) \in Nat
         /\ \A k \in 1 .. Len(replies[q]) : Append(replies[q], e)[k] = replies[q][k]
         /\ Append(replies[q], e)[Len(replies[q]) + 1] = e
  <1>1. replies[q] \in Seq(Reply)
    BY DEF TypeOK
  <1> QED BY <1>1, AppendProperties

\* Completing v, which the map held, with anything but a connection error.
LEMMA ClaimStep ==
  ASSUME IInv, ClaimInv, NEW i \in Id, NEW rc \in Rcode, NEW rs \in Result,
         NEW by \in Query, rs # "HA_CONNECTION_ERROR",
         map' = Erase(i), replies' = Complete(map[i], rc, rs, by),
         UNCHANGED <<id, conn>>
  PROVE  ClaimInv'
  <1> USE IdFacts, HaProxyAssumption
  <1>1. map[i] \in Query => InMap(map[i]) /\ replies[map[i]] = << >>
    BY DEF IInv, TypeOK, Bookkeeping, InMap, ClaimInv
  <1>2. ASSUME NEW q \in Query, q # map[i]
        PROVE  replies'[q] = replies[q]
    BY <1>2 DEF Complete
  <1>3. ASSUME NEW q \in Query, q = map[i]
        PROVE  /\ DOMAIN replies'[q] = 1 .. 1
               /\ replies'[q][1].result = rs
    <2>1. replies[q] = << >> /\ Len(replies[q]) = 0
      BY <1>1, <1>3
    <2> DEFINE e == [rcode |-> rc, result |-> rs, by |-> by]
    <2>2. e \in Reply /\ e.result = rs
      BY DEF Reply
    <2>3. replies'[q] = Append(replies[q], e)
      BY <1>3 DEF Complete
    <2> HIDE DEF e
    <2> QED BY <2>1, <2>2, <2>3, CompleteEffect DEF IInv
  <1>4. ASSUME NEW q \in Query
        PROVE  InMap(q)' => InMap(q) /\ q # map[i]
    BY DEF InMap, Erase, IInv, TypeOK, Bookkeeping
  <1>5. ASSUME NEW q \in Query, q = map[i]
        PROVE  conn[q] # "new"
    BY <1>5 DEF IInv, TypeOK, Bookkeeping
  <1>6. \A q \in Query : conn'[q] = "new" \/ InMap(q)' => replies'[q] = << >>
    BY <1>2, <1>4, <1>5 DEF ClaimInv
  <1>7. \A q \in Query : conn'[q] \in {"ctor", "connecting", "writing"} =>
           \A k \in DOMAIN replies'[q] : replies'[q][k].result # "HA_CONNECTION_ERROR"
    BY <1>2, <1>3 DEF ClaimInv
  <1>8. ClaimedOnce'
    <2> SUFFICES ASSUME NEW q \in Query, NEW k \in DOMAIN replies'[q], NEW l \in DOMAIN replies'[q], k # l
                 PROVE  \/ /\ replies'[q][k].result = "HA_CONNECTION_ERROR"
                           /\ replies'[q][l].result # "HA_CONNECTION_ERROR"
                        \/ /\ replies'[q][l].result = "HA_CONNECTION_ERROR"
                           /\ replies'[q][k].result # "HA_CONNECTION_ERROR"
      BY DEF ClaimedOnce
    <2>1. CASE q = map[i]
      BY <1>3, <2>1
    <2>2. CASE q # map[i]
      BY <1>2, <2>2 DEF ClaimInv, ClaimedOnce
    <2> QED BY <2>1, <2>2
  <1> QED BY <1>6, <1>7, <1>8 DEF ClaimInv

\* The connection error of q, which comes at most once.
LEMMA FailStep ==
  ASSUME IInv, ClaimInv, NEW q \in Query, Fail(q), conn[q] \in {"connecting", "writing"}
  PROVE  ClaimInv'
  <1> USE IdFacts, HaProxyAssumption
  <1> DEFINE n == Len(replies[q])
  <1>1. "R_SERVER_FAILURE" \in Rcode /\ "HA_CONNECTION_ERROR" \in Result
    BY DEF Rcode, Result
  <1>2. ASSUME NEW p \in Query, p # q
        PROVE  replies'[p] = replies[p]
    BY <1>2 DEF Fail, Complete
  <1>3. /\ DOMAIN replies[q] = 1 .. n
        /\ DOMAIN replies'[q] = 1 .. (n + 1)
        /\ n \in Nat
        /\ \A k \in 1 .. n : replies'[q][k] = replies[q][k]
        /\ replies'[q][n + 1].result = "HA_CONNECTION_ERROR"
    <2> DEFINE e == [rcode |-> "R_SERVER_FAILURE", result |-> "HA_CONNECTION_ERROR", by |-> q]
    <2>1. e \in Reply /\ e.result = "HA_CONNECTION_ERROR"
      BY <1>1 DEF Reply
    <2>2. replies'[q] = Append(replies[q], e)
      BY DEF Fail, Complete
    <2> HIDE DEF e
    <2> QED BY <2>1, <2>2, CompleteEffect DEF IInv
  <1>4. \A k \in 1 .. n : replies[q][k].result # "HA_CONNECTION_ERROR"
    BY <1>3 DEF ClaimInv
  <1>5. n = 0 \/ n = 1
    <2> SUFFICES ASSUME ~(n = 0 \/ n = 1) PROVE FALSE
      OBVIOUS
    <2> HIDE DEF n
    <2>1. 1 \in 1 .. n /\ 2 \in 1 .. n
      <3>1. n \in Nat
        BY <1>3
      <3> QED BY <3>1
    <2> QED BY <1>3, <1>4, <2>1 DEF ClaimInv, ClaimedOnce
  <1>6. id[q] \in Id
    BY DEF IInv, TypeOK, Bookkeeping
  <1>7. ~InMap(q)' /\ \A p \in Query : InMap(p)' => InMap(p)
    BY <1>6 DEF InMap, Fail, Erase, IInv, TypeOK
  <1>8. \A p \in Query : conn'[p] = "new" \/ InMap(p)' => replies'[p] = << >>
    BY <1>2, <1>7 DEF ClaimInv, Fail, IInv, TypeOK
  <1>9. \A p \in Query : conn'[p] \in {"ctor", "connecting", "writing"} =>
           \A k \in DOMAIN replies'[p] : replies'[p][k].result # "HA_CONNECTION_ERROR"
    BY <1>2 DEF ClaimInv, Fail, IInv, TypeOK
  <1>10. ClaimedOnce'
    <2> SUFFICES ASSUME NEW p \in Query, NEW k \in DOMAIN replies'[p], NEW l \in DOMAIN replies'[p], k # l
                 PROVE  \/ /\ replies'[p][k].result = "HA_CONNECTION_ERROR"
                           /\ replies'[p][l].result # "HA_CONNECTION_ERROR"
                        \/ /\ replies'[p][l].result = "HA_CONNECTION_ERROR"
                           /\ replies'[p][k].result # "HA_CONNECTION_ERROR"
      BY DEF ClaimedOnce
    <2>1. CASE p = q
      <3>1. k \in 1 .. (n + 1) /\ l \in 1 .. (n + 1)
        BY <1>3, <2>1
      <3>2. CASE n = 0
        BY <3>1, <3>2
      <3>3. CASE n = 1
        <4>1. \/ k = 1 /\ l = 2
              \/ k = 2 /\ l = 1
          BY <3>1, <3>3
        <4>2. /\ replies'[q][1].result # "HA_CONNECTION_ERROR"
              /\ replies'[q][2].result = "HA_CONNECTION_ERROR"
          BY <1>3, <1>4, <3>3
        <4> QED BY <2>1, <4>1, <4>2
      <3> QED BY <1>5, <3>2, <3>3
    <2>2. CASE p # q
      BY <1>2, <2>2 DEF ClaimInv, ClaimedOnce
    <2> QED BY <2>1, <2>2
  <1> QED BY <1>8, <1>9, <1>10 DEF ClaimInv
LEMMA NextClaimInv == IInv /\ ClaimInv /\ [Next]_vars => ClaimInv'
  <1> SUFFICES ASSUME IInv, ClaimInv, [Next]_vars
               PROVE  ClaimInv'
    OBVIOUS
  <1> USE IdFacts, HaProxyAssumption
  <1>1. ASSUME NEW q \in Query, NEW i \in Id, NEW why \in Rejections, Reject(q, i, why)
        PROVE  ClaimInv'
    <2>1. why[1] \in Rcode /\ why[2] \in Result
      BY DEF Rejections, Rcode, Result
    <2>2. replies[q] = << >> /\ Len(replies[q]) = 0
      BY <1>1 DEF Reject, ClaimInv
    <2>3. DOMAIN replies'[q] = 1 .. 1
      <3> DEFINE e == [rcode |-> why[1], result |-> why[2], by |-> q]
      <3>1. e \in Reply
        BY <2>1 DEF Reply
      <3>2. replies'[q] = Append(replies[q], e)
        BY <1>1 DEF Reject, Complete
      <3> HIDE DEF e
      <3> QED BY <2>2, <3>1, <3>2, CompleteEffect DEF IInv
    <2>4. \A p \in Query : p # q => replies'[p] = replies[p]
      BY <1>1 DEF Reject, Complete
    <2>5. ~InMap(q)' /\ \A p \in Query : InMap(p)' => InMap(p)
      BY <1>1 DEF Reject, InMap, IInv, TypeOK, Bookkeeping
    <2>6. conn' = [conn EXCEPT ![q] = "closed"]
      BY <1>1 DEF Reject
    <2>7. \A p \in Query : conn'[p] = "new" \/ InMap(p)' => replies'[p] = << >>
      BY <2>4, <2>5, <2>6 DEF ClaimInv, IInv, TypeOK
    <2>8. \A p \in Query : conn'[p] \in {"ctor", "connecting", "writing"} =>
             \A k \in DOMAIN replies'[p] : replies'[p][k].result # "HA_CONNECTION_ERROR"
      BY <2>4, <2>6 DEF ClaimInv, IInv, TypeOK
    <2>9. ClaimedOnce'
      BY <2>3, <2>4 DEF ClaimInv, ClaimedOnce
    <2> QED BY <2>7, <2>8, <2>9 DEF ClaimInv
  <1>2. ASSUME NEW q \in Query, NEW i \in Id, DropDuplicate(q, i) \/ Insert(q, i)
        PROVE  ClaimInv'
    <2>1. \A p \in Query : InMap(p)' => InMap(p) \/ p = q
      BY <1>2 DEF DropDuplicate, Insert, InMap, IInv, TypeOK
    <2>2. conn[q] = "new" /\ replies[q] = << >> /\ replies' = replies
      BY <1>2 DEF DropDuplicate, Insert, ClaimInv
    <2>3. \A p \in Query : p # q => conn'[p] = conn[p]
      BY <1>2 DEF DropDuplicate, Insert, IInv, TypeOK
    <2> QED BY <2>1, <2>2, <2>3 DEF ClaimInv, ClaimedOnce
  <1>3. ASSUME NEW q \in Query,
               ArmAndStart(q) \/ Elapse(q) \/ Destroy(q) \/ HaReceive(q) \/ HaForget(q)
        PROVE  ClaimInv'
    <2>1. map' = map /\ id' = id /\ replies' = replies
      BY <1>3 DEF ArmAndStart, Elapse, Destroy, HaReceive, HaForget
    <2>2. \A p \in Query : conn'[p] = conn[p] \/ conn[p] = "ctor" \/ (conn[p] = "writing" /\ conn'[p] # "new")
      BY <1>3 DEF ArmAndStart, Elapse, Destroy, HaReceive, HaForget, IInv, TypeOK
    <2>3. \A p \in Query : conn[p] = "ctor" => conn'[p] \in {"ctor", "connecting"}
      BY <1>3 DEF ArmAndStart, Elapse, Destroy, HaReceive, HaForget, IInv, TypeOK
    <2> QED BY <2>1, <2>2, <2>3 DEF ClaimInv, ClaimedOnce, InMap
  <1>4. ASSUME NEW q \in Query, expire(q)
        PROVE  ClaimInv'
    <2>1. id[q] \in Id
      BY <1>4 DEF IInv, TypeOK, Bookkeeping, expire
    <2>2. "R_NAME_ERROR" \in Rcode /\ "TIMEOUT" \in Result
      BY DEF Rcode, Result
    <2> QED BY <1>4, <2>1, <2>2, ClaimStep DEF expire
  <1>5. ASSUME NEW q \in Query, NEW ok \in BOOLEAN, handle_connect(q, ok)
        PROVE  ClaimInv'
    <2>1. CASE ok
      <3>1. /\ UNCHANGED <<map, id, replies>>
            /\ \A p \in Query : p # q => conn'[p] = conn[p]
            /\ conn[q] = "connecting" /\ conn'[q] = "writing"
        BY <1>5, <2>1 DEF handle_connect, IInv, TypeOK
      <3> QED BY <3>1 DEF ClaimInv, ClaimedOnce, InMap
    <2>2. CASE ~ok
      BY <1>5, <2>2, FailStep DEF handle_connect
    <2> QED BY <2>1, <2>2
  <1>6. ASSUME NEW q \in Query, handle_query_sent(q)
        PROVE  ClaimInv'
    <2>1. CASE conn[q] = "written" /\ conn' = [conn EXCEPT ![q] = "closed"] /\ UNCHANGED <<map, id, replies>>
      <3>1. \A p \in Query : p # q => conn'[p] = conn[p]
        BY <2>1 DEF IInv, TypeOK
      <3>2. conn'[q] = "closed"
        BY <2>1 DEF IInv, TypeOK
      <3> QED BY <2>1, <3>1, <3>2 DEF ClaimInv, ClaimedOnce, InMap
    <2>2. CASE conn[q] = "writing" /\ Fail(q)
      BY <2>2, FailStep
    <2> QED BY <1>6, <2>1, <2>2 DEF handle_query_sent
  <1>7. ASSUME NEW c \in RecvConn, NEW ok \in BOOLEAN, handle_read_to_devicenamelen(c, ok)
        PROVE  ClaimInv'
    <2>1. /\ recv[c] \in Receiving
          /\ recv[c].seq \in Id
          /\ recv[c].about \in Query
      BY <1>7 DEF IInv, TypeOK, handle_read_to_devicenamelen, Receiving, Free
    <2> DEFINE a == Answer(IF ok THEN recv[c].body ELSE "junk")
    <2>2. a[1] \in Rcode /\ a[2] \in Result /\ a[2] # "HA_CONNECTION_ERROR"
      BY <1>7, <2>1 DEF handle_read_to_devicenamelen, Receiving, Free, Body, Answer, Rcode, Result
    <2>3. /\ map' = Erase(recv[c].seq)
          /\ replies' = Complete(map[recv[c].seq], a[1], a[2], recv[c].about)
          /\ UNCHANGED <<id, conn>>
      BY <1>7 DEF handle_read_to_devicenamelen
    <2> HIDE DEF a
    <2> QED BY <2>1, <2>2, <2>3, ClaimStep
  <1>8. ASSUME UNCHANGED <<map, id, conn, replies>>
        PROVE  ClaimInv'
    BY <1>8 DEF ClaimInv, ClaimedOnce, InMap
  <1>9. ASSUME NEW q \in Query, NEW c \in RecvConn, NEW body \in Body, HaAnswer(q, c, body)
        PROVE  ClaimInv'
    BY <1>8, <1>9 DEF HaAnswer
  <1>10. ASSUME NEW c \in RecvConn, handle_read_to_desthostlen(c) \/ SkipFields(c) \/ CloseRecv(c)
         PROVE  ClaimInv'
    BY <1>8, <1>10 DEF handle_read_to_desthostlen, SkipFields, CloseRecv
  <1>11. CASE UNCHANGED vars
    BY <1>8, <1>11 DEF vars
  <1> QED
    BY <1>1, <1>2, <1>3, <1>4, <1>5, <1>6, <1>7, <1>9, <1>10, <1>11
    DEF Next, Receive, Timer, Send, HomeAgent, Recv

\* ClaimedOnce: of the timeout, the home agent replies and the read errors
\* that race for a query, at most one completes it, for every interleaving
\* and however ids are reused.
THEOREM AtMostOneClaim == Spec => []ClaimedOnce
  <1>1. Init => ClaimInv
    BY DEF Init, ClaimInv, ClaimedOnce
  <1>2. ClaimInv => ClaimedOnce
    BY DEF ClaimInv
  <1> QED BY InitIInv, NextIInv, NextClaimInv, <1>1, <1>2, PTL DEF Spec
-----------------------------------------------------------------------------
(* What holds when ids are not reused while anything of an earlier query   *)
(* is left.                                                                *)

\* Of two queries with one id, one is over: it has no entry, no handler to
\* run and no answer under way.
Exclusive ==
    \A p, q \in Query : p # q /\ id[p] = id[q] /\ id[p] \in Id => Drained(p) \/ Drained(q)

\* A home agent's message carries the id of the query it answers.
Echo == \A c \in RecvConn : recv[c].stage # "free" => recv[c].seq = id[recv[c].about]

QuietInv == Exclusive /\ Echo /\ OwnCause /\ NoQueryForgotten

\* A query with work left owns its id: the map has it or nothing there.
LEMMA OwnId ==
  ASSUME IInv, Exclusive, NEW q \in Query, id[q] \in Id, ~Drained(q)
  PROVE  map[id[q]] \in {q, NoQuery}
  <1> USE IdFacts, HaProxyAssumption
  <1>1. SUFFICES ASSUME map[id[q]] # NoQuery, map[id[q]] # q
                 PROVE  FALSE
    OBVIOUS
  <1>2. map[id[q]] \in Query /\ id[map[id[q]]] = id[q]
    BY <1>1 DEF IInv, TypeOK, Bookkeeping
  <1>3. Drained(map[id[q]])
    BY <1>1, <1>2 DEF Exclusive
  <1> QED BY <1>2, <1>3 DEF Drained, InMap

\* What is over stays over.
LEMMA DrainedStable ==
  ASSUME IInv, [Next]_vars, NEW p \in Query, id[p] \in Id, Drained(p)
  PROVE  Drained(p)' /\ id'[p] = id[p]
  <1> USE IdFacts, HaProxyAssumption
  <1>1. /\ ~InMap(p) /\ timer[p] \in {"idle", "done"} /\ conn[p] = "closed" /\ p \notin ha
        /\ \A c \in RecvConn : recv[c].about # p
    BY DEF Drained
  <1>2. conn'[p] = "closed" /\ id'[p] = id[p]
    BY <1>1 DEF IInv, TypeOK, Next, vars, Receive, Timer, Send, HomeAgent, Recv, Reject, DropDuplicate,
       Insert, ArmAndStart, Elapse, Destroy, expire, handle_connect, handle_query_sent, Fail, HaReceive,
       HaAnswer, HaForget, handle_read_to_desthostlen, SkipFields, CloseRecv, handle_read_to_devicenamelen
  <1>3. timer'[p] \in {"idle", "done"}
    <2>1. CASE \E q \in Query : expire(q)
      BY <1>1, <2>1 DEF IInv, TypeOK, expire, Cancel
    <2>2. CASE \E q \in Query : ArmAndStart(q) \/ Elapse(q) \/ Destroy(q)
      BY <1>1, <2>2 DEF IInv, TypeOK, ArmAndStart, Elapse, Destroy
    <2>3. CASE \E v \in Query \cup {NoQuery} : timer' = Cancel(timer, v)
      BY <1>1, <2>3 DEF IInv, TypeOK, Cancel
    <2>4. CASE timer' = timer
      BY <1>1, <2>4
    <2>5. ASSUME NEW q \in Query, conn[q] # "new"
          PROVE  map[id[q]] \in Query \cup {NoQuery}
      BY <2>5 DEF IInv, TypeOK, Bookkeeping
    <2>6. ASSUME NEW q \in Query, Fail(q), conn[q] # "new"
          PROVE  \E v \in Query \cup {NoQuery} : timer' = Cancel(timer, v)
      BY <2>5, <2>6 DEF Fail
    <2>7. ASSUME NEW c \in RecvConn, NEW ok \in BOOLEAN, handle_read_to_devicenamelen(c, ok)
          PROVE  \E v \in Query \cup {NoQuery} : timer' = Cancel(timer, v)
      <3>1. recv[c].seq \in Id
        BY <2>7 DEF IInv, TypeOK, handle_read_to_devicenamelen, Receiving, Free
      <3>2. map[recv[c].seq] \in Query \cup {NoQuery}
        BY <3>1 DEF IInv, TypeOK
      <3> QED BY <2>7, <3>2 DEF handle_read_to_devicenamelen
    <2> QED
      BY <2>1, <2>2, <2>3, <2>4, <2>6, <2>7 DEF Next, vars, Receive, Timer, Send, HomeAgent, Recv,
         Reject, DropDuplicate, Insert, handle_connect, handle_query_sent, HaReceive, HaAnswer, HaForget,
         handle_read_to_desthostlen, SkipFields, CloseRecv
  <1>4. p \notin ha'
    BY <1>1 DEF IInv, TypeOK, Next, vars, Receive, Timer, Send, HomeAgent, Recv, Reject, DropDuplicate,
       Insert, ArmAndStart, Elapse, Destroy, expire, handle_connect, handle_query_sent, Fail, HaReceive,
       HaAnswer, HaForget, handle_read_to_desthostlen, SkipFields, CloseRecv, handle_read_to_devicenamelen
  <1>5. ~InMap(p)'
    <2>1. CASE \E q \in Query, i \in Id : Insert(q, i)
      BY <1>1, <1>2, <2>1 DEF IInv, TypeOK, Insert, InMap
    <2>2. CASE \E i : map' = Erase(i)
      BY <1>1, <1>2, <2>2 DEF IInv, TypeOK, Erase, InMap
    <2>3. CASE map' = map
      BY <1>1, <1>2, <2>3 DEF InMap
    <2> QED
      BY <2>1, <2>2, <2>3 DEF Next, vars, Receive, Timer, Send, HomeAgent, Recv, Reject, DropDuplicate,
         Insert, ArmAndStart, Elapse, Destroy, expire, handle_connect, handle_query_sent, Fail, HaReceive,
         HaAnswer, HaForget, handle_read_to_desthostlen, SkipFields, CloseRecv, handle_read_to_devicenamelen
  <1>6. ASSUME NEW c \in RecvConn
        PROVE  recv'[c].about # p
    <2>1. ASSUME NEW d \in RecvConn, NEW q \in Query, NEW body \in Body, HaAnswer(q, d, body)
          PROVE  recv'[c].about # p
      BY <1>1, <2>1 DEF IInv, TypeOK, HaAnswer
    <2>2. ASSUME NEW d \in RecvConn,
                 \/ handle_read_to_desthostlen(d) \/ SkipFields(d) \/ CloseRecv(d)
                 \/ \E ok \in BOOLEAN : handle_read_to_devicenamelen(d, ok)
          PROVE  recv'[c].about # p
      <3>1. recv[d] \in Receiving
        BY DEF IInv, TypeOK
      <3>2. recv' = [recv EXCEPT ![d] = recv'[d]] /\ recv'[d].about \in {recv[d].about, NoQuery}
        BY <2>2, <3>1 DEF IInv, TypeOK, Free, Receiving, handle_read_to_desthostlen, SkipFields, CloseRecv,
           handle_read_to_devicenamelen
      <3> QED BY <1>1, <3>2 DEF IInv, TypeOK
    <2>3. CASE recv' = recv
      BY <1>1, <2>3
    <2> QED
      BY <2>1, <2>2, <2>3 DEF Next, vars, Receive, Timer, Send, HomeAgent, Recv, Reject, DropDuplicate,
         Insert, ArmAndStart, Elapse, Destroy, expire, handle_connect, handle_query_sent, Fail, HaReceive,
         HaForget
  <1> QED BY <1>2, <1>3, <1>4, <1>5, <1>6 DEF Drained

LEMMA NextExclusive == ASSUME IInv, Quiet, Exclusive, Echo, [Next]_vars PROVE Exclusive'
  <1> USE IdFacts, HaProxyAssumption
  <1>1. ASSUME NEW p \in Query, NEW q \in Query, p # q, id'[p] = id'[q], id'[p] \in Id, id'[p] # id[p]
        PROVE  Drained(p)' \/ Drained(q)'
    <2>1. PICK i \in Id : \/ \E why \in Rejections : Reject(p, i, why)
                          \/ DropDuplicate(p, i)
                          \/ Insert(p, i)
      BY <1>1 DEF IInv, TypeOK, Next, vars, Receive, Timer, Send, HomeAgent, Recv, Reject, DropDuplicate,
         Insert, ArmAndStart, Elapse, Destroy, expire, handle_connect, handle_query_sent, Fail, HaReceive,
         HaAnswer, HaForget, handle_read_to_desthostlen, SkipFields, CloseRecv, handle_read_to_devicenamelen
    <2>2. id' = [id EXCEPT ![p] = i] /\ conn[p] = "new"
      BY <2>1 DEF Reject, DropDuplicate, Insert
    <2>3. id[q] = i /\ id[q] \in Id
      BY <1>1, <2>2 DEF IInv, TypeOK
    <2>4. CASE Insert(p, i)
      <3>1. Drained(q)
        BY <2>3, <2>4 DEF Insert, MayUse
      <3> QED BY <2>3, <3>1, DrainedStable
    <2>5. CASE (\E why \in Rejections : Reject(p, i, why)) \/ DropDuplicate(p, i)
      <3>1. /\ timer[p] = "idle" /\ p \notin ha /\ id[p] = NoId
            /\ UNCHANGED <<map, timer, ha, recv>> /\ conn'[p] = "closed"
        BY <2>2, <2>5 DEF IInv, TypeOK, Bookkeeping, Reject, DropDuplicate
      <3>2. ~InMap(p)'
        BY <2>2, <3>1 DEF IInv, TypeOK, Bookkeeping, InMap
      <3>3. ASSUME NEW c \in RecvConn
            PROVE  recv[c].about # p
        <4>1. recv[c] \in Receiving
          BY DEF IInv, TypeOK
        <4>2. recv[c].stage = "free" => recv[c].about = NoQuery
          BY <4>1 DEF Receiving, Free, Stage
        <4>3. recv[c].seq # NoId
          BY <4>1 DEF Receiving, Free, Sequence, Id, NoId
        <4> QED BY <3>1, <4>2, <4>3 DEF Echo
      <3> QED BY <3>1, <3>2, <3>3 DEF Drained
    <2> QED BY <2>1, <2>4, <2>5
  <1>2. ASSUME NEW p \in Query, NEW q \in Query, p # q, id'[p] = id'[q], id'[p] \in Id
        PROVE  Drained(p)' \/ Drained(q)'
    <2>1. CASE id'[p] = id[p] /\ id'[q] = id[q]
      BY <1>2, <2>1, DrainedStable DEF Exclusive
    <2>2. CASE id'[p] # id[p]
      BY <1>1, <1>2, <2>2
    <2>3. CASE id'[q] # id[q]
      BY <1>1, <1>2, <2>3
    <2> QED BY <2>1, <2>2, <2>3
  <1> QED BY <1>2 DEF Exclusive
LEMMA NextEcho == ASSUME IInv, Quiet, Echo, [Next]_vars PROVE Echo'
  <1> USE IdFacts, HaProxyAssumption
  <1> SUFFICES ASSUME NEW c \in RecvConn, recv'[c].stage # "free"
               PROVE  recv'[c].seq = id'[recv'[c].about]
    BY DEF Echo
  <1>1. recv[c] \in Receiving
    BY DEF IInv, TypeOK
  <1>2. recv[c].stage # "free" => recv[c].about \in Query /\ id[recv[c].about] \in Id
    <2>1. recv[c].stage # "free" => recv[c].about \in Query /\ recv[c].seq # NoId
      BY <1>1 DEF Receiving, Free, Sequence, Id, NoId
    <2> QED BY <2>1 DEF Echo, IInv, TypeOK
  <1>3. ASSUME NEW q \in Query, id[q] \in Id
        PROVE  id'[q] = id[q]
    BY <1>3 DEF IInv, TypeOK, Bookkeeping, Next, vars, Receive, Timer, Send, HomeAgent, Recv, Reject, DropDuplicate,
       Insert, ArmAndStart, Elapse, Destroy, expire, handle_connect, handle_query_sent, Fail, HaReceive,
       HaAnswer, HaForget, handle_read_to_desthostlen, SkipFields, CloseRecv, handle_read_to_devicenamelen
  <1>4. CASE recv'[c] = recv[c]
    BY <1>2, <1>3, <1>4 DEF Echo
  <1>5. ASSUME NEW q \in Query, NEW body \in Body, HaAnswer(q, c, body)
        PROVE  recv'[c].seq = id'[recv'[c].about]
    BY <1>5 DEF HaAnswer, IInv, TypeOK
  <1>6. CASE handle_read_to_desthostlen(c)
    <2>1. recv'[c].seq = recv[c].seq /\ recv'[c].about = recv[c].about /\ recv[c].stage # "free"
      BY <1>1, <1>2, <1>6 DEF handle_read_to_desthostlen, Echo, IInv, TypeOK, Receiving, Free
    <2> QED BY <1>2, <1>3, <2>1 DEF Echo
  <1>7. CASE SkipFields(c) \/ CloseRecv(c) \/ \E ok \in BOOLEAN : handle_read_to_devicenamelen(c, ok)
    <2>1. recv'[c].seq = recv[c].seq /\ recv'[c].about = recv[c].about /\ recv[c].stage # "free"
      BY <1>1, <1>7 DEF SkipFields, CloseRecv, handle_read_to_devicenamelen, IInv, TypeOK, Receiving, Free
    <2> QED BY <1>2, <1>3, <2>1 DEF Echo
  <1>8. ASSUME NEW d \in RecvConn, d # c,
               \/ \E q \in Query, body \in Body : HaAnswer(q, d, body)
               \/ Recv(d)
        PROVE  recv'[c] = recv[c]
    BY <1>8 DEF HaAnswer, Recv, handle_read_to_desthostlen, SkipFields, CloseRecv,
       handle_read_to_devicenamelen, IInv, TypeOK
  <1>9. ASSUME NEW q \in Query, Receive(q) \/ Timer(q) \/ Send(q) \/ HaForget(q)
        PROVE  recv' = recv
    BY <1>9 DEF Receive, Timer, Send, Reject, DropDuplicate, Insert, ArmAndStart, Elapse, Destroy, expire,
       handle_connect, handle_query_sent, Fail, HaReceive, HaForget
  <1> QED
    BY <1>4, <1>5, <1>6, <1>7, <1>8, <1>9 DEF Next, vars, HomeAgent, Recv

\* One reply by q itself keeps OwnCause.
LEMMA OwnReply ==
  ASSUME TypeOK, OwnCause, NEW v, NEW rc \in Rcode, NEW rs \in Result, NEW by \in Query,
         v \in Query => v = by, replies' = Complete(v, rc, rs, by)
  PROVE  OwnCause'
  <1> SUFFICES ASSUME NEW q \in Query, NEW k \in DOMAIN replies'[q]
               PROVE  replies'[q][k].by = q
    BY DEF OwnCause
  <1>1. CASE q # v
    BY <1>1 DEF Complete, OwnCause
  <1>2. CASE q = v
    <2> DEFINE e == [rcode |-> rc, result |-> rs, by |-> by]
    <2>1. e \in Reply /\ e.by = q
      BY <1>2 DEF Reply
    <2>2. replies'[q] = Append(replies[q], e)
      BY <1>2 DEF Complete
    <2> HIDE DEF e
    <2>3. CASE k = Len(replies[q]) + 1
      BY <2>1, <2>2, <2>3, CompleteEffect
    <2>4. CASE k \in 1 .. Len(replies[q])
      BY <2>1, <2>2, <2>4, CompleteEffect DEF OwnCause
    <2>5. k \in 1 .. (Len(replies[q]) + 1) /\ Len(replies[q]) \in Nat
      BY <2>1, <2>2, CompleteEffect
    <2>6. k = Len(replies[q]) + 1 \/ k \in 1 .. Len(replies[q])
      BY <2>5
    <2> QED BY <2>3, <2>4, <2>6
  <1> QED BY <1>1, <1>2
\* A query that some handler takes out of the map is answered by it.
LEMMA ClaimAnswers ==
  ASSUME IInv, NoQueryForgotten, NEW i \in Id, NEW rc \in Rcode, NEW rs \in Result, NEW by \in Query,
         map' = Erase(i), replies' = Complete(map[i], rc, rs, by), UNCHANGED id,
         \A q \in Query : Inserted(q)' => Inserted(q)
  PROVE  NoQueryForgotten'
  <1> USE IdFacts, HaProxyAssumption
  <1> SUFFICES ASSUME NEW q \in Query, Inserted(q)'
               PROVE  InMap(q)' \/ replies'[q] # << >>
    BY DEF NoQueryForgotten
  <1>1. CASE q = map[i]
    <2> DEFINE e == [rcode |-> rc, result |-> rs, by |-> by]
    <2>1. e \in Reply
      BY DEF Reply
    <2>2. replies'[q] = Append(replies[q], e)
      BY <1>1 DEF Complete
    <2> HIDE DEF e
    <2> QED BY <2>1, <2>2, CompleteEffect DEF IInv
  <1>2. CASE q # map[i]
    <2>1. replies'[q] = replies[q]
      BY <1>2 DEF Complete
    <2>2. InMap(q) => InMap(q)'
      BY <1>2 DEF InMap, Erase, IInv, TypeOK
    <2> QED BY <2>1, <2>2 DEF NoQueryForgotten
  <1> QED BY <1>1, <1>2

LEMMA NextQuietInv == ASSUME IInv, Quiet, QuietInv, [Next]_vars PROVE QuietInv'
  <1> USE IdFacts, HaProxyAssumption
  <1>1. Exclusive' /\ Echo'
    BY NextExclusive, NextEcho DEF QuietInv
  <1>2. ASSUME NEW q \in Query, Fail(q), conn[q] \in {"connecting", "writing"}
        PROVE  OwnCause' /\ NoQueryForgotten'
    <2>1. id[q] \in Id /\ ~Drained(q)
      BY <1>2 DEF IInv, TypeOK, Bookkeeping, Drained
    <2>2. map[id[q]] \in {q, NoQuery}
      BY <2>1, OwnId DEF QuietInv
    <2>3. "R_SERVER_FAILURE" \in Rcode /\ "HA_CONNECTION_ERROR" \in Result
      BY DEF Rcode, Result
    <2>4. OwnCause'
      BY <1>2, <2>3, OwnReply DEF Fail, IInv, QuietInv
    <2>5. ASSUME NEW p \in Query, Inserted(p)', p # q
          PROVE  InMap(p)' \/ replies'[p] # << >>
      <3>1. Inserted(p) /\ replies'[p] = replies[p]
        BY <1>2, <2>5 DEF Fail, Cancel, Complete, Inserted, IInv, TypeOK
      <3>2. InMap(p) => InMap(p)'
        BY <1>2, <2>2, <2>5 DEF Fail, Erase, InMap, IInv, TypeOK
      <3> QED BY <3>1, <3>2 DEF QuietInv, NoQueryForgotten
    <2>6. replies'[q] # << >>
      <3> DEFINE e == [rcode |-> "R_SERVER_FAILURE", result |-> "HA_CONNECTION_ERROR", by |-> q]
      <3>1. e \in Reply
        BY <2>3 DEF Reply
      <3>2. replies'[q] = Append(replies[q], e)
        BY <1>2 DEF Fail, Complete
      <3> HIDE DEF e
      <3> QED BY <3>1, <3>2, CompleteEffect DEF IInv
    <2> QED BY <2>4, <2>5, <2>6 DEF NoQueryForgotten
  <1>3. ASSUME NEW q \in Query, expire(q)
        PROVE  OwnCause' /\ NoQueryForgotten'
    <2>1. id[q] \in Id /\ ~Drained(q)
      BY <1>3 DEF IInv, TypeOK, Bookkeeping, Drained, expire
    <2>2. map[id[q]] \in {q, NoQuery}
      BY <2>1, OwnId DEF QuietInv
    <2>3. "R_NAME_ERROR" \in Rcode /\ "TIMEOUT" \in Result
      BY DEF Rcode, Result
    <2>4. OwnCause'
      BY <1>3, <2>2, <2>3, OwnReply DEF expire, IInv, QuietInv
    <2>5. \A p \in Query : Inserted(p)' => Inserted(p)
      BY <1>3 DEF expire, Cancel, Inserted, IInv, TypeOK
    <2>6. NoQueryForgotten'
      BY <1>3, <2>1, <2>3, <2>5, ClaimAnswers DEF expire, QuietInv
    <2> QED BY <2>4, <2>6
  <1>4. ASSUME NEW c \in RecvConn, NEW ok \in BOOLEAN, handle_read_to_devicenamelen(c, ok)
        PROVE  OwnCause' /\ NoQueryForgotten'
    <2> DEFINE p == recv[c].about
    <2> DEFINE a == Answer(IF ok THEN recv[c].body ELSE "junk")
    <2>1. /\ recv[c] \in Receiving
          /\ recv[c].seq \in Id
          /\ p \in Query
          /\ recv[c].stage # "free"
      BY <1>4 DEF IInv, TypeOK, handle_read_to_devicenamelen, Receiving, Free
    <2>2. recv[c].seq = id[p] /\ ~Drained(p)
      BY <2>1 DEF QuietInv, Echo, Drained
    <2>3. map[recv[c].seq] \in {p, NoQuery}
      BY <2>1, <2>2, OwnId DEF QuietInv
    <2>4. a[1] \in Rcode /\ a[2] \in Result
      BY <1>4, <2>1 DEF handle_read_to_devicenamelen, Receiving, Free, Body, Answer, Rcode, Result
    <2>5. /\ map' = Erase(recv[c].seq)
          /\ replies' = Complete(map[recv[c].seq], a[1], a[2], p)
          /\ UNCHANGED id
      BY <1>4 DEF handle_read_to_devicenamelen
    <2>6. \A q \in Query : Inserted(q)' => Inserted(q)
      BY <1>4 DEF handle_read_to_devicenamelen, Cancel, Inserted, IInv, TypeOK
    <2> HIDE DEF a
    <2>7. OwnCause'
      BY <2>1, <2>3, <2>4, <2>5, OwnReply DEF IInv, QuietInv
    <2>8. NoQueryForgotten'
      BY <2>1, <2>4, <2>5, <2>6, ClaimAnswers DEF QuietInv
    <2> QED BY <2>7, <2>8
  <1>5. ASSUME NEW q \in Query, NEW i \in Id, NEW why \in Rejections, Reject(q, i, why)
        PROVE  OwnCause' /\ NoQueryForgotten'
    <2>1. why[1] \in Rcode /\ why[2] \in Result
      BY DEF Rejections, Rcode, Result
    <2>2. OwnCause'
      BY <1>5, <2>1, OwnReply DEF Reject, IInv, QuietInv
    <2>3. ASSUME NEW p \in Query, Inserted(p)'
          PROVE  p # q /\ Inserted(p)
      BY <1>5, <2>3 DEF Reject, Inserted, IInv, TypeOK, Bookkeeping
    <2>4. ASSUME NEW p \in Query, p # q
          PROVE  replies'[p] = replies[p] /\ (InMap(p) => InMap(p)')
      BY <1>5, <2>4 DEF Reject, Complete, InMap, IInv, TypeOK
    <2> QED BY <2>2, <2>3, <2>4 DEF QuietInv, NoQueryForgotten
  <1>6. ASSUME NEW q \in Query, NEW i \in Id, DropDuplicate(q, i) \/ Insert(q, i)
        PROVE  OwnCause' /\ NoQueryForgotten'
    <2>1. OwnCause'
      BY <1>6 DEF DropDuplicate, Insert, OwnCause, QuietInv
    <2>2. ASSUME NEW p \in Query, p # q
          PROVE  (Inserted(p)' => Inserted(p)) /\ (InMap(p) => InMap(p)')
      BY <1>6, <2>2 DEF DropDuplicate, Insert, Inserted, InMap, IInv, TypeOK
    <2>3. Inserted(q)' => InMap(q)'
      BY <1>6 DEF DropDuplicate, Insert, Inserted, InMap, IInv, TypeOK, Bookkeeping
    <2>4. replies' = replies
      BY <1>6 DEF DropDuplicate, Insert
    <2> QED BY <2>1, <2>2, <2>3, <2>4 DEF QuietInv, NoQueryForgotten
  <1>7. ASSUME UNCHANGED <<map, id, replies>>, \A p \in Query : Inserted(p)' => Inserted(p)
        PROVE  OwnCause' /\ NoQueryForgotten'
    BY <1>7 DEF OwnCause, NoQueryForgotten, QuietInv, InMap
  <1>8. ASSUME NEW q \in Query,
               \/ ArmAndStart(q) \/ Elapse(q) \/ Destroy(q) \/ HaReceive(q) \/ HaForget(q)
               \/ \E c \in RecvConn, body \in Body : HaAnswer(q, c, body)
        PROVE  OwnCause' /\ NoQueryForgotten'
    BY <1>7, <1>8 DEF ArmAndStart, Elapse, Destroy, HaReceive, HaForget, HaAnswer, Inserted, IInv, TypeOK
  <1>9. ASSUME NEW q \in Query, (\E ok \in BOOLEAN : handle_connect(q, ok)) \/ handle_query_sent(q)
        PROVE  OwnCause' /\ NoQueryForgotten'
    <2>1. CASE conn[q] \in {"connecting", "writing"} /\ Fail(q)
      BY <1>2, <2>1
    <2>2. CASE ~(conn[q] \in {"connecting", "writing"} /\ Fail(q))
      BY <1>7, <1>9, <2>2 DEF handle_connect, handle_query_sent, Inserted, IInv, TypeOK
    <2> QED BY <2>1, <2>2
  <1>10. ASSUME NEW c \in RecvConn, handle_read_to_desthostlen(c) \/ SkipFields(c) \/ CloseRecv(c)
         PROVE  OwnCause' /\ NoQueryForgotten'
    BY <1>7, <1>10 DEF handle_read_to_desthostlen, SkipFields, CloseRecv, Inserted
  <1>11. ASSUME UNCHANGED vars
         PROVE  OwnCause' /\ NoQueryForgotten'
    BY <1>7, <1>11 DEF vars, Inserted
  <1>12. OwnCause' /\ NoQueryForgotten'
    BY <1>3, <1>4, <1>5, <1>6, <1>8, <1>9, <1>10, <1>11
    DEF Next, Receive, Timer, Send, HomeAgent, Recv
  <1> QED BY <1>1, <1>12 DEF QuietInv

LEMMA QuietInvariant == Spec => [](Quiet => QuietInv)
  <1>1. Init => (Quiet => QuietInv)
    BY IdFacts, HaProxyAssumption DEF Init, QuietInv, Exclusive, Echo, OwnCause, NoQueryForgotten, Inserted, Free
  <1>2. IInv /\ (Quiet => QuietInv) /\ [Next]_vars => (Quiet => QuietInv)'
    BY NextQuietInv
  <1> QED BY InitIInv, NextIInv, <1>1, <1>2, PTL DEF Spec

\* NoQueryForgotten: with quiet ids every query taken out of the map is
\* answered by the handler that takes it out.
THEOREM QuietNeverForgets == Spec => [](Quiet => NoQueryForgotten)
  <1>1. (Quiet => QuietInv) => (Quiet => NoQueryForgotten)
    BY DEF QuietInv
  <1> QED BY QuietInvariant, <1>1, PTL

\* OwnCause: with quiet ids a client is only ever answered because of its own
\* query, so that no timeout and no address of another query reaches it.
THEOREM QuietOwnCause == Spec => [](Quiet => OwnCause)
  <1>1. (Quiet => QuietInv) => (Quiet => OwnCause)
    BY DEF QuietInv
  <1> QED BY QuietInvariant, <1>1, PTL
=============================================================================
