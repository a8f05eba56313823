------------------------------- MODULE HaProxy -------------------------------
(***************************************************************************)
(* The home agent side of the DNS gateway (dnsgw/haproxy.cpp): the global  *)
(* querymap that pairs a DNS transaction id with the outstanding query,    *)
(* the hasendconnection that forwards one query to a home agent, the       *)
(* harecvconnection that reads one home agent reply, and the deadline      *)
(* timer each query owns.                                                  *)
(*                                                                         *)
(* All handlers run on any thread of one io_service, so every handler is   *)
(* one action and handlers interleave freely.  A handler whose effect on   *)
(* the shared map is one critical section is atomic; querymap::insert is   *)
(* split where it leaves its critical section before it arms the timer.    *)
(*                                                                         *)
(* Home agents are external.  A home agent that has received a query may   *)
(* answer it at any later time, several times, or never.                   *)
(***************************************************************************)
EXTENDS Integers, Sequences, FiniteSets

CONSTANTS
    Query,      \* dnsquery objects, one per received DNS message
    MaxId,      \* largest DNS transaction id (65535 in the code)
    RecvConn,   \* slots for accepted home agent connections
    NoQuery,    \* the null query_ptr
    Quiet       \* TRUE: clients and home agents keep the discipline below

ASSUME HaProxyAssumption ==
    /\ MaxId \in Nat
    /\ NoQuery \notin Query
    /\ Quiet \in BOOLEAN

VARIABLES
    map,        \* querymap::map_
    id,         \* dnsquery::id_, NoId before the query is received
    timer,      \* the deadline_timer of each query
    conn,       \* the hasendconnection of each query
    ha,         \* queries some home agent holds and may still answer
    recv,       \* harecvconnection: what is being read from a home agent
    replies     \* what complete_query handed to the client's speaker

vars == <<map, id, timer, conn, ha, recv, replies>>

-----------------------------------------------------------------------------
(* Types.                                                                  *)

Id == 0 .. MaxId
NoId == -1

\* The absint_t sequence number of a home agent message.  MaxId + 1 stands
\* for every value that does not fit the 16 bits of sequence_.
Sequence == 0 .. (MaxId + 1)

\* "idle": not armed yet; "expired"/"aborted": the wait completed and its
\* handler is queued; "done": the handler ran.
TimerState == {"idle", "armed", "expired", "aborted", "done"}

\* "ctor": in the map, timer not armed yet; "written": all bytes are with the
\* home agent, handle_query_sent is queued; "closed": no handler is left.
ConnState == {"new", "ctor", "connecting", "writing", "written", "closed"}

\* What the rest of a reply message holds: no address, an address, or
\* something from_string rejects (or that does not fit buf_).
Body == {"none", "addr", "junk"}

\* The reads of a harecvconnection: to the destination host length, the three
\* reads that only skip fields, to the device name length, the device name.
Stage == {"free", "desthost", "skip", "devicename_len", "devicename"}

Rcode == {"R_SUCCESS", "R_NAME_ERROR", "R_SERVER_FAILURE", "R_NOT_IMPLEMENTED"}
Result == {"SUCCESS", "TIMEOUT", "HA_RETURNED_ERROR", "HA_CONNECTION_ERROR",
           "INVALID_REQUEST", "UNKNOWN"}

\* A completion; by is the query whose timer, connection or home agent answer
\* caused it.
Reply == [rcode : Rcode, result : Result, by : Query]

Free == [stage |-> "free", seq |-> 0, about |-> NoQuery, body |-> "none"]

\* A receive connection; seq is the number on the wire until the first read
\* completes and sequence_ from then on.
Receiving ==
         {Free}
    \cup [stage : {"desthost"}, seq : Sequence, about : Query, body : Body]
    \cup [stage : Stage \ {"free", "desthost"}, seq : Id, about : Query, body : Body]

TypeOK ==
    /\ map \in [Id -> Query \cup {NoQuery}]
    /\ id \in [Query -> Id \cup {NoId}]
    /\ timer \in [Query -> TimerState]
    /\ conn \in [Query -> ConnState]
    /\ ha \in SUBSET Query
    /\ recv \in [RecvConn -> Receiving]
    /\ replies \in [Query -> Seq(Reply)]

Init ==
    /\ map = [i \in Id |-> NoQuery]
    /\ id = [q \in Query |-> NoId]
    /\ timer = [q \in Query |-> "idle"]
    /\ conn = [q \in Query |-> "new"]
    /\ ha = {}
    /\ recv = [c \in RecvConn |-> Free]
    /\ replies = [q \in Query |-> << >>]

-----------------------------------------------------------------------------
(* querymap and complete_query, as the updates they make.                  *)

InMap(q) == id[q] \in Id /\ map[id[q]] = q

\* Variant: remove returns the query and leaves its entry in the map.
Erase_kept(i) == map

\* querymap::remove erases the entry of a sequence number, if there is one.
Erase(i) == [map EXCEPT ![i] = NoQuery]

\* deadline_timer::cancel on the removed query: a pending wait completes with
\* operation_aborted; a wait that has already expired is not called back.
Cancel(tm, v) ==
    [q \in Query |-> IF q = v /\ tm[q] = "armed" THEN "aborted" ELSE tm[q]]

\* complete_query(*v, rcode, result), for the query_ptr v if it is not null.
Complete(v, rcode, result, by) ==
    [q \in Query |->
        IF q = v
        THEN Append(replies[q], [rcode |-> rcode, result |-> result, by |-> by])
        ELSE replies[q]]

-----------------------------------------------------------------------------
(* A query arrives: ha_load_balancer::process_query, then                  *)
(* hasendproxy::process_query and the constructor of hasendconnection.     *)

\* Nothing is left in the gateway or at a home agent of query p.
Drained(p) ==
    /\ ~InMap(p)
    /\ timer[p] \in {"idle", "done"}
    /\ conn[p] = "closed"
    /\ p \notin ha
    /\ \A c \in RecvConn : recv[c].about # p

\* The discipline assumed when Quiet: a client sends an id again while the
\* gateway still works on it (a retransmission) or once it has drained.
MayUse(i) ==
    Quiet => map[i] # NoQuery \/ \A p \in Query : id[p] = i => Drained(p)

\* The ways a query is answered without a home agent: not an A/IN question,
\* no question or no enabled proxy, a message that cannot be composed.
Rejections == {<<"R_NOT_IMPLEMENTED", "INVALID_REQUEST">>,
               <<"R_SERVER_FAILURE", "HA_CONNECTION_ERROR">>,
               <<"R_NAME_ERROR", "INVALID_REQUEST">>}

Reject(q, i, why) ==
    /\ conn[q] = "new"
    /\ id' = [id EXCEPT ![q] = i]
    /\ conn' = [conn EXCEPT ![q] = "closed"]
    /\ replies' = Complete(q, why[1], why[2], q)
    /\ UNCHANGED <<map, timer, ha, recv>>

\* The id is outstanding: the constructor throws, process_query swallows the
\* exception, and nothing is sent.
DropDuplicate(q, i) ==
    /\ conn[q] = "new"
    /\ map[i] # NoQuery
    /\ id' = [id EXCEPT ![q] = i]
    /\ conn' = [conn EXCEPT ![q] = "closed"]
    /\ UNCHANGED <<map, timer, ha, recv, replies>>

\* querymap::insert up to the end of its critical section.
Insert(q, i) ==
    /\ conn[q] = "new"
    /\ MayUse(i)
    /\ map[i] = NoQuery
    /\ map' = [map EXCEPT ![i] = q]
    /\ id' = [id EXCEPT ![q] = i]
    /\ conn' = [conn EXCEPT ![q] = "ctor"]
    /\ UNCHANGED <<timer, ha, recv, replies>>

\* Variant: the timer is armed only when the connection is established.
ArmAndStart_no_timer(q) ==
    /\ conn[q] = "ctor"
    /\ conn' = [conn EXCEPT ![q] = "connecting"]
    /\ UNCHANGED <<map, id, timer, ha, recv, replies>>

\* The rest of insert arms the timer; hasendconnection::start connects.
ArmAndStart(q) ==
    /\ conn[q] = "ctor"
    /\ timer' = [timer EXCEPT ![q] = "armed"]
    /\ conn' = [conn EXCEPT ![q] = "connecting"]
    /\ UNCHANGED <<map, id, ha, recv, replies>>

-----------------------------------------------------------------------------
(* The deadline timer.                                                     *)

\* The deadline passes; the handler is queued.
Elapse(q) ==
    /\ timer[q] = "armed"
    /\ timer' = [timer EXCEPT ![q] = "expired"]
    /\ UNCHANGED <<map, id, conn, ha, recv, replies>>

\* The last query_ptr is gone: ~deadline_timer cancels a wait that was armed
\* after the query had been removed.
Destroy(q) ==
    /\ ~InMap(q)
    /\ conn[q] = "closed"
    /\ timer[q] = "armed"
    /\ timer' = [timer EXCEPT ![q] = "aborted"]
    /\ UNCHANGED <<map, id, conn, ha, recv, replies>>

\* Variant: the query is taken out of the map and not completed.
expire_silent(q) ==
    /\ timer[q] \in {"expired", "aborted"}
    /\ map' = Erase(id[q])
    /\ timer' = Cancel([timer EXCEPT ![q] = "done"], map[id[q]])
    /\ UNCHANGED <<id, conn, ha, recv, replies>>

\* querymap::expire, bound to the id alone: it is called with and without an
\* error and looks up whatever query has that id now.
expire(q) ==
    /\ timer[q] \in {"expired", "aborted"}
    /\ LET v == map[id[q]] IN
       /\ map' = Erase(id[q])
       /\ timer' = Cancel([timer EXCEPT ![q] = "done"], v)
       /\ replies' = Complete(v, "R_NAME_ERROR", "TIMEOUT", q)
    /\ UNCHANGED <<id, conn, ha, recv>>

-----------------------------------------------------------------------------
(* hasendconnection.                                                       *)

\* Both handlers on error: remove whatever has this id, answer own query.
Fail(q) ==
    /\ map' = Erase(id[q])
    /\ timer' = Cancel(timer, map[id[q]])
    /\ replies' = Complete(q, "R_SERVER_FAILURE", "HA_CONNECTION_ERROR", q)
    /\ conn' = [conn EXCEPT ![q] = "closed"]
    /\ UNCHANGED <<id, ha, recv>>

handle_connect(q, ok) ==
    /\ conn[q] = "connecting"
    /\ IF ok
       THEN /\ conn' = [conn EXCEPT ![q] = "writing"]
            /\ UNCHANGED <<map, id, timer, ha, recv, replies>>
       ELSE Fail(q)

\* The home agent has the whole message, possibly before the gateway runs
\* handle_query_sent.
HaReceive(q) ==
    /\ conn[q] = "writing"
    /\ conn' = [conn EXCEPT ![q] = "written"]
    /\ ha' = ha \cup {q}
    /\ UNCHANGED <<map, id, timer, recv, replies>>

handle_query_sent(q) ==
    \/ /\ conn[q] = "written"
       /\ conn' = [conn EXCEPT ![q] = "closed"]
       /\ UNCHANGED <<map, id, timer, ha, recv, replies>>
    \/ /\ conn[q] = "writing"
       /\ Fail(q)

-----------------------------------------------------------------------------
(* Home agents and harecvconnection.                                       *)

\* A home agent connects and answers q.  It echoes the sequence number, or,
\* unless Quiet, sends one that is out of range.
HaAnswer(q, c, body) ==
    /\ q \in ha
    /\ recv[c].stage = "free"
    /\ \E s \in {id[q]} \cup (IF Quiet THEN {} ELSE {MaxId + 1}) :
          recv' = [recv EXCEPT ![c] =
                     [stage |-> "desthost", seq |-> s, about |-> q, body |-> body]]
    /\ UNCHANGED <<map, id, timer, conn, ha, replies>>

HaForget(q) ==
    /\ q \in ha
    /\ ha' = ha \ {q}
    /\ UNCHANGED <<map, id, timer, conn, recv, replies>>

\* Variant: sequence_ keeps the 0 of the constructor.
handle_read_to_desthostlen_zero(c) ==
    /\ recv[c].stage = "desthost"
    /\ recv' = [recv EXCEPT ![c].stage = "skip", ![c].seq = 0]
    /\ UNCHANGED <<map, id, timer, conn, ha, replies>>

\* The message type is checked and sequence_ is set; a sequence number that
\* does not fit leaves sequence_ at the 0 the constructor gave it.
handle_read_to_desthostlen(c) ==
    /\ recv[c].stage = "desthost"
    /\ recv' = [recv EXCEPT ![c].stage = "skip",
                            ![c].seq = IF @ \in Id THEN @ ELSE 0]
    /\ UNCHANGED <<map, id, timer, conn, ha, replies>>

\* handle_read_to_srchostlen, handle_absheader_read and
\* handle_read_to_replyhostlen skip fields (the last keeps hostlen_).
SkipFields(c) ==
    /\ recv[c].stage = "skip"
    /\ recv' = [recv EXCEPT ![c].stage = "devicename_len"]
    /\ UNCHANGED <<map, id, timer, conn, ha, replies>>

\* A read error, or a message that is not an ABS_REPLY, ends the connection
\* without touching the map; so does the end of the message.
CloseRecv(c) ==
    /\ recv[c].stage \in {"desthost", "skip", "devicename"}
    /\ recv' = [recv EXCEPT ![c] = Free]
    /\ UNCHANGED <<map, id, timer, conn, ha, replies>>

\* rcode and result for a reply body.
Answer(body) ==
    CASE body = "none" -> <<"R_NAME_ERROR", "HA_RETURNED_ERROR">>
      [] body = "addr" -> <<"R_SUCCESS", "SUCCESS">>
      [] body = "junk" -> <<"R_SERVER_FAILURE", "UNKNOWN">>

\* Variant: the error path removes the query and does not answer it.
handle_read_to_devicenamelen_no_reply(c, ok) ==
    /\ recv[c].stage = "devicename_len"
    /\ map' = Erase(recv[c].seq)
    /\ timer' = Cancel(timer, map[recv[c].seq])
    /\ replies' = IF ok THEN Complete(map[recv[c].seq], Answer(recv[c].body)[1],
                                      Answer(recv[c].body)[2], recv[c].about)
                  ELSE replies
    /\ recv' = [recv EXCEPT ![c] =
                  IF ok THEN [@ EXCEPT !.stage = "devicename"] ELSE Free]
    /\ UNCHANGED <<id, conn, ha>>

\* The query with number sequence_ is removed and answered; a read error at
\* this point answers it too.
handle_read_to_devicenamelen(c, ok) ==
    /\ recv[c].stage = "devicename_len"
    /\ LET v == map[recv[c].seq]
           a == Answer(IF ok THEN recv[c].body ELSE "junk")
       IN  /\ map' = Erase(recv[c].seq)
           /\ timer' = Cancel(timer, v)
           /\ replies' = Complete(v, a[1], a[2], recv[c].about)
    /\ recv' = [recv EXCEPT ![c] =
                  IF ok THEN [@ EXCEPT !.stage = "devicename"] ELSE Free]
    /\ UNCHANGED <<id, conn, ha>>

-----------------------------------------------------------------------------

Receive(q) ==
    \E i \in Id :
        \/ \E why \in Rejections : Reject(q, i, why)
        \/ DropDuplicate(q, i)
        \/ Insert(q, i)

Timer(q) == Elapse(q) \/ Destroy(q) \/ expire(q)

Send(q) ==
    \/ ArmAndStart(q)
    \/ \E ok \in BOOLEAN : handle_connect(q, ok)
    \/ HaReceive(q)
    \/ handle_query_sent(q)

HomeAgent(q) ==
    \/ \E c \in RecvConn, body \in Body : HaAnswer(q, c, body)
    \/ HaForget(q)

Recv(c) ==
    \/ handle_read_to_desthostlen(c)
    \/ SkipFields(c)
    \/ CloseRecv(c)
    \/ \E ok \in BOOLEAN : handle_read_to_devicenamelen(c, ok)

Next ==
    \/ \E q \in Query : Receive(q) \/ Timer(q) \/ Send(q) \/ HomeAgent(q)
    \/ \E c \in RecvConn : Recv(c)

\* The io_service runs every queued handler, a started constructor returns and
\* deadlines pass.  Nothing is assumed of home agents or the network.
Fairness ==
    \A q \in Query : WF_vars(ArmAndStart(q)) /\ WF_vars(Elapse(q)) /\ WF_vars(expire(q))

Spec == Init /\ [][Next]_vars
FairSpec == Spec /\ Fairness

\* In addition connects and writes complete or fail, as TCP's own timers make
\* them, and a home agent connection that was accepted is read or closed.
LiveSpec ==
    /\ FairSpec
    /\ \A q \in Query : WF_vars(Send(q))
    /\ \A c \in RecvConn : WF_vars(Recv(c))

-----------------------------------------------------------------------------
(* Properties.                                                             *)

\* The query reached querymap::insert and was not a duplicate.
Inserted(q) == conn[q] = "ctor" \/ timer[q] # "idle"

\* No query is stranded in the map: while querymap holds a query, the timer
\* that will take it out has either still to be armed by the thread inside
\* insert, is running, or has expired with its handler queued.  It is never
\* cancelled or used up, whichever of the timeout, a home agent reply and a
\* connection error comes first, and whoever reuses the id.
Watched ==
    \A q \in Query : InMap(q) =>
        \/ conn[q] = "ctor" /\ timer[q] = "idle"
        \/ conn[q] \in ConnState \ {"new", "ctor"} /\ timer[q] \in {"armed", "expired"}

\* The queries in the map are watched, and the map is indexed with transaction
\* ids only: a number that does not fit in one is never kept in sequence_
\* (handle_read_to_desthostlen).
QueriesWatched == TypeOK /\ Watched

\* The timeout, late and duplicate home agent replies and read errors compete
\* for a query in querymap::remove, and at most one of them completes it; a
\* second reply can only be the connection error of handle_connect or
\* handle_query_sent, which answers without asking the map, and only once.
ClaimedOnce ==
    \A q \in Query : \A k, l \in DOMAIN replies[q] :
        k # l => \/ /\ replies[q][k].result = "HA_CONNECTION_ERROR"
                    /\ replies[q][l].result # "HA_CONNECTION_ERROR"
                 \/ /\ replies[q][l].result = "HA_CONNECTION_ERROR"
                    /\ replies[q][k].result # "HA_CONNECTION_ERROR"

\* A query that querymap accepted is in the map or its client has been sent a
\* reply: no handler of another query takes it out and drops it.
NoQueryForgotten ==
    \A q \in Query : Inserted(q) => InMap(q) \/ replies[q] # << >>

\* Every reply a client gets is caused by its own query: by its own deadline,
\* its own connection, or a home agent's answer to it, never by those of an
\* earlier query with the same transaction id.
OwnCause ==
    \A q \in Query : \A k \in DOMAIN replies[q] : replies[q][k].by = q

\* Every query that querymap accepted is answered in the end, whatever the
\* home agents and the network do.
EventuallyAnswered ==
    \A q \in Query : Inserted(q) ~> replies[q] # << >>
=============================================================================
