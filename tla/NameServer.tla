----------------------------- MODULE NameServer -----------------------------
(***************************************************************************)
(* The web interface of a Plexus peer (klink/server_system_test.cc): the   *)
(* workers of the embedded server run interface_callback, which registers, *)
(* updates, looks up and lists device names in name_db (peer.h), a map     *)
(* behind a readers-writer lock.  Each call on the map is one step, so the *)
(* requests of two workers interleave between calls.                       *)
(*                                                                         *)
(* A query string is the set of keys it has and their values.  A pair      *)
(* without a value makes QueryStringParser read past its vector and is     *)
(* not among the inputs, which is why 493 (empty name) is never answered.  *)
(***************************************************************************)
EXTENDS MongoosePool

CONSTANTS
    Name,       \* numbers: the map iterates in the order of the keys
    MaxTime,    \* bound on the clock
    Asks,       \* what the clients may come with: a set of functions on Sock
    Idle        \* a request that does not come to the map

\* A value is that of a key the query string has.
ASSUME NameAssumption ==
    /\ Name \subseteq Nat \ {0}
    /\ MaxTime \in Nat \ {0}
    /\ \A f \in Asks \cup {[s \in Sock |-> Idle]} : \A s \in Sock :
           /\ "method" \notin f[s].keys => f[s].method = "none"
           /\ "name" \in f[s].keys => f[s].name \in Name
           /\ f[s].timestamp \in Int

VARIABLES
    name_db,    \* for each name in the map [addr, time]
    init_rcvd,  \* this_peer->IsInitRcvd()
    now,
    ask,        \* what each client asks for
    task,       \* where a worker is in interface_callback
    cursor,     \* the last key its LookupTableIterator has passed
    listed,     \* what it has found so far
    reply,      \* the status a client got; 0 if none
    payload,    \* the names it got
    older, stale  \* at the start of a request: names registered, entries due

dirVars == <<name_db, init_rcvd, now>>
taskVars == <<task, cursor, listed>>
clientVars == <<ask, reply, payload, older, stale>>
vars == <<poolVars, dirVars, taskVars, clientVars>>

TypeOK ==
    /\ PoolTypeOK
    /\ DOMAIN name_db \subseteq Name
    /\ \A n \in DOMAIN name_db : name_db[n] \in [addr : Sock, time : 1 .. MaxTime]
    /\ now \in 1 .. MaxTime /\ init_rcvd \in BOOLEAN
    /\ ask \in Asks \cup {[s \in Sock |-> Idle]}
    /\ task \in [Worker -> {"idle", "search", "add", "list", "done"}]
    /\ cursor \in [Worker -> Name \cup {0}]
    /\ listed \in [Worker -> SUBSET Name] /\ payload \in [Sock -> SUBSET Name]
    /\ reply \in [Sock -> {0, 200, 400, 405, 451, 491, 494, 495, 496}]

NameInit ==
    /\ name_db = [n \in {} |-> 0]
    /\ task = [w \in Worker |-> "idle"]
    /\ cursor = [w \in Worker |-> 0]
    /\ listed = [w \in Worker |-> {}]
    /\ reply = [s \in Sock |-> 0]
    /\ payload = [s \in Sock |-> {}]
    /\ older = [s \in Sock |-> {}]
    /\ stale = [s \in Sock |-> {}]

\* Either the server is followed from mg_start on with clients that ask for
\* nothing, or the directory while all workers serve.
Init ==
    /\ NameInit
    /\ \/ PoolInit /\ ask = [s \in Sock |-> Idle] /\ init_rcvd = TRUE /\ now = MaxTime
       \/ /\ PoolBusy(CHOOSE f \in [Worker -> 1 .. Cardinality(Worker)] :
                          \A v, w \in Worker : f[v] = f[w] => v = w)
          /\ ask \in Asks /\ init_rcvd = FALSE /\ now = 1

-----------------------------------------------------------------------------
(* interface_callback.                                                     *)

\* The status of a request that does not come to the map; 0 if it does.
Refusal(r) ==
    IF ~init_rcvd \/ r.keys = {} THEN 200
    ELSE IF "method" \notin r.keys THEN 400
    ELSE CASE r.method \in {"register", "update"} ->
                  IF ~({"name", "port"} \subseteq r.keys) THEN 451
                  ELSE IF r.port < 1024 \/ r.port > 65535 THEN 491 ELSE 0
           [] r.method = "isavailable" ->
                  IF "name" \notin r.keys THEN 451 ELSE 0
           [] r.method = "getall" ->
                  IF "timestamp" \notin r.keys THEN 451
                  ELSE IF r.timestamp <= 0 THEN 495 ELSE 0
           [] OTHER -> 405

Registered == DOMAIN name_db
Put(n, s) == [m \in Registered \cup {n} |-> IF m = n THEN [addr |-> s, time |-> now] ELSE name_db[m]]

\* The response is printed; the worker then closes the connection.
Respond(w, code) ==
    /\ reply' = [reply EXCEPT ![client[w]] = code]
    /\ task' = [task EXCEPT ![w] = "done"]

\* read_request has the whole request.
StartRequest(w) ==
    /\ wpc[w] = "serve" /\ task[w] = "idle" /\ stop_flag = 0
    /\ LET s == client[w]
           code == Refusal(ask[s])
       IN  /\ older' = [older EXCEPT ![s] = {ask[t].name : t \in {u \in Sock : reply[u] = 200 /\ ask[u].method = "register"}}
                                                \cap Registered]
           /\ stale' = [stale EXCEPT ![s] = {n \in Registered : code = 0 /\ name_db[n].time > ask[s].timestamp}]
           /\ \/ code # 0 /\ Respond(w, code)
              \/ /\ code = 0
                 /\ task' = [task EXCEPT ![w] = IF ask[s].method = "getall" THEN "list" ELSE "search"]
                 /\ UNCHANGED reply
    /\ cursor' = [cursor EXCEPT ![w] = 0]
    /\ listed' = [listed EXCEPT ![w] = {}]
    /\ UNCHANGED <<poolVars, dirVars, ask, payload>>

\* register: searchNameDb, and addToNameDB only if the name is not there.
register(w, s) ==
    \/ /\ task[w] = "search" /\ ask[s].name \in Registered
       /\ Respond(w, 494)
       /\ UNCHANGED name_db
    \/ /\ task[w] = "search" /\ ask[s].name \notin Registered
       /\ task' = [task EXCEPT ![w] = "add"]
       /\ UNCHANGED <<name_db, reply>>

\* Variant of LookupTable::add: the entry is replaced.
AddReplacing(w, s) ==
    /\ task[w] = "add"
    /\ name_db' = Put(ask[s].name, s)
    /\ Respond(w, 200)

\* addToNameDB: LookupTable::add inserts nothing if another worker has been
\* faster, and its result is not looked at.
addToNameDB(w, s) ==
    /\ task[w] = "add"
    /\ name_db' = IF ask[s].name \in Registered THEN name_db ELSE Put(ask[s].name, s)
    /\ Respond(w, 200)

\* update: LookupTable::update inserts a name it does not find, and says so.
updateNameDB(w, s) ==
    /\ task[w] = "search"
    /\ Respond(w, IF ask[s].name \in Registered THEN 200 ELSE 496)
    /\ name_db' = Put(ask[s].name, s)

isavailable(w, s) ==
    /\ task[w] = "search"
    /\ Respond(w, IF ask[s].name \in Registered THEN 494 ELSE 200)
    /\ UNCHANGED name_db

NameStep(w) ==
    /\ wpc[w] = "serve"
    /\ LET s == client[w]
       IN  \/ ask[s].method = "register" /\ (register(w, s) \/ addToNameDB(w, s))
           \/ ask[s].method = "update" /\ updateNameDB(w, s)
           \/ ask[s].method = "isavailable" /\ isavailable(w, s)
    /\ UNCHANGED <<poolVars, init_rcvd, now, cursor, listed, ask, payload, older, stale>>

\* getall: the iterator walks the live map without its lock and looks each key
\* up under it.
Rest(w) == {n \in Registered : n > cursor[w]}

NextKey(w) == CHOOSE n \in Rest(w) : \A m \in Rest(w) : n <= m

ListNext(w) ==
    /\ wpc[w] = "serve" /\ task[w] = "list"
    /\ \/ /\ Rest(w) # {}
          /\ LET n == NextKey(w)
             IN  /\ cursor' = [cursor EXCEPT ![w] = n]
                 /\ listed' = [listed EXCEPT ![w] =
                                   IF name_db[n].time > ask[client[w]].timestamp THEN @ \cup {n} ELSE @]
          /\ UNCHANGED <<task, reply, payload>>
       \/ /\ Rest(w) = {}
          /\ payload' = [payload EXCEPT ![client[w]] = listed[w]]
          /\ Respond(w, 200)
          /\ UNCHANGED <<cursor, listed>>
    /\ UNCHANGED <<poolVars, dirVars, ask, older, stale>>

\* The request has been answered, or the client has closed the connection
\* before its request was complete, or the server stops while a worker reads.
EndRequest(w) ==
    /\ wpc[w] = "serve" /\ task[w] \in {"idle", "done"}
    /\ CloseConnection(w)
    /\ task' = [task EXCEPT ![w] = "idle"]
    /\ UNCHANGED <<dirVars, cursor, listed, clientVars>>

-----------------------------------------------------------------------------
(* The rest of the peer.                                                   *)

ReceiveInit ==
    /\ ~init_rcvd
    /\ init_rcvd' = TRUE
    /\ UNCHANGED <<poolVars, name_db, now, taskVars, clientVars>>

Tick ==
    /\ now < MaxTime
    /\ now' = now + 1
    /\ UNCHANGED <<poolVars, name_db, init_rcvd, taskVars, clientVars>>

ServeStep(w) == ~aborted /\ (StartRequest(w) \/ NameStep(w) \/ ListNext(w) \/ EndRequest(w))

Next ==
    \/ PoolStep /\ UNCHANGED <<dirVars, taskVars, clientVars>>
    \/ \E w \in Worker : ServeStep(w)
    \/ ReceiveInit
    \/ Tick

\* The threads run; clients send their request or go away; nobody has to call
\* mg_stop.
Fairness ==
    /\ WF_vars(~aborted /\ MasterStep /\ UNCHANGED <<dirVars, taskVars, clientVars>>)
    /\ WF_vars(~aborted /\ StarterStep /\ UNCHANGED <<dirVars, taskVars, clientVars>>)
    /\ \A w \in Worker :
           /\ WF_vars(~aborted /\ WorkerStep(w) /\ UNCHANGED <<dirVars, taskVars, clientVars>>)
           /\ WF_vars(ServeStep(w))

Spec == Init /\ [][Next]_vars
FairSpec == Spec /\ Fairness

-----------------------------------------------------------------------------
(* Properties.                                                             *)

\* However registrations race, the first address put under a name stays: only
\* the step of an update request changes it (LookupTable::add inserts nothing
\* over an entry).
OwnerStays ==
    [][\A n \in Registered : name_db'[n] # name_db[n] =>
           \E w \in Worker : client[w] # None /\ ask[client[w]].method = "update" /\ task'[w] = "done"]_vars

\* A name that a client was told is its own is not given to a client whose
\* request starts later; two that overlap may both be told 200.
NotGivenAgain ==
    \A s \in Sock : reply[s] = 200 /\ ask[s].method = "register" => ask[s].name \notin older[s]

\* getall returns every name whose entry was newer than the timestamp when the
\* request began, whatever is registered or updated while the map is walked.
GetallComplete ==
    \A s \in Sock : reply[s] = 200 /\ ask[s].method = "getall" => stale[s] \subseteq payload[s]

\* As long as the server runs and has a worker, every connection that is opened
\* is closed again: it was refused, answered or given up.
Served ==
    \A s \in Sock : (fate[s] = "open") ~>
        \/ fate[s] = "closed" \/ stop_flag # 0 \/ aborted
        \/ \A w \in Worker : wpc[w] = "done"

\* The pool: no wake-up is lost, and the context outlives its users
\* (produce_socket, consume_socket, worker_thread, mg_stop).
WorkersRight == TypeOK /\ NoLostWakeup /\ JoinSafe

\* The name database behind the pool: connections come out of the ring in order
\* and to one worker each, and however their requests race, a name has one owner
\* and getall misses none (produce_socket, consume_socket, interface_callback).
NamesRight == [](RingIsFifo /\ OneOwner /\ NotGivenAgain /\ GetallComplete) /\ OwnerStays
=============================================================================
