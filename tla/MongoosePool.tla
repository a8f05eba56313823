---------------------------- MODULE MongoosePool ----------------------------
(***************************************************************************)
(* The threads of the embedded web server (klink/webinterface/mongoose.c): *)
(* a master accepts connections and puts them into a ring, workers take    *)
(* them out, mg_start and mg_stop bring the threads up and down.           *)
(*                                                                         *)
(* A critical section is one step, except where the code waits: the test   *)
(* that precedes pthread_cond_wait and the wait itself are two steps with  *)
(* the mutex held in between, because stop_flag and the broadcast of       *)
(* sq_full do not take it.  Condition variables are the sets of threads    *)
(* that wait on them.  What a worker does with a connection is left to the *)
(* module that extends this one.                                           *)
(***************************************************************************)
EXTENDS Integers, Sequences, FiniteSets

CONSTANTS
    Worker,
    Connections, \* bound on the connections
    QueueSize,   \* ARRAY_SIZE(ctx->queue)
    DeniedSets,  \* which clients the access control list may turn away
    Attempts,    \* the options mg_start is called with, until it succeeds
    Busy,        \* ports other programs listen on
    MaxSpurious  \* bound on wakeups nobody asked for

Master == "master"
Starter == "starter"
Nobody == "nobody"
None == 0

ASSUME PoolAssumption ==
    /\ IsFiniteSet(Worker) /\ {Master, Starter, Nobody} \cap Worker = {}
    /\ QueueSize \in Nat \ {0}
    /\ Connections \in Nat
    /\ \A D \in DeniedSets : D \subseteq 1 .. Connections
    /\ Len(Attempts) \in Nat \ {0}
    /\ \A k \in 1 .. Len(Attempts) : \A i \in 1 .. Len(Attempts[k].ports) : Attempts[k].ports[i].port \in Nat
    /\ MaxSpurious \in Nat

\* Sockets are numbered in the order the connections are made.
Sock == 1 .. Connections

VARIABLES
    stop_flag, queue, sq_head, sq_tail, num_threads, mutex,
    sq_full, sq_empty, cond,   \* the threads waiting on each
    spc,       \* the application: mg_start, running, mg_stop
    attempt,   \* which element of Attempts
    listening, \* the ports of ctx->listening_sockets
    denied,    \* the clients the access control list turns away
    leaked,    \* ports nothing will ever close
    mpc, accepted,             \* the master, and the socket it has accepted
    wpc, client,               \* the workers, and conn->client
    loaded,    \* num_threads as the starter or a leaving worker has read it
    backlog,   \* connections the kernel holds for accept
    fate,      \* of each socket: new, open, closed
    dropped,   \* sockets nobody will close: queued or taken when the server stops
    oom,       \* a worker found no memory for its connection
    aborted,   \* an assertion failed
    spurious,
    produced, consumed         \* what has gone into and come out of the ring

syncVars == <<stop_flag, queue, sq_head, sq_tail, num_threads, mutex, sq_full, sq_empty, cond, spurious, aborted>>
startVars == <<spc, attempt, listening, leaked, denied>>
masterVars == <<mpc, accepted>>
workerVars == <<wpc, client, oom>>
sockVars == <<backlog, fate, dropped>>
historyVars == <<produced, consumed>>
poolVars == <<syncVars, startVars, masterVars, workerVars, loaded, sockVars, historyVars>>

PoolTypeOK ==
    /\ stop_flag \in 0 .. 2
    /\ queue \in [0 .. QueueSize - 1 -> Sock \cup {None}]
    /\ sq_head \in 0 .. 2 * QueueSize /\ sq_tail \in 0 .. QueueSize
    /\ num_threads \in -1 .. Cardinality(Worker)
    /\ mutex \in Worker \cup {Master, Nobody}
    /\ sq_full \subseteq Worker /\ sq_empty \subseteq {Master} /\ cond \subseteq {Master}
    /\ spc \in {"start", "spawn", "load", "store", "running", "stopping", "stopped", "failed"}
    /\ mpc \in {"off", "select", "produce", "pwait", "broadcast", "join", "jwait", "end", "done"}
    /\ accepted \in Sock \cup {None}
    /\ wpc \in [Worker -> {"off", "alloc", "lock", "towait", "waiting", "check", "serve", "leave", "store", "done"}]
    /\ client \in [Worker -> Sock \cup {None}]
    /\ fate \in [Sock -> {"new", "open", "closed"}]
    /\ dropped \subseteq Sock
    /\ denied \in DeniedSets \cup {{}}
    /\ listening \subseteq Nat /\ leaked \subseteq Nat
    /\ attempt \in 1 .. Len(Attempts) + 1
    /\ loaded \in [Worker \cup {Starter} -> Int]
    /\ oom \in BOOLEAN /\ aborted \in BOOLEAN
    /\ spurious \in 0 .. MaxSpurious

\* Sockets 1 .. taken are being served, sockets taken + 1 .. made are queued.
PoolQuiet(taken, made) ==
    /\ stop_flag = 0 /\ sq_head = made /\ sq_tail = taken
    /\ queue = [i \in 0 .. QueueSize - 1 |->
                   IF \E s \in 1 .. made : (s - 1) % QueueSize = i
                   THEN CHOOSE s \in 1 .. made : (s - 1) % QueueSize = i /\ s + QueueSize > made
                   ELSE None]
    /\ mutex = Nobody
    /\ sq_full = {} /\ sq_empty = {} /\ cond = {}
    /\ leaked = {}
    /\ accepted = None
    /\ loaded = [t \in Worker \cup {Starter} |-> 0]
    /\ backlog = <<>> /\ fate = [s \in Sock |-> IF s <= made THEN "open" ELSE "new"] /\ dropped = {}
    /\ oom = FALSE /\ aborted = FALSE
    /\ produced = [i \in 1 .. made |-> i] /\ consumed = [i \in 1 .. taken |-> i]

\* mg_start is about to be called.
PoolInit ==
    /\ PoolQuiet(0, 0)
    /\ client = [w \in Worker |-> None]
    /\ denied \in DeniedSets /\ spurious = 0
    /\ spc = "start" /\ attempt = 1 /\ listening = {}
    /\ mpc = "off" /\ wpc = [w \in Worker |-> "off"] /\ num_threads = 0

\* Every worker has been handed a connection and others wait in the ring, as
\* many as it has room for.
PoolBusy(serving) ==
    /\ Cardinality(Worker) <= QueueSize /\ Cardinality(Worker) <= Connections
    /\ PoolQuiet(Cardinality(Worker), IF Cardinality(Worker) + QueueSize < Connections
                                      THEN Cardinality(Worker) + QueueSize ELSE Connections)
    /\ denied = {} /\ spurious = MaxSpurious
    /\ spc = "running" /\ attempt = Len(Attempts)
    /\ listening = {Attempts[attempt].ports[i].port : i \in 1 .. Len(Attempts[attempt].ports)}
    /\ mpc = "select" /\ wpc = [w \in Worker |-> "serve"] /\ num_threads = Cardinality(Worker)
    /\ client = serving

\* What is in the ring, from the tail to the head.
Fill == sq_head - sq_tail
Ring == [i \in 1 .. Fill |-> queue[(sq_tail + i - 1) % QueueSize]]

-----------------------------------------------------------------------------
(* mg_start.                                                               *)

\* A port can be listened on if the specification parses, no certificate is
\* missing, and nobody, an earlier element of the list included, has it.
Usable(ports, i) ==
    /\ ports[i].parses /\ ~ports[i].ssl
    /\ ports[i].port \notin Busy \cup leaked
    /\ \A j \in 1 .. i - 1 : ports[j].port # ports[i].port

\* The sockets opened before the one that fails are closed again.
set_ports_option(ports) ==
    IF \A i \in 1 .. Len(ports) : Usable(ports, i)
    THEN {ports[i].port : i \in 1 .. Len(ports)}
    ELSE {}

\* The order is: passwords file, ports, user, access control list.  The ports
\* stay bound when one of the last two fails.
mg_start ==
    /\ spc = "start"
    /\ LET opt == Attempts[attempt]
           ports == IF opt.gpass THEN set_ports_option(opt.ports) ELSE {}
       IN  \/ /\ ports # {} /\ opt.uid /\ opt.acl
              /\ listening' = ports
              /\ mpc' = "select"
              /\ spc' = "spawn"
              /\ UNCHANGED <<attempt, leaked>>
           \/ /\ ~(ports # {} /\ opt.uid /\ opt.acl)
              /\ leaked' = leaked \cup ports
              /\ attempt' = attempt + 1
              /\ spc' = IF attempt = Len(Attempts) THEN "failed" ELSE "start"
              /\ UNCHANGED <<listening, mpc>>
    /\ UNCHANGED <<syncVars, denied, accepted, workerVars, loaded, sockVars, historyVars>>

\* One turn of the loop: the thread may not start; if it does, num_threads is
\* incremented without the mutex, a load and a store.
SpawnWorker(w) ==
    /\ spc = "spawn" /\ wpc[w] = "off"
    /\ \/ wpc' = [wpc EXCEPT ![w] = "alloc"] /\ spc' = "load"
       \/ wpc' = [wpc EXCEPT ![w] = "done"] /\ spc' = "spawn"
    /\ UNCHANGED <<syncVars, attempt, listening, leaked, denied, masterVars, client, oom, loaded, sockVars, historyVars>>

CountWorker ==
    \/ /\ spc = "load" /\ spc' = "store"
       /\ loaded' = [loaded EXCEPT ![Starter] = num_threads]
       /\ UNCHANGED num_threads
    \/ /\ spc = "store" /\ spc' = "spawn"
       /\ num_threads' = loaded[Starter] + 1
       /\ loaded' = [loaded EXCEPT ![Starter] = 0]

CountStep ==
    /\ CountWorker
    /\ UNCHANGED <<stop_flag, queue, sq_head, sq_tail, mutex, sq_full, sq_empty, cond, spurious, aborted>>
    /\ UNCHANGED <<attempt, listening, leaked, denied, masterVars, workerVars, sockVars, historyVars>>

StartReturns ==
    /\ spc = "spawn" /\ \A w \in Worker : wpc[w] # "off"
    /\ spc' = "running"
    /\ UNCHANGED <<syncVars, attempt, listening, leaked, denied, masterVars, workerVars, loaded, sockVars, historyVars>>

-----------------------------------------------------------------------------
(* Clients.                                                                *)

Connect(s) ==
    /\ fate[s] = "new" /\ listening # {}
    /\ \A t \in 1 .. s - 1 : fate[t] # "new"
    /\ fate' = [fate EXCEPT ![s] = "open"]
    /\ backlog' = Append(backlog, s)
    /\ UNCHANGED <<syncVars, startVars, masterVars, workerVars, loaded, dropped, historyVars>>

-----------------------------------------------------------------------------
(* Condition variables.                                                    *)

\* Variant: nobody is woken.
SignalNobody == UNCHANGED <<sq_full, wpc>>

\* pthread_cond_signal(sq_full): one waiting worker, if there is one, goes back
\* to the mutex.
SignalFull ==
    \/ /\ sq_full = {}
       /\ UNCHANGED <<sq_full, wpc>>
    \/ \E w \in sq_full :
           /\ sq_full' = sq_full \ {w}
           /\ wpc' = [wpc EXCEPT ![w] = "lock"]

\* A wait may also end without a signal.
SpuriousWakeup(w) ==
    /\ spurious < MaxSpurious
    /\ w \in sq_full
    /\ spurious' = spurious + 1
    /\ sq_full' = sq_full \ {w}
    /\ wpc' = [wpc EXCEPT ![w] = "lock"]
    /\ UNCHANGED <<stop_flag, queue, sq_head, sq_tail, num_threads, mutex, sq_empty, cond, aborted>>
    /\ UNCHANGED <<startVars, masterVars, client, oom, loaded, sockVars, historyVars>>

-----------------------------------------------------------------------------
(* The master thread.                                                      *)

\* Variant: a connection that is not allowed is not closed.
AcceptForgets ==
    /\ mpc = "select" /\ stop_flag = 0 /\ backlog # <<>>
    /\ backlog' = Tail(backlog)
    /\ \/ /\ Head(backlog) \notin denied
          /\ accepted' = Head(backlog) /\ mpc' = "produce"
       \/ /\ Head(backlog) \in denied
          /\ UNCHANGED <<accepted, mpc>>
    /\ UNCHANGED <<syncVars, startVars, workerVars, loaded, fate, dropped, historyVars>>

\* select reports a listening socket; accept_new_connection.
Accept ==
    /\ mpc = "select" /\ stop_flag = 0 /\ backlog # <<>>
    /\ backlog' = Tail(backlog)
    /\ LET s == Head(backlog)
       IN  \/ /\ s \notin denied
              /\ accepted' = s /\ mpc' = "produce"
              /\ UNCHANGED fate
           \/ /\ s \in denied
              /\ fate' = [fate EXCEPT ![s] = "closed"]
              /\ UNCHANGED <<accepted, mpc>>
    /\ UNCHANGED <<syncVars, startVars, workerVars, loaded, dropped, historyVars>>

InsertSocket ==
    /\ queue' = [queue EXCEPT ![sq_head % QueueSize] = accepted]
    /\ sq_head' = sq_head + 1
    /\ produced' = Append(produced, accepted)

\* produce_socket with the mutex: wait if the queue is full, else insert and
\* signal.  When the server stops and the queue is full the socket is lost.
produce_socket ==
    /\ mpc = "produce" /\ mutex = Nobody
    /\ \/ /\ stop_flag = 0 /\ Fill >= QueueSize
          /\ mutex' = Master /\ mpc' = "pwait"
          /\ UNCHANGED <<queue, sq_head, produced, sq_full, wpc, accepted, dropped>>
       \/ /\ Fill < QueueSize
          /\ InsertSocket
          /\ SignalFull
          /\ mpc' = "select" /\ accepted' = None
          /\ UNCHANGED <<mutex, dropped>>
       \/ /\ stop_flag # 0 /\ Fill >= QueueSize
          /\ dropped' = dropped \cup {accepted}
          /\ SignalFull
          /\ mpc' = "select" /\ accepted' = None
          /\ UNCHANGED <<queue, sq_head, produced, mutex>>
    /\ UNCHANGED <<stop_flag, sq_tail, num_threads, sq_empty, cond, spurious, aborted>>
    /\ UNCHANGED <<startVars, client, oom, loaded, backlog, fate, consumed>>

\* pthread_cond_wait releases the mutex and sleeps.  The master comes back to
\* "produce" or "join" when it is signalled.
MasterWaits ==
    /\ mutex = Master /\ mutex' = Nobody
    /\ \/ /\ mpc = "pwait" /\ sq_empty' = {Master}
          /\ UNCHANGED cond
       \/ /\ mpc = "jwait" /\ cond' = {Master}
          /\ UNCHANGED sq_empty
    /\ UNCHANGED <<stop_flag, queue, sq_head, sq_tail, num_threads, sq_full, spurious, aborted>>
    /\ UNCHANGED <<startVars, masterVars, workerVars, loaded, sockVars, historyVars>>

\* The loop ends; the listening sockets are closed, and the kernel resets the
\* connections nobody has accepted.
StopAccepting ==
    /\ mpc = "select" /\ stop_flag # 0
    /\ mpc' = "broadcast"
    /\ listening' = {}
    /\ fate' = [s \in Sock |-> IF \E i \in 1 .. Len(backlog) : backlog[i] = s THEN "closed" ELSE fate[s]]
    /\ backlog' = <<>>
    /\ UNCHANGED <<syncVars, spc, attempt, leaked, denied, accepted, workerVars, loaded, dropped, historyVars>>

\* Without the mutex.
BroadcastFull ==
    /\ mpc = "broadcast"
    /\ mpc' = "join"
    /\ sq_full' = {}
    /\ wpc' = [w \in Worker |-> IF w \in sq_full THEN "lock" ELSE wpc[w]]
    /\ UNCHANGED <<stop_flag, queue, sq_head, sq_tail, num_threads, mutex, sq_empty, cond, spurious, aborted>>
    /\ UNCHANGED <<startVars, accepted, client, oom, loaded, sockVars, historyVars>>

JoinWorkers ==
    /\ mpc = "join" /\ mutex = Nobody
    /\ \/ /\ num_threads > 0
          /\ mutex' = Master /\ mpc' = "jwait"
       \/ /\ num_threads <= 0
          /\ mpc' = "end"
          /\ UNCHANGED mutex
    /\ UNCHANGED <<stop_flag, queue, sq_head, sq_tail, num_threads, sq_full, sq_empty, cond, spurious, aborted>>
    /\ UNCHANGED <<startVars, accepted, workerVars, loaded, sockVars, historyVars>>

\* Mutex and condition variables are destroyed; what is still in the queue is
\* never closed.
MasterEnds ==
    /\ mpc = "end"
    /\ mpc' = "done"
    /\ stop_flag' = 2
    /\ dropped' = dropped \cup {queue[i % QueueSize] : i \in sq_tail .. sq_head - 1}
    /\ UNCHANGED <<queue, sq_head, sq_tail, num_threads, mutex, sq_full, sq_empty, cond, spurious, aborted>>
    /\ UNCHANGED <<startVars, accepted, workerVars, loaded, backlog, fate, historyVars>>

-----------------------------------------------------------------------------
(* The workers.                                                            *)

\* calloc of the connection.
Allocate(w) ==
    /\ wpc[w] = "alloc"
    /\ \/ wpc' = [wpc EXCEPT ![w] = "lock"] /\ UNCHANGED oom
       \/ wpc' = [wpc EXCEPT ![w] = "leave"] /\ oom' = TRUE
    /\ UNCHANGED <<syncVars, startVars, masterVars, client, loaded, sockVars, historyVars>>

\* The ring's pointers are brought back once the tail has passed the end.
TakeSocket(w) ==
    LET wrap == IF sq_tail + 1 > QueueSize THEN QueueSize ELSE 0
    IN  /\ client' = [client EXCEPT ![w] = queue[sq_tail % QueueSize]]
        /\ consumed' = Append(consumed, queue[sq_tail % QueueSize])
        /\ sq_tail' = sq_tail + 1 - wrap
        /\ sq_head' = sq_head - wrap

\* sq_empty is signalled whether or not a socket was taken.
SignalEmpty ==
    /\ sq_empty' = {}
    /\ mpc' = IF sq_empty = {} THEN mpc ELSE "produce"

consume_socket(w) ==
    /\ wpc[w] = "lock" /\ mutex = Nobody
    /\ \/ /\ sq_head = sq_tail /\ stop_flag = 0
          /\ mutex' = w
          /\ wpc' = [wpc EXCEPT ![w] = "towait"]
          /\ UNCHANGED <<sq_tail, sq_head, client, consumed, sq_empty, mpc>>
       \/ /\ sq_head > sq_tail
          /\ TakeSocket(w)
          /\ SignalEmpty
          /\ wpc' = [wpc EXCEPT ![w] = "check"]
          /\ UNCHANGED mutex
       \/ /\ sq_head = sq_tail /\ stop_flag # 0
          /\ SignalEmpty
          /\ wpc' = [wpc EXCEPT ![w] = "check"]
          /\ UNCHANGED <<sq_tail, sq_head, client, consumed, mutex>>
    /\ UNCHANGED <<stop_flag, queue, num_threads, sq_full, cond, spurious, aborted>>
    /\ UNCHANGED <<startVars, accepted, oom, loaded, sockVars, produced>>

WorkerWaits(w) ==
    /\ wpc[w] = "towait"
    /\ mutex' = Nobody
    /\ sq_full' = sq_full \cup {w}
    /\ wpc' = [wpc EXCEPT ![w] = "waiting"]
    /\ UNCHANGED <<stop_flag, queue, sq_head, sq_tail, num_threads, sq_empty, cond, spurious, aborted>>
    /\ UNCHANGED <<startVars, masterVars, client, oom, loaded, sockVars, historyVars>>

\* stop_flag is read again after the mutex is released: a socket that was taken
\* in the meantime is neither served nor closed.
CheckStop(w) ==
    /\ wpc[w] = "check"
    /\ \/ /\ stop_flag = 0
          /\ wpc' = [wpc EXCEPT ![w] = "serve"]
          /\ UNCHANGED <<client, dropped>>
       \/ /\ stop_flag # 0
          /\ wpc' = [wpc EXCEPT ![w] = "leave"]
          /\ client' = [client EXCEPT ![w] = None]
          /\ dropped' = dropped \cup ({client[w]} \ {None})
    /\ UNCHANGED <<syncVars, startVars, masterVars, oom, loaded, backlog, fate, historyVars>>

\* close_connection, after process_new_connection.
CloseConnection(w) ==
    /\ fate' = [fate EXCEPT ![client[w]] = "closed"]
    /\ client' = [client EXCEPT ![w] = None]
    /\ wpc' = [wpc EXCEPT ![w] = "lock"]
    /\ UNCHANGED <<syncVars, startVars, masterVars, oom, loaded, backlog, dropped, historyVars>>

\* The last critical section of a worker; the decrement is a load and a store,
\* and the increment of mg_start may come between them.
LeaveLoad(w) ==
    /\ wpc[w] = "leave" /\ mutex = Nobody
    /\ mutex' = w
    /\ loaded' = [loaded EXCEPT ![w] = num_threads]
    /\ wpc' = [wpc EXCEPT ![w] = "store"]
    /\ UNCHANGED <<stop_flag, queue, sq_head, sq_tail, num_threads, sq_full, sq_empty, cond, spurious, aborted>>
    /\ UNCHANGED <<startVars, masterVars, client, oom, sockVars, historyVars>>

LeaveStore(w) ==
    /\ wpc[w] = "store"
    /\ num_threads' = loaded[w] - 1
    /\ loaded' = [loaded EXCEPT ![w] = 0]
    /\ aborted' = (num_threads' < 0)
    /\ cond' = {}
    /\ mpc' = IF cond = {} THEN mpc ELSE "join"
    /\ mutex' = Nobody
    /\ wpc' = [wpc EXCEPT ![w] = "done"]
    /\ UNCHANGED <<stop_flag, queue, sq_head, sq_tail, sq_full, sq_empty, spurious>>
    /\ UNCHANGED <<startVars, accepted, client, oom, sockVars, historyVars>>

-----------------------------------------------------------------------------
(* mg_stop.                                                                *)

mg_stop ==
    /\ spc = "running"
    /\ spc' = "stopping" /\ stop_flag' = 1
    /\ UNCHANGED <<queue, sq_head, sq_tail, num_threads, mutex, sq_full, sq_empty, cond, spurious, aborted>>
    /\ UNCHANGED <<attempt, listening, leaked, denied, masterVars, workerVars, loaded, sockVars, historyVars>>

StopReturns ==
    /\ spc = "stopping" /\ stop_flag = 2
    /\ spc' = "stopped"
    /\ UNCHANGED <<syncVars, attempt, listening, leaked, denied, masterVars, workerVars, loaded, sockVars, historyVars>>

MasterStep == Accept \/ produce_socket \/ MasterWaits \/ StopAccepting \/ BroadcastFull \/ JoinWorkers \/ MasterEnds
WorkerStep(w) ==
    \/ Allocate(w) \/ consume_socket(w) \/ WorkerWaits(w) \/ CheckStop(w) \/ LeaveLoad(w) \/ LeaveStore(w)
StarterStep == mg_start \/ (\E w \in Worker : SpawnWorker(w)) \/ CountStep \/ StartReturns \/ StopReturns

PoolStep ==
    /\ ~aborted
    /\ \/ MasterStep \/ StarterStep \/ mg_stop
       \/ \E w \in Worker : WorkerStep(w) \/ SpuriousWakeup(w)
       \/ \E s \in Sock : Connect(s)

-----------------------------------------------------------------------------
(* Properties.                                                             *)

\* The ring hands sockets out in the order they went in, none twice and none
\* lost, wherever the pointers stand: what has been produced is what has been
\* consumed followed by what is in the ring.
RingIsFifo == produced = consumed \o Ring

\* While the server runs nobody sleeps through work: if workers wait for
\* sockets, at least as many others are on their way to the ring as there are
\* sockets in it, and the master waits for room only while there is none
\* (each change of the ring is signalled under the mutex).
NoLostWakeup ==
    stop_flag = 0 =>
        /\ sq_full # {} => Cardinality({w \in Worker : wpc[w] = "lock"}) >= Fill
        /\ sq_empty # {} => Fill >= QueueSize

\* A socket is held by one thread at most and is not closed while it is held
\* or waits to be served.
OneOwner ==
    /\ \A v, w \in Worker : client[v] = client[w] => v = w \/ client[v] = None
    /\ \A w \in Worker : client[w] # None => fate[client[w]] = "open"
    /\ \A i \in sq_tail .. sq_head - 1 :
           /\ fate[queue[i % QueueSize]] = "open"
           /\ \A w \in Worker : client[w] # queue[i % QueueSize]

\* The master destroys the mutex, and mg_stop frees the context, only when no
\* worker uses them any more; workers that find no memory may upset the count.
JoinSafe ==
    mpc \in {"end", "done"} /\ ~oom => \A w \in Worker : wpc[w] \in {"off", "done"}
=============================================================================
