------------------------- MODULE NameServerProofs -------------------------
(***************************************************************************)
(* That connections come out of the web server's ring in order and to one  *)
(* worker each, and that the name database behind it is right whatever the *)
(* requests of its workers race with: for every number of workers, size of *)
(* the ring, number of clients and combination of requests.                *)
(***************************************************************************)
EXTENDS NameServer, FiniteSetTheorems, SequenceTheorems, TLAPS

-----------------------------------------------------------------------------
(* Sequences without repetitions.                                          *)

In(s) == {s[i] : i \in 1 .. Len(s)}
Distinct(s) == \A i, j \in 1 .. Len(s) : s[i] = s[j] => i = j

\* An element that is not there yet may be appended.
LEMMA DistinctAppend ==
    ASSUME NEW S, NEW s \in Seq(S), NEW e \in S, Distinct(s), e \notin In(s)
    PROVE  /\ Append(s, e) \in Seq(S) /\ Distinct(Append(s, e))
           /\ In(Append(s, e)) = In(s) \cup {e}
<1>1. Append(s, e) \in Seq(S) /\ Len(Append(s, e)) = Len(s) + 1
  OBVIOUS
<1>2. \A i \in 1 .. Len(s) : i \in 1 .. Len(Append(s, e)) /\ Append(s, e)[i] = s[i] /\ s[i] # e
  BY <1>1 DEF In
<1>3. Len(s) + 1 \in 1 .. Len(Append(s, e)) /\ Append(s, e)[Len(s) + 1] = e
  BY <1>1
<1>4. \A i \in 1 .. Len(Append(s, e)) : i \in 1 .. Len(s) \/ i = Len(s) + 1
  BY <1>1
<1>5. In(Append(s, e)) = In(s) \cup {e}
  BY <1>1, <1>2, <1>3, <1>4 DEF In
<1>6. Distinct(Append(s, e))
  BY <1>2, <1>3, <1>4 DEF Distinct
<1> QED BY <1>1, <1>5, <1>6

\* What is left of a line when its first element goes.
LEMMA DistinctTail ==
    ASSUME NEW S, NEW s \in Seq(S), s # <<>>, Distinct(s)
    PROVE  /\ Tail(s) \in Seq(S) /\ Distinct(Tail(s))
           /\ Head(s) \in S /\ Head(s) \in In(s)
           /\ In(Tail(s)) = In(s) \ {Head(s)}
<1>1. /\ Tail(s) \in Seq(S) /\ Len(s) \in Nat \ {0} /\ Len(Tail(s)) = Len(s) - 1
      /\ Head(s) = s[1] /\ Head(s) \in S
  OBVIOUS
<1>2. \A i \in 1 .. Len(Tail(s)) : i + 1 \in 1 .. Len(s) /\ Tail(s)[i] = s[i + 1] /\ i + 1 # 1
  BY <1>1
<1>3. 1 \in 1 .. Len(s)
  BY <1>1
<1>4. \A i \in 1 .. Len(s) : i = 1 \/ (i - 1 \in 1 .. Len(Tail(s)) /\ (i - 1) + 1 = i)
  BY <1>1
<1>5. Distinct(Tail(s))
  BY <1>2 DEF Distinct
<1>6. In(Tail(s)) \subseteq In(s) \ {Head(s)}
  BY <1>1, <1>2, <1>3 DEF In, Distinct
<1>7. In(s) \ {Head(s)} \subseteq In(Tail(s))
  BY <1>1, <1>2, <1>4 DEF In
<1> QED BY <1>1, <1>3, <1>5, <1>6, <1>7 DEF In

-----------------------------------------------------------------------------
(* The ring.                                                               *)

LEMMA RingSize == QueueSize \in Nat \ {0}
BY PoolAssumption

LEMMA SlotRange ==
    ASSUME NEW n \in Nat
    PROVE  n % QueueSize \in 0 .. QueueSize - 1
BY RingSize

LEMMA SlotOf ==
    ASSUME NEW r \in 0 .. QueueSize - 1, NEW k \in Nat
    PROVE  (k * QueueSize + r) % QueueSize = r
BY RingSize

LEMMA Turns ==
    ASSUME NEW n \in Nat
    PROVE  \E k \in Nat : n = k * QueueSize + (n % QueueSize)
<1>1. n \div QueueSize \in Nat /\ n = (n \div QueueSize) * QueueSize + (n % QueueSize)
  BY RingSize
<1> QED BY <1>1

LEMMA SlotAgain ==
    ASSUME NEW n \in Nat
    PROVE  (n + QueueSize) % QueueSize = n % QueueSize
<1>1. PICK k \in Nat : n = k * QueueSize + (n % QueueSize)
  BY Turns
<1> DEFINE r == n % QueueSize
<1>2. r \in 0 .. QueueSize - 1 /\ k + 1 \in Nat /\ n = k * QueueSize + r
  BY <1>1, SlotRange
<1> HIDE DEF r
<1>3. n + QueueSize = (k + 1) * QueueSize + r
  BY <1>2, RingSize
<1>4. ((k + 1) * QueueSize + r) % QueueSize = r
  BY <1>2, SlotOf
<1> QED BY <1>3, <1>4 DEF r

\* Two positions less than a turn apart have different slots.
LEMMA SlotsDiffer ==
    ASSUME NEW m \in Nat, NEW n \in Nat, m < n, n - m < QueueSize
    PROVE  m % QueueSize # n % QueueSize
<1> SUFFICES ASSUME m % QueueSize = n % QueueSize PROVE FALSE
  OBVIOUS
<1> DEFINE r == m % QueueSize
<1>0. QueueSize \in Nat \ {0} /\ r \in 0 .. QueueSize - 1
  BY RingSize, SlotRange
<1>1. PICK j \in Nat : m = j * QueueSize + r
  BY Turns
<1>2. PICK k \in Nat : n = k * QueueSize + r
  BY Turns
<1> HIDE DEF r
<1>3. n - m = (k - j) * QueueSize
  BY <1>0, <1>1, <1>2
<1>4. ASSUME NEW d \in Int, d * QueueSize > 0  PROVE d * QueueSize >= QueueSize
  <2>1. d >= 1
    BY <1>0, <1>4
  <2> QED BY <1>0, <2>1
<1> DEFINE d == k - j
<1>5. d \in Int /\ n - m = d * QueueSize
  BY <1>3
<1> HIDE DEF d
<1>6. n - m >= QueueSize
  BY <1>4, <1>5
<1> QED BY <1>0, <1>6

\* The pointers of the ring.
RingTyped ==
    /\ queue \in [0 .. QueueSize - 1 -> Sock \cup {None}]
    /\ sq_head \in Nat /\ sq_tail \in 0 .. QueueSize
    /\ sq_tail <= sq_head /\ sq_head - sq_tail <= QueueSize

LEMMA RingLength ==
    ASSUME RingTyped, Ring \in Seq(Sock)
    PROVE  /\ Fill \in Nat /\ Len(Ring) = Fill
           /\ \A i \in 1 .. Fill : Ring[i] = queue[(sq_tail + (i - 1)) % QueueSize]
<1>1. Fill \in Nat
  BY PoolAssumption DEF RingTyped, Fill
<1> QED BY <1>1 DEF Ring

\* produce_socket appends to it.
LEMMA InsertRing ==
    ASSUME RingTyped, Ring \in Seq(Sock), accepted \in Sock, Fill < QueueSize,
           InsertSocket, sq_tail' = sq_tail
    PROVE  RingTyped' /\ Ring' = Append(Ring, accepted)
<1>0. QueueSize \in Nat \ {0}
  BY PoolAssumption
<1>a. Fill \in Nat /\ Len(Ring) = Fill
  BY RingLength
<1>b. sq_head' \in Nat /\ sq_tail' \in 0 .. QueueSize /\ sq_tail' <= sq_head'
      /\ sq_head' - sq_tail' <= QueueSize /\ sq_head' - sq_tail' = (sq_head - sq_tail) + 1
  BY <1>0 DEF RingTyped, Fill, InsertSocket
<1>c. queue' \in [0 .. QueueSize - 1 -> Sock \cup {None}]
  BY DEF RingTyped, InsertSocket
<1>1. RingTyped' /\ Fill' = Fill + 1 /\ Fill \in Nat /\ Len(Ring) = Fill
  BY <1>a, <1>b, <1>c DEF RingTyped, Fill
<1>2. queue'[sq_head % QueueSize] = accepted
  BY SlotRange DEF RingTyped, InsertSocket
<1>3. ASSUME NEW i \in 1 .. Fill
      PROVE  queue'[(sq_tail + (i - 1)) % QueueSize] = Ring[i]
  <2>1. /\ sq_tail + (i - 1) \in Nat /\ sq_tail + (i - 1) < sq_head
        /\ sq_head - (sq_tail + (i - 1)) < QueueSize
    BY <1>0, <1>1 DEF RingTyped, Fill
  <2> DEFINE k == sq_tail + (i - 1)
  <2>2. k % QueueSize # sq_head % QueueSize /\ k % QueueSize \in 0 .. QueueSize - 1
    BY <2>1, SlotsDiffer, SlotRange DEF RingTyped
  <2>3. queue'[k % QueueSize] = queue[k % QueueSize]
    BY <2>2 DEF RingTyped, InsertSocket
  <2> QED BY <2>3, RingLength
<1>4. sq_tail + ((Fill + 1) - 1) = sq_head
  BY <1>0 DEF RingTyped, Fill
<1>5. Ring' = [i \in 1 .. Fill + 1 |-> IF i <= Fill THEN Ring[i] ELSE accepted]
  <2>1. Ring' = [i \in 1 .. Fill + 1 |-> queue'[(sq_tail + (i - 1)) % QueueSize]]
    BY <1>1 DEF Ring
  <2>2. \A i \in 1 .. Fill + 1 : i \in 1 .. Fill \/ i = Fill + 1
    BY <1>1
  <2>3. \A i \in 1 .. Fill + 1 : queue'[(sq_tail + (i - 1)) % QueueSize]
                                   = IF i <= Fill THEN Ring[i] ELSE accepted
    BY <1>1, <1>2, <1>3, <1>4, <2>2
  <2> QED BY <2>1, <2>3
<1>6. Ring' \in Seq(Sock) /\ Len(Ring') = Fill + 1
  BY <1>1, <1>5, ElementOfSeq
<1>7. Ring' = Append(Ring, accepted)
  <2> DEFINE t == Append(Ring, accepted)
  <2>1. /\ t \in Seq(Sock) /\ Len(t) = Fill + 1 /\ t[Fill + 1] = accepted
        /\ \A i \in 1 .. Fill : t[i] = Ring[i]
    BY <1>1, AppendProperties
  <2> HIDE DEF t
  <2>2. \A i \in 1 .. Fill + 1 : Ring'[i] = t[i]
    BY <2>1, <1>1, <1>5
  <2>3. Ring' = t
    BY <2>1, <2>2, <1>6, SeqEqual
  <2> QED BY <2>3 DEF t
<1> QED BY <1>1, <1>7

\* consume_socket takes the first of it, wherever the pointers wrap.
LEMMA TakeRing ==
    ASSUME RingTyped, Ring \in Seq(Sock), sq_head > sq_tail, NEW w \in Worker,
           TakeSocket(w), queue' = queue
    PROVE  /\ RingTyped' /\ Ring # <<>> /\ Ring' = Tail(Ring)
           /\ queue[sq_tail % QueueSize] = Head(Ring)
<1>0. QueueSize \in Nat \ {0}
  BY PoolAssumption
<1>1. Fill \in Nat \ {0} /\ Len(Ring) = Fill
  BY <1>0, RingLength DEF RingTyped, Fill
<1>2. Ring # <<>> /\ Head(Ring) = Ring[1]
  BY <1>1
<1>3. sq_tail + (1 - 1) = sq_tail
  BY DEF RingTyped
<1>4. Ring[1] = queue[sq_tail % QueueSize]
  BY <1>1, <1>3, RingLength
<1> DEFINE wrap == IF sq_tail + 1 > QueueSize THEN QueueSize ELSE 0
<1>5. sq_tail' = (sq_tail + 1) - wrap /\ sq_head' = sq_head - wrap
  BY <1>0 DEF TakeSocket, RingTyped
<1>6. RingTyped' /\ Fill' = Fill - 1
  BY <1>0, <1>5 DEF RingTyped, Fill
<1>7. ASSUME NEW i \in 1 .. Fill - 1
      PROVE  queue[(sq_tail' + (i - 1)) % QueueSize] = Ring[i + 1]
  <2>1. i + 1 \in 1 .. Fill /\ (i + 1) - 1 = i
    BY <1>1
  <2>2. Ring[i + 1] = queue[(sq_tail + i) % QueueSize]
    BY <2>1, RingLength
  <2>3. CASE sq_tail + 1 > QueueSize
    <3>1. sq_tail + i = (sq_tail' + (i - 1)) + QueueSize /\ sq_tail' + (i - 1) \in Nat
      BY <1>0, <1>1, <1>5, <2>3 DEF RingTyped
    <3> DEFINE k == sq_tail' + (i - 1)
    <3>2. k \in Nat /\ sq_tail + i = k + QueueSize
      BY <3>1
    <3> HIDE DEF k
    <3>3. (sq_tail + i) % QueueSize = k % QueueSize
      BY <3>2, SlotAgain
    <3> QED BY <3>3, <2>2 DEF k
  <2>4. CASE ~(sq_tail + 1 > QueueSize)
    <3>1. sq_tail + i = sq_tail' + (i - 1)
      BY <1>0, <1>1, <1>5, <2>4 DEF RingTyped
    <3> QED BY <3>1, <2>2
  <2> QED BY <2>3, <2>4
<1>8. Ring' = [i \in 1 .. Fill - 1 |-> Ring[i + 1]]
  BY <1>6, <1>7 DEF Ring
<1>9. Ring' = Tail(Ring)
  <2>1. /\ Tail(Ring) \in Seq(Sock) /\ Len(Tail(Ring)) = Fill - 1
        /\ \A i \in 1 .. Fill - 1 : Tail(Ring)[i] = Ring[i + 1]
    BY <1>1, <1>2, HeadTailProperties
  <2>2. \A i \in 1 .. Fill - 1 : i + 1 \in 1 .. Fill
    BY <1>1
  <2>3. Ring' \in Seq(Sock) /\ Len(Ring') = Fill - 1
    BY <1>1, <1>8, <2>2, ElementOfSeq
  <2> QED BY <1>8, <2>1, <2>3, SeqEqual
<1> QED BY <1>2, <1>4, <1>6, <1>9

-----------------------------------------------------------------------------
(* The inductive invariant of the pool.                                    *)

PoolTyped ==
    /\ RingTyped /\ Ring \in Seq(Sock) /\ backlog \in Seq(Sock)
    /\ produced \in Seq(Sock) /\ consumed \in Seq(Sock)
    /\ accepted \in Sock \cup {None} /\ client \in [Worker -> Sock \cup {None}]
    /\ wpc \in [Worker -> {"off", "alloc", "lock", "towait", "waiting", "check",
                           "serve", "leave", "store", "done"}]
    /\ fate \in [Sock -> {"new", "open", "closed"}]
    /\ stop_flag \in 0 .. 2 /\ sq_full \subseteq Worker

\* Where the threads are: who waits on what, and who has a socket in hand.
Threads ==
    /\ \A w \in sq_full : wpc[w] = "waiting"
    /\ (sq_empty # {} => mpc = "pwait")
    /\ (cond # {} => mpc = "jwait")
    /\ (spc = "start" => mpc = "off")
    /\ (accepted # None <=> mpc \in {"produce", "pwait"})
    /\ \A w \in Worker : wpc[w] = "serve" => client[w] # None
    /\ \A w \in Worker : wpc[w] = "check" /\ client[w] = None => stop_flag # 0

\* A socket is in one place only, and in none unless it is open.
Owned ==
    /\ Distinct(backlog) /\ Distinct(Ring)
    /\ In(backlog) \cap In(Ring) = {}
    /\ accepted \notin In(backlog) \cup In(Ring)
    /\ \A w \in Worker : client[w] \notin In(backlog) \cup In(Ring)
    /\ \A w \in Worker : client[w] # None => client[w] # accepted
    /\ \A v, w \in Worker : client[v] = client[w] => v = w \/ client[v] = None
    /\ \A s \in In(backlog) \cup In(Ring) : fate[s] = "open"
    /\ (accepted # None => fate[accepted] = "open")
    /\ \A w \in Worker : client[w] # None => fate[client[w]] = "open"

PoolInv == PoolTyped /\ Threads /\ Owned /\ RingIsFifo

\* The sockets no worker has been given yet.
Unserved ==
    {s \in Sock : fate[s] = "new"} \cup In(backlog) \cup In(Ring) \cup ({accepted} \ {None})

\* What a step of the pool leaves to the workers that serve: they keep what they
\* have, and what others are given is a socket nobody has been given before.
HandsOut ==
    /\ Unserved' \subseteq Unserved
    /\ \A w \in Worker : wpc[w] = "serve" => wpc'[w] = "serve" /\ client'[w] = client[w]
    /\ \A w \in Worker : client'[w] # client[w] => client'[w] \in Unserved \cup {None}

-----------------------------------------------------------------------------
(* Steps that move no socket.                                              *)

WorkerState == {"off", "alloc", "lock", "towait", "waiting", "check",
                "serve", "leave", "store", "done"}
held == <<queue, sq_head, sq_tail, backlog, accepted, client, fate, produced, consumed>>

LEMMA HeldKept ==
    ASSUME PoolInv, UNCHANGED held, wpc' \in [Worker -> WorkerState],
           stop_flag' \in 0 .. 2, sq_full' \subseteq Worker, Threads',
           \A w \in Worker : wpc[w] = "serve" => wpc'[w] = "serve"
    PROVE  PoolInv' /\ HandsOut
<1>1. Ring' = Ring /\ (RingTyped' <=> RingTyped)
  BY DEF held, Ring, Fill, RingTyped
<1>2. PoolTyped'
  BY <1>1 DEF PoolInv, PoolTyped, WorkerState, held
<1>3. Owned'
  BY <1>1 DEF PoolInv, Owned, held
<1>4. RingIsFifo'
  BY <1>1 DEF PoolInv, RingIsFifo, held
<1>5. Unserved' = Unserved /\ client' = client
  BY <1>1 DEF Unserved, held
<1> QED BY <1>2, <1>3, <1>4, <1>5 DEF PoolInv, HandsOut

\* The application: mg_start, the loop that starts the threads, mg_stop.
LEMMA StarterKeeps ==
    ASSUME PoolInv, StarterStep \/ mg_stop
    PROVE  PoolInv' /\ HandsOut
<1> USE DEF PoolInv, PoolTyped, Threads, WorkerState, held,
        syncVars, startVars, masterVars, workerVars, sockVars, historyVars
<1>1. CASE mg_start
  <2>1. UNCHANGED <<held, wpc, stop_flag, sq_full, sq_empty, cond>>
    BY <1>1 DEF mg_start
  <2>2. /\ accepted = None /\ sq_empty = {} /\ cond = {}
        /\ mpc' \notin {"produce", "pwait"} /\ (spc' = "start" => mpc' = "off")
    BY <1>1 DEF mg_start
  <2>3. Threads'
    BY <2>1, <2>2
  <2> QED BY <2>1, <2>3, HeldKept
<1>2. CASE \E w \in Worker : SpawnWorker(w)
  <2>1. PICK w \in Worker : SpawnWorker(w)
    BY <1>2
  <2>2. /\ UNCHANGED <<held, stop_flag, sq_full, sq_empty, cond, mpc>>
        /\ spc' # "start" /\ wpc[w] = "off"
        /\ \E x \in {"alloc", "done"} : wpc' = [wpc EXCEPT ![w] = x]
    BY <2>1 DEF SpawnWorker
  <2>3. Threads' /\ wpc' \in [Worker -> WorkerState]
    BY <2>2
  <2> QED BY <2>2, <2>3, HeldKept
<1>3. CASE CountStep \/ StartReturns \/ StopReturns
  <2>1. UNCHANGED <<held, stop_flag, sq_full, sq_empty, cond, mpc, wpc>> /\ spc' # "start"
    BY <1>3 DEF CountStep, CountWorker, StartReturns, StopReturns
  <2>2. Threads'
    BY <2>1
  <2> QED BY <2>1, <2>2, HeldKept
<1>4. CASE mg_stop
  <2>1. UNCHANGED <<held, sq_full, sq_empty, cond, mpc, wpc>> /\ spc' # "start" /\ stop_flag' = 1
    BY <1>4 DEF mg_stop
  <2>2. Threads'
    BY <2>1
  <2> QED BY <2>1, <2>2, HeldKept
<1> QED BY <1>1, <1>2, <1>3, <1>4 DEF StarterStep

\* The master, where it only waits, wakes or ends.
LEMMA MasterMovesKeep ==
    ASSUME PoolInv, MasterWaits \/ BroadcastFull \/ JoinWorkers \/ MasterEnds
    PROVE  PoolInv' /\ HandsOut
<1> USE DEF PoolInv, PoolTyped, Threads, WorkerState, held,
        syncVars, startVars, masterVars, workerVars, sockVars, historyVars
<1>1. CASE MasterWaits
  <2>1. /\ UNCHANGED <<held, wpc, stop_flag, sq_full, mpc, spc>>
        /\ sq_empty' # {} => mpc = "pwait"
        /\ cond' # {} => mpc = "jwait"
    BY <1>1 DEF MasterWaits
  <2>2. Threads'
    BY <2>1
  <2> QED BY <2>1, <2>2, HeldKept
<1>2. CASE BroadcastFull
  <2>1. /\ UNCHANGED <<held, stop_flag, sq_empty, cond, spc>> /\ sq_full' = {}
        /\ mpc = "broadcast" /\ mpc' = "join"
        /\ wpc' = [w \in Worker |-> IF w \in sq_full THEN "lock" ELSE wpc[w]]
    BY <1>2 DEF BroadcastFull
  <2>2. wpc' \in [Worker -> WorkerState]
        /\ \A w \in Worker : wpc'[w] = wpc[w] \/ (wpc'[w] = "lock" /\ wpc[w] = "waiting")
    BY <2>1
  <2>3. Threads'
    BY <2>1, <2>2
  <2> QED BY <2>1, <2>2, <2>3, HeldKept
<1>3. CASE JoinWorkers
  <2>1. /\ UNCHANGED <<held, wpc, stop_flag, sq_full, sq_empty, cond, spc>>
        /\ mpc = "join" /\ mpc' \in {"jwait", "end"}
    BY <1>3 DEF JoinWorkers
  <2>2. Threads'
    BY <2>1
  <2> QED BY <2>1, <2>2, HeldKept
<1>4. CASE MasterEnds
  <2>1. /\ UNCHANGED <<held, wpc, sq_full, sq_empty, cond, spc>> /\ stop_flag' = 2
        /\ mpc = "end" /\ mpc' = "done"
    BY <1>4 DEF MasterEnds
  <2>2. Threads'
    BY <2>1
  <2> QED BY <2>1, <2>2, HeldKept
<1> QED BY <1>1, <1>2, <1>3, <1>4

\* A worker, where it takes and drops nothing.
LEMMA WorkerMovesKeep ==
    ASSUME PoolInv, NEW w \in Worker,
           \/ Allocate(w) \/ WorkerWaits(w) \/ SpuriousWakeup(w)
           \/ LeaveLoad(w) \/ LeaveStore(w)
    PROVE  PoolInv' /\ HandsOut
<1> USE DEF PoolInv, PoolTyped, Threads, WorkerState, held,
        syncVars, startVars, masterVars, workerVars, sockVars, historyVars
<1>1. CASE Allocate(w) \/ LeaveLoad(w)
  <2>1. /\ UNCHANGED <<held, stop_flag, sq_full, sq_empty, cond, spc, mpc>>
        /\ wpc[w] \in {"alloc", "leave"}
        /\ \E x \in {"lock", "leave", "store"} : wpc' = [wpc EXCEPT ![w] = x]
    BY <1>1 DEF Allocate, LeaveLoad
  <2>2. Threads' /\ wpc' \in [Worker -> WorkerState]
    BY <2>1
  <2> QED BY <2>1, <2>2, HeldKept
<1>2. CASE WorkerWaits(w)
  <2>1. /\ UNCHANGED <<held, stop_flag, sq_empty, cond, spc, mpc>>
        /\ sq_full' = sq_full \cup {w} /\ wpc[w] = "towait"
        /\ wpc' = [wpc EXCEPT ![w] = "waiting"]
    BY <1>2 DEF WorkerWaits
  <2>2. Threads' /\ wpc' \in [Worker -> WorkerState]
    BY <2>1
  <2> QED BY <2>1, <2>2, HeldKept
<1>3. CASE SpuriousWakeup(w)
  <2>1. /\ UNCHANGED <<held, stop_flag, sq_empty, cond, spc, mpc>>
        /\ sq_full' = sq_full \ {w} /\ w \in sq_full /\ wpc[w] = "waiting"
        /\ wpc' = [wpc EXCEPT ![w] = "lock"]
    BY <1>3 DEF SpuriousWakeup
  <2>2. Threads' /\ wpc' \in [Worker -> WorkerState]
    BY <2>1
  <2> QED BY <2>1, <2>2, HeldKept
<1>4. CASE LeaveStore(w)
  <2>1. /\ UNCHANGED <<held, stop_flag, sq_full, sq_empty, spc>> /\ cond' = {}
        /\ wpc[w] = "store" /\ wpc' = [wpc EXCEPT ![w] = "done"]
        /\ mpc' = IF cond = {} THEN mpc ELSE "join"
    BY <1>4 DEF LeaveStore
  <2>2. Threads' /\ wpc' \in [Worker -> WorkerState]
    BY <2>1
  <2> QED BY <2>1, <2>2, HeldKept
<1> QED BY <1>1, <1>2, <1>3, <1>4

-----------------------------------------------------------------------------
(* Steps that move a socket.                                               *)

\* Sockets are positive, so None is no socket; what is in a line is a socket.
LEMMA SocketFacts ==
    /\ None \notin Sock
    /\ \A q \in Seq(Sock) : In(q) \subseteq Sock
    /\ <<>> \in Seq(Sock) /\ In(<<>>) = {} /\ Distinct(<<>>)
<1>1. None \notin Sock
  BY PoolAssumption DEF None, Sock
<1>2. \A q \in Seq(Sock) : In(q) \subseteq Sock
  BY ElementOfSeq DEF In
<1>3. <<>> \in Seq(Sock) /\ In(<<>>) = {} /\ Distinct(<<>>)
  BY DEF In, Distinct
<1> QED BY <1>1, <1>2, <1>3

\* A client connects: the kernel puts the connection at the end of its backlog.
LEMMA ConnectKeeps ==
    ASSUME PoolInv, NEW s \in Sock, Connect(s)
    PROVE  PoolInv' /\ HandsOut
<1> USE DEF PoolInv
<1>1. /\ UNCHANGED <<queue, sq_head, sq_tail, accepted, client, produced, consumed, wpc,
                     stop_flag, sq_full, sq_empty, cond, mpc, spc>>
      /\ fate[s] = "new" /\ fate' = [fate EXCEPT ![s] = "open"]
      /\ backlog' = Append(backlog, s)
  BY DEF Connect, syncVars, startVars, masterVars, workerVars, historyVars
<1>2. Ring' = Ring /\ (RingTyped' <=> RingTyped)
  BY <1>1 DEF Ring, Fill, RingTyped
<1>3. /\ s \notin In(backlog) /\ s \notin In(Ring) /\ s # accepted
      /\ \A w \in Worker : s # client[w]
  BY <1>1, SocketFacts DEF Owned
<1>4. backlog' \in Seq(Sock) /\ Distinct(backlog') /\ In(backlog') = In(backlog) \cup {s}
  BY <1>1, <1>3, DistinctAppend DEF PoolTyped, Owned
<1>5. fate' \in [Sock -> {"new", "open", "closed"}] /\ fate'[s] = "open"
      /\ \A t \in Sock : t # s => fate'[t] = fate[t]
  BY <1>1 DEF PoolTyped
<1>6. PoolTyped'
  BY <1>1, <1>2, <1>4, <1>5 DEF PoolTyped
<1>7. Threads'
  BY <1>1 DEF Threads
<1>8. Owned'
  <2>1. In(backlog) \subseteq Sock /\ In(Ring) \subseteq Sock
    BY SocketFacts DEF PoolTyped
  <2>2. \A w \in Worker : client[w] # None => client[w] \in Sock
    BY DEF PoolTyped
  <2>3. accepted # None => accepted \in Sock
    BY DEF PoolTyped
  <2> QED BY <1>1, <1>2, <1>3, <1>4, <1>5, <2>1, <2>2, <2>3 DEF Owned
<1>9. RingIsFifo'
  BY <1>1, <1>2 DEF RingIsFifo
<1>10. HandsOut
  BY <1>1, <1>2, <1>4, <1>5 DEF HandsOut, Unserved
<1> QED BY <1>6, <1>7, <1>8, <1>9, <1>10

\* accept_new_connection: the first of the backlog is the master's, or refused.
LEMMA AcceptKeeps ==
    ASSUME PoolInv, Accept
    PROVE  PoolInv' /\ HandsOut
<1> USE DEF PoolInv
<1> DEFINE s == Head(backlog)
<1>1. /\ UNCHANGED <<queue, sq_head, sq_tail, client, produced, consumed, wpc,
                     stop_flag, sq_full, sq_empty, cond, spc>>
      /\ backlog # <<>> /\ backlog' = Tail(backlog) /\ mpc = "select"
      /\ \/ accepted' = s /\ mpc' = "produce" /\ fate' = fate
         \/ fate' = [fate EXCEPT ![s] = "closed"] /\ accepted' = accepted /\ mpc' = mpc
  BY DEF Accept, syncVars, startVars, workerVars, historyVars
<1>2. Ring' = Ring /\ (RingTyped' <=> RingTyped)
  BY <1>1 DEF Ring, Fill, RingTyped
<1>3. /\ backlog' \in Seq(Sock) /\ Distinct(backlog') /\ s \in Sock /\ s \in In(backlog)
      /\ In(backlog') = In(backlog) \ {s}
  BY <1>1, DistinctTail DEF PoolTyped, Owned
<1> HIDE DEF s
<1>4. accepted = None /\ sq_empty = {} /\ cond = {} /\ spc # "start"
  BY <1>1 DEF Threads
<1>5. /\ fate' \in [Sock -> {"new", "open", "closed"}] /\ (fate[s] = "open")
      /\ \A t \in Sock : t # s => fate'[t] = fate[t]
      /\ (accepted' # None => accepted' = s /\ fate' = fate)
      /\ accepted' \in Sock \cup {None}
      /\ (accepted' # None <=> mpc' \in {"produce", "pwait"})
      /\ fate'[s] # "new"
  <2>1. fate[s] = "open" /\ fate \in [Sock -> {"new", "open", "closed"}] /\ None \notin Sock
    BY <1>3, SocketFacts DEF PoolTyped, Owned
  <2>2. CASE accepted' = s /\ mpc' = "produce" /\ fate' = fate
    BY <2>1, <2>2, <1>3
  <2>3. CASE fate' = [fate EXCEPT ![s] = "closed"] /\ accepted' = accepted /\ mpc' = mpc
    BY <2>1, <2>3, <1>1, <1>3, <1>4
  <2> QED BY <2>2, <2>3, <1>1
<1>6. PoolTyped'
  BY <1>1, <1>2, <1>3, <1>5 DEF PoolTyped
<1>7. Threads'
  BY <1>1, <1>4, <1>5 DEF Threads
<1>8. Owned'
  <2>1. In(backlog) \subseteq Sock /\ In(Ring) \subseteq Sock
    BY SocketFacts DEF PoolTyped
  <2>2. \A w \in Worker : client[w] # None => client[w] \in Sock
    BY DEF PoolTyped
  <2>3. s \notin In(Ring) /\ s \notin In(backlog') /\ \A w \in Worker : client[w] # s
    BY <1>3 DEF Owned
  <2>4. accepted' \notin In(backlog') \cup In(Ring)
    BY <1>3, <1>5, <2>1, <2>3, SocketFacts
  <2> QED BY <1>1, <1>2, <1>3, <1>5, <2>1, <2>2, <2>3, <2>4 DEF Owned
<1>9. RingIsFifo'
  BY <1>1, <1>2 DEF RingIsFifo
<1>10. HandsOut
  BY <1>1, <1>2, <1>3, <1>5 DEF HandsOut, Unserved
<1> QED BY <1>6, <1>7, <1>8, <1>9, <1>10

\* pthread_cond_signal moves a worker that waits, no other.
LEMMA SignalMoves ==
    ASSUME PoolInv, SignalFull
    PROVE  /\ wpc' \in [Worker -> WorkerState] /\ sq_full' \subseteq sq_full
           /\ \A w \in Worker : wpc'[w] = wpc[w] \/ (wpc'[w] = "lock" /\ wpc[w] = "waiting")
           /\ \A w \in sq_full' : wpc'[w] = "waiting"
<1> USE DEF PoolInv, PoolTyped, Threads, WorkerState
<1>1. CASE UNCHANGED <<sq_full, wpc>>
  BY <1>1
<1>2. ASSUME NEW v \in sq_full, sq_full' = sq_full \ {v}, wpc' = [wpc EXCEPT ![v] = "lock"]
      PROVE  /\ wpc' \in [Worker -> WorkerState] /\ sq_full' \subseteq sq_full
             /\ \A w \in Worker : wpc'[w] = wpc[w] \/ (wpc'[w] = "lock" /\ wpc[w] = "waiting")
             /\ \A w \in sq_full' : wpc'[w] = "waiting"
  BY <1>2
<1> QED BY <1>1, <1>2 DEF SignalFull

\* produce_socket: the master waits with its socket, or puts it into the ring,
\* or loses it because the server stops and the ring is full.
LEMMA ProduceKeeps ==
    ASSUME PoolInv, produce_socket
    PROVE  PoolInv' /\ HandsOut
<1> USE DEF PoolInv
<1>1. /\ UNCHANGED <<sq_tail, client, consumed, backlog, fate, stop_flag, sq_empty, cond, spc>>
      /\ mpc = "produce"
  BY DEF produce_socket, startVars
<1>2. /\ accepted \in Sock /\ accepted # None /\ sq_empty = {} /\ cond = {} /\ spc # "start"
      /\ In(backlog) \subseteq Sock /\ In(Ring) \subseteq Sock /\ None \notin Sock
      /\ \A w \in Worker : client[w] # None => client[w] \in Sock
  BY <1>1, SocketFacts DEF Threads, PoolTyped
<1>3. CASE mpc' = "pwait" /\ UNCHANGED <<queue, sq_head, produced, sq_full, wpc, accepted>>
  <2>1. UNCHANGED held
    BY <1>1, <1>3 DEF held
  <2>2. Threads'
    BY <1>1, <1>2, <1>3 DEF Threads
  <2>3. wpc' \in [Worker -> WorkerState] /\ stop_flag' \in 0 .. 2 /\ sq_full' \subseteq Worker
    BY <1>1, <1>3 DEF PoolTyped, WorkerState
  <2> QED BY <1>3, <2>1, <2>2, <2>3, HeldKept
<1>4. CASE Fill < QueueSize /\ InsertSocket /\ SignalFull /\ mpc' = "select" /\ accepted' = None
  <2>1. RingTyped' /\ Ring' = Append(Ring, accepted)
    BY <1>1, <1>2, <1>4, InsertRing DEF PoolTyped
  <2>2. Ring' \in Seq(Sock) /\ Distinct(Ring') /\ In(Ring') = In(Ring) \cup {accepted}
    BY <1>2, <2>1, DistinctAppend DEF PoolTyped, Owned
  <2>3. /\ wpc' \in [Worker -> WorkerState] /\ sq_full' \subseteq sq_full
        /\ \A w \in Worker : wpc'[w] = wpc[w] \/ (wpc'[w] = "lock" /\ wpc[w] = "waiting")
        /\ \A w \in sq_full' : wpc'[w] = "waiting"
    BY <1>4, SignalMoves
  <2>4. produced' = Append(produced, accepted) /\ produced' \in Seq(Sock)
    BY <1>2, <1>4 DEF InsertSocket, PoolTyped
  <2>5. PoolTyped'
    BY <1>1, <1>4, <2>1, <2>2, <2>3, <2>4 DEF PoolTyped, WorkerState
  <2>6. Threads'
    BY <1>1, <1>2, <1>4, <2>3 DEF Threads
  <2>7. Owned'
    BY <1>1, <1>2, <1>4, <2>2 DEF Owned
  <2>8. RingIsFifo'
    <3>1. produced = consumed \o Ring /\ consumed \in Seq(Sock) /\ Ring \in Seq(Sock)
      BY DEF RingIsFifo, PoolTyped
    <3>2. Append(consumed \o Ring, accepted) = consumed \o Append(Ring, accepted)
      BY <3>1, <1>2
    <3> QED BY <1>1, <2>1, <2>4, <3>1, <3>2 DEF RingIsFifo
  <2>9. HandsOut
    BY <1>1, <1>2, <1>4, <2>2, <2>3 DEF HandsOut, Unserved
  <2> QED BY <2>5, <2>6, <2>7, <2>8, <2>9
<1>5. CASE /\ SignalFull /\ mpc' = "select" /\ accepted' = None
           /\ UNCHANGED <<queue, sq_head, produced>>
  <2>1. Ring' = Ring /\ (RingTyped' <=> RingTyped)
    BY <1>1, <1>5 DEF Ring, Fill, RingTyped
  <2>3. /\ wpc' \in [Worker -> WorkerState] /\ sq_full' \subseteq sq_full
        /\ \A w \in Worker : wpc'[w] = wpc[w] \/ (wpc'[w] = "lock" /\ wpc[w] = "waiting")
        /\ \A w \in sq_full' : wpc'[w] = "waiting"
    BY <1>5, SignalMoves
  <2>5. PoolTyped'
    BY <1>1, <1>5, <2>1, <2>3 DEF PoolTyped, WorkerState
  <2>6. Threads'
    BY <1>1, <1>2, <1>5, <2>3 DEF Threads
  <2>7. Owned'
    BY <1>1, <1>2, <1>5, <2>1 DEF Owned
  <2>8. RingIsFifo'
    BY <1>1, <1>5, <2>1 DEF RingIsFifo
  <2>9. HandsOut
    BY <1>1, <1>2, <1>5, <2>1, <2>3 DEF HandsOut, Unserved
  <2> QED BY <2>5, <2>6, <2>7, <2>8, <2>9
<1> QED BY <1>3, <1>4, <1>5 DEF produce_socket

\* The listening sockets are closed and the kernel resets what is in the backlog.
LEMMA StopAcceptingKeeps ==
    ASSUME PoolInv, StopAccepting
    PROVE  PoolInv' /\ HandsOut
<1> USE DEF PoolInv
<1>1. /\ UNCHANGED <<queue, sq_head, sq_tail, accepted, client, produced, consumed, wpc,
                     stop_flag, sq_full, sq_empty, cond, spc>>
      /\ backlog' = <<>> /\ mpc = "select" /\ mpc' = "broadcast"
      /\ fate' = [s \in Sock |-> IF \E i \in 1 .. Len(backlog) : backlog[i] = s
                                 THEN "closed" ELSE fate[s]]
  BY DEF StopAccepting, syncVars, workerVars, historyVars
<1>2. Ring' = Ring /\ (RingTyped' <=> RingTyped)
  BY <1>1 DEF Ring, Fill, RingTyped
<1>3. \A s \in Sock : fate'[s] = IF s \in In(backlog) THEN "closed" ELSE fate[s]
  BY <1>1 DEF In
<1>4. /\ fate' \in [Sock -> {"new", "open", "closed"}]
      /\ \A s \in Sock : s \notin In(backlog) => fate'[s] = fate[s]
      /\ \A s \in Sock : fate'[s] = "new" => fate[s] = "new"
  BY <1>1, <1>3 DEF PoolTyped
<1>5. /\ backlog' \in Seq(Sock) /\ Distinct(backlog') /\ In(backlog') = {}
      /\ In(Ring) \subseteq Sock
      /\ \A w \in Worker : client[w] # None => client[w] \in Sock
      /\ accepted # None => accepted \in Sock
  BY <1>1, SocketFacts DEF PoolTyped
<1>6. PoolTyped'
  BY <1>1, <1>2, <1>4, <1>5 DEF PoolTyped
<1>7. Threads'
  BY <1>1 DEF Threads
<1>8. Owned'
  BY <1>1, <1>2, <1>4, <1>5 DEF Owned
<1>9. RingIsFifo'
  BY <1>1, <1>2 DEF RingIsFifo
<1>10. HandsOut
  BY <1>1, <1>2, <1>4, <1>5 DEF HandsOut, Unserved
<1> QED BY <1>6, <1>7, <1>8, <1>9, <1>10

\* consume_socket: the worker is given the first socket of the ring, or waits,
\* or finds that the server stops.
LEMMA ConsumeKeeps ==
    ASSUME PoolInv, NEW w \in Worker, consume_socket(w)
    PROVE  PoolInv' /\ HandsOut
<1> USE DEF PoolInv
<1>1. /\ UNCHANGED <<queue, stop_flag, sq_full, cond, spc, accepted, backlog, fate, produced>>
      /\ wpc[w] = "lock"
  BY DEF consume_socket, startVars, sockVars
<1>2. ASSUME SignalEmpty
      PROVE  /\ sq_empty' = {} /\ (cond # {} => mpc' = "jwait") /\ (spc = "start" => mpc' = "off")
             /\ (accepted # None <=> mpc' \in {"produce", "pwait"})
  BY <1>2 DEF SignalEmpty, Threads
<1>3. CASE /\ wpc' = [wpc EXCEPT ![w] = "towait"]
           /\ UNCHANGED <<sq_tail, sq_head, client, consumed, sq_empty, mpc>>
  <2>1. UNCHANGED held
    BY <1>1, <1>3 DEF held
  <2>2. wpc' \in [Worker -> WorkerState] /\ stop_flag' \in 0 .. 2 /\ sq_full' \subseteq Worker
    BY <1>1, <1>3 DEF PoolTyped, WorkerState
  <2>3. Threads'
    BY <1>1, <1>3 DEF Threads, PoolTyped
  <2>4. \A v \in Worker : wpc[v] = "serve" => wpc'[v] = "serve"
    BY <1>1, <1>3 DEF PoolTyped
  <2> QED BY <2>1, <2>2, <2>3, <2>4, HeldKept
<1>4. CASE /\ stop_flag # 0 /\ SignalEmpty /\ wpc' = [wpc EXCEPT ![w] = "check"]
           /\ UNCHANGED <<sq_tail, sq_head, client, consumed>>
  <2>1. UNCHANGED held
    BY <1>1, <1>4 DEF held
  <2>2. wpc' \in [Worker -> WorkerState] /\ stop_flag' \in 0 .. 2 /\ sq_full' \subseteq Worker
    BY <1>1, <1>4 DEF PoolTyped, WorkerState
  <2>3. Threads'
    BY <1>1, <1>2, <1>4 DEF Threads, PoolTyped
  <2>4. \A v \in Worker : wpc[v] = "serve" => wpc'[v] = "serve"
    BY <1>1, <1>4 DEF PoolTyped
  <2> QED BY <2>1, <2>2, <2>3, <2>4, HeldKept
<1>5. CASE /\ sq_head > sq_tail /\ TakeSocket(w) /\ SignalEmpty
           /\ wpc' = [wpc EXCEPT ![w] = "check"]
  <2> DEFINE s == Head(Ring)
  <2>1. RingTyped' /\ Ring # <<>> /\ Ring' = Tail(Ring) /\ queue[sq_tail % QueueSize] = s
    BY <1>1, <1>5, TakeRing DEF PoolTyped
  <2>2. /\ Ring' \in Seq(Sock) /\ Distinct(Ring') /\ s \in Sock /\ s \in In(Ring)
        /\ In(Ring') = In(Ring) \ {s}
    BY <2>1, DistinctTail DEF PoolTyped, Owned
  <2>3. client' = [client EXCEPT ![w] = s] /\ consumed' = Append(consumed, s)
    BY <1>5, <2>1 DEF TakeSocket
  <2>4. RingIsFifo'
    <3>1. produced = consumed \o Ring /\ consumed \in Seq(Sock) /\ Ring \in Seq(Sock)
      BY DEF RingIsFifo, PoolTyped
    <3>2. Ring = <<s>> \o Ring'
      BY <3>1, <2>1
    <3>3. consumed \o (<<s>> \o Ring') = Append(consumed, s) \o Ring'
      BY <3>1, <2>2
    <3> QED BY <3>1, <3>2, <3>3, <2>3, <1>1 DEF RingIsFifo
  <2>5. consumed' \in Seq(Sock)
    BY <2>2, <2>3 DEF PoolTyped
  <2> HIDE DEF s
  <2>6. /\ client' \in [Worker -> Sock \cup {None}] /\ client'[w] = s /\ s # None
        /\ \A v \in Worker : v # w => client'[v] = client[v]
    BY <2>2, <2>3, SocketFacts DEF PoolTyped
  <2>7. /\ wpc' \in [Worker -> WorkerState] /\ wpc'[w] = "check"
        /\ \A v \in Worker : v # w => wpc'[v] = wpc[v]
    BY <1>5 DEF PoolTyped, WorkerState
  <2>8. PoolTyped'
    BY <1>1, <2>1, <2>2, <2>5, <2>6, <2>7 DEF PoolTyped, WorkerState
  <2>9. Threads'
    BY <1>1, <1>2, <1>5, <2>6, <2>7 DEF Threads
  <2>10. Owned'
    <3>1. /\ s \notin In(backlog) /\ s # accepted /\ fate[s] = "open" /\ s \notin In(Ring')
          /\ \A v \in Worker : client[v] # s
      BY <2>2 DEF Owned
    <3>2. \A v \in Worker : client'[v] \notin In(backlog) \cup In(Ring')
      BY <2>2, <2>6, <3>1 DEF Owned
    <3>3. \A u, v \in Worker : client'[u] = client'[v] => u = v \/ client'[u] = None
      BY <2>6, <3>1 DEF Owned
    <3>4. \A v \in Worker : client'[v] # None => client'[v] # accepted /\ fate[client'[v]] = "open"
      BY <2>6, <3>1 DEF Owned
    <3> QED BY <1>1, <2>2, <3>2, <3>3, <3>4 DEF Owned
  <2>11. HandsOut
    BY <1>1, <2>2, <2>6, <2>7 DEF HandsOut, Unserved
  <2> QED BY <2>4, <2>8, <2>9, <2>10, <2>11
<1> QED BY <1>3, <1>4, <1>5 DEF consume_socket

\* A worker lets go of its socket: what remains is still in one place each.
LEMMA LetGo ==
    ASSUME PoolInv, NEW w \in Worker, client' = [client EXCEPT ![w] = None],
           UNCHANGED <<queue, sq_head, sq_tail, backlog, accepted, produced, consumed>>,
           fate' \in [Sock -> {"new", "open", "closed"}],
           \A s \in Sock : fate'[s] = "new" => fate[s] = "new",
           \A s \in Sock : s # client[w] => fate'[s] = fate[s],
           NEW x \in WorkerState \ {"serve", "check", "waiting"}, w \notin sq_full,
           wpc' = [wpc EXCEPT ![w] = x],
           UNCHANGED <<stop_flag, sq_full, sq_empty, cond, spc, mpc>>
    PROVE  /\ PoolInv' /\ Unserved' \subseteq Unserved
           /\ \A v \in Worker : v # w => client'[v] = client[v] /\ wpc'[v] = wpc[v]
<1> USE DEF PoolInv
<1>1. Ring' = Ring /\ (RingTyped' <=> RingTyped)
  BY DEF Ring, Fill, RingTyped
<1>2. /\ client' \in [Worker -> Sock \cup {None}] /\ client'[w] = None
      /\ \A v \in Worker : v # w => client'[v] = client[v]
  BY DEF PoolTyped
<1>3. /\ wpc' \in [Worker -> WorkerState] /\ wpc'[w] = x
      /\ \A v \in Worker : v # w => wpc'[v] = wpc[v]
  BY DEF PoolTyped, WorkerState
<1>4. PoolTyped'
  BY <1>1, <1>2, <1>3 DEF PoolTyped, WorkerState
<1>5. Threads'
  BY <1>2, <1>3 DEF Threads, PoolTyped
<1>6. Owned'
  <2>1. In(backlog) \subseteq Sock /\ In(Ring) \subseteq Sock /\ None \notin Sock
    BY SocketFacts DEF PoolTyped
  <2>2. \A v \in Worker : client'[v] # None => client'[v] \in Sock /\ client'[v] # client[w]
    BY <1>2 DEF PoolTyped, Owned
  <2>3. accepted # None => accepted \in Sock /\ accepted # client[w]
    BY DEF PoolTyped, Owned
  <2>4. \A s \in In(backlog) \cup In(Ring) : fate'[s] = "open"
    BY <2>1 DEF Owned
  <2>5. \A v \in Worker : client'[v] # None => fate'[client'[v]] = "open"
    BY <1>2, <2>2 DEF Owned
  <2>6. accepted # None => fate'[accepted] = "open"
    BY <2>3 DEF Owned
  <2>7. \A v \in Worker : client'[v] \notin In(backlog) \cup In(Ring)
    BY <1>2, <2>1 DEF Owned
  <2>8. \A u, v \in Worker : client'[u] = client'[v] => u = v \/ client'[u] = None
    BY <1>2 DEF Owned
  <2>9. \A v \in Worker : client'[v] # None => client'[v] # accepted
    BY <1>2 DEF Owned
  <2> QED BY <1>1, <2>4, <2>5, <2>6, <2>7, <2>8, <2>9 DEF Owned
<1>7. RingIsFifo'
  BY <1>1 DEF RingIsFifo
<1>8. Unserved' \subseteq Unserved
  BY <1>1 DEF Unserved
<1> QED BY <1>2, <1>3, <1>4, <1>5, <1>6, <1>7, <1>8

\* A worker reads stop_flag again: it serves, or leaves its socket unclosed.
LEMMA CheckStopKeeps ==
    ASSUME PoolInv, NEW w \in Worker, CheckStop(w)
    PROVE  PoolInv' /\ HandsOut
<1> USE DEF PoolInv, syncVars, startVars, masterVars, workerVars, historyVars
<1>1. CASE stop_flag = 0 /\ wpc' = [wpc EXCEPT ![w] = "serve"] /\ client' = client
  <2>1. UNCHANGED <<held, stop_flag, sq_full, sq_empty, cond, spc, mpc>> /\ wpc[w] = "check"
    BY <1>1 DEF CheckStop, held
  <2>2. wpc' \in [Worker -> WorkerState] /\ stop_flag' \in 0 .. 2 /\ sq_full' \subseteq Worker
    BY <1>1, <2>1 DEF PoolTyped, WorkerState
  <2>3. Threads'
    BY <1>1, <2>1 DEF Threads, PoolTyped, held
  <2>4. \A v \in Worker : wpc[v] = "serve" => wpc'[v] = "serve"
    BY <1>1 DEF PoolTyped
  <2> QED BY <2>1, <2>2, <2>3, <2>4, HeldKept
<1>2. CASE wpc' = [wpc EXCEPT ![w] = "leave"] /\ client' = [client EXCEPT ![w] = None]
  <2>1. /\ UNCHANGED <<queue, sq_head, sq_tail, backlog, accepted, produced, consumed, fate>>
        /\ UNCHANGED <<stop_flag, sq_full, sq_empty, cond, spc, mpc>>
        /\ wpc[w] = "check"
    BY <1>2 DEF CheckStop
  <2>2. w \notin sq_full /\ fate' \in [Sock -> {"new", "open", "closed"}]
    BY <2>1 DEF Threads, PoolTyped
  <2>3. "leave" \in WorkerState \ {"serve", "check", "waiting"}
    BY DEF WorkerState
  <2>4. /\ PoolInv' /\ Unserved' \subseteq Unserved
        /\ \A v \in Worker : v # w => client'[v] = client[v] /\ wpc'[v] = wpc[v]
    BY <1>2, <2>1, <2>2, <2>3, LetGo
  <2>5. client'[w] = None
    BY <1>2 DEF PoolTyped
  <2> QED BY <2>1, <2>4, <2>5 DEF HandsOut
<1> QED BY <1>1, <1>2 DEF CheckStop

\* close_connection.
LEMMA CloseKeeps ==
    ASSUME PoolInv, NEW w \in Worker, wpc[w] = "serve", CloseConnection(w)
    PROVE  /\ PoolInv' /\ Unserved' \subseteq Unserved /\ client'[w] = None
           /\ \A v \in Worker : v # w => client'[v] = client[v] /\ wpc'[v] = wpc[v]
<1> USE DEF PoolInv
<1>1. /\ UNCHANGED <<queue, sq_head, sq_tail, backlog, accepted, produced, consumed>>
      /\ UNCHANGED <<stop_flag, sq_full, sq_empty, cond, spc, mpc>>
      /\ fate' = [fate EXCEPT ![client[w]] = "closed"]
      /\ client' = [client EXCEPT ![w] = None] /\ wpc' = [wpc EXCEPT ![w] = "lock"]
  BY DEF CloseConnection, syncVars, startVars, masterVars, historyVars
<1>2. /\ fate' \in [Sock -> {"new", "open", "closed"}]
      /\ \A s \in Sock : fate'[s] = "new" => fate[s] = "new"
      /\ \A s \in Sock : s # client[w] => fate'[s] = fate[s]
  BY <1>1 DEF PoolTyped
<1>3. w \notin sq_full /\ "lock" \in WorkerState \ {"serve", "check", "waiting"}
  BY DEF Threads, WorkerState
<1>4. client'[w] = None
  BY <1>1 DEF PoolTyped
<1> QED BY <1>1, <1>2, <1>3, <1>4, LetGo

\* Every step of the pool keeps its invariant and leaves those who serve alone.
LEMMA PoolStepKeeps ==
    ASSUME PoolInv, PoolStep
    PROVE  PoolInv' /\ HandsOut
<1>1. CASE MasterStep
  BY <1>1, AcceptKeeps, ProduceKeeps, StopAcceptingKeeps, MasterMovesKeep DEF MasterStep
<1>2. CASE StarterStep \/ mg_stop
  BY <1>2, StarterKeeps
<1>3. ASSUME NEW w \in Worker, WorkerStep(w) \/ SpuriousWakeup(w)  PROVE PoolInv' /\ HandsOut
  BY <1>3, ConsumeKeeps, CheckStopKeeps, WorkerMovesKeep DEF WorkerStep
<1>4. ASSUME NEW s \in Sock, Connect(s)  PROVE PoolInv' /\ HandsOut
  BY <1>4, ConnectKeeps
<1> QED BY <1>1, <1>2, <1>3, <1>4 DEF PoolStep

\* What the queue holds between tail and head is the ring.
LEMMA QueuedIsRing ==
    ASSUME PoolInv, NEW i \in sq_tail .. sq_head - 1
    PROVE  queue[i % QueueSize] \in In(Ring)
<1> USE DEF PoolInv
<1> DEFINE k == i - sq_tail + 1
<1>1. k \in 1 .. Fill /\ sq_tail + (k - 1) = i
  BY PoolAssumption DEF PoolTyped, RingTyped, Fill
<1> HIDE DEF k
<1>2. Ring[k] = queue[i % QueueSize] /\ k \in 1 .. Len(Ring)
  BY <1>1, RingLength DEF PoolTyped
<1> QED BY <1>2 DEF In

\* OneOwner, as it is checked, from the places of the sockets.
LEMMA PoolInvOwner == PoolInv => OneOwner
BY QueuedIsRing DEF PoolInv, Owned, OneOwner

-----------------------------------------------------------------------------
(* The initial states of the pool.                                         *)

\* With sockets 1 .. taken handed out, the ring holds the others that came.
LEMMA QuietRing ==
    ASSUME NEW taken \in 0 .. QueueSize, NEW made \in taken .. Connections,
           made - taken <= QueueSize, PoolQuiet(taken, made)
    PROVE  /\ RingTyped /\ Ring \in Seq(Sock) /\ Distinct(Ring) /\ In(Ring) = taken + 1 .. made
           /\ produced \in Seq(Sock) /\ consumed \in Seq(Sock) /\ RingIsFifo
<1>0. QueueSize \in Nat \ {0} /\ Connections \in Nat /\ taken \in Nat /\ made \in Nat
  BY PoolAssumption
<1>1. sq_head = made /\ sq_tail = taken /\ Fill = made - taken
  BY DEF PoolQuiet, Fill
<1> DEFINE Last(i, s) == (s - 1) % QueueSize = i /\ s + QueueSize > made
<1>2. queue = [i \in 0 .. QueueSize - 1 |->
                  IF \E s \in 1 .. made : (s - 1) % QueueSize = i
                  THEN CHOOSE s \in 1 .. made : Last(i, s) ELSE None]
  BY DEF PoolQuiet
<1>3. ASSUME NEW i \in 0 .. QueueSize - 1, NEW s \in 1 .. made, (s - 1) % QueueSize = i
      PROVE  \E t \in 1 .. made : Last(i, t)
  <2> DEFINE late == made - s
             t == s + (late \div QueueSize) * QueueSize
             n == s - 1
             k == late \div QueueSize
  <2>1. late \in Nat /\ n \in Nat
    BY <1>0
  <2>2. k \in Nat /\ late = k * QueueSize + (late % QueueSize) /\ late % QueueSize \in 0 .. QueueSize - 1
    BY <1>0, <2>1, SlotRange
  <2>3. k * QueueSize \in Nat
    BY <1>0, <2>2
  <2>4. t \in 1 .. made /\ t + QueueSize > made /\ t - 1 = n + k * QueueSize
    BY <1>0, <2>1, <2>2, <2>3
  <2>5. PICK j \in Nat : n = j * QueueSize + (n % QueueSize)
    BY <2>1, Turns
  <2> DEFINE r == n % QueueSize
  <2>6. r \in 0 .. QueueSize - 1 /\ r = i
    BY <2>1, <1>3, SlotRange
  <2> HIDE DEF r
  <2>7. j + k \in Nat /\ n + k * QueueSize = (j + k) * QueueSize + r
    BY <1>0, <2>2, <2>5, <2>6 DEF r
  <2>8. ((j + k) * QueueSize + r) % QueueSize = r
    BY <2>6, <2>7, SlotOf
  <2> HIDE DEF k, n, t, late
  <2>9. Last(i, t)
    BY <2>4, <2>6, <2>7, <2>8
  <2> QED BY <2>4, <2>9
<1>4. ASSUME NEW i \in 0 .. QueueSize - 1  PROVE queue[i] \in Sock \cup {None}
  <2> HIDE DEF Last
  <2>1. CASE \E s \in 1 .. made : (s - 1) % QueueSize = i
    <3>1. \E t \in 1 .. made : Last(i, t)
      BY <2>1, <1>3
    <3>2. (CHOOSE s \in 1 .. made : Last(i, s)) \in 1 .. made
      BY <3>1
    <3> QED BY <1>0, <1>2, <2>1, <3>2 DEF Sock
  <2>2. CASE ~\E s \in 1 .. made : (s - 1) % QueueSize = i
    BY <1>2, <2>2
  <2> QED BY <2>1, <2>2
<1>5. RingTyped
  BY <1>0, <1>1, <1>2, <1>4 DEF RingTyped
<1>6. ASSUME NEW i \in 1 .. made - taken
      PROVE  queue[(taken + (i - 1)) % QueueSize] = taken + i
  <2> DEFINE s == taken + i
             c == (s - 1) % QueueSize
  <2>1. s \in 1 .. made /\ s - 1 \in Nat /\ s - 1 = taken + (i - 1) /\ s + QueueSize > made
    BY <1>0
  <2> HIDE DEF s
  <2>2. c \in 0 .. QueueSize - 1 /\ Last(c, s)
    BY <2>1, SlotRange
  <2>3. ASSUME NEW t \in 1 .. made, Last(c, t)  PROVE t = s
    <3>1. t - 1 \in Nat /\ (t - 1) % QueueSize = (s - 1) % QueueSize
      BY <1>0, <2>3
    <3>2. CASE t < s
      <4>1. t - 1 < s - 1 /\ (s - 1) - (t - 1) < QueueSize
        BY <1>0, <2>1, <2>3, <3>2
      <4> QED BY <3>1, <4>1, <2>1, SlotsDiffer
    <3>3. CASE s < t
      <4>1. s - 1 < t - 1 /\ (t - 1) - (s - 1) < QueueSize
        BY <1>0, <2>1, <2>3, <3>3
      <4> QED BY <3>1, <4>1, <2>1, SlotsDiffer
    <3> QED BY <1>0, <2>1, <3>2, <3>3
  <2>4. \E t \in 1 .. made : (t - 1) % QueueSize = c
    BY <2>1
  <2> HIDE DEF c, Last
  <2>5. (CHOOSE t \in 1 .. made : Last(c, t)) = s
    BY <2>1, <2>2, <2>3
  <2>6. queue[c] = s
    BY <1>2, <2>2, <2>4, <2>5
  <2> QED BY <2>1, <2>6 DEF s, c
<1>7. Ring = [i \in 1 .. made - taken |-> taken + i]
  BY <1>1, <1>6 DEF Ring
<1> HIDE DEF Last
<1>8. \A i \in 1 .. made - taken : taken + i \in Sock /\ taken + i \in taken + 1 .. made
  BY <1>0 DEF Sock
<1>9. Ring \in Seq(Sock) /\ Len(Ring) = made - taken
  <2> DEFINE m == made - taken
  <2>1. m \in Nat /\ Ring = [i \in 1 .. m |-> taken + i] /\ \A i \in 1 .. m : taken + i \in Sock
    BY <1>0, <1>7, <1>8
  <2> HIDE DEF m
  <2>2. Ring \in Seq(Sock) /\ Len(Ring) = m
    BY <2>1
  <2> QED BY <2>2 DEF m
<1>10. Distinct(Ring)
  BY <1>0, <1>7, <1>9 DEF Distinct
<1>11. In(Ring) = taken + 1 .. made
  <2>1. \A s \in taken + 1 .. made : s - taken \in 1 .. made - taken /\ taken + (s - taken) = s
    BY <1>0
  <2> QED BY <1>7, <1>8, <1>9, <2>1 DEF In
<1>12. produced = [i \in 1 .. made |-> i] /\ consumed = [i \in 1 .. taken |-> i]
  BY DEF PoolQuiet
<1>13. /\ produced \in Seq(Sock) /\ consumed \in Seq(Sock)
       /\ Len(produced) = made /\ Len(consumed) = taken
  BY <1>0, <1>12 DEF Sock
<1>14. RingIsFifo
  <2>1. consumed \o Ring \in Seq(Sock) /\ Len(consumed \o Ring) = made
    BY <1>0, <1>9, <1>13
  <2>2. ASSUME NEW i \in 1 .. made  PROVE (consumed \o Ring)[i] = i
    <3>1. CASE i <= taken
      BY <1>0, <1>9, <1>12, <1>13, <3>1
    <3>2. CASE i > taken
      <4>1. i - taken \in 1 .. made - taken /\ taken + (i - taken) = i
        BY <1>0, <3>2
      <4>2. (consumed \o Ring)[i] = Ring[i - taken]
        BY <1>0, <1>9, <1>13, <2>1, <3>2, ConcatProperties
      <4> QED BY <1>7, <4>1, <4>2
    <3>3. i <= taken \/ i > taken
      BY <1>0
    <3> QED BY <3>1, <3>2, <3>3
  <2>3. \A i \in 1 .. made : produced[i] = (consumed \o Ring)[i]
    BY <1>12, <2>2
  <2>4. produced = consumed \o Ring
    BY <1>13, <2>1, <2>3, SeqEqual
  <2> QED BY <2>4 DEF RingIsFifo
<1> QED BY <1>5, <1>9, <1>10, <1>11, <1>13, <1>14

\* Every worker can be given a socket of its own.
LEMMA OneEach ==
    LET n == Cardinality(Worker)
        f == CHOOSE g \in [Worker -> 1 .. n] : \A v, w \in Worker : g[v] = g[w] => v = w
    IN  n \in Nat /\ f \in [Worker -> 1 .. n] /\ \A v, w \in Worker : f[v] = f[w] => v = w
<1> DEFINE n == Cardinality(Worker)
           OwnOne(g) == \A v, w \in Worker : g[v] = g[w] => v = w
<1>1. n \in Nat /\ ExistsBijection(1 .. n, Worker)
  BY FS_CardinalityType, PoolAssumption
<1>2. PICK b \in Bijection(1 .. n, Worker) : TRUE
  BY <1>1 DEF ExistsBijection
<1>3. b \in [1 .. n -> Worker] /\ \A w \in Worker : \E i \in 1 .. n : b[i] = w
  BY <1>2 DEF Bijection, Injection, Surjection
<1> DEFINE h == [w \in Worker |-> CHOOSE i \in 1 .. n : b[i] = w]
<1>4. \A w \in Worker : h[w] \in 1 .. n /\ b[h[w]] = w
  BY <1>3
<1>5. h \in [Worker -> 1 .. n] /\ OwnOne(h)
  BY <1>4
<1> HIDE DEF OwnOne, h
<1>6. LET f == CHOOSE g \in [Worker -> 1 .. n] : OwnOne(g)
      IN  f \in [Worker -> 1 .. n] /\ OwnOne(f)
  BY <1>5
<1> QED BY <1>1, <1>6 DEF OwnOne

\* A pool that is quiet, whoever the taken sockets were given to, satisfies the
\* invariant.
LEMMA QuietInv ==
    ASSUME NEW taken \in 0 .. QueueSize, NEW made \in taken .. Connections,
           made - taken <= QueueSize, PoolQuiet(taken, made),
           client \in [Worker -> Sock \cup {None}],
           \A w \in Worker : client[w] = None \/ client[w] \in 1 .. taken,
           \A v, w \in Worker : client[v] = client[w] => v = w \/ client[v] = None,
           wpc \in [Worker -> WorkerState],
           \A w \in Worker : wpc[w] # "check" /\ (wpc[w] = "serve" => client[w] # None),
           mpc \in {"off", "select"}, spc = "start" => mpc = "off"
    PROVE  PoolInv
<1>1. /\ RingTyped /\ Ring \in Seq(Sock) /\ Distinct(Ring) /\ In(Ring) = taken + 1 .. made
      /\ produced \in Seq(Sock) /\ consumed \in Seq(Sock) /\ RingIsFifo
  BY QuietRing
<1>2. /\ stop_flag = 0 /\ sq_full = {} /\ sq_empty = {} /\ cond = {} /\ accepted = None
      /\ backlog = <<>> /\ fate = [s \in Sock |-> IF s <= made THEN "open" ELSE "new"]
  BY DEF PoolQuiet
<1>3. /\ backlog \in Seq(Sock) /\ Distinct(backlog) /\ In(backlog) = {} /\ None \notin Sock
      /\ In(Ring) \subseteq Sock
  BY <1>1, <1>2, SocketFacts
<1>4. \A s \in Sock : s <= made => fate[s] = "open"
  BY <1>2
<1>5. /\ \A s \in taken + 1 .. made : s \in Sock /\ s <= made /\ s \notin 1 .. taken /\ s # None
      /\ \A s \in 1 .. taken : s \in Sock /\ s <= made
  BY PoolAssumption DEF Sock, None
<1>6. PoolTyped
  BY <1>1, <1>2, <1>3 DEF PoolTyped, WorkerState
<1>7. Threads
  BY <1>2 DEF Threads
<1>8. Owned
  BY <1>1, <1>2, <1>3, <1>4, <1>5 DEF Owned
<1> QED BY <1>1, <1>6, <1>7, <1>8 DEF PoolInv

LEMMA InitPool == Init => PoolInv
<1> SUFFICES ASSUME Init PROVE PoolInv
  OBVIOUS
<1>0. QueueSize \in Nat \ {0} /\ Connections \in Nat
  BY PoolAssumption
<1>1. CASE PoolInit
  <2>1. 0 \in 0 .. QueueSize /\ 0 \in 0 .. Connections /\ 0 - 0 <= QueueSize
    BY <1>0
  <2> QED BY <1>1, <2>1, QuietInv DEF PoolInit, WorkerState
<1>2. CASE PoolBusy(CHOOSE f \in [Worker -> 1 .. Cardinality(Worker)] :
                        \A v, w \in Worker : f[v] = f[w] => v = w)
  <2> DEFINE n == Cardinality(Worker)
             made == IF n + QueueSize < Connections THEN n + QueueSize ELSE Connections
  <2>1. /\ n \in Nat /\ client \in [Worker -> 1 .. n]
        /\ \A v, w \in Worker : client[v] = client[w] => v = w
    BY <1>2, OneEach DEF PoolBusy
  <2>2. n <= QueueSize /\ n <= Connections /\ PoolQuiet(n, made)
    BY <1>2 DEF PoolBusy
  <2>3. n \in 0 .. QueueSize /\ made \in n .. Connections /\ made - n <= QueueSize
    BY <1>0, <2>1, <2>2
  <2>4. wpc = [w \in Worker |-> "serve"] /\ mpc = "select" /\ spc = "running"
    BY <1>2 DEF PoolBusy
  <2>5. \A s \in 1 .. n : s \in Sock /\ s # None
    BY <1>0, <2>1, <2>2 DEF Sock, None
  <2>6. /\ client \in [Worker -> Sock \cup {None}]
        /\ \A w \in Worker : client[w] \in 1 .. n /\ client[w] # None
    BY <2>1, <2>5
  <2> HIDE DEF n, made
  <2> QED BY <2>1, <2>2, <2>3, <2>4, <2>6, QuietInv DEF WorkerState
<1> QED BY <1>1, <1>2 DEF Init

-----------------------------------------------------------------------------
(* The inductive invariant of the name database.                           *)

\* The statuses a client may get; 0 for none.
Entry == [addr : Sock, time : 1 .. MaxTime]
Codes == {0, 200, 400, 405, 451, 491, 494, 495, 496}

NamesTyped ==
    /\ DOMAIN name_db \subseteq Name /\ now \in 1 .. MaxTime /\ init_rcvd \in BOOLEAN
    /\ \A n \in DOMAIN name_db : name_db[n] \in Entry /\ name_db[n].time <= now
    /\ ask \in Asks \cup {[s \in Sock |-> Idle]}
    /\ task \in [Worker -> {"idle", "search", "add", "list", "done"}]
    /\ cursor \in [Worker -> Name \cup {0}] /\ listed \in [Worker -> SUBSET Name]
    /\ reply \in [Sock -> Codes] /\ payload \in [Sock -> SUBSET Name]
    /\ older \in [Sock -> SUBSET Name] /\ stale \in [Sock -> SUBSET Name]

\* What a worker in the middle of a request may rely on.  Before the peer is
\* initialised nobody comes to the map.
Tasks ==
    /\ (~init_rcvd => Registered = {})
    /\ \A w \in Worker : task[w] # "idle" => wpc[w] = "serve"
    /\ \A w \in Worker : task[w] \in {"search", "add", "list"} => init_rcvd
    /\ \A w \in Worker : task[w] \in {"search", "add"} => ask[client[w]].name \in Name
    /\ \A w \in Worker : task[w] = "add" => ask[client[w]].name \notin older[client[w]]
    /\ \A w \in Worker : task[w] = "list" => ask[client[w]].method = "getall"

\* A connection that has not been served has no reply yet.
Fresh ==
    /\ \A s \in Unserved : reply[s] = 0
    /\ \A w \in Worker : client[w] # None /\ task[w] = "idle" => reply[client[w]] = 0

\* What was in the map when a request began is still there, and no older.
Lasting ==
    /\ \A s \in Sock : older[s] \cup stale[s] \subseteq Registered
    /\ \A s \in Sock : \A n \in stale[s] : name_db[n].time > ask[s].timestamp

\* The iterator has found what was due among the names it has passed.
Walked ==
    \A w \in Worker : task[w] = "list" =>
        \A n \in stale[client[w]] : n <= cursor[w] => n \in listed[w]

NamesInv == NamesTyped /\ Tasks /\ Fresh /\ Lasting /\ Walked /\ NotGivenAgain /\ GetallComplete

\* Times and keys are numbers.
LEMMA Numbers ==
    /\ \A e \in Entry : e.time \in Nat
    /\ NamesTyped => \A w \in Worker : cursor[w] \in Nat
<1>1. \A e \in Entry : e.time \in Nat
  BY NameAssumption DEF Entry
<1>2. Name \cup {0} \subseteq Nat
  BY NameAssumption
<1> QED BY <1>1, <1>2 DEF NamesTyped

\* The requests are well formed: a value is that of a key the query has.
LEMMA AskFacts ==
    ASSUME NamesTyped, NEW s \in Sock
    PROVE  /\ ("method" \notin ask[s].keys => ask[s].method = "none")
           /\ ("name" \in ask[s].keys => ask[s].name \in Name)
           /\ ask[s].timestamp \in Int
BY NameAssumption DEF NamesTyped

\* When interface_callback comes to the map, and when it says 200 without.
LEMMA RefusalFacts ==
    ASSUME NamesTyped, NEW r
    PROVE  /\ Refusal(r) \in Codes
           /\ Refusal(r) = 0 => init_rcvd /\ (r.method = "getall" \/ "name" \in r.keys)
           /\ Refusal(r) = 200 => ~init_rcvd \/ r.keys = {}
<1>1. CASE ~init_rcvd \/ r.keys = {}
  <2>1. Refusal(r) = 200
    BY <1>1 DEF Refusal
  <2> QED BY <1>1, <2>1 DEF Codes
<1>2. CASE init_rcvd /\ r.keys # {} /\ "method" \notin r.keys
  <2>1. Refusal(r) = 400
    BY <1>2 DEF Refusal
  <2> QED BY <2>1 DEF Codes
<1>3. CASE init_rcvd /\ "method" \in r.keys
  <2> DEFINE asked == r.method
             known == {"name", "port"} \subseteq r.keys
             inRange == ~(r.port < 1024 \/ r.port > 65535)
             late == r.timestamp <= 0
  <2>1. r.keys # {} /\ (known => "name" \in r.keys)
    BY <1>3
  <2>2. Refusal(r) = CASE asked \in {"register", "update"} ->
                              IF ~known THEN 451 ELSE IF ~inRange THEN 491 ELSE 0
                       [] asked = "isavailable" -> IF "name" \notin r.keys THEN 451 ELSE 0
                       [] asked = "getall" ->
                              IF "timestamp" \notin r.keys THEN 451 ELSE IF late THEN 495 ELSE 0
                       [] OTHER -> 405
    BY <1>3, <2>1 DEF Refusal
  <2> HIDE DEF asked, known, inRange, late
  <2>3. asked \in {"register", "update"} =>
            Refusal(r) = IF ~known THEN 451 ELSE IF ~inRange THEN 491 ELSE 0
    BY <2>2
  <2>4. asked = "isavailable" => Refusal(r) = IF "name" \notin r.keys THEN 451 ELSE 0
    BY <2>2
  <2>5. asked = "getall" =>
            Refusal(r) = IF "timestamp" \notin r.keys THEN 451 ELSE IF late THEN 495 ELSE 0
    BY <2>2
  <2>6. asked \notin {"register", "update", "isavailable", "getall"} => Refusal(r) = 405
    BY <2>2
  <2>7. /\ Refusal(r) \in Codes /\ Refusal(r) # 200
        /\ Refusal(r) = 0 => asked = "getall" \/ "name" \in r.keys
    BY <2>1, <2>3, <2>4, <2>5, <2>6 DEF Codes
  <2> QED BY <1>3, <2>7 DEF asked
<1> QED BY <1>1, <1>2, <1>3

\* The iterator goes to the next name, and skips none.
LEMMA NextKeyLeast ==
    ASSUME NamesTyped, NEW w \in Worker, Rest(w) # {}
    PROVE  NextKey(w) \in Rest(w) /\ \A m \in Rest(w) : NextKey(w) <= m
<1>1. Rest(w) \subseteq Nat
  BY NameAssumption DEF Rest, Registered, NamesTyped
<1>2. PICK x \in Rest(w) : \A y \in Rest(w) : ~(<<y, x>> \in OpToRel(<, Nat))
  BY <1>1, NatLessThanWellFounded, WFMin
<1>3. \A y \in Rest(w) : x <= y
  <2> TAKE y \in Rest(w)
  <2>1. ~(<<y, x>> \in OpToRel(<, Nat))
    BY <1>2
  <2>2. x \in Nat /\ y \in Nat
    BY <1>1
  <2>3. ~(y < x)
    BY <2>1, <2>2 DEF OpToRel
  <2> QED BY <2>2, <2>3
<1> QED BY <1>3 DEF NextKey

\* A socket in a worker's hand is in no line and in no other hand.
LEMMA InHand ==
    ASSUME PoolInv, NEW w \in Worker, wpc[w] = "serve"
    PROVE  /\ client[w] \in Sock /\ client[w] # None /\ client[w] \notin Unserved
           /\ \A v \in Worker : v # w => client[v] # client[w]
BY DEF PoolInv, PoolTyped, Threads, Owned, Unserved

LEMMA PoolStays ==
    ASSUME PoolInv, UNCHANGED poolVars
    PROVE  PoolInv' /\ Unserved' = Unserved /\ UNCHANGED <<wpc, client>>
<1> USE DEF poolVars, syncVars, startVars, masterVars, workerVars, sockVars, historyVars
<1>1. UNCHANGED <<held, wpc, stop_flag, sq_full, sq_empty, cond, spc, mpc>>
  BY DEF held
<1>2. Threads' /\ wpc' \in [Worker -> WorkerState] /\ stop_flag' \in 0 .. 2 /\ sq_full' \subseteq Worker
  BY <1>1 DEF PoolInv, Threads, PoolTyped, WorkerState, held
<1>3. PoolInv'
  BY <1>1, <1>2, HeldKept
<1>4. Ring' = Ring
  BY <1>1 DEF Ring, Fill, held
<1> QED BY <1>1, <1>3, <1>4 DEF Unserved, held

-----------------------------------------------------------------------------
(* The steps of the name database.                                         *)

\* A step of the pool: a worker that serves is left alone, and whoever is given
\* a socket is given one without a reply.
LEMMA PoolStepNames ==
    ASSUME PoolInv, NamesInv, PoolStep, UNCHANGED <<dirVars, taskVars, clientVars>>
    PROVE  PoolInv' /\ NamesInv'
<1>1. PoolInv' /\ HandsOut
  BY PoolStepKeeps
<1>2. UNCHANGED <<name_db, init_rcvd, now, task, cursor, listed, ask, reply, payload, older, stale>>
  BY DEF dirVars, taskVars, clientVars
<1>3. \A w \in Worker : task[w] # "idle" => wpc[w] = "serve" /\ wpc'[w] = "serve" /\ client'[w] = client[w]
  BY <1>1 DEF HandsOut, NamesInv, Tasks
<1>4. NamesTyped' /\ Lasting' /\ NotGivenAgain' /\ GetallComplete'
  BY <1>2 DEF NamesInv, NamesTyped, Lasting, NotGivenAgain, GetallComplete, Registered
<1>5. Tasks'
  BY <1>2, <1>3 DEF NamesInv, Tasks, Registered
<1>6. Fresh'
  <2>1. \A s \in Unserved' : reply'[s] = 0
    BY <1>1, <1>2 DEF HandsOut, NamesInv, Fresh
  <2>2. ASSUME NEW w \in Worker, client'[w] # None, task[w] = "idle"
        PROVE  reply[client'[w]] = 0
    <3>1. CASE client'[w] = client[w]
      BY <3>1, <2>2 DEF NamesInv, Fresh
    <3>2. CASE client'[w] # client[w]
      BY <3>2, <2>2, <1>1 DEF HandsOut, NamesInv, Fresh
    <3> QED BY <3>1, <3>2
  <2> QED BY <1>2, <2>1, <2>2 DEF Fresh
<1>7. Walked'
  BY <1>2, <1>3 DEF NamesInv, Walked
<1> QED BY <1>1, <1>4, <1>5, <1>6, <1>7 DEF NamesInv

\* read_request: what the request will be measured by is noted, and it comes to
\* the map or is answered at once.
LEMMA StartRequestNames ==
    ASSUME PoolInv, NamesInv, NEW w \in Worker, StartRequest(w)
    PROVE  PoolInv' /\ NamesInv'
<1> DEFINE s == client[w]
           code == Refusal(ask[s])
           own == {ask[t].name : t \in {u \in Sock : reply[u] = 200 /\ ask[u].method = "register"}}
                      \cap Registered
           due == {n \in Registered : code = 0 /\ name_db[n].time > ask[s].timestamp}
<1>1. /\ UNCHANGED <<name_db, init_rcvd, now, ask, payload>> /\ UNCHANGED poolVars
      /\ wpc[w] = "serve" /\ task[w] = "idle"
      /\ older' = [older EXCEPT ![s] = own] /\ stale' = [stale EXCEPT ![s] = due]
      /\ cursor' = [cursor EXCEPT ![w] = 0] /\ listed' = [listed EXCEPT ![w] = {}]
      /\ \/ /\ code # 0 /\ task' = [task EXCEPT ![w] = "done"]
            /\ reply' = [reply EXCEPT ![s] = code]
         \/ /\ code = 0 /\ reply' = reply
            /\ task' = [task EXCEPT ![w] = IF ask[s].method = "getall" THEN "list" ELSE "search"]
  BY DEF StartRequest, dirVars, Respond
<1>2. PoolInv' /\ Unserved' = Unserved /\ UNCHANGED <<wpc, client>>
  BY <1>1, PoolStays
<1>3. s \in Sock /\ s # None /\ s \notin Unserved /\ \A v \in Worker : v # w => client[v] # s
  BY <1>1, InHand
<1>4. /\ code \in Codes /\ (code = 0 => init_rcvd /\ (ask[s].method = "getall" \/ ask[s].name \in Name))
      /\ (code = 200 /\ ask[s].method = "register" => Registered = {})
      /\ ask[s].timestamp \in Int /\ reply[s] = 0
  <2>1. /\ code \in Codes
        /\ (code = 0 => init_rcvd /\ (ask[s].method = "getall" \/ "name" \in ask[s].keys))
        /\ (code = 200 => ~init_rcvd \/ ask[s].keys = {})
    BY RefusalFacts DEF NamesInv
  <2>2. /\ ("method" \notin ask[s].keys => ask[s].method = "none")
        /\ ("name" \in ask[s].keys => ask[s].name \in Name)
        /\ ask[s].timestamp \in Int
    BY <1>3, AskFacts DEF NamesInv
  <2>3. ~init_rcvd => Registered = {}
    BY DEF NamesInv, Tasks
  <2>4. reply[s] = 0
    BY <1>1, <1>3 DEF NamesInv, Fresh
  <2> HIDE DEF s, code
  <2> QED BY <2>1, <2>2, <2>3, <2>4
<1>5. own \subseteq Registered /\ due \subseteq Registered /\ Registered \subseteq Name
      /\ (code # 0 => due = {}) /\ \A n \in due : name_db[n].time > ask[s].timestamp
  BY DEF NamesInv, NamesTyped, Registered
<1>6. \E x \in {"list", "search", "done"} :
         /\ task' = [task EXCEPT ![w] = x]
         /\ x # "done" => code = 0 /\ reply' = reply
         /\ x = "list" => ask[s].method = "getall"
         /\ x = "search" => ask[s].method # "getall"
         /\ x = "done" => reply' = [reply EXCEPT ![s] = code]
  BY <1>1
<1> HIDE DEF s, code, own, due
<1>7. PICK x \in {"list", "search", "done"} :
         /\ task' = [task EXCEPT ![w] = x]
         /\ x # "done" => code = 0 /\ reply' = reply
         /\ x = "list" => ask[s].method = "getall"
         /\ x = "search" => ask[s].method # "getall"
         /\ x = "done" => reply' = [reply EXCEPT ![s] = code]
  BY <1>6
<1>8. /\ older' \in [Sock -> SUBSET Name] /\ stale' \in [Sock -> SUBSET Name]
      /\ older'[s] = own /\ stale'[s] = due
      /\ \A t \in Sock : t # s => older'[t] = older[t] /\ stale'[t] = stale[t]
  BY <1>1, <1>3, <1>5 DEF NamesInv, NamesTyped
<1>9. /\ reply' \in [Sock -> Codes] /\ \A t \in Sock : t # s => reply'[t] = reply[t]
      /\ reply'[s] = 0 \/ reply'[s] = code
      /\ x # "done" => reply'[s] = 0
  BY <1>3, <1>4, <1>7 DEF NamesInv, NamesTyped
<1>10. /\ task' \in [Worker -> {"idle", "search", "add", "list", "done"}]
       /\ task'[w] = x /\ \A v \in Worker : v # w => task'[v] = task[v]
  BY <1>7 DEF NamesInv, NamesTyped
<1>11. /\ cursor' \in [Worker -> Name \cup {0}] /\ listed' \in [Worker -> SUBSET Name] /\ cursor'[w] = 0
       /\ \A v \in Worker : v # w => cursor'[v] = cursor[v] /\ listed'[v] = listed[v]
  BY <1>1 DEF NamesInv, NamesTyped
<1>12. NamesTyped'
  BY <1>1, <1>8, <1>9, <1>10, <1>11 DEF NamesInv, NamesTyped
<1>a. \A v \in Worker : v # w /\ task[v] # "idle" => client[v] \in Sock /\ client[v] # s
  BY <1>3, InHand DEF NamesInv, Tasks
<1>b. client[w] = s
  BY DEF s
<1>13. Tasks'
  BY <1>1, <1>2, <1>3, <1>4, <1>7, <1>8, <1>10, <1>a, <1>b DEF NamesInv, Tasks, Registered
<1>14. Fresh'
  <2>1. \A t \in Unserved : t \in Sock /\ t # s
    BY <1>3, SocketFacts DEF Unserved, PoolInv, PoolTyped
  <2>2. \A v \in Worker : client[v] # None => client[v] \in Sock
    BY DEF PoolInv, PoolTyped
  <2>3. \A t \in Unserved' : reply'[t] = 0
    BY <1>2, <1>9, <2>1 DEF NamesInv, Fresh
  <2>4. \A v \in Worker : client'[v] # None /\ task'[v] = "idle" => reply'[client'[v]] = 0
    BY <1>2, <1>3, <1>9, <1>10, <2>2 DEF NamesInv, Fresh
  <2> QED BY <2>3, <2>4 DEF Fresh
<1>15. Lasting'
  BY <1>1, <1>5, <1>8 DEF NamesInv, Lasting, Registered
<1>16. Walked'
  <2>1. \A n \in due : n \in Nat \ {0}
    BY <1>5, NameAssumption
  <2>2. \A n \in due : ~(n <= cursor'[w])
    BY <1>11, <2>1
  <2> QED BY <1>1, <1>2, <1>8, <1>10, <1>11, <1>a, <1>b, <2>2 DEF NamesInv, Walked
<1>17. NotGivenAgain'
  BY <1>1, <1>4, <1>5, <1>8, <1>9 DEF NamesInv, NotGivenAgain
<1>18. GetallComplete'
  BY <1>1, <1>5, <1>8, <1>9 DEF NamesInv, GetallComplete
<1> QED BY <1>2, <1>12, <1>13, <1>14, <1>15, <1>16, <1>17, <1>18 DEF NamesInv

\* What Put does to the map.
LEMMA PutFacts ==
    ASSUME NamesTyped, NEW n \in Name, NEW s \in Sock
    PROVE  /\ DOMAIN Put(n, s) = Registered \cup {n}
           /\ Put(n, s)[n] \in Entry /\ Put(n, s)[n].time = now
           /\ \A m \in Registered : m # n => Put(n, s)[m] = name_db[m]
BY DEF Put, Registered, NamesTyped, Entry

\* register, addToNameDB, update and isavailable: one call on the map.
LEMMA NameStepFacts ==
    ASSUME PoolInv, NamesInv, NEW w \in Worker, NameStep(w)
    PROVE  LET s == client[w]
           IN  /\ s \in Sock /\ wpc[w] = "serve" /\ ask[s].name \in Name
               /\ \/ name_db' = name_db
                  \/ name_db' = Put(ask[s].name, s) /\
                         (ask[s].name \in Registered => ask[s].method = "update" /\ task'[w] = "done")
               /\ \E x \in {"add", "done"} :
                      /\ task' = [task EXCEPT ![w] = x]
                      /\ x = "add" => reply' = reply /\ ask[s].name \notin Registered
               /\ \/ reply' = reply
                  \/ \E c \in Codes :
                         /\ reply' = [reply EXCEPT ![s] = c] /\ ask[s].method # "getall"
                         /\ c = 200 /\ ask[s].method = "register" => ask[s].name \notin older[s]
               /\ UNCHANGED poolVars
               /\ UNCHANGED <<init_rcvd, now, cursor, listed, ask, payload, older, stale>>
<1> DEFINE s == client[w]
<1>1. /\ wpc[w] = "serve" /\ UNCHANGED poolVars
      /\ UNCHANGED <<init_rcvd, now, cursor, listed, ask, payload, older, stale>>
  BY DEF NameStep
<1>2. s \in Sock
  BY <1>1, InHand
<1>3. CASE ask[s].method = "register" /\ register(w, s)
  <2>1. task[w] = "search" /\ name_db' = name_db /\ ask[s].name \in Name
    BY <1>3 DEF register, NamesInv, Tasks
  <2>2. CASE Respond(w, 494)
    <3>1. PICK c \in Codes : c # 200 /\ Respond(w, c)
      BY <2>2 DEF Codes
    <3>2. task' = [task EXCEPT ![w] = "done"] /\ reply' = [reply EXCEPT ![s] = c]
      BY <3>1 DEF Respond
    <3> HIDE DEF s
    <3> QED BY <1>1, <1>2, <1>3, <2>1, <3>1, <3>2 DEF s
  <2>3. CASE task' = [task EXCEPT ![w] = "add"] /\ reply' = reply /\ ask[s].name \notin Registered
    BY <1>1, <1>2, <1>3, <2>1, <2>3
  <2> QED BY <1>3, <2>2, <2>3 DEF register
<1>4. CASE ask[s].method = "register" /\ addToNameDB(w, s)
  <2>1. task[w] = "add" /\ ask[s].name \in Name /\ ask[s].name \notin older[s] /\ Respond(w, 200)
    BY <1>4 DEF addToNameDB, NamesInv, Tasks
  <2>2. \/ name_db' = name_db
        \/ name_db' = Put(ask[s].name, s) /\ ask[s].name \notin Registered
    BY <1>4 DEF addToNameDB
  <2>3. 200 \in Codes
    BY DEF Codes
  <2> QED BY <1>1, <1>2, <1>4, <2>1, <2>2, <2>3 DEF Respond
<1>5. CASE ask[s].method = "update" /\ updateNameDB(w, s)
  <2>1. task[w] = "search" /\ ask[s].name \in Name /\ name_db' = Put(ask[s].name, s)
    BY <1>5 DEF updateNameDB, NamesInv, Tasks
  <2>2. \E c \in Codes : Respond(w, c)
    BY <1>5 DEF updateNameDB, Codes
  <2>3. task' = [task EXCEPT ![w] = "done"] /\ task'[w] = "done"
    BY <2>2 DEF Respond, NamesInv, NamesTyped
  <2> QED BY <1>1, <1>2, <1>5, <2>1, <2>2, <2>3 DEF Respond
<1>6. CASE ask[s].method = "isavailable" /\ isavailable(w, s)
  <2>1. task[w] = "search" /\ ask[s].name \in Name /\ name_db' = name_db
    BY <1>6 DEF isavailable, NamesInv, Tasks
  <2>2. \E c \in Codes : Respond(w, c)
    BY <1>6 DEF isavailable, Codes
  <2> QED BY <1>1, <1>2, <1>6, <2>1, <2>2 DEF Respond
<1> QED BY <1>3, <1>4, <1>5, <1>6 DEF NameStep

LEMMA NameStepNames ==
    ASSUME PoolInv, NamesInv, NEW w \in Worker, NameStep(w)
    PROVE  PoolInv' /\ NamesInv'
<1> DEFINE s == client[w]
           a == ask[s].name
<1>1. /\ s \in Sock /\ wpc[w] = "serve" /\ a \in Name
      /\ name_db' = name_db \/ name_db' = Put(a, s)
      /\ \E x \in {"add", "done"} :
             /\ task' = [task EXCEPT ![w] = x]
             /\ x = "add" => reply' = reply /\ a \notin Registered
      /\ \/ reply' = reply
         \/ \E c \in Codes :
                /\ reply' = [reply EXCEPT ![s] = c] /\ ask[s].method # "getall"
                /\ c = 200 /\ ask[s].method = "register" => a \notin older[s]
      /\ UNCHANGED poolVars
      /\ UNCHANGED <<init_rcvd, now, cursor, listed, ask, payload, older, stale>>
  BY NameStepFacts
<1>2. PoolInv' /\ Unserved' = Unserved /\ UNCHANGED <<wpc, client>>
  BY <1>1, PoolStays
<1>3. s # None /\ s \notin Unserved /\ \A v \in Worker : v # w => client[v] # s
  BY <1>1, InHand
<1>4. task[w] \in {"search", "add"} /\ init_rcvd
  BY DEF NameStep, register, addToNameDB, updateNameDB, isavailable, NamesInv, Tasks
<1> HIDE DEF s, a
<1>5. /\ Registered \subseteq Registered' /\ Registered' \subseteq Name
      /\ \A n \in Registered' : name_db'[n] \in Entry /\ name_db'[n].time <= now
      /\ \A n \in Registered : name_db'[n].time >= name_db[n].time
  <2>1. CASE name_db' = name_db
    <3>1. \A n \in Registered : name_db[n].time \in Nat
      BY NameAssumption DEF NamesInv, NamesTyped, Registered, Entry
    <3> QED BY <2>1, <3>1 DEF NamesInv, NamesTyped, Registered
  <2>2. CASE name_db' = Put(a, s)
    <3>1. /\ Registered' = Registered \cup {a} /\ name_db'[a] \in Entry /\ name_db'[a].time = now
          /\ \A m \in Registered : m # a => name_db'[m] = name_db[m]
      BY <1>1, <2>2, PutFacts DEF NamesInv, Registered
    <3>2. now \in Nat /\ \A n \in Registered : name_db[n].time \in Nat
      BY NameAssumption DEF NamesInv, NamesTyped, Registered, Entry
    <3> QED BY <1>1, <3>1, <3>2 DEF NamesInv, NamesTyped, Registered
  <2> QED BY <1>1, <2>1, <2>2
<1>6. PICK x \in {"add", "done"} :
             /\ task' = [task EXCEPT ![w] = x]
             /\ x = "add" => reply' = reply /\ a \notin Registered
  BY <1>1
<1>7. /\ task' \in [Worker -> {"idle", "search", "add", "list", "done"}]
      /\ task'[w] = x /\ \A v \in Worker : v # w => task'[v] = task[v]
  BY <1>6 DEF NamesInv, NamesTyped
<1>8. /\ reply' \in [Sock -> Codes] /\ \A t \in Sock : t # s => reply'[t] = reply[t]
      /\ \/ reply'[s] = reply[s]
         \/ /\ ask[s].method # "getall"
            /\ reply'[s] = 200 /\ ask[s].method = "register" => a \notin older[s]
  BY <1>1 DEF NamesInv, NamesTyped
<1>9. NamesTyped'
  BY <1>1, <1>5, <1>7, <1>8 DEF NamesInv, NamesTyped, Registered
<1>a. client[w] = s /\ ask[s].name = a
  BY DEF s, a
<1>b. a \notin Registered => a \notin older[s]
  BY <1>1 DEF NamesInv, Lasting
<1>10. Tasks'
  BY <1>1, <1>2, <1>4, <1>6, <1>7, <1>a, <1>b DEF NamesInv, Tasks
<1>11. Fresh'
  <2>1. \A t \in Unserved : t \in Sock /\ t # s
    BY <1>3, SocketFacts DEF Unserved, PoolInv, PoolTyped
  <2>2. \A v \in Worker : client[v] # None => client[v] \in Sock
    BY DEF PoolInv, PoolTyped
  <2>3. \A t \in Unserved' : reply'[t] = 0
    BY <1>2, <1>8, <2>1 DEF NamesInv, Fresh
  <2>4. \A v \in Worker : client'[v] # None /\ task'[v] = "idle" => reply'[client'[v]] = 0
    BY <1>2, <1>3, <1>7, <1>8, <2>2 DEF NamesInv, Fresh
  <2> QED BY <2>3, <2>4 DEF Fresh
<1>12. Lasting'
  <2>1. \A t \in Sock : older'[t] \cup stale'[t] \subseteq Registered'
    BY <1>1, <1>5 DEF NamesInv, Lasting
  <2>2. ASSUME NEW t \in Sock, NEW n \in stale[t]  PROVE name_db'[n].time > ask[t].timestamp
    <3>1. n \in Registered /\ name_db[n].time > ask[t].timestamp /\ ask[t].timestamp \in Int
      BY AskFacts DEF NamesInv, Lasting
    <3>2. name_db[n].time \in Nat /\ name_db'[n].time \in Nat /\ name_db'[n].time >= name_db[n].time
      BY <3>1, <1>5, Numbers DEF NamesInv, NamesTyped, Registered
    <3> QED BY <3>1, <3>2
  <2> QED BY <1>1, <2>1, <2>2 DEF Lasting
<1>13. Walked'
  BY <1>1, <1>2, <1>7 DEF NamesInv, Walked
<1>14. NotGivenAgain'
  BY <1>1, <1>8, <1>a DEF NamesInv, NotGivenAgain
<1>15. GetallComplete'
  BY <1>1, <1>8 DEF NamesInv, GetallComplete
<1> QED BY <1>2, <1>9, <1>10, <1>11, <1>12, <1>13, <1>14, <1>15 DEF NamesInv

\* getall: a turn of the iterator, or the end of the walk and the answer.
LEMMA ListNextNames ==
    ASSUME PoolInv, NamesInv, NEW w \in Worker, ListNext(w)
    PROVE  PoolInv' /\ NamesInv'
<1> DEFINE s == client[w]
<1>1. /\ wpc[w] = "serve" /\ task[w] = "list"
      /\ UNCHANGED poolVars /\ UNCHANGED <<name_db, init_rcvd, now, ask, older, stale>>
  BY DEF ListNext, dirVars
<1>2. PoolInv' /\ Unserved' = Unserved /\ UNCHANGED <<wpc, client>>
  BY <1>1, PoolStays
<1>3. s \in Sock /\ s # None /\ s \notin Unserved /\ \A v \in Worker : v # w => client[v] # s
  BY <1>1, InHand
<1>4. Lasting'
  BY <1>1 DEF NamesInv, Lasting, Registered
<1>5. CASE Rest(w) # {}
  <2> DEFINE n == NextKey(w)
  <2>1. /\ cursor' = [cursor EXCEPT ![w] = n]
        /\ listed' = [listed EXCEPT ![w] = IF name_db[n].time > ask[s].timestamp THEN @ \cup {n} ELSE @]
        /\ UNCHANGED <<task, reply, payload>>
    BY <1>5 DEF ListNext
  <2>2. n \in Registered /\ n > cursor[w] /\ \A m \in Registered : m > cursor[w] => n <= m
    BY <1>5, NextKeyLeast DEF NamesInv, Rest
  <2>3. n \in Nat /\ n \in Name /\ Name \subseteq Nat
    BY <2>2, NameAssumption DEF NamesInv, NamesTyped, Registered
  <2> HIDE DEF n, s
  <2>4. /\ cursor' \in [Worker -> Name \cup {0}] /\ cursor'[w] = n
        /\ listed' \in [Worker -> SUBSET Name] /\ listed[w] \subseteq listed'[w]
        /\ (name_db[n].time > ask[s].timestamp => n \in listed'[w])
        /\ \A v \in Worker : v # w => cursor'[v] = cursor[v] /\ listed'[v] = listed[v]
    BY <2>1, <2>3 DEF NamesInv, NamesTyped
  <2>5. ASSUME NEW m \in stale[s], m <= n  PROVE m \in listed'[w]
    <3>1. m \in Registered /\ name_db[m].time > ask[s].timestamp /\ m \in Nat /\ cursor[w] \in Nat
      <4>1. cursor[w] \in Nat
        BY Numbers DEF NamesInv
      <4>2. m \in Registered /\ name_db[m].time > ask[s].timestamp
        BY <1>3 DEF NamesInv, Lasting
      <4> QED BY <2>3, <4>1, <4>2 DEF NamesInv, NamesTyped, Registered
    <3>2. CASE m <= cursor[w]
      BY <1>1, <2>4, <3>2 DEF NamesInv, Walked, s
    <3>3. CASE m > cursor[w]
      <4>1. m = n
        BY <2>2, <2>3, <2>5, <3>1, <3>3
      <4> QED BY <2>4, <3>1, <4>1
    <3> QED BY <3>1, <3>2, <3>3
  <2>6. NamesTyped'
    BY <1>1, <2>1, <2>4 DEF NamesInv, NamesTyped
  <2>7. Tasks' /\ Fresh' /\ NotGivenAgain' /\ GetallComplete'
    BY <1>1, <1>2, <2>1
       DEF NamesInv, Tasks, Fresh, NotGivenAgain, GetallComplete, Registered
  <2>8. Walked'
    BY <1>1, <1>2, <2>1, <2>4, <2>5 DEF NamesInv, Walked, s
  <2> QED BY <1>2, <1>4, <2>6, <2>7, <2>8 DEF NamesInv
<1>6. CASE Rest(w) = {}
  <2>1. /\ payload' = [payload EXCEPT ![s] = listed[w]] /\ reply' = [reply EXCEPT ![s] = 200]
        /\ task' = [task EXCEPT ![w] = "done"] /\ UNCHANGED <<cursor, listed>>
    BY <1>6 DEF ListNext, Respond
  <2>2. stale[s] \subseteq listed[w] /\ listed[w] \subseteq Name
    <3>1. ASSUME NEW m \in stale[s]  PROVE m \in listed[w]
      <4>1. m \in Registered /\ m \in Nat /\ cursor[w] \in Nat
        <5>1. cursor[w] \in Nat
          BY Numbers DEF NamesInv
        <5>2. m \in Registered
          BY <1>3 DEF NamesInv, Lasting
        <5> QED BY <5>1, <5>2, NameAssumption DEF NamesInv, NamesTyped, Registered
      <4>2. ~(m > cursor[w])
        BY <1>6, <4>1 DEF Rest
      <4> QED BY <1>1, <4>1, <4>2 DEF NamesInv, Walked
    <3> QED BY <3>1 DEF NamesInv, NamesTyped
  <2>3. ask[s].method # "register"
    BY <1>1 DEF NamesInv, Tasks
  <2> HIDE DEF s
  <2>4. /\ task' \in [Worker -> {"idle", "search", "add", "list", "done"}]
        /\ task'[w] = "done" /\ \A v \in Worker : v # w => task'[v] = task[v]
    BY <2>1 DEF NamesInv, NamesTyped
  <2>5. /\ reply' \in [Sock -> Codes] /\ \A t \in Sock : t # s => reply'[t] = reply[t]
        /\ payload' \in [Sock -> SUBSET Name] /\ payload'[s] = listed[w]
        /\ \A t \in Sock : t # s => payload'[t] = payload[t]
    BY <2>1, <2>2, <1>3 DEF NamesInv, NamesTyped, Codes
  <2>6. NamesTyped'
    BY <1>1, <2>1, <2>4, <2>5 DEF NamesInv, NamesTyped
  <2>7. Tasks' /\ Walked'
    BY <1>1, <1>2, <2>1, <2>4 DEF NamesInv, Tasks, Walked, Registered
  <2>8. Fresh'
    <3>1. \A t \in Unserved : t \in Sock /\ t # s
      BY <1>3, SocketFacts DEF Unserved, PoolInv, PoolTyped
    <3>2. \A v \in Worker : client[v] # None => client[v] \in Sock
      BY DEF PoolInv, PoolTyped
    <3>3. \A t \in Unserved' : reply'[t] = 0
      BY <1>2, <2>5, <3>1 DEF NamesInv, Fresh
    <3>4. \A v \in Worker : client'[v] # None /\ task'[v] = "idle" => reply'[client'[v]] = 0
      BY <1>2, <1>3, <2>4, <2>5, <3>2 DEF NamesInv, Fresh
    <3> QED BY <3>3, <3>4 DEF Fresh
  <2>9. NotGivenAgain' /\ GetallComplete'
    BY <1>1, <2>2, <2>3, <2>5 DEF NamesInv, NotGivenAgain, GetallComplete
  <2> QED BY <1>2, <1>4, <2>6, <2>7, <2>8, <2>9 DEF NamesInv
<1> QED BY <1>5, <1>6

\* The connection is closed; nobody is given its socket again.
LEMMA EndRequestNames ==
    ASSUME PoolInv, NamesInv, NEW w \in Worker, EndRequest(w)
    PROVE  PoolInv' /\ NamesInv'
<1>1. /\ wpc[w] = "serve" /\ CloseConnection(w) /\ task' = [task EXCEPT ![w] = "idle"]
      /\ UNCHANGED <<name_db, init_rcvd, now, cursor, listed, ask, reply, payload, older, stale>>
  BY DEF EndRequest, dirVars, clientVars
<1>2. /\ PoolInv' /\ Unserved' \subseteq Unserved /\ client'[w] = None
      /\ \A v \in Worker : v # w => client'[v] = client[v] /\ wpc'[v] = wpc[v]
  BY <1>1, CloseKeeps
<1>3. /\ task' \in [Worker -> {"idle", "search", "add", "list", "done"}]
      /\ task'[w] = "idle" /\ \A v \in Worker : v # w => task'[v] = task[v]
  BY <1>1 DEF NamesInv, NamesTyped
<1>4. NamesTyped' /\ Lasting' /\ NotGivenAgain' /\ GetallComplete'
  BY <1>1, <1>3 DEF NamesInv, NamesTyped, Lasting, NotGivenAgain, GetallComplete, Registered
<1>5. Tasks' /\ Walked'
  BY <1>1, <1>2, <1>3 DEF NamesInv, Tasks, Walked, Registered
<1>6. Fresh'
  BY <1>1, <1>2, <1>3 DEF NamesInv, Fresh
<1> QED BY <1>2, <1>4, <1>5, <1>6 DEF NamesInv

\* The peer is initialised; time passes.
LEMMA PeerNames ==
    ASSUME PoolInv, NamesInv, ReceiveInit \/ Tick
    PROVE  PoolInv' /\ NamesInv'
<1>1. /\ UNCHANGED poolVars
      /\ UNCHANGED <<name_db, task, cursor, listed, ask, reply, payload, older, stale>>
      /\ now' \in 1 .. MaxTime /\ now' >= now /\ init_rcvd' \in BOOLEAN /\ (init_rcvd => init_rcvd')
      /\ (~init_rcvd' => ~init_rcvd)
  <2>1. now \in 1 .. MaxTime /\ init_rcvd \in BOOLEAN /\ MaxTime \in Nat
    BY NameAssumption DEF NamesInv, NamesTyped
  <2>2. CASE ReceiveInit
    BY <2>1, <2>2 DEF ReceiveInit, taskVars, clientVars
  <2>3. CASE Tick
    BY <2>1, <2>3 DEF Tick, taskVars, clientVars
  <2> QED BY <2>2, <2>3
<1>2. PoolInv' /\ Unserved' = Unserved /\ UNCHANGED <<wpc, client>>
  BY <1>1, PoolStays
<1>3. \A n \in DOMAIN name_db' : name_db'[n] \in Entry /\ name_db'[n].time <= now'
  <2>1. now \in Nat /\ now' \in Nat /\ \A n \in DOMAIN name_db : name_db[n].time \in Nat
    BY <1>1, NameAssumption DEF NamesInv, NamesTyped, Entry
  <2> QED BY <1>1, <2>1 DEF NamesInv, NamesTyped
<1>4. NamesTyped'
  BY <1>1, <1>3 DEF NamesInv, NamesTyped
<1>5. Tasks'
  BY <1>1, <1>2 DEF NamesInv, Tasks, Registered
<1>6. Fresh' /\ Lasting' /\ Walked' /\ NotGivenAgain' /\ GetallComplete'
  BY <1>1, <1>2 DEF NamesInv, Fresh, Lasting, Walked, NotGivenAgain, GetallComplete, Registered
<1> QED BY <1>2, <1>4, <1>5, <1>6 DEF NamesInv

\* The initial states.
LEMMA InitNames == Init => NamesInv
<1> SUFFICES ASSUME Init PROVE NamesInv
  OBVIOUS
<1>1. /\ name_db = [n \in {} |-> 0] /\ DOMAIN name_db = {}
      /\ task = [w \in Worker |-> "idle"] /\ cursor = [w \in Worker |-> 0]
      /\ listed = [w \in Worker |-> {}] /\ reply = [s \in Sock |-> 0]
      /\ payload = [s \in Sock |-> {}] /\ older = [s \in Sock |-> {}]
      /\ stale = [s \in Sock |-> {}]
  BY DEF Init, NameInit
<1>2. now \in 1 .. MaxTime /\ init_rcvd \in BOOLEAN /\ ask \in Asks \cup {[s \in Sock |-> Idle]}
  <2>1. MaxTime \in 1 .. MaxTime /\ 1 \in 1 .. MaxTime
    BY NameAssumption
  <2>2. CASE PoolInit /\ ask = [s \in Sock |-> Idle] /\ init_rcvd = TRUE /\ now = MaxTime
    BY <2>1, <2>2
  <2>3. CASE ask \in Asks /\ init_rcvd = FALSE /\ now = 1
    BY <2>1, <2>3
  <2> QED BY <2>2, <2>3 DEF Init
<1>3. NamesTyped
  BY <1>1, <1>2 DEF NamesTyped, Codes
<1>4. Unserved \subseteq Sock /\ \A w \in Worker : client[w] # None => client[w] \in Sock
  BY InitPool, SocketFacts DEF Unserved, PoolInv, PoolTyped
<1>5. Tasks /\ Walked /\ Lasting /\ NotGivenAgain /\ GetallComplete
  BY <1>1 DEF Tasks, Walked, Lasting, NotGivenAgain, GetallComplete, Registered
<1>6. Fresh
  BY <1>1, <1>4 DEF Fresh
<1> QED BY <1>3, <1>5, <1>6 DEF NamesInv

\* Every step keeps both invariants.
LEMMA NextKeeps ==
    ASSUME PoolInv, NamesInv, [Next]_vars
    PROVE  PoolInv' /\ NamesInv'
<1>1. CASE PoolStep /\ UNCHANGED <<dirVars, taskVars, clientVars>>
  BY <1>1, PoolStepNames
<1>2. ASSUME NEW w \in Worker, ServeStep(w)  PROVE PoolInv' /\ NamesInv'
  BY <1>2, StartRequestNames, NameStepNames, ListNextNames, EndRequestNames DEF ServeStep
<1>3. CASE ReceiveInit \/ Tick
  BY <1>3, PeerNames
<1>4. CASE UNCHANGED vars
  <2>1. /\ UNCHANGED poolVars
        /\ UNCHANGED <<name_db, init_rcvd, now, task, cursor, listed, ask, reply, payload, older, stale>>
    BY <1>4 DEF vars, dirVars, taskVars, clientVars
  <2>2. PoolInv' /\ Unserved' = Unserved /\ UNCHANGED <<wpc, client>>
    BY <2>1, PoolStays
  <2>3. NamesTyped' /\ Tasks' /\ Fresh'
    BY <2>1, <2>2 DEF NamesInv, NamesTyped, Tasks, Fresh, Registered
  <2>4. Lasting' /\ Walked' /\ NotGivenAgain' /\ GetallComplete'
    BY <2>1, <2>2 DEF NamesInv, Lasting, Walked, NotGivenAgain, GetallComplete, Registered
  <2> QED BY <2>2, <2>3, <2>4 DEF NamesInv
<1> QED BY <1>1, <1>2, <1>3, <1>4 DEF Next

\* Only an update request changes an entry.
OnlyUpdate ==
    \A n \in Registered : name_db'[n] # name_db[n] =>
        \E w \in Worker : client[w] # None /\ ask[client[w]].method = "update" /\ task'[w] = "done"

LEMMA EntriesStay ==
    ASSUME PoolInv, NamesInv, [Next]_vars
    PROVE  [OnlyUpdate]_vars
<1>1. CASE name_db' = name_db
  BY <1>1 DEF OnlyUpdate
<1>2. ASSUME NEW w \in Worker, NameStep(w), name_db' # name_db  PROVE OnlyUpdate
  <2> DEFINE s == client[w]
  <2>1. /\ s \in Sock /\ ask[s].name \in Name /\ name_db' = Put(ask[s].name, s)
        /\ (ask[s].name \in Registered => ask[s].method = "update" /\ task'[w] = "done")
    BY <1>2, NameStepFacts
  <2>2. \A m \in Registered : m # ask[s].name => name_db'[m] = name_db[m]
    BY <2>1, PutFacts DEF NamesInv
  <2>3. s # None
    BY <2>1, SocketFacts
  <2> QED BY <2>1, <2>2, <2>3 DEF OnlyUpdate
<1>3. name_db' = name_db \/ \E w \in Worker : NameStep(w)
  BY DEF Next, ServeStep, StartRequest, ListNext, EndRequest, ReceiveInit, Tick, dirVars, vars
<1> QED BY <1>1, <1>2, <1>3

\* Connections come out of the ring in order and to one worker each, a name a
\* client was told is its own is not given to a later one, getall misses no entry
\* that was due when it began, and only an update changes an entry: whatever the
\* workers, the ring, the clients and their requests (produce_socket,
\* consume_socket, interface_callback, LookupTable).
THEOREM NamesCorrect == Spec => NamesRight
<1>1. Init => PoolInv /\ NamesInv
  BY InitPool, InitNames
<1>2. PoolInv /\ NamesInv /\ [Next]_vars => PoolInv' /\ NamesInv'
  BY NextKeeps
<1>3. PoolInv /\ NamesInv => RingIsFifo /\ OneOwner /\ NotGivenAgain /\ GetallComplete
  BY PoolInvOwner DEF PoolInv, NamesInv
<1>4. PoolInv /\ NamesInv /\ [Next]_vars
        => [\A n \in Registered : name_db'[n] # name_db[n] =>
               \E w \in Worker : client[w] # None /\ ask[client[w]].method = "update"
                                 /\ task'[w] = "done"]_vars
  BY EntriesStay DEF OnlyUpdate
<1> QED BY <1>1, <1>2, <1>3, <1>4, PTL DEF Spec, NamesRight, OwnerStays

-----------------------------------------------------------------------------
(* The threads of the pool: what nobody sleeps through, and who is counted. *)

\* The variables that the places of the sockets do not depend on.
RestTyped ==
    /\ mutex \in Worker \cup {Master, Nobody}
    /\ sq_empty \subseteq {Master} /\ cond \subseteq {Master}
    /\ spc \in {"start", "spawn", "load", "store", "running", "stopping", "stopped", "failed"}
    /\ mpc \in {"off", "select", "produce", "pwait", "broadcast", "join", "jwait", "end", "done"}
    /\ dropped \subseteq Sock /\ denied \in DeniedSets \cup {{}}
    /\ listening \subseteq Nat /\ leaked \subseteq Nat
    /\ attempt \in 1 .. Len(Attempts) + 1 /\ (spc = "start" => attempt <= Len(Attempts))
    /\ num_threads \in Int /\ loaded \in [Worker \cup {Starter} -> Int]
    /\ oom \in BOOLEAN /\ aborted \in BOOLEAN /\ spurious \in 0 .. MaxSpurious

\* The mutex is held by whoever is between a test and a wait, or between the
\* load and the store of the count.
Mutual ==
    /\ \A w \in Worker : mutex = w <=> wpc[w] \in {"towait", "store"}
    /\ (mutex = Master => sq_empty = {} /\ cond = {} /\ mpc \in {"pwait", "jwait"})

\* The master leaves its loop only when the application has asked it to.
Phase ==
    /\ (stop_flag # 0 => spc \in {"stopping", "stopped"})
    /\ (mpc \in {"broadcast", "join", "jwait", "end", "done"} => stop_flag # 0)

\* Who holds the mutex on the way to sleep has seen a ring that stays as it was.
Drowsy ==
    stop_flag = 0 =>
        /\ \A w \in Worker : wpc[w] = "towait" => Fill = 0
        /\ (mutex = Master /\ mpc = "pwait" => Fill >= QueueSize)

InState(S) == {w \in Worker : wpc[w] \in S}
Gone == {"off", "done"}
Alive == InState(WorkerState \ Gone)
Spawned == InState(WorkerState \ {"off"})

\* A thread that mg_start has created and not counted yet.
Uncounted == IF spc \in {"load", "store"} THEN 1 ELSE 0

\* The count stays in bounds even when updates are lost.
Counts ==
    /\ num_threads + Uncounted <= Cardinality(Spawned) /\ num_threads >= -1
    /\ (~aborted => num_threads >= 0)
    /\ (spc = "store" => loaded[Starter] >= 0 /\ loaded[Starter] < Cardinality(Spawned))
    /\ \A w \in Worker : wpc[w] = "store" => loaded[w] >= 0 /\ loaded[w] <= Cardinality(Spawned)

\* Unless a worker left for want of memory, no update is lost: workers leave only
\* after mg_start has returned, and one at a time.
Exact ==
    ~oom =>
        /\ num_threads + Uncounted = Cardinality(Alive)
        /\ (spc = "store" => loaded[Starter] = num_threads)
        /\ \A w \in Worker : wpc[w] = "store" => loaded[w] = num_threads
        /\ \A w \in Worker : wpc[w] \in {"leave", "store"} => stop_flag # 0
        /\ (mpc \in {"end", "done"} => Alive = {})

ThreadInv == RestTyped /\ Mutual /\ Phase /\ Drowsy /\ NoLostWakeup /\ Counts /\ Exact

Is(x, S) == IF x \in S THEN 1 ELSE 0

\* How one worker's move changes the number of workers in a set of states.
LEMMA MoveCounts ==
    ASSUME NEW S, NEW w \in Worker, NEW x \in WorkerState,
           wpc \in [Worker -> WorkerState], wpc' = [wpc EXCEPT ![w] = x]
    PROVE  /\ Cardinality(InState(S)) \in Nat /\ Cardinality(InState(S)') \in Nat
           /\ Cardinality(InState(S)') + Is(wpc[w], S) = Cardinality(InState(S)) + Is(x, S)
<1>1. IsFiniteSet(InState(S)) /\ IsFiniteSet(InState(S)')
  BY PoolAssumption, FS_Subset DEF InState
<1>2. Cardinality(InState(S)) \in Nat /\ Cardinality(InState(S)') \in Nat
  BY <1>1, FS_CardinalityType
<1>3. wpc'[w] = x /\ \A v \in Worker : v # w => wpc'[v] = wpc[v]
  OBVIOUS
<1>4. CASE x \in S /\ wpc[w] \notin S
  <2>1. InState(S)' = InState(S) \cup {w} /\ w \notin InState(S)
    BY <1>3, <1>4 DEF InState
  <2>2. Cardinality(InState(S)') = Cardinality(InState(S)) + 1
    BY <1>1, <2>1, FS_AddElement
  <2> QED BY <1>2, <1>4, <2>2 DEF Is
<1>5. CASE x \notin S /\ wpc[w] \in S
  <2>1. InState(S)' = InState(S) \ {w} /\ w \in InState(S)
    BY <1>3, <1>5 DEF InState
  <2>2. Cardinality(InState(S)') = Cardinality(InState(S)) - 1
    BY <1>1, <2>1, FS_RemoveElement
  <2> QED BY <1>2, <1>5, <2>2 DEF Is
<1>6. CASE x \in S <=> wpc[w] \in S
  <2>1. InState(S)' = InState(S)
    BY <1>3, <1>6 DEF InState
  <2> QED BY <1>2, <1>6, <2>1 DEF Is
<1> QED BY <1>4, <1>5, <1>6

LEMMA CountTypes ==
    /\ Cardinality(Alive) \in Nat /\ Cardinality(Spawned) \in Nat
    /\ Cardinality(Spawned) <= Cardinality(Worker) /\ Cardinality(Worker) \in Nat
    /\ (Cardinality(Alive) = 0 <=> Alive = {})
<1>1. IsFiniteSet(Alive) /\ IsFiniteSet(Spawned) /\ Cardinality(Spawned) <= Cardinality(Worker)
  BY PoolAssumption, FS_Subset DEF InState, Alive, Spawned
<1> QED BY <1>1, PoolAssumption, FS_CardinalityType, FS_EmptySet

\* Types, the mutex and the phases, action by action.
Plain == RestTyped /\ Mutual /\ Phase

LEMMA StarterPlain ==
    ASSUME PoolInv, Plain, StarterStep \/ mg_stop
    PROVE  Plain'
<1> USE DEF Plain, PoolInv, syncVars, startVars, masterVars, workerVars, sockVars, historyVars
<1>1. CASE mg_start
  <2> DEFINE opt == Attempts[attempt]
             ports == IF opt.gpass THEN set_ports_option(opt.ports) ELSE {}
  <2>1. /\ UNCHANGED <<mutex, sq_empty, cond, dropped, denied, num_threads, loaded, oom, aborted, spurious, stop_flag, wpc>>
        /\ spc = "start" /\ mpc = "off" /\ stop_flag = 0
    BY <1>1 DEF mg_start, Phase, Threads
  <2>2. /\ attempt \in 1 .. Len(Attempts) /\ attempt + 1 \in 1 .. Len(Attempts) + 1
        /\ (attempt # Len(Attempts) => attempt + 1 <= Len(Attempts))
    BY <2>1, PoolAssumption DEF RestTyped
  <2>3. ports \subseteq Nat
    BY <2>2, PoolAssumption DEF set_ports_option
  <2>4. \/ listening' = ports /\ mpc' = "select" /\ spc' = "spawn" /\ UNCHANGED <<attempt, leaked>>
        \/ /\ leaked' = leaked \cup ports /\ attempt' = attempt + 1
           /\ spc' = IF attempt = Len(Attempts) THEN "failed" ELSE "start"
           /\ UNCHANGED <<listening, mpc>>
    BY <1>1 DEF mg_start
  <2> HIDE DEF ports
  <2>5. RestTyped'
    <3>1. /\ listening' \subseteq Nat /\ leaked' \subseteq Nat /\ spc' \in {"spawn", "start", "failed"}
          /\ mpc' \in {"off", "select"}
      BY <2>1, <2>3, <2>4 DEF RestTyped
    <3>2. attempt' \in 1 .. Len(Attempts) + 1 /\ (spc' = "start" => attempt' <= Len(Attempts))
      BY <2>2, <2>4 DEF RestTyped
    <3> QED BY <2>1, <3>1, <3>2 DEF RestTyped
  <2>6. Mutual' /\ Phase'
    BY <2>1, <2>4 DEF Mutual, Phase
  <2> QED BY <2>5, <2>6
<1>2. CASE \E w \in Worker : SpawnWorker(w)
  <2>1. PICK w \in Worker : SpawnWorker(w)
    BY <1>2
  <2>2. /\ UNCHANGED <<mutex, sq_empty, cond, dropped, denied, num_threads, loaded, oom, aborted, spurious, stop_flag, mpc, listening, leaked, attempt>>
        /\ spc = "spawn" /\ wpc[w] = "off" /\ spc' \in {"load", "spawn"}
        /\ \E x \in {"alloc", "done"} : wpc' = [wpc EXCEPT ![w] = x]
    BY <2>1 DEF SpawnWorker
  <2>3. \A v \in Worker : wpc'[v] \in {"towait", "store"} <=> wpc[v] \in {"towait", "store"}
    BY <2>2 DEF PoolTyped
  <2> QED BY <2>2, <2>3 DEF RestTyped, Mutual, Phase
<1>3. CASE CountStep
  <2>1. /\ UNCHANGED <<mutex, sq_empty, cond, dropped, denied, oom, aborted, spurious, stop_flag, mpc, listening, leaked, attempt, wpc>>
        /\ spc \in {"load", "store"} /\ spc' \in {"store", "spawn"}
    BY <1>3 DEF CountStep, CountWorker
  <2>2. num_threads' \in Int /\ loaded' \in [Worker \cup {Starter} -> Int]
    BY <1>3 DEF CountStep, CountWorker, RestTyped
  <2> QED BY <2>1, <2>2 DEF RestTyped, Mutual, Phase
<1>4. CASE StartReturns
  BY <1>4 DEF StartReturns, RestTyped, Mutual, Phase
<1>5. CASE StopReturns
  BY <1>5 DEF StopReturns, RestTyped, Mutual, Phase
<1>6. CASE mg_stop
  BY <1>6 DEF mg_stop, RestTyped, Mutual, Phase
<1> QED BY <1>1, <1>2, <1>3, <1>4, <1>5, <1>6 DEF StarterStep

\* Master and workers have names of their own.
LEMMA Names == Master \notin Worker /\ Nobody \notin Worker /\ Starter \notin Worker /\ Master # Nobody
BY PoolAssumption DEF Master, Nobody, Starter

LEMMA MasterPlain ==
    ASSUME PoolInv, Plain, MasterStep
    PROVE  Plain'
<1> USE Names DEF Plain, PoolInv, syncVars, startVars, masterVars, workerVars, sockVars, historyVars
<1>1. CASE Accept
  BY <1>1 DEF Accept, RestTyped, Mutual, Phase
<1>2. CASE produce_socket
  <2>1. /\ UNCHANGED <<sq_empty, cond, denied, oom, aborted, spurious, stop_flag, listening, leaked, attempt, spc, num_threads, loaded>>
        /\ mutex = Nobody /\ mutex' \in {Master, Nobody} /\ mpc = "produce" /\ mpc' \in {"pwait", "select"}
        /\ (mutex' = Master => mpc' = "pwait")
        /\ dropped' \subseteq dropped \cup {accepted}
        /\ (SignalFull \/ UNCHANGED wpc)
    BY <1>2 DEF produce_socket
  <2>2. \A w \in Worker : wpc'[w] \in {"towait", "store"} <=> wpc[w] \in {"towait", "store"}
    BY <2>1, SignalMoves
  <2>3. accepted \in Sock /\ sq_empty = {} /\ cond = {}
    BY <2>1 DEF Threads, PoolTyped
  <2>4. RestTyped'
    BY <2>1, <2>3 DEF RestTyped
  <2> QED BY <2>1, <2>2, <2>3, <2>4 DEF Mutual, Phase
<1>3. CASE MasterWaits
  BY <1>3 DEF MasterWaits, RestTyped, Mutual, Phase
<1>4. CASE StopAccepting
  BY <1>4 DEF StopAccepting, RestTyped, Mutual, Phase
<1>5. CASE BroadcastFull
  <2>1. /\ UNCHANGED <<mutex, sq_empty, cond, dropped, denied, oom, aborted, spurious, stop_flag, listening, leaked, attempt, spc, num_threads, loaded>>
        /\ mpc = "broadcast" /\ mpc' = "join"
        /\ wpc' = [w \in Worker |-> IF w \in sq_full THEN "lock" ELSE wpc[w]]
    BY <1>5 DEF BroadcastFull
  <2>2. \A w \in Worker : wpc'[w] \in {"towait", "store"} <=> wpc[w] \in {"towait", "store"}
    BY <2>1 DEF Threads
  <2> QED BY <2>1, <2>2 DEF RestTyped, Mutual, Phase
<1>6. CASE JoinWorkers
  BY <1>6 DEF JoinWorkers, RestTyped, Mutual, Phase, Threads
<1>7. CASE MasterEnds
  <2>1. \A i \in sq_tail .. sq_head - 1 : queue[i % QueueSize] \in Sock
    BY QueuedIsRing, SocketFacts DEF PoolTyped
  <2>2. /\ UNCHANGED <<mutex, sq_empty, cond, denied, oom, aborted, spurious, listening, leaked, attempt, spc, num_threads, loaded, wpc>>
        /\ mpc = "end" /\ mpc' = "done" /\ stop_flag' = 2
        /\ dropped' = dropped \cup {queue[i % QueueSize] : i \in sq_tail .. sq_head - 1}
    BY <1>7 DEF MasterEnds
  <2>3. dropped' \subseteq Sock
    BY <2>1, <2>2 DEF RestTyped
  <2> QED BY <2>2, <2>3 DEF RestTyped, Mutual, Phase
<1> QED BY <1>1, <1>2, <1>3, <1>4, <1>5, <1>6, <1>7 DEF MasterStep

LEMMA WorkerPlain ==
    ASSUME PoolInv, Plain, NEW w \in Worker,
           \/ WorkerStep(w) \/ SpuriousWakeup(w) \/ (wpc[w] = "serve" /\ CloseConnection(w))
    PROVE  Plain'
<1> USE Names DEF Plain, PoolInv, syncVars, startVars, masterVars, workerVars, sockVars, historyVars
<1> DEFINE others == <<denied, listening, leaked, attempt, spc, stop_flag>>
<1>0. wpc \in [Worker -> WorkerState]
  BY DEF PoolTyped, WorkerState
<1>1. CASE Allocate(w)
  BY <1>0, <1>1 DEF Allocate, RestTyped, Mutual, Phase
<1>2. CASE consume_socket(w)
  <2>1. /\ UNCHANGED <<others, cond, oom, aborted, spurious, num_threads, loaded, dropped>>
        /\ mutex = Nobody /\ wpc[w] = "lock"
        /\ \/ mutex' = w /\ wpc' = [wpc EXCEPT ![w] = "towait"] /\ UNCHANGED <<sq_empty, mpc>>
           \/ mutex' = Nobody /\ wpc' = [wpc EXCEPT ![w] = "check"] /\ SignalEmpty
    BY <1>2 DEF consume_socket
  <2>2. /\ sq_empty' \subseteq {Master} /\ (mpc' = mpc \/ (mpc = "pwait" /\ mpc' = "produce"))
    BY <2>1 DEF SignalEmpty, Threads, RestTyped
  <2>3. RestTyped'
    BY <2>1, <2>2 DEF RestTyped
  <2>4. Mutual'
    BY <1>0, <2>1 DEF Mutual
  <2>5. Phase'
    BY <2>1, <2>2 DEF Phase
  <2> QED BY <2>3, <2>4, <2>5
<1>3. CASE WorkerWaits(w)
  BY <1>0, <1>3 DEF WorkerWaits, RestTyped, Mutual, Phase
<1>4. CASE CheckStop(w)
  <2>1. /\ UNCHANGED <<others, mutex, sq_empty, cond, mpc, oom, aborted, spurious, num_threads, loaded>>
        /\ wpc[w] = "check" /\ \E x \in {"serve", "leave"} : wpc' = [wpc EXCEPT ![w] = x]
        /\ dropped' \subseteq dropped \cup ({client[w]} \ {None})
    BY <1>4 DEF CheckStop
  <2>2. dropped' \subseteq Sock
    BY <2>1 DEF RestTyped, PoolTyped
  <2> QED BY <1>0, <2>1, <2>2 DEF RestTyped, Mutual, Phase
<1>5. CASE LeaveLoad(w)
  BY <1>0, <1>5 DEF LeaveLoad, RestTyped, Mutual, Phase
<1>6. CASE LeaveStore(w)
  <2>1. /\ UNCHANGED <<others, sq_empty, oom, spurious, dropped>>
        /\ wpc[w] = "store" /\ wpc' = [wpc EXCEPT ![w] = "done"] /\ mutex' = Nobody /\ cond' = {}
        /\ num_threads' = loaded[w] - 1 /\ loaded' = [loaded EXCEPT ![w] = 0]
        /\ mpc' = IF cond = {} THEN mpc ELSE "join"
        /\ aborted' = (num_threads' < 0)
    BY <1>6 DEF LeaveStore
  <2>2. mutex = w
    BY <2>1 DEF Mutual
  <2>3. RestTyped'
    BY <2>1 DEF RestTyped
  <2>4. Mutual'
    BY <1>0, <2>1, <2>2 DEF Mutual
  <2>5. Phase'
    BY <2>1 DEF Phase, Threads
  <2> QED BY <2>3, <2>4, <2>5
<1>7. CASE SpuriousWakeup(w)
  <2>1. /\ UNCHANGED <<others, mutex, sq_empty, cond, mpc, oom, aborted, num_threads, loaded, dropped>>
        /\ wpc[w] = "waiting" /\ wpc' = [wpc EXCEPT ![w] = "lock"]
        /\ spurious < MaxSpurious /\ spurious' = spurious + 1
    BY <1>7 DEF SpuriousWakeup, Threads
  <2>2. spurious' \in 0 .. MaxSpurious
    BY <2>1, PoolAssumption DEF RestTyped
  <2> QED BY <1>0, <2>1, <2>2 DEF RestTyped, Mutual, Phase
<1>8. CASE wpc[w] = "serve" /\ CloseConnection(w)
  BY <1>0, <1>8 DEF CloseConnection, RestTyped, Mutual, Phase
<1> QED BY <1>1, <1>2, <1>3, <1>4, <1>5, <1>6, <1>7, <1>8 DEF WorkerStep

-----------------------------------------------------------------------------
(* Nobody sleeps through work.                                             *)

Awake ==
    stop_flag = 0 =>
        /\ (sq_full # {} => Cardinality(InState({"lock"})) >= Fill)
        /\ (sq_empty # {} => Fill >= QueueSize)

Sleep == Drowsy /\ Awake

LEMMA AwakeIs == Awake <=> NoLostWakeup
<1>1. InState({"lock"}) = {w \in Worker : wpc[w] = "lock"}
  BY DEF InState
<1> QED BY <1>1 DEF Awake, NoLostWakeup

\* A step that leaves the ring and the workers alone.
LEMMA RingAlone ==
    ASSUME Sleep, UNCHANGED <<sq_head, sq_tail, sq_full, sq_empty, wpc>>,
           stop_flag' = 0 => stop_flag = 0,
           mutex' = Master /\ mpc' = "pwait" => mutex = Master /\ mpc = "pwait"
    PROVE  Sleep'
<1>1. Fill' = Fill /\ InState({"lock"})' = InState({"lock"})
  BY DEF Fill, InState
<1> QED BY <1>1 DEF Sleep, Drowsy, Awake

\* A worker that does not come from the ring's mutex moves on.
LEMMA OneMoves ==
    ASSUME PoolInv, Sleep, NEW w \in Worker, NEW x \in WorkerState \ {"towait"},
           wpc[w] # "lock", wpc' = [wpc EXCEPT ![w] = x],
           UNCHANGED <<sq_head, sq_tail, sq_empty>>, sq_full' \subseteq sq_full,
           stop_flag' = stop_flag,
           mutex' = Master /\ mpc' = "pwait" => mutex = Master /\ mpc = "pwait"
    PROVE  Sleep'
<1>0. wpc \in [Worker -> WorkerState]
  BY DEF PoolInv, PoolTyped, WorkerState
<1>1. Fill' = Fill /\ Fill \in Nat
  BY RingLength DEF Fill, PoolInv, PoolTyped
<1>2. /\ Cardinality(InState({"lock"})) \in Nat /\ Cardinality(InState({"lock"})') \in Nat
      /\ Cardinality(InState({"lock"})') + 0 = Cardinality(InState({"lock"})) + Is(x, {"lock"})
  <2>1. Is(wpc[w], {"lock"}) = 0
    BY DEF Is
  <2> QED BY <1>0, <2>1, MoveCounts
<1>3. Is(x, {"lock"}) \in {0, 1}
  BY DEF Is
<1>4. Cardinality(InState({"lock"})') >= Cardinality(InState({"lock"}))
  BY <1>2, <1>3
<1>5. Drowsy'
  BY <1>0, <1>1 DEF Sleep, Drowsy
<1>6. Awake'
  <2>1. Cardinality(InState({"lock"})) >= Fill => Cardinality(InState({"lock"})') >= Fill
    BY <1>1, <1>2, <1>4
  <2> QED BY <1>1, <2>1 DEF Sleep, Awake
<1> QED BY <1>5, <1>6 DEF Sleep

LEMMA StarterSleep ==
    ASSUME PoolInv, Plain, Sleep, StarterStep \/ mg_stop
    PROVE  Sleep'
<1> USE DEF syncVars, startVars, masterVars, workerVars, sockVars, historyVars
<1>1. CASE \E w \in Worker : SpawnWorker(w)
  <2>1. PICK w \in Worker : SpawnWorker(w)
    BY <1>1
  <2>2. CASE wpc' = [wpc EXCEPT ![w] = "alloc"]
    <3>1. "alloc" \in WorkerState \ {"towait"}
      BY DEF WorkerState
    <3> QED BY <2>1, <2>2, <3>1, OneMoves DEF SpawnWorker
  <2>3. CASE wpc' = [wpc EXCEPT ![w] = "done"]
    <3>1. "done" \in WorkerState \ {"towait"}
      BY DEF WorkerState
    <3> QED BY <2>1, <2>3, <3>1, OneMoves DEF SpawnWorker
  <2> QED BY <2>1, <2>2, <2>3 DEF SpawnWorker
<1>2. CASE mg_start
  BY <1>2, RingAlone DEF mg_start
<1>3. CASE CountStep \/ StartReturns \/ StopReturns
  BY <1>3, RingAlone DEF CountStep, CountWorker, StartReturns, StopReturns
<1>4. CASE mg_stop
  BY <1>4, RingAlone DEF mg_stop
<1> QED BY <1>1, <1>2, <1>3, <1>4 DEF StarterStep

\* produce_socket: if a worker waits, one more is on its way.
LEMMA ProduceSleep ==
    ASSUME PoolInv, Plain, Sleep, produce_socket
    PROVE  Sleep'
<1> USE DEF PoolInv, Plain
<1>0. /\ wpc \in [Worker -> WorkerState] /\ Fill \in Nat /\ QueueSize \in Nat
      /\ sq_head \in Nat /\ sq_tail \in Nat
  BY RingLength, PoolAssumption DEF PoolTyped, WorkerState, RingTyped
<1>1. /\ UNCHANGED <<sq_tail, stop_flag, sq_empty>> /\ mpc = "produce" /\ mutex = Nobody
      /\ \A w \in Worker : wpc[w] # "towait"
  BY Names DEF produce_socket, Mutual
<1>2. sq_empty = {}
  BY <1>1 DEF Threads
<1>3. CASE stop_flag = 0 /\ Fill >= QueueSize /\ UNCHANGED <<sq_head, sq_full, wpc>>
  <2>1. Fill' = Fill /\ InState({"lock"})' = InState({"lock"})
    BY <1>1, <1>3 DEF Fill, InState
  <2> QED BY <1>1, <1>2, <1>3, <2>1 DEF Sleep, Drowsy, Awake
<1>4. CASE Fill < QueueSize /\ InsertSocket /\ SignalFull /\ mpc' = "select" /\ mutex' = mutex
  <2>1. Fill' = Fill + 1
    BY <1>0, <1>1, <1>4 DEF InsertSocket, Fill
  <2>2. \A w \in Worker : wpc'[w] # "towait"
    BY <1>1, <1>4, SignalMoves
  <2>3. sq_full' # {} => Cardinality(InState({"lock"})') >= Fill' \/ stop_flag # 0
    <3>1. CASE sq_full = {} /\ UNCHANGED sq_full
      BY <3>1
    <3>2. ASSUME NEW v \in sq_full, wpc' = [wpc EXCEPT ![v] = "lock"], stop_flag = 0
          PROVE  Cardinality(InState({"lock"})') >= Fill'
      <4>1. v \in Worker /\ wpc[v] = "waiting" /\ "lock" \in WorkerState
        BY DEF PoolTyped, Threads, WorkerState
      <4>2. /\ Cardinality(InState({"lock"})) \in Nat /\ Cardinality(InState({"lock"})') \in Nat
            /\ Cardinality(InState({"lock"})') + 0 = Cardinality(InState({"lock"})) + 1
        <5>1. Is("waiting", {"lock"}) = 0 /\ Is("lock", {"lock"}) = 1
          BY DEF Is
        <5> QED BY <1>0, <3>2, <4>1, <5>1, MoveCounts
      <4>3. Cardinality(InState({"lock"})) >= Fill
        BY <3>2 DEF Sleep, Awake
      <4> QED BY <1>0, <2>1, <4>2, <4>3
    <3> QED BY <1>4, <3>1, <3>2 DEF SignalFull
  <2>4. Drowsy'
    BY <1>1, <1>4, <2>2, Names DEF Drowsy
  <2>5. Awake'
    BY <1>1, <1>2, <2>3 DEF Awake
  <2> QED BY <2>4, <2>5 DEF Sleep
<1>5. CASE stop_flag # 0
  BY <1>1, <1>5 DEF Sleep, Drowsy, Awake
<1> QED BY <1>3, <1>4, <1>5 DEF produce_socket

LEMMA MasterSleep ==
    ASSUME PoolInv, Plain, Sleep, MasterStep
    PROVE  Sleep'
<1> USE Names DEF PoolInv, Plain, syncVars, startVars, masterVars, workerVars, sockVars, historyVars
<1>1. CASE Accept
  BY <1>1, RingAlone DEF Accept
<1>2. CASE produce_socket
  BY <1>2, ProduceSleep
<1>3. CASE MasterWaits
  <2>1. /\ UNCHANGED <<sq_head, sq_tail, sq_full, wpc, stop_flag>> /\ mutex = Master /\ mutex' = Nobody
        /\ sq_empty = {} /\ (sq_empty' # {} => mpc = "pwait")
    BY <1>3 DEF MasterWaits, Mutual
  <2>2. Fill' = Fill /\ InState({"lock"})' = InState({"lock"})
    BY <2>1 DEF Fill, InState
  <2> QED BY <2>1, <2>2 DEF Sleep, Drowsy, Awake
<1>4. CASE StopAccepting
  BY <1>4, RingAlone DEF StopAccepting
<1>5. CASE BroadcastFull
  BY <1>5 DEF BroadcastFull, Phase, Sleep, Drowsy, Awake
<1>6. CASE JoinWorkers
  BY <1>6, RingAlone DEF JoinWorkers
<1>7. CASE MasterEnds
  BY <1>7, RingAlone DEF MasterEnds
<1> QED BY <1>1, <1>2, <1>3, <1>4, <1>5, <1>6, <1>7 DEF MasterStep

\* consume_socket: whoever takes a socket leaves one socket less to be taken.
LEMMA ConsumeSleep ==
    ASSUME PoolInv, Plain, Sleep, NEW w \in Worker, consume_socket(w)
    PROVE  Sleep'
<1> USE Names DEF PoolInv, Plain
<1>0. /\ wpc \in [Worker -> WorkerState] /\ Fill \in Nat /\ QueueSize \in Nat
      /\ sq_head \in Nat /\ sq_tail \in Nat
  BY RingLength, PoolAssumption DEF PoolTyped, WorkerState, RingTyped
<1>1. /\ UNCHANGED <<stop_flag, sq_full>> /\ wpc[w] = "lock" /\ mutex = Nobody
      /\ \A v \in Worker : wpc[v] # "towait"
  BY DEF consume_socket, Mutual
<1>2. CASE /\ sq_head = sq_tail /\ mutex' = w /\ wpc' = [wpc EXCEPT ![w] = "towait"]
           /\ UNCHANGED <<sq_tail, sq_head, sq_empty>>
  <2>1. Fill = 0 /\ Fill' = 0
    BY <1>0, <1>2 DEF Fill
  <2>2. Cardinality(InState({"lock"})') \in Nat
    <3>1. "towait" \in WorkerState
      BY DEF WorkerState
    <3> QED BY <1>0, <1>2, <3>1, MoveCounts
  <2>3. Cardinality(InState({"lock"})') >= Fill'
    BY <2>1, <2>2
  <2>4. Drowsy'
    BY <1>1, <1>2, <2>1 DEF Drowsy
  <2>5. Awake'
    BY <1>1, <1>2, <2>1, <2>3 DEF Sleep, Awake
  <2> QED BY <2>4, <2>5 DEF Sleep
<1>3. CASE /\ sq_head > sq_tail /\ TakeSocket(w) /\ SignalEmpty /\ mutex' = mutex
           /\ wpc' = [wpc EXCEPT ![w] = "check"]
  <2>1. Fill' = Fill - 1
    BY <1>0, <1>3 DEF TakeSocket, Fill
  <2>2. /\ Cardinality(InState({"lock"})) \in Nat /\ Cardinality(InState({"lock"})') \in Nat
        /\ Cardinality(InState({"lock"})') + 1 = Cardinality(InState({"lock"})) + 0
    <3>1. "check" \in WorkerState /\ Is("lock", {"lock"}) = 1 /\ Is("check", {"lock"}) = 0
      BY DEF WorkerState, Is
    <3> QED BY <1>0, <1>1, <1>3, <3>1, MoveCounts
  <2>3. Cardinality(InState({"lock"})) >= Fill => Cardinality(InState({"lock"})') >= Fill'
    BY <1>0, <2>1, <2>2
  <2>4. Drowsy'
    BY <1>0, <1>1, <1>3 DEF Drowsy
  <2>5. Awake'
    BY <1>1, <1>3, <2>3 DEF Sleep, Awake, SignalEmpty
  <2> QED BY <2>4, <2>5 DEF Sleep
<1>4. CASE stop_flag # 0
  BY <1>1, <1>4 DEF Sleep, Drowsy, Awake
<1> QED BY <1>2, <1>3, <1>4 DEF consume_socket

LEMMA WorkerSleep ==
    ASSUME PoolInv, Plain, Sleep, NEW w \in Worker,
           \/ WorkerStep(w) \/ SpuriousWakeup(w) \/ (wpc[w] = "serve" /\ CloseConnection(w))
    PROVE  Sleep'
<1> USE Names DEF PoolInv, Plain, syncVars, startVars, masterVars, workerVars, sockVars, historyVars
<1>0. {"lock", "serve", "leave", "store", "done"} \subseteq WorkerState \ {"towait"}
  BY DEF WorkerState
<1>1. CASE Allocate(w)
  BY <1>0, <1>1, OneMoves DEF Allocate
<1>2. CASE consume_socket(w)
  BY <1>2, ConsumeSleep
<1>3. CASE WorkerWaits(w)
  <2>0. wpc \in [Worker -> WorkerState] /\ "waiting" \in WorkerState
    BY DEF PoolTyped, WorkerState
  <2>1. /\ UNCHANGED <<sq_head, sq_tail, sq_empty, stop_flag, mpc>> /\ mutex' = Nobody
        /\ wpc[w] = "towait" /\ wpc' = [wpc EXCEPT ![w] = "waiting"]
    BY <1>3 DEF WorkerWaits
  <2>2. Fill' = Fill /\ (stop_flag = 0 => Fill = 0)
    BY <2>1 DEF Fill, Sleep, Drowsy
  <2>3. Cardinality(InState({"lock"})') \in Nat
    BY <2>0, <2>1, MoveCounts
  <2>4. stop_flag = 0 => Cardinality(InState({"lock"})') >= Fill'
    BY <2>2, <2>3
  <2>5. Drowsy'
    BY <2>0, <2>1, <2>2 DEF Drowsy
  <2>6. Awake'
    BY <2>1, <2>2, <2>4 DEF Sleep, Awake
  <2> QED BY <2>5, <2>6 DEF Sleep
<1>4. CASE CheckStop(w)
  BY <1>0, <1>4, OneMoves DEF CheckStop
<1>5. CASE LeaveLoad(w)
  BY <1>0, <1>5, OneMoves DEF LeaveLoad
<1>6. CASE LeaveStore(w)
  BY <1>0, <1>6, OneMoves DEF LeaveStore
<1>7. CASE SpuriousWakeup(w)
  BY <1>0, <1>7, OneMoves DEF SpuriousWakeup, Threads
<1>8. CASE wpc[w] = "serve" /\ CloseConnection(w)
  BY <1>0, <1>8, OneMoves DEF CloseConnection
<1> QED BY <1>1, <1>2, <1>3, <1>4, <1>5, <1>6, <1>7, <1>8 DEF WorkerStep

-----------------------------------------------------------------------------
(* Nobody is missing from the count.                                       *)

Counted == Counts /\ Exact

\* A step that creates, counts and ends no thread.
LEMMA CountAlone ==
    ASSUME Counted, UNCHANGED <<num_threads, loaded, aborted, oom, Uncounted>>,
           Alive' = Alive, Spawned' = Spawned, spc' = "store" => spc = "store",
           \A w \in Worker : wpc'[w] = "store" => wpc[w] = "store",
           \A w \in Worker : wpc'[w] = "leave" => wpc[w] = "leave" \/ stop_flag # 0,
           stop_flag # 0 => stop_flag' # 0,
           mpc' \in {"end", "done"} => mpc \in {"end", "done"}
    PROVE  Counted'
<1>1. Counts'
  BY DEF Counted, Counts
<1>2. Exact'
  BY DEF Counted, Exact
<1> QED BY <1>1, <1>2 DEF Counted

\* The workers stay as they are.
LEMMA WorkersAlone ==
    ASSUME UNCHANGED wpc
    PROVE  Alive' = Alive /\ Spawned' = Spawned
BY DEF Alive, Spawned, InState

\* A worker that lives goes on living.
LEMMA LivesOn ==
    ASSUME wpc \in [Worker -> WorkerState], wpc' \in [Worker -> WorkerState],
           \A w \in Worker : wpc'[w] = wpc[w] \/ (wpc'[w] \notin Gone /\ wpc[w] \notin Gone)
    PROVE  Alive' = Alive /\ Spawned' = Spawned
<1>1. \A w \in Worker : /\ wpc'[w] \in WorkerState \ Gone <=> wpc[w] \in WorkerState \ Gone
                        /\ wpc'[w] \in WorkerState \ {"off"} <=> wpc[w] \in WorkerState \ {"off"}
  BY DEF Gone
<1> QED BY <1>1 DEF Alive, Spawned, InState

\* One thread's move, counted.
LEMMA OneCounts ==
    ASSUME PoolInv, NEW w \in Worker, NEW x \in WorkerState, wpc' = [wpc EXCEPT ![w] = x]
    PROVE  /\ Cardinality(Alive) \in Nat /\ Cardinality(Alive') \in Nat
           /\ Cardinality(Spawned) \in Nat /\ Cardinality(Spawned') \in Nat
           /\ Cardinality(Alive') + Is(wpc[w], WorkerState \ Gone) = Cardinality(Alive) + Is(x, WorkerState \ Gone)
           /\ Cardinality(Spawned') + Is(wpc[w], WorkerState \ {"off"}) = Cardinality(Spawned) + Is(x, WorkerState \ {"off"})
<1>1. wpc \in [Worker -> WorkerState]
  BY DEF PoolInv, PoolTyped, WorkerState
<1> QED BY <1>1, MoveCounts DEF Alive, Spawned

LEMMA StarterCounted ==
    ASSUME PoolInv, Plain, Counted, ~aborted, StarterStep \/ mg_stop
    PROVE  Counted'
<1> USE Names DEF PoolInv, Plain, syncVars, startVars, masterVars, workerVars, sockVars, historyVars
<1>0. wpc \in [Worker -> WorkerState]
  BY DEF PoolTyped, WorkerState
<1>1. CASE \E w \in Worker : SpawnWorker(w)
  <2>1. PICK w \in Worker : SpawnWorker(w)
    BY <1>1
  <2>2. /\ UNCHANGED <<num_threads, loaded, aborted, oom, stop_flag, mpc>>
        /\ spc = "spawn" /\ wpc[w] = "off" /\ stop_flag = 0 /\ mpc \notin {"end", "done"}
    BY <2>1 DEF SpawnWorker, Phase
  <2>3. {"alloc", "done"} \subseteq WorkerState /\ Is("off", WorkerState \ Gone) = 0 /\ Is("off", WorkerState \ {"off"}) = 0
        /\ Is("alloc", WorkerState \ Gone) = 1 /\ Is("alloc", WorkerState \ {"off"}) = 1
        /\ Is("done", WorkerState \ Gone) = 0 /\ Is("done", WorkerState \ {"off"}) = 1
    BY DEF Is, WorkerState, Gone
  <2>4. Uncounted = 0
    BY <2>2 DEF Uncounted
  <2>5. num_threads \in Int
    BY DEF RestTyped
  <2>6. CASE wpc' = [wpc EXCEPT ![w] = "alloc"] /\ spc' = "load"
    <3>1. /\ Cardinality(Alive) \in Nat /\ Cardinality(Alive') = Cardinality(Alive) + 1
          /\ Cardinality(Spawned) \in Nat /\ Cardinality(Spawned') = Cardinality(Spawned) + 1
      <4>1. /\ Cardinality(Alive) \in Nat /\ Cardinality(Alive') \in Nat
            /\ Cardinality(Spawned) \in Nat /\ Cardinality(Spawned') \in Nat
            /\ Cardinality(Alive') + Is("off", WorkerState \ Gone) = Cardinality(Alive) + Is("alloc", WorkerState \ Gone)
            /\ Cardinality(Spawned') + Is("off", WorkerState \ {"off"}) = Cardinality(Spawned) + Is("alloc", WorkerState \ {"off"})
        BY <2>2, <2>3, <2>6, OneCounts
      <4> QED BY <2>3, <4>1
    <3>2. Uncounted' = 1
      BY <2>6 DEF Uncounted
    <3>3. \A v \in Worker : wpc'[v] \in {"leave", "store"} => wpc[v] = wpc'[v]
      BY <1>0, <2>6
    <3>4. Counts'
      <4>1. num_threads' + Uncounted' <= Cardinality(Spawned') /\ num_threads' >= -1 /\ num_threads' >= 0
        BY <2>2, <2>4, <2>5, <3>1, <3>2 DEF Counted, Counts
      <4>2. \A v \in Worker : wpc'[v] = "store" => loaded'[v] >= 0 /\ loaded'[v] <= Cardinality(Spawned')
        <5>1. \A v \in Worker : loaded[v] \in Int
          BY DEF RestTyped
        <5> QED BY <2>2, <3>1, <3>3, <5>1 DEF Counted, Counts
      <4> QED BY <2>6, <4>1, <4>2 DEF Counts
    <3>5. Exact'
      <4>1. ~oom => num_threads' + Uncounted' = Cardinality(Alive')
        BY <2>2, <2>4, <2>5, <3>1, <3>2 DEF Counted, Exact
      <4> QED BY <2>2, <2>6, <3>3, <4>1 DEF Counted, Exact
    <3> QED BY <3>4, <3>5 DEF Counted
  <2>7. CASE wpc' = [wpc EXCEPT ![w] = "done"] /\ spc' = "spawn"
    <3>1. /\ Cardinality(Alive) \in Nat /\ Cardinality(Alive') = Cardinality(Alive)
          /\ Cardinality(Spawned) \in Nat /\ Cardinality(Spawned') = Cardinality(Spawned) + 1
      <4>1. /\ Cardinality(Alive) \in Nat /\ Cardinality(Alive') \in Nat
            /\ Cardinality(Spawned) \in Nat /\ Cardinality(Spawned') \in Nat
            /\ Cardinality(Alive') + Is("off", WorkerState \ Gone) = Cardinality(Alive) + Is("done", WorkerState \ Gone)
            /\ Cardinality(Spawned') + Is("off", WorkerState \ {"off"}) = Cardinality(Spawned) + Is("done", WorkerState \ {"off"})
        BY <2>2, <2>3, <2>7, OneCounts
      <4> QED BY <2>3, <4>1
    <3>2. Uncounted' = 0
      BY <2>7 DEF Uncounted
    <3>3. \A v \in Worker : wpc'[v] \in {"leave", "store"} => wpc[v] = wpc'[v]
      BY <1>0, <2>7
    <3>4. Counts'
      <4>1. num_threads' + Uncounted' <= Cardinality(Spawned') /\ num_threads' >= -1 /\ num_threads' >= 0
        BY <2>2, <2>4, <2>5, <3>1, <3>2 DEF Counted, Counts
      <4>2. \A v \in Worker : wpc'[v] = "store" => loaded'[v] >= 0 /\ loaded'[v] <= Cardinality(Spawned')
        <5>1. \A v \in Worker : loaded[v] \in Int
          BY DEF RestTyped
        <5> QED BY <2>2, <3>1, <3>3, <5>1 DEF Counted, Counts
      <4> QED BY <2>7, <4>1, <4>2 DEF Counts
    <3>5. Exact'
      <4>1. ~oom => num_threads' + Uncounted' = Cardinality(Alive')
        BY <2>2, <2>4, <2>5, <3>1, <3>2 DEF Counted, Exact
      <4> QED BY <2>2, <2>7, <3>3, <4>1 DEF Counted, Exact
    <3> QED BY <3>4, <3>5 DEF Counted
  <2> QED BY <2>1, <2>6, <2>7 DEF SpawnWorker
<1>2. CASE CountStep
  <2>1. /\ UNCHANGED <<wpc, aborted, oom, stop_flag, mpc>> /\ stop_flag = 0 /\ mpc \notin {"end", "done"}
        /\ num_threads \in Int /\ loaded \in [Worker \cup {Starter} -> Int]
        /\ spc \in {"load", "store"} /\ Uncounted = 1
    BY <1>2 DEF CountStep, CountWorker, Phase, RestTyped, Uncounted
  <2>2. Alive' = Alive /\ Spawned' = Spawned /\ Cardinality(Alive) \in Nat /\ Cardinality(Spawned) \in Nat
    BY <2>1, WorkersAlone, CountTypes
  <2>3. \A v \in Worker : loaded'[v] = loaded[v]
    BY <1>2, <2>1 DEF CountStep, CountWorker
  <2>4. CASE /\ spc = "load" /\ spc' = "store" /\ UNCHANGED num_threads
             /\ loaded' = [loaded EXCEPT ![Starter] = num_threads]
    <3>1. Uncounted' = 1 /\ loaded'[Starter] = num_threads
      BY <2>1, <2>4 DEF Uncounted
    <3>2. Counts'
      BY <2>1, <2>2, <2>3, <2>4, <3>1 DEF Counted, Counts
    <3>3. Exact'
      BY <2>1, <2>2, <2>3, <2>4, <3>1 DEF Counted, Exact
    <3> QED BY <3>2, <3>3 DEF Counted
  <2>5. CASE /\ spc = "store" /\ spc' = "spawn" /\ num_threads' = loaded[Starter] + 1
    <3>1. Uncounted' = 0
      BY <2>5 DEF Uncounted
    <3>2. Counts'
      <4>1. loaded[Starter] \in Int
        BY <2>1
      <4> QED BY <2>1, <2>2, <2>3, <2>5, <3>1, <4>1 DEF Counted, Counts
    <3>3. Exact'
      BY <2>1, <2>2, <2>3, <2>5, <3>1 DEF Counted, Exact
    <3> QED BY <3>2, <3>3 DEF Counted
  <2> QED BY <1>2, <2>4, <2>5 DEF CountStep, CountWorker
<1>3. CASE mg_start \/ StartReturns \/ StopReturns \/ mg_stop
  <2>1. /\ UNCHANGED <<wpc, num_threads, loaded, aborted, oom>> /\ spc \notin {"load", "store"}
        /\ spc' \notin {"load", "store"} /\ (stop_flag # 0 => stop_flag' # 0)
        /\ (mpc' \in {"end", "done"} => mpc \in {"end", "done"})
    BY <1>3 DEF mg_start, StartReturns, StopReturns, mg_stop
  <2>2. Uncounted' = Uncounted
    BY <2>1 DEF Uncounted
  <2> QED BY <2>1, <2>2, WorkersAlone, CountAlone
<1> QED BY <1>1, <1>2, <1>3 DEF StarterStep

\* The master ends when the count is 0, which is when nobody is left.
LEMMA MasterCounted ==
    ASSUME PoolInv, Plain, Counted, MasterStep
    PROVE  Counted'
<1> USE Names DEF PoolInv, Plain, syncVars, startVars, masterVars, workerVars, sockVars, historyVars
<1>0. wpc \in [Worker -> WorkerState]
  BY DEF PoolTyped, WorkerState
<1>1. CASE Accept \/ MasterWaits \/ StopAccepting \/ MasterEnds
  <2>1. /\ UNCHANGED <<wpc, num_threads, loaded, aborted, oom, spc>>
        /\ (stop_flag # 0 => stop_flag' # 0)
        /\ (mpc' \in {"end", "done"} => mpc \in {"end", "done"})
    BY <1>1 DEF Accept, MasterWaits, StopAccepting, MasterEnds
  <2>2. Uncounted' = Uncounted
    BY <2>1 DEF Uncounted
  <2> QED BY <2>1, <2>2, WorkersAlone, CountAlone
<1>2. CASE produce_socket \/ BroadcastFull
  <2>1. /\ UNCHANGED <<num_threads, loaded, aborted, oom, spc, stop_flag>>
        /\ mpc' \notin {"end", "done"}
    BY <1>2 DEF produce_socket, BroadcastFull
  <2>2. /\ wpc' \in [Worker -> WorkerState]
        /\ \A w \in Worker : wpc'[w] = wpc[w] \/ (wpc'[w] = "lock" /\ wpc[w] = "waiting")
    <3>1. CASE produce_socket
      BY <1>0, <3>1, SignalMoves DEF produce_socket
    <3>2. CASE BroadcastFull
      <4>1. wpc' = [w \in Worker |-> IF w \in sq_full THEN "lock" ELSE wpc[w]] /\ "lock" \in WorkerState
        BY <3>2 DEF BroadcastFull, WorkerState
      <4> QED BY <1>0, <4>1 DEF Threads
    <3> QED BY <1>2, <3>1, <3>2
  <2>3. Alive' = Alive /\ Spawned' = Spawned
    BY <1>0, <2>2, LivesOn DEF Gone
  <2>4. Uncounted' = Uncounted
    BY <2>1 DEF Uncounted
  <2> QED BY <2>1, <2>2, <2>3, <2>4, CountAlone
<1>3. CASE JoinWorkers
  <2>1. /\ UNCHANGED <<wpc, num_threads, loaded, aborted, oom, spc, stop_flag>>
        /\ mpc = "join" /\ mpc' \in {"jwait", "end"} /\ (mpc' = "end" => num_threads <= 0)
    BY <1>3 DEF JoinWorkers
  <2>2. Uncounted = 0 /\ Uncounted' = 0 /\ num_threads \in Int
    BY <2>1 DEF Uncounted, Phase, RestTyped
  <2>3. Alive' = Alive /\ Spawned' = Spawned /\ Cardinality(Alive) \in Nat
    BY <2>1, WorkersAlone, CountTypes
  <2>4. mpc' = "end" /\ ~oom => Alive = {}
    <3>1. mpc' = "end" /\ ~oom => Cardinality(Alive) = 0
      BY <2>1, <2>2, <2>3 DEF Counted, Exact
    <3> QED BY <3>1, CountTypes
  <2>5. Counts'
    BY <2>1, <2>2, <2>3 DEF Counted, Counts
  <2>6. Exact'
    BY <2>1, <2>2, <2>3, <2>4 DEF Counted, Exact
  <2> QED BY <2>5, <2>6 DEF Counted
<1> QED BY <1>1, <1>2, <1>3 DEF MasterStep

LEMMA WorkerCounted ==
    ASSUME PoolInv, Plain, Counted, ~aborted, NEW w \in Worker,
           \/ WorkerStep(w) \/ SpuriousWakeup(w) \/ (wpc[w] = "serve" /\ CloseConnection(w))
    PROVE  Counted'
<1> USE Names DEF PoolInv, Plain, syncVars, startVars, masterVars, workerVars, sockVars, historyVars
<1>0. wpc \in [Worker -> WorkerState] /\ {"lock", "leave", "store", "done", "towait", "check", "waiting", "serve"} \subseteq WorkerState
  BY DEF PoolTyped, WorkerState
<1>1. CASE consume_socket(w) \/ WorkerWaits(w) \/ CheckStop(w) \/ SpuriousWakeup(w)
           \/ (wpc[w] = "serve" /\ CloseConnection(w))
  <2>1. /\ UNCHANGED <<num_threads, loaded, aborted, oom, spc, stop_flag>>
        /\ wpc[w] \in {"lock", "towait", "check", "waiting", "serve"}
        /\ \E x \in {"towait", "check", "waiting", "serve", "lock", "leave"} :
              wpc' = [wpc EXCEPT ![w] = x] /\ (x = "leave" => stop_flag # 0)
    BY <1>1 DEF consume_socket, WorkerWaits, CheckStop, SpuriousWakeup, CloseConnection, Threads
  <2>2. mpc' \in {"end", "done"} => mpc \in {"end", "done"}
    BY <1>1 DEF consume_socket, WorkerWaits, CheckStop, SpuriousWakeup, CloseConnection, SignalEmpty
  <2>3. /\ wpc' \in [Worker -> WorkerState]
        /\ \A v \in Worker : wpc'[v] = wpc[v] \/ (wpc'[v] \notin Gone /\ wpc[v] \notin Gone)
        /\ \A v \in Worker : wpc'[v] = "store" => wpc[v] = "store"
        /\ \A v \in Worker : wpc'[v] = "leave" => wpc[v] = "leave" \/ stop_flag # 0
    BY <1>0, <2>1 DEF Gone
  <2>4. Alive' = Alive /\ Spawned' = Spawned
    BY <1>0, <2>3, LivesOn
  <2>5. Uncounted' = Uncounted
    BY <2>1 DEF Uncounted
  <2> QED BY <2>1, <2>2, <2>3, <2>4, <2>5, CountAlone
<1>2. CASE Allocate(w)
  <2>1. /\ UNCHANGED <<num_threads, loaded, aborted, spc, stop_flag, mpc>> /\ wpc[w] = "alloc"
        /\ \E x \in {"lock", "leave"} : wpc' = [wpc EXCEPT ![w] = x] /\ (x = "leave" => oom') /\ (~oom' => ~oom)
    BY <1>2 DEF Allocate
  <2>2. /\ wpc' \in [Worker -> WorkerState]
        /\ \A v \in Worker : wpc'[v] = wpc[v] \/ (wpc'[v] \notin Gone /\ wpc[v] \notin Gone)
        /\ \A v \in Worker : wpc'[v] = "store" => wpc[v] = "store"
        /\ \A v \in Worker : wpc'[v] = "leave" => wpc[v] = "leave" \/ oom'
    BY <1>0, <2>1 DEF Gone
  <2>3. Alive' = Alive /\ Spawned' = Spawned
    BY <1>0, <2>2, LivesOn
  <2>4. Uncounted' = Uncounted
    BY <2>1 DEF Uncounted
  <2>5. Counts'
    BY <2>1, <2>2, <2>3, <2>4 DEF Counted, Counts
  <2>6. Exact'
    BY <2>1, <2>2, <2>3, <2>4 DEF Counted, Exact
  <2> QED BY <2>5, <2>6 DEF Counted
<1>3. CASE LeaveLoad(w)
  <2>1. /\ UNCHANGED <<num_threads, aborted, spc, stop_flag, mpc, oom>> /\ wpc[w] = "leave" /\ mutex = Nobody
        /\ wpc' = [wpc EXCEPT ![w] = "store"] /\ loaded' = [loaded EXCEPT ![w] = num_threads]
        /\ loaded \in [Worker \cup {Starter} -> Int] /\ num_threads \in Int
    BY <1>3 DEF LeaveLoad, RestTyped
  <2>2. /\ wpc' \in [Worker -> WorkerState]
        /\ \A v \in Worker : wpc'[v] = wpc[v] \/ (wpc'[v] \notin Gone /\ wpc[v] \notin Gone)
        /\ \A v \in Worker : wpc'[v] = "store" => v = w
        /\ \A v \in Worker : wpc'[v] \in {"leave", "store"} => wpc[v] \in {"leave", "store"}
    BY <1>0, <2>1 DEF Gone, Mutual
  <2>3. Alive' = Alive /\ Spawned' = Spawned
    BY <1>0, <2>2, LivesOn
  <2>4. /\ Uncounted' = Uncounted /\ Uncounted \in {0, 1}
        /\ loaded'[w] = num_threads /\ loaded'[Starter] = loaded[Starter]
    BY <2>1 DEF Uncounted
  <2>5. num_threads >= 0 /\ num_threads <= Cardinality(Spawned)
    BY <2>1, <2>4, CountTypes DEF Counted, Counts
  <2>6. Counts'
    BY <2>1, <2>2, <2>3, <2>4, <2>5 DEF Counted, Counts
  <2>7. Exact'
    BY <2>1, <2>2, <2>3, <2>4 DEF Counted, Exact
  <2> QED BY <2>6, <2>7 DEF Counted
<1>4. CASE LeaveStore(w)
  <2>1. /\ UNCHANGED <<spc, stop_flag, oom>> /\ wpc[w] = "store"
        /\ wpc' = [wpc EXCEPT ![w] = "done"] /\ loaded' = [loaded EXCEPT ![w] = 0]
        /\ num_threads' = loaded[w] - 1 /\ aborted' = (num_threads' < 0)
        /\ loaded \in [Worker \cup {Starter} -> Int] /\ num_threads \in Int
        /\ loaded[w] \in Int
    BY <1>4 DEF LeaveStore, RestTyped
  <2>2. mpc' \in {"end", "done"} => mpc \in {"end", "done"}
    BY <1>4 DEF LeaveStore
  <2>3. /\ Is("store", WorkerState \ Gone) = 1 /\ Is("done", WorkerState \ Gone) = 0
        /\ Is("store", WorkerState \ {"off"}) = 1 /\ Is("done", WorkerState \ {"off"}) = 1
    BY DEF Is, WorkerState, Gone
  <2>4. /\ Cardinality(Alive) \in Nat /\ Cardinality(Alive') = Cardinality(Alive) - 1
        /\ Cardinality(Spawned) \in Nat /\ Cardinality(Spawned') = Cardinality(Spawned)
    <3>1. /\ Cardinality(Alive) \in Nat /\ Cardinality(Alive') \in Nat
          /\ Cardinality(Spawned) \in Nat /\ Cardinality(Spawned') \in Nat
          /\ Cardinality(Alive') + Is("store", WorkerState \ Gone) = Cardinality(Alive) + Is("done", WorkerState \ Gone)
          /\ Cardinality(Spawned') + Is("store", WorkerState \ {"off"}) = Cardinality(Spawned) + Is("done", WorkerState \ {"off"})
      BY <1>0, <2>1, OneCounts
    <3> QED BY <2>3, <3>1
  <2>5. \A v \in Worker : wpc'[v] # "store" /\ (wpc'[v] = "leave" => wpc[v] = "leave")
    BY <1>0, <2>1 DEF Mutual
  <2>6. Uncounted' = Uncounted /\ Uncounted \in {0, 1} /\ loaded'[Starter] = loaded[Starter]
    BY <2>1 DEF Uncounted
  <2>7. loaded[w] >= 0 /\ loaded[w] <= Cardinality(Spawned)
    BY <2>1 DEF Counted, Counts
  <2>8. Counts'
    <3>1. num_threads' + Uncounted' <= Cardinality(Spawned') /\ num_threads' >= -1
      BY <2>1, <2>4, <2>6, <2>7
    <3>2. ~aborted' => num_threads' >= 0
      <4>1. ~aborted' => ~(num_threads' < 0)
        BY <2>1, Zenon
      <4>2. num_threads' \in Int
        BY <2>1
      <4> QED BY <4>1, <4>2
    <3> QED BY <2>1, <2>4, <2>5, <2>6, <3>1, <3>2 DEF Counted, Counts
  <2>9. Exact'
    <3>1. SUFFICES ASSUME ~oom PROVE Exact'
      BY <2>1 DEF Exact
    <3>2. stop_flag # 0 /\ loaded[w] = num_threads /\ mpc \notin {"end", "done"}
      <4>1. w \in Alive
        BY <2>1 DEF Alive, InState, WorkerState, Gone
      <4> QED BY <2>1, <3>1, <4>1 DEF Counted, Exact
    <3>3. spc \notin {"load", "store"}
      BY <3>2 DEF Phase
    <3>4. num_threads' + Uncounted' = Cardinality(Alive')
      BY <2>1, <2>4, <2>6, <3>1, <3>2 DEF Counted, Exact
    <3> QED BY <2>1, <2>2, <2>5, <3>2, <3>3, <3>4 DEF Counted, Exact
  <2> QED BY <2>8, <2>9 DEF Counted
<1> QED BY <1>1, <1>2, <1>3, <1>4 DEF WorkerStep

-----------------------------------------------------------------------------
(* The threads of the pool, put together.                                  *)

LEMMA ThreadParts == ThreadInv <=> Plain /\ Sleep /\ Counted
BY AwakeIs DEF ThreadInv, Plain, Sleep, Counted

\* The threads do not see what leaves the pool's variables alone.
LEMMA ThreadsAlone ==
    ASSUME ThreadInv, UNCHANGED <<stop_flag, sq_head, sq_tail, num_threads, mutex, sq_full, sq_empty, cond,
                                  spurious, aborted, startVars, mpc, wpc, oom, loaded, dropped>>
    PROVE  ThreadInv'
<1>1. Plain /\ Sleep /\ Counted
  BY ThreadParts
<1>2. UNCHANGED <<spc, attempt, listening, leaked, denied>>
  BY DEF startVars
<1>3. Plain'
  BY <1>1, <1>2 DEF Plain, RestTyped, Mutual, Phase
<1>4. Sleep'
  BY <1>1, RingAlone
<1>5. Counted'
  <2>1. Uncounted' = Uncounted
    BY <1>2 DEF Uncounted
  <2> QED BY <1>1, <1>2, <2>1, WorkersAlone, CountAlone
<1>6. (ThreadInv <=> Plain /\ Sleep /\ Counted)'
  BY AwakeIs, PTL DEF ThreadInv, Plain, Sleep, Counted
<1> QED BY <1>3, <1>4, <1>5, <1>6

\* Every step keeps the invariant of the threads.
LEMMA NextThreads ==
    ASSUME PoolInv, ThreadInv, [Next]_vars
    PROVE  ThreadInv'
<1>0. Plain /\ Sleep /\ Counted
  BY ThreadParts
<1>1. ASSUME Plain', Sleep', Counted'  PROVE ThreadInv'
  <2>1. (ThreadInv <=> Plain /\ Sleep /\ Counted)'
    BY ThreadParts, PTL
  <2> QED BY <1>1, <2>1
<1>2. CASE PoolStep
  <2>1. ~aborted
    BY <1>2 DEF PoolStep
  <2>2. CASE MasterStep
    BY <1>0, <1>1, <2>2, MasterPlain, MasterSleep, MasterCounted
  <2>3. CASE StarterStep \/ mg_stop
    BY <1>0, <1>1, <2>1, <2>3, StarterPlain, StarterSleep, StarterCounted
  <2>4. ASSUME NEW w \in Worker, WorkerStep(w) \/ SpuriousWakeup(w)  PROVE ThreadInv'
    BY <1>0, <1>1, <2>1, <2>4, WorkerPlain, WorkerSleep, WorkerCounted
  <2>5. ASSUME NEW s \in Sock, Connect(s)  PROVE ThreadInv'
    BY <2>5, ThreadsAlone DEF Connect, syncVars, masterVars, workerVars
  <2> QED BY <1>2, <2>2, <2>3, <2>4, <2>5 DEF PoolStep
<1>3. ASSUME NEW w \in Worker, ~aborted, EndRequest(w)  PROVE ThreadInv'
  <2>1. wpc[w] = "serve" /\ CloseConnection(w)
    BY <1>3 DEF EndRequest
  <2> QED BY <1>0, <1>1, <1>3, <2>1, WorkerPlain, WorkerSleep, WorkerCounted
<1>4. CASE UNCHANGED poolVars
  BY <1>4, ThreadsAlone DEF poolVars, syncVars, masterVars, workerVars, sockVars
<1>5. ASSUME NEW w \in Worker, StartRequest(w) \/ NameStep(w) \/ ListNext(w)  PROVE UNCHANGED poolVars
  BY <1>5 DEF StartRequest, NameStep, ListNext
<1>6. ReceiveInit \/ Tick \/ UNCHANGED vars => UNCHANGED poolVars
  BY DEF ReceiveInit, Tick, vars
<1> QED BY <1>2, <1>3, <1>4, <1>5, <1>6 DEF Next, ServeStep

LEMMA InitThreads == Init => ThreadInv
<1> SUFFICES ASSUME Init PROVE ThreadInv
  OBVIOUS
<1> USE Names
<1>0. /\ QueueSize \in Nat \ {0} /\ Connections \in Nat /\ MaxSpurious \in Nat
      /\ Len(Attempts) \in Nat \ {0} /\ IsFiniteSet(Worker) /\ Cardinality(Worker) \in Nat
  BY PoolAssumption, FS_CardinalityType
<1>1. ASSUME NEW taken, NEW made, PoolQuiet(taken, made), mpc \in {"off", "select"},
             spc \in {"start", "running"}, wpc \in [Worker -> {"off", "serve"}]
      PROVE  /\ Mutual /\ Phase /\ Sleep
             /\ loaded \in [Worker \cup {Starter} -> Int] /\ mutex \in Worker \cup {Master, Nobody}
             /\ sq_empty \subseteq {Master} /\ cond \subseteq {Master} /\ dropped \subseteq Sock
             /\ leaked \subseteq Nat /\ oom \in BOOLEAN /\ aborted \in BOOLEAN
             /\ oom = FALSE /\ aborted = FALSE
  <2>1. /\ stop_flag = 0 /\ mutex = Nobody /\ sq_full = {} /\ sq_empty = {} /\ cond = {} /\ leaked = {}
        /\ dropped = {} /\ oom = FALSE /\ aborted = FALSE /\ loaded = [t \in Worker \cup {Starter} |-> 0]
    BY <1>1 DEF PoolQuiet
  <2>2. \A w \in Worker : wpc[w] \in {"off", "serve"}
    BY <1>1
  <2>3. Mutual
    BY <1>1, <2>1, <2>2 DEF Mutual
  <2>4. Phase
    BY <1>1, <2>1 DEF Phase
  <2>5. Sleep
    BY <1>1, <2>1, <2>2 DEF Sleep, Drowsy, Awake
  <2>6. loaded \in [Worker \cup {Starter} -> Int]
    BY <2>1
  <2>7. oom \in BOOLEAN /\ aborted \in BOOLEAN
    BY <2>1, Zenon
  <2> QED BY <2>1, <2>3, <2>4, <2>5, <2>6, <2>7
<1>2. CASE PoolInit
  <2>1. /\ PoolQuiet(0, 0) /\ mpc = "off" /\ spc = "start" /\ wpc = [w \in Worker |-> "off"]
        /\ attempt = 1 /\ listening = {} /\ denied \in DeniedSets /\ spurious = 0 /\ num_threads = 0
    BY <1>2 DEF PoolInit
  <2>2. Alive = {} /\ Spawned = {} /\ Uncounted = 0
    BY <2>1 DEF Alive, Spawned, InState, Gone, Uncounted
  <2>3. Cardinality({}) = 0
    BY FS_EmptySet
  <2>q. /\ Mutual /\ Phase /\ Sleep
        /\ loaded \in [Worker \cup {Starter} -> Int] /\ mutex \in Worker \cup {Master, Nobody}
        /\ sq_empty \subseteq {Master} /\ cond \subseteq {Master} /\ dropped \subseteq Sock
        /\ leaked \subseteq Nat /\ oom \in BOOLEAN /\ aborted \in BOOLEAN
        /\ oom = FALSE /\ aborted = FALSE
    <3>1. /\ mpc \in {"off", "select"} /\ spc \in {"start", "running"}
          /\ wpc \in [Worker -> {"off", "serve"}]
      BY <2>1
    <3> QED BY <1>1, <2>1, <3>1
  <2>4. RestTyped
    <3>1. 1 \in 1 .. Len(Attempts) + 1 /\ 1 <= Len(Attempts) /\ 0 \in 0 .. MaxSpurious
      BY <1>0
    <3> QED BY <2>1, <2>q, <3>1 DEF RestTyped
  <2>5. Counts
    BY <2>1, <2>2, <2>3 DEF Counts
  <2>6. Exact
    BY <2>1, <2>2, <2>3 DEF Exact
  <2> QED BY <2>q, <2>4, <2>5, <2>6, ThreadParts DEF Plain, Counted
<1>3. ASSUME NEW f, PoolBusy(f)  PROVE ThreadInv
  <2>1. /\ \E t, m : PoolQuiet(t, m)
        /\ mpc = "select" /\ spc = "running" /\ wpc = [w \in Worker |-> "serve"]
        /\ attempt = Len(Attempts) /\ denied = {} /\ spurious = MaxSpurious
        /\ listening = {Attempts[attempt].ports[i].port : i \in 1 .. Len(Attempts[attempt].ports)}
        /\ num_threads = Cardinality(Worker)
    BY <1>3 DEF PoolBusy
  <2>2. Alive = Worker /\ Spawned = Worker /\ Uncounted = 0
    BY <2>1 DEF Alive, Spawned, InState, Gone, Uncounted, WorkerState
  <2>3. listening \subseteq Nat
    <3>1. attempt \in 1 .. Len(Attempts)
      BY <1>0, <2>1
    <3> QED BY <2>1, <3>1, PoolAssumption
  <2>q. /\ Mutual /\ Phase /\ Sleep
        /\ loaded \in [Worker \cup {Starter} -> Int] /\ mutex \in Worker \cup {Master, Nobody}
        /\ sq_empty \subseteq {Master} /\ cond \subseteq {Master} /\ dropped \subseteq Sock
        /\ leaked \subseteq Nat /\ oom \in BOOLEAN /\ aborted \in BOOLEAN
        /\ oom = FALSE /\ aborted = FALSE
    <3>1. PICK t, m : PoolQuiet(t, m)
      BY <2>1
    <3>2. /\ mpc \in {"off", "select"} /\ spc \in {"start", "running"}
          /\ wpc \in [Worker -> {"off", "serve"}]
      BY <2>1
    <3> QED BY <1>1, <3>1, <3>2
  <2>4. RestTyped
    <3>1. attempt \in 1 .. Len(Attempts) + 1 /\ MaxSpurious \in 0 .. MaxSpurious
      BY <1>0, <2>1
    <3> QED BY <1>0, <2>1, <2>q, <2>3, <3>1 DEF RestTyped
  <2>5. Counts
    BY <1>0, <2>1, <2>2 DEF Counts
  <2>6. Exact
    BY <1>0, <2>1, <2>2 DEF Exact
  <2> QED BY <2>q, <2>4, <2>5, <2>6, ThreadParts DEF Plain, Counted
<1> QED BY <1>2, <1>3 DEF Init

\* What is checked follows.
LEMMA ThreadsRight == PoolInv /\ NamesInv /\ ThreadInv => WorkersRight
<1> SUFFICES ASSUME PoolInv, NamesInv, ThreadInv PROVE WorkersRight
  OBVIOUS
<1>1. PoolTypeOK
  <2>1. num_threads \in -1 .. Cardinality(Worker)
    <3>1. num_threads \in Int /\ Uncounted \in {0, 1}
      BY DEF ThreadInv, RestTyped, Uncounted
    <3>2. num_threads + Uncounted <= Cardinality(Spawned) /\ num_threads >= -1
      BY DEF ThreadInv, Counts
    <3> QED BY <3>1, <3>2, CountTypes
  <2>2. sq_head \in 0 .. 2 * QueueSize
    BY PoolAssumption DEF PoolInv, PoolTyped, RingTyped
  <2> QED BY <2>1, <2>2 DEF PoolTypeOK, PoolInv, PoolTyped, RingTyped, ThreadInv, RestTyped
<1>2. TypeOK
  BY <1>1 DEF TypeOK, NamesInv, NamesTyped, Codes, Entry
<1>3. JoinSafe
  <2> SUFFICES ASSUME mpc \in {"end", "done"}, ~oom, NEW w \in Worker  PROVE wpc[w] \in {"off", "done"}
    BY DEF JoinSafe
  <2>1. w \notin Alive
    BY DEF ThreadInv, Exact
  <2> QED BY <2>1 DEF Alive, InState, Gone, WorkerState, PoolInv, PoolTyped
<1> QED BY <1>2, <1>3 DEF WorkersRight, ThreadInv

\* Whatever the number of workers and the size of the ring: while the server runs
\* nobody sleeps through work, although stop_flag and the broadcast do without the
\* mutex, and the master destroys mutex and context only when no worker uses them
\* (produce_socket, consume_socket, worker_thread, master_thread, mg_stop).
THEOREM WorkersCorrect == Spec => []WorkersRight
<1>1. Init => PoolInv /\ NamesInv /\ ThreadInv
  BY InitPool, InitNames, InitThreads
<1>2. PoolInv /\ NamesInv /\ ThreadInv /\ [Next]_vars => PoolInv' /\ NamesInv' /\ ThreadInv'
  BY NextKeeps, NextThreads
<1> QED BY <1>1, <1>2, ThreadsRight, PTL DEF Spec

=============================================================================
