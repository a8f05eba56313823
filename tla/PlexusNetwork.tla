--------------------------- MODULE PlexusNetwork ---------------------------
(***************************************************************************)
(* The Plexus overlay of klink: peers that exchange PUT, GET, their        *)
(* replies and CACHE_ME over TCP, and the driver that sends INIT, then the *)
(* commands of its user.  Each peer runs a listener, one processing        *)
(* thread, forwarding threads, a controlling thread that publishes and     *)
(* looks up its share of the names, and a thread that hands on what        *)
(* arrived before INIT.  The two queues are locked; the queue of messages  *)
(* received before INIT and the flag init_rcvd are not.                    *)
(*                                                                         *)
(* Peers are the indices of BuildTree; a host address and an overlay id    *)
(* stand for the peer they belong to.  A default constructed OverlayID is  *)
(* uninitialised: matching it gives any length.                            *)
(***************************************************************************)
EXTENDS Integers, PlexusTree, LruList, Bags

CONSTANTS Names,       \* 0..Len-1, the lines of the input file (name_count)
          Target,      \* the overlay id a name decodes to
          Scenarios,   \* the situations considered, see ScenarioType
          NRetry       \* tries of a forwarding thread (retry)

\* A situation: the size of the overlay, the settings cache_storage and
\* cache_type, how many of the last peers INIT has not reached at the start,
\* what the uninitialised flags start_gen_name_rcvd and start_lookup_name_rcvd
\* hold, and bounds on the commands the user gives and on the messages that
\* all NRetry tries fail to send.
ScenarioType ==
    [n : Sizes, storage : {"path", "end_point"}, type : {"reactive", "proactive"},
     late : Nat, gen : BOOLEAN, lkp : BOOLEAN, commands : Nat, failures : Nat]

ASSUME NetworkAssumption ==
    /\ IsFiniteSet(Names) /\ Names = 0..(Cardinality(Names) - 1)
    /\ Target \in [Names -> Oids]
    /\ NRetry \in Nat \ {0}
    /\ Scenarios \subseteq ScenarioType
    /\ \A c \in Scenarios : c.late <= c.n

VARIABLES config,    \* the scenario: what the peers and the driver were started with
          peer,      \* the state of each peer
          net,       \* bag of messages written to a connection and not yet read
          driver,    \* [next: peer INIT goes to next, left: commands left]
          failures,  \* messages dropped so far
          issued, dropped  \* requests made; requests that lost a message

netVars == <<config, peer, net, driver, failures, issued, dropped>>

Peers == 0..(config.n - 1)
Id(p) == idArray[config.n][p]
Match(p, q) == GetMatchedPrefixLength(Id(p), Id(q))
MatchTarget(t, q) == GetMatchedPrefixLength(t, Id(q))

DefaultTtl == 10         \* ABSMessage::calculateOverlayTTL
CacheMeTtl == 2
Client == -1             \* the host of the driver
Garbage == -2            \* OverlayID()
None == -3
NoReq == [origin |-> None, seq |-> 0]
Counted == {"GET", "PUT"}

\* Dec is decrementOverlayTtl on an unsigned char.
Dec(t) == (t + 255) % 256

\* send_init_message: the names a peer publishes and looks up.
FirstName(p) == (Cardinality(Names) \div config.n) * p
LastName(p) == IF p < config.n - 1 THEN FirstName(p + 1) - 1 ELSE Cardinality(Names) - 1

\* Peer::INIT.  start_gen_name_rcvd and start_lookup_name_rcvd are not
\* initialised: they hold anything (the same on every peer: one build).
NewPeer(gen, lkp) ==
    [init |-> FALSE, rt |-> {}, index |-> <<>>, pc |-> {}, cache |-> <<>>,
     unresolved |-> {}, incoming |-> <<>>, outgoing |-> <<>>,
     received_before_init |-> <<>>, listener |-> <<>>, pending |-> "wait",
     gen |-> gen, lkp |-> lkp, published |-> 0, looked_up |-> 0, seq |-> 0,
     count |-> [op \in Counted |->
        [generated |-> 0, received |-> 0, processed |-> 0, forwarded |-> 0, dropped |-> 0]],
     initiated |-> [op \in Counted |-> 0],
     log |-> <<>>]

Bump(s, op, field) == IF op \in Counted THEN [s EXCEPT !.count[op][field] = @ + 1] ELSE s

addToIncomingQueue(s, m) == [s EXCEPT !.incoming = Append(@, m)]
addToOutgoingQueue(s, m) == [s EXCEPT !.outgoing = Append(@, m)]
\* Of the two that take a message out: what is left; the caller takes the head.
getIncomingQueueFront(s) == [s EXCEPT !.incoming = Tail(@)]
getOutgoingQueueFront(s) == [s EXCEPT !.outgoing = Tail(@)]
addToLogQueue(s, e) == [s EXCEPT !.log = Append(@, e)]

Message(type, src, dest, dst, ttl, target, name, req, ok) ==
    [type |-> type, src |-> src, dest |-> dest, dst |-> dst, ttl |-> ttl,
     target |-> target, name |-> name, req |-> req, ok |-> ok]

Control(type, dest, name) == Message(type, Client, dest, dest, DefaultTtl, 0, name, NoReq, TRUE)

-----------------------------------------------------------------------------
(* Routing: PlexusProtocol::setNextHop. *)

Routed == {"GET", "PUT", "GET_REPLY", "PUT_REPLY"}
Reply(m) == m.type \in {"GET_REPLY", "PUT_REPLY"}

LongestMatch(S, t) == Max({0} \cup {MatchTarget(t, q) : q \in S})
Best(S, t) == {q \in S : MatchTarget(t, q) = LongestMatch(S, t)}
FirstById(S) == CHOOSE q \in S : \A r \in S : Id(q) <= Id(r)

\* The tables are searched in the order routing table, proactive cache (both by
\* overlay id), LRU cache (as listed); a later entry wins only with a longer
\* match.  An entry of the LRU cache that wins for the moment is looked up, and
\* so moved to the front.
BestHop(s, t) ==
    LET M == LongestMatch(s.rt \cup s.pc \cup Cached(s.cache), t)
    IN  IF LongestMatch(s.rt, t) = M THEN FirstById(Best(s.rt, t))
        ELSE IF LongestMatch(s.pc, t) = M THEN FirstById(Best(s.pc, t))
        ELSE s.cache[Min({i \in 1..Len(s.cache) : MatchTarget(t, s.cache[i]) = M})]

Hits(s, t) == {i \in 1..Len(s.cache) :
    MatchTarget(t, s.cache[i]) >
        LongestMatch(s.rt \cup s.pc \cup {s.cache[j] : j \in 1..(i - 1)}, t)}

AfterHits(s, t) ==
    LET f[i \in 0..Len(s.cache)] ==
          IF i = 0 THEN s.cache
          ELSE IF i \in Hits(s, t) THEN Touch(f[i - 1], s.cache[i]) ELSE f[i - 1]
    IN  [s EXCEPT !.cache = f[Len(s.cache)]]

Searches(s, m) ==
    /\ m.type \in Routed
    /\ ~(config.storage = "end_point" /\ Reply(m))
    /\ m.ttl # 0
    /\ ~(m.type = "GET" /\ m.name \in DOMAIN s.index)

\* The length the peer itself matches; g stands for an uninitialised id.
OwnMatch(p, m, g) == IF m.dst = Garbage THEN g ELSE Match(p, m.dst)

Forwards(s, p, m, g) ==
    LET max == LongestMatch(s.rt \cup s.pc \cup Cached(s.cache), m.target)
    IN  Searches(s, m) /\ max # 0 /\ max >= OwnMatch(p, m, g)

\* setNextHop, in three parts: whether the message is forwarded, the message,
\* and the peer's state (a search that forwards nothing counts its hits too).
Routing(s, m) == IF Searches(s, m) THEN AfterHits(s, m.target) ELSE s
setNextHop(s, p, m, g) ==
    IF Forwards(s, p, m, g)
    THEN [m EXCEPT !.dest = BestHop(s, m.target), !.dst = BestHop(s, m.target)] ELSE m

-----------------------------------------------------------------------------
(* PlexusMessageProcessor::processMessage, one operator per message. *)

Declined(s, p, q) == q = p \/ q \in s.pc \/ q \in s.rt
CacheSource(s, p, m) == [s EXCEPT !.cache = CacheAdd(@, m.src, Declined(s, p, m.src))]

\* A reply to m's source; its destination id is not set.  In "path" mode it is
\* routed like a request towards the id of the source.
SendReply(s, p, m, type, ok, route, g) ==
    LET reply == Message(type, p, m.src, Garbage, DefaultTtl, Id(m.src), m.name, m.req, ok)
    IN  IF route /\ config.storage = "path"
        THEN addToOutgoingQueue(Routing(s, reply), setNextHop(s, p, reply, g))
        ELSE addToOutgoingQueue(s, reply)

OnPut(s, p, m, g) ==
    LET t == [Bump(s, "PUT", "processed") EXCEPT
                !.index = IF m.name \in DOMAIN @ THEN @
                          ELSE [x \in DOMAIN @ \cup {m.name} |->
                                 IF x = m.name THEN m.req ELSE @[x]]]
    IN  SendReply(t, p, m, "PUT_REPLY", TRUE, TRUE, g)

\* Variant: a name that is not found is not answered.
OnGetSilent(s, p, m, g) ==
    IF m.name \in DOMAIN s.index
    THEN SendReply(Bump(s, "GET", "processed"), p, m, "GET_REPLY", TRUE, TRUE, g)
    ELSE Bump(s, "GET", "processed")

OnGet(s, p, m, g) ==
    LET ok == m.name \in DOMAIN s.index
    IN  SendReply(Bump(s, "GET", "processed"), p, m, "GET_REPLY", ok, ok, g)

OnGetReply(s, p, m) ==
    addToLogQueue(CacheSource(s, p, m), [type |-> "GET", req |-> m.req, ok |-> m.ok])

OnPutReply(s, p, m) == addToLogQueue(s, [type |-> "PUT", req |-> m.req, ok |-> m.ok])

\* MSG_PEER_INIT: the tables are new, then init_rcvd is set, then a proactive
\* peer announces itself to its neighbours.
Announce(s, src, ttl) ==
    LET nbr == [i \in 1..Cardinality(s.rt) |->
                  CHOOSE q \in s.rt : Cardinality({r \in s.rt : Id(r) < Id(q)}) = i - 1]
    IN  [s EXCEPT !.outgoing = @ \o [i \in DOMAIN nbr |->
            Message("CACHE_ME", src, nbr[i], nbr[i], ttl, 0, None, NoReq, TRUE)]]

OnInit(s, p) ==
    LET t == [s EXCEPT !.rt = rtArray[config.n][p], !.index = <<>>, !.cache = <<>>,
                       !.init = TRUE]
    IN  IF config.type = "proactive" THEN Announce(t, p, CacheMeTtl) ELSE t

OnCacheMe(s, p, m) ==
    IF config.type # "proactive" THEN s
    ELSE LET t == [s EXCEPT !.pc = @ \cup ({m.src} \ ({p} \cup s.rt))]
         IN  IF m.ttl > 0 THEN Announce(t, m.src, m.ttl) ELSE t

\* The end of processMessage for the messages that a client's get and put turn
\* into; what they start in turn is below.
Handle(s, p, m, g) ==
    CASE m.type = "PUT" -> OnPut(s, p, m, g)
      [] m.type = "GET" -> OnGet(s, p, m, g)
      [] m.type = "GET_REPLY" -> OnGetReply(s, p, m)
      [] m.type = "PUT_REPLY" -> OnPutReply(s, p, m)
      [] m.type = "CACHE_ME" -> OnCacheMe(s, p, m)
      [] m.type = "INIT" -> OnInit(s, p)
      [] m.type = "START_GENERATE_NAME" -> [s EXCEPT !.gen = TRUE]
      [] m.type = "START_LOOKUP_NAME" -> [s EXCEPT !.lkp = TRUE]
      [] m.type = "FORCE_LOG" -> addToLogQueue(s, [type |-> "ALL_LOGS", req |-> NoReq, ok |-> TRUE])
      [] OTHER -> s

\* Variant: a message that is passed on is handled as well.
PassOnAndHandle(s, p, msg, g) ==
    LET m == [msg EXCEPT !.ttl = Dec(@)]
        t == Routing(s, m)
    IN  Handle(IF Forwards(s, p, m, g) THEN addToOutgoingQueue(t, setNextHop(s, p, m, g)) ELSE t, p, m, g)

\* processMessage, and the processing thread's addToOutgoingQueue of what is to
\* be forwarded.  A "path" peer caches the sources of the replies it passes on.
processMessage(s, p, msg, g) ==
    LET m == [msg EXCEPT !.ttl = Dec(@)]
        t == Routing(s, m)
    IN  IF Forwards(s, p, m, g)
        THEN addToOutgoingQueue(
               IF config.storage = "path" /\ Reply(m) THEN CacheSource(t, p, m) ELSE t,
               setNextHop(s, p, m, g))
        ELSE Handle(t, p, m, g)

\* PlexusProtocol::put and get, from the controlling thread and for a client.
NextReq(s, p) == [origin |-> p, seq |-> s.seq]

Start(s, p, type, name, g) ==
    LET m == Message(type, p, None, Garbage, DefaultTtl, Target[name], name, NextReq(s, p), TRUE)
        t == [s EXCEPT !.seq = @ + 1]
    IN  Bump(processMessage(t, p, m, g), type, "generated")

\* get_for_client remembers the client; nothing removes the entry again.
get_for_client(s, p, name, g) ==
    Start([s EXCEPT !.unresolved = @ \cup {NextReq(s, p)}, !.initiated["GET"] = @ + 1],
          p, "GET", name, g)

-----------------------------------------------------------------------------
(* The threads of a peer. *)

\* system_init and main; the first peers have already handled their INIT.
Init ==
    /\ config \in Scenarios
    /\ peer = [p \in Peers |-> LET s == NewPeer(config.gen, config.lkp)
                               IN  IF p < config.n - config.late THEN OnInit(s, p) ELSE s]
    /\ net = EmptyBag
    /\ driver = [next |-> config.n - config.late, left |-> config.commands]
    /\ failures = 0 /\ issued = {} /\ dropped = {}

Arrived(s, m) ==
    CASE m.type \in {"GET", "INITIATE_GET"} -> Bump(s, "GET", "received")
      [] m.type \in {"PUT", "INITIATE_PUT"} -> Bump(s, "PUT", "received")
      [] OTHER -> s

\* listener_thread: one message is received, and init_rcvd is read.
Listen(p, m) ==
    LET s == Arrived(peer[p], m) IN
    /\ BagIn(m, net) /\ m.dest = p /\ peer[p].listener = <<>>
    /\ net' = net (-) SetToBag({m})
    /\ peer' = [peer EXCEPT ![p] =
         IF s.init \/ m.type = "INIT" THEN addToIncomingQueue(s, m)
         ELSE [s EXCEPT !.listener = <<m>>]]
    /\ UNCHANGED <<config, driver, failures, issued, dropped>>

\* listener_thread: received_before_init_queue.push, init_rcvd having been false.
KeepBack(p) ==
    /\ peer[p].listener # <<>>
    /\ peer' = [peer EXCEPT ![p].received_before_init = @ \o peer[p].listener,
                            ![p].listener = <<>>]
    /\ UNCHANGED <<config, net, driver, failures, issued, dropped>>

\* Variant: the thread waits for more than one message.
PendingStartMissesOne(p) ==
    /\ peer[p].pending = "wait" /\ peer[p].init /\ Len(peer[p].received_before_init) > 1
    /\ peer' = [peer EXCEPT ![p].pending = "drain"]
    /\ UNCHANGED <<config, net, driver, failures, issued, dropped>>

\* Variant: the thread does not wait for INIT to be complete.
PendingStartAtOnce(p) ==
    /\ peer[p].pending = "wait"
    /\ peer' = [peer EXCEPT ![p].pending = "drain"]
    /\ UNCHANGED <<config, net, driver, failures, issued, dropped>>

\* pending_message_process_thread waits until INIT has come and something is
\* kept back, then hands on what it finds, and ends.
PendingStart(p) ==
    /\ peer[p].pending = "wait" /\ peer[p].init /\ peer[p].received_before_init # <<>>
    /\ peer' = [peer EXCEPT ![p].pending = "drain"]
    /\ UNCHANGED <<config, net, driver, failures, issued, dropped>>

PendingStep(p) ==
    LET s == peer[p] IN
    /\ s.pending = "drain"
    /\ peer' = [peer EXCEPT ![p] =
         IF s.received_before_init = <<>> THEN [s EXCEPT !.pending = "done"]
         ELSE [addToIncomingQueue(s, Head(s.received_before_init))
                 EXCEPT !.received_before_init = Tail(s.received_before_init)]]
    /\ UNCHANGED <<config, net, driver, failures, issued, dropped>>

\* processing_thread.
Process(p) ==
    LET s == getIncomingQueueFront(peer[p])
        m == Head(peer[p].incoming)
    IN
    /\ peer[p].incoming # <<>>
    /\ \E g \in 0..(K - 1) :
         peer' = [peer EXCEPT ![p] =
           CASE m.type = "INITIATE_GET" -> get_for_client(s, p, m.name, g)
             [] m.type = "INITIATE_PUT" ->
                  Start([s EXCEPT !.initiated["PUT"] = @ + 1], p, "PUT", m.name, g)
             [] OTHER -> processMessage(s, p, m, g)]
    /\ issued' = IF m.type \in {"INITIATE_GET", "INITIATE_PUT"}
                 THEN issued \cup {NextReq(s, p)} ELSE issued
    /\ UNCHANGED <<config, net, driver, failures, dropped>>

\* forwarding_thread: the message reaches the kernel of the destination in one
\* of the tries, or none of them succeeds and it is deleted.
Forward(p, sent) ==
    LET m == Head(peer[p].outgoing) IN
    /\ peer[p].outgoing # <<>>
    /\ sent \/ failures < config.failures
    /\ peer' = [peer EXCEPT ![p] =
         Bump(getOutgoingQueueFront(@), m.type, IF sent THEN "forwarded" ELSE "dropped")]
    /\ IF sent THEN net' = net (+) SetToBag({m}) /\ UNCHANGED <<failures, dropped>>
       ELSE /\ failures' = failures + 1
            /\ dropped' = dropped \cup ({m.req} \ {NoReq})
            /\ UNCHANGED net
    /\ UNCHANGED <<config, driver, issued>>

\* controlling_thread: publishes its range when told to, then looks it up.
Publish(p) ==
    LET s == peer[p] IN
    /\ s.init /\ s.gen /\ FirstName(p) + s.published <= LastName(p)
    /\ \E g \in 0..(K - 1) :
         peer' = [peer EXCEPT ![p] =
           [Start(s, p, "PUT", FirstName(p) + s.published, g) EXCEPT !.published = @ + 1]]
    /\ issued' = issued \cup {NextReq(s, p)}
    /\ UNCHANGED <<config, net, driver, failures, dropped>>

Lookup(p) ==
    LET s == peer[p] IN
    /\ s.init /\ s.lkp /\ FirstName(p) + s.looked_up <= LastName(p)
    /\ s.published = 0 \/ FirstName(p) + s.published > LastName(p)
    /\ \E g \in 0..(K - 1) :
         peer' = [peer EXCEPT ![p] =
           [Start(s, p, "GET", FirstName(p) + s.looked_up, g) EXCEPT !.looked_up = @ + 1]]
    /\ issued' = issued \cup {NextReq(s, p)}
    /\ UNCHANGED <<config, net, driver, failures, dropped>>

-----------------------------------------------------------------------------
(* The driver: client_system_test.cc. *)

\* send_init_message: a peer the driver cannot connect to is passed over.
SendInit(reached) ==
    /\ driver.next < config.n
    /\ reached \/ failures < config.failures
    /\ failures' = IF reached THEN failures ELSE failures + 1
    /\ net' = IF reached THEN net (+) SetToBag({Control("INIT", driver.next, None)}) ELSE net
    /\ driver' = [driver EXCEPT !.next = @ + 1]
    /\ UNCHANGED <<config, peer, issued, dropped>>

\* "put" and "get" go to a random peer, "publish", "lookup" and "flush" to all.
ToOne(type, p, name) == SetToBag({Control(type, p, name)})
ToAll(type) == SetToBag({Control(type, p, None) : p \in Peers})

Command ==
    /\ driver.next = config.n /\ driver.left > 0
    /\ driver' = [driver EXCEPT !.left = @ - 1]
    /\ \/ \E p \in Peers, name \in Names, type \in {"INITIATE_PUT", "INITIATE_GET"} :
            net' = net (+) ToOne(type, p, name)
       \/ \E type \in {"START_GENERATE_NAME", "START_LOOKUP_NAME", "FORCE_LOG"} :
            net' = net (+) ToAll(type)
    /\ UNCHANGED <<config, peer, failures, issued, dropped>>

PeerNext(p) ==
    \/ \E m \in BagToSet(net) : Listen(p, m)
    \/ KeepBack(p) \/ PendingStart(p) \/ PendingStep(p)
    \/ Process(p)
    \/ \E sent \in BOOLEAN : Forward(p, sent)
    \/ Publish(p) \/ Lookup(p)

Next ==
    \/ \E p \in Peers : PeerNext(p)
    \/ \E reached \in BOOLEAN : SendInit(reached)
    \/ Command

\* The threads of the peers and the driver's start-up do not stop for ever
\* while one of them can take a step; the user's commands are optional.
Work == (\E p \in Peers : PeerNext(p)) \/ (\E reached \in BOOLEAN : SendInit(reached))
Fairness == WF_netVars(Work)

Spec == Init /\ [][Next]_netVars /\ Fairness

-----------------------------------------------------------------------------
(* Properties. *)

SeqMembers(s) == {s[i] : i \in 1..Len(s)}
CountIn(s, P(_)) == Cardinality({i \in 1..Len(s) : P(s[i])})

KeptBack(p) == peer[p].received_before_init \o peer[p].listener

Held(p) == KeptBack(p) \o peer[p].incoming \o peer[p].outgoing

\* Nothing is under way: only messages no thread will look at are left.
Quiet ==
    /\ net = EmptyBag
    /\ \A p \in Peers :
         /\ peer[p].incoming = <<>> /\ peer[p].outgoing = <<>> /\ peer[p].listener = <<>>
         /\ peer[p].received_before_init # <<>> => peer[p].pending = "done" \/ ~peer[p].init

TypeOK ==
    /\ config \in ScenarioType
    /\ DOMAIN peer = Peers
    /\ \A p \in Peers :
         /\ peer[p].rt \subseteq Peers /\ peer[p].pc \subseteq Peers \ {p}
         /\ Len(peer[p].cache) <= Capacity /\ Cached(peer[p].cache) \subseteq Peers \ {p}
         /\ DOMAIN peer[p].index \subseteq Names
         /\ peer[p].pending \in {"wait", "drain", "done"}
         /\ \A i \in 1..Len(Held(p)) : Held(p)[i].ttl \in 0..DefaultTtl

\* Whatever the interleaving of listener, processing and pending thread, at
\* most one message of a peer is left behind in received_before_init_queue when
\* the pending thread ends: the one whose check of init_rcvd preceded INIT
\* (server_system_test.cc, listener_thread, pending_message_process_thread).
OneLeftBehind == \A p \in Peers :
    peer[p].pending = "done" => Len(KeptBack(p)) <= 1

\* The peers that have logged a reply to a request.
LoggedAt(r) == {p \in Peers : \E e \in SeqMembers(peer[p].log) : e.req = r}

\* However a reply is routed back and whoever caches its source on the way, it
\* is logged at most once and by one peer.  With "end_point" that is the peer
\* that made the request; with "path" a reply is taken for its own by any hop
\* that knows no full match (plexus_message_processor.h, GET_REPLY, PUT_REPLY).
LoggedOnce == \A r \in issued :
    /\ \A p \in Peers : CountIn(peer[p].log, LAMBDA e : e.req = r) <= 1
    /\ \A p, q \in LoggedAt(r) : p = q
    /\ config.storage = "end_point" => LoggedAt(r) \subseteq {r.origin}

\* When nothing is under way, every request was answered, or a message of it
\* was dropped after NRetry tries or left behind (forwarding_thread).
Answered == Quiet => \A r \in issued :
    \/ r \in dropped
    \/ LoggedAt(r) # {}
    \/ \E p \in Peers : \E m \in SeqMembers(KeptBack(p)) : m.req = r

\* The counters of the status page balance at every moment: what a peer
\* received or generated it has processed, forwarded or dropped, or still
\* holds; a client's request counts twice, as received and as generated
\* (peer.h counters, callback of server_system_test.cc).
Balanced == \A p \in Peers, op \in Counted :
    LET c == peer[p].count[op] IN
    c.received + c.generated =
        c.processed + c.forwarded + c.dropped + peer[p].initiated[op]
        + CountIn(Held(p), LAMBDA m : m.type = op \/ (op = "GET" /\ m.type = "INITIATE_GET")
                                                 \/ (op = "PUT" /\ m.type = "INITIATE_PUT"))

\* Once everything has settled without a failure, a proactive peer knows exactly
\* the peers two announcements away that its routing table does not have
\* (MSG_PEER_INIT and MSG_CACHE_ME of processMessage).
ProactiveComplete ==
    (/\ Quiet /\ config.type = "proactive" /\ failures = 0 /\ driver.next = config.n
     /\ \A p \in Peers : peer[p].received_before_init = <<>>) =>
    \A p \in Peers :
      LET rt == rtArray[config.n]
          heard == {q \in Peers : p \in rt[q] \/ \E r \in rt[q] : p \in rt[r]}
      IN  peer[p].pc = heard \ ({p} \cup rt[p])

\* A peer in itself: what may be left behind, what its counters say, what a
\* proactive one knows of the others.
PeersRight == TypeOK /\ OneLeftBehind /\ Balanced /\ ProactiveComplete

\* However messages are routed, forwarded and announced, the overlay comes to
\* rest when no new commands come (overlay_ttl).
ComesToRest == <>[]Quiet
=============================================================================
