--------------------------- MODULE GatewayIntake ---------------------------
(***************************************************************************)
(* How queries enter the DNS gateway: the receive loop of the UDP speaker, *)
(* the acceptor and the connections of the TCP speaker, and the load       *)
(* balancer that both call from different threads.  What a datagram or     *)
(* message says is chosen when it is looked at; the octets of a TCP stream *)
(* are counted, because framing depends on them: a stream is the sequence  *)
(* of its messages, each with the octet at which it starts.                *)
(***************************************************************************)
EXTENDS Integers, FiniteSets, Sequences

CONSTANTS
    Conns,          \* TCP connections
    MaxQueries,     \* bound: queries that reach the load balancer
    Proxies,        \* 0..size_ - 1
    Lens,           \* values a length field may have
    Streams,        \* what a client may write
    Header,         \* octets of the DNS header: 12 in the code
    RecvBuf,        \* octets of a connection's recv_buf_: 1024
    MaxDatagrams    \* bound: datagrams sent by clients

Message == [start : Nat, len : Lens]

\* A message is a length field of two octets and as many octets as it says; the
\* next one follows at once.
Contiguous(s) ==
    \A k \in DOMAIN s : s[k].start = IF k = 1 THEN 0 ELSE s[k - 1].start + 2 + s[k - 1].len

ASSUME IntakeAssumption ==
    /\ Header \in Nat \ {0} /\ RecvBuf \in Nat /\ MaxDatagrams \in Nat /\ MaxQueries \in Nat
    /\ Lens \subseteq Nat /\ Streams \subseteq Seq(Message) /\ \A s \in Streams : Contiguous(s)
    /\ IsFiniteSet(Proxies) /\ Proxies # {} /\ Proxies = 0 .. (Cardinality(Proxies) - 1)
    /\ "udp" \notin Conns

VARIABLES
    running,    \* the io_service runs
    waiting,    \* datagrams clients have sent and the speaker has not received
    pc,         \* what each receiver is doing
    scan,       \* the receiver's loop in ha_load_balancer::process_query
    offset_,    \* round-robin counter
    enabled,    \* hasendproxy::enabled_
    resolving,  \* proxies whose async_resolve has not finished
    admitted,   \* queries that took a value of offset_
    given,      \* the proxy a query was given to, or Nobody
    upAt,       \* history: the proxies enabled when a query was admitted
    completed,  \* queries complete_query was called for
    stream,     \* lengths of the messages the client writes
    at,         \* octets of the stream the gateway has consumed
    want,       \* octets of the read in progress
    short       \* a length below the header's has been received

nvars == << running, waiting, pc, scan, offset_, enabled, resolving, admitted, given, upAt,
            completed, stream, at, want, short >>
tcp == << stream, at, want, short >>
balancer == << offset_, enabled, resolving, admitted, given, upAt, completed, scan >>

Receivers == { "udp" } \cup Conns
Queries == 1 .. MaxQueries
size_ == Cardinality(Proxies)
Nobody == -1
NoScan == [query |-> 0, hs |-> 0, cnt |-> 0]

\* udp_dnsspeaker::udp_dnsspeaker and start: the socket is bound and receives.
udp_dnsspeaker == waiting = MaxDatagrams /\ pc["udp"] = "receive"

\* tcp_dnsspeaker::tcp_dnsspeaker and start: the acceptor listens.  What clients
\* send is chosen here; when it arrives is when it is received.
tcp_dnsspeaker ==
    /\ \A c \in Conns : pc[c] = "accept"
    /\ stream \in [Conns -> Streams] /\ at = [c \in Conns |-> 0]
    /\ want = [c \in Conns |-> 0] /\ short = [c \in Conns |-> FALSE]

\* hasendproxy::hasendproxy and start: enabled_ is not initialised, and the
\* home agent's name is being resolved.
hasendproxy == enabled \in SUBSET Proxies /\ resolving = Proxies

IntakeInit ==
    /\ running = TRUE
    /\ pc = [r \in Receivers |-> IF r = "udp" THEN "receive" ELSE "accept"]
    /\ udp_dnsspeaker /\ tcp_dnsspeaker /\ hasendproxy
    /\ scan = [r \in Receivers |-> NoScan]
    /\ offset_ = 0
    /\ admitted = {} /\ completed = {}
    /\ given = [q \in Queries |-> Nobody] /\ upAt = [q \in Queries |-> {}]

-----------------------------------------------------------------------------
(* The load balancer.                                                      *)

handle_resolve(h) ==
    /\ running /\ h \in resolving
    /\ resolving' = resolving \ { h }
    /\ \/ enabled' = enabled \cup { h }
       \/ UNCHANGED enabled
    /\ UNCHANGED << running, waiting, pc, scan, offset_, admitted, given, upAt, completed, tcp >>

complete(q) == completed' = completed \cup { q }

\* Variant: offset_ is read, then stored: two threads may see the same value.
Sane_not_atomic(r) ==
    /\ \E q \in Queries :
          /\ \A p \in Queries : p < q <=> p \in admitted
          /\ admitted' = admitted \cup { q }
          /\ upAt' = [upAt EXCEPT ![q] = enabled]
          /\ scan' = [scan EXCEPT ![r] = [query |-> q, hs |-> offset_ % size_, cnt |-> 0]]
    /\ offset_' \in { offset_, offset_ + 1 }
    /\ pc' = [pc EXCEPT ![r] = "select"]
    /\ UNCHANGED << enabled, resolving, given, completed >>

\* The query is handed to process_query by receiver r.  Queries that sanity_check
\* refuses are answered at once and are not numbered here.
Sane(r) ==
    /\ \E q \in Queries :
          /\ \A p \in Queries : p < q <=> p \in admitted
          /\ admitted' = admitted \cup { q }
          /\ upAt' = [upAt EXCEPT ![q] = enabled]
          /\ scan' = [scan EXCEPT ![r] = [query |-> q, hs |-> offset_ % size_, cnt |-> 0]]
    /\ offset_' = offset_ + 1
    /\ pc' = [pc EXCEPT ![r] = "select"]
    /\ UNCHANGED << enabled, resolving, given, completed >>

\* One turn of the loop over the proxies.  When it ends, the receiver goes on
\* with start().  A query no proxy takes is completed with SERVER_FAILURE.
process_query(r) ==
    LET s == scan[r] IN
    /\ running /\ pc[r] = "select"
    /\ IF s.hs \in enabled
       THEN /\ given' = [given EXCEPT ![s.query] = s.hs]
            /\ scan' = [scan EXCEPT ![r] = NoScan] /\ UNCHANGED completed
       ELSE IF s.cnt + 1 < size_
       THEN /\ scan' = [scan EXCEPT ![r].cnt = @ + 1, ![r].hs = (@ + 1) % size_] /\ UNCHANGED << given, completed >>
       ELSE /\ complete(s.query) /\ scan' = [scan EXCEPT ![r] = NoScan] /\ UNCHANGED given
    /\ pc' = IF scan'[r] = NoScan THEN [pc EXCEPT ![r] = IF r = "udp" THEN "receive" ELSE "length"] ELSE pc
    /\ UNCHANGED << running, waiting, offset_, enabled, resolving, admitted, upAt, tcp >>

\* A query that was given to a proxy is completed later, by the proxy.
ProxyCompletes ==
    /\ running
    /\ \E q \in Queries : given[q] # Nobody /\ q \notin completed /\ complete(q)
    /\ UNCHANGED << running, waiting, pc, scan, offset_, enabled, resolving, admitted, given, upAt, tcp >>

-----------------------------------------------------------------------------
(* The UDP speaker.                                                        *)

\* A receive error, a bad header, a parse_error, or a query that sanity_check
\* answers: the speaker receives again.  A good query goes to the balancer.
handle_datagram_received ==
    /\ running /\ pc["udp"] = "receive" /\ waiting > 0
    /\ waiting' = waiting - 1
    /\ \/ UNCHANGED << pc, balancer >>
       \/ Sane("udp")
    /\ UNCHANGED << running, tcp >>

-----------------------------------------------------------------------------
(* The TCP speaker.                                                        *)

End(m) == m.start + 2 + m.len
Written(c) == IF stream[c] = << >> THEN 0 ELSE End(stream[c][Len(stream[c])])
Boundary(c, n) == n = Written(c) \/ \E k \in DOMAIN stream[c] : n = stream[c][k].start

\* Without a read the connection object goes away.
Gone(c) == /\ pc' = [pc EXCEPT ![c] = "closed"]
           /\ stream' = [stream EXCEPT ![c] = << >>] /\ at' = [at EXCEPT ![c] = 0]
           /\ want' = [want EXCEPT ![c] = 0] /\ short' = [short EXCEPT ![c] = FALSE]

\* The acceptor takes one connection after the other and accepts again.  Asking
\* a connection that is already reset for its remote_endpoint throws out of the
\* handler, and checked_io_service_run stops the process.
handle_accept(c) ==
    /\ running /\ pc[c] = "accept"
    /\ \/ pc' = [pc EXCEPT ![c] = "length"] /\ UNCHANGED running
       \/ running' = FALSE /\ UNCHANGED pc
    /\ UNCHANGED << waiting, balancer, tcp >>

\* The length the two octets at the reader's position give: the client's if they
\* are a length field, any value otherwise.
LengthRead(c) ==
    IF Boundary(c, at[c])
    THEN { stream[c][k].len : k \in { j \in DOMAIN stream[c] : stream[c][j].start = at[c] } }
    ELSE Lens

\* A length above the buffers ends the connection.  Below the header's, the
\* subtraction wraps and buffer() cuts it to the whole of recv_buf_.
handle_msg_len_read(c) ==
    /\ running /\ pc[c] = "length" /\ at[c] + 2 <= Written(c)
    /\ \E l \in LengthRead(c) :
          IF l > Header + RecvBuf THEN Gone(c)
          ELSE /\ short' = [short EXCEPT ![c] = @ \/ l < Header]
               /\ pc' = [pc EXCEPT ![c] = "body"]
               /\ at' = [at EXCEPT ![c] = @ + 2]
               /\ want' = [want EXCEPT ![c] = IF l >= Header THEN l ELSE Header + RecvBuf]
               /\ UNCHANGED stream
    /\ UNCHANGED << running, waiting, balancer >>

\* Once the octets are there: a bad header or a parse_error ends the connection,
\* a query that sanity_check answers or the balancer takes leads to start().
handle_query_read(c) ==
    /\ running /\ pc[c] = "body" /\ at[c] + want[c] <= Written(c)
    /\ \/ Gone(c) /\ UNCHANGED balancer
       \/ /\ \/ pc' = [pc EXCEPT ![c] = "length"] /\ UNCHANGED balancer
             \/ Sane(c)
          /\ at' = [at EXCEPT ![c] = @ + want[c]] /\ want' = [want EXCEPT ![c] = 0]
          /\ UNCHANGED << stream, short >>
    /\ UNCHANGED << running, waiting >>

\* The client closes or the connection fails: the pending read ends it.
ReadFails(c) ==
    /\ running /\ pc[c] \in { "length", "body" } /\ Gone(c)
    /\ UNCHANGED << running, waiting, balancer >>

IntakeNext ==
    \/ \E h \in Proxies : handle_resolve(h)
    \/ \E r \in Receivers : process_query(r)
    \/ ProxyCompletes
    \/ handle_datagram_received
    \/ \E c \in Conns : \/ handle_accept(c) \/ handle_msg_len_read(c)
                        \/ handle_query_read(c) \/ ReadFails(c)

-----------------------------------------------------------------------------

IntakeTypeOK ==
    /\ running \in BOOLEAN /\ waiting \in 0..MaxDatagrams
    /\ pc \in [Receivers -> { "receive", "accept", "length", "body", "select", "closed" }]
    /\ offset_ \in Nat /\ enabled \subseteq Proxies /\ resolving \subseteq Proxies
    /\ admitted \subseteq Queries /\ completed \subseteq admitted
    /\ given \in [Queries -> Proxies \cup { Nobody }] /\ upAt \in [Queries -> SUBSET Proxies]
    /\ at \in [Conns -> Nat] /\ want \in [Conns -> 0..(Header + RecvBuf)] /\ short \in [Conns -> BOOLEAN]

\* A query is refused for want of a home agent only if no proxy was enabled when
\* it came in: however handle_resolve interleaves with the loop of
\* process_query, the loop looks at every proxy.
RefusedOnlyIfNoneUp ==
    \A q \in completed : given[q] = Nobody => upAt[q] = {}

\* "The DNS Gateway will use all the Home Agent addresses specified in a
\* round-robin manner" (the help text of --home_agent): among the queries that
\* came in while all proxies were enabled, from any mix of threads, no proxy got
\* two more than another.
RoundRobin ==
    LET load(h) == Cardinality({ q \in admitted : upAt[q] = Proxies /\ given[q] = h })
    IN  (\A r \in Receivers : pc[r] # "select") => \A g, h \in Proxies : load(g) <= load(h) + 1

\* Where a connection looks for a length field there is one, unless the client
\* has sent a length below the header's, after which the stream is misread.
Framed == \A c \in Conns : pc[c] = "length" /\ ~short[c] => Boundary(c, at[c])

\* What the receive loops and the load balancer keep right between them.
IntakeRight == IntakeTypeOK /\ RefusedOnlyIfNoneUp /\ RoundRobin /\ Framed

\* The UDP speaker keeps receiving: every datagram is looked at as long as the
\* process runs, whatever the datagrams before it held.
DatagramsRead == (waiting > 0) ~> (waiting = 0 \/ ~running)
=============================================================================
