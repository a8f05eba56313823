---------------------------- MODULE CrawlerManager ----------------------------
(***************************************************************************)
(* The crawler manager: homeagentdb (crawler_manager/homeagentdb.cpp),     *)
(* which spreads home agents over the connected pollers, the               *)
(* pollerconnection of each poller (pollerconnector.cpp) and the bufread   *)
(* and bufwrite each connection owns (crawler_protocol/bufreadwrite.cpp).  *)
(*                                                                         *)
(* homeagentdb runs its handlers one at a time in a strand; the handlers   *)
(* of a connection run on other threads of the io_service and reach the    *)
(* strand through signals.  disconnect is three steps, because the strand  *)
(* reads connected_ and other handlers use the socket in between.  An      *)
(* exception that leaves a handler stops the io_service and the process    *)
(* (checked_io_service_run); so does a failed assertion.                   *)
(*                                                                         *)
(* Pollers and their sockets are external.                                 *)
(***************************************************************************)
EXTENDS Integers, Sequences, FiniteSets

CONSTANTS
    Poller,         \* pollerconnection objects, one per accepted connection
    HomeAgent,      \* home agent host names
    Initial,        \* the home agents of the configuration, a sequence
    MaxAnnounce     \* bound on HOME_AGENT_DISCOVERED messages

ASSUME CrawlerManagerAssumption ==
    /\ Initial \in Seq(HomeAgent)
    /\ MaxAnnounce \in Nat

VARIABLES
    \* homeagentdb
    strand,     \* handlers the strand has still to run
    draining,   \* the strand is inside the loop of process_queue
    pollerq,    \* pollerq_
    hadb,       \* hadb_
    pollers,    \* the keys of pollerdb_
    halist,     \* the values of pollerdb_
    \* pollerconnection, bufread, bufwrite
    phase,      \* "new", "starting" (in start), "started"
    connected,  \* connected_
    reading,    \* an asynchronous read is outstanding
    closing,    \* how far disconnect got in the read and the write handler
    writeq,     \* bufwrite: the item being sent, then send_queue_
    \* environment
    socket,     \* state of the connection's socket
    got,        \* home agents the poller has been told to poll
    discovered, \* home agents configured or announced
    announces,  \* number of announcements so far
    fault       \* what ended the process

dbVars == <<strand, draining, pollerq, hadb, pollers, halist>>
connVars == <<phase, connected, reading, closing, writeq, socket>>
envVars == <<got, discovered, announces>>
vars == <<dbVars, connVars, envVars, fault>>

\* The elements of a sequence.
Elems(s) == {s[i] : i \in DOMAIN s}

Call == ({"connected", "disconnected"} \X Poller) \cup ({"add"} \X HomeAgent)

Step == {"no", "stored", "shut"}
Handler == {"read", "write"}

\* "eof": the peer closed its end; "reset": the connection was reset;
\* "closed": closed by disconnect.
SocketState == {"none", "open", "eof", "reset", "closed"}

TypeOK ==
    /\ strand \in Seq(Call)
    /\ draining \in BOOLEAN
    /\ pollerq \in Seq(HomeAgent)
    /\ hadb \subseteq HomeAgent
    /\ pollers \subseteq Poller
    /\ halist \in [Poller -> Seq(HomeAgent)]
    /\ phase \in [Poller -> {"new", "starting", "started"}]
    /\ connected \in [Poller -> BOOLEAN]
    /\ reading \in [Poller -> BOOLEAN]
    /\ closing \in [Poller -> [Handler -> Step]]
    /\ writeq \in [Poller -> Seq(HomeAgent)]
    /\ socket \in [Poller -> SocketState]
    /\ got \in [Poller -> SUBSET HomeAgent]
    /\ discovered \subseteq HomeAgent
    /\ announces \in 0 .. MaxAnnounce
    /\ fault \in {"none", "exception", "assertion", "corruption"}

\* main adds the configured home agents before the io_service runs.
Init ==
    /\ strand = [i \in DOMAIN Initial |-> <<"add", Initial[i]>>]
    /\ draining = FALSE
    /\ pollerq = << >>
    /\ hadb = {}
    /\ pollers = {}
    /\ halist = [p \in Poller |-> << >>]
    /\ phase = [p \in Poller |-> "new"]
    /\ connected = [p \in Poller |-> TRUE]
    /\ reading = [p \in Poller |-> FALSE]
    /\ closing = [p \in Poller |-> [w \in Handler |-> "no"]]
    /\ writeq = [p \in Poller |-> << >>]
    /\ socket = [p \in Poller |-> "none"]
    /\ got = [p \in Poller |-> {}]
    /\ discovered = Elems(Initial)
    /\ announces = 0
    /\ fault = "none"

-----------------------------------------------------------------------------
(* homeagentdb.                                                            *)

\* The pollers assign_home_agent may pick: the map is ordered by address, so
\* among equals any may come first.
LeastLoaded ==
    {p \in pollers : \A r \in pollers : Len(halist[p]) <= Len(halist[r])}

\* The assignment of h goes to the bufwrite of p.
AssignTo(p, h, rest, calls) ==
    /\ hadb' = hadb \cup {h}
    /\ halist' = [halist EXCEPT ![p] = Append(@, h)]
    /\ writeq' = [writeq EXCEPT ![p] = Append(@, h)]
    /\ pollerq' = rest
    /\ strand' = calls
    /\ UNCHANGED <<pollers, draining, phase, connected, reading, closing, socket, envVars, fault>>

\* The home agents of p go back to the queue and p is forgotten; process_queue
\* is entered next.  own are the home agents on the list of p.
Requeue(p, own, queue) ==
    /\ pollerq' = queue \o own
    /\ hadb' = hadb \ Elems(own)
    /\ pollers' = pollers \ {p}
    /\ halist' = [halist EXCEPT ![p] = << >>]
    /\ draining' = TRUE

\* p is no longer connected, and send_failure disconnects it once more.  The
\* socket is still open, so poller_disconnected_ runs at once inside the strand;
\* h, which was put on the list of p, is announced again after that.
AssignLate(p, h, rest, calls) ==
    /\ Requeue(p, Append(halist[p], h), rest)
    /\ socket' = [socket EXCEPT ![p] = "closed"]
    /\ strand' = <<<<"add", h>>>> \o calls
    /\ UNCHANGED <<phase, connected, reading, closing, writeq, envVars, fault>>

Fault(f) == fault' = f /\ UNCHANGED <<dbVars, connVars, envVars>>

\* Variant: the home agent is handed out again although hadb_ has it.
assign_home_agent_again(h, rest, calls, inLoop) ==
    \E p \in LeastLoaded : AssignTo(p, h, rest, calls)

\* assign_home_agent for h, where rest is pollerq_ without h and calls what the
\* strand has still to run.  A home agent that hadb_ has is left alone.  When
\* send_failure disconnects a poller that is disconnected already, shutdown
\* throws if the socket is closed or reset.  When it does not throw inside the
\* loop of process_queue, with other pollers left, the nested process_queue
\* empties the queue that the outer one goes on to pop and that holds h.
assign_home_agent(h, rest, calls, inLoop) ==
    \/ /\ h \in hadb
       /\ pollerq' = rest
       /\ strand' = calls
       /\ UNCHANGED <<hadb, pollers, halist, draining, connVars, envVars, fault>>
    \/ /\ h \notin hadb
       /\ \E p \in LeastLoaded :
            \/ connected[p] /\ AssignTo(p, h, rest, calls)
            \/ ~connected[p] /\ socket[p] \in {"reset", "closed"} /\ Fault("exception")
            \/ /\ ~connected[p] /\ socket[p] \in {"open", "eof"}
               /\ IF inLoop /\ pollers # {p}
                  THEN Fault("corruption")
                  ELSE AssignLate(p, h, rest, calls)

\* One round of the loop in process_queue.
process_queue ==
    /\ fault = "none"
    /\ draining
    /\ \/ /\ pollerq = << >> \/ pollers = {}
          /\ draining' = FALSE
          /\ UNCHANGED <<strand, pollerq, hadb, pollers, halist, connVars, envVars, fault>>
       \/ /\ pollerq # << >> /\ pollers # {}
          /\ assign_home_agent(Head(pollerq), Tail(pollerq), strand, TRUE)

\* Variant: a poller that connects waits for the next home agent.
poller_connected__no_queue ==
    /\ fault = "none" /\ ~draining
    /\ strand # << >> /\ Head(strand)[1] = "connected"
    /\ pollers' = pollers \cup {Head(strand)[2]}
    /\ strand' = Tail(strand)
    /\ UNCHANGED <<draining, pollerq, hadb, halist, connVars, envVars, fault>>

poller_connected_ ==
    /\ fault = "none" /\ ~draining
    /\ strand # << >> /\ Head(strand)[1] = "connected"
    /\ pollers' = pollers \cup {Head(strand)[2]}
    /\ strand' = Tail(strand)
    /\ draining' = TRUE
    /\ UNCHANGED <<pollerq, hadb, halist, connVars, envVars, fault>>

\* Variant: the home agents of the poller stay in hadb_.
poller_disconnected__keeps ==
    /\ fault = "none" /\ ~draining
    /\ strand # << >> /\ Head(strand)[1] = "disconnected"
    /\ LET p == Head(strand)[2] IN
       /\ p \in pollers
       /\ pollerq' = pollerq \o halist[p]
       /\ pollers' = pollers \ {p}
       /\ halist' = [halist EXCEPT ![p] = << >>]
       /\ strand' = Tail(strand)
       /\ draining' = TRUE
       /\ UNCHANGED <<hadb, connVars, envVars, fault>>

\* Variant: the home agents of the poller are forgotten.
poller_disconnected__forgets ==
    /\ fault = "none" /\ ~draining
    /\ strand # << >> /\ Head(strand)[1] = "disconnected"
    /\ LET p == Head(strand)[2] IN
       /\ p \in pollers
       /\ hadb' = hadb \ Elems(halist[p])
       /\ pollers' = pollers \ {p}
       /\ halist' = [halist EXCEPT ![p] = << >>]
       /\ strand' = Tail(strand)
       /\ draining' = TRUE
       /\ UNCHANGED <<pollerq, connVars, envVars, fault>>

\* Variant: the home agents of the poller wait for the next poller to connect.
poller_disconnected__no_queue ==
    /\ fault = "none" /\ ~draining
    /\ strand # << >> /\ Head(strand)[1] = "disconnected"
    /\ LET p == Head(strand)[2] IN
       /\ p \in pollers
       /\ pollerq' = pollerq \o halist[p]
       /\ hadb' = hadb \ Elems(halist[p])
       /\ pollers' = pollers \ {p}
       /\ halist' = [halist EXCEPT ![p] = << >>]
       /\ strand' = Tail(strand)
       /\ UNCHANGED <<draining, connVars, envVars, fault>>

\* The home agents of the poller go back to the queue; the poller must be known.
poller_disconnected_ ==
    /\ fault = "none" /\ ~draining
    /\ strand # << >> /\ Head(strand)[1] = "disconnected"
    /\ LET p == Head(strand)[2] IN
       \/ p \notin pollers /\ Fault("assertion")
       \/ /\ p \in pollers
          /\ Requeue(p, halist[p], pollerq)
          /\ strand' = Tail(strand)
          /\ UNCHANGED <<connVars, envVars, fault>>

add_home_agent_ ==
    /\ fault = "none" /\ ~draining
    /\ strand # << >> /\ Head(strand)[1] = "add"
    /\ LET h == Head(strand)[2] IN
       \/ /\ pollers = {}
          /\ pollerq' = Append(pollerq, h)
          /\ strand' = Tail(strand)
          /\ UNCHANGED <<draining, hadb, pollers, halist, connVars, envVars, fault>>
       \/ /\ pollers # {}
          /\ assign_home_agent(h, pollerq, Tail(strand), FALSE)

-----------------------------------------------------------------------------
(* pollerconnector and pollerconnection.                                   *)

\* handle_accept: start gives the handlers to bufread and bufwrite and starts
\* reading.  remote_endpoint throws when the peer has reset the connection.
handle_accept(p) ==
    /\ fault = "none"
    /\ phase[p] = "new"
    /\ \/ /\ phase' = [phase EXCEPT ![p] = "starting"]
          /\ reading' = [reading EXCEPT ![p] = TRUE]
          /\ socket' = [socket EXCEPT ![p] = "open"]
          /\ UNCHANGED <<dbVars, connected, closing, writeq, envVars, fault>>
       \/ Fault("exception")

\* The last statement of start: bufread is already reading on other threads.
SignalConnected(p) ==
    /\ fault = "none"
    /\ phase[p] = "starting"
    /\ phase' = [phase EXCEPT ![p] = "started"]
    /\ strand' = Append(strand, <<"connected", p>>)
    /\ UNCHANGED <<draining, pollerq, hadb, pollers, halist, connected, reading, closing,
                   writeq, socket, envVars, fault>>

\* A HOME_AGENT_DISCOVERED message was read; the next read is started.
handle_body_read(p, h) ==
    /\ fault = "none"
    /\ reading[p]
    /\ socket[p] \in {"open", "eof"}
    /\ announces < MaxAnnounce
    /\ announces' = announces + 1
    /\ discovered' = discovered \cup {h}
    /\ strand' = Append(strand, <<"add", h>>)
    /\ UNCHANGED <<draining, pollerq, hadb, pollers, halist, connVars, got, fault>>

\* disconnect, first statement.
StoreDisconnected(p, w) ==
    /\ connected' = [connected EXCEPT ![p] = FALSE]
    /\ closing' = [closing EXCEPT ![p][w] = "stored"]

\* A read fails, is aborted, or brings a message that is too big or unknown:
\* the error handler of bufread is disconnect.
handle_header_read(p) ==
    /\ fault = "none"
    /\ reading[p]
    /\ reading' = [reading EXCEPT ![p] = FALSE]
    /\ StoreDisconnected(p, "read")
    /\ UNCHANGED <<dbVars, phase, writeq, socket, envVars, fault>>

\* An assignment has been written.  The poller gets it if it is still there.
handle_bufitem_sent(p) ==
    /\ fault = "none"
    /\ writeq[p] # << >>
    /\ closing[p]["write"] = "no"
    /\ socket[p] \in {"open", "eof"}
    /\ writeq' = [writeq EXCEPT ![p] = Tail(@)]
    /\ got' = [got EXCEPT ![p] = IF socket[p] = "open" THEN @ \cup {Head(writeq[p])} ELSE @]
    /\ UNCHANGED <<dbVars, phase, connected, reading, closing, socket, discovered, announces, fault>>

\* A write fails because the connection was reset, closed or shut down:
\* the error handler of bufwrite is send_failure, which calls disconnect.
WriteFails(p) ==
    /\ fault = "none"
    /\ writeq[p] # << >>
    /\ closing[p]["write"] = "no"
    /\ socket[p] \in {"reset", "closed"} \/ closing[p]["read"] = "shut"
    /\ StoreDisconnected(p, "write")
    /\ UNCHANGED <<dbVars, phase, reading, writeq, socket, envVars, fault>>

\* disconnect, shutdown: throws when the socket is not connected or closed.
Shutdown(p, w) ==
    /\ fault = "none"
    /\ closing[p][w] = "stored"
    /\ \/ socket[p] \in {"reset", "closed"} /\ Fault("exception")
       \/ /\ socket[p] \in {"open", "eof"}
          /\ closing' = [closing EXCEPT ![p][w] = "shut"]
          /\ UNCHANGED <<dbVars, phase, connected, reading, writeq, socket, envVars, fault>>

\* disconnect, close and the signal.  After a write error the lost assignment
\* is announced again, and every queued item reports the same error: the next
\* one finds the socket closed.
CloseAndSignal(p, w) ==
    /\ fault = "none"
    /\ closing[p][w] = "shut"
    /\ closing' = [closing EXCEPT ![p][w] = "no"]
    /\ socket' = [socket EXCEPT ![p] = "closed"]
    /\ IF w = "read"
       THEN /\ strand' = Append(strand, <<"disconnected", p>>)
            /\ UNCHANGED <<writeq, fault>>
       ELSE /\ strand' = strand \o <<<<"disconnected", p>>, <<"add", Head(writeq[p])>>>>
            /\ writeq' = [writeq EXCEPT ![p] = << >>]
            /\ fault' = IF Len(writeq[p]) > 1 THEN "exception" ELSE fault
    /\ UNCHANGED <<draining, pollerq, hadb, pollers, halist, phase, connected, reading, envVars>>

\* The poller goes away, or its connection is reset.
PeerCloses(p, how) ==
    /\ fault = "none"
    /\ socket[p] \in {"open", "eof"}
    /\ socket[p] # how
    /\ socket' = [socket EXCEPT ![p] = how]
    /\ UNCHANGED <<dbVars, phase, connected, reading, closing, writeq, envVars, fault>>

-----------------------------------------------------------------------------

Strand == process_queue \/ poller_connected_ \/ poller_disconnected_ \/ add_home_agent_

Connection(p) ==
    \/ handle_accept(p)
    \/ SignalConnected(p)
    \/ \E h \in HomeAgent : handle_body_read(p, h)
    \/ handle_header_read(p)
    \/ handle_bufitem_sent(p)
    \/ WriteFails(p)
    \/ \E w \in Handler : Shutdown(p, w) \/ CloseAndSignal(p, w)
    \/ \E how \in {"eof", "reset"} : PeerCloses(p, how)

Next == Strand \/ \E p \in Poller : Connection(p)

\* The io_service runs the handlers that are queued: those of the strand, the
\* completion of reads on connections that ended, and started handlers finish.
Fairness ==
    /\ WF_vars(Strand)
    /\ \A p \in Poller :
        /\ WF_vars(SignalConnected(p))
        /\ WF_vars(socket[p] # "open" /\ handle_header_read(p))
        /\ WF_vars(\E w \in Handler : Shutdown(p, w) \/ CloseAndSignal(p, w))

Spec == Init /\ [][Next]_vars
FairSpec == Spec /\ Fairness

-----------------------------------------------------------------------------
(* Properties.                                                             *)

\* hadb_ and the lists of the pollers agree: each home agent in hadb_ is on
\* the list of exactly one connected poller, once, and the lists hold nothing
\* else.  Otherwise a home agent could never be assigned again, or be polled
\* twice.
Partition ==
    /\ \A p \in Poller : p \notin pollers => halist[p] = << >>
    /\ \A h \in HomeAgent : h \in hadb <=> \E p \in pollers : h \in Elems(halist[p])
    /\ \A p, r \in pollers :
        \A i \in DOMAIN halist[p], j \in DOMAIN halist[r] :
            halist[p][i] = halist[r][j] => p = r /\ i = j

\* No home agent is lost: as long as the manager runs, each one that was
\* configured or announced is assigned, queued, or about to be added.
NoneLost ==
    \A h \in discovered :
        h \in hadb \cup Elems(pollerq) \/ <<"add", h>> \in Elems(strand)

\* Home agents wait in pollerq_ only while no poller is connected.
WaitOnlyForPollers ==
    pollerq # << >> => draining \/ pollers = {}

\* No home agent is polled by two pollers that are both connected, even while
\* assignments, disconnections and repeated announcements cross.
PolledOnce ==
    \A p, r \in Poller :
        p # r /\ socket[p] # "closed" /\ socket[r] # "closed" => got[p] \cap got[r] = {}

\* Once some poller stays connected, every home agent is assigned in the end.
AllAssigned ==
    <>[](pollers # {} /\ fault = "none")
        => \A h \in HomeAgent : [](h \in discovered => <>(h \in hadb))
=============================================================================
