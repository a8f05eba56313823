---------------------------- MODULE CrawlerPoller ----------------------------
(***************************************************************************)
(* A crawler poller process: how a discovered home agent gets to the       *)
(* manager and an assigned one gets a poller (crawler_poller/main.cpp,     *)
(* signals.hpp, manconnection.cpp, poller.cpp: pollercreator), over the    *)
(* bufread and bufwrite of crawler_protocol.                               *)
(*                                                                         *)
(* threads handlers run at a time.   bufwrite is serialised by a strand,    *)
(* except for connected(), which handle_connect calls on its own thread:   *)
(* the two writers below are the strand and that thread, and a step of a   *)
(* writer is one access to the members they share.  Any failure stops the  *)
(* io_service and with it the process; a daemon starts it again.           *)
(*                                                                         *)
(* The manager is external: it assigns a home agent at most once to one    *)
(* connection and gives up a connection that announces a name its bufread  *)
(* cannot hold.                                                            *)
(***************************************************************************)
EXTENDS Integers, Sequences, FiniteSets

CONSTANTS
    HomeAgent,   \* host names
    Seed,        \* --home_agent, a sequence
    Overlong,    \* host names of more than 255 octets
    Threads,     \* possible values of --threads
    MaxRestarts, \* bound on failures of the process
    NoAgent

ASSUME CrawlerPollerAssumption ==
    /\ Seed \in Seq(HomeAgent)
    /\ Overlong \subseteq HomeAgent
    /\ Threads \subseteq Nat \ {0}
    /\ MaxRestarts \in Nat
    /\ NoAgent \notin HomeAgent

VARIABLES
    managed,          \* --manager was given
    threads,          \* threads that run the io_service
    up,               \* the process runs
    restarts,
    seeding,          \* --home_agents main has still to announce
    conn,             \* manconnection: "resolving", "connecting", "connected"
    filter,           \* duplicate_filter::set_
    passing,          \* inserted by a handler that has not called f_ yet
    strand,           \* handlers the strand of bufwrite has still to run
    writer,           \* where the strand and connected() are in bufwrite
    connected,        \* bufwrite::connected_
    send_queue,
    send_in_progress,
    writes,           \* outstanding async_writes
    wire,             \* messages that reached the manager in this life
    inbox,            \* assignments that bufread has still to read
    assigned,         \* home agents the manager assigned on this connection
    creating,         \* create_poller_ calls of the strand of pollercreator
    pollers           \* how many pollers monitor a home agent

bufVars == <<strand, writer, connected, send_queue, send_in_progress, writes, wire>>
options == <<managed, threads>>
manVars == <<conn, inbox, assigned>>
pollVars == <<filter, passing, creating, pollers>>
vars == <<managed, threads, up, restarts, seeding, manVars, pollVars, bufVars>>

Writer == {"strand", "connect"}
Idle == [at |-> "idle", item |-> NoAgent]
WriterState == [at : {"idle", "next", "check", "send", "queue"}, item : HomeAgent \cup {NoAgent}]
Handler == ({"send", "sent", "failed"} \X HomeAgent)

TypeOK ==
    /\ managed \in BOOLEAN
    /\ threads \in Threads
    /\ up \in BOOLEAN
    /\ restarts \in 0 .. MaxRestarts
    /\ seeding \in Seq(HomeAgent)
    /\ conn \in {"resolving", "connecting", "connected"}
    /\ filter \subseteq HomeAgent
    /\ passing \subseteq filter
    /\ strand \in Seq(Handler)
    /\ writer \in [Writer -> WriterState]
    /\ connected \in BOOLEAN
    /\ send_queue \in Seq(HomeAgent)
    /\ send_in_progress \in BOOLEAN
    /\ writes \in Seq(HomeAgent)
    /\ wire \in Seq(HomeAgent)
    /\ inbox \in Seq(HomeAgent)
    /\ assigned \subseteq HomeAgent
    /\ creating \in Seq(HomeAgent)
    /\ pollers \in [HomeAgent -> Nat]

Elems(s) == {s[i] : i \in DOMAIN s}

\* manconnection::manconnection starts to resolve the manager's name.
Init ==
    /\ managed \in BOOLEAN
    /\ threads \in Threads
    /\ up = TRUE
    /\ restarts = 0
    /\ seeding = Seed
    /\ conn = "resolving"
    /\ filter = {}
    /\ passing = {}
    /\ strand = << >>
    /\ writer = [w \in Writer |-> Idle]
    /\ connected = FALSE
    /\ send_queue = << >>
    /\ send_in_progress = FALSE
    /\ writes = << >>
    /\ wire = << >>
    /\ inbox = << >>
    /\ assigned = {}
    /\ creating = << >>
    /\ pollers = [h \in HomeAgent |-> 0]

-----------------------------------------------------------------------------
(* The io_service.                                                         *)

Busy == Cardinality({w \in Writer : writer[w] # Idle}) + Cardinality(passing)

\* A thread is free to run a handler; main starts them when it has announced the
\* configured home agents.
Free == up /\ seeding = << >> /\ Busy < threads

\* io_service::stop, from manconnection::disconnect or checked_io_service_run.
Stop ==
    /\ restarts < MaxRestarts
    /\ up' = FALSE
    /\ UNCHANGED <<options, restarts, seeding, manVars, pollVars, bufVars>>

\* The daemon starts the process again; nothing was kept.
Restart ==
    /\ ~up
    /\ up' = TRUE
    /\ restarts' = restarts + 1
    /\ seeding' = Seed
    /\ conn' = "resolving"
    /\ filter' = {}
    /\ passing' = {}
    /\ strand' = << >>
    /\ writer' = [w \in Writer |-> Idle]
    /\ connected' = FALSE
    /\ send_queue' = << >>
    /\ send_in_progress' = FALSE
    /\ writes' = << >>
    /\ wire' = << >>
    /\ inbox' = << >>
    /\ assigned' = {}
    /\ creating' = << >>
    /\ pollers' = [h \in HomeAgent |-> 0]
    /\ UNCHANGED options

\* What passes the filter goes to the strand of bufwrite, or to that of the
\* pollercreator when there is no manager.
PassOn(h) ==
    /\ strand' = IF managed THEN Append(strand, <<"send", h>>) ELSE strand
    /\ creating' = IF managed THEN creating ELSE Append(creating, h)

\* main announces the configured home agents one after the other, before any
\* handler runs; what they dispatch waits in a strand.
AnnounceSeed ==
    /\ up /\ seeding # << >>
    /\ seeding' = Tail(seeding)
    /\ \/ /\ Head(seeding) \notin filter
          /\ filter' = filter \cup {Head(seeding)}
          /\ PassOn(Head(seeding))
       \/ /\ Head(seeding) \in filter
          /\ UNCHANGED <<filter, strand, creating>>
    /\ UNCHANGED <<options, up, restarts, manVars, passing, pollers,
                   writer, connected, send_queue, send_in_progress, writes, wire>>

-----------------------------------------------------------------------------
(* manconnection and bufwrite.                                             *)

handle_resolve ==
    /\ Free /\ managed /\ conn = "resolving"
    /\ conn' = "connecting"
    /\ UNCHANGED <<options, up, restarts, seeding, inbox, assigned, pollVars, bufVars>>

\* Variant: connected() does not look at what was queued before.
handle_connect_no_flush ==
    /\ Free /\ managed /\ conn = "connecting"
    /\ conn' = "connected"
    /\ connected' = TRUE
    /\ UNCHANGED <<options, up, restarts, seeding, inbox, assigned, pollVars,
                   strand, writer, send_queue, send_in_progress, writes, wire>>

\* bufwrite::connected sets connected_ and goes on to send_next_bufitem.
handle_connect ==
    /\ Free /\ managed /\ conn = "connecting"
    /\ conn' = "connected"
    /\ connected' = TRUE
    /\ writer' = [writer EXCEPT !["connect"] = [at |-> "next", item |-> NoAgent]]
    /\ UNCHANGED <<options, up, restarts, seeding, inbox, assigned, pollVars,
                   strand, send_queue, send_in_progress, writes, wire>>

\* Resolving or connecting fails, the connection breaks while bufread waits, or
\* the log line of an instrumentation session throws because its client has
\* reset the connection.
fail == Free /\ Stop

\* The strand takes the next handler: send_bufitem, or handle_bufitem_sent,
\* which goes on to send_next_bufitem; after a write error it calls
\* send_failure for every item and that stops the process.
RunStrand ==
    /\ Free
    /\ writer["strand"] = Idle
    /\ strand # << >>
    /\ strand' = Tail(strand)
    /\ \/ /\ Head(strand)[1] = "send"
          /\ writer' = [writer EXCEPT !["strand"] = [at |-> "check", item |-> Head(strand)[2]]]
          /\ UNCHANGED <<up, send_queue, send_in_progress>>
       \/ /\ Head(strand)[1] = "sent"
          /\ send_in_progress' = FALSE
          /\ writer' = [writer EXCEPT !["strand"] = [at |-> "next", item |-> NoAgent]]
          /\ UNCHANGED <<up, send_queue>>
       \/ /\ Head(strand)[1] = "failed"
          /\ send_in_progress' = FALSE
          /\ send_queue' = << >>
          /\ up' = FALSE
          /\ UNCHANGED writer
    /\ UNCHANGED <<options, restarts, seeding, manVars, pollVars, connected, writes, wire>>

\* send_next_bufitem: take the first item of the queue, if there is one.
send_next_bufitem(w) ==
    /\ up /\ writer[w].at = "next"
    /\ \/ /\ send_queue = << >>
          /\ writer' = [writer EXCEPT ![w] = Idle]
          /\ UNCHANGED send_queue
       \/ /\ send_queue # << >>
          /\ writer' = [writer EXCEPT ![w] = [at |-> "check", item |-> Head(send_queue)]]
          /\ send_queue' = Tail(send_queue)
    /\ UNCHANGED <<options, up, restarts, seeding, manVars, pollVars,
                   strand, connected, send_in_progress, writes, wire>>

\* send_bufitem: read connected_ and send_in_progress_ ...
send_bufitem_check(w) ==
    /\ up /\ writer[w].at = "check"
    /\ writer' = [writer EXCEPT ![w].at =
                    IF connected /\ ~send_in_progress THEN "send" ELSE "queue"]
    /\ UNCHANGED <<options, up, restarts, seeding, manVars, pollVars,
                   strand, connected, send_queue, send_in_progress, writes, wire>>

\* ... then set the flag and start async_write, or queue the item.
send_bufitem(w) ==
    /\ up
    /\ \/ /\ writer[w].at = "send"
          /\ send_in_progress' = TRUE
          /\ writes' = Append(writes, writer[w].item)
          /\ UNCHANGED send_queue
       \/ /\ writer[w].at = "queue"
          /\ send_queue' = Append(send_queue, writer[w].item)
          /\ UNCHANGED <<send_in_progress, writes>>
    /\ writer' = [writer EXCEPT ![w] = Idle]
    /\ UNCHANGED <<options, up, restarts, seeding, manVars, pollVars, strand, connected, wire>>

\* An async_write completes; its handler goes through the strand.
WriteCompletes(i, ok) ==
    /\ up /\ i \in DOMAIN writes
    /\ ok \/ restarts < MaxRestarts
    /\ writes' = SubSeq(writes, 1, i - 1) \o SubSeq(writes, i + 1, Len(writes))
    /\ wire' = IF ok THEN Append(wire, writes[i]) ELSE wire
    /\ strand' = Append(strand, <<IF ok THEN "sent" ELSE "failed", writes[i]>>)
    /\ UNCHANGED <<options, up, restarts, seeding, manVars, pollVars,
                   writer, connected, send_queue, send_in_progress>>

-----------------------------------------------------------------------------
(* The manager, bufread and pollercreator.                                 *)

\* The manager assigns a home agent it knows to this connection.
Assign(h) ==
    /\ up /\ conn = "connected"
    /\ h \notin assigned
    /\ assigned' = assigned \cup {h}
    /\ inbox' = Append(inbox, h)
    /\ UNCHANGED <<options, up, restarts, seeding, conn, pollVars, bufVars>>

\* The manager reads a name that does not fit its buffer, and disconnects.
Rejected == Free /\ Elems(wire) \cap Overlong # {} /\ Stop

\* bufread reads an assignment: home_agent_assigned is connected to
\* create_poller, which dispatches create_poller_.
handle_body_read ==
    /\ Free /\ conn = "connected" /\ inbox # << >>
    /\ inbox' = Tail(inbox)
    /\ creating' = Append(creating, Head(inbox))
    /\ UNCHANGED <<options, up, restarts, seeding, conn, assigned, filter, passing, pollers, bufVars>>

\* A new poller, whoever monitors the home agent already.
create_poller_ ==
    /\ Free /\ creating # << >>
    /\ pollers' = [pollers EXCEPT ![Head(creating)] = @ + 1]
    /\ creating' = Tail(creating)
    /\ UNCHANGED <<options, up, restarts, seeding, manVars, filter, passing, bufVars>>

-----------------------------------------------------------------------------
(* duplicate_filter: home_agent_discovered, from handle_poll.              *)

\* Variant: the filter looks h up and does not insert it.
discovered_no_insert(h) ==
    /\ Free
    /\ \E p \in HomeAgent : pollers[p] > 0
    /\ h \notin filter
    /\ passing' = passing \cup {h}
    /\ UNCHANGED <<options, up, restarts, seeding, manVars, filter, creating, pollers, bufVars>>

\* A monitored home agent lists h as a neighbour: insert it under the mutex.
discovered(h) ==
    /\ Free
    /\ \E p \in HomeAgent : pollers[p] > 0
    /\ h \notin filter
    /\ filter' = filter \cup {h}
    /\ passing' = passing \cup {h}
    /\ UNCHANGED <<options, up, restarts, seeding, manVars, creating, pollers, bufVars>>

\* Outside the mutex call f_.
pass_on(h) ==
    /\ up /\ h \in passing
    /\ passing' = passing \ {h}
    /\ PassOn(h)
    /\ UNCHANGED <<options, up, restarts, seeding, manVars, filter, pollers,
                   writer, connected, send_queue, send_in_progress, writes, wire>>

-----------------------------------------------------------------------------
WriterStep(w) == send_next_bufitem(w) \/ send_bufitem_check(w) \/ send_bufitem(w)

Next ==
    \/ Restart \/ AnnounceSeed
    \/ handle_resolve \/ handle_connect \/ fail
    \/ RunStrand
    \/ \E w \in Writer : WriterStep(w)
    \/ \E i \in DOMAIN writes, ok \in BOOLEAN : WriteCompletes(i, ok)
    \/ \E h \in HomeAgent : Assign(h) \/ discovered(h) \/ pass_on(h)
    \/ Rejected
    \/ handle_body_read
    \/ create_poller_

\* The io_service runs its handlers, the network completes what was started,
\* the daemon restarts the process.
Fairness ==
    /\ WF_vars(Restart) /\ WF_vars(AnnounceSeed)
    /\ WF_vars(handle_resolve) /\ WF_vars(handle_connect)
    /\ WF_vars(RunStrand)
    /\ \A w \in Writer : WF_vars(WriterStep(w))
    /\ WF_vars(\E ok \in BOOLEAN : WriteCompletes(1, ok))
    /\ WF_vars(handle_body_read) /\ WF_vars(create_poller_)
    /\ \A h \in HomeAgent : WF_vars(pass_on(h))

Spec == Init /\ [][Next]_vars
FairSpec == Spec /\ Fairness

-----------------------------------------------------------------------------
(* Properties.                                                             *)

\* Where an announcement can be between the filter and the manager.
InBufwrite == {h \in HomeAgent :
    \/ <<"send", h>> \in Elems(strand)
    \/ \E w \in Writer : writer[w].item = h
    \/ h \in Elems(send_queue)}
Announced == InBufwrite \cup Elems(writes) \cup Elems(wire)
               \cup {h \in HomeAgent : <<"failed", h>> \in Elems(strand)}

\* bufwrite has one async_write outstanding at most: the octets of two messages
\* never mix on the connection to the manager (bufreadwrite.cpp: send_bufitem).
Serialized == Len(writes) <= 1

\* With one thread, the default, that is so although connected() bypasses the
\* strand.
OneWrite == threads = 1 => Serialized

\* What passed the duplicate filter is on its way: every home agent this
\* process knows is about to be passed on, announced, or being monitored.
NoneForgotten ==
    up => \A h \in filter \ passing :
            IF managed THEN h \in Announced
            ELSE h \in Elems(creating) \/ pollers[h] > 0

\* A process monitors a home agent with one poller at most, although neither
\* pollercreator nor bufread looks for one: without a manager the duplicate
\* filter, with one the manager sees to it.
MonitoredOnce == \A h \in HomeAgent : pollers[h] <= 1

\* The three together: on its way from the duplicate filter to the manager or
\* to a poller, a home agent is not lost, not mixed up with another and not
\* monitored twice.
AnnouncedOnce == TypeOK /\ OneWrite /\ NoneForgotten /\ MonitoredOnce

\* No announcement waits for ever in bufwrite: what was queued before the
\* connection was there is flushed by connected(), the rest by
\* handle_bufitem_sent.  (With more threads an item can be queued just after
\* connected() found the queue empty.)
Flushed ==
    \A h \in HomeAgent :
        (threads = 1 /\ managed /\ up /\ h \in InBufwrite) ~> (h \notin InBufwrite \/ ~up)

\* Whatever fails, once failures end the manager hears of every seed, or the
\* process monitors it itself.
SeedsCovered ==
    threads = 1 => \A i \in DOMAIN Seed :
        <>[](IF managed THEN Seed[i] \in Elems(wire) ELSE pollers[Seed[i]] > 0)
=============================================================================
