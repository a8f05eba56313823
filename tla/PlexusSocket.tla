---------------------------- MODULE PlexusSocket ----------------------------
(***************************************************************************)
(* How a message gets from one Plexus peer to another: the forwarding      *)
(* threads of the senders (forwarding_thread, ABSProtocol::send_message,   *)
(* ClientSocket) and the listener of the receiver (listener_thread,        *)
(* ServerSocket).  Every attempt opens a connection of its own, writes the *)
(* message and closes; the listener reads a connection once and closes it. *)
(*                                                                         *)
(* A message is a number of units that arrive one after the other.         *)
(* A connection is <<sender, attempt>>; its place is a descriptor of the   *)
(* listener, or one of the values below.                                   *)
(***************************************************************************)
EXTENDS Integers, Sequences, FiniteSets

CONSTANTS
    Senders,
    Size,            \* the units of each sender's message
    NRetry,          \* attempts, ABSPeer::getNRetry()
    DataLength,      \* MAX_INCOMING_DATA_LENGTH in units
    ListenFd, Fds,   \* descriptors; other threads may have taken any of them
    MaxInterrupts    \* how often select is interrupted

ASSUME SocketAssumption ==
    /\ NRetry \in Nat \ {0} /\ DataLength \in Nat \ {0}
    /\ Size \in [Senders -> Nat \ {0}]
    /\ Fds \subseteq Nat \ {0} /\ ListenFd \in Nat \ (Fds \cup {0})

Connections == Senders \X (0 .. NRetry - 1)
Nowhere == 0
InBacklog == -1
Closed == -2

VARIABLES
    sender,          \* per sender, [pc, retry]
    place, flight, inbox, fin,   \* per connection
    backlog,         \* connections that wait for accept
    active_connections, connection_pool, read_connection_fds, fd_max,
    listener,        \* "select", "scan" or "exited"
    heard,           \* per connection, the units that were read; -1 before
    interrupts       \* interrupted selects, counted as dropped PUTs

linkVars == <<place, flight, inbox, fin, backlog>>
poolVars == <<active_connections, connection_pool, read_connection_fds, fd_max>>
socketVars == <<sender, linkVars, poolVars, listener, heard, interrupts>>

SocketTypeOK ==
    /\ sender \in [Senders -> [pc : {"connect", "send", "forwarded", "dropped"}, retry : 0 .. NRetry]]
    /\ place \in [Connections -> Fds \cup {Nowhere, InBacklog, Closed}]
    /\ flight \in [Connections -> Nat] /\ inbox \in [Connections -> Nat]
    /\ fin \in [Connections -> BOOLEAN]
    /\ active_connections \subseteq Fds
    /\ connection_pool \subseteq Fds \cup {ListenFd}
    /\ read_connection_fds \subseteq connection_pool \cup Fds
    /\ fd_max \in Fds \cup {ListenFd}
    /\ listener \in {"select", "scan", "exited"}
    /\ heard \in [Connections -> Nat \cup {-1}]

SocketInit ==
    /\ sender = [s \in Senders |-> [pc |-> "connect", retry |-> 0]]
    /\ place = [c \in Connections |-> Nowhere]
    /\ flight = [c \in Connections |-> 0] /\ inbox = [c \in Connections |-> 0]
    /\ fin = [c \in Connections |-> FALSE]
    /\ backlog = <<>>
    /\ active_connections = {} /\ connection_pool = {ListenFd}
    /\ read_connection_fds = {} /\ fd_max = ListenFd
    /\ listener = "select"
    /\ heard = [c \in Connections |-> -1]
    /\ interrupts = 0

-----------------------------------------------------------------------------
(* The sender.                                                             *)

Conn(s) == <<s, sender[s].retry>>

\* forwarding_thread tries again until NRetry attempts have failed.
Retry(s) ==
    sender' = [sender EXCEPT ![s] =
        [pc |-> IF @.retry + 1 < NRetry THEN "connect" ELSE "dropped", retry |-> @.retry + 1]]

\* A connection that fails is noticed only when send fails on it: connect_to_server
\* returns errno, which is positive.
connect_to_server(s) ==
    /\ sender[s].pc = "connect"
    /\ \/ /\ listener # "exited"
          /\ place' = [place EXCEPT ![Conn(s)] = InBacklog]
          /\ backlog' = Append(backlog, Conn(s))
          /\ sender' = [sender EXCEPT ![s].pc = "send"]
       \/ /\ Retry(s)
          /\ UNCHANGED <<place, backlog>>
    /\ UNCHANGED <<flight, inbox, fin, poolVars, listener, heard, interrupts>>

\* Variant: the time is up after the message was written.
send_data_late(s) ==
    /\ sender[s].pc = "send"
    /\ fin' = [fin EXCEPT ![Conn(s)] = TRUE]
    /\ flight' = [flight EXCEPT ![Conn(s)] = Size[s]]
    /\ \/ sender' = [sender EXCEPT ![s].pc = "forwarded"]
       \/ Retry(s)
    /\ UNCHANGED <<place, inbox, backlog, poolVars, listener, heard, interrupts>>

\* The message is written, or the socket does not become writable in time (or
\* the other side is gone) and nothing is; then the socket is closed.
send_data(s) ==
    /\ sender[s].pc = "send"
    /\ fin' = [fin EXCEPT ![Conn(s)] = TRUE]
    /\ \/ /\ flight' = [flight EXCEPT ![Conn(s)] = Size[s]]
          /\ sender' = [sender EXCEPT ![s].pc = "forwarded"]
       \/ Retry(s) /\ UNCHANGED flight
    /\ UNCHANGED <<place, inbox, backlog, poolVars, listener, heard, interrupts>>

\* The network delivers in pieces.
Arrive(c) ==
    /\ place[c] # Closed
    /\ \E n \in 1 .. flight[c] :
           /\ flight' = [flight EXCEPT ![c] = @ - n]
           /\ inbox' = [inbox EXCEPT ![c] = @ + n]
    /\ UNCHANGED <<sender, place, fin, backlog, poolVars, listener, heard, interrupts>>

-----------------------------------------------------------------------------
(* The listener.                                                           *)

\* A connection with data, or whose end has been reached.
Readable ==
    {fd \in connection_pool :
        IF fd = ListenFd THEN backlog # <<>>
        ELSE \E c \in Connections : place[c] = fd /\ (inbox[c] > 0 \/ (fin[c] /\ flight[c] = 0))}

Select ==
    /\ listener = "select" /\ Readable # {}
    /\ read_connection_fds' = Readable
    /\ listener' = "scan"
    /\ UNCHANGED <<sender, linkVars, active_connections, connection_pool, fd_max, heard, interrupts>>

getMaxConnectionFd(fds) == CHOOSE m \in fds \cup {ListenFd} : \A fd \in fds \cup {ListenFd} : fd <= m

\* select has failed: descriptors that are no longer open are taken out.
SelectFails ==
    /\ listener = "select" /\ interrupts < MaxInterrupts
    /\ interrupts' = interrupts + 1
    /\ LET bad == {fd \in connection_pool \ {ListenFd} : \A c \in Connections : place[c] # fd}
       IN  /\ connection_pool' = connection_pool \ bad
           /\ active_connections' = active_connections \ bad
           /\ fd_max' = IF bad = {} THEN fd_max ELSE getMaxConnectionFd(active_connections \ bad)
    /\ UNCHANGED <<sender, linkVars, read_connection_fds, listener, heard>>

\* The loop from 0 to fd_max, which changes on the way.
Ready == {fd \in read_connection_fds : fd <= fd_max}
Turn(fd) == listener = "scan" /\ fd \in Ready /\ \A other \in Ready : fd <= other

accept_connection ==
    /\ Turn(ListenFd)
    /\ \E fd \in Fds \ {place[c] : c \in Connections} :
           /\ place' = [place EXCEPT ![Head(backlog)] = fd]
           /\ active_connections' = active_connections \cup {fd}
           /\ connection_pool' = connection_pool \cup {fd}
           /\ fd_max' = IF fd > fd_max THEN fd ELSE fd_max
    /\ backlog' = Tail(backlog)
    /\ read_connection_fds' = read_connection_fds \ {ListenFd}
    /\ UNCHANGED <<sender, flight, inbox, fin, listener, heard, interrupts>>

\* Without a free descriptor the process exits.
AcceptFails ==
    /\ Turn(ListenFd)
    /\ Fds \subseteq {place[c] : c \in Connections}
    /\ listener' = "exited"
    /\ UNCHANGED <<sender, linkVars, poolVars, heard, interrupts>>

\* One recv: whatever has arrived by then, up to the length of the buffer.
receive_data(c) == IF inbox[c] < DataLength THEN inbox[c] ELSE DataLength

\* The connection is read once and closed.
Receive(c) ==
    /\ place[c] \in Fds /\ Turn(place[c])
    /\ heard' = [heard EXCEPT ![c] = receive_data(c)]
    /\ place' = [place EXCEPT ![c] = Closed]
    /\ active_connections' = active_connections \ {place[c]}
    /\ connection_pool' = connection_pool \ {place[c]}
    /\ read_connection_fds' = read_connection_fds \ {place[c]}
    /\ fd_max' = getMaxConnectionFd(active_connections \ {place[c]})
    /\ UNCHANGED <<sender, flight, inbox, fin, backlog, listener, interrupts>>

ScanDone ==
    /\ listener = "scan" /\ Ready = {}
    /\ listener' = "select"
    /\ UNCHANGED <<sender, linkVars, poolVars, heard, interrupts>>

Listener ==
    \/ Select \/ accept_connection \/ AcceptFails \/ ScanDone
    \/ \E c \in Connections : Receive(c)
SocketWork ==
    \/ Listener
    \/ \E s \in Senders : connect_to_server(s) \/ send_data(s)
    \/ \E c \in Connections : Arrive(c)
SocketNext == SocketWork \/ SelectFails

-----------------------------------------------------------------------------
(* Properties.                                                             *)

\* The listener's three records of its connections agree with each other and
\* with what is open, and the loop that ends at fd_max leaves none out.
PoolRight ==
    /\ active_connections = {place[c] : c \in Connections} \cap Fds
    /\ connection_pool = active_connections \cup {ListenFd}
    /\ \A fd \in connection_pool : fd <= fd_max

\* A message is heard at most once however often it is tried, and a message
\* that its sender counts as dropped is not heard at all.
HeardAtMostOnce ==
    \A s \in Senders :
        LET times == {a \in 0 .. NRetry - 1 : heard[<<s, a>>] > 0}
        IN  Cardinality(times) <= 1 /\ (sender[s].pc = "dropped" => times = {})

\* A message that was sent is heard, at least its beginning, unless the listener
\* has run out of descriptors.
AllHeard ==
    \A s \in Senders :
        sender[s].pc = "forwarded" ~>
            (listener = "exited" \/ \E a \in 0 .. NRetry - 1 : heard[<<s, a>>] > 0)
=============================================================================
