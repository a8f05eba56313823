------------------------- MODULE CrawlerManagerProofs -------------------------
(***************************************************************************)
(* Theorems about CrawlerManager, for any number of pollers, home agents   *)
(* and announcements and with every fault of the model possible.           *)
(***************************************************************************)
EXTENDS CrawlerManager, SequenceTheorems, TLAPS

-----------------------------------------------------------------------------
(* The elements of a sequence.                                             *)

\* The empty sequence has no elements.
LEMMA ElemsEmpty == Elems(<< >>) = {}
BY DEF Elems

\* A sequence of one element.
LEMMA ElemsOne == ASSUME NEW x PROVE Elems(<<x>>) = {x}
BY DEF Elems

\* A sequence of two elements.
LEMMA ElemsTwo ==
    ASSUME NEW T, NEW x \in T, NEW y \in T
    PROVE  <<x, y>> \in Seq(T) /\ Elems(<<x, y>>) = {x, y}
<1>1. <<x, y>> \in Seq(T) /\ DOMAIN <<x, y>> = {1, 2} /\ <<x, y>>[1] = x /\ <<x, y>>[2] = y
    OBVIOUS
<1> QED BY <1>1 DEF Elems

\* Append is concatenation with a sequence of one element.
LEMMA AppendConcat ==
    ASSUME NEW T, NEW s \in Seq(T), NEW x \in T
    PROVE  Append(s, x) = s \o <<x>> /\ <<x>> \in Seq(T)
OBVIOUS

\* Append adds one element.
LEMMA ElemsAppend ==
    ASSUME NEW T, NEW s \in Seq(T), NEW x \in T
    PROVE  Elems(Append(s, x)) = Elems(s) \cup {x}
<1>1. \A i \in DOMAIN Append(s, x) : i \in DOMAIN s \/ i = Len(s) + 1
    OBVIOUS
<1>2. /\ \A i \in DOMAIN s : i \in DOMAIN Append(s, x) /\ Append(s, x)[i] = s[i]
      /\ Len(s) + 1 \in DOMAIN Append(s, x)
      /\ Append(s, x)[Len(s) + 1] = x
    OBVIOUS
<1> QED BY <1>1, <1>2 DEF Elems

\* Concatenation joins the elements.
LEMMA ElemsConcat ==
    ASSUME NEW T, NEW s \in Seq(T), NEW t \in Seq(T)
    PROVE  Elems(s \o t) = Elems(s) \cup Elems(t)
<1>1. \A i \in DOMAIN (s \o t) :
        \/ i \in DOMAIN s /\ (s \o t)[i] = s[i]
        \/ i - Len(s) \in DOMAIN t /\ (s \o t)[i] = t[i - Len(s)]
    OBVIOUS
<1>2. \A i \in DOMAIN s : i \in DOMAIN (s \o t) /\ (s \o t)[i] = s[i]
    OBVIOUS
<1>3. \A i \in DOMAIN t : i + Len(s) \in DOMAIN (s \o t) /\ (s \o t)[i + Len(s)] = t[i]
    OBVIOUS
<1>4. ASSUME NEW x \in Elems(s \o t) PROVE x \in Elems(s) \cup Elems(t)
    BY <1>1, <1>4 DEF Elems
<1>5. ASSUME NEW x \in Elems(s) PROVE x \in Elems(s \o t)
    BY <1>2, <1>5 DEF Elems
<1>6. ASSUME NEW x \in Elems(t) PROVE x \in Elems(s \o t)
    <2>1. PICK i \in DOMAIN t : x = t[i]
        BY <1>6 DEF Elems
    <2> QED BY <1>3, <2>1 DEF Elems
<1> QED BY <1>4, <1>5, <1>6

\* Head and Tail together have the elements of a sequence.
LEMMA ElemsHeadTail ==
    ASSUME NEW T, NEW s \in Seq(T), s # << >>
    PROVE  Elems(s) = {Head(s)} \cup Elems(Tail(s))
<1>1. \A i \in DOMAIN s : i = 1 \/ (i - 1 \in DOMAIN Tail(s) /\ Tail(s)[i - 1] = s[i])
    OBVIOUS
<1>2. \A i \in DOMAIN Tail(s) : i + 1 \in DOMAIN s /\ Tail(s)[i] = s[i + 1]
    OBVIOUS
<1>3. 1 \in DOMAIN s /\ Head(s) = s[1]
    OBVIOUS
<1> QED BY <1>1, <1>2, <1>3 DEF Elems

\* The elements of a sequence over T are in T.
LEMMA ElemsType ==
    ASSUME NEW T, NEW s \in Seq(T)
    PROVE  Elems(s) \subseteq T
BY DEF Elems

-----------------------------------------------------------------------------
(* The type invariant.                                                     *)

\* What TypeOK says of the variables of homeagentdb and of the connections.
LEMMA CallFacts ==
    ASSUME TypeOK, strand # << >>
    PROVE  /\ Tail(strand) \in Seq(Call)
           /\ Head(strand) \in Call
           /\ Head(strand)[1] = "add" => Head(strand)[2] \in HomeAgent
           /\ Head(strand)[1] # "add" => Head(strand)[2] \in Poller
<1>1. Tail(strand) \in Seq(Call) /\ Head(strand) \in Call
    BY DEF TypeOK
<1> QED BY <1>1 DEF Call

\* assign_home_agent keeps the types.
LEMMA AssignType ==
    ASSUME TypeOK, NEW h \in HomeAgent, NEW rest \in Seq(HomeAgent), NEW calls \in Seq(Call),
           NEW inLoop \in BOOLEAN, assign_home_agent(h, rest, calls, inLoop)
    PROVE  TypeOK'
<1>1. CASE h \in hadb
    BY <1>1 DEF TypeOK, assign_home_agent, connVars, envVars
<1>2. ASSUME NEW p \in LeastLoaded, AssignTo(p, h, rest, calls) PROVE TypeOK'
    <2>1. p \in Poller
        BY DEF LeastLoaded, TypeOK
    <2>2. halist' \in [Poller -> Seq(HomeAgent)] /\ writeq' \in [Poller -> Seq(HomeAgent)]
        BY <1>2, <2>1 DEF AssignTo, TypeOK
    <2> QED BY <1>2, <2>2 DEF AssignTo, TypeOK, envVars
<1>3. ASSUME NEW p \in LeastLoaded, AssignLate(p, h, rest, calls) PROVE TypeOK'
    <2>1. p \in Poller
        BY DEF LeastLoaded, TypeOK
    <2>2. Append(halist[p], h) \in Seq(HomeAgent)
        BY <2>1 DEF TypeOK
    <2>3. halist' \in [Poller -> Seq(HomeAgent)] /\ pollerq' \in Seq(HomeAgent)
        BY <1>3, <2>1, <2>2 DEF AssignLate, Requeue, TypeOK
    <2>4. strand' \in Seq(Call)
        <3>1. <<"add", h>> \in Call
            BY DEF Call
        <3> QED BY <1>3, <3>1 DEF AssignLate
    <2>5. socket' \in [Poller -> SocketState]
        BY <1>3 DEF AssignLate, TypeOK, SocketState
    <2> QED BY <1>3, <2>3, <2>4, <2>5 DEF AssignLate, Requeue, TypeOK, envVars
<1>4. ASSUME NEW f \in {"exception", "corruption"}, Fault(f) PROVE TypeOK'
    BY <1>4 DEF Fault, TypeOK, dbVars, connVars, envVars
<1> QED BY <1>1, <1>2, <1>3, <1>4 DEF assign_home_agent

\* The write handler inside disconnect still holds the item it failed to send.
WriteHeld == \A p \in Poller : closing[p]["write"] # "no" => writeq[p] # << >>

\* TypeOK is inductive together with WriteHeld.
LEMMA TypeInvariant == Spec => [](TypeOK /\ WriteHeld)
<1> USE CrawlerManagerAssumption
<1>1. Init => TypeOK
    <2> SUFFICES ASSUME Init PROVE TypeOK
        OBVIOUS
    <2>1. strand \in Seq(Call)
        <3>1. \A i \in DOMAIN Initial : <<"add", Initial[i]>> \in Call
            BY DEF Call
        <3>2. DOMAIN Initial = 1 .. Len(Initial) /\ Len(Initial) \in Nat
            OBVIOUS
        <3>3. strand \in [1 .. Len(Initial) -> Call]
            BY <3>1, <3>2 DEF Init
        <3> QED BY <3>2, <3>3, SeqDef
    <2>2. Elems(Initial) \subseteq HomeAgent
        BY ElemsType
    <2>3. closing \in [Poller -> [Handler -> Step]]
        BY DEF Init, Step
    <2>4. announces \in 0 .. MaxAnnounce
        BY DEF Init
    <2>5. /\ halist \in [Poller -> Seq(HomeAgent)]
          /\ writeq \in [Poller -> Seq(HomeAgent)]
          /\ pollerq \in Seq(HomeAgent)
        BY DEF Init
    <2>6. /\ phase \in [Poller -> {"new", "starting", "started"}]
          /\ connected \in [Poller -> BOOLEAN]
          /\ reading \in [Poller -> BOOLEAN]
          /\ socket \in [Poller -> SocketState]
          /\ got \in [Poller -> SUBSET HomeAgent]
        BY DEF Init, SocketState
    <2>7. /\ draining \in BOOLEAN
          /\ hadb \subseteq HomeAgent
          /\ pollers \subseteq Poller
          /\ discovered \subseteq HomeAgent
          /\ fault \in {"none", "exception", "assertion", "corruption"}
        BY <2>2 DEF Init
    <2> QED BY <2>1, <2>3, <2>4, <2>5, <2>6, <2>7 DEF TypeOK
<1>2. TypeOK /\ WriteHeld /\ [Next]_vars => TypeOK'
    <2> SUFFICES ASSUME TypeOK, WriteHeld, [Next]_vars PROVE TypeOK'
        OBVIOUS
    <2>0. ASSUME NEW f \in {"exception", "assertion", "corruption"}, Fault(f) PROVE TypeOK'
        BY <2>0 DEF Fault, TypeOK, dbVars, connVars, envVars
    <2>1. CASE process_queue
        <3>1. CASE pollerq = << >> \/ pollers = {}
            BY <2>1, <3>1 DEF process_queue, TypeOK, connVars, envVars
        <3>2. CASE pollerq # << >> /\ pollers # {}
            <4>1. Head(pollerq) \in HomeAgent /\ Tail(pollerq) \in Seq(HomeAgent)
                BY <3>2 DEF TypeOK
            <4>2. assign_home_agent(Head(pollerq), Tail(pollerq), strand, TRUE)
                BY <2>1, <3>2 DEF process_queue
            <4>3. strand \in Seq(Call)
                BY DEF TypeOK
            <4> QED BY <4>1, <4>2, <4>3, AssignType
        <3> QED BY <3>1, <3>2
    <2>2. CASE poller_connected_
        BY <2>2, CallFacts DEF poller_connected_, TypeOK, connVars, envVars
    <2>3. CASE poller_disconnected_
        <3> DEFINE p == Head(strand)[2]
        <3>1. p \in Poller /\ Tail(strand) \in Seq(Call)
            BY <2>3, CallFacts DEF poller_disconnected_
        <3>2. CASE p \notin pollers
            BY <2>0, <2>3, <3>2 DEF poller_disconnected_
        <3>3. CASE p \in pollers
            <4>1. /\ Requeue(p, halist[p], pollerq)
                  /\ strand' = Tail(strand)
                  /\ UNCHANGED <<connVars, envVars, fault>>
                BY <2>3, <3>3 DEF poller_disconnected_
            <4> HIDE DEF p
            <4>2. halist[p] \in Seq(HomeAgent)
                BY <3>1 DEF TypeOK
            <4>3. halist' \in [Poller -> Seq(HomeAgent)] /\ pollerq' \in Seq(HomeAgent)
                BY <3>1, <4>1, <4>2 DEF Requeue, TypeOK
            <4> QED BY <3>1, <4>1, <4>3 DEF Requeue, TypeOK, connVars, envVars
        <3> QED BY <3>2, <3>3
    <2>4. CASE add_home_agent_
        <3> DEFINE h == Head(strand)[2]
        <3>1. h \in HomeAgent /\ Tail(strand) \in Seq(Call)
            BY <2>4, CallFacts DEF add_home_agent_
        <3>2. CASE pollers = {}
            <4>1. /\ pollerq' = Append(pollerq, h)
                  /\ strand' = Tail(strand)
                  /\ UNCHANGED <<draining, hadb, pollers, halist, connVars, envVars, fault>>
                BY <2>4, <3>2 DEF add_home_agent_
            <4> HIDE DEF h
            <4>2. pollerq' \in Seq(HomeAgent)
                BY <3>1, <4>1 DEF TypeOK
            <4> QED BY <3>1, <4>1, <4>2 DEF TypeOK, connVars, envVars
        <3>3. CASE pollers # {}
            <4>1. assign_home_agent(h, pollerq, Tail(strand), FALSE) /\ pollerq \in Seq(HomeAgent)
                BY <2>4, <3>3 DEF add_home_agent_, TypeOK
            <4> QED BY <3>1, <4>1, AssignType
        <3> QED BY <3>2, <3>3
    <2>5. ASSUME NEW p \in Poller, handle_accept(p) PROVE TypeOK'
        BY <2>0, <2>5 DEF handle_accept, TypeOK, dbVars, envVars, SocketState
    <2>6. ASSUME NEW p \in Poller, SignalConnected(p) PROVE TypeOK'
        BY <2>6 DEF SignalConnected, TypeOK, envVars, Call
    <2>7. ASSUME NEW p \in Poller, NEW h \in HomeAgent, handle_body_read(p, h) PROVE TypeOK'
        <3>1. announces' \in 0 .. MaxAnnounce
            BY <2>7 DEF handle_body_read, TypeOK
        <3>2. strand' \in Seq(Call)
            BY <2>7 DEF handle_body_read, TypeOK, Call
        <3> QED BY <2>7, <3>1, <3>2 DEF handle_body_read, TypeOK, connVars
    <2>8. ASSUME NEW p \in Poller, handle_header_read(p) PROVE TypeOK'
        <3>1. closing' \in [Poller -> [Handler -> Step]]
            BY <2>8 DEF handle_header_read, StoreDisconnected, TypeOK, Step, Handler
        <3> QED BY <2>8, <3>1 DEF handle_header_read, StoreDisconnected, TypeOK, dbVars, envVars
    <2>9. ASSUME NEW p \in Poller, handle_bufitem_sent(p) PROVE TypeOK'
        <3>1. writeq[p] \in Seq(HomeAgent) /\ writeq[p] # << >>
            BY <2>9 DEF handle_bufitem_sent, TypeOK
        <3>2. Head(writeq[p]) \in HomeAgent /\ Tail(writeq[p]) \in Seq(HomeAgent)
            BY <3>1
        <3> QED BY <2>9, <3>2 DEF handle_bufitem_sent, TypeOK, dbVars
    <2>10. ASSUME NEW p \in Poller, WriteFails(p) PROVE TypeOK'
        <3>1. closing' \in [Poller -> [Handler -> Step]]
            BY <2>10 DEF WriteFails, StoreDisconnected, TypeOK, Step, Handler
        <3> QED BY <2>10, <3>1 DEF WriteFails, StoreDisconnected, TypeOK, dbVars, envVars
    <2>11. ASSUME NEW p \in Poller, NEW w \in Handler, Shutdown(p, w) PROVE TypeOK'
        <3>1. CASE Fault("exception")
            BY <2>0, <3>1
        <3>2. CASE closing' = [closing EXCEPT ![p][w] = "shut"]
            <4>1. closing' \in [Poller -> [Handler -> Step]]
                BY <3>2 DEF TypeOK, Step
            <4> QED BY <2>0, <2>11, <4>1 DEF Shutdown, TypeOK, dbVars, envVars
        <3> QED BY <2>11, <3>1, <3>2 DEF Shutdown
    <2>12. ASSUME NEW p \in Poller, NEW w \in Handler, CloseAndSignal(p, w) PROVE TypeOK'
        <3>1. closing' \in [Poller -> [Handler -> Step]] /\ socket' \in [Poller -> SocketState]
            BY <2>12 DEF CloseAndSignal, TypeOK, Step, SocketState
        <3>2. CASE w = "read"
            <4>a. <<"disconnected", p>> \in Call /\ strand' = Append(strand, <<"disconnected", p>>)
                BY <2>12, <3>2 DEF CloseAndSignal, Call
            <4>1. strand' \in Seq(Call)
                BY <4>a DEF TypeOK
            <4> QED BY <2>12, <3>1, <3>2, <4>1 DEF CloseAndSignal, TypeOK, envVars
        <3>3. CASE w # "read"
            <4>1. w = "write" /\ writeq[p] \in Seq(HomeAgent) /\ writeq[p] # << >>
                BY <2>12, <3>3 DEF CloseAndSignal, TypeOK, Handler, WriteHeld
            <4>2. <<"disconnected", p>> \in Call /\ <<"add", Head(writeq[p])>> \in Call
                BY <4>1 DEF Call
            <4>3. strand' = strand \o <<<<"disconnected", p>>, <<"add", Head(writeq[p])>>>>
                BY <2>12, <3>3 DEF CloseAndSignal
            <4>4. <<<<"disconnected", p>>, <<"add", Head(writeq[p])>>>> \in Seq(Call)
                BY <4>2
            <4>5. strand' \in Seq(Call)
                BY <4>3, <4>4 DEF TypeOK
            <4>6. writeq' \in [Poller -> Seq(HomeAgent)]
                <5>1. writeq' = [writeq EXCEPT ![p] = << >>]
                    BY <2>12, <3>3 DEF CloseAndSignal
                <5>2. << >> \in Seq(HomeAgent)
                    OBVIOUS
                <5> QED BY <5>1, <5>2 DEF TypeOK
            <4>7. fault' \in {"none", "exception", "assertion", "corruption"}
                BY <2>12, <3>3 DEF CloseAndSignal, TypeOK
            <4> QED BY <2>12, <3>1, <4>5, <4>6, <4>7 DEF CloseAndSignal, TypeOK, envVars
        <3> QED BY <3>2, <3>3
    <2>13. ASSUME NEW p \in Poller, NEW how \in {"eof", "reset"}, PeerCloses(p, how) PROVE TypeOK'
        BY <2>13 DEF PeerCloses, TypeOK, dbVars, envVars, SocketState
    <2>14. CASE UNCHANGED vars
        BY <2>14 DEF vars, TypeOK, dbVars, connVars, envVars
    <2> QED
        BY <2>1, <2>2, <2>3, <2>4, <2>5, <2>6, <2>7, <2>8, <2>9, <2>10, <2>11, <2>12, <2>13, <2>14
        DEF Next, Strand, Connection
<1>3. Init => WriteHeld
    BY DEF Init, WriteHeld, Handler
<1>4. TypeOK /\ WriteHeld /\ [Next]_vars => WriteHeld'
    <2> SUFFICES ASSUME TypeOK, WriteHeld, [Next]_vars, NEW r \in Poller,
                        closing'[r]["write"] # "no"
                 PROVE  writeq'[r] # << >>
        BY DEF WriteHeld
    <2> USE DEF WriteHeld
    <2>1. CASE UNCHANGED <<closing, writeq>>
        BY <2>1
    <2>2. ASSUME NEW h, NEW rest, NEW calls, NEW inLoop, assign_home_agent(h, rest, calls, inLoop)
          PROVE  writeq'[r] # << >>
        <3>1. CASE UNCHANGED <<closing, writeq>>
            BY <3>1
        <3>2. ASSUME NEW p \in LeastLoaded, AssignTo(p, h, rest, calls)
              PROVE  writeq'[r] # << >>
            <4>1. closing' = closing /\ writeq[r] # << >> /\ writeq[r] \in Seq(HomeAgent)
                BY <3>2 DEF AssignTo, TypeOK
            <4>2. writeq'[r] = writeq[r] \/ writeq'[r] = Append(writeq[r], h)
                BY <3>2 DEF AssignTo, TypeOK
            <4> QED BY <4>1, <4>2
        <3> QED BY <2>2, <3>1, <3>2 DEF assign_home_agent, AssignLate, Fault, connVars
    <2>3. CASE Strand
        BY <2>1, <2>2, <2>3
        DEF Strand, process_queue, poller_connected_, poller_disconnected_, add_home_agent_, connVars, Fault
    <2>4. ASSUME NEW p \in Poller, Connection(p) PROVE writeq'[r] # << >>
        <3>1. CASE handle_header_read(p)
            BY <3>1 DEF handle_header_read, StoreDisconnected, TypeOK, Handler
        <3>2. CASE handle_bufitem_sent(p)
            BY <3>2 DEF handle_bufitem_sent, TypeOK
        <3>3. CASE WriteFails(p)
            BY <3>3 DEF WriteFails, StoreDisconnected, TypeOK, Handler
        <3>4. ASSUME NEW w \in Handler, Shutdown(p, w) PROVE writeq'[r] # << >>
            BY <3>4 DEF Shutdown, TypeOK, Handler, Fault, connVars
        <3>5. ASSUME NEW w \in Handler, CloseAndSignal(p, w) PROVE writeq'[r] # << >>
            BY <3>5 DEF CloseAndSignal, TypeOK, Handler
        <3> QED
            BY <2>1, <2>4, <3>1, <3>2, <3>3, <3>4, <3>5
            DEF Connection, handle_accept, SignalConnected, handle_body_read, PeerCloses, Fault, connVars
    <2> QED BY <2>1, <2>3, <2>4 DEF Next, vars, connVars
<1> QED BY <1>1, <1>2, <1>3, <1>4, PTL DEF Spec

-----------------------------------------------------------------------------
(* hadb_ and the lists of the pollers.                                     *)

\* Partition is kept when h, which no poller has, is put on the list of p.
LEMMA PartitionAssign ==
    ASSUME TypeOK, Partition, NEW p \in pollers, NEW h \in HomeAgent, h \notin hadb,
           hadb' = hadb \cup {h}, pollers' = pollers,
           halist' = [halist EXCEPT ![p] = Append(@, h)]
    PROVE  Partition'
<1>1. /\ p \in Poller /\ pollers \subseteq Poller
      /\ \A r \in Poller : halist[r] \in Seq(HomeAgent)
      /\ halist'[p] = Append(halist[p], h)
      /\ \A r \in Poller : r # p => halist'[r] = halist[r]
    BY DEF TypeOK
<1>2. \A r \in Poller : r \notin pollers' => halist'[r] = << >>
    BY <1>1 DEF Partition
<1>3. /\ Elems(halist'[p]) = Elems(halist[p]) \cup {h}
      /\ \A r \in pollers : r # p => Elems(halist'[r]) = Elems(halist[r])
    BY <1>1, ElemsAppend
<1>4. \A g \in HomeAgent : g \in hadb' <=> \E r \in pollers' : g \in Elems(halist'[r])
    BY <1>1, <1>3 DEF Partition
<1>5. \A r \in pollers : h \notin Elems(halist[r])
    BY DEF Partition
<1>6. ASSUME NEW q \in pollers, NEW r \in pollers,
             NEW i \in DOMAIN halist'[q], NEW j \in DOMAIN halist'[r],
             halist'[q][i] = halist'[r][j]
      PROVE  q = r /\ i = j
    <2>1. /\ \A k \in DOMAIN halist[p] : halist'[p][k] = halist[p][k]
          /\ \A k \in DOMAIN halist'[p] : k \in DOMAIN halist[p] \/ k = Len(halist[p]) + 1
          /\ halist'[p][Len(halist[p]) + 1] = h
        BY <1>1
    <2>2. \A t \in pollers : \A k \in DOMAIN halist'[t] :
            \/ k \in DOMAIN halist[t] /\ halist'[t][k] = halist[t][k]
            \/ t = p /\ k = Len(halist[p]) + 1 /\ halist'[t][k] = h
        BY <1>1, <2>1
    <2>3. \A t \in pollers : \A k \in DOMAIN halist[t] : halist[t][k] # h
        BY <1>5 DEF Elems
    <2>4. CASE i \in DOMAIN halist[q] /\ halist'[q][i] = halist[q][i]
        <3>1. j \in DOMAIN halist[r] /\ halist'[r][j] = halist[r][j]
            BY <1>6, <2>2, <2>3, <2>4
        <3> QED BY <1>6, <2>4, <3>1 DEF Partition
    <2>5. CASE q = p /\ i = Len(halist[p]) + 1 /\ halist'[q][i] = h
        BY <1>6, <2>2, <2>3, <2>5
    <2> QED BY <2>2, <2>4, <2>5
<1> QED BY <1>2, <1>4, <1>6 DEF Partition

\* Partition is kept when p and all home agents on its list are taken out.
LEMMA PartitionRequeue ==
    ASSUME TypeOK, Partition, NEW p \in pollers,
           hadb' = hadb \ Elems(halist[p]), pollers' = pollers \ {p},
           halist' = [halist EXCEPT ![p] = << >>]
    PROVE  Partition'
<1>1. /\ p \in Poller /\ pollers \subseteq Poller
      /\ halist'[p] = << >>
      /\ \A r \in Poller : r # p => halist'[r] = halist[r]
    BY DEF TypeOK
<1>2. \A r \in Poller : r \notin pollers' => halist'[r] = << >>
    BY <1>1 DEF Partition
<1>3. \A r \in pollers : r # p => Elems(halist[r]) \cap Elems(halist[p]) = {}
    BY DEF Partition, Elems
<1>4. ASSUME NEW g \in HomeAgent
      PROVE  g \in hadb' <=> \E r \in pollers' : g \in Elems(halist'[r])
    <2>1. g \in hadb <=> \E r \in pollers : g \in Elems(halist[r])
        BY DEF Partition
    <2>2. \A r \in pollers' : r # p /\ r \in pollers /\ Elems(halist'[r]) = Elems(halist[r])
        BY <1>1
    <2> QED BY <1>3, <2>1, <2>2
<1>5. ASSUME NEW q \in pollers', NEW r \in pollers',
             NEW i \in DOMAIN halist'[q], NEW j \in DOMAIN halist'[r],
             halist'[q][i] = halist'[r][j]
      PROVE  q = r /\ i = j
    <2>1. q \in pollers /\ r \in pollers /\ halist'[q] = halist[q] /\ halist'[r] = halist[r]
        BY <1>1
    <2> QED BY <1>5, <2>1 DEF Partition
<1> QED BY <1>2, <1>4, <1>5 DEF Partition

-----------------------------------------------------------------------------
(* The inductive invariant.                                                *)

\* As long as its socket is not closed, a poller has been told, or will be
\* told by its bufwrite, of nothing that is not on its list.
Told ==
    \A p \in Poller :
        socket[p] # "closed" => got[p] \cup Elems(writeq[p]) \subseteq Elems(halist[p])

\* A poller's disconnection reaches the strand after its socket was closed.
ClosedFirst ==
    \A p \in Poller : <<"disconnected", p>> \in Elems(strand) => socket[p] = "closed"

IInv == TypeOK /\ WriteHeld /\ Partition /\ NoneLost /\ Told /\ ClosedFirst

\* A fault changes nothing that the invariant speaks of.
LEMMA FaultInv ==
    ASSUME Partition, NoneLost, Told, ClosedFirst, NEW f, Fault(f)
    PROVE  Partition' /\ NoneLost' /\ Told' /\ ClosedFirst'
BY DEF Fault, Partition, NoneLost, Told, ClosedFirst, dbVars, connVars, envVars

\* assign_home_agent keeps the invariant, when rest and calls are what is left
\* of the queue and of the strand without h and its announcement.
LEMMA AssignInv ==
    ASSUME TypeOK, Partition, NoneLost, Told, ClosedFirst,
           NEW h \in HomeAgent, NEW rest \in Seq(HomeAgent), NEW calls \in Seq(Call),
           NEW inLoop \in BOOLEAN, assign_home_agent(h, rest, calls, inLoop),
           Elems(pollerq) \subseteq Elems(rest) \cup {h},
           Elems(strand) \subseteq Elems(calls) \cup {<<"add", h>>},
           Elems(calls) \subseteq Elems(strand)
    PROVE  Partition' /\ NoneLost' /\ Told' /\ ClosedFirst'
<1>0. /\ \A r \in Poller : halist[r] \in Seq(HomeAgent) /\ writeq[r] \in Seq(HomeAgent)
      /\ pollers \subseteq Poller /\ discovered \subseteq HomeAgent
    BY DEF TypeOK
<1>1. CASE h \in hadb
    <2>1. pollerq' = rest /\ strand' = calls
          /\ UNCHANGED <<hadb, pollers, halist, writeq, socket, got, discovered>>
        BY <1>1 DEF assign_home_agent, connVars, envVars
    <2> QED BY <1>1, <2>1 DEF Partition, NoneLost, Told, ClosedFirst
<1>2. ASSUME NEW p \in LeastLoaded, h \notin hadb, AssignTo(p, h, rest, calls)
      PROVE  Partition' /\ NoneLost' /\ Told' /\ ClosedFirst'
    <2>1. p \in pollers /\ p \in Poller
        BY <1>0 DEF LeastLoaded
    <2>2. /\ hadb' = hadb \cup {h} /\ pollers' = pollers
          /\ halist' = [halist EXCEPT ![p] = Append(@, h)]
          /\ writeq' = [writeq EXCEPT ![p] = Append(@, h)]
          /\ pollerq' = rest /\ strand' = calls
          /\ UNCHANGED <<socket, got, discovered>>
        BY <1>2 DEF AssignTo, envVars
    <2>3. Partition'
        BY <1>2, <2>1, <2>2, PartitionAssign
    <2>4. NoneLost'
        BY <2>2 DEF NoneLost
    <2>5. ASSUME NEW r \in Poller, socket'[r] # "closed"
          PROVE  got'[r] \cup Elems(writeq'[r]) \subseteq Elems(halist'[r])
        <3>1. got[r] \cup Elems(writeq[r]) \subseteq Elems(halist[r]) /\ got'[r] = got[r]
            BY <2>2, <2>5 DEF Told
        <3>2. CASE r = p
            <4>1. writeq'[r] = Append(writeq[r], h) /\ halist'[r] = Append(halist[r], h)
                BY <2>2, <3>2 DEF TypeOK
            <4>2. /\ Elems(writeq'[r]) = Elems(writeq[r]) \cup {h}
                  /\ Elems(halist'[r]) = Elems(halist[r]) \cup {h}
                BY <1>0, <4>1, ElemsAppend
            <4> QED BY <3>1, <4>2
        <3>3. CASE r # p
            <4>1. writeq'[r] = writeq[r] /\ halist'[r] = halist[r]
                BY <2>2, <3>3 DEF TypeOK
            <4> QED BY <3>1, <4>1
        <3> QED BY <3>2, <3>3
    <2>6. ClosedFirst'
        BY <2>2 DEF ClosedFirst
    <2> QED BY <2>3, <2>4, <2>5, <2>6 DEF Told
<1>3. ASSUME NEW p \in LeastLoaded, h \notin hadb, AssignLate(p, h, rest, calls)
      PROVE  Partition' /\ NoneLost' /\ Told' /\ ClosedFirst'
    <2> DEFINE own == Append(halist[p], h)
    <2>1. p \in pollers /\ p \in Poller
        BY <1>0 DEF LeastLoaded
    <2>2. own \in Seq(HomeAgent) /\ Elems(own) = Elems(halist[p]) \cup {h}
        BY <1>0, <2>1, ElemsAppend
    <2>3. /\ pollerq' = rest \o own
          /\ hadb' = hadb \ Elems(own)
          /\ pollers' = pollers \ {p}
          /\ halist' = [halist EXCEPT ![p] = << >>]
          /\ socket' = [socket EXCEPT ![p] = "closed"]
          /\ strand' = <<<<"add", h>>>> \o calls
          /\ UNCHANGED <<writeq, got, discovered>>
        BY <1>3 DEF AssignLate, Requeue, envVars
    <2> HIDE DEF own
    <2>4. Elems(pollerq') = Elems(rest) \cup Elems(own)
        BY <2>2, <2>3, ElemsConcat
    <2>5. Elems(strand') = {<<"add", h>>} \cup Elems(calls)
        <3>1. <<"add", h>> \in Call
            BY DEF Call
        <3> DEFINE again == <<<<"add", h>>>>
        <3>2. again \in Seq(Call) /\ Elems(again) = {<<"add", h>>} /\ strand' = again \o calls
            BY <2>3, <3>1, ElemsOne
        <3> HIDE DEF again
        <3> QED BY <3>2, ElemsConcat
    <2>6. hadb' = hadb \ Elems(halist[p])
        BY <1>3, <2>2, <2>3
    <2>7. Partition'
        BY <2>1, <2>3, <2>6, PartitionRequeue
    <2>8. NoneLost'
        BY <2>2, <2>3, <2>4, <2>5 DEF NoneLost
    <2>9. ASSUME NEW r \in Poller, socket'[r] # "closed"
          PROVE  got'[r] \cup Elems(writeq'[r]) \subseteq Elems(halist'[r])
        <3>1. r # p /\ socket[r] # "closed"
            BY <2>1, <2>3, <2>9 DEF TypeOK
        <3>2. halist'[r] = halist[r]
            BY <2>3, <3>1 DEF TypeOK
        <3> QED BY <2>3, <3>1, <3>2 DEF Told
    <2>10. ASSUME NEW r \in Poller, <<"disconnected", r>> \in Elems(strand')
           PROVE  socket'[r] = "closed"
        <3>1. <<"disconnected", r>> \in Elems(strand)
            <4>1. <<"disconnected", r>>[1] # <<"add", h>>[1]
                OBVIOUS
            <4>2. <<"disconnected", r>> # <<"add", h>>
                BY <4>1
            <4> QED BY <2>5, <2>10, <4>2
        <3>2. socket[r] = "closed"
            BY <3>1 DEF ClosedFirst
        <3> QED BY <2>3, <3>2 DEF TypeOK
    <2> QED BY <2>7, <2>8, <2>9, <2>10 DEF Told, ClosedFirst
<1> QED BY <1>1, <1>2, <1>3, FaultInv DEF assign_home_agent

\* CloseAndSignal appends poller_disconnected, and add_home_agent for the
\* assignment a write error lost.
LEMMA CloseSignalStrand ==
    ASSUME TypeOK, WriteHeld, NEW p \in Poller, NEW w \in Handler, CloseAndSignal(p, w)
    PROVE  /\ Elems(strand) \subseteq Elems(strand')
           /\ \A c \in Elems(strand') :
                c \in Elems(strand) \/ c = <<"disconnected", p>> \/ c[1] = "add"
<1>0. strand \in Seq(Call) /\ writeq[p] \in Seq(HomeAgent)
    BY DEF TypeOK
<1>1. \E t \in Seq(Call) :
        /\ strand' = strand \o t
        /\ \A c \in Elems(t) : c = <<"disconnected", p>> \/ c[1] = "add"
    <2> DEFINE gone == <<"disconnected", p>>
               again == <<"add", Head(writeq[p])>>
    <2>1. gone \in Call
        BY DEF Call
    <2>2. CASE w = "read"
        <3>1. strand' = strand \o <<gone>> /\ <<gone>> \in Seq(Call)
            <4>1. strand' = Append(strand, gone)
                BY <2>2 DEF CloseAndSignal
            <4> HIDE DEF gone
            <4> QED BY <1>0, <2>1, <4>1, AppendConcat
        <3>2. Elems(<<gone>>) = {gone}
            BY ElemsOne
        <3> QED BY <3>1, <3>2
    <2>3. CASE w # "read"
        <3>1. writeq[p] # << >>
            BY <2>3 DEF CloseAndSignal, WriteHeld, Handler
        <3>2. again \in Call /\ again[1] = "add"
            BY <1>0, <3>1 DEF Call
        <3>3. strand' = strand \o <<gone, again>>
            BY <2>3 DEF CloseAndSignal
        <3> HIDE DEF gone, again
        <3>4. <<gone, again>> \in Seq(Call) /\ Elems(<<gone, again>>) = {gone, again}
            BY <2>1, <3>2, ElemsTwo
        <3> QED BY <3>2, <3>3, <3>4 DEF gone
    <2> QED BY <2>2, <2>3
<1>2. PICK t \in Seq(Call) :
        /\ strand' = strand \o t
        /\ \A c \in Elems(t) : c = <<"disconnected", p>> \/ c[1] = "add"
    BY <1>1
<1>3. Elems(strand') = Elems(strand) \cup Elems(t)
    BY <1>0, <1>2, ElemsConcat
<1> QED BY <1>2, <1>3

\* Nothing is known of a connection that has not been accepted.
NewInv ==
    \A p \in Poller : phase[p] = "new" =>
        /\ socket[p] = "none" /\ ~reading[p] /\ p \notin pollers
        /\ writeq[p] = << >>
        /\ closing[p]["read"] = "no" /\ closing[p]["write"] = "no"
        /\ <<"connected", p>> \notin Elems(strand)

\* NewInv is inductive: everything about a connection starts with handle_accept.
LEMMA NewInvariant == Spec => []NewInv
<1>1. Init => NewInv
    BY CrawlerManagerAssumption DEF Init, NewInv, Elems, Handler
<1>2. TypeOK /\ WriteHeld /\ NewInv /\ [Next]_vars => NewInv'
    <2> SUFFICES ASSUME TypeOK, WriteHeld, NewInv, [Next]_vars PROVE NewInv'
        OBVIOUS
    <2>0. strand \in Seq(Call)
        BY DEF TypeOK
    <2>1. ASSUME NEW h \in HomeAgent, NEW rest, NEW calls \in Seq(Call), NEW inLoop,
                 assign_home_agent(h, rest, calls, inLoop), Elems(calls) \subseteq Elems(strand)
          PROVE  NewInv'
        <3>1. CASE h \in hadb
            BY <2>1, <3>1 DEF assign_home_agent, connVars, NewInv
        <3>2. ASSUME NEW p \in LeastLoaded, AssignTo(p, h, rest, calls) PROVE NewInv'
            <4>1. p \in pollers
                BY DEF LeastLoaded
            <4>2. /\ strand' = calls /\ writeq' = [writeq EXCEPT ![p] = Append(@, h)]
                  /\ UNCHANGED <<pollers, phase, reading, closing, socket>>
                BY <3>2 DEF AssignTo
            <4>3. \A r \in Poller : r \notin pollers => writeq'[r] = writeq[r]
                BY <4>1, <4>2 DEF TypeOK
            <4> QED BY <2>1, <4>2, <4>3 DEF NewInv
        <3>3. ASSUME NEW p \in LeastLoaded, AssignLate(p, h, rest, calls) PROVE NewInv'
            <4>1. p \in pollers
                BY DEF LeastLoaded
            <4>2. /\ strand' = <<<<"add", h>>>> \o calls
                  /\ socket' = [socket EXCEPT ![p] = "closed"]
                  /\ pollers' = pollers \ {p}
                  /\ UNCHANGED <<phase, reading, closing, writeq>>
                BY <3>3 DEF AssignLate, Requeue
            <4>3. \A r \in Poller : r \notin pollers => socket'[r] = socket[r]
                BY <4>1, <4>2 DEF TypeOK
            <4>4. Elems(strand') = {<<"add", h>>} \cup Elems(calls)
                <5> DEFINE again == <<<<"add", h>>>>
                <5>1. <<"add", h>> \in Call
                    BY DEF Call
                <5>2. again \in Seq(Call) /\ Elems(again) = {<<"add", h>>} /\ strand' = again \o calls
                    BY <4>2, <5>1, ElemsOne
                <5> HIDE DEF again
                <5> QED BY <5>2, ElemsConcat
            <4>5. \A r \in Poller : <<"connected", r>> # <<"add", h>>
                OBVIOUS
            <4>6. \A r \in Poller : <<"connected", r>> \in Elems(strand') => <<"connected", r>> \in Elems(strand)
                BY <2>1, <4>4, <4>5
            <4>7. \A r \in Poller : phase'[r] = "new" => r \notin pollers
                BY <4>2 DEF NewInv
            <4> QED BY <4>2, <4>3, <4>6, <4>7 DEF NewInv
        <3> QED BY <2>1, <3>1, <3>2, <3>3 DEF assign_home_agent, Fault, dbVars, connVars, NewInv
    <2>2. strand # << >> => Elems(strand) = {Head(strand)} \cup Elems(Tail(strand))
                            /\ Tail(strand) \in Seq(Call)
        BY <2>0, ElemsHeadTail
    <2>3. CASE process_queue
        <3>1. CASE pollerq = << >> \/ pollers = {}
            BY <2>3, <3>1 DEF process_queue, connVars, NewInv
        <3>2. CASE pollerq # << >> /\ pollers # {}
            <4>1. Head(pollerq) \in HomeAgent
                BY <3>2 DEF TypeOK
            <4> QED BY <2>0, <2>1, <2>3, <3>2, <4>1 DEF process_queue
        <3> QED BY <3>1, <3>2
    <2>4. CASE poller_connected_
        <3> DEFINE p == Head(strand)[2]
        <3>1. /\ strand # << >> /\ strand' = Tail(strand) /\ pollers' = pollers \cup {p}
              /\ Head(strand)[1] = "connected"
              /\ UNCHANGED <<phase, reading, closing, socket, writeq>>
            BY <2>4 DEF poller_connected_, connVars
        <3>2. Head(strand) = <<"connected", p>>
            BY <2>0, <3>1 DEF Call
        <3> HIDE DEF p
        <3>3. <<"connected", p>> \in Elems(strand)
            BY <2>2, <3>1, <3>2
        <3> QED BY <2>2, <3>1, <3>3 DEF NewInv
    <2>5. CASE poller_disconnected_
        BY <2>2, <2>5 DEF poller_disconnected_, Requeue, Fault, dbVars, connVars, NewInv
    <2>6. CASE add_home_agent_
        <3>1. strand # << >> /\ Head(strand)[2] \in HomeAgent
            BY <2>6, CallFacts DEF add_home_agent_
        <3>2. CASE pollers = {}
            BY <2>2, <2>6, <3>1, <3>2 DEF add_home_agent_, connVars, NewInv
        <3>3. CASE pollers # {}
            <4>1. assign_home_agent(Head(strand)[2], pollerq, Tail(strand), FALSE)
                BY <2>6, <3>3 DEF add_home_agent_
            <4> QED BY <2>1, <2>2, <3>1, <4>1
        <3> QED BY <3>2, <3>3
    <2>7. ASSUME NEW p \in Poller, phase'[p] # "new",
                 \A r \in Poller : r # p =>
                    /\ phase'[r] = phase[r] /\ socket'[r] = socket[r] /\ reading'[r] = reading[r]
                    /\ writeq'[r] = writeq[r] /\ closing'[r] = closing[r],
                 pollers' = pollers,
                 \A r \in Poller : r # p /\ <<"connected", r>> \in Elems(strand')
                    => <<"connected", r>> \in Elems(strand)
          PROVE  NewInv'
        BY <2>7 DEF NewInv
    <2>8. ASSUME NEW p \in Poller, Connection(p) PROVE NewInv'
        <3>0. CASE Fault("exception")
            BY <3>0 DEF Fault, dbVars, connVars, NewInv
        <3>1. CASE handle_accept(p)
            <4>1. CASE phase' = [phase EXCEPT ![p] = "starting"]
                BY <2>7, <3>1, <4>1 DEF handle_accept, Fault, dbVars, TypeOK, connVars
            <4> QED BY <3>0, <3>1, <4>1 DEF handle_accept
        <3>2. CASE SignalConnected(p)
            <4>1. <<"connected", p>> \in Call
                BY DEF Call
            <4>2. strand' = Append(strand, <<"connected", p>>)
                BY <3>2 DEF SignalConnected
            <4>3. Elems(strand') = Elems(strand) \cup {<<"connected", p>>}
                BY <2>0, <4>1, <4>2, ElemsAppend
            <4>4. \A r \in Poller : r # p => <<"connected", r>> # <<"connected", p>>
                OBVIOUS
            <4>5. \A r \in Poller : r # p /\ <<"connected", r>> \in Elems(strand')
                    => <<"connected", r>> \in Elems(strand)
                BY <4>3, <4>4
            <4>6. /\ phase'[p] # "new" /\ pollers' = pollers
                  /\ \A r \in Poller : r # p => phase'[r] = phase[r]
                  /\ UNCHANGED <<socket, reading, writeq, closing>>
                BY <3>2 DEF SignalConnected, TypeOK
            <4> QED BY <2>7, <4>5, <4>6
        <3>3. ASSUME NEW h \in HomeAgent, handle_body_read(p, h) PROVE NewInv'
            <4>1. <<"add", h>> \in Call
                BY DEF Call
            <4>2. strand' = Append(strand, <<"add", h>>) /\ UNCHANGED <<connVars, pollers>>
                BY <3>3 DEF handle_body_read
            <4>3. Elems(strand') = Elems(strand) \cup {<<"add", h>>}
                BY <2>0, <4>1, <4>2, ElemsAppend
            <4>4. \A r \in Poller : <<"connected", r>> # <<"add", h>>
                OBVIOUS
            <4> QED BY <4>2, <4>3, <4>4 DEF NewInv, connVars
        <3>4. CASE handle_header_read(p)
            <4>1. phase[p] # "new"
                BY <3>4 DEF handle_header_read, NewInv
            <4> QED BY <2>7, <3>4, <4>1 DEF handle_header_read, StoreDisconnected, dbVars, TypeOK
        <3>5. CASE handle_bufitem_sent(p)
            <4>1. phase[p] # "new"
                BY <3>5 DEF handle_bufitem_sent, NewInv
            <4> QED BY <2>7, <3>5, <4>1 DEF handle_bufitem_sent, dbVars, TypeOK
        <3>6. CASE WriteFails(p)
            <4>1. phase[p] # "new"
                BY <3>6 DEF WriteFails, NewInv
            <4> QED BY <2>7, <3>6, <4>1 DEF WriteFails, StoreDisconnected, dbVars, TypeOK
        <3>7. ASSUME NEW w \in Handler, Shutdown(p, w) PROVE NewInv'
            <4>1. phase[p] # "new"
                BY <3>7 DEF Shutdown, Handler, NewInv
            <4>2. CASE closing' = [closing EXCEPT ![p][w] = "shut"]
                           /\ UNCHANGED <<dbVars, phase, reading, writeq, socket>>
                BY <2>7, <4>1, <4>2 DEF dbVars, TypeOK
            <4> QED BY <3>0, <3>7, <4>2 DEF Shutdown
        <3>8. ASSUME NEW w \in Handler, CloseAndSignal(p, w) PROVE NewInv'
            <4>1. phase[p] # "new"
                BY <3>8 DEF CloseAndSignal, Handler, NewInv
            <4>2. \A r \in Poller : <<"connected", r>> # <<"disconnected", p>>
                                   /\ <<"connected", r>>[1] # "add"
                OBVIOUS
            <4>3. \A r \in Poller : <<"connected", r>> \in Elems(strand')
                    => <<"connected", r>> \in Elems(strand)
                BY <3>8, <4>2, CloseSignalStrand
            <4>4. /\ UNCHANGED <<phase, pollers, reading>>
                  /\ \A r \in Poller : r # p =>
                        /\ socket'[r] = socket[r] /\ writeq'[r] = writeq[r]
                        /\ closing'[r] = closing[r]
                BY <3>8 DEF CloseAndSignal, TypeOK
            <4> QED BY <2>7, <4>1, <4>3, <4>4
        <3>9. ASSUME NEW how \in {"eof", "reset"}, PeerCloses(p, how) PROVE NewInv'
            <4>1. phase[p] # "new"
                BY <3>9 DEF PeerCloses, NewInv
            <4> QED BY <2>7, <3>9, <4>1 DEF PeerCloses, dbVars, TypeOK
        <3> QED BY <2>8, <3>1, <3>2, <3>3, <3>4, <3>5, <3>6, <3>7, <3>8, <3>9 DEF Connection
    <2>9. CASE UNCHANGED vars
        BY <2>9 DEF vars, dbVars, connVars, NewInv
    <2> QED BY <2>3, <2>4, <2>5, <2>6, <2>8, <2>9 DEF Next, Strand
<1> QED BY <1>1, <1>2, TypeInvariant, PTL DEF Spec

\* The invariant is inductive.
LEMMA Invariance == Spec => []IInv
<1>1. Init => Partition /\ NoneLost /\ Told /\ ClosedFirst
    <2> SUFFICES ASSUME Init PROVE Partition /\ NoneLost /\ Told /\ ClosedFirst
        OBVIOUS
    <2>1. Partition
        BY ElemsEmpty DEF Init, Partition
    <2>2. NoneLost
        BY CrawlerManagerAssumption DEF Init, NoneLost, Elems
    <2>3. Told
        BY ElemsEmpty DEF Init, Told
    <2>4. ClosedFirst
        BY CrawlerManagerAssumption DEF Init, ClosedFirst, Elems
    <2> QED BY <2>1, <2>2, <2>3, <2>4
<1>2. IInv /\ NewInv /\ [Next]_vars => (Partition /\ NoneLost /\ Told /\ ClosedFirst)'
    <2> SUFFICES ASSUME IInv, NewInv, [Next]_vars
                 PROVE  Partition' /\ NoneLost' /\ Told' /\ ClosedFirst'
        OBVIOUS
    <2> USE DEF IInv
    <2> DEFINE Goal == Partition' /\ NoneLost' /\ Told' /\ ClosedFirst'
    <2>0. /\ strand \in Seq(Call) /\ pollerq \in Seq(HomeAgent)
          /\ \A r \in Poller : halist[r] \in Seq(HomeAgent) /\ writeq[r] \in Seq(HomeAgent)
          /\ pollers \subseteq Poller
        BY DEF TypeOK
    <2>1. CASE process_queue
        <3>1. CASE pollerq = << >> \/ pollers = {}
            <4>1. UNCHANGED <<strand, pollerq, hadb, pollers, halist, writeq, socket, got, discovered>>
                BY <2>1, <3>1 DEF process_queue, connVars, envVars
            <4> QED BY <4>1 DEF Partition, NoneLost, Told, ClosedFirst
        <3>2. CASE pollerq # << >> /\ pollers # {}
            <4>1. Head(pollerq) \in HomeAgent /\ Tail(pollerq) \in Seq(HomeAgent)
                BY <2>0, <3>2
            <4>2. assign_home_agent(Head(pollerq), Tail(pollerq), strand, TRUE)
                BY <2>1, <3>2 DEF process_queue
            <4>3. Elems(pollerq) = {Head(pollerq)} \cup Elems(Tail(pollerq))
                BY <2>0, <3>2, ElemsHeadTail
            <4> QED BY <2>0, <4>1, <4>2, <4>3, AssignInv
        <3> QED BY <3>1, <3>2
    <2>2. CASE poller_connected_
        <3> DEFINE p == Head(strand)[2]
        <3>1. /\ strand # << >> /\ Head(strand)[1] = "connected"
              /\ strand' = Tail(strand) /\ pollers' = pollers \cup {p}
              /\ UNCHANGED <<pollerq, hadb, halist, writeq, socket, got, discovered>>
            BY <2>2 DEF poller_connected_, connVars, envVars
        <3>2. Elems(strand) = {Head(strand)} \cup Elems(strand') /\ p \in Poller
            <4>1. Elems(strand) = {Head(strand)} \cup Elems(Tail(strand))
                BY <2>0, <3>1, ElemsHeadTail
            <4>2. p \in Poller
                BY <3>1, CallFacts
            <4> QED BY <3>1, <4>1, <4>2
        <3> HIDE DEF p
        <3>3. Partition'
            <4>1. p \notin pollers => halist[p] = << >> /\ Elems(halist[p]) = {}
                BY <3>2, ElemsEmpty DEF Partition
            <4>2. \A g \in HomeAgent : g \in hadb' <=> \E r \in pollers' : g \in Elems(halist'[r])
                BY <3>1, <4>1 DEF Partition
            <4>3. \A q \in pollers' : \A i \in DOMAIN halist[q] : q \in pollers
                BY <3>1, <4>1
            <4>4. \A q, r \in pollers' : \A i \in DOMAIN halist'[q], j \in DOMAIN halist'[r] :
                    halist'[q][i] = halist'[r][j] => q = r /\ i = j
                BY <3>1, <4>3 DEF Partition
            <4> QED BY <3>1, <4>2, <4>4 DEF Partition
        <3>4. NoneLost'
            <4>1. \A g \in HomeAgent : <<"add", g>> # Head(strand)
                BY <3>1
            <4>2. discovered \subseteq HomeAgent
                BY DEF TypeOK
            <4> QED BY <3>1, <3>2, <4>1, <4>2 DEF NoneLost
        <3>5. Told'
            BY <3>1 DEF Told
        <3>6. ClosedFirst'
            BY <3>1, <3>2 DEF ClosedFirst
        <3> QED BY <3>3, <3>4, <3>5, <3>6
    <2>3. CASE poller_disconnected_
        <3> DEFINE p == Head(strand)[2]
        <3>0. strand # << >> /\ Head(strand)[1] = "disconnected"
            BY <2>3 DEF poller_disconnected_
        <3>1. Elems(strand) = {Head(strand)} \cup Elems(Tail(strand)) /\ p \in Poller
            BY <2>0, <3>0, ElemsHeadTail, CallFacts
        <3>2. CASE p \notin pollers
            BY <2>3, <3>2, FaultInv DEF poller_disconnected_
        <3>3. CASE p \in pollers
            <4>1. /\ pollerq' = pollerq \o halist[p]
                  /\ hadb' = hadb \ Elems(halist[p])
                  /\ pollers' = pollers \ {p}
                  /\ halist' = [halist EXCEPT ![p] = << >>]
                  /\ strand' = Tail(strand)
                  /\ UNCHANGED <<writeq, socket, got, discovered>>
                BY <2>3, <3>3 DEF poller_disconnected_, Requeue, connVars, envVars
            <4>2. socket[p] = "closed"
                <5>1. Head(strand) = <<"disconnected", p>>
                    BY <3>0, <2>0 DEF Call
                <5>2. <<"disconnected", p>> \in Elems(strand)
                    BY <3>1, <5>1
                <5> QED BY <3>1, <5>2 DEF ClosedFirst
            <4>3. \A g \in HomeAgent : <<"add", g>> # Head(strand)
                BY <3>0
            <4> HIDE DEF p
            <4>4. Partition'
                BY <3>3, <4>1, PartitionRequeue
            <4>5. Elems(pollerq') = Elems(pollerq) \cup Elems(halist[p])
                BY <2>0, <3>1, <4>1, ElemsConcat
            <4>6. NoneLost'
                <5>1. discovered \subseteq HomeAgent
                    BY DEF TypeOK
                <5> QED BY <3>1, <4>1, <4>3, <4>5, <5>1 DEF NoneLost
            <4>7. Told'
                <5>1. \A r \in Poller : r # p => halist'[r] = halist[r]
                    BY <4>1 DEF TypeOK
                <5> QED BY <4>1, <4>2, <5>1 DEF Told
            <4>8. ClosedFirst'
                BY <3>1, <4>1 DEF ClosedFirst
            <4> QED BY <4>4, <4>6, <4>7, <4>8
        <3> QED BY <3>2, <3>3
    <2>4. CASE add_home_agent_
        <3> DEFINE h == Head(strand)[2]
        <3>0. strand # << >> /\ Head(strand)[1] = "add"
            BY <2>4 DEF add_home_agent_
        <3>1. h \in HomeAgent /\ Tail(strand) \in Seq(Call)
            BY <3>0, CallFacts
        <3>2. Elems(strand) = {<<"add", h>>} \cup Elems(Tail(strand))
            <4>1. Head(strand) = <<"add", h>>
                BY <2>0, <3>0 DEF Call
            <4> QED BY <2>0, <3>0, <4>1, ElemsHeadTail
        <3>3. CASE pollers = {}
            <4>1. /\ pollerq' = Append(pollerq, h) /\ strand' = Tail(strand)
                  /\ UNCHANGED <<hadb, pollers, halist, writeq, socket, got, discovered>>
                BY <2>4, <3>3 DEF add_home_agent_, connVars, envVars
            <4> HIDE DEF h
            <4>2. Elems(pollerq') = Elems(pollerq) \cup {h}
                BY <2>0, <3>1, <4>1, ElemsAppend
            <4>3. NoneLost'
                BY <3>2, <4>1, <4>2 DEF NoneLost
            <4>4. ClosedFirst'
                BY <3>2, <4>1 DEF ClosedFirst
            <4> QED BY <4>1, <4>3, <4>4 DEF Partition, Told
        <3>4. CASE pollers # {}
            <4>1. assign_home_agent(h, pollerq, Tail(strand), FALSE)
                BY <2>4, <3>4 DEF add_home_agent_
            <4> QED BY <2>0, <3>1, <3>2, <4>1, AssignInv
        <3> QED BY <3>3, <3>4
    <2>5. ASSUME NEW p \in Poller, Connection(p) PROVE Goal
        <3> DEFINE db == <<pollerq, hadb, pollers, halist>>
        <3>1. CASE handle_accept(p)
            <4>1. CASE Fault("exception")
                BY <4>1, FaultInv
            <4>2. CASE socket' = [socket EXCEPT ![p] = "open"]
                <5>1. /\ UNCHANGED <<db, strand, writeq, got, discovered>>
                      /\ phase[p] = "new"
                    BY <3>1, <4>2 DEF handle_accept, Fault, dbVars, connVars, envVars
                <5>2. socket[p] = "none"
                    BY <5>1 DEF NewInv
                <5>3. \A r \in Poller : socket'[r] = IF r = p THEN "open" ELSE socket[r]
                    BY <4>2 DEF TypeOK
                <5> QED BY <5>1, <5>2, <5>3 DEF Partition, NoneLost, Told, ClosedFirst
            <4> QED BY <3>1, <4>1, <4>2 DEF handle_accept
        <3>2. CASE SignalConnected(p)
            <4>1. /\ UNCHANGED <<db, writeq, got, discovered, socket>>
                  /\ strand' = Append(strand, <<"connected", p>>)
                BY <3>2 DEF SignalConnected, envVars
            <4>a. <<"connected", p>> \in Call
                BY DEF Call
            <4>2. Elems(strand') = Elems(strand) \cup {<<"connected", p>>}
                BY <2>0, <4>1, <4>a, ElemsAppend
            <4>3. \A r \in Poller : <<"disconnected", r>> # <<"connected", p>>
                OBVIOUS
            <4>4. ClosedFirst'
                BY <4>1, <4>2, <4>3 DEF ClosedFirst
            <4>5. NoneLost'
                BY <4>1, <4>2 DEF NoneLost
            <4> QED BY <4>1, <4>4, <4>5 DEF Partition, Told
        <3>3. ASSUME NEW h \in HomeAgent, handle_body_read(p, h) PROVE Goal
            <4>1. /\ UNCHANGED <<db, writeq, got, socket>>
                  /\ discovered' = discovered \cup {h}
                  /\ strand' = Append(strand, <<"add", h>>)
                BY <3>3 DEF handle_body_read, connVars
            <4>a. <<"add", h>> \in Call
                BY DEF Call
            <4>2. Elems(strand') = Elems(strand) \cup {<<"add", h>>}
                BY <2>0, <4>1, <4>a, ElemsAppend
            <4> QED BY <4>1, <4>2 DEF Partition, NoneLost, Told, ClosedFirst
        <3>4. CASE handle_header_read(p)
            BY <3>4 DEF handle_header_read, dbVars, envVars, Partition, NoneLost, Told, ClosedFirst
        <3>5. CASE handle_bufitem_sent(p)
            <4>1. /\ UNCHANGED <<db, strand, socket, discovered>>
                  /\ writeq[p] # << >>
                  /\ writeq' = [writeq EXCEPT ![p] = Tail(@)]
                  /\ got' = [got EXCEPT ![p] =
                               IF socket[p] = "open" THEN @ \cup {Head(writeq[p])} ELSE @]
                BY <3>5 DEF handle_bufitem_sent, dbVars
            <4>2. Elems(writeq[p]) = {Head(writeq[p])} \cup Elems(Tail(writeq[p]))
                BY <2>0, <4>1, ElemsHeadTail
            <4>3. /\ writeq'[p] = Tail(writeq[p])
                  /\ got'[p] \subseteq got[p] \cup {Head(writeq[p])}
                  /\ \A r \in Poller : r # p => writeq'[r] = writeq[r] /\ got'[r] = got[r]
                BY <4>1 DEF TypeOK
            <4>4. Told'
                BY <4>1, <4>2, <4>3 DEF Told
            <4> QED BY <4>1, <4>4 DEF Partition, NoneLost, ClosedFirst
        <3>6. CASE WriteFails(p)
            BY <3>6 DEF WriteFails, dbVars, envVars, Partition, NoneLost, Told, ClosedFirst
        <3>7. ASSUME NEW w \in Handler, Shutdown(p, w) PROVE Goal
            <4>1. CASE Fault("exception")
                BY <4>1, FaultInv
            <4>2. CASE UNCHANGED <<dbVars, writeq, socket, envVars>>
                BY <4>2 DEF dbVars, envVars, Partition, NoneLost, Told, ClosedFirst
            <4> QED BY <3>7, <4>1, <4>2 DEF Shutdown
        <3>8. ASSUME NEW w \in Handler, CloseAndSignal(p, w) PROVE Goal
            <4>1. /\ UNCHANGED <<db, got, discovered>>
                  /\ socket' = [socket EXCEPT ![p] = "closed"]
                BY <3>8 DEF CloseAndSignal, envVars
            <4>2. \A r \in Poller : /\ socket'[r] # "closed" => r # p /\ socket[r] # "closed"
                                    /\ r # p => writeq'[r] = writeq[r]
                BY <3>8, <4>1 DEF CloseAndSignal, TypeOK
            <4>3. Partition' /\ Told'
                BY <4>1, <4>2 DEF Partition, Told
            <4>4. \A c \in Elems(strand') : c \in Elems(strand) \/ c = <<"disconnected", p>> \/ c[1] = "add"
                BY <3>8, CloseSignalStrand
            <4>5. Elems(strand) \subseteq Elems(strand')
                BY <3>8, CloseSignalStrand
            <4>6. NoneLost'
                BY <4>1, <4>5 DEF NoneLost
            <4>7. ASSUME NEW r \in Poller, <<"disconnected", r>> \in Elems(strand')
                  PROVE  socket'[r] = "closed"
                <5>1. <<"disconnected", r>>[1] # "add"
                    OBVIOUS
                <5>2. <<"disconnected", r>> \in Elems(strand) \/ r = p
                    BY <4>4, <4>7, <5>1
                <5>3. socket[r] = "closed" \/ r = p
                    BY <5>2 DEF ClosedFirst
                <5> QED BY <4>1, <5>3 DEF TypeOK
            <4> QED BY <4>3, <4>6, <4>7 DEF ClosedFirst
        <3>9. ASSUME NEW how \in {"eof", "reset"}, PeerCloses(p, how) PROVE Goal
            <4>1. /\ UNCHANGED <<db, strand, writeq, got, discovered>>
                  /\ socket[p] \in {"open", "eof"}
                  /\ socket' = [socket EXCEPT ![p] = how]
                BY <3>9 DEF PeerCloses, dbVars, envVars
            <4>2. \A r \in Poller : (socket'[r] = "closed" <=> socket[r] = "closed")
                BY <4>1 DEF TypeOK
            <4> QED BY <4>1, <4>2 DEF Partition, NoneLost, Told, ClosedFirst
        <3> QED BY <2>5, <3>1, <3>2, <3>3, <3>4, <3>5, <3>6, <3>7, <3>8, <3>9 DEF Connection
    <2>6. CASE UNCHANGED vars
        BY <2>6 DEF vars, dbVars, connVars, envVars, Partition, NoneLost, Told, ClosedFirst
    <2> QED BY <2>1, <2>2, <2>3, <2>4, <2>5, <2>6 DEF Next, Strand
<1> QED BY <1>1, <1>2, TypeInvariant, NewInvariant, PTL DEF Spec, IInv

-----------------------------------------------------------------------------
(* The theorems.                                                           *)

\* Every variable of homeagentdb, of the connections and of their bufwrite
\* keeps its type: no handler is dispatched with an argument of the wrong kind
\* and no home agent that was never named reaches a list or a queue.
THEOREM TypeCorrect == Spec => []TypeOK
BY TypeInvariant, PTL

\* hadb_ and the lists of pollerdb_ stay a partition, whatever the order in
\* which assignments, disconnections, write errors and announcements arrive.
THEOREM AssignmentsPartitioned == Spec => []Partition
<1>1. IInv => Partition
    BY DEF IInv
<1> QED BY <1>1, Invariance, PTL

\* No home agent the manager was told of is ever lost.
THEOREM NoHomeAgentLost == Spec => []NoneLost
<1>1. IInv => NoneLost
    BY DEF IInv
<1> QED BY <1>1, Invariance, PTL

\* Two pollers whose connections are not closed never poll the same home agent.
THEOREM NeverPolledTwice == Spec => []PolledOnce
<1>1. IInv => PolledOnce
    <2> SUFFICES ASSUME IInv, NEW p \in Poller, NEW r \in Poller, p # r,
                        socket[p] # "closed", socket[r] # "closed",
                        NEW h \in got[p], h \in got[r]
                 PROVE  FALSE
        BY DEF PolledOnce
    <2>1. h \in Elems(halist[p]) /\ h \in Elems(halist[r])
        BY DEF IInv, Told
    <2>2. p \in pollers /\ r \in pollers
        BY <2>1, ElemsEmpty DEF IInv, Partition
    <2>3. PICK i \in DOMAIN halist[p], j \in DOMAIN halist[r] : halist[p][i] = h /\ halist[r][j] = h
        BY <2>1 DEF Elems
    <2> QED BY <2>2, <2>3 DEF IInv, Partition
<1> QED BY <1>1, Invariance, PTL

\* Home agents wait in pollerq_ only while no poller is connected: whatever adds
\* to the queue while pollers are known goes on to process_queue.
THEOREM NoIdleWaiting == Spec => []WaitOnlyForPollers
<1>1. Init => WaitOnlyForPollers
    BY DEF Init, WaitOnlyForPollers
<1>2. WaitOnlyForPollers /\ [Next]_vars => WaitOnlyForPollers'
    <2> SUFFICES ASSUME WaitOnlyForPollers, [Next]_vars PROVE WaitOnlyForPollers'
        OBVIOUS
    <2>1. ASSUME UNCHANGED <<pollerq, draining, pollers>> PROVE WaitOnlyForPollers'
        BY <2>1 DEF WaitOnlyForPollers
    <2>2. ASSUME NEW h, NEW rest, NEW calls, NEW inLoop,
                 assign_home_agent(h, rest, calls, inLoop),
                 draining \/ rest = pollerq
          PROVE  WaitOnlyForPollers'
        <3>1. CASE h \in hadb
            BY <2>2, <3>1 DEF assign_home_agent, WaitOnlyForPollers
        <3>2. ASSUME NEW p \in LeastLoaded, AssignTo(p, h, rest, calls) PROVE WaitOnlyForPollers'
            BY <2>2, <3>2 DEF AssignTo, WaitOnlyForPollers
        <3>3. ASSUME NEW p \in LeastLoaded, AssignLate(p, h, rest, calls) PROVE WaitOnlyForPollers'
            BY <3>3 DEF AssignLate, Requeue, WaitOnlyForPollers
        <3>4. ASSUME NEW f, Fault(f) PROVE WaitOnlyForPollers'
            BY <2>1, <3>4 DEF Fault, dbVars
        <3> QED BY <2>2, <3>1, <3>2, <3>3, <3>4 DEF assign_home_agent
    <2>3. CASE process_queue
        <3>1. CASE assign_home_agent(Head(pollerq), Tail(pollerq), strand, TRUE)
            BY <2>2, <2>3, <3>1 DEF process_queue
        <3> QED BY <2>3, <3>1 DEF process_queue, WaitOnlyForPollers
    <2>4. CASE poller_connected_
        BY <2>4 DEF poller_connected_, WaitOnlyForPollers
    <2>5. CASE poller_disconnected_
        BY <2>1, <2>5 DEF poller_disconnected_, Requeue, Fault, dbVars, WaitOnlyForPollers
    <2>6. CASE add_home_agent_
        <3>1. CASE assign_home_agent(Head(strand)[2], pollerq, Tail(strand), FALSE)
            BY <2>2, <3>1
        <3> QED BY <2>6, <3>1 DEF add_home_agent_, WaitOnlyForPollers
    <2>7. ASSUME NEW p \in Poller, Connection(p) PROVE WaitOnlyForPollers'
        <3>1. UNCHANGED <<pollerq, draining, pollers>>
            BY <2>7
            DEF Connection, handle_accept, SignalConnected, handle_body_read, handle_header_read,
                handle_bufitem_sent, WriteFails, Shutdown, CloseAndSignal, PeerCloses, Fault, dbVars
        <3> QED BY <2>1, <3>1
    <2>8. CASE UNCHANGED vars
        BY <2>1, <2>8 DEF vars, dbVars
    <2> QED BY <2>3, <2>4, <2>5, <2>6, <2>7, <2>8 DEF Next, Strand
<1> QED BY <1>1, <1>2, PTL DEF Spec
=============================================================================
