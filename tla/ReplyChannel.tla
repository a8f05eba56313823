----------------------------- MODULE ReplyChannel -----------------------------
(***************************************************************************)
(* What the reply path of a DNS speaker promises: a bounded FIFO.  A reply *)
(* is accepted unless the channel is full, accepted replies leave one at a *)
(* time and in order, and a reply is dropped only when the channel is      *)
(* full.  udp_dnsspeaker and dns_connection implement it (see DnsSpeaker). *)
(***************************************************************************)
EXTENDS Integers, Sequences

CONSTANTS
    Query,      \* the queries that replies belong to
    Capacity    \* replies the channel holds, the one being sent included

VARIABLES
    queue,      \* accepted replies that have not left yet
    sent,       \* the replies that left, in order
    dropped     \* number of replies turned away

vars == <<queue, sent, dropped>>

Init == queue = << >> /\ sent = << >> /\ dropped = 0

Accept(q) ==
    /\ Len(queue) < Capacity
    /\ queue' = Append(queue, q)
    /\ UNCHANGED <<sent, dropped>>

Drop ==
    /\ Len(queue) = Capacity
    /\ dropped' = dropped + 1
    /\ UNCHANGED <<queue, sent>>

Leave ==
    /\ queue # << >>
    /\ sent' = Append(sent, Head(queue))
    /\ queue' = Tail(queue)
    /\ UNCHANGED dropped

Next == (\E q \in Query : Accept(q)) \/ Drop \/ Leave

Spec == Init /\ [][Next]_vars
=============================================================================
