------------------------------ MODULE DnsSpeaker ------------------------------
(***************************************************************************)
(* The reply path of the gateway's DNS speakers (dnsgw/dnsspeaker.cpp).    *)
(* udp_dnsspeaker and dns_connection have the same code: a strand, one     *)
(* send buffer, the flag send_in_progress_ and a circular buffer of        *)
(* replies that wait (50 entries for UDP, 5 for a TCP connection).         *)
(*                                                                         *)
(* complete_query runs on any thread and posts send_reply_ to the strand;  *)
(* the strand runs one handler at a time, so send_reply_ and               *)
(* handle_send_reply are atomic with respect to each other.  What a send   *)
(* puts on the wire is what the send buffer holds when it completes.       *)
(***************************************************************************)
EXTENDS Integers, Sequences

CONSTANTS
    Query,          \* dnsquery objects
    Unwritable,     \* those whose reply compose_dns_response cannot write
    BufSize,        \* capacity of reply_buf_
    MaxCompletions, \* how often complete_query is called for one query
    NoQuery         \* nothing

ASSUME DnsSpeakerAssumption ==
    /\ Unwritable \subseteq Query
    /\ BufSize \in Nat \ {0}
    /\ MaxCompletions \in Nat
    /\ NoQuery \notin Query

VARIABLES
    completions, \* how often each query has been completed
    strand,     \* send_reply_ calls the strand has still to run
    send_in_progress,
    send_buf,   \* the query whose reply send_header_ and send_buf_ hold
    sending,    \* the query an asynchronous send is outstanding for
    reply_buf,
    sent,       \* sends that completed: for whom, and what was on the wire
    dropped,    \* replies dropped because reply_buf_ was full
    io_running  \* the io_service has not been stopped

svars == <<completions, strand, send_in_progress, send_buf, sending, reply_buf,
          sent, dropped, io_running>>

Send == [to : Query, body : Query]

TypeOK ==
    /\ completions \in [Query -> 0 .. MaxCompletions]
    /\ strand \in Seq(Query)
    /\ send_in_progress \in BOOLEAN
    /\ send_buf \in Query \cup {NoQuery}
    /\ sending \in Query \cup {NoQuery}
    /\ reply_buf \in Seq(Query) /\ Len(reply_buf) <= BufSize
    /\ sent \in Seq(Send)
    /\ dropped \in Nat
    /\ io_running \in BOOLEAN

SpeakerInit ==
    /\ completions = [q \in Query |-> 0]
    /\ strand = << >>
    /\ send_in_progress = FALSE
    /\ send_buf = NoQuery
    /\ sending = NoQuery
    /\ reply_buf = << >>
    /\ sent = << >>
    /\ dropped = 0
    /\ io_running = TRUE

-----------------------------------------------------------------------------
\* complete_query on any thread: dnsquery::send_reply finds the speaker and
\* dispatches send_reply_ through its strand.
send_reply(q) ==
    /\ io_running
    /\ completions[q] < MaxCompletions
    /\ completions' = [completions EXCEPT ![q] = @ + 1]
    /\ strand' = Append(strand, q)
    /\ UNCHANGED <<send_in_progress, send_buf, sending, reply_buf, sent, dropped, io_running>>

\* Compose the reply of q and start sending it.  The flag is set first.
StartSend(q) ==
    /\ send_in_progress' = TRUE
    /\ send_buf' = q
    /\ sending' = q

\* compose_dns_response throws parse_error after the flag has been set.  The
\* exception ends in a handler that swallows it when send_reply_ runs inside
\* handle_datagram_received or hasendproxy::process_query; on any other thread
\* it leaves io_service::run and checked_io_service_run stops the service.
ComposeThrows(q, caught) ==
    /\ send_in_progress' = TRUE
    /\ send_buf' = q
    /\ io_running' = caught
    /\ UNCHANGED sending

\* Variant: a full buffer overwrites its oldest entry, as circular_buffer does
\* when nobody asks full().
send_reply__overwrite ==
    /\ io_running
    /\ strand # << >>
    /\ LET q == Head(strand) IN
       IF send_in_progress
       THEN /\ reply_buf' = IF Len(reply_buf) = BufSize
                            THEN Append(Tail(reply_buf), q) ELSE Append(reply_buf, q)
            /\ UNCHANGED <<send_in_progress, send_buf, sending, io_running>>
       ELSE StartSend(q) /\ UNCHANGED <<reply_buf, io_running>>
    /\ strand' = Tail(strand)
    /\ UNCHANGED <<completions, sent, dropped>>

\* Variant: the reply is composed first, before the flag is looked at.
send_reply__compose_first ==
    /\ io_running
    /\ strand # << >>
    /\ LET q == Head(strand) IN
       \/ /\ send_in_progress
          /\ reply_buf' = IF Len(reply_buf) < BufSize THEN Append(reply_buf, q) ELSE reply_buf
          /\ send_buf' = q
          /\ UNCHANGED <<send_in_progress, sending>>
       \/ ~send_in_progress /\ StartSend(q) /\ UNCHANGED reply_buf
    /\ strand' = Tail(strand)
    /\ UNCHANGED <<completions, sent, dropped, io_running>>

send_reply_ ==
    /\ io_running
    /\ strand # << >>
    /\ LET q == Head(strand) IN
       \/ /\ send_in_progress
          /\ Len(reply_buf) = BufSize
          /\ dropped' = dropped + 1
          /\ UNCHANGED <<send_in_progress, send_buf, sending, reply_buf, io_running>>
       \/ /\ send_in_progress
          /\ Len(reply_buf) < BufSize
          /\ reply_buf' = Append(reply_buf, q)
          /\ UNCHANGED <<send_in_progress, send_buf, sending, dropped, io_running>>
       \/ /\ ~send_in_progress
          /\ q \notin Unwritable
          /\ StartSend(q)
          /\ UNCHANGED <<reply_buf, dropped, io_running>>
       \/ /\ ~send_in_progress
          /\ q \in Unwritable
          /\ \E caught \in BOOLEAN : ComposeThrows(q, caught)
          /\ UNCHANGED <<reply_buf, dropped>>
    /\ strand' = Tail(strand)
    /\ UNCHANGED <<completions, sent>>

\* Variant: the next reply is left in the buffer.
handle_send_reply_no_next ==
    /\ io_running
    /\ sending # NoQuery
    /\ sent' = Append(sent, [to |-> sending, body |-> send_buf])
    /\ send_in_progress' = FALSE
    /\ sending' = NoQuery
    /\ UNCHANGED <<completions, strand, send_buf, reply_buf, dropped, io_running>>

\* Variant: the flag is cleared only when a reply waits.
handle_send_reply_no_reset ==
    /\ io_running
    /\ sending # NoQuery
    /\ sent' = Append(sent, [to |-> sending, body |-> send_buf])
    /\ IF reply_buf = << >>
       THEN sending' = NoQuery /\ UNCHANGED <<send_in_progress, send_buf, reply_buf>>
       ELSE StartSend(Head(reply_buf)) /\ reply_buf' = Tail(reply_buf)
    /\ UNCHANGED <<completions, strand, dropped, io_running>>

\* The send completed, with or without an error: clear the flag, then take the
\* next waiting reply and run send_reply_ on it.  Here nothing catches an
\* exception of compose_dns_response.
handle_send_reply ==
    /\ io_running
    /\ sending # NoQuery
    /\ sent' = Append(sent, [to |-> sending, body |-> send_buf])
    /\ \/ /\ reply_buf = << >>
          /\ send_in_progress' = FALSE
          /\ sending' = NoQuery
          /\ UNCHANGED <<send_buf, reply_buf, io_running>>
       \/ /\ reply_buf # << >>
          /\ reply_buf' = Tail(reply_buf)
          /\ LET q == Head(reply_buf) IN
             IF q \notin Unwritable
             THEN StartSend(q) /\ UNCHANGED io_running
             ELSE /\ send_in_progress' = TRUE
                  /\ send_buf' = q
                  /\ sending' = NoQuery
                  /\ io_running' = FALSE
    /\ UNCHANGED <<completions, strand, dropped>>

SpeakerNext == (\E q \in Query : send_reply(q)) \/ send_reply_ \/ handle_send_reply

\* The io_service runs the handlers of the strand and sends complete.
SpeakerFairness == WF_svars(send_reply_) /\ WF_svars(handle_send_reply)

SpeakerSpec == SpeakerInit /\ [][SpeakerNext]_svars
FairSpeakerSpec == SpeakerSpec /\ SpeakerFairness

-----------------------------------------------------------------------------
(* Properties.                                                             *)

\* The one send buffer is never refilled under an outstanding asynchronous
\* send: every reply that completed carried the bytes of its own query.
NoMixedReplies == \A k \in DOMAIN sent : sent[k].body = sent[k].to

\* send_in_progress_ tells the truth: while the speaker runs, it is set
\* exactly when a send is outstanding whose handler will look at the buffer.
FlagMeansSending == io_running => (send_in_progress <=> sending # NoQuery)

\* The speaker implements the bounded FIFO: replies leave in the order in
\* which the strand accepted them, none is duplicated, and one is dropped only
\* when BufSize replies wait behind the one being sent.
ToChannel ==
    INSTANCE ReplyChannel WITH
        Capacity <- BufSize + 1,
        queue <- (IF sending = NoQuery THEN << >> ELSE <<sending>>) \o reply_buf,
        sent <- [k \in DOMAIN sent |-> sent[k].to],
        dropped <- dropped

ImplementsChannel == ToChannel!Spec

\* No reply is left waiting for ever.
BufferDrains == (reply_buf # << >>) ~> (reply_buf = << >>)
=============================================================================
