------------------------------ MODULE PollCycle ------------------------------
(***************************************************************************)
(* The polling cycle of one poller (crawler_poller/poller.cpp): wait, ask  *)
(* the home agent for the devices updated since timestamp_, post them to   *)
(* Solr, move timestamp_, wait again.  One AsyncHTTPRequester serves both  *)
(* requests (shared/asynchttprequester.cpp).                               *)
(*                                                                         *)
(* The home agent and Solr are external.  A home agent stamps updates with *)
(* whole seconds and answers a poll with the devices at or, if it is       *)
(* strict, after the timestamp it is given; both readings are checked.     *)
(***************************************************************************)
EXTENDS Integers, FiniteSets

CONSTANTS
    Device,
    MaxClock,   \* bound on the home agent's clock
    Bodies      \* how many devices may fit AsyncHTTPRequester::MAX_BUF_SIZE

ASSUME PollCycleAssumption ==
    /\ MaxClock \in Nat \ {0}
    /\ Bodies \subseteq Nat

VARIABLES
    clock,      \* the home agent's clock, in seconds
    ha,         \* when each device was last updated; 0 if never
    max_body,   \* how many devices fit a response
    strict,     \* the home agent compares with > rather than >=
    pending,    \* the poller's outstanding operations: "timer", "poll", "post"
    timestamp,  \* timestamp_
    answer,     \* the body of the home agent's answer: devices and their times
    content,    \* requests for content metadata in flight: "get", "post"
    answered,   \* the home agent has answered the outstanding poll
    solr,       \* the update of each device that Solr holds
    refused,    \* updates Solr answered without status 0
    edges,      \* every value timestamp_ has had
    running     \* the io_service runs

agentOptions == <<strict, max_body>>
cycleVars == <<clock, ha, agentOptions, pending, timestamp, answer, answered, content, solr, refused, edges, running>>

Time == 0 .. MaxClock + 1
NoAnswer == [d \in {} |-> 0]

CycleTypeOK ==
    /\ clock \in 1 .. MaxClock
    /\ ha \in [Device -> 0 .. MaxClock]
    /\ strict \in BOOLEAN
    /\ max_body \in Bodies
    /\ pending \subseteq {"timer", "poll", "post"}
    /\ timestamp \in Time
    /\ \E S \in SUBSET Device : answer \in [S -> Time]
    /\ answered \in BOOLEAN
    /\ content \subseteq {"get", "post"}
    /\ solr \in [Device -> 0 .. MaxClock]
    /\ refused \subseteq Device \X Time
    /\ edges \subseteq Time
    /\ running \in BOOLEAN

\* The constructor arms the timer with a random first interval.
CycleInit ==
    /\ clock = 1
    /\ ha = [d \in Device |-> 0]
    /\ strict \in BOOLEAN
    /\ max_body \in Bodies
    /\ pending = {"timer"}
    /\ timestamp = 1
    /\ answer = NoAnswer
    /\ answered = FALSE
    /\ content = {}
    /\ solr = [d \in Device |-> 0]
    /\ refused = {}
    /\ edges = {1}
    /\ running = TRUE

-----------------------------------------------------------------------------
(* The home agent.                                                         *)

Tick ==
    /\ clock < MaxClock
    /\ clock' = clock + 1
    /\ UNCHANGED <<ha, agentOptions, pending, timestamp, answer, answered, content, solr, refused, edges, running>>

UpdateDevice(d) ==
    /\ ha' = [ha EXCEPT ![d] = clock]
    /\ UNCHANGED <<clock, agentOptions, pending, timestamp, answer, answered, content, solr, refused, edges, running>>

\* The devices that the home agent lists for timestamp_.
Due == {d \in Device : ha[d] # 0 /\ ha[d] >= IF strict THEN timestamp + 1 ELSE timestamp}

\* The home agent's list of devices, as the URL of the poll asks for it.
HomeAgentAnswers ==
    /\ running /\ "poll" \in pending /\ ~answered
    /\ answer' = [d \in Due |-> ha[d]]
    /\ answered' = TRUE
    /\ UNCHANGED <<clock, ha, agentOptions, pending, timestamp, content, solr, refused, edges, running>>

-----------------------------------------------------------------------------
(* The poller.                                                             *)

\* start, at the end of every cycle: wait for the timer.
start(op) ==
    /\ pending' = (pending \ {op}) \cup {"timer"}
    /\ answer' = NoAnswer
    /\ answered' = FALSE

\* requester_ is given its next request; it has none when a callback runs.
fetch(from, to) == pending' = (pending \ {from}) \cup {to}

\* A list that does not fit the buffer is not stored and fails the request.
write_cb(list) == Cardinality(DOMAIN list) <= max_body

\* The timer expires: set it for the next round, fetch the list.
do_poll ==
    /\ running /\ "timer" \in pending
    /\ fetch("timer", "poll")
    /\ UNCHANGED <<clock, ha, agentOptions, timestamp, answer, answered, content, solr, refused, edges, running>>

\* The transfer fails, write_cb stores less than it was given because the list
\* is too long, or the list does not parse: report it and wait.
handle_poll_error ==
    /\ running /\ "poll" \in pending
    /\ start("poll")
    /\ UNCHANGED <<clock, ha, agentOptions, timestamp, content, solr, refused, edges, running>>

\* The list parses: post the devices, if there are any.  For each device with
\* new content a request with a requester of its own is started.
handle_poll ==
    /\ running /\ "poll" \in pending /\ answered
    /\ write_cb(answer)
    /\ \/ /\ DOMAIN answer = {}
          /\ start("poll")
       \/ /\ DOMAIN answer # {}
          /\ fetch("poll", "post")
          /\ answered' = FALSE
          /\ UNCHANGED answer
    /\ content' \in {content, content \cup {"get"}}
    /\ UNCHANGED <<clock, ha, agentOptions, timestamp, solr, refused, edges, running>>

newtimestamp == CHOOSE t \in {answer[d] : d \in DOMAIN answer} :
                    \A d \in DOMAIN answer : answer[d] <= t

\* Solr stores what was posted; overwrite="true".
Indexed == [d \in Device |-> IF d \in DOMAIN answer THEN answer[d] ELSE solr[d]]

\* Variant: timestamp_ moves when nobody knows whether Solr got the update.
handle_post_failed_moves ==
    /\ running /\ "post" \in pending
    /\ start("post")
    /\ solr' \in {solr, Indexed}
    /\ timestamp' = newtimestamp + 1
    /\ edges' = edges \cup {timestamp'}
    /\ UNCHANGED <<clock, ha, agentOptions, content, refused, running>>

\* The post fails; Solr may or may not have seen it.
handle_post_failed ==
    /\ running /\ "post" \in pending
    /\ start("post")
    /\ solr' \in {solr, Indexed}
    /\ UNCHANGED <<clock, ha, agentOptions, timestamp, content, refused, edges, running>>

\* Variant: timestamp_ is left alone.
handle_post_stays ==
    /\ running /\ "post" \in pending
    /\ start("post")
    /\ UNCHANGED <<clock, ha, agentOptions, timestamp, content, solr, refused, edges, running>>

\* Solr answered.  With status 0 it holds the update; without, the update is
\* given up.  timestamp_ moves either way.
handle_post ==
    /\ running /\ "post" \in pending
    /\ start("post")
    /\ \/ solr' = Indexed /\ UNCHANGED refused
       \/ refused' = refused \cup {<<d, answer[d]>> : d \in DOMAIN answer} /\ UNCHANGED solr
    /\ timestamp' = newtimestamp + 1
    /\ edges' = edges \cup {timestamp'}
    /\ UNCHANGED <<clock, ha, agentOptions, content, running>>

\* A request for content metadata ends: it failed, does not parse or lists
\* nothing public, or the metadata is posted.  There may be more of its kind,
\* and none is tried again.
handle_getcontentlist ==
    /\ running /\ "get" \in content
    /\ content' \in {content \ {"get"}, (content \ {"get"}) \cup {"post"}, content \cup {"post"}}
    /\ UNCHANGED <<clock, ha, agentOptions, pending, timestamp, answer, answered, solr, refused, edges, running>>

handle_postcontentlist ==
    /\ running /\ "post" \in content
    /\ content' = content \ {"post"}
    /\ UNCHANGED <<clock, ha, agentOptions, pending, timestamp, answer, answered, solr, refused, edges, running>>

\* libcurl's multi interface reports an error: mcode_or_throw throws and
\* checked_io_service_run stops the process, which starts again from nothing.
mcode_or_throw ==
    /\ running /\ pending \cup content # {"timer"}
    /\ running' = FALSE
    /\ UNCHANGED <<clock, ha, agentOptions, pending, timestamp, answer, answered, content, solr, refused, edges>>

StartAgain ==
    /\ ~running
    /\ running' = TRUE
    /\ pending' = {"timer"}
    /\ timestamp' = 1
    /\ answer' = NoAnswer
    /\ answered' = FALSE
    /\ content' = {}
    /\ UNCHANGED <<clock, ha, agentOptions, solr, refused, edges>>

CycleNext ==
    \/ Tick \/ (\E d \in Device : UpdateDevice(d)) \/ HomeAgentAnswers
    \/ do_poll \/ handle_poll_error \/ handle_poll
    \/ handle_post_failed \/ handle_post
    \/ handle_getcontentlist \/ handle_postcontentlist
    \/ mcode_or_throw \/ StartAgain

\* Timers expire and requests end.  Home agent and Solr are up often enough:
\* a poll and a post succeed from time to time.
CycleFairness ==
    /\ WF_cycleVars(do_poll) /\ WF_cycleVars(StartAgain)
    /\ WF_cycleVars(handle_poll_error \/ handle_poll)
    /\ WF_cycleVars(handle_post_failed \/ handle_post)
    /\ SF_cycleVars(HomeAgentAnswers) /\ SF_cycleVars(handle_poll) /\ SF_cycleVars(handle_post)

CycleSpec == CycleInit /\ [][CycleNext]_cycleVars
-----------------------------------------------------------------------------
(* Properties.                                                             *)

\* timer_, the poll and the post exclude each other: the cycle never ends and
\* never forks, so requester_ is not given a request while it has one.
OneOperation == running => Cardinality(pending) = 1

\* Solr holds the last update of d, or has been asked and said no.
Settled(d) == ha[d] \in {0, solr[d]} \/ <<d, ha[d]>> \in refused

\* d was updated in a second that was the newest of a batch (or, when the home
\* agent is strict, in the second after).
AtEdge(d) == ha[d] + 1 \in edges \/ (strict /\ ha[d] \in edges)

\* An update that is not in Solr is still to be asked for, unless it shares its
\* second with the newest update of a batch that was posted before: moving
\* timestamp_ to the newest time plus one skips nothing else (poller.cpp:
\* "This ensures that we don't loose any device updates if the update fails").
NothingSkipped ==
    \A d \in Device : ~Settled(d) /\ ~AtEdge(d) => ha[d] >= timestamp

\* The cycle goes on as one chain of operations and passes over no update.
UpdatesKept == CycleTypeOK /\ OneOperation /\ NothingSkipped

\* If home agent and Solr answer from time to time, every update reaches Solr
\* or is refused, the ones at an edge excepted; but a list that is too long for
\* the buffer fails every time and nothing of it ever gets to Solr.
EventuallyIndexed ==
    \A d \in Device : []<>(Settled(d) \/ AtEdge(d) \/ Cardinality(Due) > max_body)
=============================================================================
