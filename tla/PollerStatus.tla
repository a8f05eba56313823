---------------------------- MODULE PollerStatus ----------------------------
(***************************************************************************)
(* The instrumentation service of a crawler poller                         *)
(* (crawler_poller/instrumentation.cpp, instrumentation.hpp): a record for *)
(* each monitored home agent, kept by a database whose functions all go    *)
(* through one strand, and sessions that answer any command with all       *)
(* records.  Pollers and sessions call the database from several threads;  *)
(* what they dispatch waits in the strand and runs one after the other.    *)
(*                                                                         *)
(* The text of a report, names and messages are left out; a time is the    *)
(* number of results recorded so far.  A poll's number and what was known  *)
(* when a command came are history, there for the properties only.         *)
(***************************************************************************)
EXTENDS Integers, Sequences

CONSTANTS
    Agents,     \* host names of home agents
    Sessions,   \* connections to the instrumentation service
    Outcomes,   \* how a poll may end
    MaxPolls,   \* bound on the polls of a home agent, in one life of the process
    MaxLives,   \* bound on the times the process is started
    Nobody

Result == {"SUCCESS", "NETWORK_ERROR", "TIMEOUT", "PARSE_ERROR", "NA"}

ASSUME PollerStatusAssumption ==
    /\ Outcomes \subseteq Result \ {"NA"}
    /\ MaxPolls \in Nat /\ MaxLives \in Nat
    /\ Nobody \notin Agents \cup Sessions

VARIABLES
    monitored,  \* home agents with a poller
    polls,      \* how many polls of a home agent have ended
    queue,      \* handlers the strand of the database has still to run
    db,         \* hostnames in db_
    record,     \* impl::record of each hostname in db_
    described,  \* hostnames whose record has a description
    now,        \* results recorded so far
    session,    \* what a session does
    asked,      \* what had happened when its command was read
    report,     \* what it got
    lives

statusVars == <<monitored, polls, queue, db, record, described, now, session, asked, report, lives>>

Record == [result : Result, lastsuccess_ts : Nat, lastfailure_ts : Nat, poll : Nat]
Fresh == [result |-> "NA", lastsuccess_ts |-> 0, lastfailure_ts |-> 0, poll |-> 0]
NoPolls == [h \in Agents |-> 0]
NoRecords == [h \in Agents |-> Fresh]
NotAsked == [agents |-> {}, polls |-> NoPolls]
NoReport == [agents |-> {}, record |-> NoRecords]

Task == [op : {"insert", "update", "describe", "serialize"}, agent : Agents \cup {Nobody},
         result : Result, poll : Nat, session : Sessions \cup {Nobody}]
Insert(h) == [op |-> "insert", agent |-> h, result |-> "NA", poll |-> 0, session |-> Nobody]
Update(h, r, n) == [op |-> "update", agent |-> h, result |-> r, poll |-> n, session |-> Nobody]
Describe(h) == [op |-> "describe", agent |-> h, result |-> "NA", poll |-> 0, session |-> Nobody]
Serialize(s) == [op |-> "serialize", agent |-> Nobody, result |-> "NA", poll |-> 0, session |-> s]

StatusTypeOK ==
    /\ monitored \subseteq Agents
    /\ polls \in [Agents -> 0 .. MaxPolls]
    /\ queue \in Seq(Task)
    /\ db \subseteq Agents
    /\ record \in [Agents -> Record]
    /\ described \subseteq db
    /\ now \in Nat
    /\ session \in [Sessions -> {"idle", "reading", "asked", "posted", "sending", "closed"}]
    /\ asked \in [Sessions -> [agents : SUBSET Agents, polls : [Agents -> Nat]]]
    /\ report \in [Sessions -> [agents : SUBSET Agents, record : [Agents -> Record]]]
    /\ lives \in 0 .. MaxLives

\* instrumenter::instrumenter and database::database; the acceptor listens.
StatusInit ==
    /\ monitored = {}
    /\ polls = NoPolls
    /\ queue = << >>
    /\ db = {}
    /\ record = NoRecords
    /\ described = {}
    /\ now = 0
    /\ session = [s \in Sessions |-> "idle"]
    /\ asked = [s \in Sessions |-> NotAsked]
    /\ report = [s \in Sessions |-> NoReport]
    /\ lives = 0

-----------------------------------------------------------------------------
(* The pollers.                                                            *)

\* poller::poller: home_agent_discovered dispatches insert_record_.
home_agent_discovered(h) ==
    /\ h \notin monitored
    /\ monitored' = monitored \cup {h}
    /\ queue' = Append(queue, Insert(h))
    /\ UNCHANGED <<polls, db, record, described, now, session, asked, report, lives>>

\* A poll ends: query_result dispatches update_record_.  A list that was read
\* may name a neighbour, whose description is dispatched then.
query_result(h, r) ==
    /\ h \in monitored /\ polls[h] < MaxPolls
    /\ polls' = [polls EXCEPT ![h] = @ + 1]
    /\ \/ queue' = Append(queue, Update(h, r, polls[h] + 1))
       \/ /\ r = "SUCCESS"
          /\ \E n \in Agents \ {h} :
                queue' = Append(Append(queue, Update(h, r, polls[h] + 1)), Describe(n))
    /\ UNCHANGED <<monitored, db, record, described, now, session, asked, report, lives>>

-----------------------------------------------------------------------------
(* The strand of the database.                                             *)

\* map::insert leaves a record that is there alone.
insert_record_ ==
    /\ queue # << >> /\ Head(queue).op = "insert"
    /\ queue' = Tail(queue)
    /\ db' = db \cup {Head(queue).agent}
    /\ record' = IF Head(queue).agent \in db THEN record
                 ELSE [record EXCEPT ![Head(queue).agent] = Fresh]
    /\ UNCHANGED <<monitored, polls, described, now, session, asked, report, lives>>

\* db_.at throws for a hostname without a record, and that is only logged.
update_record_ ==
    /\ queue # << >> /\ Head(queue).op = "update"
    /\ queue' = Tail(queue)
    /\ now' = now + 1
    /\ record' = IF Head(queue).agent \notin db THEN record
                 ELSE [record EXCEPT ![Head(queue).agent] =
                         [result |-> Head(queue).result, poll |-> Head(queue).poll,
                          lastsuccess_ts |-> IF Head(queue).result = "SUCCESS" THEN now + 1
                                             ELSE @.lastsuccess_ts,
                          lastfailure_ts |-> IF Head(queue).result = "SUCCESS" THEN @.lastfailure_ts
                                             ELSE now + 1]]
    /\ UNCHANGED <<monitored, polls, db, described, session, asked, report, lives>>

\* The same for a description: it may come before the record and is lost then.
set_description_ ==
    /\ queue # << >> /\ Head(queue).op = "describe"
    /\ queue' = Tail(queue)
    /\ described' = described \cup ({Head(queue).agent} \cap db)
    /\ UNCHANGED <<monitored, polls, db, record, now, session, asked, report, lives>>

\* All records are written to a buffer; the session is called back outside the
\* strand, by do_serialize_callback.
serialize_as_json_ ==
    /\ queue # << >> /\ Head(queue).op = "serialize"
    /\ queue' = Tail(queue)
    /\ session' = [session EXCEPT ![Head(queue).session] = "posted"]
    /\ report' = [report EXCEPT ![Head(queue).session] = [agents |-> db, record |-> record]]
    /\ UNCHANGED <<monitored, polls, db, record, described, now, asked, lives>>

-----------------------------------------------------------------------------
(* A session.                                                              *)

\* A client connects and the session waits for a command; start_accept makes
\* the next one either way.
handle_accept(s) ==
    /\ session[s] = "idle"
    /\ session' = [session EXCEPT ![s] = "reading"]
    /\ UNCHANGED <<monitored, polls, queue, db, record, described, now, asked, report, lives>>

\* Variant: the records are written by the thread that read the command.
read_at_once(s) ==
    /\ session[s] = "reading"
    /\ session' = [session EXCEPT ![s] = "posted"]
    /\ asked' = [asked EXCEPT ![s] = [agents |-> monitored, polls |-> polls]]
    /\ report' = [report EXCEPT ![s] = [agents |-> db, record |-> record]]
    /\ UNCHANGED <<monitored, polls, queue, db, record, described, now, lives>>

\* A command was read, whatever it says: dispatch serialize_as_json_.
handle_command_read(s) ==
    /\ session[s] = "reading"
    /\ session' = [session EXCEPT ![s] = "asked"]
    /\ asked' = [asked EXCEPT ![s] = [agents |-> monitored, polls |-> polls]]
    /\ queue' = Append(queue, Serialize(s))
    /\ UNCHANGED <<monitored, polls, db, record, described, now, report, lives>>

\* send_result: async_write of the buffer.
send_result(s) ==
    /\ session[s] = "posted"
    /\ session' = [session EXCEPT ![s] = "sending"]
    /\ UNCHANGED <<monitored, polls, queue, db, record, described, now, asked, report, lives>>

\* Sent, or an error while reading or sending: the session ends.
handle_result_sent(s) ==
    /\ session[s] \in {"reading", "sending"}
    /\ session' = [session EXCEPT ![s] = "closed"]
    /\ asked' = [asked EXCEPT ![s] = NotAsked]
    /\ report' = [report EXCEPT ![s] = NoReport]
    /\ UNCHANGED <<monitored, polls, queue, db, record, described, now, lives>>

\* The log line asks a socket whose client has gone for its peer, which throws:
\* the process ends and is started again.
remote_endpoint_throws(s) ==
    /\ session[s] \in {"reading", "sending"} /\ lives < MaxLives
    /\ lives' = lives + 1
    /\ monitored' = {} /\ polls' = NoPolls /\ queue' = << >>
    /\ db' = {} /\ record' = NoRecords /\ described' = {} /\ now' = 0
    /\ session' = [t \in Sessions |-> "idle"]
    /\ asked' = [t \in Sessions |-> NotAsked]
    /\ report' = [t \in Sessions |-> NoReport]

StatusNext ==
    \/ \E h \in Agents : home_agent_discovered(h) \/ \E r \in Outcomes : query_result(h, r)
    \/ insert_record_ \/ update_record_ \/ set_description_ \/ serialize_as_json_
    \/ \E s \in Sessions : \/ handle_accept(s) \/ handle_command_read(s) \/ send_result(s)
                           \/ handle_result_sent(s) \/ remote_endpoint_throws(s)

StatusSpec == StatusInit /\ [][StatusNext]_statusVars

-----------------------------------------------------------------------------
(* Properties.                                                             *)

\* The result of a poll finds its record: "received update for non-existing
\* record" is not logged for one, whatever the threads do (update_record_).
ResultsFindRecords ==
    queue # << >> /\ Head(queue).op = "update" => Head(queue).agent \in db

\* The result a record shows is the one with the later time stamp, and when the
\* strand is idle it is that of the last poll (update_record_).
LatestShown ==
    \A h \in db :
        /\ record[h].result = "SUCCESS" => record[h].lastsuccess_ts > record[h].lastfailure_ts
        /\ record[h].result \in Result \ {"SUCCESS", "NA"} =>
              record[h].lastsuccess_ts < record[h].lastfailure_ts
        /\ queue = << >> => record[h].poll = polls[h]

\* A report is not older than the command it answers: it has a record of every
\* home agent that was monitored then, with the result of that poll or of a
\* later one (handle_command_read, serialize_as_json_).
ReportUpToDate ==
    \A s \in Sessions : session[s] \in {"posted", "sending"} =>
        /\ asked[s].agents \subseteq report[s].agents
        /\ \A h \in Agents : asked[s].polls[h] <= report[s].record[h].poll

\* What the service tells its clients is what the pollers saw.
StatusRight == StatusTypeOK /\ ResultsFindRecords /\ LatestShown /\ ReportUpToDate
=============================================================================
