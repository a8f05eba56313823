--------------------------- MODULE MCCrawlerPoller ---------------------------
(***************************************************************************)
(* The three parts of the poller process for TLC: how it finds and         *)
(* announces home agents (CrawlerPoller), the cycle each of its pollers    *)
(* runs (PollCycle), and what it tells of them (PollerStatus).  They share *)
(* no state, so a behaviour is about one of them.                          *)
(***************************************************************************)
EXTENDS CrawlerPoller, PollCycle, PollerStatus

CONSTANTS h1, h2, h3

VARIABLE about

pollerVars == <<vars, cycleVars, statusVars, about>>

\* --home_agent was given twice for h1.
SeedTwice == <<h1, h2, h1>>

\* A part that does not move has one initial state.
Still == strict /\ \A n \in Bodies : n <= max_body
MCInit ==
    /\ Init /\ CycleInit /\ StatusInit
    /\ \/ about = "agents" /\ Still
       \/ about = "devices" /\ ~managed /\ threads = 1
       \/ about = "status" /\ Still /\ ~managed /\ threads = 1

\* Bounds: with two threads a process is not followed beyond its end; three
\* handlers wait for the strand of the database, two polls end in one life.
MCNext ==
    \/ about = "agents" /\ Next /\ (up' \/ threads = 1) /\ UNCHANGED <<cycleVars, statusVars, about>>
    \/ about = "devices" /\ CycleNext /\ UNCHANGED <<vars, statusVars, about>>
    \/ /\ about = "status" /\ StatusNext /\ UNCHANGED <<vars, cycleVars, about>>
       /\ Len(queue') <= 3 /\ polls'[h1] + polls'[h2] <= 2

MCSpec ==
    /\ MCInit /\ [][MCNext]_pollerVars
    /\ about = "agents" => Fairness
    /\ about = "devices" => CycleFairness

\* Once failures end, announcements are flushed and the manager hears of every
\* seed, or the process monitors it itself (bufwrite::connected, create_pollers).
AgentsCovered == about = "agents" => Flushed /\ SeedsCovered
=============================================================================
