-------------------------- MODULE MCPlexusNetwork --------------------------
EXTENDS PlexusNetwork

\* The name decodes to an id between two leaves.
MCTarget == [x \in Names |-> 7]

Scenario(n, storage, type, late, start, commands, fails) ==
    [n |-> n, storage |-> storage, type |-> type, late |-> late,
     gen |-> start, lkp |-> start, commands |-> commands, failures |-> fails]

\* The announcements of three peers; a peer that is initialised while messages
\* arrive; requests of clients and of the controlling threads, over five peers
\* too, with a message that cannot be sent.
MCScenarios ==
    {Scenario(3, "end_point", "proactive", 0, FALSE, 0, 0),
     Scenario(2, "path", "proactive", 1, FALSE, 1, 0),
     Scenario(2, "path", "reactive", 1, FALSE, 2, 0),
     Scenario(3, "path", "reactive", 0, FALSE, 1, 1),
     Scenario(3, "path", "reactive", 1, TRUE, 0, 1),
     Scenario(3, "end_point", "reactive", 1, TRUE, 0, 1),
     Scenario(5, "path", "reactive", 0, TRUE, 0, 1),
     Scenario(5, "end_point", "reactive", 0, TRUE, 0, 1)}
=============================================================================
