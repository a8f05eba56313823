---------------------------- MODULE MCNameServer ----------------------------
(***************************************************************************)
(* Two workers, a ring of two, three clients that come with one of a few   *)
(* combinations of requests and one that is turned away.                   *)
(***************************************************************************)
EXTENDS NameServer

MCName == {1, 2}
MCBusy == {20005}

Port(n, ok) == [port |-> n, parses |-> ok, ssl |-> FALSE]
Options(ports, uid) == [ports |-> ports, gpass |-> TRUE, uid |-> uid, acl |-> TRUE]

\* web_interface_thread tries one port after the other; other callers may give
\* a list of ports, or a user that does not exist.
MCAttempts ==
    <<Options(<<Port(20006, TRUE), Port(20005, TRUE)>>, TRUE),
      Options(<<Port(20006, TRUE)>>, FALSE),
      Options(<<Port(20006, TRUE)>>, TRUE),
      Options(<<Port(20007, TRUE)>>, TRUE)>>

Query(keys, method, name, port, timestamp) ==
    [keys |-> keys, method |-> method, name |-> name, port |-> port, timestamp |-> timestamp]
Register(n) == Query({"method", "name", "port"}, "register", n, 2000, 9)
Update(n) == Query({"method", "name", "port"}, "update", n, 2000, 9)
Available(n) == Query({"method", "name"}, "isavailable", n, 0, 9)
Getall(t) == Query({"method", "timestamp"}, "getall", 0, 0, t)
BadPort == Query({"method", "name", "port"}, "register", 1, 80, 9)

NoMethod == Query({"name"}, "none", 1, 0, 9)
NoName == Query({"method", "port"}, "update", 1, 2000, 9)
NoSuchMethod == Query({"method"}, "delete", 1, 0, 9)

MCAsks ==
    {<<Register(1), Register(1), Getall(1)>>,
     <<Register(1), Update(1), Register(1)>>,
     <<Update(1), Register(2), Getall(1)>>,
     <<Available(1), BadPort, NoMethod>>,
     <<Getall(0), NoName, NoSuchMethod>>}

MCIdle == Query({}, "none", 0, 0, 9)
MCDenied == {{}, {1}}
=============================================================================
