---------------------------- MODULE PlexusStore ----------------------------
(***************************************************************************)
(* The parts of a Plexus peer below the protocol: its cache of overlay     *)
(* ids, its measurement log, and the sockets messages come through.  The   *)
(* three share no state, so a behaviour is about one of them, chosen at    *)
(* the start: interleaving them would show nothing more.                   *)
(***************************************************************************)
EXTENDS PlexusCache, PlexusLog, PlexusSocket

VARIABLE about

storeVars == <<cacheVars, logVars, socketVars, about>>

Init == CacheInit /\ LogInit /\ SocketInit /\ about \in {"cache", "log", "socket"}

Next == \/ about = "cache" /\ CacheNext /\ UNCHANGED <<logVars, socketVars, about>>
        \/ about = "log" /\ LogNext /\ UNCHANGED <<cacheVars, socketVars, about>>
        \/ about = "socket" /\ SocketNext /\ UNCHANGED <<cacheVars, logVars, about>>

\* The peer's threads and the network go on while they have something to do.
Spec == Init /\ [][Next]_storeVars /\ WF_storeVars(about = "socket" /\ SocketWork /\ UNCHANGED <<cacheVars, logVars, about>>)

-----------------------------------------------------------------------------
(* Properties.                                                             *)

\* The cache behaves as a bounded list in order of use, and its links are whole
\* also under a thread that walks them without the lock (cache.h).
CacheRight == [](CacheTypeOK /\ Linked /\ WalkSound) /\ ImplementsLru

\* No row of the log is lost by a crash between upload, archive and removal
\* (log.h).
LogRight == [](LogTypeOK /\ ArchiveComplete) /\ OnDiskOrUploaded

\* A message is heard at most once, and heard if its sender was not told
\* otherwise; the listener's set of descriptors matches the open ones
\* (client_socket.h, server_socket.h, server_system_test.cc).
SocketsRight == [](SocketTypeOK /\ PoolRight /\ HeardAtMostOnce) /\ AllHeard
=============================================================================
