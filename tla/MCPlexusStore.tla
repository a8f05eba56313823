--------------------------- MODULE MCPlexusStore ---------------------------
EXTENDS PlexusStore
MCSize == [s \in Senders |-> IF s = "a" THEN 1 ELSE 3]
=============================================================================
