----------------------------- MODULE MCGateway -----------------------------
(* Instance of Gateway: metrics of different sizes, some of which fill a
   datagram exactly. *)
EXTENDS Gateway
\* Well framed then too long, and a length below the header's.
MCStreams == { << [start |-> 0, len |-> 3], [start |-> 5, len |-> 6] >>,
               << [start |-> 0, len |-> 1], [start |-> 3, len |-> 3] >> }
MCSizeOf == [q \in Queries |-> IF q = 1 THEN 2 ELSE 1]
=============================================================================
