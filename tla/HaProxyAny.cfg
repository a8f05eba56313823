SPECIFICATION Spec
CONSTANTS
    Query = {q1, q2}
    MaxId = 0
    RecvConn = {c1}
    NoQuery = NoQuery
    Quiet = FALSE
 
INVARIANT ClaimedOnce
CHECK_DEADLOCK FALSE
