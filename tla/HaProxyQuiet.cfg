SPECIFICATION FairSpec
CONSTANTS
    Query = {q1, q2}
    MaxId = 1
    RecvConn = {c1}
    NoQuery = NoQuery
    Quiet = TRUE
INVARIANT NoQueryForgotten
INVARIANT OwnCause
 
CHECK_DEADLOCK FALSE
