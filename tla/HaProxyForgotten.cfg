SPECIFICATION LiveSpec
CONSTANTS
    Query = {q1, q2}
    MaxId = 0
    RecvConn = {c1}
    NoQuery = NoQuery
    Quiet = FALSE
PROPERTY EventuallyAnswered
CHECK_DEADLOCK FALSE
