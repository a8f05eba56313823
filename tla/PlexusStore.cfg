CONSTANTS
    Keys = {k1, k2, k3}
    Capacity = 2
    Nodes = {n1, n2, n3, n4}
    Threads = {t1, t2}
    NULL = NULL
    CheckPointRowCount = 2
    Rows = 5
    MaxCrashes = 2
    Senders = {"a", "b"}
    Size <- MCSize
    NRetry = 2
    DataLength = 2
    ListenFd = 4
    Fds = {3, 5}
    MaxInterrupts = 1
SPECIFICATION Spec
 
PROPERTY LogRight
 
CHECK_DEADLOCK FALSE
