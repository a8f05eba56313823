SPECIFICATION FairSpec
CONSTANTS
    Worker = {"w1", "w2"}
    Connections = 3
    DeniedSets <- MCDenied
    QueueSize = 2
    Attempts <- MCAttempts
    Busy <- MCBusy
    MaxSpurious = 1
    Name <- MCName
    MaxTime = 2
    Asks <- MCAsks
    Idle <- MCIdle
INVARIANT WorkersRight
 
PROPERTY Served
CHECK_DEADLOCK FALSE
