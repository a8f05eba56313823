SPECIFICATION FairSpec
CONSTANTS
    p1 = p1
    p2 = p2
    p3 = p3
    h1 = h1
    h2 = h2
    Poller = {p1, p2}
    HomeAgent = {h1, h2}
    Initial <- OneConfigured
    MaxAnnounce = 1
INVARIANT Partition
INVARIANT NoneLost
INVARIANT PolledOnce
INVARIANT WaitOnlyForPollers
PROPERTY AllAssigned
CHECK_DEADLOCK FALSE
