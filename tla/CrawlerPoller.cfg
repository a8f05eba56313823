SPECIFICATION MCSpec
CONSTANTS
    h1 = h1
    h2 = h2
    h3 = h3
    HomeAgent = {h1, h2, h3}
    Seed <- SeedTwice
    Overlong = {h3}
    Threads = {1, 2}
    MaxRestarts = 1
    NoAgent = NoAgent
    Device = {d1, d2}
    MaxClock = 2
    Bodies = {1, 2}
    Agents = {h1, h2}
    Sessions = {s1}
    Outcomes = {"SUCCESS", "TIMEOUT"}
    MaxPolls = 2
    MaxLives = 1
    Nobody = Nobody
INVARIANT AnnouncedOnce
INVARIANT UpdatesKept
INVARIANT StatusRight
PROPERTY AgentsCovered
PROPERTY EventuallyIndexed
CHECK_DEADLOCK FALSE
