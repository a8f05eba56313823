SPECIFICATION FairSpeakerSpec
CONSTANTS
    Query = {q1, q2, q3}
    Unwritable = {}
    BufSize = 2
    MaxCompletions = 2
    NoQuery = NoQuery
INVARIANT NoMixedReplies
INVARIANT FlagMeansSending
PROPERTY ImplementsChannel
PROPERTY BufferDrains
CHECK_DEADLOCK FALSE
