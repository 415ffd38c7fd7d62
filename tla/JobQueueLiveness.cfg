SPECIFICATION FairSpec
CONSTANTS
    c1 = c1
    i1 = i1
    w1 = w1
    w2 = w2
    None = None
    Workers = {w1, w2}
    Jobs = {c1, i1}
    Kind <- MCKind
    Priority <- MCPriority
    MaxAttempts <- MCCommandRetried
    Serves <- MCLanes
    Lease = 2
    PollGap = 1
    MaxPolls = 1
    MaxCrashes = 1
PROPERTIES
    EveryJobEnds
