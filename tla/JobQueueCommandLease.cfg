SPECIFICATION Spec
CONSTANTS
    c1 = c1
    i1 = i1
    w1 = w1
    w2 = w2
    None = None
    Workers = {w1, w2}
    Jobs = {c1}
    Kind <- MCKind
    Priority <- MCPriority
    MaxAttempts <- MCCommandRetried
    Serves <- MCServes
    Lease = 2
    PollGap = 1
    MaxPolls = 0
    MaxCrashes = 0
INVARIANTS
    CommandKeepsClaim
