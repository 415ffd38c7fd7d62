SPECIFICATION Spec
CONSTANTS
    Processes = {"p", "q"}
    Threads = {"a", "b", "c"}
    ProcessOf <- MCProcessOf
    MaxDays = 2
    MaxCalls = 3
    MaxCrashes = 1
    Nobody = Nobody
INVARIANTS
    TypeOK
    UniqueWhileGuarded
    SidecarFollowsLog
PROPERTIES
    OneWriterMintsFresh
    EveryCallEnds
CHECK_DEADLOCK FALSE
