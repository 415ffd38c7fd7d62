SPECIFICATION Spec
CONSTANTS
    Principals = {"agent"}
    Tokens = {"t1", "t2"}
    Cases = {"k1", "k2"}
    Tools = {"record", "help"}
    Calls = {c1, c2}
    Owner <- MCOwner
    HomeCase <- MCHomeCase
    Scopes <- MCScopes
    Mutating = {"record"}
    CaseScoped = {"record"}
    Proxied = {"record"}
    CacheTTL = 1
    MaxLag = 1
    MaxTime = 2
    NoCase = NoCase
    Never = Never
INVARIANTS
    TypeOK
    NoResidueOfRevoked
    AgentStaysInItsCase
    MutationsAreAudited
    TrailNamesTheCase
PROPERTY DeniedWithinTTL
SYMMETRY Symmetry
