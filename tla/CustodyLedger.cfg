SPECIFICATION Spec
CONSTANTS
    p1 = p1
    p2 = p2
    c1 = c1
    c2 = c2
    None = None
    Absent = Absent
    Paths = {p1, p2}
    Files <- MCOneFile
    SealKeys = {"s1", "s2"}
    BatchKeys = {"b1", "b2"}
    Dispositions <- MCTwoBatches
    Calls = {}
    QuietReprotect = TRUE
    MaxEdits = 1
INVARIANTS
    TypeOK
    SealsAllOrNothing
    ManifestListsSealed
    OneManifestPerOperation
    ChainReplays
PROPERTIES
    ImplementsLedger
