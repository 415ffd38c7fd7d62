SPECIFICATION Spec
CONSTANTS
    Calls = {c1, c2}
    Values = {v1}
    Requests <- MCRequests
    Reviewable = {"finding"}
    MaxItems = 1
    MaxEdits = 1
    MaxStaged = 1
    MaxScreens = 1
    c1 = c1
    c2 = c2
    v1 = v1
    NoValue = NoValue
    NoHash = NoHash
    NoRow = NoRow
SYMMETRY Symmetric
INVARIANT TypeOK
INVARIANT ApprovedWasSeen
INVARIANT ReportWasSeen
PROPERTY OnlyBlindInsertsOverwrite
CHECK_DEADLOCK FALSE
