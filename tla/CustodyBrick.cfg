SPECIFICATION Spec
CONSTANTS
    p1 = p1
    p2 = p2
    c1 = c1
    c2 = c2
    None = None
    Absent = Absent
    Paths = {p1}
    Files <- MCFilesWithLink
    SealKeys = {"s1", "s2"}
    BatchKeys = {"b1"}
    Dispositions <- MCOneBatch
    Calls = {c1}
    QuietReprotect = TRUE
    MaxEdits = 2
INVARIANTS
    SealNeverBricks
