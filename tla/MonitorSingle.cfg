CONSTANTS
    a = a  b = b  c = c  d = d  e = e
    States = {a, b, c, d, e}
    Digests = {a, b, c, d, e}
    Null = Null
    Freed = Freed
    Digest <- MCDigest
    Tiers <- MCTiers
    Cap = 6
    MaxDepth = 11
    MaxTimes = 11
    MaxStarts = 1
    CallsInReturnBlock = FALSE
    Unwinds = FALSE
SYMMETRY StateSymmetry
SPECIFICATION Spec
INVARIANTS
    RecordCount
    RecordsAreActive
    NeverFaults
    ReportIsRevisit
    RevisitIsReported
