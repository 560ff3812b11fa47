CONSTANTS
    a = a  b = b  c = c
    States = {a, b, c}
    Digests = {a, b, c}
    Null = Null
    Freed = Freed
    Digest <- MCDigest
    Tiers <- MCTiers
    Cap = 4
    MaxDepth = 6
    MaxTimes = 7
    MaxStarts = 3
    CallsInReturnBlock = TRUE
    Unwinds = TRUE
SYMMETRY StateSymmetry
SPECIFICATION Spec
INVARIANTS
    PopFreesRecord
