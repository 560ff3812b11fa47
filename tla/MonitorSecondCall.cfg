CONSTANTS
    a = a  b = b  c = c
    States = {a, b, c}
    Digests = {a, b, c}
    Null = Null
    Freed = Freed
    Digest <- MCDigest
    Tiers <- MCTiers
    Cap = 8
    MaxDepth = 5
    MaxTimes = 5
    MaxStarts = 2
    CallsInReturnBlock = FALSE
    Unwinds = FALSE
SPECIFICATION Spec
INVARIANTS
    NeverFaults
