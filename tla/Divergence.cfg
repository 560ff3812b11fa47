CONSTANTS
    a = a  b = b  c = c  d = d
    States = {a, b, c, d}
    Digests = {a, b, c, d}
    Null = Null
    Freed = Freed
    Digest <- MCDigest
    Tiers <- MCTiers
    Cap = 16
    MaxDepth = 11
    MaxTimes = 11
    MaxStarts = 11
    CallsInReturnBlock = TRUE
    Unwinds = FALSE
SPECIFICATION DSpec
PROPERTIES
    BodyDivergenceReported
CHECK_DEADLOCK FALSE
