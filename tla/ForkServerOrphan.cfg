CONSTANTS
    MaxRuns = 2
    Persistent = TRUE
    UsesAsan = TRUE
SPECIFICATION Spec
INVARIANTS
    NoRunnerLeft
