SPECIFICATION Spec
CONSTANTS
    StateDirs <- MCStateDirs
    Scenarios <- MCScenarios
INVARIANTS
    OnlyKnownLosses
    StartsAgain
    ResumeRestores
    SyncMissesNothing
CHECK_DEADLOCK FALSE
