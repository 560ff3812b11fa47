CONSTANTS
    MaxRuns = 3
    Persistent = TRUE
    UsesAsan = TRUE
SPECIFICATION Spec
INVARIANTS
    StatusIsOwn
    VerdictIsOwn
    TraceIsOwn
    OneRunner
PROPERTIES
    AlarmHitsOwnRun
    RunEnds
    StopIsObeyed
