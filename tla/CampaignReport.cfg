SPECIFICATION Spec
CONSTANTS
    NumEdges = 3
    Costs = {1, 2}
    SkipQueue = 1
    CalCycles = 2
    CalCyclesLong = 3
    CalChances = 2
    TmoutLimit = 0
    KeepUniqueHang = 1
    KeepUniqueCrash = 1
    Configs <- MCReporting
INVARIANTS
    ReportsFiled
CHECK_DEADLOCK FALSE
