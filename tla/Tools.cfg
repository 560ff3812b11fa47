CONSTANTS
    ArithMax = 35
    Interesting8 <- I8
    Interesting16 <- I16
    Interesting32 <- I32
    MaxAutoExtras = 3
    UseAutoExtras = 2
    MinAutoExtra = 2
    MaxAutoExtra = 3
    MaxDictFile = 12
    EffMapScale2 = 0
    EffMinLen = 2
    EffMaxPerc = 70
    MaxDetExtras = 2
    MaxFile = 10
    HavocMaxMult = 2
    HavocCycles = 1
    HavocCyclesInit = 2
    SpliceHavoc = 1
    HavocMin = 1
    HavocStackPow2 = 2
    SpliceCycles = 2
    HavocBlkSmall = 1
    HavocBlkMedium = 2
    HavocBlkLarge = 3
    HavocBlkXl = 4
    Entries <- MCEntries
    Cases <- MCCases
    SetSteps = 2
    SetMinSize = 2
    StartSteps = 2
    Samples <- MCSamples
    LongRun = 6
    Sources <- MCSources
    Threads = {1, 2}
    SizeWord = 64
    PageSize = 16
    MaxMem = 18
    Requests = {0, 9, 60}
    MaxBlocks = 3
SPECIFICATION ToolsSpec
INVARIANTS
    SkipsAreRepeats
    OneChangeAtATime
    InBounds
    ResultIsMinimal
    RunsAreFields
    TrampolinesRight
    BordersGuarded
    LimitKept
PROPERTIES
    ToolsEnd
CHECK_DEADLOCK FALSE
