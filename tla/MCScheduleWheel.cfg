SPECIFICATION Spec
CONSTANTS
    rate = rate
    spaced = spaced
    once = once
    r1 = r1
    r2 = r2
    NoTask = NoTask
    Schedule <- MCSchedule
    Runner <- MCRunner
    Delay <- MCDelay
    Period <- MCPeriod
    FixedRate <- MCFixedRate
    Pooled <- MCPooled
    MaxConcurrent = 1
    Workloads <- MCAll
    Horizon <- MCHorizon
    MaxTime = 4
    SpawnMayFail = TRUE
    WithShutdown = TRUE
SYMMETRY MCSymmetry
INVARIANTS
    TypeOK
    OnePlace
    HeapCovers
    RunnersCounted
    PermitBound
    NeverEarly
    PendingIsSeen
    SleepsPastNoDeadline
PROPERTIES
    RatePhase
CHECK_DEADLOCK FALSE
