SPECIFICATION LiveSpec
CONSTANTS
    rate = rate
    spaced = spaced
    once = once
    r1 = r1
    r2 = r2
    NoTask = NoTask
    Schedule <- MCSchedule
    Runner <- MCRunner
    Delay <- MCDelay
    Period <- MCPeriod
    FixedRate <- MCFixedRate
    Pooled <- MCPooled
    MaxConcurrent = 1
    Workloads <- MCPool
    Horizon <- MCHorizon
    MaxTime = 1
    SpawnMayFail = FALSE
    WithShutdown = FALSE
INVARIANTS
    CancelNoticed
PROPERTIES
    CancelResolves
