SPECIFICATION LiveSpec
CONSTANTS
    t1 = t1
    t2 = t2
    t3 = t3
    w1 = w1
    w2 = w2
    NoTask = NoTask
    Task <- MCTask
    Worker <- MCWorker
    CorePoolSize = 2
    WorkQueueSize = 2
INVARIANTS
    WorkerBound
    QueueBound
    OneOwner
    WorkConserving
PROPERTIES
    FifoOrder
    KeepsContract
    CancelledInQueueNeverRuns
    EveryFutureResolves
