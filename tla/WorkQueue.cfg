SPECIFICATION MCSpec
CONSTANTS
    Jobs = {j1, j2, j3, j4, j5}
    Concurrency = 2
    p = p
    f = f
INVARIANTS
    CountersExact
    WorkConserving
PROPERTIES
    ImplementsTaskPool
    PublishedWhole
    UnusedBranchGoes
CHECK_DEADLOCK FALSE
