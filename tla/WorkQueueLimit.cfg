SPECIFICATION Spec
CONSTANTS
    Jobs = {j1, j2, j3}
    Concurrency = 1
INVARIANT
    WithinConcurrency
CHECK_DEADLOCK FALSE
