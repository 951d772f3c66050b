SPECIFICATION Spec
CONSTANTS
    a1 = a1
    a2 = a2
    pr = pr
    Comments = {a1, a2}
    PRs = {pr}
    PrOf <- MCPrOf
    MaxRuns = 2
    NumStages = 1
    MaxCrashes = 0
    Racing = {}
INVARIANTS
    GivesUpOnlyIfStopped
CHECK_DEADLOCK FALSE
