SPECIFICATION Spec
CONSTANTS
    Issues = {i1}
    MaxRuns = 1
    Calls = {c1, c2}
    Stages <- MCStages
    MaxTransientRetries = 2
    MaxCrashes = 1
    Enabled = {"crash"}
    OverlappingCalls = FALSE
INVARIANTS
    PausedMeansWaiting
CHECK_DEADLOCK FALSE
