SPECIFICATION Spec
CONSTANTS
    Issues = {i1}
    MaxRuns = 1
    Calls = {c1, c2}
    Stages <- MCOneStage
    MaxTransientRetries = 2
    MaxCrashes = 0
    Enabled = {"stop"}
    OverlappingCalls = FALSE
PROPERTIES
    NoPushAfterStop
CHECK_DEADLOCK FALSE
