SPECIFICATION Spec
CONSTANTS
    Issues = {i1}
    MaxRuns = 1
    Calls = {c1, c2}
    Stages <- MCStages
    MaxTransientRetries = 2
    MaxCrashes = 0
    Enabled = {"resume"}
    OverlappingCalls = FALSE
PROPERTIES
    ApprovalNotLost
CHECK_DEADLOCK FALSE
