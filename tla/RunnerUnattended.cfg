SPECIFICATION LiveSpec
CONSTANTS
    Issues = {i1}
    MaxRuns = 2
    Calls = {c1, c2}
    Stages <- MCStages
    MaxTransientRetries = 2
    MaxCrashes = 1
    Enabled = {"crash", "diskloss", "close"}
    OverlappingCalls = FALSE
INVARIANTS
    TypeOK
    ClaimExclusive
    WorktreeKept
PROPERTIES
    LifeCycle
    IssueReleased
    InterruptedResolved
    OrphansSwept
CHECK_DEADLOCK FALSE
