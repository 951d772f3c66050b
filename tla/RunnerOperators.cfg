SPECIFICATION Spec
CONSTANTS
    Issues = {i1}
    MaxRuns = 1
    Calls = {c1, c2}
    Stages <- MCStages
    MaxTransientRetries = 1
    MaxCrashes = 1
    Enabled = {"resume", "pause", "terminate", "zombie", "abort", "stop", "crash"}
    OverlappingCalls = TRUE
INVARIANTS
    ClaimHeld
    RetriesBounded
    StageRowsOwned
SYMMETRY MCSymmetry
CHECK_DEADLOCK FALSE
