SPECIFICATION Spec
CONSTANTS
    u = u
    Approvers = {u}
    MinCommits = 1
    QaCheck = TRUE
    NeedsApproval = TRUE
    MaxCommit = 2
    MaxVersion = 2
    MaxRun = 2
    MaxRow = 2
INVARIANTS QaPassed FireMeansReleased TaggedOnce
PROPERTIES PendingResolved
