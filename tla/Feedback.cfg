SPECIFICATION MCSpec
CONSTANTS
    a1 = a1
    a2 = a2
    thanks = thanks
    pr = pr
    Comments = {a1, a2, thanks}
    PRs = {pr}
    PrOf <- MCPrOf
    MaxRuns = 2
    NumStages = 1
    MaxCrashes = 1
    Racing = {}
    Forge <- MCForge
    Said <- MCSaid
    GithubFeedback <- MCGithubFeedback
    Unchecked = {}
    MaxEvents = 2
INVARIANTS
    EntryHeld
    OnePerPR
    WorktreeInUse
    CancelledNotPushed
    MarkedMeansMerged
PROPERTIES
    EntryReleased
    CommentAnswered
    MergedIsTold
CHECK_DEADLOCK FALSE
