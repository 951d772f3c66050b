SPECIFICATION ServerSpec
CONSTANTS
    StageNames = {"implement", "test", "review"}
    Resumable = {"implement", "review"}
    SessionOn = TRUE
    MaxSessions = 2
    Stages <- ImplementReview
    RalphIterations = 2
    FixAndRetry = TRUE
    MaxAttempts = 1
    ValidateHandoffs = TRUE
    ReviewFixIterations = 1
    DeepReviewPasses = 2
    FindingsBlock = FALSE
    FailOnAutoCommit = TRUE
    MaxTokens = 5
    MaxTransientRetries = 1
    Policy = TRUE
    Blocklist = {"migration"}
    IssueTokens = 4
    Excluded = {"migration"}
    Reviewers = {"lead"}
    OwnPool = {"a"}
    Rival = "c"
    AutoMerge = TRUE
    MaxCrashes = 1
    MaxRivals = 1
    MaxLost = 1
    Issues = {u1}
    MaxRow = 2
    StateNames = {"Icebox", "Canceled"}
    EnvPaused = FALSE
    Licensed = TRUE
    Ticks = {t1, t2}
    Scopes = {"global"}
    r1 = r1
    r2 = r2
    b1 = b1
    b2 = b2
    Tasks = {r1, r2}
    Buckets = {b1, b2}
    BucketOf <- TwoBuckets
    DaysAsked = {2}
    MaxDay = 3
    Backfill = 2
    MaxAttempt = 3
    Migrations = 3
    Statements = 2
    Renamed = {2, 3}
    MaxRestarts = 2
    Urls = {u1, u2}
    Teams = {"team"}
    NoTeam = none
    TestCommands = {"a", "b"}
    SentryIds <- TwoIds
    AlarmNames <- OneName
    Deliveries = {t1, t2}
    MaxTicket = 2
    Items = {1, 2}
    Pulls = {2}
    Labels = {"bug", "feature"}
    Page = 1
    Bidirectional = TRUE
    StateRead = TRUE
    MaxIssue = 2
    Runs = {t1, t2}
    Paths = {"file"}
    NoRow = none
INVARIANTS SessionInSync WithinBudget ReadyIsClean SectionExclusive SaidOnce ServerSound
PROPERTIES MergeIsEarned ExecutionEnds IssueTicketed
