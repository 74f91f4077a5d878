\* Two runs in one project, two workers, crashes and slow workers without bound,
\* PostgreSQL adapter.
SPECIFICATION Spec
CONSTANTS
    r1 = r1
    r2 = r2
    w1 = w1
    w2 = w2
    p1 = p1
    Runs <- TwoRuns
    Workers <- TwoWorkers
    Projects <- OneProject
    ProjectOf <- InOneProject
    Tokens <- MCTokens
    NoToken = NoToken
    NoRun = NoRun
    NoUsage = NoUsage
    TenantAccount = TenantAccount
    QuestionLengths <- ShortQuestion
    UsageReports <- UsageWithin
    TotalMicro = 6
    MaxInput = 2
    MaxOutput = 1
    AttemptPayloadCheck = TRUE
CONSTRAINT OneRunOrOneBusyWorker
SYMMETRY Symmetric
INVARIANTS
    TypeOK
    AtMostOneProviderCall
    AccountsReconcile
    CostFollowsOutcome
    EventsTellTheRun
PROPERTIES
    HolderOnlyWrites
    KeepsPromise
\* Every run may have ended.
CHECK_DEADLOCK FALSE
