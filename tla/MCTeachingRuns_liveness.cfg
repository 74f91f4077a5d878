\* One run, two workers, in-memory adapter, fairness; faults of any number, then none.
SPECIFICATION FairSpec
CONSTANTS
    r1 = r1
    r2 = r2
    w1 = w1
    w2 = w2
    p1 = p1
    Runs <- OneRun
    Workers <- TwoWorkers
    Projects <- OneProject
    ProjectOf <- InOneProject
    Tokens <- MCTokens
    NoToken = NoToken
    NoRun = NoRun
    NoUsage = NoUsage
    TenantAccount = TenantAccount
    QuestionLengths <- ShortQuestion
    UsageReports <- UsageWithinAndAbove
    TotalMicro = 5
    MaxInput = 2
    MaxOutput = 1
    AttemptPayloadCheck = FALSE
PROPERTIES
    StoredResultDelivered
    RefusalSettled
\* Every run may have ended.
CHECK_DEADLOCK FALSE
