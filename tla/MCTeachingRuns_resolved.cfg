\* A worker that dies between the dispatch and the stored result.
SPECIFICATION FairSpec
CONSTANTS
    r1 = r1
    r2 = r2
    w1 = w1
    w2 = w2
    p1 = p1
    Runs <- OneRun
    Workers <- OneWorker
    Projects <- OneProject
    ProjectOf <- InOneProject
    Tokens <- MCTokens
    NoToken = NoToken
    NoRun = NoRun
    NoUsage = NoUsage
    TenantAccount = TenantAccount
    QuestionLengths <- ShortQuestion
    UsageReports <- UsageWithin
    TotalMicro = 6
    MaxInput = 2
    MaxOutput = 1
    AttemptPayloadCheck = TRUE
PROPERTY DispatchedIsResolved
CHECK_DEADLOCK FALSE
