\* An account that holds exactly the estimate; a usage within the promised maxima.
SPECIFICATION Spec
CONSTANTS
    r1 = r1
    r2 = r2
    w1 = w1
    w2 = w2
    p1 = p1
    Runs <- OneRun
    Workers <- OneWorker
    Projects <- OneProject
    ProjectOf <- InOneProject
    Tokens <- MCTokens
    NoToken = NoToken
    NoRun = NoRun
    NoUsage = NoUsage
    TenantAccount = TenantAccount
    QuestionLengths <- ShortQuestion
    UsageReports <- UsageAboveEstimate
    TotalMicro = 3
    MaxInput = 2
    MaxOutput = 1
    AttemptPayloadCheck = TRUE
INVARIANT NeverOverdrawn
CHECK_DEADLOCK FALSE
