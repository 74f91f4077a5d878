CONSTANTS
    Processes = {p1, p2}
    BufferCapacity = 2
    MaxFaults = 1
    Events <- MCEvents
    Requests <- MCRequests
    Loads <- MCLoads
    KindOf <- MCKindOf
    TokenOf <- MCTokenOf
    CookieOf <- MCCookieOf
    FirstSession = "s0"
    Invitations = {"i1"}
    Limit = 1
    LastWindow = 1
    Calls <- MCCalls
    CallKind <- MCCallKind
    TaskCalled <- MCTaskCalled
    MoveFrom <- MCMoveFrom
    MoveTo <- MCMoveTo
    Stages = 2
    FirstPlan = "g0"
    Components = {"k1", "k2"}
    ComponentOf <- MCComponentOf
    Observed <- MCObserved
    PriorEvents <- MCPriorEvents
    Superseded <- MCSuperseded
    CallLoads <- MCCallLoads
    MaxFailures = 1
    LineKinds <- MCLineKinds
    MaxLines = 4
    MaxChars = 6
    Overlap = 2
    Edits <- MCEdits
    EditOf <- MCEditOf
    EditLoads = {{"x1", "x2", "x3"}, {"c1", "c2", "f1", "g1", "x5"}, {"x1", "x4", "g2", "g3", "y1"}, {"x4"}}
    People = {"ann", "bob", "cat"}
    TenantOf <- MCTenantOf
    ProjectIds = {"p0", "p1"}
    FirstProject = "p0"
    Documents = {"a1", "a2", "a3", "b1"}
    SourceRank <- MCSourceRank
    VersionOf <- MCVersionOf
    ChunksOf <- MCChunksOf
    QueryOf <- MCQueryOf
    LimitOf <- MCLimitOf
    Hashes = {"", "old", "new"}
    Claims = {"c1", "c2"}
    Lookups = {"s1", "s2", "s3", "s4", "r1", "j1"}
    LookupKind <- MCLookupKind
    LookupLoads = {{"s1", "s2", "r1"}, {"s3", "r1"}, {"s4"}, {"j1"}}
    MaxEvents = 5
    BatchSize = 2
    MaxBreaks = 3
SPECIFICATION Spec
INVARIANTS
    TypeOK
    TrailHolds
    EventsAreKept
    OneSessionPerInvitation
    RevokedIsRefused
    
    
    MasteryIsEarned
    PiecesCover
    
    AnswersStayTrue
    EveryEventOnce
CHECK_DEADLOCK FALSE
