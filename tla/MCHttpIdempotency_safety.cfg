\* Four requests with one key, any of which may be lost, late, denied or of another
\* content.
SPECIFICATION Spec
CONSTANTS
    k1 = k1
    c1 = c1
    c2 = c2
    q1 = q1
    q2 = q2
    q3 = q3
    q4 = q4
    Keys <- OneKey
    Contents <- TwoContents
    Requests <- FourRequests
    Interactions <- OneKey
    NoRequest = NoRequest
    TooLarge = TooLarge
SYMMETRY Symmetric
INVARIANTS
    TypeOK
    OneExecutor
    RepeatsAreAccounted
    AnswersAgree
PROPERTY KeepsPromise
\* Every request may have been answered.
CHECK_DEADLOCK FALSE
