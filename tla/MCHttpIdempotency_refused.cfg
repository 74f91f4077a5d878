\* An interaction that is refused, and its retry.
SPECIFICATION Spec
CONSTANTS
    k1 = k1
    c1 = c1
    c2 = c2
    q1 = q1
    q2 = q2
    q3 = q3
    q4 = q4
    Keys <- OneKey
    Contents <- TwoContents
    Requests <- TwoRequests
    Interactions <- OneKey
    NoRequest = NoRequest
    TooLarge = TooLarge
INVARIANT RefusalIsNotCached
CHECK_DEADLOCK FALSE
