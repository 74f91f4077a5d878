SPECIFICATION FairSpec
CONSTANTS
    r1 = r1
    r2 = r2
    r3 = r3
    r4 = r4
    project = project
    Tenant = tenant
    k1 = k1
    validator = validator
    append = append
    chunks = chunks
    fetch = fetch
    c1 = c1
    Runs = {r1, r2, r3, r4}
    Projects = {project}
    NoAccount = NoAccount
    Counter = Counter
    Cost = Cost
    Dims = {Counter, Cost}
    MaxCalls = 2
    Keys = {k1}
    NoKey = NoKey
    Tools = {validator, append, chunks, fetch}
    HighImpact = {append}
    Unsupported = {fetch}
    Optional = {fetch}
    MayStopAfter = {validator}
    Confirmations = {c1}
    NoConfirmation = NoConfirmation
    BufferCapacity = 1
    ProjectOf <- MCProjectOf
    TenantLimit <- MCTenantLimit
    CompletionReserve <- MCCompletionReserve
    ProjectGrant <- MCProjectGrant
    KeyOf <- MCKeyOf
    ContentOf <- MCContentOf
    ParamsOf <- MCParamsOf
    Loads <- MCLoads
    MaxFaults <- MCMaxFaults
    Script <- MCScript
    NodeGrant <- MCNodeGrant
    CallCost <- MCCallCost
    Spends <- MCSpends
    ConfirmationOf <- MCConfirmationOf
    Covers <- MCCovers
    Ceiling <- MCCeiling
INVARIANTS TypeOK LedgerReconciles ConfirmedOnce WhatRanIsNotForgotten OneExecutionPerKey GrantsComeBack
PROPERTIES EveryRequestEnds
CHECK_DEADLOCK FALSE
