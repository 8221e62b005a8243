SPECIFICATION FairSpec
CHECK_DEADLOCK FALSE
CONSTANTS
    Client <- MCClients
    DocId = {1, 2}
    Value <- MCValues
    Nil = Nil
    AuditId <- MCIdsClash
    IdString <- MCIdStringClash
    FailOnAuditError = FALSE
    Ops <- CreateAndUpdate
    DeferredChanges = FALSE
    Oversized <- OnlyV2
    Guarded <- NoValue
    Requests <- FaultRequests
    MaxCalls = 2
    MaxFaults = 2
    c1 = c1
    c2 = c2
    v1 = v1
    v2 = v2
INVARIANTS TypeOK GapsNeedFaults NoSilentGap
PROPERTIES TrailSpec CallsReturn
