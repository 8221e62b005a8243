SPECIFICATION CallsSpec
CHECK_DEADLOCK FALSE
CONSTANTS
    Client <- MCClients
    DocId = {1, 2}
    Value <- MCValues
    Nil = Nil
    AuditId <- MCIds
    IdString <- MCIdString
    FailOnAuditError = TRUE
    Ops <- AllOps
    DeferredChanges = TRUE
    Oversized <- OnlyV2
    Guarded <- NoValue
    Requests <- CallRequests
    MaxCalls = 3
    MaxFaults = 1
    c1 = c1
    c2 = c2
    v1 = v1
    v2 = v2
SYMMETRY Symmetry
INVARIANTS UniqueVersions RetryAbsorbsUpsertRace NamedDocumentWasWritten RealTimeOrder TrailReplaysDocument NoSilentGap AuditedOncePerCall FailClosed
