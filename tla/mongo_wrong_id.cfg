SPECIFICATION Spec
CHECK_DEADLOCK FALSE
CONSTANTS
    Client <- MCOneClient
    DocId = {1, 2}
    Value <- MCValues
    Nil = Nil
    AuditId <- MCIds
    IdString <- MCIdString
    FailOnAuditError = TRUE
    Ops <- AllOps
    DeferredChanges = FALSE
    Oversized <- NoValue
    Guarded <- NoValue
    Requests <- CollatedRequests
    MaxCalls = 2
    MaxFaults = 0
    c1 = c1
    c2 = c2
    v1 = v1
    v2 = v2
INVARIANT AuditOfMatchedDocument
