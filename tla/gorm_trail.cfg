SPECIFICATION FairSpec
CHECK_DEADLOCK FALSE
CONSTANTS
    Client <- MCClients
    Row = {1, 2, 3, 4}
    Value <- MCValues
    Nil = Nil
    AuditId <- MCIds
    MaxCalls = 2
    Setups <- TrailSetups
    c1 = c1
    c2 = c2
    v1 = v1
    v2 = v2
INVARIANTS NoSilentGap OneOrderNeverDeadlocks
PROPERTIES TrailSpec StatementsReturn
