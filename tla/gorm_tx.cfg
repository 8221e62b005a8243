SPECIFICATION Spec
CHECK_DEADLOCK FALSE
CONSTANTS
    Client <- MCClients
    Row = {1, 2}
    Value <- MCValues
    Nil = Nil
    AuditId <- MCIds
    MaxCalls = 3
    Setups <- TxSetups
    c1 = c1
    c2 = c2
    v1 = v1
    v2 = v2
SYMMETRY Symmetry
INVARIANTS TypeOK UniqueVersions AuditedIffCommitted NoSilentGap VersionOrderIsCommitOrder DenseTrail UpdatesReplay
