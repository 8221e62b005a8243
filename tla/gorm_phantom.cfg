SPECIFICATION Spec
CHECK_DEADLOCK FALSE
CONSTANTS
    Field <- MCField
    Column <- MCColumn
    IdField = id
    Timestamp <- MCTimestamp
    Value <- MCValue
    Zero = zero
    Null = null
    Absent = absent
    Redacted = redacted
    Calls <- MCCalls
    MCOps = {"struct"}
    id = id
    f = f
    g = g
    t = t
    u = u
    zero = zero
    a = a
    b = b
    null = null
    absent = absent
    redacted = redacted
INVARIANT StructAuditNamesChanges
