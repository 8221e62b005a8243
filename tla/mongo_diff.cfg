SPECIFICATION Spec
CHECK_DEADLOCK FALSE
CONSTANTS
    Field <- MCField
    IdField = id
    Value <- MCValue
    Decoded <- MCDecoded
    Null = null
    Absent = absent
    Redacted = redacted
    NoWhitelist = all
    Huge <- MCHuge
    MaxChangedFields = 1
    Calls <- MCCalls
    id = id
    f = f
    g = g
    a = a
    n = n
    h = h
    null = null
    absent = absent
    redacted = redacted
    all = all
INVARIANTS TypeOK ProtectedFieldsStayInside DeferredEqualsInline ReplacementReplays SkippedTouchesNothing WithinLimits
