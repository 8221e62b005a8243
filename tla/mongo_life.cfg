SPECIFICATION Spec
CHECK_DEADLOCK FALSE
CONSTANTS
    Field <- MCField
    IdField = id
    Value <- MCValue
    Decoded <- MCDecoded
    Null = null
    Absent = absent
    NoWhitelist = all
    Redacted = redacted
    Huge <- None
    DocId <- MCDocId
    Time <- MCTime
    Zero = zero
    Stamps <- MCStamps
    DeletedAt = deleted
    Objects <- MCObjects
    Assignments <- MCAssignments
    Updates <- MCUpdates
    Operated <- MCOperated
    Setups <- MCSetups
    MaxCalls = 4
    id = id
    name = name
    created = created
    deleted = deleted
    a = a
    b = b
    n = n
    t1 = t1
    t2 = t2
    d1 = d1
    d2 = d2
    zero = zero
    null = null
    absent = absent
    all = all
INVARIANTS TypeOK TrailTellsDocument
PROPERTY CallerObjectsKept
