SPECIFICATION Spec
CONSTANTS
    k1 = k1
    k2 = k2
    a1 = a1
    a2 = a2
    Calls = {k1, k2}
    Actors = {a1, a2}
    NoActor = NoActor
    Other = Other
    noData = noData
    NoData = noData
    jsonNull = jsonNull
    JsonNull = jsonNull
    emptyBytes = emptyBytes
    EmptyBytes = emptyBytes
    malformed = malformed
    Malformed = malformed
    noEvent = noEvent
    NoEvent = noEvent
    EventTypes <- MCEventTypes
    DataValues <- MCDataValues
    DomainEvents <- MCDomainEvents
    Commands <- MCCommands
    Handle <- MCHandle
    Requests <- MCRequestsExecute
    ForeignEvents <- MCForeign
    InitStream <- MCStreamEmpty
    MAX_RETRIES = 3
    MailboxCapacity = 1
    ForeignLimit = 0
    SnapshotsWritable = TRUE
SYMMETRY Symmetry
CHECK_DEADLOCK FALSE
INVARIANT
    SnapshotIsFold
