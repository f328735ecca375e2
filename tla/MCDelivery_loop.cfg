SPECIFICATION FairDeliverySpec
CONSTANTS
    p1 = p1
    m1 = m1
    m2 = m2
    c1 = c1
    c2 = c2
    absent = absent
    Absent = absent
    badUuid = badUuid
    BadUuid = badUuid
    noStored = noStored
    NoStored = noStored
    noData = noData
    NoData = noData
    jsonNull = jsonNull
    JsonNull = jsonNull
    emptyBytes = emptyBytes
    EmptyBytes = emptyBytes
    malformed = malformed
    Malformed = malformed
    noEvent = noEvent
    NoEvent = noEvent
    EventTypes <- MCEventTypes
    DataValues <- MCDataValues
    DomainEvents <- MCDomainEvents
    Projections = {p1}
    Managers = {m1, m2}
    Order <- MCOrder
    Events <- MCEvents
    Decodable <- MCDecodable
    Envelopes <- MCEnvelopes
    Callers = {c1, c2}
    Operations <- MCOperations
    Faults = {"crash"}
    FragileDirs = {}
    Builder <- MCBuilder
    CommandOf <- MCCommandOf
    CommandsOf <- MCCommandsOf
    Outcome <- MCOutcome
    Outside <- MCOutside
    Injections <- MCInjections
    LogLimit = 4
    WriteLimit = 2
    CrashLimit = 1
INVARIANTS
    DeliveryTypeOK
    CallsCoverTheLog
    SavedMeansDelivered
    OncePerProcess
    EffectsFollowCauses
PROPERTY
    OwedIsDelivered
