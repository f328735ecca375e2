SPECIFICATION LiveSpec
CONSTANTS
    p1 = p1
    m1 = m1
    c1 = c1
    Projections = {p1}
    Managers = {m1}
    Order <- MCOrder
    Events <- MCTriggers
    Decodable <- MCDecodable
    Envelopes <- MCEnvelopes
    Callers = {c1}
    Operations <- StartAndStop
    Faults = {}
    FragileDirs = {}
    LogLimit = 2
    MaxDelay = 1
CHECK_DEADLOCK FALSE
INVARIANTS
    NothingLost
