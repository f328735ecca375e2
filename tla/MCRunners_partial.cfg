SPECIFICATION Spec
CONSTANTS
    p1 = p1
    m1 = m1
    m2 = m2
    c1 = c1
    c2 = c2
    Projections = {p1}
    Managers = {m1, m2}
    Order <- MCOrder
    Events <- MCEvents
    Decodable <- MCDecodable
    Envelopes <- MCEnvelopes
    Callers = {c1}
    Operations <- EachDoesOne
    Faults = {"stream"}
    FragileDirs = {}
    LogLimit = 2
CHECK_DEADLOCK FALSE
INVARIANTS
    SavedMeansHandled
