SPECIFICATION FairLiveSpec
CONSTANTS
    p1 = p1
    m1 = m1
    c1 = c1
    Projections = {p1}
    Managers = {m1}
    Order <- MCOrder
    Events <- MCTriggers
    Decodable <- MCDecodable
    Envelopes <- MCEnvelopes
    Callers = {c1}
    Operations <- WholeHandle
    Faults = {"stream", "eof", "letter"}
    FragileDirs = {}
    LogLimit = 2
    MaxDelay = 1
PROPERTIES
    EventsArrive
    WatchersLearn
    ShutdownReturns
