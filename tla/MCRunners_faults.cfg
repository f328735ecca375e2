SPECIFICATION Spec
CONSTANTS
    p1 = p1
    m1 = m1
    m2 = m2
    c1 = c1
    c2 = c2
    Projections = {p1}
    Managers = {m1}
    Order <- MCOrderOne
    Events <- MCEvents
    Decodable <- MCDecodable
    Envelopes <- MCEnvelopes
    Callers = {c1, c2}
    Operations <- EachDoesBoth
    Faults = {"stream", "eof", "letter", "abandon", "crash"}
    FragileDirs = {p1, m1}
    LogLimit = 2
INVARIANTS
    TypeOK
    CheckpointsAreCursors
    CallersFollow
PROPERTIES
    ImplementsCursors
