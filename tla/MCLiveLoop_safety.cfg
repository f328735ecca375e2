SPECIFICATION LiveSpec
CONSTANTS
    p1 = p1
    m1 = m1
    c1 = c1
    Projections = {p1}
    Managers = {m1}
    Order <- MCOrder
    Events <- MCTriggers
    Decodable <- MCDecodable
    Envelopes <- MCEnvelopes
    Callers = {c1}
    Operations <- LiveAndPull
    Faults = {"eof", "crash"}
    FragileDirs = {m1}
    LogLimit = 2
    MaxDelay = 1
INVARIANTS
    LiveTypeOK
    CheckpointsAreCursors
    AnnouncedIsProcessed
    CaughtUpMeansReplayed
    StreamFollows
PROPERTIES
    AnnouncementsAdvance
    OnlyCrashesLose
    ImplementsCursors
