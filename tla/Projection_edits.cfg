SPECIFICATION Spec
CONSTANTS
    t1 = t1
    t2 = t2
    Nodes = {n1}
    Clients = {c1, c2}
    Tracks = {t1, t2}
    InitialQueues <- LongQueue
    Starts = {2, 3}
    Pollers = {n1}
    Ops <- EditOps
    MaxOps = 2
    MaxChannel = 1
    MaxUpdates = 1
    FaultyMpd = TRUE
SYMMETRY Symmetry
INVARIANTS TypeOK
PROPERTIES IndexStaysInRange EditsKeepCurrentTrack
