SPECIFICATION Spec
CONSTANTS
    t1 = t1
    t2 = t2
    Nodes = {n1}
    Clients = {c1}
    Tracks = {t1, t2}
    InitialQueues <- LongQueue
    Starts = {0, 1}
    Pollers = {n1}
    Ops <- RemoveOps
    MaxOps = 2
    MaxChannel = 6
    MaxUpdates = 1
    FaultyMpd = FALSE
INVARIANTS MirrorAgrees
