SPECIFICATION Spec
CONSTANTS
    t1 = t1
    t2 = t2
    Nodes = {n1, n2}
    Clients = {c1, c2}
    Tracks = {t1, t2}
    InitialQueues <- OneQueue
    Starts = {0, 1}
    Pollers = {n1}
    Ops <- ClearOps
    MaxOps = 2
    MaxChannel = 7
    MaxUpdates = 0
    FaultyMpd = FALSE
PROPERTIES QueueOpsStayOnNode
