SPECIFICATION FairSpec
CONSTANTS
    n1 = n1
    n2 = n2
    a = a
    b = b
    None = None
    t1 = t1
    t2 = t2
    c1 = c1
    Nodes = {n1, n2}
    Tracks = {a, b}
    Tasks = {t1, t2}
    Clients = {c1}
    Records <- SomeRecords
    Capacity = 1
    BatchSize = 1
    Instances <- All
INVARIANTS TypeOK StoredIsOneSnapshot NoScrobbleLost
PROPERTIES ClientsCatchUp
CHECK_DEADLOCK FALSE
