SPECIFICATION Spec
CONSTANTS
    a = a
    b = b
    p1 = p1
    p2 = p2
    NoId = NoId
    Ids = {a, b}
    Procs = {p1, p2}
    IdOf <- OwnNames
    Joined = {p1}
    MaxConns = 2
    Clients = {c1}
    Ops = {"select"}
    MaxOps = 1
    MaxDrops = 1
INVARIANTS SelectionIsPushed
