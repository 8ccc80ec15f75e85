SPECIFICATION Spec
CONSTANTS
    Conns = {c1, c2}
    Devices = {d}
    Uuids = {u}
    Duplicates = {old}
    OldDevice = d
    Remotes = {r}
    MaxRestarts = 1
    None = None
INVARIANTS SessionKeepsItsNode
