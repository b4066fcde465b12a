\* One task at a time, on two nodes.
SPECIFICATION CallsSpec
CONSTANTS
    None = None
    Users = {u1, u2}
    Nodes = {n1, n2}
    CallIds = {c1, c2}
    Tasks = {t1}
    Admins = {}
    MaxRequests = 3
    MaxOverlap = 0
    MaxFaults = 0
INVARIANTS
    FallsBackOnErrorsOnly
CHECK_DEADLOCK FALSE
