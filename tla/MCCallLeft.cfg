\* Two tasks on one node, of which the second may begin while the first runs; nothing fails.
SPECIFICATION MCSpec
CONSTANTS
    None = None
    u1 = u1
    u2 = u2
    c1 = c1
    Users = {u1, u2}
    Nodes = {n1}
    CallIds = {c1, c2}
    Tasks = {t1, t2}
    Admins = {}
    MaxRequests = 2
    MaxOverlap = 1
    MaxFaults = 0
PROPERTY LonelyCallDropped
CHECK_DEADLOCK FALSE
