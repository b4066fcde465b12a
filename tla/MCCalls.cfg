\* Two tasks on one node, of which the second may begin while the first runs, or a failure; at first there is
\* no call, or one that both users are in.
SPECIFICATION MCSpec
CONSTANTS
    None = None
    u1 = u1
    u2 = u2
    c1 = c1
    Users = {u1, u2}
    Nodes = {n1}
    CallIds = {c1, c2}
    Tasks = {t1, t2}
    Admins = {}
    MaxRequests = 2
    MaxOverlap = 1
    MaxFaults = 1
INVARIANTS
    CallIsWhole
    EndedPostIsMarked
PROPERTY LonelyCallEnds
CHECK_DEADLOCK FALSE
