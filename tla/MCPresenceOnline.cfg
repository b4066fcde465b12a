SPECIFICATION PresenceSpec
CONSTANTS
    s1 = s1
    s2 = s2
    s3 = s3
    n1 = n1
    n2 = n2
    Sockets = {s1, s3}
    Nodes = {n1, n2}
    NodeOf <- MCNodeOf
    MaxConnections = 2
    Faults = {}
CHECK_DEADLOCK FALSE
INVARIANTS
    OnlineWhileConnected
