SPECIFICATION FairPresenceSpec
CONSTANTS
    s1 = s1
    s2 = s2
    s3 = s3
    n1 = n1
    n2 = n2
    Sockets = {s1, s3}
    Nodes = {n1, n2}
    NodeOf <- MCNodeOf
    MaxConnections = 1
    Faults = {"hello"}
CHECK_DEADLOCK FALSE
PROPERTIES
    StaleExpires
