SPECIFICATION SessionSpec
CONSTANTS
    Conns = {c1}
    Users = {alice}
    Events = {post}
    Sockets = {s1, s2}
    Devices = {phone}
    Tasks <- MCTasks
    UserOf <- MCUserOf
    MessageBufferSize = 2
    ConnectionTtl = 1
    MaxSequence = 2
    CommandCapacity = 2
    HubCapacity = 1
    MaxMissedHeartbeats = 0
    TimePasses = FALSE
    StallingSockets = {}
    NoUser = NoUser
    Idle = Idle
    NoSocket = NoSocket
    NoConn = NoConn
INVARIANTS
    NumbersIdentifyEvents
    NoSecondDelivery
SYMMETRY SocketSymmetry
