SPECIFICATION SessionSpec
CONSTANTS
    Conns = {c1}
    Users = {alice}
    Events = {}
    Sockets = {s1, s2}
    Devices = {phone}
    Tasks <- MCTasks
    UserOf <- MCUserOf
    MessageBufferSize = 2
    ConnectionTtl = 1
    MaxSequence = 0
    CommandCapacity = 1
    HubCapacity = 1
    MaxMissedHeartbeats = 0
    TimePasses = FALSE
    StallingSockets = {}
    NoUser = NoUser
    Idle = Idle
    NoSocket = NoSocket
    NoConn = NoConn
PROPERTY
    CleanupSparesLiveSession
