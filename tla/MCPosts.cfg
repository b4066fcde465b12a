\* Two users, of whom one is an administrator, two tasks beside the reconciler.
SPECIFICATION PostsSpec
CONSTANTS
    None = None
    Users = {u1, u2}
    Bot = Bot
    Tasks = {t1, t2}
    Reconciler = Reconciler
    Admins = {u1}
    MaxPosts = 3
    MaxEvents = 3
    MaxTrouble = 1
INVARIANTS
    UnreadIsExact
    RepliesAreCounted
PROPERTY CountsConverge
CHECK_DEADLOCK FALSE
