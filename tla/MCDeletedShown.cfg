\* One administrator and one other user; the posts they read, edit and delete.
SPECIFICATION PostsSpec
CONSTANTS
    None = None
    Users = {u1, u2}
    Bot = Bot
    Tasks = {t1, t2}
    Reconciler = Reconciler
    Admins = {u1}
    MaxPosts = 3
    MaxEvents = 3
    MaxTrouble = 0
INVARIANT
    DeletedIsHidden
CHECK_DEADLOCK FALSE
