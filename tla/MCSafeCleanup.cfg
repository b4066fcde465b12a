SPECIFICATION SyncSpec
CONSTANTS
    Users = {u1, u2}
    Managers = {u1}
    Team = team
    Channels = {pub, dm}
    Defaults = {pub}
    Direct = dm
    Policies = {}
    Groups = {ldap, kcg, custom}
    Ldap = ldap
    Keycloak = kcg
    Custom = custom
    None = None
    Tasks = {t1, t2}
    Worker = worker
    Syncer = syncer
    MaxQueue = 0
    MaxTrouble = 0
    MaxEvents = 3
INVARIANT SafeCleanup
CHECK_DEADLOCK FALSE
