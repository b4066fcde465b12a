\* One event at most: Keycloak has a group, or gets or loses it.
SPECIFICATION SyncSpec
CONSTANTS
    Users = {u1, u2}
    Managers = {u1}
    Team = team
    Channels = {pub, prv, dm}
    Defaults = {pub}
    Direct = dm
    Policies = {p}
    Groups = {ldap, kcg, custom}
    Ldap = ldap
    Keycloak = kcg
    Custom = custom
    None = None
    Tasks = {t1, t2}
    Worker = worker
    Syncer = syncer
    MaxQueue = 1
    MaxTrouble = 0
    MaxEvents = 1
PROPERTY GroupsFollowKeycloak
CHECK_DEADLOCK FALSE
