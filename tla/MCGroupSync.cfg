\* Two users, one of them a manager, a team with three channels and one policy.
SPECIFICATION SyncSpec
CONSTANTS
    Users = {u1, u2}
    Managers = {u1}
    Team = team
    Channels = {pub, prv, dm}
    Defaults = {pub}
    Direct = dm
    Policies = {p}
    Groups = {ldap, kcg, custom}
    Ldap = ldap
    Keycloak = kcg
    Custom = custom
    None = None
    Tasks = {t1, t2}
    Worker = worker
    Syncer = syncer
    MaxQueue = 1
    MaxTrouble = 1
    MaxEvents = 2
INVARIANT TrackedIsDesired
PROPERTY PoliciesConverge
CHECK_DEADLOCK FALSE
