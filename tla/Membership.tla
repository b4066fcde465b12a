----------------------------- MODULE Membership -----------------------------
(***************************************************************************)
(* Who is a member of a team and of its channels: the tables team_members  *)
(* and channel_members, the handlers that write them (api/teams.rs,        *)
(* api/channels.rs, api/v4/teams/, api/v4/channels/), the membership       *)
(* policies (services/membership_policies.rs) and the worker that applies  *)
(* them again every hour (services/membership_reconciliation.rs).          *)
(*                                                                         *)
(* There is one team with a few channels.  A task carries out a list of    *)
(* instructions, one SQL statement each, with other tasks in between; a    *)
(* handler of one statement after its checks is one step.  Names, headers, *)
(* notification settings and broadcasts are left out.                      *)
(***************************************************************************)
EXTENDS Naturals, Sequences, FiniteSets

CONSTANTS
    Users,
    Managers,      \* users with TEAM_MANAGE, CHANNEL_MANAGE and SYSTEM_MANAGE
    Team,
    Channels,      \* the ids channels of the team can have
    Defaults,      \* those named in the configured default channels
    Direct,        \* the direct channel of Users
    Policies,
    Groups,
    None,
    Tasks,
    Worker,        \* the task of ReconciliationWorker::run
    Syncer,        \* the task of spawn_periodic_keycloak_sync
    MaxQueue,      \* capacity of the worker's queue
    MaxTrouble,    \* bound on failures and on tasks begun while another runs
    MaxEvents      \* bound on requests and trouble together

ASSUME MembershipAssumption ==
    /\ Managers \subseteq Users /\ Defaults \subseteq Channels /\ Direct \in Channels \ Defaults
    /\ Team \notin Channels /\ {MaxQueue, MaxTrouble, MaxEvents} \subseteq Nat

VARIABLES
    known,      \* users that have registered
    open,       \* the team: "absent", "open" to anyone, "closed" or "deleted"
    chan,       \* channel -> type, deleted_at and creator; None: no row yet, "gone": no row any more
    role,       \* team_members and channel_members: target -> user -> role, or None
    tokens,     \* team_invite_tokens that are not used
    policy,     \* auto_membership_policies: policy -> enabled, source, target; None: no row
    ingroup,    \* group_members: group -> users
    queue,      \* FullReconciliation tasks in the worker's queue
    task,       \* task -> what is left to do
    left,       \* history: memberships that a request, not the sync, took away
    trouble,    \* failures, and tasks begun while another was running
    requests    \* requests so far

Teamed == <<open, chan, tokens>>
MemberVars == <<known, Teamed, role, policy, ingroup, queue, task, left, trouble, requests>>

Targets == {Team} \cup Channels
Workers == Tasks \cup {Worker, Syncer}

\* An instruction: what to do, for which policy, user or group, for which of its links, on which set.
Op(do, x, s, set) == [do |-> do, x |-> x, s |-> s, set |-> set]

Row(type, a) == [type |-> type, deleted |-> FALSE, by |-> a]

MembershipInit ==
    /\ known \in {Users, Managers}
    /\ open \in {"absent", "open"}
    /\ chan = [c \in Channels |-> IF c \in Defaults /\ open = "open" THEN Row("public", None) ELSE None]
    /\ role = [x \in Targets |-> [u \in Users |-> IF x = Team /\ u \in Managers /\ open = "open"
                                                  THEN "admin" ELSE None]]
    /\ tokens = IF open = "open" THEN 1 ELSE 0
    /\ policy = [p \in Policies |-> None]
    /\ queue = 0
    /\ task = [t \in Workers |-> <<>>]
    /\ left = {}
    /\ trouble = 0
    /\ requests = 0

TeamExists == open \in {"open", "closed"}
IsMember(x, u) == role[x][u] # None
Exists(c) == IF chan[c] = None THEN FALSE ELSE chan[c].type # "gone"
Live(c) == IF Exists(c) THEN ~chan[c].deleted ELSE FALSE
OfType(c, types) == IF Exists(c) THEN chan[c].type \in types ELSE FALSE
TargetExists(x) == IF x = Team THEN TeamExists ELSE Exists(x)

-----------------------------------------------------------------------------
(* Tasks and requests. *)

Busy(t) == task[t] # <<>>
Quiet == \A t \in Workers : ~Busy(t)

Begin(t, new, todo) ==
    /\ ~Busy(t)
    /\ t \in Tasks => t = CHOOSE x \in Tasks : ~Busy(x)
    /\ task' = [task EXCEPT ![t] = todo]
    /\ IF \E x \in Workers \ {t} : Busy(x)
       THEN trouble < MaxTrouble /\ trouble + requests + new < MaxEvents /\ trouble' = trouble + 1
       ELSE trouble' = trouble

Continue(t, more) ==
    /\ task' = [task EXCEPT ![t] = more \o Tail(@)]
    /\ UNCHANGED <<known, left, trouble, requests, queue>>

\* A request that a task goes on with, begun by a user who has registered.
Request(t, a, todo) ==
    /\ a \in known
    /\ requests + trouble < MaxEvents
    /\ requests' = requests + 1
    /\ Begin(t, 1, todo)
    /\ UNCHANGED <<known, queue>>

\* A request of one statement.
Statement(a) ==
    /\ a \in known
    /\ requests + trouble < MaxEvents
    /\ requests' = requests + 1
    /\ UNCHANGED <<known, task, trouble, queue>>

SetRole(x, u, r) == role' = [role EXCEPT ![x][u] = r]
\* INSERT ... ON CONFLICT DO NOTHING
Insert(x, u, r) == SetRole(x, u, IF IsMember(x, u) THEN role[x][u] ELSE r)
InsertAll(C, U, r) ==
    role' = [x \in Targets |-> [u \in Users |-> IF x \in C /\ u \in U /\ ~IsMember(x, u) THEN r ELSE role[x][u]]]
DeleteAll(C, U) ==
    role' = [x \in Targets |-> [u \in Users |-> IF x \in C /\ u \in U THEN None ELSE role[x][u]]]

-----------------------------------------------------------------------------
(* Policies (services/membership_policies.rs). *)

\* Is the user covered?  AuthService, Role and Org go by columns of the user: those sources are "managers".
Covers(p, u) ==
    CASE policy[p].source = "all" -> TRUE
      [] policy[p].source = "managers" -> u \in Managers
      [] OTHER -> u \in ingroup[policy[p].source]

Enabled(p) == IF policy[p] = None THEN FALSE ELSE policy[p].enabled

get_applicable_policies(u) == {p \in Policies : Enabled(p) /\ Covers(p, u)}

\* Mutant: team policies are left to the caller, who has none.
apply_global_only(t, o) ==
    /\ o.do = "policies"
    /\ LET P == {p \in get_applicable_policies(o.x) : policy[p].scope = "global"}
       IN  Continue(t, <<Op("apply", o.x, None, {policy[p].target : p \in P})>>)
    /\ UNCHANGED <<Teamed, role, policy, ingroup>>

\* The targets of the policies that apply to the user, all of this team.
apply_auto_membership_for_team_join(t, o) ==
    /\ o.do = "policies"
    /\ Continue(t, <<Op("apply", o.x, None, {policy[p].target : p \in get_applicable_policies(o.x)})>>)
    /\ UNCHANGED <<Teamed, role, policy, ingroup>>

\* Before the user is in any team: global policies only.
apply_auto_membership_for_new_user(t, o) ==
    /\ o.do = "new_user"
    /\ LET P == {p \in get_applicable_policies(o.x) : policy[p].scope = "global"}
       IN  Continue(t, <<Op("apply", o.x, None, {policy[p].target : p \in P})>>)
    /\ UNCHANGED <<Teamed, role, policy, ingroup>>

\* One target of the list.  A target that is gone is skipped, or fails its INSERT and is logged.
ApplyTarget(t, o) ==
    /\ o.do = "apply"
    /\ IF o.set = {} THEN Continue(t, <<>>) /\ UNCHANGED role
       ELSE \E x \in o.set :
               /\ Continue(t, <<[o EXCEPT !.set = @ \ {x}]>>)
               /\ IF TargetExists(x) THEN Insert(x, o.x, "member") ELSE UNCHANGED role
    /\ UNCHANGED <<Teamed, policy, ingroup>>

SetPolicy(a, p, row) ==
    /\ a \in Managers
    /\ Statement(a)
    /\ policy' = [policy EXCEPT ![p] = row]
    /\ UNCHANGED <<Teamed, role, ingroup, left>>

\* One transaction; the targets must exist.
create_policy(a, p, source, scope, x) ==
    /\ policy[p] = None /\ TargetExists(x)
    /\ scope = "team" => TeamExists
    /\ SetPolicy(a, p, [enabled |-> TRUE, source |-> source, scope |-> scope, target |-> x])

update_policy(a, p, enabled, x) ==
    /\ policy[p] # None /\ TargetExists(x)
    /\ SetPolicy(a, p, [policy[p] EXCEPT !.enabled = enabled, !.target = x])

delete_policy(a, p) == policy[p] # None /\ SetPolicy(a, p, None)

\* An administrator has the policies applied to a user at once.
trigger_user_resync(t, a, u) ==
    /\ a \in Managers /\ IsMember(Team, u)
    /\ Request(t, a, <<Op("policies", u, None, {})>>)
    /\ UNCHANGED <<Teamed, role, policy, ingroup, left>>

-----------------------------------------------------------------------------
(* The worker (services/membership_reconciliation.rs). *)

spawn_periodic_reconciliation ==
    /\ queue < MaxQueue
    /\ queue' = queue + 1
    /\ UNCHANGED <<known, Teamed, role, policy, ingroup, task, left, trouble, requests>>

\* recv and process_task
RunWorker ==
    /\ queue > 0
    /\ queue' = queue - 1
    /\ Begin(Worker, 0, <<Op("full", None, None, {})>>)
    /\ UNCHANGED <<known, Teamed, role, policy, ingroup, left, requests>>

full_reconciliation(t, o) ==
    /\ o.do = "full"
    /\ Continue(t, <<Op("each_policy", None, None, {p \in Policies : Enabled(p)})>>)
    /\ UNCHANGED <<Teamed, role, policy, ingroup>>

\* The policies one by one; a policy that is gone or disabled by now is skipped.
apply_policy(t, o) ==
    /\ o.do = "each_policy"
    /\ IF o.set = {} THEN Continue(t, <<>>)
       ELSE \E p \in o.set :
               LET U == IF Enabled(p) THEN {u \in known : Covers(p, u)} ELSE {}
               IN  Continue(t, <<Op("each_user", p, None, U), [o EXCEPT !.set = @ \ {p}]>>)
    /\ UNCHANGED <<Teamed, role, policy, ingroup>>

\* The users one by one, in the teams they are in.
ApplyToUser(t, o) ==
    /\ o.do = "each_user"
    /\ IF o.set = {} THEN Continue(t, <<>>)
       ELSE \E u \in o.set :
               Continue(t, (IF IsMember(Team, u) THEN <<Op("policies", u, None, {})>> ELSE <<>>)
                           \o <<[o EXCEPT !.set = @ \ {u}]>>)
    /\ UNCHANGED <<Teamed, role, policy, ingroup>>

=============================================================================
