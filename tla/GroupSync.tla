------------------------------ MODULE GroupSync ------------------------------
(***************************************************************************)
(* Groups and their links to teams and channels: the handlers of           *)
(* api/v4/groups.rs and the synchronisation with Keycloak                  *)
(* (services/keycloak_sync.rs), over the memberships of module Teams.      *)
(*                                                                         *)
(* A link with auto_add makes the members of the group members of its      *)
(* team or channel.  Memberships that a link has inserted are tracked in   *)
(* group_syncable_memberships, so that the link can take them away again.  *)
(* Keycloak changes on its own.  PostgreSQL rejects the INSERT of          *)
(* upsert_group: its ON CONFLICT (source, remote_id) matches no unique     *)
(* index but a partial one, whose predicate it does not repeat             *)
(* (migrations/20260228183000_groups_syncables.sql:16-18).  So every       *)
(* synchronisation ends at the first group of Keycloak, no group of        *)
(* Keycloak ever comes to be, and what the code does after that INSERT is  *)
(* not here.  Left out: scheme_admin, the flag that restricts direct       *)
(* messages, and the events.                                               *)
(***************************************************************************)
EXTENDS Teams

CONSTANTS
    Ldap,        \* a group that administrators link (source "ldap")
    Keycloak,    \* a group of Keycloak
    Custom       \* a group made in the application, which cannot be linked

ASSUME GroupAssumption ==
    Groups = {Ldap, Keycloak, Custom} /\ Custom \notin {Ldap, Keycloak} /\ None \notin BOOLEAN

VARIABLES
    grp,        \* groups: group -> "absent", "live" or "deleted"
    link,       \* group_syncables: group -> target -> auto_add, or None
    tracked,    \* group_syncable_memberships: group, link, target, user
    kc          \* Keycloak: has it a group?

GroupVars == <<grp, link, tracked>>
SyncVars == <<MemberVars, GroupVars, kc>>
Memberships == <<Teamed, role, policy>>

SyncInit ==
    /\ MembershipInit
    /\ ingroup = [g \in Groups |-> IF g = Ldap THEN known \ Managers ELSE {}]
    /\ grp = [g \in Groups |-> IF g = Ldap THEN "live" ELSE "absent"]
    /\ link = [g \in Groups |-> [x \in Targets |-> None]]
    /\ tracked = {}
    /\ kc = TRUE

Linked(g, s) == link[g][s] # None
Track(g, s, x, u) == [g |-> g, s |-> s, x |-> x, u |-> u]
TrackedBy(g, s) == {m \in tracked : m.g = g /\ m.s = s}

-----------------------------------------------------------------------------
(* Reconciling one link (the same code in api/v4/groups.rs and keycloak_sync.rs). *)

\* Where a link puts the members U of its group: a channel's team as well.
Desired(g, s, U) == {Track(g, s, x, u) : x \in {s, Team}, u \in U}

Reconcile(g, s) == Op("reconcile", g, s, {})

\* The link is read; it may be gone.
reconcile_group_syncable(t, o) ==
    /\ o.do = "reconcile"
    /\ Continue(t, IF Linked(o.x, o.s) THEN <<Op(IF link[o.x][o.s] THEN "members_of" ELSE "tracked_of", o.x, o.s, {})>>
                   ELSE <<>>)
    /\ UNCHANGED <<Memberships, ingroup, GroupVars>>

ReadGroupMembers(t, o) ==
    /\ o.do = "members_of"
    /\ Continue(t, <<Op("tracked_of", o.x, o.s, Desired(o.x, o.s, ingroup[o.x]))>>)
    /\ UNCHANGED <<Memberships, ingroup, GroupVars>>

\* What is tracked is compared with what is desired: insert what is missing, take away the rest.
ReadTracked(t, o) ==
    /\ o.do = "tracked_of"
    /\ LET T == TrackedBy(o.x, o.s)
       IN  Continue(t, <<Op("ensure", o.x, o.s, o.set \ T), Op("cleanup", o.x, o.s, T \ o.set)>>)
    /\ UNCHANGED <<Memberships, ingroup, GroupVars>>

\* A membership that was there before is not tracked.  A target that is gone fails the INSERT, and the task.
ensure_membership(t, o) ==
    /\ o.do = "ensure"
    /\ IF o.set = {} THEN Continue(t, <<>>) /\ UNCHANGED role
       ELSE \E m \in o.set :
               /\ Insert(m.x, m.u, "member")
               /\ IF TargetExists(m.x)
                  THEN Continue(t, (IF IsMember(m.x, m.u) THEN <<>> ELSE <<Op("track", o.x, o.s, {m})>>)
                                   \o <<[o EXCEPT !.set = @ \ {m}]>>)
                  ELSE FALSE
    /\ UNCHANGED <<Teamed, policy, ingroup, GroupVars>>

\* It fails the same way in every round, so it counts as one failure.
TargetIsGone(t, o) ==
    /\ o.do = "ensure"
    /\ \E m \in o.set : ~TargetExists(m.x)
    /\ task' = [task EXCEPT ![t] = <<>>]
    /\ trouble' = IF trouble = 0 THEN 1 ELSE trouble
    /\ UNCHANGED <<known, queue, left, requests, Memberships, ingroup, GroupVars>>

TrackMembership(t, o) ==
    /\ o.do = "track"
    /\ tracked' = tracked \cup o.set
    /\ Continue(t, <<>>)
    /\ UNCHANGED <<Memberships, ingroup, grp, link>>

\* The rows of the list one by one: untrack, look for another link, delete the membership.
Untrack(t, o) ==
    /\ o.do = "cleanup"
    /\ IF o.set = {} THEN Continue(t, <<>>) /\ UNCHANGED tracked
       ELSE \E m \in o.set :
               /\ tracked' = tracked \ {m}
               /\ Continue(t, <<Op("kept", o.x, o.s, {m}), [o EXCEPT !.set = @ \ {m}]>>)
    /\ UNCHANGED <<Memberships, ingroup, grp, link>>

\* kept_by_other_syncable
cleanup_tracking_membership(t, o) ==
    /\ o.do = "kept"
    /\ LET kept == \E m \in o.set, n \in tracked : n.x = m.x /\ n.u = m.u
       IN  Continue(t, IF kept THEN <<>> ELSE <<[o EXCEPT !.do = "expel"]>>)
    /\ UNCHANGED <<Memberships, ingroup, GroupVars>>

Expel(t, o) ==
    /\ o.do = "expel"
    /\ \E m \in o.set : SetRole(m.x, m.u, None)
    /\ Continue(t, <<>>)
    /\ UNCHANGED <<Teamed, policy, ingroup, GroupVars>>

cleanup_unlinked_syncable(t, o) ==
    /\ o.do = "unlinked"
    /\ Continue(t, <<Op("cleanup", o.x, o.s, TrackedBy(o.x, o.s))>>)
    /\ UNCHANGED <<Memberships, ingroup, GroupVars>>

\* All links of the group.
ReconcileAll(g) == Op("each_link", g, None, {})

reconcile_group_syncables(t, o) ==
    /\ o.do = "each_link"
    /\ Continue(t, <<Op("links", o.x, None, {s \in Targets : Linked(o.x, s)})>>)
    /\ UNCHANGED <<Memberships, ingroup, GroupVars>>

NextLink(t, o) ==
    /\ o.do = "links"
    /\ IF o.set = {} THEN Continue(t, <<>>)
       ELSE \E s \in o.set : Continue(t, <<Reconcile(o.x, s), [o EXCEPT !.set = @ \ {s}]>>)
    /\ UNCHANGED <<Memberships, ingroup, GroupVars>>

-----------------------------------------------------------------------------
(* Handlers (api/v4/groups.rs). *)

can_manage_system_groups(a) == a \in Managers

GroupRequest(a, g, state) ==
    /\ can_manage_system_groups(a)
    /\ Statement(a)
    /\ grp' = [grp EXCEPT ![g] = state]
    /\ UNCHANGED <<Memberships, left, link, tracked, kc>>

\* Only custom groups are made here, the group and its members in one transaction.
create_group(a, U) ==
    /\ grp[Custom] = "absent"
    /\ GroupRequest(a, Custom, "live")
    /\ ingroup' = [ingroup EXCEPT ![Custom] = U]

\* Members, links and what they track stay.
delete_group(a, g) == grp[g] # "absent" /\ GroupRequest(a, g, "deleted") /\ UNCHANGED ingroup
restore_group(a, g) == grp[g] # "absent" /\ GroupRequest(a, g, "live") /\ UNCHANGED ingroup

\* Groups of LDAP and of plugins only.
ensure_group_is_syncable(g) == g # Custom
ensure_syncable_exists(s) == IF s = Team THEN TeamExists ELSE Live(s)

\* A manager; or an admin of the team, or of the channel.
verify_link_unlink_permission(a, s) ==
    \/ can_manage_system_groups(a)
    \/ role[s][a] = "admin"
    \/ role[Team][a] = "admin"

LinkRequest(t, a, g, s, row, todo) ==
    /\ grp[g] = "live" /\ ensure_group_is_syncable(g)
    /\ ensure_syncable_exists(s) /\ verify_link_unlink_permission(a, s)
    /\ link' = [link EXCEPT ![g][s] = row]
    /\ Request(t, a, todo)
    /\ UNCHANGED <<Memberships, ingroup, left, grp, tracked, kc>>

link_group_syncable_by_kind(t, a, g, s, auto_add) == LinkRequest(t, a, g, s, auto_add, <<Reconcile(g, s)>>)

\* Mutant: the tracked memberships are left for the next reconciliation.
unlink_only(t, a, g, s) == Linked(g, s) /\ LinkRequest(t, a, g, s, None, <<Reconcile(g, s)>>)

unlink_group_syncable_by_kind(t, a, g, s) ==
    /\ Linked(g, s)
    /\ LinkRequest(t, a, g, s, None, <<Op("unlinked", g, s, {})>>)

patch_group_syncable_by_kind(t, a, g, s, auto_add) ==
    /\ Linked(g, s)
    /\ LinkRequest(t, a, g, s, auto_add, <<Reconcile(g, s)>>)

MembersRequest(t, a, g, U) ==
    /\ can_manage_system_groups(a) /\ grp[g] = "live"
    /\ ingroup' = [ingroup EXCEPT ![g] = U]
    /\ Request(t, a, <<ReconcileAll(g)>>)
    /\ UNCHANGED <<Memberships, left, GroupVars, kc>>

add_group_members(t, a, g, u) == MembersRequest(t, a, g, ingroup[g] \cup {u})
delete_group_members(t, a, g, u) == MembersRequest(t, a, g, ingroup[g] \ {u})

-----------------------------------------------------------------------------
(* Keycloak (services/keycloak_sync.rs). *)

\* An administrator of Keycloak makes its first group, or removes the last.
KeycloakChanges ==
    /\ requests + trouble < MaxEvents
    /\ requests' = requests + 1
    /\ kc' = ~kc
    /\ UNCHANGED <<known, queue, task, left, trouble, Memberships, ingroup, GroupVars>>

spawn_periodic_keycloak_sync ==
    /\ Begin(Syncer, 0, <<Op("fetch", Keycloak, None, {})>>)
    /\ UNCHANGED <<known, queue, requests, left, Memberships, ingroup, GroupVars, kc>>

\* POST of an administrator (api/v4/admin.rs): the same sync in the task of the request.
trigger_keycloak_sync(t, a) ==
    /\ a \in Managers
    /\ Request(t, a, <<Op("fetch", Keycloak, None, {})>>)
    /\ UNCHANGED <<Memberships, ingroup, left, GroupVars, kc>>

trigger_keycloak_user_sync(t, a, u) ==
    /\ a \in Managers /\ u \in known
    /\ Request(t, a, <<Op("fetch_user", Keycloak, None, {u})>>)
    /\ UNCHANGED <<Memberships, ingroup, left, GroupVars, kc>>

\* The groups as they are now, one after the other; with none, the groups of earlier runs would be
\* retired, and there are none.
run_full_sync(t, o) ==
    /\ o.do = "fetch"
    /\ Continue(t, IF kc THEN <<Op("upsert", o.x, None, {})>> ELSE <<>>)
    /\ UNCHANGED <<Memberships, ingroup, GroupVars>>

resync_user(t, o) ==
    /\ o.do = "fetch_user"
    /\ Continue(t, IF kc THEN <<Op("upsert", o.x, None, {})>> ELSE <<>>)
    /\ UNCHANGED <<Memberships, ingroup, GroupVars>>

\* The statement is rejected, whatever the group; the `?` of its caller ends the run.
upsert_group(t, o) ==
    /\ o.do = "upsert"
    /\ task' = [task EXCEPT ![t] = <<>>]
    /\ UNCHANGED <<known, queue, left, trouble, requests, Memberships, ingroup, GroupVars>>

-----------------------------------------------------------------------------
(* A statement fails, and with it the task; or the process stops. *)
Fails(t) ==
    /\ Busy(t)
    /\ trouble < MaxTrouble /\ trouble + requests < MaxEvents
    /\ trouble' = trouble + 1
    /\ task' = [task EXCEPT ![t] = <<>>]
    /\ UNCHANGED <<known, Teamed, role, policy, ingroup, queue, left, requests, GroupVars, kc>>

Crash ==
    /\ ~Quiet
    /\ trouble < MaxTrouble /\ trouble + requests < MaxEvents
    /\ trouble' = trouble + 1
    /\ task' = [t \in Workers |-> <<>>]
    /\ queue' = 0
    /\ UNCHANGED <<known, Teamed, role, policy, ingroup, left, requests, GroupVars, kc>>

PolicyStep(t, o) ==
    \/ apply_auto_membership_for_team_join(t, o) \/ apply_auto_membership_for_new_user(t, o) \/ ApplyTarget(t, o)
    \/ full_reconciliation(t, o) \/ apply_policy(t, o) \/ ApplyToUser(t, o)
    \/ apply_default_channel_membership_for_team_join(t, o) \/ ensure_default_channels_for_team(t, o)
    \/ InsertMember(t, o) \/ LeaveTeam(t, o) \/ DirectMember(t, o)

LinkStep(t, o) ==
    \/ reconcile_group_syncable(t, o) \/ ReadGroupMembers(t, o) \/ ReadTracked(t, o)
    \/ ensure_membership(t, o) \/ TargetIsGone(t, o) \/ TrackMembership(t, o)
    \/ Untrack(t, o) \/ cleanup_tracking_membership(t, o) \/ Expel(t, o)
    \/ cleanup_unlinked_syncable(t, o) \/ reconcile_group_syncables(t, o) \/ NextLink(t, o)

KeycloakStep(t, o) == run_full_sync(t, o) \/ resync_user(t, o) \/ upsert_group(t, o)

TaskStep(t) ==
    /\ Busy(t)
    /\ LET o == Head(task[t])
       IN  \/ PolicyStep(t, o) /\ UNCHANGED <<GroupVars, kc>>
           \/ LinkStep(t, o) /\ UNCHANGED kc
           \/ KeycloakStep(t, o) /\ UNCHANGED kc

TeamRequest(t, a) ==
    \/ register(t, a) \/ create_team(t, a) \/ delete_team(a) \/ join_team(t, a) \/ leave_team(t, a)
    \/ \E o \in {"open", "closed"} : update_team(a, o)
    \/ \E token \in BOOLEAN : add_team_member_by_invite(t, a, token)
    \/ \E u \in known :
          \/ add_member(t, a, u) \/ add_team_member(t, a, u) \/ add_team_members_batch(t, a, u)
          \/ remove_member(a, u) \/ remove_team_member(a, u) \/ trigger_user_resync(t, a, u)
          \/ admin_remove_team_member(a, u)
          \/ \E r \in {"member", "admin"} :
                \/ admin_add_team_member(t, a, u, r)
                \/ update_team_member_roles(a, u, r) \/ update_team_member_scheme_roles(a, u, r)

ChannelRequest(t, a) ==
    \/ create_direct_channel_internal(t, a) \/ create_direct_channel_v1(t, a)
    \/ \E c \in Channels :
          \/ delete_channel(a, c) \/ v4_delete_channel(a, c) \/ restore_channel(a, c)
          \/ delete_admin_channel(a, c)
          \/ \E type \in {"public", "private"} :
                \/ create_admin_channel(a, c, type)
                \/ create_channel(t, a, c, type) \/ v4_create_channel(t, a, c, type) \/ update_channel_privacy(a, c, type)
          \/ \E u \in known :
                \/ add_channel_member(a, c, u) \/ channel_remove_member(a, c, u) \/ remove_channel_member(a, c, u)
                \/ \E r \in {"member", "admin"} :
                      \/ channel_add_member(a, c, u, r)
                      \/ update_channel_member_roles(a, c, u, r) \/ update_channel_member_scheme_roles(a, c, u, r)

PolicyRequest(a) ==
    \E p \in Policies :
       \/ delete_policy(a, p)
       \/ \E x \in Targets :
             \/ \E enabled \in BOOLEAN : update_policy(a, p, enabled, x)
             \/ \E source \in {"all", "managers"} \cup Groups, scope \in {"team", "global"} :
                   create_policy(a, p, source, scope, x)

LinksRequest(t, a) ==
    \E g \in Groups, s \in Targets :
       \/ unlink_group_syncable_by_kind(t, a, g, s)
       \/ \E auto_add \in BOOLEAN :
             link_group_syncable_by_kind(t, a, g, s, auto_add) \/ patch_group_syncable_by_kind(t, a, g, s, auto_add)

GroupsRequest(t, a) ==
    \/ trigger_keycloak_sync(t, a)
    \/ \E u \in known : create_group(a, {u}) \/ trigger_keycloak_user_sync(t, a, u)
    \/ \E g \in Groups :
          \/ delete_group(a, g) \/ restore_group(a, g)
          \/ \E u \in known : add_group_members(t, a, g, u) \/ delete_group_members(t, a, g, u)

Periodic == (spawn_periodic_reconciliation \/ RunWorker) /\ UNCHANGED <<GroupVars, kc>>

Next ==
    \/ /\ requests + trouble < MaxEvents
       /\ \E a \in Users, t \in Tasks :
          \/ (TeamRequest(t, a) \/ ChannelRequest(t, a) \/ PolicyRequest(a)) /\ UNCHANGED <<GroupVars, kc>>
          \/ LinksRequest(t, a) \/ GroupsRequest(t, a)
    \/ KeycloakChanges \/ Periodic \/ spawn_periodic_keycloak_sync
    \/ \E t \in Workers : TaskStep(t) \/ Fails(t)
    \/ Crash

\* Tasks go on; the timers fire again and again.  Begin lets a task wait for the others only to
\* bound the model, so a timer that may begin again and again does.
Fairness ==
    /\ \A t \in Workers : WF_SyncVars(TaskStep(t))
    /\ WF_SyncVars(spawn_periodic_reconciliation /\ UNCHANGED <<GroupVars, kc>>)
    /\ SF_SyncVars(RunWorker /\ UNCHANGED <<GroupVars, kc>>)
    /\ SF_SyncVars(spawn_periodic_keycloak_sync)

SyncSpec == SyncInit /\ [][Next]_SyncVars /\ Fairness

-----------------------------------------------------------------------------
(* Properties. *)

\* What a link has inserted goes with it: once every task is done, each tracked membership has a link
\* that wants it (groups.rs, cleanup_unlinked_syncable and reconcile_group_syncable).  Nothing failed,
\* a target that is gone included, and no two tasks ran at once: otherwise rows are left behind, see
\* the README.
TrackedIsDesired ==
    (Quiet /\ trouble = 0) =>
        \A m \in tracked : link[m.g][m.s] = TRUE /\ m.u \in ingroup[m.g]

\* Whatever failed or was lost on the way, the hourly reconciliation makes everyone in the team whom
\* an enabled policy covers a member of its target (membership_reconciliation.rs, full_reconciliation).
PoliciesConverge ==
    <>[](\A p \in Policies : Enabled(p) =>
            \A u \in known : (Covers(p, u) /\ IsMember(Team, u) /\ TargetExists(policy[p].target)) =>
                IsMember(policy[p].target, u))

\* The periodic sync follows Keycloak: a group that Keycloak has is a live group here, and one that it
\* has no longer is not ("Synchronizes Keycloak groups and memberships into RustChat
\* groups/syncables.", keycloak_sync.rs:3).  It does not: every run ends at its first INSERT.
GroupsFollowKeycloak == <>[]((grp[Keycloak] = "live") <=> kc)

\* Everyone whom a live link wants to be a member is one, unless they or an administrator have ended
\* the membership: the cleanup of one link takes nothing that another link still gives.
SafeCleanup ==
    (Quiet /\ trouble = 0) =>
        \A s \in Targets : link[Ldap][s] = TRUE =>
            \A m \in Desired(Ldap, s, ingroup[Ldap]) :
                TargetExists(m.x) => IsMember(m.x, m.u) \/ <<m.x, m.u>> \in left

=============================================================================
