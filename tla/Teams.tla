-------------------------------- MODULE Teams --------------------------------
(***************************************************************************)
(* The handlers for teams (api/teams.rs, api/v4/teams/) and channels       *)
(* (api/channels.rs, api/v4/channels/) that write memberships, and the     *)
(* default channels of a team (services/team_membership.rs).               *)
(***************************************************************************)
EXTENDS Membership

Others == <<policy, ingroup>>
Leaving(X, U) == left' = left \cup (X \X U)

-----------------------------------------------------------------------------
(* Default channels (services/team_membership.rs). *)

JoinDefaults(u) == <<Op("defaults", u, None, {}), Op("policies", u, None, {})>>

\* Default channels that are public by now, deleted ones included.
apply_default_channel_membership_for_team_join(t, o) ==
    /\ o.do = "defaults"
    /\ InsertAll({c \in Defaults : OfType(c, {"public"})}, {o.x}, "member")
    /\ Continue(t, <<>>)
    /\ UNCHANGED <<Teamed, Others>>

ensure_default_channels_for_team(t, o) ==
    /\ o.do = "channels"
    /\ IF TeamExists /\ \E c \in Defaults : chan[c] = None
       THEN \E c \in Defaults :
               /\ chan[c] = None
               /\ chan' = [chan EXCEPT ![c] = Row("public", o.x)]
               /\ Continue(t, <<o>>)
       ELSE UNCHANGED chan /\ Continue(t, <<>>)
    /\ UNCHANGED <<open, tokens, role, Others>>

\* The INSERT of a member that a task still has to do.
InsertMember(t, o) ==
    /\ o.do = "insert"
    /\ IF TargetExists(o.s) THEN Insert(o.s, o.x, "admin") ELSE UNCHANGED role
    /\ Continue(t, <<>>)
    /\ UNCHANGED <<Teamed, Others>>

\* Registration (api/auth.rs, oauth.rs, admin.rs) ends with the policies for new users.
register(t, u) ==
    /\ u \notin known
    /\ known' = known \cup {u}
    /\ requests + trouble < MaxEvents
    /\ requests' = requests + 1
    /\ Begin(t, 1, <<Op("new_user", u, None, {})>>)
    /\ UNCHANGED <<Teamed, role, Others, queue, left>>

-----------------------------------------------------------------------------
(* Teams. *)

\* api/teams.rs: TEAM_MANAGE, or an admin of the team.
ensure_team_management_access(a) == a \in Managers \/ role[Team][a] = "admin"
\* api/v4: SYSTEM_MANAGE, or an admin of the team.
ensure_team_admin_or_system_manage(a) == a \in Managers \/ role[Team][a] = "admin"

create_team(t, a) ==
    /\ a \in Managers /\ open = "absent"
    /\ open' = "closed"
    /\ Request(t, a, <<Op("insert", a, Team, {}), Op("channels", a, None, {})>> \o JoinDefaults(a))
    /\ UNCHANGED <<chan, tokens, role, Others, left>>

\* The row goes, and what refers to it with it.
delete_team(a) ==
    /\ TeamExists /\ ensure_team_management_access(a)
    /\ Statement(a)
    /\ open' = "deleted"
    /\ chan' = [c \in Channels |-> None]
    /\ tokens' = 0
    /\ DeleteAll(Targets, Users)
    /\ policy' = [p \in Policies |-> IF policy[p] = None THEN None
                                     ELSE IF policy[p].scope = "team" THEN None ELSE policy[p]]
    /\ Leaving(Targets, Users)
    /\ UNCHANGED ingroup

update_team(a, o) ==
    /\ TeamExists /\ ensure_team_management_access(a)
    /\ Statement(a)
    /\ open' = o
    /\ UNCHANGED <<chan, tokens, role, Others, left>>

\* The member is added, then the default channels and the policies are applied.
JoinTeam(t, a, u, r) ==
    /\ TeamExists
    /\ SetRole(Team, u, r)
    /\ Request(t, a, JoinDefaults(u))
    /\ UNCHANGED <<open, chan, Others, left>>

add_member(t, a, u) ==
    /\ ensure_team_management_access(a) /\ ~IsMember(Team, u)
    /\ JoinTeam(t, a, u, "member") /\ UNCHANGED tokens
join_team(t, u) == open = "open" /\ ~IsMember(Team, u) /\ JoinTeam(t, u, u, "member") /\ UNCHANGED tokens
\* ON CONFLICT the role is overwritten: an admin who is added again is a member.
add_team_member(t, a, u) == ensure_team_admin_or_system_manage(a) /\ JoinTeam(t, a, u, "member") /\ UNCHANGED tokens
\* For every user of the list, which holds one here.
add_team_members_batch(t, a, u) ==
    ensure_team_admin_or_system_manage(a) /\ JoinTeam(t, a, u, "member") /\ UNCHANGED tokens
\* A token admits once (SELECT ... FOR UPDATE and used_at in one transaction); invite_id needs an open team.
add_team_member_by_invite(t, u, token) ==
    /\ IF token THEN tokens > 0 /\ tokens' = tokens - 1 ELSE open = "open" /\ tokens' = tokens
    /\ JoinTeam(t, u, u, "member")

\* api/admin.rs: a plain INSERT, then the default channels; the policies wait for the worker.
admin_add_team_member(t, a, u, r) ==
    /\ a \in Managers /\ TeamExists /\ ~IsMember(Team, u)
    /\ SetRole(Team, u, r)
    /\ Request(t, a, <<Op("defaults", u, None, {})>>)
    /\ UNCHANGED <<Teamed, Others, left>>

\* Only the row of the team goes: channel memberships stay.
remove_member(a, u) ==
    /\ a \in Managers \/ (role[Team][a] = "admin" /\ role[Team][u] # "admin")
    /\ IsMember(Team, u)
    /\ Statement(a)
    /\ SetRole(Team, u, None)
    /\ Leaving({Team}, {u})
    /\ UNCHANGED <<Teamed, Others>>

remove_team_member(a, u) ==
    /\ ensure_team_admin_or_system_manage(a) /\ IsMember(Team, u)
    /\ Statement(a)
    /\ SetRole(Team, u, None)
    /\ Leaving({Team}, {u})
    /\ UNCHANGED <<Teamed, Others>>

admin_remove_team_member(a, u) ==
    /\ a \in Managers /\ IsMember(Team, u)
    /\ Statement(a)
    /\ SetRole(Team, u, None)
    /\ Leaving({Team}, {u})
    /\ UNCHANGED <<Teamed, Others>>

\* Out of the channels first, then out of the team.
leave_team(t, u) ==
    /\ IsMember(Team, u)
    /\ DeleteAll(Channels, {u})
    /\ Request(t, u, <<Op("leave", u, None, {})>>)
    /\ Leaving(Targets, {u})
    /\ UNCHANGED <<Teamed, Others>>

LeaveTeam(t, o) ==
    /\ o.do = "leave"
    /\ SetRole(Team, o.x, None)
    /\ Continue(t, <<>>)
    /\ UNCHANGED <<Teamed, Others>>

ChangeRole(a, x, u, r) ==
    /\ IsMember(x, u)
    /\ Statement(a)
    /\ SetRole(x, u, r)
    /\ UNCHANGED <<Teamed, Others, left>>

update_team_member_roles(a, u, r) == ensure_team_admin_or_system_manage(a) /\ ChangeRole(a, Team, u, r)
update_team_member_scheme_roles(a, u, r) == ensure_team_admin_or_system_manage(a) /\ ChangeRole(a, Team, u, r)

-----------------------------------------------------------------------------
(* Channels. *)

\* SYSTEM_MANAGE, or an admin of the channel (api/v4).
ensure_channel_admin_or_system_manage(a, c) == a \in Managers \/ role[c][a] = "admin"
\* The same, or the creator, member or not (api/channels.rs).
is_channel_creator_or_admin(a, c) == a \in Managers \/ chan[c].by = a \/ role[c][a] = "admin"

\* A channel row; its creator becomes an admin with the next statement.
NewChannel(t, a, c, type) ==
    /\ TeamExists /\ IsMember(Team, a) /\ chan[c] = None /\ c # Direct
    /\ chan' = [chan EXCEPT ![c] = Row(type, a)]
    /\ Request(t, a, <<Op("insert", a, c, {})>>)
    /\ UNCHANGED <<open, tokens, role, Others, left>>

create_channel(t, a, c, type) == NewChannel(t, a, c, type)
v4_create_channel(t, a, c, type) == NewChannel(t, a, c, type)

\* Found or created; both users become members either way.  The team is the creator's first one.
create_direct_channel_internal(t, a) ==
    /\ IsMember(Team, a) /\ (chan[Direct] = None \/ Exists(Direct))
    /\ chan' = [chan EXCEPT ![Direct] = IF Exists(Direct) THEN @ ELSE Row("direct", a)]
    /\ Request(t, a, <<Op("dm", a, None, Users)>>)
    /\ UNCHANGED <<open, tokens, role, Others, left>>

\* api/channels.rs: the live one of the team is found; a new one needs the other user in the team.
create_direct_channel_v1(t, a) ==
    /\ Live(Direct) \/ (TeamExists /\ chan[Direct] = None /\ \E u \in Users \ {a} : IsMember(Team, u))
    /\ chan' = [chan EXCEPT ![Direct] = IF Exists(Direct) THEN @ ELSE Row("direct", a)]
    /\ Request(t, a, <<Op("dm", a, None, Users)>>)
    /\ UNCHANGED <<open, tokens, role, Others, left>>

\* api/admin.rs: a channel with no members.
create_admin_channel(a, c, type) ==
    /\ a \in Managers /\ TeamExists /\ chan[c] = None /\ c # Direct
    /\ Statement(a)
    /\ chan' = [chan EXCEPT ![c] = Row(type, a)]
    /\ UNCHANGED <<open, tokens, role, Others, left>>

\* The row goes for good, and its members with it; links and policies that name it stay.
delete_admin_channel(a, c) ==
    /\ a \in Managers /\ Exists(c)
    /\ Statement(a)
    /\ chan' = [chan EXCEPT ![c] = [Row("gone", None) EXCEPT !.deleted = TRUE]]
    /\ DeleteAll({c}, Users)
    /\ Leaving({c}, Users)
    /\ UNCHANGED <<open, tokens, Others>>

DirectMember(t, o) ==
    /\ o.do = "dm"
    /\ IF o.set = {} THEN Continue(t, <<>>) /\ UNCHANGED role
       ELSE \E u \in o.set :
               /\ IF Exists(Direct) THEN Insert(Direct, u, "member") ELSE UNCHANGED role
               /\ Continue(t, <<[o EXCEPT !.set = @ \ {u}]>>)
    /\ UNCHANGED <<Teamed, Others>>

SetChannel(a, c, row) ==
    /\ Exists(c)
    /\ Statement(a)
    /\ chan' = [chan EXCEPT ![c] = row]
    /\ UNCHANGED <<open, tokens, role, Others, left>>

\* The members stay.
delete_channel(a, c) ==
    Live(c) /\ is_channel_creator_or_admin(a, c) /\ SetChannel(a, c, [chan[c] EXCEPT !.deleted = TRUE])
v4_delete_channel(a, c) ==
    Live(c) /\ ensure_channel_admin_or_system_manage(a, c) /\ SetChannel(a, c, [chan[c] EXCEPT !.deleted = TRUE])
restore_channel(a, c) ==
    Exists(c) /\ ensure_channel_admin_or_system_manage(a, c) /\ SetChannel(a, c, [chan[c] EXCEPT !.deleted = FALSE])
update_channel_privacy(a, c, type) ==
    Exists(c) /\ ensure_channel_admin_or_system_manage(a, c) /\ SetChannel(a, c, [chan[c] EXCEPT !.type = type])

AddToChannel(a, c, u, r) ==
    /\ Statement(a)
    /\ SetRole(c, u, r)
    /\ UNCHANGED <<Teamed, Others, left>>

\* api/channels.rs: oneself to a live public channel, others as an admin; the role is overwritten.
channel_add_member(a, c, u, r) ==
    /\ IF a = u THEN Live(c) ELSE Exists(c)
    /\ a = u => OfType(c, {"public"}) \/ IsMember(c, a)
    /\ (a # u \/ ~OfType(c, {"public"})) => IsMember(c, a) /\ (a \in Managers \/ role[c][a] = "admin")
    /\ AddToChannel(a, c, u, r)

\* api/v4: an admin of a private channel, any member of another one; a row that is there stays.
add_channel_member(a, c, u) ==
    /\ Exists(c)
    /\ IF OfType(c, {"private"}) THEN ensure_channel_admin_or_system_manage(a, c) ELSE IsMember(c, a)
    /\ ~IsMember(c, u)
    /\ AddToChannel(a, c, u, "member")

TakeFromChannel(a, c, u) ==
    /\ IsMember(c, u)
    /\ Statement(a)
    /\ SetRole(c, u, None)
    /\ Leaving({c}, {u})
    /\ UNCHANGED <<Teamed, Others>>

channel_remove_member(a, c, u) ==
    /\ a # u => IsMember(c, a) /\ (a \in Managers \/ role[c][a] = "admin")
    /\ TakeFromChannel(a, c, u)
remove_channel_member(a, c, u) ==
    /\ a # u => ensure_channel_admin_or_system_manage(a, c)
    /\ TakeFromChannel(a, c, u)

update_channel_member_roles(a, c, u, r) ==
    ensure_channel_admin_or_system_manage(a, c) /\ ChangeRole(a, c, u, r)
update_channel_member_scheme_roles(a, c, u, r) ==
    ensure_channel_admin_or_system_manage(a, c) /\ ChangeRole(a, c, u, r)

=============================================================================
