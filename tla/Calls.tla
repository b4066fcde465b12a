------------------------------- MODULE Calls -------------------------------
(***************************************************************************)
(* The calls plugin (backend/src/api/v4/calls_plugin/mod.rs) in one        *)
(* channel: HTTP handlers, websocket actions and timeouts, each a task on  *)
(* one node, over the call state manager of module CallState, the SFUs of  *)
(* the nodes (sfu/manager.rs, sfu/mod.rs) and the call's thread post.      *)
(*                                                                         *)
(* A handler first looks the call up and decides (one step, `Start`); what *)
(* it then does is a list of instructions, `todo`, that its task carries   *)
(* out one at a time.  An instruction may leave two things to be done      *)
(* before the next one: to copy what a lookup found in Redis (`found`),    *)
(* and to send the commands of a write (`io`).  Each of these is a step,   *)
(* and other tasks run in between.  Broadcasts and push notifications      *)
(* change no state and are left out, except that broadcasting the state of *)
(* a call may create its thread post.                                      *)
(***************************************************************************)
EXTENDS CallState

CONSTANTS
    Tasks,
    Admins,       \* the users with ADMIN_FULL
    MaxRequests,  \* bound on the requests of a behaviour
    MaxOverlap,   \* bound on the tasks that begin while another runs
    MaxFaults     \* bound on the failures

VARIABLES
    task,       \* task -> its node, is it an HTTP request, what is left to do, the call
                \* as a host request has read it, the value mutate_call has read (or
                \* None), the calls to copy and the command to send (or None)
    sfu,        \* node -> call -> the sessions in its SFU, or None
    timers,     \* node -> call -> the timeouts that are pending
    enabled,    \* node -> CHANNEL_CALLS_ENABLED
    posts,      \* call -> its thread posts, each open or ended
    requests,   \* the requests so far
    faults,     \* the failures so far
    overlap,    \* history: how often a task began while another was running
    lost        \* history: has mutate_call overwritten a change of the call since its
                \* read, or its removal?

CallVars == <<ManagerVars, task, sfu, timers, enabled, posts, requests, faults, overlap, lost>>

Op(c, do, u, v) == [c |-> c, do |-> do, u |-> u, v |-> v]

Idle == [node |-> None, http |-> FALSE, snap |-> None, value |-> None, todo |-> <<>>, found |-> {}, io |-> None]

CallsInit ==
    /\ ManagerInit
    /\ task = [t \in Tasks |-> Idle]
    /\ sfu = [n \in Nodes |-> [c \in CallIds |-> None]]
    /\ timers = [n \in Nodes |-> [c \in CallIds |-> 0]]
    /\ enabled = [n \in Nodes |-> TRUE]
    /\ posts = [c \in CallIds |-> <<>>]
    /\ requests = 0
    /\ faults = 0
    /\ overlap = 0
    /\ lost = FALSE

IsDone(k) == k.todo = <<>> /\ k.found = {} /\ k.io = None

Busy(t) == ~IsDone(task[t])

\* Task t becomes k, or idle if nothing is left to do.
Becomes(t, k) == task' = [task EXCEPT ![t] = IF IsDone(k) THEN Idle ELSE k]

\* The first idle task and the first unused id stand for all of them.
IsNext(t) == t = CHOOSE x \in Tasks : ~Busy(x)

\* The calls that a task has in hand.
InHand(k) ==
    {k.todo[i].c : i \in DOMAIN k.todo} \cup {p[1] : p \in k.found} \cup (IF k.io = None THEN {} ELSE {k.io.c})

\* No call has this id yet.
Unused(c) ==
    /\ \A n \in Nodes : local[n].calls[c] = None /\ local[n].index # c /\ sfu[n][c] = None /\ timers[n][c] = 0
    /\ redis[c] = None /\ channel # c /\ c \notin active /\ posts[c] = <<>>
    /\ \A t \in Tasks : c \notin InHand(task[t])

Fresh(c) == Unused(c) /\ c = CHOOSE x \in CallIds : Unused(x)

\* A task begins on node n: it has looked up calls, found those of `found` in Redis
\* and has read `call` (or none).
Start(t, n, http, call, found, todo) ==
    /\ ~Busy(t)
    /\ IsNext(t)
    /\ Becomes(t, [node |-> n, http |-> http, value |-> None, todo |-> todo, found |-> found, io |-> None,
                   snap |-> IF todo # <<>> /\ Last(todo).do = "authorize" THEN call ELSE None])
    /\ IF (todo # <<>> \/ found # {}) /\ \E x \in Tasks \ {t} : Busy(x)
       THEN overlap < MaxOverlap /\ overlap' = overlap + 1
       ELSE overlap' = overlap
    /\ UNCHANGED ManagerVars

\* A request, which looks the call of the channel up.
Request(t, n, http, todo) ==
    /\ requests' = requests + 1
    /\ Start(t, n, http, channel_call(n), FoundByChannel, todo)

\* A request that looks all calls up.
RequestAll(t, n, http, todo) ==
    /\ requests' = requests + 1
    /\ Start(t, n, http, None, Found(active), todo)

-----------------------------------------------------------------------------
(* Lists of instructions.                                                  *)

\* Mutant: the thread is not looked up before a post is created.
ensure_another_call_thread(c, call) == <<Op(c, "post", None, None)>>

\* A thread the client named counts.
ensure_call_thread_id(c, call) ==
    IF call.thread = None THEN <<Op(c, "post", None, None)>> ELSE <<>>

Touch(c)    == <<Op(c, "touch", None, None)>>
State(c)    == <<Op(c, "state", None, None)>>
\* Mutant: the timeout is not scheduled.
NoTimeout(c) == <<>>

Timeout(c)  == <<Op(c, "timer", None, None)>>

\* Mutant: the call is removed before its thread is read.
end_call_unread(c) == <<Op(c, "drop", None, None)>>

end_call(c) == <<Op(c, "last_read", None, None), Op(c, "drop", None, None)>>

\* A user leaves (leave_call, handle_ws_leave_call, handle_ws_connection_closed
\* and host_remove_user all do this).
Leaving(c, u, s) ==
    <<Op(c, "remove", u, None), Op(c, "sfu_remove", u, s), Op(c, "reconcile", u, None)>>

-----------------------------------------------------------------------------
(* HTTP handlers that anybody in the channel may call.                     *)

\* What start_call does once it has found no call: the call is created without a
\* participant, then its thread, then its owner joins it.
BeginCall(d, u) ==
    <<Op(d, "create", u, None), Op(d, "post", None, None), Op(d, "add", u, "http"),
      Op(d, "sfu_add", u, "http")>> \o State(d) \o Timeout(d)

\* If there is a call, it is only returned.
start_call(t, n, u) ==
    LET c == get_call_by_channel(n) IN
    /\ enabled[n]
    /\ c = None
    /\ \E d \in CallIds : Fresh(d) /\ Request(t, n, TRUE, BeginCall(d, u))

join_call(t, n, u) ==
    LET c == get_call_by_channel(n) IN
    /\ enabled[n]
    /\ c # None
    /\ u \notin In(channel_call(n))
    /\ Request(t, n, TRUE, <<Op(c, "add", u, "http"), Op(c, "sfu_add", u, "http")>> \o State(c))

leave_call(t, n, u) ==
    LET c == get_call_by_channel(n) IN
    /\ c # None
    /\ LET p == channel_call(n).who[u] IN
       Request(t, n, TRUE, IF p # None THEN Leaving(c, u, p.session)
                           ELSE <<Op(c, "remove", u, None), Op(c, "reconcile", u, None)>>)

\* The responses that describe a call name its thread, which is created if there
\* is none.
build_call_state_response(c, call) == ensure_call_thread_id(c, call)
build_call_channel_info(c, call) == IF c = None THEN <<>> ELSE build_call_state_response(c, call)

get_call_state(t, n) ==
    LET c == get_call_by_channel(n) IN
    /\ c # None
    /\ Request(t, n, TRUE, build_call_state_response(c, channel_call(n)))

get_channel_state_mobile(t, n) ==
    Request(t, n, TRUE, build_call_channel_info(get_call_by_channel(n), channel_call(n)))

\* The calls are collected by channel: one of the channel's calls is described.
get_channels(t, n) ==
    LET calls == get_all_calls(n) IN
    \E c \in DOMAIN calls : RequestAll(t, n, TRUE, build_call_channel_info(c, calls[c]))

dismiss_notification(t, n, u) ==
    LET c == get_call_by_channel(n) IN
    /\ c # None
    /\ Request(t, n, TRUE, Touch(c) \o State(c))

\* The map is a static of the process.
set_channel_calls_enabled(t, n, b) ==
    /\ requests < MaxRequests
    /\ enabled' = [enabled EXCEPT ![n] = b]
    /\ Request(t, n, TRUE, build_call_channel_info(get_call_by_channel(n), channel_call(n)))
    /\ UNCHANGED <<sfu, timers, posts, faults, lost>>

-----------------------------------------------------------------------------
(* HTTP handlers for participants: what each does for participant u of     *)
(* call c, whose state it has read.                                        *)

mute_user(c)   == Touch(c)
unmute_user(c) == Touch(c)
raise_hand(c)  == Touch(c)
lower_hand(c)  == Touch(c)

toggle_screen_share(c, call, u) ==
    <<Op(c, "sharing", u, ~call.who[u].sharing)>> \o
    (IF ~call.who[u].sharing THEN <<Op(c, "sharer", u, None)>>
     ELSE IF call.sharer = u THEN <<Op(c, "sharer", None, None)>> ELSE <<>>)

\* A participant that the SFU does not know is registered again.
handle_offer(c, call, u)         == <<Op(c, "sfu_add", u, call.who[u].session)>>
handle_ice_candidate(c, call, u) == <<Op(c, "sfu_add", u, call.who[u].session)>>

ParticipantRequest(t, n, u) ==
    LET c == get_call_by_channel(n)
        call == channel_call(n) IN
    /\ c # None
    /\ u \in In(call)
    /\ \E todo \in {mute_user(c), unmute_user(c), raise_hand(c), lower_hand(c), toggle_screen_share(c, call, u),
                    handle_offer(c, call, u), handle_ice_candidate(c, call, u)} :
          Request(t, n, TRUE, todo)

-----------------------------------------------------------------------------
(* HTTP handlers for the host.  The host is normalized first; whether the  *)
(* caller may act is decided on the call as it is then.                    *)

can_manage_call(u, call) == call.host = u \/ u \in Admins

normalize_call_host_if_stale(c, call) ==
    IF HostIsStale(call)
    THEN <<Op(c, "host", select_next_host(call), None)>> \o State(c) \o
         <<Op(c, "reread", None, None)>>
    ELSE <<>>

host_mute(c)       == Touch(c)
host_lower_hand(c) == Touch(c)
host_make_moderator(c, call, x) == <<Op(c, "host", x, None)>> \o State(c)
host_remove_user(c, call, x) == Leaving(c, x, call.who[x].session)

host_mute_others(c, call, u) ==
    [i \in 1..Cardinality(In(call) \ {u}) |-> Op(c, "touch", None, None)]

host_screen_off(c, call, x) ==
    <<Op(c, "sharing", x, FALSE)>> \o
    (IF call.sharer = x THEN <<Op(c, "sharer", None, None)>> ELSE <<>>)

\* The host, an administrator, the only participant, or a participant whose host
\* is not in the call.
MayEnd(u, call) ==
    \/ can_manage_call(u, call)
    \/ u \in In(call) /\ (Cardinality(In(call)) <= 1 \/ call.host \notin In(call))

end_call_endpoint(c, call, u) == IF MayEnd(u, call) THEN end_call(c) ELSE <<>>

\* What a host request does once the call has been normalized: v is the request
\* and its target.
Granted(c, call, u, v) ==
    LET name == v[1]
        x == v[2]
    IN  IF name = "end" THEN end_call_endpoint(c, call, u)
        ELSE IF ~can_manage_call(u, call) THEN <<>>
        ELSE IF name = "mute_others" THEN host_mute_others(c, call, u)
        ELSE IF x \notin In(call) THEN <<>>
        ELSE CASE name = "mute"       -> host_mute(c)
               [] name = "lower_hand" -> host_lower_hand(c)
               [] name = "make"       -> host_make_moderator(c, call, x)
               [] name = "screen_off" -> host_screen_off(c, call, x)
               [] name = "remove"     -> IF x = u THEN <<>> ELSE host_remove_user(c, call, x)

HostRequests ==
    {<<"end", None>>, <<"mute_others", None>>} \cup
    ({"mute", "lower_hand", "make", "screen_off", "remove"} \X Users)

HostRequest(t, n, u) ==
    LET c == get_call_by_channel(n) IN
    /\ c # None
    /\ \E v \in HostRequests :
          Request(t, n, TRUE, normalize_call_host_if_stale(c, channel_call(n)) \o
                              <<Op(c, "authorize", u, v)>>)

-----------------------------------------------------------------------------
(* Websocket actions.                                                      *)

\* The thread a client may name when it joins: a post that is not the call's own.
NamedThread == 0

\* A call that a client's join creates may have the thread that the client names.
handle_ws_join_call(t, n, u) ==
    LET c == get_call_by_channel(n)
        Join(d) == <<Op(d, "ws_add", u, None), Op(d, "sfu_add", u, "ws")>> IN
    /\ enabled[n]
    /\ IF c # None
       THEN Request(t, n, FALSE, Join(c) \o ensure_call_thread_id(c, channel_call(n)) \o State(c))
       ELSE \E d \in CallIds, th \in {None, NamedThread} :
               /\ Fresh(d)
               /\ Request(t, n, FALSE, <<Op(d, "create", u, th)>> \o Join(d) \o
                     ensure_call_thread_id(d, NewCall(u, th)) \o Timeout(d) \o State(d))

find_call_for_session(n, u) ==
    LET calls == get_all_calls(n) IN
    {c \in DOMAIN calls : calls[c].who[u] # None /\ calls[c].who[u].session = "ws"}

\* The calls of the channels u is a member of: all users are members of the one channel.
find_member_calls_for_user(n, u) == DOMAIN get_all_calls(n)

\* The call that a websocket action of u is about and the session it acts for:
\* that of the connection, else the only call u is in, else the only call of a
\* channel u is a member of.  No pair if there is none or no unique one.
resolve_call_for_ws_connection(n, u) ==
    LET calls  == get_all_calls(n)
        mine   == find_call_for_session(n, u)
        joined == {c \in DOMAIN calls : u \in In(calls[c])}
    IN  IF mine # {} THEN {<<c, "ws">> : c \in mine}
        ELSE IF Cardinality(joined) = 1 THEN {<<c, calls[c].who[u].session>> : c \in joined}
        ELSE IF joined = {} /\ Cardinality(find_member_calls_for_user(n, u)) = 1
        THEN {<<c, "ws">> : c \in find_member_calls_for_user(n, u)}
        ELSE {}

handle_ws_leave_call(c, call, u, s) == Leaving(c, u, s)
handle_ws_sdp(c, call, u, s)        == <<Op(c, "sfu_add", u, s)>>
handle_ws_ice(c, call, u, s)        == <<Op(c, "sfu_add", u, s)>>
handle_ws_raise_hand(c)             == Touch(c)

\* A user who is not in the call is added first.
handle_ws_mute(c, call, u, s) ==
    (IF call.who[u] = None THEN <<Op(c, "add", u, s)>> ELSE <<>>) \o Touch(c)

handle_ws_action(t, n, u) ==
    \E r \in resolve_call_for_ws_connection(n, u) :
       LET c == r[1]
           call == get_all_calls(n)[c] IN
       \E todo \in {handle_ws_leave_call(c, call, u, r[2]), handle_ws_sdp(c, call, u, r[2]),
                    handle_ws_ice(c, call, u, r[2]), handle_ws_mute(c, call, u, r[2]),
                    handle_ws_raise_hand(c)} :
          RequestAll(t, n, FALSE, todo)

\* The connection is gone (after the grace timer of module WsSession).
handle_ws_connection_closed(t, n, u) ==
    \E c \in find_call_for_session(n, u) : RequestAll(t, n, FALSE, Leaving(c, u, "ws"))

-----------------------------------------------------------------------------
(* Timeouts: end_call_if_still_unanswered and end_call_if_still_empty.     *)

StillAlone(call) == call # None /\ Cardinality(In(call)) <= 1

end_call_if_still_empty(t, n, c) ==
    /\ timers[n][c] > 0
    /\ timers' = [timers EXCEPT ![n][c] = @ - 1]
    /\ Start(t, n, FALSE, get_call(n, c), Found({c}), IF StillAlone(get_call(n, c)) THEN end_call(c) ELSE <<>>)
    /\ UNCHANGED <<sfu, enabled, posts, requests, faults, lost>>

-----------------------------------------------------------------------------
(* The instructions.                                                       *)

MutateOps == {"add", "remove", "sharing", "sharer", "host", "thread", "touch"}

Head1(t) == Head(task[t].todo)

\* The task goes on with the list todo, after copying what it has found in Redis.
Reads(t, found, todo) == Becomes(t, [task[t] EXCEPT !.todo = todo, !.value = None, !.found = found])

\* The task goes on with the list todo, after sending k and what follows it.
Sends(t, k, todo) == Becomes(t, [task[t] EXCEPT !.todo = todo, !.value = None, !.io = k])

Continue(t, todo) == Reads(t, {}, todo)

Rest(t) == Tail(task[t].todo)
Then(t, todo) == Continue(t, todo \o Rest(t))
Done(t)       == Then(t, <<>>)

\* An instruction is carried out when nothing is left to copy or to send.
At(t, do) == task[t].todo # <<>> /\ task[t].found = {} /\ task[t].io = None /\ Head1(t).do \in do

env == <<enabled, requests, faults, overlap, lost>>

\* A call found in Redis becomes the node's copy (upsert_call_local).
call_is_copied(t) ==
    \E p \in task[t].found :
       /\ upsert_call_local(task[t].node, p[1], p[2])
       /\ Becomes(t, [task[t] EXCEPT !.found = @ \ {p}])
       /\ UNCHANGED <<redis, channel, active, sfu, timers, posts, env>>

\* The next command of a write.  A call that has changed since it was read, or is no
\* longer there, is overwritten.
command_is_sent(t) ==
    LET k == task[t].io IN
    /\ k # None
    /\ Carried(k)
    /\ lost' = (lost \/ (k.at = "set" /\ k.old # None /\ redis[k.c] # k.old))
    /\ Becomes(t, [task[t] EXCEPT !.io = After(k)])
    /\ UNCHANGED <<local, sfu, timers, posts, enabled, requests, faults, overlap>>

\* The first half of mutate_call: nothing is changed if there is no call.
mutate_call_reads(t) ==
    LET n == task[t].node
        c == Head1(t).c
        call == get_call(n, c) IN
    /\ At(t, MutateOps)
    /\ task[t].value = None
    /\ IF call = None THEN Done(t)
       ELSE task' = [task EXCEPT ![t].value = call, ![t].found = Found({c})]
    /\ UNCHANGED <<ManagerVars, sfu, timers, posts, env>>

mutate_call_writes(t) ==
    LET op == Head1(t)
        old == task[t].value
        call == Mutator(old, op) IN
    /\ At(t, MutateOps)
    /\ old # None
    /\ upsert_call_local(task[t].node, op.c, call)
    /\ Sends(t, persist_call(op.c, call, old), Rest(t))
    /\ UNCHANGED <<redis, channel, active, sfu, timers, posts, env>>

add_call(t) ==
    LET op == Head1(t)
        call == NewCall(op.u, op.v) IN
    /\ At(t, {"create"})
    /\ upsert_call_local(task[t].node, op.c, call)
    /\ Sends(t, persist_call(op.c, call, None), Rest(t))
    /\ UNCHANGED <<redis, channel, active, sfu, timers, posts, env>>

\* The post is inserted, then its id is stored in the call.
create_call_thread_post(t) ==
    LET c == Head1(t).c IN
    /\ At(t, {"post"})
    /\ posts' = [posts EXCEPT ![c] = Append(@, "open")]
    /\ Then(t, <<Op(c, "thread", None, Len(posts[c]) + 1)>>)
    /\ UNCHANGED <<ManagerVars, sfu, timers, env>>

broadcast_call_state_event(t) ==
    LET n == task[t].node
        c == get_call_by_channel(n) IN
    /\ At(t, {"state"})
    /\ Reads(t, FoundByChannel, (IF c = None THEN <<>> ELSE ensure_call_thread_id(c, channel_call(n))) \o Rest(t))
    /\ UNCHANGED <<ManagerVars, sfu, timers, posts, env>>

\* handle_ws_join_call: a participant with another session is replaced.
ws_participant_is_replaced(t) ==
    LET n == task[t].node
        op == Head1(t)
        call == get_call(n, op.c)
        old == IF call = None THEN None ELSE call.who[op.u] IN
    /\ At(t, {"ws_add"})
    /\ Reads(t, Found({op.c}),
             (IF old # None /\ old.session = "ws" THEN <<>>
              ELSE (IF old # None THEN <<Op(op.c, "sfu_remove", op.u, old.session)>> ELSE <<>>)
                   \o <<Op(op.c, "add", op.u, "ws")>>) \o Rest(t))
    /\ UNCHANGED <<ManagerVars, sfu, timers, posts, env>>

Sessions(n, c) == IF sfu[n][c] = None THEN {} ELSE sfu[n][c]

get_or_create_sfu(t) ==
    LET n == task[t].node
        op == Head1(t) IN
    /\ At(t, {"sfu_add"})
    /\ sfu' = [sfu EXCEPT ![n][op.c] = Sessions(n, op.c) \cup {<<op.u, op.v>>}]
    /\ Done(t)
    /\ UNCHANGED <<ManagerVars, timers, posts, env>>

sfu_remove_participant(t) ==
    LET n == task[t].node
        op == Head1(t) IN
    /\ At(t, {"sfu_remove"})
    /\ sfu' = IF sfu[n][op.c] = None THEN sfu
              ELSE [sfu EXCEPT ![n][op.c] = @ \ {<<op.u, op.v>>}]
    /\ Done(t)
    /\ UNCHANGED <<ManagerVars, timers, posts, env>>

\* A timeout follows if at most one participant remains.
TimeoutIf(c, remaining) == IF remaining <= 1 THEN Timeout(c) ELSE <<>>

reconcile_after_participant_left(t) ==
    LET n == task[t].node
        op == Head1(t)
        call == get_call(n, op.c)
        k == Cardinality(In(call)) IN
    /\ At(t, {"reconcile"})
    /\ Reads(t, Found({op.c}),
             (IF call = None THEN Timeout(op.c)
              ELSE IF In(call) # {} /\ (call.host = op.u \/ HostIsStale(call))
              THEN <<Op(op.c, "host", select_next_host(call), None), Op(op.c, "count", None, k)>>
              ELSE State(op.c) \o TimeoutIf(op.c, k)) \o Rest(t))
    /\ UNCHANGED <<ManagerVars, sfu, timers, posts, env>>

\* The call is read again after its host has changed.
participants_are_counted(t) ==
    LET n == task[t].node
        op == Head1(t)
        call == get_call(n, op.c) IN
    /\ At(t, {"count"})
    /\ Reads(t, Found({op.c}),
             (State(op.c) \o TimeoutIf(op.c, IF call = None THEN op.v ELSE Cardinality(In(call)))) \o Rest(t))
    /\ UNCHANGED <<ManagerVars, sfu, timers, posts, env>>

schedule_timeout(t) ==
    LET n == task[t].node
        c == Head1(t).c IN
    /\ At(t, {"timer"})
    /\ timers' = [timers EXCEPT ![n][c] = @ + 1]
    /\ Done(t)
    /\ UNCHANGED <<ManagerVars, sfu, posts, env>>

\* The call as it is after its host has been normalized.
reread(t) ==
    LET n == task[t].node
        c == Head1(t).c
        call == get_call(n, c) IN
    /\ At(t, {"reread"})
    /\ Becomes(t, [task[t] EXCEPT !.snap = IF call = None THEN @ ELSE call, !.todo = Rest(t), !.found = Found({c})])
    /\ UNCHANGED <<ManagerVars, sfu, timers, posts, env>>

authorize(t) ==
    LET op == Head1(t) IN
    /\ At(t, {"authorize"})
    /\ Continue(t, Granted(op.c, task[t].snap, op.u, op.v))
    /\ UNCHANGED <<ManagerVars, sfu, timers, posts, env>>

\* end_call reads the thread of the call, then removes the call and its SFU, then
\* marks the thread post as ended.
end_call_reads(t) ==
    LET n == task[t].node
        c == Head1(t).c
        call == get_call(n, c) IN
    /\ At(t, {"last_read"})
    /\ Reads(t, Found({c}), <<Op(c, "drop", None, IF call = None THEN None ELSE call.thread)>>)
    /\ UNCHANGED <<ManagerVars, sfu, timers, posts, env>>

end_call_removes(t) ==
    LET n == task[t].node
        op == Head1(t) IN
    /\ At(t, {"drop"})
    /\ remove_call_local(n, op.c)
    /\ Sends(t, remove_call(n, op.c),
             <<Op(op.c, "sfu_drop", None, None)>> \o
             (IF op.v = None THEN <<>> ELSE <<Op(op.c, "mark", None, op.v)>>))
    /\ UNCHANGED <<redis, channel, active, sfu, timers, posts, env>>

sfu_is_removed(t) ==
    LET n == task[t].node
        op == Head1(t) IN
    /\ At(t, {"sfu_drop"})
    /\ sfu' = [sfu EXCEPT ![n][op.c] = None]
    /\ Done(t)
    /\ UNCHANGED <<ManagerVars, timers, posts, env>>

\* A thread the client named is none of the posts here.
mark_call_thread_post_ended(t) ==
    LET op == Head1(t) IN
    /\ At(t, {"mark"})
    /\ posts' = IF op.v = NamedThread THEN posts ELSE [posts EXCEPT ![op.c][op.v] = "ended"]
    /\ Done(t)
    /\ UNCHANGED <<ManagerVars, sfu, timers, env>>

-----------------------------------------------------------------------------
(* Failures.                                                               *)

\* The SFU cannot be created or refuses the participant: the handler returns.
SfuFails(t) ==
    /\ At(t, {"sfu_add"})
    /\ faults < MaxFaults
    /\ faults' = faults + 1
    /\ Continue(t, <<>>)
    /\ UNCHANGED <<ManagerVars, sfu, timers, posts, enabled, requests, overlap, lost>>

\* The post cannot be inserted: the handler goes on without a thread.
PostFails(t) ==
    /\ At(t, {"post"})
    /\ faults < MaxFaults
    /\ faults' = faults + 1
    /\ Done(t)
    /\ UNCHANGED <<ManagerVars, sfu, timers, posts, enabled, requests, overlap, lost>>

\* The future of an HTTP handler is dropped because its client is gone: nothing that is
\* left to do is done.
Dropped(t) ==
    /\ Busy(t) /\ task[t].http
    /\ faults < MaxFaults
    /\ faults' = faults + 1
    /\ task' = [task EXCEPT ![t] = Idle]
    /\ UNCHANGED <<ManagerVars, sfu, timers, posts, enabled, requests, overlap, lost>>

\* A node stops and starts again: what it kept in memory is gone, the sleeping
\* timeouts with it.
Crash(n) ==
    /\ faults < MaxFaults
    /\ faults' = faults + 1
    /\ task' = [t \in Tasks |-> IF task[t].node = n THEN Idle ELSE task[t]]
    /\ local' = [local EXCEPT ![n] = [calls |-> [c \in CallIds |-> None], index |-> None]]
    /\ sfu' = [sfu EXCEPT ![n] = [c \in CallIds |-> None]]
    /\ timers' = [timers EXCEPT ![n] = [c \in CallIds |-> 0]]
    /\ enabled' = [enabled EXCEPT ![n] = TRUE]
    /\ UNCHANGED <<redis, channel, active, posts, requests, overlap, lost>>

-----------------------------------------------------------------------------

Handler(t, n, u) ==
    /\ requests < MaxRequests
    /\ ~Busy(t) /\ IsNext(t)
    /\ \/ start_call(t, n, u) \/ join_call(t, n, u) \/ leave_call(t, n, u)
       \/ get_call_state(t, n) \/ get_channel_state_mobile(t, n) \/ get_channels(t, n) \/ dismiss_notification(t, n, u)
       \/ ParticipantRequest(t, n, u) \/ HostRequest(t, n, u)
       \/ handle_ws_join_call(t, n, u) \/ handle_ws_action(t, n, u)
       \/ handle_ws_connection_closed(t, n, u)
    /\ UNCHANGED <<sfu, timers, enabled, posts, faults, lost>>

TaskStep(t) ==
    \/ call_is_copied(t) \/ command_is_sent(t)
    \/ mutate_call_reads(t) \/ mutate_call_writes(t) \/ add_call(t)
    \/ create_call_thread_post(t) \/ broadcast_call_state_event(t)
    \/ ws_participant_is_replaced(t) \/ get_or_create_sfu(t) \/ sfu_remove_participant(t)
    \/ reconcile_after_participant_left(t) \/ participants_are_counted(t)
    \/ schedule_timeout(t) \/ reread(t) \/ authorize(t)
    \/ end_call_reads(t) \/ end_call_removes(t) \/ sfu_is_removed(t) \/ mark_call_thread_post_ended(t)

Next ==
    \/ \E t \in Tasks, n \in Nodes, u \in Users : Handler(t, n, u)
    \/ \E t \in Tasks, n \in Nodes, b \in BOOLEAN : set_channel_calls_enabled(t, n, b)
    \/ \E t \in Tasks, n \in Nodes, c \in CallIds : end_call_if_still_empty(t, n, c)
    \/ \E t \in Tasks : TaskStep(t) \/ SfuFails(t) \/ PostFails(t) \/ Dropped(t)
    \/ \E n \in Nodes : Crash(n)

\* The runtime runs the tasks and the timeouts; requests need not come.
Fairness ==
    /\ WF_CallVars(\E t \in Tasks : TaskStep(t))
    /\ WF_CallVars(\E t \in Tasks, n \in Nodes, c \in CallIds : end_call_if_still_empty(t, n, c))

CallsSpec == CallsInit /\ [][Next]_CallVars /\ Fairness

-----------------------------------------------------------------------------
(* Properties.                                                             *)

Stored(c) == redis[c] # None
Lonely(c) == Stored(c) /\ Cardinality(In(redis[c])) <= 1

\* Between two requests that did not overlap, the pieces of a call agree: at most
\* one call is stored and the channel's index names it, only a participant is the
\* screen sharer (remove_participant clears it), the call has one thread post (none
\* if a client named its thread), and only a stored call has an SFU.
CallIsWhole ==
    (overlap = 0 /\ faults = 0 /\ \A t \in Tasks : ~Busy(t)) =>
        /\ \A c \in CallIds : Stored(c) => channel = c
        /\ \A c \in CallIds : Stored(c) => redis[c].sharer \in In(redis[c]) \cup {None}
        /\ \A c \in CallIds : Stored(c) => Len(posts[c]) = IF redis[c].thread = NamedThread THEN 0 ELSE 1
        /\ \A n \in Nodes, c \in CallIds : sfu[n][c] # None => Stored(c)

\* The thread post of a call that has ended is marked as ended, unless two tasks
\* created one at once, or the end came between the creation of the post and the
\* storing of its id.
EndedPostIsMarked ==
    \A c \in CallIds :
       (faults = 0 /\ overlap = 0 /\ ~Stored(c) /\ \A t \in Tasks : ~Busy(t)) =>
          \A i \in DOMAIN posts[c] : posts[c][i] = "ended"

\* A call that nobody else joins, or that all but one have left, is dropped after
\* its timeout, whatever the requests that overlap: every path that leaves a call
\* with at most one participant schedules a timeout.  A write of mutate_call that
\* overwrites another change of the call or its removal is excluded, and so are the
\* failures: a crash, a failing SFU, a handler whose client is gone.
LonelyCallEnds ==
    \A c \in CallIds : Lonely(c) ~> (~Lonely(c) \/ lost \/ faults > 0)

\* What mod.rs says of the timeout: a call that nobody else joins is dropped.  It does
\* not hold: mutate_call may store a call again that the timeout has just removed.
LonelyCallDropped ==
    \A c \in CallIds : Lonely(c) ~> (~Lonely(c) \/ faults > 0)

\* What state.rs says of the Redis mode: a node uses its own copies when an operation
\* fails.  None fails here, so the call that a node finds for the channel between two
\* requests should be one that Redis has.  It need not be: the node uses its copy
\* also of a call that another node has removed.
FallsBackOnErrorsOnly ==
    (overlap = 0 /\ faults = 0 /\ \A t \in Tasks : ~Busy(t)) =>
        \A n \in Nodes, c \in CallIds : get_call_by_channel(n) = c => Stored(c)

=============================================================================
