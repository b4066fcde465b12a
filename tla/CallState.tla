----------------------------- MODULE CallState -----------------------------
(***************************************************************************)
(* The state of the calls of one channel and the manager that keeps it     *)
(* (backend/src/api/v4/calls_plugin/state.rs): every node has a local copy *)
(* and an index from the channel to its call, and Redis holds the copy the *)
(* nodes share: the call under its id, the id under the channel, and the   *)
(* set of the active calls.  A change of a call is a read, a change of the *)
(* value read, and a write of the whole value (mutate_call).  The tasks of *)
(* module Calls take each of these as steps of their own: the lookup in    *)
(* Redis, the local copy of what it found, the local write, and one by one *)
(* the commands that write to Redis.  The commands of one lookup (the GET  *)
(* of the channel's entry and that of the call; SMEMBERS and the GETs) are *)
(* one step.  Redis answers; its failures are left out.                    *)
(*                                                                         *)
(* A participant is identified by its user; its session is the websocket's *)
(* connection id or one made up by the HTTP handlers.  The times of        *)
(* joining matter by their order only, which `joined` keeps.  The owner,   *)
(* the start time, the muted and raised-hand flags and the dismissed users *)
(* are shown to clients and read by no decision: setting one of them is a  *)
(* read and a rewrite of the call (`touch`), which can still undo the      *)
(* change of another task.                                                 *)
(***************************************************************************)
EXTENDS Integers, Sequences, FiniteSets, SequencesExt

CONSTANTS
    Users,      \* the members of the channel
    Nodes,
    CallIds,
    None        \* no call, no participant, no screen sharer, no thread

VARIABLES
    redis,      \* call id -> the stored call, or None
    channel,    \* Redis: the channel's call id, or None
    active,     \* Redis: the ids of the active calls
    local       \* node -> its copies of the calls and of the index

ManagerVars == <<redis, channel, active, local>>

SessionKinds == {"http", "ws"}

Participant == [session : SessionKinds, sharing : BOOLEAN]

Call == [host : Users, joined : Seq(Users), who : [Users -> Participant \cup {None}],
         sharer : Users \cup {None}, thread : Nat \cup {None}]

\* A command to Redis about call c that a task has yet to send: `call` is the value
\* to write and `old` the one it was made from.
Commands == [at : {"set", "point", "list", "peek", "unpoint", "unset", "unlist"}, c : CallIds,
             call : Call \cup {None}, old : Call \cup {None}]

ASSUME CallsAssumption ==
    IsFiniteSet(Users) /\ None \notin Users \cup CallIds \cup Nat \cup Participant \cup Call \cup Commands

NewCall(u, th) ==
    [host |-> u, joined |-> <<>>, who |-> [x \in Users |-> None],
     sharer |-> None, thread |-> th]

In(call) == {u \in Users : call.who[u] # None}

ManagerInit ==
    /\ redis = [c \in CallIds |-> None]
    /\ channel = None
    /\ active = {}
    /\ local = [n \in Nodes |-> [calls |-> [c \in CallIds |-> None], index |-> None]]

-----------------------------------------------------------------------------
(* What the manager's setters do to the value that mutate_call has read.   *)

add_participant(call, u, s) ==
    [call EXCEPT !.joined = Append(RemoveFirst(@, u), u),
                 !.who[u] = [session |-> s, sharing |-> FALSE]]

remove_participant(call, u) ==
    [call EXCEPT !.joined = RemoveFirst(@, u),
                 !.who[u] = None,
                 !.sharer = IF @ = u THEN None ELSE @]

\* Nothing for a user who is not a participant.
set_screen_sharing(call, u, b) ==
    IF call.who[u] = None THEN call ELSE [call EXCEPT !.who[u].sharing = b]

set_screen_sharer(call, u) == [call EXCEPT !.sharer = u]
set_host(call, u)          == [call EXCEPT !.host = u]
set_thread_id(call, p)     == [call EXCEPT !.thread = p]
\* set_muted, set_hand_raised, dismiss_user_notification.
touch(call) == call

\* The setter that an instruction of a handler names.
Mutator(call, op) ==
    CASE op.do = "add"     -> add_participant(call, op.u, op.v)
      [] op.do = "remove"  -> remove_participant(call, op.u)
      [] op.do = "sharing" -> set_screen_sharing(call, op.u, op.v)
      [] op.do = "sharer"  -> set_screen_sharer(call, op.u)
      [] op.do = "host"    -> set_host(call, op.u)
      [] op.do = "thread"  -> set_thread_id(call, op.v)
      [] op.do = "touch"   -> touch(call)

-----------------------------------------------------------------------------
(* Reading.  Redis first; if it has nothing, the node's own copy.          *)

get_call(n, c) == IF redis[c] # None THEN redis[c] ELSE local[n].calls[c]

ChannelIsStored == channel # None /\ redis[channel] # None

\* The id of the call that is found, and the call.
get_call_by_channel(n) ==
    IF ChannelIsStored THEN channel
    ELSE IF local[n].index # None /\ local[n].calls[local[n].index] # None THEN local[n].index
    ELSE None

channel_call(n) ==
    IF ChannelIsStored THEN redis[channel] ELSE local[n].calls[get_call_by_channel(n)]

\* The calls by their ids.
get_all_calls(n) ==
    IF \E c \in active : redis[c] # None
    THEN [c \in {x \in active : redis[x] # None} |-> redis[c]]
    ELSE [c \in {x \in CallIds : local[n].calls[x] # None} |-> local[n].calls[c]]

\* What a lookup of the calls cs has found in Redis: the reader goes on once it has
\* put these into the node's own copies.
Found(cs) == {<<c, redis[c]>> : c \in {x \in cs : redis[x] # None}}

FoundByChannel == Found({channel} \ {None})

-----------------------------------------------------------------------------
(* Writing.                                                                *)

upsert_call_local(n, c, call) ==
    local' = [local EXCEPT ![n] = [calls |-> [@.calls EXCEPT ![c] = call], index |-> c]]

remove_call_local(n, c) ==
    local' = [local EXCEPT ![n] =
                 [calls |-> [@.calls EXCEPT ![c] = None],
                  index |-> IF @.calls[c] # None THEN None ELSE @.index]]

Command(at, c, call, old) == [at |-> at, c |-> c, call |-> call, old |-> old]

\* The commands of redis_set_call.
persist_call(c, call, old) == Command("set", c, call, old)

\* The commands of remove_call, which looks for the call's channel in Redis if the
\* node had no copy.
remove_call(n, c) == Command(IF local[n].calls[c] # None THEN "unpoint" ELSE "peek", c, None, None)

\* The command that follows k.
After(k) ==
    CASE k.at = "set"     -> [k EXCEPT !.at = "point"]
      [] k.at = "point"   -> [k EXCEPT !.at = "list"]
      [] k.at = "peek"    -> [k EXCEPT !.at = IF redis[k.c] # None THEN "unpoint" ELSE "unset"]
      [] k.at = "unpoint" -> [k EXCEPT !.at = "unset"]
      [] k.at = "unset"   -> [k EXCEPT !.at = "unlist"]
      [] k.at \in {"list", "unlist"} -> None

\* Redis carries out k.  The channel's entry goes, whichever call it names.
Carried(k) ==
    /\ redis' = CASE k.at = "set"   -> [redis EXCEPT ![k.c] = k.call]
                  [] k.at = "unset" -> [redis EXCEPT ![k.c] = None]
                  [] OTHER -> redis
    /\ channel' = CASE k.at = "point"   -> k.c
                    [] k.at = "unpoint" -> None
                    [] OTHER -> channel
    /\ active' = CASE k.at = "list"   -> active \cup {k.c}
                   [] k.at = "unlist" -> active \ {k.c}
                   [] OTHER -> active

-----------------------------------------------------------------------------
(* Decisions about the host.                                               *)

\* The participant who joined first.
select_next_host(call) == Head(call.joined)

HostIsStale(call) == In(call) # {} /\ call.host \notin In(call)

=============================================================================
