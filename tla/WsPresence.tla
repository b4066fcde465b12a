----------------------------- MODULE WsPresence -----------------------------
(***************************************************************************)
(* Connection limit and presence of one user whose sockets are spread over *)
(* the nodes of a cluster (backend/src/api/websocket_core.rs,              *)
(* realtime/cluster_limits.rs, and their callers in api/v4/websocket.rs    *)
(* and api/ws.rs).                                                         *)
(*                                                                         *)
(* The state is in three places with no transaction around them: the hub   *)
(* of the node, the registry in Redis (a set of connection ids and, for    *)
(* each, a heartbeat key with a TTL), and the user's row in the database.  *)
(* Every Redis command that reads or changes one of them and every query   *)
(* is a step of its own, with one exception: SMEMBERS and the EXISTS of    *)
(* each member are one read.  A command is executed before its task can be *)
(* aborted or goes on.                                                     *)
(*                                                                         *)
(* A heartbeat key outlives the interval between heartbeats (90 s against  *)
(* 20 s), so it expires only when nobody beats for it.  The TTL of the set *)
(* itself is twice as long and is left out: members without a heartbeat do *)
(* not count.                                                              *)
(***************************************************************************)
EXTENDS Integers, FiniteSets

CONSTANTS
    Sockets,
    Nodes,
    NodeOf,      \* socket -> the node that accepted it
    MaxConnections,  \* max_simultaneous_connections
    Faults       \* which of "hello", "crash", "redis" may happen

ASSUME PresenceAssumption ==
    /\ NodeOf \in [Sockets -> Nodes]
    /\ MaxConnections \in Nat \ {0}
    /\ Faults \subseteq {"hello", "crash", "redis"}

VARIABLES
    phase,      \* socket -> where its connection task is
    hub,        \* the sockets in their node's hub
    registry,   \* Redis: members of the set of connections
    beat,       \* Redis: sockets with a heartbeat key
    beating,    \* sockets with a running heartbeat task
    half,       \* those whose heartbeat task is between SADD and SET EX
    active,     \* socket -> the live members its task has just counted
    stale,      \* socket -> the stale ones
    presence,   \* users.presence
    manual,     \* users.presence_manual
    failed      \* history: has anything failed?

redis == <<registry, beat>>
row   == <<presence, manual>>
count == <<active, stale>>
beats == <<beating, half>>
PresenceVars == <<phase, hub, redis, beats, count, row, failed>>

Statuses == {"online", "away", "dnd", "offline"}

PresenceInit ==
    /\ phase = [s \in Sockets |-> "new"]
    /\ hub = {}
    /\ registry = {}
    /\ beat = {}
    /\ beating = {}
    /\ half = {}
    /\ active = [s \in Sockets |-> {}]
    /\ stale = [s \in Sockets |-> {}]
    /\ presence = "offline"
    /\ manual = FALSE
    /\ failed = FALSE

Go(s, from, to) ==
    /\ phase[s] = from
    /\ phase' = [phase EXCEPT ![s] = to]

-----------------------------------------------------------------------------
(* get_global_connection_count: the read, SREM of the stale members, and   *)
(* DEL of the whole set if no member was live, which also drops a member   *)
(* added since.                                                            *)

ReadCount(s, from, to) ==
    /\ Go(s, from, to)
    /\ active' = [active EXCEPT ![s] = registry \cap beat]
    /\ stale' = [stale EXCEPT ![s] = registry \ beat]
    /\ UNCHANGED <<hub, redis, beats, row, failed>>

Clear(at) == IF at = "limit" THEN "limit_clear" ELSE "counted_clear"

Prune(s, at) ==
    /\ phase[s] = at /\ stale[s] # {}
    /\ registry' = registry \ stale[s]
    /\ stale' = [stale EXCEPT ![s] = {}]
    /\ phase' = [phase EXCEPT ![s] = IF active[s] = {} THEN Clear(at) ELSE at]
    /\ UNCHANGED <<hub, beat, beats, active, row, failed>>

PruneAll(s, at) ==
    /\ Go(s, Clear(at), at)
    /\ registry' = {}
    /\ UNCHANGED <<hub, beat, beats, count, row, failed>>

\* A command fails, the EXPIRE of the set included: no count.
CountFails(s, from, at) ==
    /\ "redis" \in Faults
    /\ \/ Go(s, from, "ended")
       \/ Go(s, at, "ended") /\ active[s] \cup stale[s] # {}
       \/ Go(s, Clear(at), "ended")
    /\ failed' = TRUE
    /\ active' = [active EXCEPT ![s] = {}]
    /\ stale' = [stale EXCEPT ![s] = {}]
    /\ UNCHANGED <<hub, redis, beats, row>>

\* All stale members are gone: the caller decides.
Counted(s) ==
    /\ stale[s] = {}
    /\ active' = [active EXCEPT ![s] = {}]
    /\ UNCHANGED <<hub, redis, beats, stale, row, failed>>

-----------------------------------------------------------------------------
(* Connecting.                                                             *)

\* enforce_connection_limit.
ReadLimit(s) == ReadCount(s, "new", "limit")

Admit(s) ==
    /\ Cardinality(active[s]) < MaxConnections
    /\ Go(s, "limit", "admitted")
    /\ Counted(s)

Refuse(s) ==
    /\ Cardinality(active[s]) >= MaxConnections
    /\ Go(s, "limit", "ended")
    /\ Counted(s)

\* Redis cannot be reached: fail closed.
RefuseUnknown(s) == CountFails(s, "new", "limit")

AddConnection(s) ==
    /\ Go(s, "admitted", "hub")
    /\ hub' = hub \cup {s}
    /\ UNCHANGED <<redis, beats, count, row, failed>>

\* register_presence_connection: SADD, then SET EX.
RegisterAdd(s) ==
    /\ Go(s, "hub", "added")
    /\ registry' = registry \cup {s}
    /\ UNCHANGED <<hub, beat, beats, count, row, failed>>

RegisterBeat(s) ==
    /\ Go(s, "added", "registered")
    /\ beat' = beat \cup {s}
    /\ UNCHANGED <<hub, registry, beats, count, row, failed>>

RegisterFails(s) ==
    /\ "redis" \in Faults
    /\ Go(s, "hub", "registered") \/ Go(s, "added", "registered")
    /\ failed' = TRUE
    /\ UNCHANGED <<hub, redis, beats, count, row>>

\* initialize_connection_state: is_manual_presence, then the write.
CheckManualOnConnect(s) ==
    /\ Go(s, "registered", IF manual THEN "started" ELSE "online")
    /\ UNCHANGED <<hub, redis, beats, count, row, failed>>

PersistOnline(s) ==
    /\ Go(s, "online", "started")
    /\ presence' = "online"
    /\ manual' = FALSE
    /\ UNCHANGED <<hub, redis, beats, count, failed>>

\* The heartbeat task is spawned and the hello is sent.
Start(s) ==
    /\ Go(s, "started", "live")
    /\ beating' = beating \cup {s}
    /\ UNCHANGED <<hub, redis, half, count, row, failed>>

\* The hello cannot be sent (the socket is gone): run_connection returns, and
\* the hub entry and the heartbeat task stay behind.
HelloFails(s) ==
    /\ "hello" \in Faults
    /\ Go(s, "started", "leaked")
    /\ beating' = beating \cup {s}
    /\ failed' = TRUE
    /\ UNCHANGED <<hub, redis, half, count, row>>

\* heartbeat_presence_connection: SADD, then SET EX.
HeartbeatAdd(s) ==
    /\ s \in beating \ half
    /\ registry' = registry \cup {s}
    /\ half' = half \cup {s}
    /\ UNCHANGED <<phase, hub, beat, beating, count, row, failed>>

Heartbeat(s) ==
    /\ s \in half
    /\ beat' = beat \cup {s}
    /\ half' = half \ {s}
    /\ UNCHANGED <<phase, hub, registry, beating, count, row, failed>>

\* Redis expires a heartbeat key that is not refreshed.
Expire(s) ==
    /\ s \in beat
    /\ s \notin beating
    /\ phase[s] = "ended"
    /\ beat' = beat \ {s}
    /\ UNCHANGED <<phase, hub, registry, beats, count, row, failed>>

-----------------------------------------------------------------------------
(* Disconnecting.                                                          *)

LoopEndsStillBeating(s) ==
    /\ Go(s, "live", "closing")
    /\ UNCHANGED <<hub, redis, beats, count, row, failed>>

\* The connection loop ends; heartbeat_task.abort().
LoopEnds(s) ==
    /\ Go(s, "live", "closing")
    /\ beating' = beating \ {s}
    /\ half' = half \ {s}
    /\ UNCHANGED <<hub, redis, count, row, failed>>

RemoveConnectionForgotten(s) ==
    /\ Go(s, "closing", "removed")
    /\ UNCHANGED <<hub, redis, beats, count, row, failed>>

RemoveConnection(s) ==
    /\ Go(s, "closing", "removed")
    /\ hub' = hub \ {s}
    /\ UNCHANGED <<redis, beats, count, row, failed>>

\* unregister_presence_connection: SREM, DEL of the heartbeat, SCARD ...
UnregisterRemove(s) ==
    /\ Go(s, "removed", "unlisted")
    /\ registry' = registry \ {s}
    /\ UNCHANGED <<hub, beat, beats, count, row, failed>>

UnregisterBeat(s) ==
    /\ Go(s, "unlisted", "unbeaten")
    /\ beat' = beat \ {s}
    /\ UNCHANGED <<hub, registry, beats, count, row, failed>>

UnregisterCount(s) ==
    /\ Go(s, "unbeaten", IF registry = {} THEN "empty" ELSE "unregistered")
    /\ UNCHANGED <<hub, redis, beats, count, row, failed>>

\* ... and DEL of the set if the count was 0.
UnregisterDelete(s) ==
    /\ Go(s, "empty", "unregistered")
    /\ registry' = {}
    /\ UNCHANGED <<hub, beat, beats, count, row, failed>>

\* Without Redis nothing is done; a single command that fails is passed over.
UnregisterFails(s) ==
    /\ "redis" \in Faults
    /\ \/ Go(s, "removed", "unregistered")
       \/ Go(s, "removed", "unlisted")
       \/ Go(s, "unlisted", "unbeaten")
       \/ Go(s, "unbeaten", "unregistered")
       \/ Go(s, "empty", "unregistered")
    /\ failed' = TRUE
    /\ UNCHANGED <<hub, redis, beats, count, row>>

\* handle_disconnect: still connected on this node?
CheckLocal(s) ==
    /\ LET here == {t \in hub : NodeOf[t] = NodeOf[s]}
       IN  Go(s, "unregistered", IF here # {} THEN "ended" ELSE "alone")
    /\ UNCHANGED <<hub, redis, beats, count, row, failed>>

CheckManual(s) ==
    /\ Go(s, "alone", IF manual THEN "ended" ELSE "asking")
    /\ UNCHANGED <<hub, redis, beats, count, row, failed>>

ReadRemaining(s) == ReadCount(s, "asking", "counted")

DecideOffline(s) ==
    /\ Go(s, "counted", IF active[s] = {} THEN "offline" ELSE "ended")
    /\ Counted(s)

\* The count is unknown: no offline transition.
RemainingUnknown(s) == CountFails(s, "asking", "counted")

PersistOffline(s) ==
    /\ Go(s, "offline", "ended")
    /\ presence' = "offline"
    /\ manual' = FALSE
    /\ UNCHANGED <<hub, redis, beats, count, failed>>

-----------------------------------------------------------------------------
\* A node dies with its hub and its tasks.
Crash(n) ==
    /\ "crash" \in Faults
    /\ LET on == {s \in Sockets : NodeOf[s] = n /\ phase[s] # "new"}
       IN  /\ \E s \in on : phase[s] # "ended"
           /\ phase' = [s \in Sockets |-> IF s \in on THEN "ended" ELSE phase[s]]
           /\ hub' = hub \ on
           /\ beating' = beating \ on
           /\ half' = half \ on
           /\ active' = [s \in Sockets |-> IF s \in on THEN {} ELSE active[s]]
           /\ stale' = [s \in Sockets |-> IF s \in on THEN {} ELSE stale[s]]
    /\ failed' = TRUE
    /\ UNCHANGED <<redis, row>>

\* update_user_status: the user chooses a status in a connected client.
SetStatus ==
    /\ \E s \in Sockets : phase[s] = "live"
    /\ \E st \in Statuses :
          /\ presence' = st
          /\ manual' = (st # "online")
    /\ UNCHANGED <<phase, hub, redis, beats, count, failed>>

ConnectStep(s) ==
    \/ ReadLimit(s) \/ Prune(s, "limit") \/ PruneAll(s, "limit") \/ Admit(s) \/ Refuse(s) \/ RefuseUnknown(s)
    \/ AddConnection(s) \/ RegisterAdd(s) \/ RegisterBeat(s) \/ RegisterFails(s)
    \/ CheckManualOnConnect(s) \/ PersistOnline(s) \/ Start(s) \/ HelloFails(s)

DisconnectStep(s) ==
    \/ RemoveConnection(s)
    \/ UnregisterRemove(s) \/ UnregisterBeat(s) \/ UnregisterCount(s)
    \/ UnregisterDelete(s) \/ UnregisterFails(s)
    \/ CheckLocal(s) \/ CheckManual(s)
    \/ ReadRemaining(s) \/ Prune(s, "counted") \/ PruneAll(s, "counted") \/ DecideOffline(s) \/ RemainingUnknown(s)
    \/ PersistOffline(s)

PresenceNext ==
    \/ \E s \in Sockets :
          \/ ConnectStep(s) \/ LoopEnds(s) \/ DisconnectStep(s)
          \/ HeartbeatAdd(s) \/ Heartbeat(s) \/ Expire(s)
    \/ \E n \in Nodes : Crash(n)
    \/ SetStatus

PresenceSpec == PresenceInit /\ [][PresenceNext]_PresenceVars

(***************************************************************************)
(* Fairness: a connection task that has begun runs on, heartbeat tasks     *)
(* beat, and Redis expires keys.  Sockets need not connect nor disconnect. *)
(***************************************************************************)
FairPresenceSpec ==
    /\ PresenceSpec
    /\ \A s \in Sockets :
          /\ WF_PresenceVars(phase[s] # "new" /\ ConnectStep(s))
          /\ WF_PresenceVars(DisconnectStep(s))
          /\ WF_PresenceVars(HeartbeatAdd(s) \/ Heartbeat(s))
          /\ WF_PresenceVars(Expire(s))

-----------------------------------------------------------------------------
At(p) == {s \in Sockets : phase[s] \in p}

(***************************************************************************)
(* run_connection's cleanup: an ended connection is not in the registry,   *)
(* neither left there nor put back by its own heartbeat, so it does not    *)
(* count against the limit, as long as nothing fails.  Whatever fails,     *)
(* heartbeat_task keeps only connections alive that are in their node's    *)
(* hub: all others stop counting when their key expires.                   *)
(***************************************************************************)
EndedNotCounted ==
    /\ ~failed => \A s \in At({"ended"}) : s \notin registry
    /\ beating \subseteq hub

(***************************************************************************)
(* handle_disconnect, "offline when last connection drops": when all       *)
(* connections have ended, in whatever order their tasks interleave, the   *)
(* user is offline unless the status was chosen or something failed.       *)
(***************************************************************************)
OfflineWhenLastDrops ==
    At({"new", "ended"}) = Sockets /\ ~manual /\ ~failed => presence = "offline"

(***************************************************************************)
(* "Stale connections are automatically cleaned up via Redis TTL": the     *)
(* heartbeat key of a connection that is gone disappears eventually, also  *)
(* when run_connection returned early.                                     *)
(***************************************************************************)
StaleExpires ==
    \A s \in Sockets : phase[s] \in {"ended", "leaked"} ~> s \notin beat

(***************************************************************************)
(* "online on connect, offline when last connection drops": while a        *)
(* connection is up and no task is between two steps, the user is not      *)
(* shown as offline unless the status was chosen.                          *)
(***************************************************************************)
OnlineWhileConnected ==
    At({"new", "live", "ended"}) = Sockets /\ At({"live"}) # {} /\ ~manual =>
        presence = "online"
=============================================================================
