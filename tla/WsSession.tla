------------------------------ MODULE WsSession ------------------------------
(***************************************************************************)
(* A v4 websocket session (backend/src/api/v4/websocket.rs,                *)
(* backend/src/realtime/websocket_actor.rs) on top of ConnectionStore.     *)
(*                                                                         *)
(* Each socket is served by three concurrent tasks: run_connection (main), *)
(* the ActorTask that owns the socket, and the task that forwards hub      *)
(* events.  They share the resumable stream with every other socket that   *)
(* was attached to it, so an old socket that has not yet noticed that its  *)
(* peer is gone overlaps the new one.  Devices and links are the           *)
(* environment: a device may leave with or without a close frame and come  *)
(* back with the stream id and the highest number it has received.         *)
(***************************************************************************)
EXTENDS ConnectionStore

CONSTANTS
    Sockets,
    Devices,
    UserOf,              \* device -> user
    CommandCapacity,     \* COMMAND_BUFFER_CAPACITY
    HubCapacity,         \* capacity of a connection's hub channel
    MaxMissedHeartbeats, \* MAX_MISSED_HEARTBEATS
    TimePasses,          \* FALSE: consider only behaviours within one interval
    StallingSockets,     \* sockets whose peer may stop reading and stay connected
    NoSocket, NoConn

SessionTasks == Sockets \X {"main", "forward"}

ASSUME SessionAssumption ==
    /\ UserOf \in [Devices -> Users]
    /\ Tasks = SessionTasks
    /\ CommandCapacity \in Nat \ {0}
    /\ HubCapacity \in Nat \ {0}
    /\ MaxMissedHeartbeats \in Nat
    /\ MaxMissedHeartbeats + 1 <= ConnectionTtl \* 3 * PING_INTERVAL < CONNECTION_TTL
    /\ TimePasses \in BOOLEAN
    /\ StallingSockets \subseteq Sockets
    /\ NoSocket \notin Sockets
    /\ NoConn \notin Conns

VARIABLES
    main,     \* where run_connection is
    forward,  \* hub_forward_task: "off", "on", "ended"
    actor,    \* ActorTask::run: "off", "up", "stuck" in an untimed write, out of its
              \* loop having emitted Closed or Error ("told") or nothing ("quiet"),
              \* and "down"
    request,  \* who connects, and the stream id and number it resumes from
    conn,     \* actor_connection_id
    missed,   \* numbers still to replay, each with its place in the buffer
    out,      \* WsCommand channel
    rx,       \* hub receiver
    pong,     \* intervals since last_pong
    link,     \* "up", "gone", or "stalled": connected to a peer that reads nothing
    device,   \* device -> its socket, stream id and highest number
    got       \* device -> numbered messages it has received

ServerVars == <<main, forward, actor, request, conn, missed, out, rx,
                pong>>
ClientVars == <<link, device, got>>
SessionVars == <<StoreVars, ServerVars, ClientVars>>

Frame  == [kind : {"hello", "event", "close"}, seq : Nat]

Request == [user : Users \cup {NoUser}, conn : Conns \cup {NoConn}, since : Nat]

(***************************************************************************)
(* Types.  The command channel never holds more than its capacity, and a   *)
(* socket whose actor runs is never further past its last pong than the    *)
(* ping tick that must end it.                                             *)
(***************************************************************************)
SessionTypeOK ==
    /\ StoreTypeOK
    /\ main \in [Sockets -> {"new", "opened", "attached", "joined", "replay",
                             "snapshot", "run", "grace", "done"}]
    /\ forward \in [Sockets -> {"off", "on", "ended"}]
    /\ actor \in [Sockets -> {"off", "up", "stuck", "told", "quiet", "down"}]
    /\ request \in [Sockets -> Request]
    /\ conn \in [Sockets -> Conns \cup {NoConn}]
    /\ missed \in [Sockets -> SUBSET ((Nat \ {0}) \X Nat)]
    /\ out \in [Sockets -> Seq(Frame)]
    /\ \A s \in Sockets : Len(out[s]) <= CommandCapacity
    /\ rx \in [Sockets -> Seq(Events)]
    /\ pong \in [Sockets -> 0 .. MaxMissedHeartbeats + 1]
    /\ link \in [Sockets -> {"up", "gone", "stalled"}]
    /\ device \in [Devices -> [socket : Sockets \cup {NoSocket},
                               conn : Conns \cup {NoConn}, last : Nat]]
    /\ got \in [Devices -> SUBSET (Conns \X Nat)]

SessionInit ==
    /\ StoreInit
    /\ main = [s \in Sockets |-> "new"]
    /\ forward = [s \in Sockets |-> "off"]
    /\ actor = [s \in Sockets |-> "off"]
    /\ request = [s \in Sockets |-> [user |-> NoUser, conn |-> NoConn, since |-> 0]]
    /\ conn = [s \in Sockets |-> NoConn]
    /\ missed = [s \in Sockets |-> {}]
    /\ out = [s \in Sockets |-> <<>>]
    /\ rx = [s \in Sockets |-> <<>>]
    /\ pong = [s \in Sockets |-> 0]
    /\ link = [s \in Sockets |-> "up"]
    /\ device = [d \in Devices |-> [socket |-> NoSocket, conn |-> NoConn, last |-> 0]]
    /\ got = [d \in Devices |-> {}]

-----------------------------------------------------------------------------
\* Devices and links.
Connect(d, s) ==
    /\ device[d].socket = NoSocket
    /\ main[s] = "new"
    /\ device' = [device EXCEPT ![d].socket = s]
    /\ main' = [main EXCEPT ![s] = "opened"]
    /\ request' = [request EXCEPT ![s] =
                     [user |-> UserOf[d], conn |-> device[d].conn, since |-> device[d].last]]
    /\ UNCHANGED <<StoreVars, forward, actor, conn, missed, out, rx,
                   pong, link, got>>

\* The device gives its socket up: with a close frame, or by vanishing.  The server
\* may or may not hear of it (ActorHearsEnd).
Leave(d) ==
    /\ device[d].socket # NoSocket
    /\ device' = [device EXCEPT ![d].socket = NoSocket]
    /\ link' = [link EXCEPT ![device[d].socket] = "gone"]
    /\ UNCHANGED <<StoreVars, ServerVars, got>>

\* The device stays connected but reads nothing any more.
Stall(d) ==
    /\ device[d].socket \in StallingSockets
    /\ link[device[d].socket] = "up"
    /\ link' = [link EXCEPT ![device[d].socket] = "stalled"]
    /\ UNCHANGED <<StoreVars, ServerVars, device, got>>

-----------------------------------------------------------------------------
\* is_closing: set by close, by disconnect, and by the actor when it leaves its loop.
is_closing(s) == actor[s] \in {"told", "quiet", "down"} \/ main[s] \in {"grace", "done"}

\* WebSocketActor::send and close: try_send on the command channel.
CanSend(s) == ~is_closing(s) /\ actor[s] \in {"up", "stuck"} /\ Len(out[s]) < CommandCapacity

Queued(s, kind, n) == [out EXCEPT ![s] = Append(@, [kind |-> kind, seq |-> n])]

WithClose(s) == IF actor[s] \in {"up", "stuck"} /\ Len(out[s]) < CommandCapacity
                THEN Queued(s, "close", 0) ELSE out

\* run_connection turns the socket away: expired token or connection limit.
Reject(s) ==
    /\ main[s] = "opened"
    /\ main' = [main EXCEPT ![s] = "done"]
    /\ UNCHANGED <<StoreVars, forward, actor, request, conn, missed, out, rx,
                   pong, ClientVars>>

\* WebSocketActor::new: resume_or_create, then spawn the actor.
Resumes(s) == request[s].conn # NoConn /\ Resumable(request[s].conn, request[s].user)

Attach(s, c) ==
    /\ main[s] = "opened"
    /\ IF Resumes(s)
       THEN /\ c = request[s].conn
            /\ Resume(c)
            /\ missed' = [missed EXCEPT ![s] = get_missed_messages(c, request[s].since)]
       ELSE /\ Create(c, request[s].user)
            /\ UNCHANGED missed
    /\ conn' = [conn EXCEPT ![s] = c]
    /\ actor' = [actor EXCEPT ![s] = "up"]
    /\ main' = [main EXCEPT ![s] = "attached"]
    /\ UNCHANGED <<forward, request, out, rx, pong, ClientVars>>

\* fetch_username fails: close the actor and return.
UsernameFails(s) ==
    /\ main[s] = "attached"
    /\ main' = [main EXCEPT ![s] = "done"]
    /\ out' = WithClose(s)
    /\ UNCHANGED <<StoreVars, forward, actor, request, conn, missed, rx, pong,
                   ClientVars>>

\* hub.add_connection: from here on the hub receiver collects events.
JoinHub(s) ==
    /\ main[s] = "attached"
    /\ main' = [main EXCEPT ![s] = "joined"]
    /\ UNCHANGED <<StoreVars, forward, actor, request, conn, missed, out, rx,
                   pong, ClientVars>>

\* The hello: the number the client resumed from, or 0 on a new stream.
HelloSeq(s) == IF request[s].conn = conn[s] THEN request[s].since ELSE 0

Hello(s) ==
    /\ main[s] = "joined"
    /\ IF CanSend(s)
       THEN /\ out' = Queued(s, "hello", HelloSeq(s))
            /\ main' = [main EXCEPT ![s] = "replay"]
            /\ UNCHANGED rx
       ELSE /\ main' = [main EXCEPT ![s] = "done"]
            /\ rx' = [rx EXCEPT ![s] = <<>>]
            /\ UNCHANGED out
    /\ missed' = [missed EXCEPT ![s] = IF CanSend(s) THEN @ ELSE {}]
    /\ UNCHANGED <<StoreVars, forward, actor, request, conn, pong, ClientVars>>

\* The next missed message is queued; the first failure abandons the replay.
ReplayOne(s) ==
    /\ main[s] = "replay"
    /\ \E m \in missed[s] :
          /\ \A k \in missed[s] : m[1] <= k[1]
          /\ IF CanSend(s)
             THEN /\ out' = Queued(s, "event", m[2])
                  /\ missed' = [missed EXCEPT ![s] = @ \ {m}]
             ELSE /\ missed' = [missed EXCEPT ![s] = {}]
                  /\ UNCHANGED out
    /\ UNCHANGED <<StoreVars, main, forward, actor, request, conn, rx,
                   pong, ClientVars>>

\* should_send_reconnect_snapshot; without a snapshot the loop starts at once.
WantsSnapshot(s) == request[s].conn # NoConn \/ request[s].since > 0

ReplayDone(s) ==
    /\ main[s] = "replay"
    /\ missed[s] = {}
    /\ main' = [main EXCEPT ![s] = IF WantsSnapshot(s) THEN "snapshot" ELSE "run"]
    /\ forward' = [forward EXCEPT ![s] = IF WantsSnapshot(s) THEN @ ELSE "on"]
    /\ UNCHANGED <<StoreVars, actor, request, conn, missed, out, rx, pong,
                   ClientVars>>

-----------------------------------------------------------------------------
\* queue_message and then actor.send, by the main task (a snapshot) or the
\* forwarding task (a hub event).  Other tasks run between the numbering and the
\* buffering; from there to the send nothing else looks at the message.
\* A failed send ends the forwarding task; the main task only logs it.
SendEvent(s, role, n) ==
    /\ out' = IF CanSend(s) THEN Queued(s, "event", n) ELSE out
    /\ IF role = "main"
       THEN /\ main' = [main EXCEPT ![s] = "run"]
            /\ forward' = [forward EXCEPT ![s] = IF @ = "off" THEN "on" ELSE @]
       ELSE /\ forward' = [forward EXCEPT ![s] = IF CanSend(s) THEN @ ELSE "ended"]
            /\ UNCHANGED main

\* A stream that was purged gives no number: the message goes out without one.
Take(s, role, e) ==
    \/ NextSequence(<<s, role>>, conn[s], e) /\ UNCHANGED <<main, forward, out>>
    \/ /\ hand[<<s, role>>] = Idle
       /\ conn[s] \notin connections
       /\ SendEvent(s, role, 0)
       /\ UNCHANGED StoreVars

TakeSnapshot(s, e) ==
    /\ main[s] = "snapshot"
    /\ Take(s, "main", e)
    /\ UNCHANGED <<actor, request, conn, missed, rx, pong, ClientVars>>

\* build_reconnect_snapshot fails.
SnapshotFails(s) ==
    /\ main[s] = "snapshot"
    /\ hand[<<s, "main">>] = Idle
    /\ main' = [main EXCEPT ![s] = "run"]
    /\ forward' = [forward EXCEPT ![s] = IF @ = "off" THEN "on" ELSE @]
    /\ UNCHANGED <<StoreVars, actor, request, conn, missed, out, rx, pong, ClientVars>>

TakeEvent(s) ==
    /\ forward[s] = "on"
    /\ rx[s] # <<>>
    /\ Take(s, "forward", Head(rx[s]))
    /\ rx' = [rx EXCEPT ![s] = Tail(@)]
    /\ UNCHANGED <<actor, request, conn, missed, pong, ClientVars>>

SendTaken(s, role) ==
    /\ BufferMessage(<<s, role>>)
    /\ SendEvent(s, role, hand[<<s, role>>].seq)
    /\ UNCHANGED <<actor, request, conn, missed, rx, pong, ClientVars>>

-----------------------------------------------------------------------------
\* The event loop of run_connection.

\* The client asks for the initial load: reply, then send a snapshot.
AskInitialLoad(s) ==
    /\ main[s] = "run"
    /\ actor[s] = "up"
    /\ link[s] = "up"
    /\ main' = [main EXCEPT ![s] = "snapshot"]
    /\ out' = IF CanSend(s) THEN Queued(s, "event", 0) ELSE out
    /\ TouchStream(conn[s])
    /\ pong' = [pong EXCEPT ![s] = 0]
    /\ UNCHANGED <<forward, actor, request, conn, missed, rx, ClientVars>>

\* Leave the loop: abort the forwarding task (it finishes the message it has in
\* hand), disconnect, start the grace timer and leave the hub.
LeaveLoop(s) ==
    /\ main' = [main EXCEPT ![s] = "grace"]
    /\ forward' = [forward EXCEPT ![s] = "ended"]
    /\ Disconnect(conn[s])
    /\ rx' = [rx EXCEPT ![s] = <<>>]
    /\ UNCHANGED <<actor, request, conn, missed, pong, ClientVars>>

EndLoop(s) ==
    /\ main[s] = "run"
    /\ actor[s] \in {"told", "down"} \/ forward[s] = "ended"
    /\ LeaveLoop(s)
    /\ UNCHANGED out

TokenExpires(s) ==
    /\ main[s] = "run"
    /\ out' = WithClose(s)
    /\ LeaveLoop(s)

\* After the grace window: handle_ws_connection_closed removes the session from
\* its call if the stream is gone or inactive.
StillInactive(s) == conn[s] \notin connections \/ ~stream[conn[s]].active

GraceCheck(s) ==
    /\ main[s] = "grace"
    /\ main' = [main EXCEPT ![s] = "done"]
    /\ UNCHANGED <<StoreVars, forward, actor, request, conn, missed, out, rx,
                   pong, ClientVars>>

\* The hub hands an event to every socket of the user; a full receiver lags and
\* loses its oldest event.
Subscribed(s) == main[s] \in {"joined", "replay", "snapshot", "run"}

Publish(u, e) ==
    /\ rx' = [s \in Sockets |->
                 IF ~Subscribed(s) \/ request[s].user # u THEN rx[s]
                 ELSE Append(IF Len(rx[s]) >= HubCapacity THEN Tail(rx[s]) ELSE rx[s], e)]
    /\ UNCHANGED <<StoreVars, main, forward, actor, request, conn, missed, out,
                   pong, ClientVars>>

-----------------------------------------------------------------------------
\* ActorTask::run.  Leaving the loop sets is_closing at once; the store learns of
\* it after the close frame has been tried (ActorFinish).
Stop(s, emits) == actor' = [actor EXCEPT ![s] = IF emits THEN "told" ELSE "quiet"]

\* What the device on s keeps of a frame: the hello names the stream and resets
\* the number when the stream is new; events raise the number.
Keeps(s, f) ==
    /\ device' = [d \in Devices |->
         IF device[d].socket # s THEN device[d]
         ELSE CASE f.kind = "hello" ->
                     [device[d] EXCEPT !.conn = conn[s],
                                       !.last = IF device[d].conn = conn[s] THEN @ ELSE 0]
                [] f.kind = "event" ->
                     [device[d] EXCEPT !.last = IF f.seq > @ THEN f.seq ELSE @]]
    /\ got' = [d \in Devices |->
         IF device[d].socket = s /\ f.kind = "event" /\ f.seq > 0
         THEN got[d] \cup {<<conn[s], f.seq>>} ELSE got[d]]

ActorWrite(s) ==
    /\ actor[s] = "up"
    /\ out[s] # <<>>
    /\ Head(out[s]).kind # "close"
    /\ out' = [out EXCEPT ![s] = Tail(@)]
    /\ \/ /\ link[s] = "up"
          /\ Keeps(s, Head(out[s]))
          /\ UNCHANGED <<actor, link>>
       \/ \* accepted by the kernel and lost
          /\ link[s] # "up"
          /\ UNCHANGED <<actor, ClientVars>>
       \/ \* write error or timeout
          /\ link[s] # "up"
          /\ Stop(s, FALSE)
          /\ UNCHANGED ClientVars
    /\ UNCHANGED <<StoreVars, main, forward, request, conn, missed, rx, pong>>

\* WsCommand::Close: the close frame is written without a deadline.
ActorClose(s) ==
    /\ actor[s] = "up"
    /\ out[s] # <<>>
    /\ Head(out[s]).kind = "close"
    /\ \/ Stop(s, TRUE)
       \/ /\ link[s] = "stalled"
          /\ actor' = [actor EXCEPT ![s] = "stuck"]
    /\ out' = [out EXCEPT ![s] = Tail(@)]
    /\ UNCHANGED <<StoreVars, main, forward, request, conn, missed, rx, pong, ClientVars>>

\* A text, binary or pong frame refreshes last_pong and the stream; the event
\* may not fit the main task's queue (or find it gone), which ends the actor.
ActorHearsUntouched(s) ==
    /\ actor[s] = "up"
    /\ link[s] = "up"
    /\ pong' = [pong EXCEPT ![s] = 0]
    /\ UNCHANGED actor \/ Stop(s, FALSE)
    /\ UNCHANGED <<StoreVars, main, forward, request, conn, missed, out, rx, ClientVars>>

ActorHears(s) ==
    /\ actor[s] = "up"
    /\ link[s] = "up"
    /\ pong' = [pong EXCEPT ![s] = 0]
    /\ TouchStream(conn[s])
    /\ UNCHANGED actor \/ Stop(s, FALSE)
    /\ UNCHANGED <<main, forward, request, conn, missed, out, rx, ClientVars>>

\* A ping frame is answered with a pong written without a deadline, so a peer
\* that sent it and reads nothing holds the actor.
ActorAnswersPing(s) ==
    /\ actor[s] = "up"
    /\ link[s] = "stalled"
    /\ actor' = [actor EXCEPT ![s] = "stuck"]
    /\ UNCHANGED <<StoreVars, main, forward, request, conn, missed, out, rx,
                   pong, ClientVars>>

\* The untimed write of a stuck actor fails once TCP gives the peer up.
ActorUnstuck(s) ==
    /\ actor[s] = "stuck"
    /\ link[s] = "gone"
    /\ Stop(s, FALSE)
    /\ UNCHANGED <<StoreVars, main, forward, request, conn, missed, out, rx, pong, ClientVars>>

\* A close frame, the end of the stream or a read error.
ActorHearsEnd(s) ==
    /\ actor[s] = "up"
    /\ link[s] = "gone"
    /\ \E emits \in BOOLEAN : Stop(s, emits)
    /\ UNCHANGED <<StoreVars, main, forward, request, conn, missed, out, rx, pong, ClientVars>>

\* The ping tick: stop when closing or when the peer has been silent too long.
HeartbeatLost(s) == pong[s] > MaxMissedHeartbeats

ActorPingTickClosingOnly(s) ==
    /\ actor[s] = "up"
    /\ is_closing(s)
    /\ Stop(s, FALSE)
    /\ UNCHANGED <<StoreVars, main, forward, request, conn, missed, out, rx, pong, ClientVars>>

ActorPingTick(s) ==
    /\ actor[s] = "up"
    /\ is_closing(s) \/ HeartbeatLost(s)
    /\ Stop(s, FALSE)
    /\ UNCHANGED <<StoreVars, main, forward, request, conn, missed, out, rx, pong, ClientVars>>

\* The last sender of commands is dropped with run_connection and the forwarding
\* task.
ActorOrphaned(s) ==
    /\ actor[s] = "up"
    /\ main[s] \in {"grace", "done"}
    /\ hand[<<s, "forward">>] = Idle
    /\ out[s] = <<>>
    /\ Stop(s, FALSE)
    /\ UNCHANGED <<StoreVars, main, forward, request, conn, missed, out, rx, pong, ClientVars>>

ActorFinishForgetting(s) ==
    /\ actor[s] \in {"told", "quiet"}
    /\ actor' = [actor EXCEPT ![s] = "down"]
    /\ link' = [link EXCEPT ![s] = "gone"]
    /\ out' = [out EXCEPT ![s] = <<>>]
    /\ pong' = [pong EXCEPT ![s] = 0]
    /\ UNCHANGED <<StoreVars, main, forward, request, conn, missed, rx, device, got>>

ActorFinish(s) ==
    /\ actor[s] \in {"told", "quiet"}
    /\ actor' = [actor EXCEPT ![s] = "down"]
    /\ link' = [link EXCEPT ![s] = "gone"]
    /\ out' = [out EXCEPT ![s] = <<>>]
    /\ pong' = [pong EXCEPT ![s] = 0]
    /\ Disconnect(conn[s])
    /\ UNCHANGED <<main, forward, request, conn, missed, rx, device, got>>

-----------------------------------------------------------------------------
\* A ping interval passes.  A running actor that has lost its heartbeat acts on its
\* ping tick before the next interval ends.
Tick ==
    /\ TimePasses
    /\ \A s \in Sockets : actor[s] = "up" => ~HeartbeatLost(s)
    /\ StoreTick
    /\ pong' = [s \in Sockets |-> IF actor[s] = "up" THEN pong[s] + 1 ELSE pong[s]]
    /\ UNCHANGED <<main, forward, actor, request, conn, missed, out, rx,
                   ClientVars>>

Sweep ==
    /\ CleanupScan \/ \E c \in Conns : CleanupRemove(c)
    /\ UNCHANGED <<ServerVars, ClientVars>>

MainStep(s) ==
    \/ Reject(s)
    \/ \E c \in Conns : Attach(s, c)
    \/ UsernameFails(s)
    \/ JoinHub(s)
    \/ Hello(s)
    \/ ReplayOne(s)
    \/ ReplayDone(s)
    \/ \E e \in Events : TakeSnapshot(s, e)
    \/ SnapshotFails(s)
    \/ SendTaken(s, "main")
    \/ EndLoop(s)
    \/ GraceCheck(s)

ForwardStep(s) == TakeEvent(s) \/ SendTaken(s, "forward")

ActorStep(s) ==
    \/ ActorWrite(s)
    \/ ActorClose(s)
    \/ ActorPingTick(s)
    \/ ActorOrphaned(s)
    \/ ActorUnstuck(s)
    \/ ActorFinish(s)

Environment ==
    \/ \E d \in Devices, s \in Sockets : Connect(d, s)
    \/ \E d \in Devices : Leave(d) \/ Stall(d)
    \/ \E s \in Sockets : \/ AskInitialLoad(s)
                          \/ TokenExpires(s)
                          \/ ActorHears(s)
                          \/ ActorAnswersPing(s)
                          \/ ActorHearsEnd(s)
    \/ \E u \in Users, e \in Events : Publish(u, e)

SessionNext ==
    \/ Environment
    \/ \E s \in Sockets : MainStep(s) \/ ForwardStep(s) \/ ActorStep(s)
    \/ Sweep
    \/ Tick

SessionSpec == SessionInit /\ [][SessionNext]_SessionVars

\* Tokio runs every ready task, timers fire, and the sweep is periodic.  Nothing is
\* assumed of devices, links or hub traffic.
SessionFairness ==
    /\ \A s \in Sockets : /\ WF_SessionVars(MainStep(s))
                          /\ WF_SessionVars(ForwardStep(s))
                          /\ WF_SessionVars(ActorStep(s))
                          /\ WF_SessionVars(ActorPingTick(s))
    /\ WF_SessionVars(Sweep)
    /\ WF_SessionVars(Tick)

FairSessionSpec == SessionSpec /\ SessionFairness

-----------------------------------------------------------------------------
(***************************************************************************)
(* A message reaches a device at most once, over all the sockets on which  *)
(* it resumes one stream: what is queued for its current socket carries    *)
(* numbers it has not received, each once (get_missed_messages' cut, the   *)
(* overlap of replay and forwarding, an old socket still numbering).       *)
(***************************************************************************)
NoSecondDelivery ==
    \A d \in Devices, s \in Sockets : device[d].socket = s =>
        \A i \in 1 .. Len(out[s]) : out[s][i].kind = "event" /\ out[s][i].seq > 0 =>
            /\ <<conn[s], out[s][i].seq>> \notin got[d]
            /\ \A j \in 1 .. Len(out[s]) : 
                 out[s][j].kind = "event" /\ out[s][j].seq = out[s][i].seq => i = j

(***************************************************************************)
(* The sweep never finds the stream of a running socket expired, although  *)
(* a predecessor's late disconnect may have marked that stream inactive:   *)
(* whatever keeps last_pong recent also touches the stream, and the        *)
(* heartbeat limit is shorter than the TTL.                                *)
(***************************************************************************)
LiveStreamNotExpired ==
    \A s \in Sockets : actor[s] = "up" => ~is_expired(conn[s])

(***************************************************************************)
(* The actor's header, "30s ping interval, 2 missed-heartbeat timeout, 30s *)
(* write deadline": the server eventually ends a socket whose peer is      *)
(* gone, even without a close frame, and even if the peer had stalled and  *)
(* the actor is held in one of the two writes without a deadline.          *)
(***************************************************************************)
SilentSocketEnds ==
    \A s \in Sockets :
        (link[s] = "gone" /\ actor[s] \in {"up", "stuck"}) ~> (actor[s] = "down")

(***************************************************************************)
(* A stream that no socket uses is eventually purged, whichever way its    *)
(* sockets ended: every path marks it inactive (cleanup_expired would      *)
(* never remove it otherwise).                                             *)
(***************************************************************************)
InUse(c) == \E s \in Sockets : conn[s] = c /\ actor[s] # "down"

UnusedStreamPurged ==
    \A c \in Conns : (c \in connections /\ ~InUse(c)) ~> (c \notin connections \/ InUse(c))

(***************************************************************************)
(* The comment on the grace timer, "best-effort participant cleanup if     *)
(* this exact session is still inactive": a session that is being served   *)
(* by another socket is not removed from its call.                         *)
(***************************************************************************)
CleanupSparesLiveSession ==
    [][\A s \in Sockets : GraceCheck(s) /\ StillInactive(s) =>
         \A r \in Sockets \ {s} : conn[r] = conn[s] => ~(actor[r] = "up" /\ main[r] = "run")
      ]_SessionVars
=============================================================================
