--------------------------- MODULE ConnectionStore ---------------------------
(***************************************************************************)
(* The store of resumable websocket streams                                *)
(* (backend/src/realtime/connection_store.rs).                             *)
(*                                                                         *)
(* A stream outlives the socket that carries it: it numbers every event,   *)
(* keeps the last MessageBufferSize of them for replay, and is purged by a *)
(* periodic sweep once it has been inactive for ConnectionTtl.  The store  *)
(* is shared by every connection task of the process, so the steps inside  *)
(* queue_message (number, then buffer) and inside cleanup_expired          *)
(* (inspect, then remove) interleave with everything else.                 *)
(*                                                                         *)
(* Time is counted in ping intervals (30 s).                               *)
(***************************************************************************)
EXTENDS Integers, Sequences, FiniteSets

CONSTANTS
    Conns,             \* connection ids (fresh UUIDs: each is allocated once)
    Users,
    Tasks,             \* tasks that queue messages
    Events,            \* payloads
    MessageBufferSize, \* MESSAGE_BUFFER_SIZE
    ConnectionTtl,     \* CONNECTION_TTL, in ping intervals
    MaxSequence,       \* bound on the numbers a stream hands out
    NoUser,            \* owner of an id that was never allocated
    Idle               \* a task that is not inside queue_message

ASSUME StoreAssumption ==
    /\ MessageBufferSize \in Nat \ {0}
    /\ ConnectionTtl \in Nat
    /\ MaxSequence \in Nat
    /\ NoUser \notin Users

VARIABLES
    connections,       \* keys of the DashMap
    stream,            \* the ConnectionState behind each id (an Arc: sockets
                       \* keep it alive after the key is gone)
    user_connections,  \* index: user -> connection ids
    hand,              \* task -> the message it has numbered, not yet buffered
    doomed             \* ids the running sweep found expired

StoreVars == <<connections, stream, user_connections, hand, doomed>>

Message == [seq : Nat, event : Events]
Held    == [conn : Conns, seq : Nat, event : Events]

ConnectionState ==
    [user     : Users \cup {NoUser},
     sequence : Nat \ {0},
     buffer   : Seq(Message),
     active   : BOOLEAN,
     idle     : 0 .. ConnectionTtl + 1]

(***************************************************************************)
(* Types.  A stream's counter never goes below 1, the first number that    *)
(* resume_or_create gives a fresh stream: 0 is the hello's.                *)
(***************************************************************************)
StoreTypeOK ==
    /\ connections \subseteq Conns
    /\ stream \in [Conns -> ConnectionState]
    /\ user_connections \in [Users -> SUBSET Conns]
    /\ hand \in [Tasks -> Held \cup {Idle}]
    /\ doomed \subseteq Conns

\* ConnectionState::new: numbering starts at 1 (the hello carries 0).
NewState(u) ==
    [user |-> u, sequence |-> 1, buffer |-> <<>>, active |-> TRUE, idle |-> 0]

StoreInit ==
    /\ connections = {}
    /\ stream = [c \in Conns |->
                    [user |-> NoUser, sequence |-> 1, buffer |-> <<>>,
                     active |-> FALSE, idle |-> 0]]
    /\ user_connections = [u \in Users |-> {}]
    /\ hand = [t \in Tasks |-> Idle]
    /\ doomed = {}

-----------------------------------------------------------------------------
\* ConnectionState::mark_active / mark_inactive / touch on one stream.
MarkActive(st)   == [st EXCEPT !.active = TRUE, !.idle = 0]
MarkInactive(st) == [st EXCEPT !.active = FALSE, !.idle = 0]
Touch(st)        == [st EXCEPT !.idle = 0]

is_expired(c) == ~stream[c].active /\ stream[c].idle > ConnectionTtl

\* The numbers in the buffer that are newer, each with its place: a replay goes in the buffer's order.
get_messages_from(c, since) ==
    LET buf == stream[c].buffer IN {<<i, buf[i].seq>> : i \in {k \in 1 .. Len(buf) : buf[k].seq >= since}}

get_missed_messages(c, since) ==
    LET buf == stream[c].buffer IN {<<i, buf[i].seq>> : i \in {k \in 1 .. Len(buf) : buf[k].seq > since}}

\* resume_or_create: an id is resumed only if it is still stored and belongs
\* to the same user; otherwise a fresh id is allocated.
Resumable(req, u) == req \in connections /\ stream[req].user = u

Unallocated(c) == stream[c].user = NoUser

Resume(c) ==
    /\ stream' = [stream EXCEPT ![c] = MarkActive(@)]
    /\ UNCHANGED <<connections, user_connections, hand, doomed>>

Create(c, u) ==
    /\ Unallocated(c)
    /\ stream' = [stream EXCEPT ![c] = NewState(u)]
    /\ connections' = connections \cup {c}
    /\ user_connections' = [user_connections EXCEPT ![u] = @ \cup {c}]
    /\ UNCHANGED <<hand, doomed>>

\* disconnect_connection: a no-op when the id has been purged.
Disconnected == 
    [c \in Conns |-> IF c \in connections THEN MarkInactive(stream[c]) ELSE stream[c]]

Disconnect(c) ==
    /\ ~Unallocated(c)
    /\ stream' = [stream EXCEPT ![c] = Disconnected[c]]
    /\ UNCHANGED <<connections, user_connections, hand, doomed>>

\* touch, by the socket task that received a frame.
TouchStream(c) ==
    /\ ~Unallocated(c)
    /\ stream' = [stream EXCEPT ![c] = Touch(@)]
    /\ UNCHANGED <<connections, user_connections, hand, doomed>>

\* queue_message, first half: look the id up and take the next number.
NextSequencePeeked(t, c, e) ==
    /\ hand[t] = Idle
    /\ c \in connections
    /\ stream[c].sequence <= MaxSequence
    /\ hand' = [hand EXCEPT ![t] = [conn |-> c, seq |-> stream[c].sequence, event |-> e]]
    /\ UNCHANGED <<connections, stream, user_connections, doomed>>

NextSequence(t, c, e) ==
    /\ hand[t] = Idle
    /\ c \in connections
    /\ stream[c].sequence <= MaxSequence
    /\ hand' = [hand EXCEPT ![t] = [conn |-> c, seq |-> stream[c].sequence, event |-> e]]
    /\ stream' = [stream EXCEPT ![c].sequence = @ + 1]
    /\ UNCHANGED <<connections, user_connections, doomed>>

\* buffer_message: drop the oldest when full, append, refresh the activity.
Buffered(buf, m) ==
    Append(IF Len(buf) >= MessageBufferSize THEN Tail(buf) ELSE buf, m)

BufferMessage(t) ==
    /\ hand[t] # Idle
    /\ LET h == hand[t] IN
       stream' = [stream EXCEPT
                    ![h.conn].buffer = Buffered(@, [seq |-> h.seq, event |-> h.event]),
                    ![h.conn].idle = 0]
    /\ hand' = [hand EXCEPT ![t] = Idle]
    /\ UNCHANGED <<connections, user_connections, doomed>>

\* cleanup_expired, first half: collect the expired ids.
CleanupScan ==
    /\ doomed = {}
    /\ doomed' = {c \in connections : is_expired(c)}
    /\ UNCHANGED <<connections, stream, user_connections, hand>>

\* cleanup_expired, second half: remove one collected id.  The removal takes the
\* shard's write lock, which a task inside queue_message holds for reading.
CleanupRemoveKeepingIndex(c) ==
    /\ c \in doomed
    /\ \A t \in Tasks : hand[t] # Idle => hand[t].conn # c
    /\ connections' = connections \ {c}
    /\ doomed' = doomed \ {c}
    /\ UNCHANGED <<stream, user_connections, hand>>

CleanupRemove(c) ==
    /\ c \in doomed
    /\ \A t \in Tasks : hand[t] # Idle => hand[t].conn # c
    /\ connections' = connections \ {c}
    /\ user_connections' = [u \in Users |-> IF u = stream[c].user
                                            THEN user_connections[u] \ {c}
                                            ELSE user_connections[u]]
    /\ doomed' = doomed \ {c}
    /\ UNCHANGED <<stream, hand>>

\* One ping interval passes for every stream; ages above the TTL are alike.
Older(st) == [st EXCEPT !.idle = IF @ > ConnectionTtl THEN @ ELSE @ + 1]

StoreTick ==
    /\ stream' = [c \in Conns |-> Older(stream[c])]
    /\ UNCHANGED <<connections, user_connections, hand, doomed>>

-----------------------------------------------------------------------------
\* The store under arbitrary concurrent callers.
StoreOp ==
    \/ \E c \in Conns, u \in Users : Create(c, u) \/ (Resumable(c, u) /\ Resume(c))
    \/ \E c \in Conns : Disconnect(c) \/ TouchStream(c) \/ CleanupRemove(c)
    \/ \E t \in Tasks, c \in Conns, e \in Events : NextSequence(t, c, e)
    \/ \E t \in Tasks : BufferMessage(t)
    \/ CleanupScan

StoreNext == StoreOp \/ StoreTick

StoreSpec == StoreInit /\ [][StoreNext]_StoreVars

-----------------------------------------------------------------------------
\* Numbers a stream has given out that a replay can still produce.
InHand(c, q) == \E t \in Tasks : hand[t] # Idle /\ hand[t].conn = c /\ hand[t].seq = q

(***************************************************************************)
(* However queue_message calls interleave, a number identifies one event   *)
(* of a stream: buffered entries have distinct numbers, a number still in  *)
(* some task's hand is not buffered and not in another hand, and none has  *)
(* reached the stream's counter.  The replay after a reconnect is selected *)
(* by number (get_missed_messages), so a repeat would hide an event.       *)
(***************************************************************************)
NumbersIdentifyEvents ==
    \A c \in Conns :
        LET buf == stream[c].buffer IN
        /\ \A i, j \in 1 .. Len(buf) : buf[i].seq = buf[j].seq => i = j
        /\ \A i \in 1 .. Len(buf) : buf[i].seq < stream[c].sequence /\ ~InHand(c, buf[i].seq)
        /\ \A t, u \in Tasks :
              /\ hand[t] # Idle
              /\ hand[u] # Idle
              /\ hand[t].conn = c
              /\ hand[u].conn = c
              => /\ hand[t].seq < stream[c].sequence
                 /\ hand[t].seq = hand[u].seq => t = u

(***************************************************************************)
(* The ring buffer never holds more than MESSAGE_BUFFER_SIZE messages.     *)
(***************************************************************************)
BufferBounded == \A c \in Conns : Len(stream[c].buffer) <= MessageBufferSize

(***************************************************************************)
(* The per-user index and the map agree, whatever resumes, purges and      *)
(* creations overlap: a user's list names exactly that user's stored       *)
(* streams.                                                                *)
(***************************************************************************)
IndexMatchesMap ==
    \A u \in Users : user_connections[u] = {c \in connections : stream[c].user = u}
=============================================================================
