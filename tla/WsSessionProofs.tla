--------------------------- MODULE WsSessionProofs ---------------------------
(***************************************************************************)
(* Proofs about ConnectionStore and WsSession for any number of sockets,   *)
(* devices and streams and any buffer size.  Of the store: types, the      *)
(* identity of sequence numbers, the bound on the buffer, and the          *)
(* agreement of the user index with the map.  Of the session: it uses the  *)
(* store only through its operations, the heartbeat keeps the stream of a  *)
(* running socket from expiring, and no message is delivered twice.        *)
(***************************************************************************)
EXTENDS WsSession, TLAPS

-----------------------------------------------------------------------------
(* The store. *)

(***************************************************************************)
(* What the lifecycle of an id adds to NumbersIdentifyEvents: an id that   *)
(* was never allocated is pristine, and only allocated ids are stored,     *)
(* held by a task or found by the sweep.                                   *)
(***************************************************************************)
Lifecycle ==
    /\ \A c \in Conns : Unallocated(c) =>
          /\ stream[c].buffer = <<>>
          /\ c \notin connections
          /\ c \notin doomed
          /\ \A t \in Tasks : hand[t] # Idle => hand[t].conn # c
    /\ \A c \in Conns : ~Unallocated(c) => stream[c].user \in Users

StoreInv == StoreTypeOK /\ NumbersIdentifyEvents /\ Lifecycle

(***************************************************************************)
(* What Buffered returns: the new message last, before it messages of the  *)
(* old buffer in their order, and the length within the bound.             *)
(***************************************************************************)
LEMMA BufferedFacts ==
    ASSUME NEW buf \in Seq(Message), NEW m \in Message
    PROVE  LET b == Buffered(buf, m)
               d == IF Len(buf) >= MessageBufferSize THEN 1 ELSE 0
           IN  /\ b \in Seq(Message)
               /\ Len(b) = Len(buf) - d + 1
               /\ Len(b) \in Nat
               /\ b[Len(b)] = m
               /\ \A i \in 1 .. Len(b) - 1 : i + d \in 1 .. Len(buf) /\ b[i] = buf[i + d]
<1>1. CASE Len(buf) >= MessageBufferSize
  <2>1. buf # <<>>
    BY <1>1, StoreAssumption
  <2>2. /\ Tail(buf) \in Seq(Message)
        /\ Len(Tail(buf)) = Len(buf) - 1
        /\ \A i \in 1 .. Len(buf) - 1 : Tail(buf)[i] = buf[i + 1]
    BY <2>1
  <2>3. Len(buf) \in Nat /\ Len(buf) > 0
    BY <1>1, StoreAssumption
  <2>. QED
    BY <1>1, <2>2, <2>3 DEF Buffered
<1>2. CASE ~(Len(buf) >= MessageBufferSize)
  BY <1>2 DEF Buffered
<1>. QED
  BY <1>1, <1>2

(***************************************************************************)
(* Buffering a number that the buffer does not hold keeps numbers distinct *)
(* and adds no other number.                                               *)
(***************************************************************************)
LEMMA BufferedNumbers ==
    ASSUME NEW buf \in Seq(Message), NEW m \in Message,
           \A i, j \in 1 .. Len(buf) : buf[i].seq = buf[j].seq => i = j,
           \A i \in 1 .. Len(buf) : buf[i].seq # m.seq
    PROVE  LET b == Buffered(buf, m) IN
           /\ \A i, j \in 1 .. Len(b) : b[i].seq = b[j].seq => i = j
           /\ \A i \in 1 .. Len(b) : \/ b[i] = m
                                     \/ \E k \in 1 .. Len(buf) : b[i] = buf[k]
<1>. DEFINE b == Buffered(buf, m)
            d == IF Len(buf) >= MessageBufferSize THEN 1 ELSE 0
<1>1. /\ Len(b) \in Nat
      /\ b[Len(b)] = m
      /\ \A i \in 1 .. Len(b) - 1 : i + d \in 1 .. Len(buf) /\ b[i] = buf[i + d]
  BY BufferedFacts
<1>2. d \in {0, 1}
  OBVIOUS
<1>. HIDE DEF b, d
<1>3. ASSUME NEW i \in 1 .. Len(b), NEW j \in 1 .. Len(b), b[i].seq = b[j].seq
      PROVE  i = j
  BY <1>1, <1>2, <1>3
<1>4. ASSUME NEW i \in 1 .. Len(b)
      PROVE  b[i] = m \/ \E k \in 1 .. Len(buf) : b[i] = buf[k]
  BY <1>1, <1>2
<1>. QED
  BY <1>3, <1>4 DEF b

(***************************************************************************)
(* The updates of a ConnectionState have its type.                         *)
(***************************************************************************)
LEMMA StateUpdates ==
    ASSUME NEW st \in ConnectionState
    PROVE  /\ MarkActive(st) \in ConnectionState
           /\ MarkInactive(st) \in ConnectionState
           /\ Touch(st) \in ConnectionState
           /\ Older(st) \in ConnectionState
           /\ [st EXCEPT !.sequence = st.sequence + 1] \in ConnectionState
           /\ \A b \in Seq(Message) : [st EXCEPT !.buffer = b, !.idle = 0] \in ConnectionState
<1>. USE StoreAssumption
<1>1. MarkActive(st) \in ConnectionState /\ MarkInactive(st) \in ConnectionState
  <2>1. ASSUME NEW v \in BOOLEAN PROVE [st EXCEPT !.active = v] \in ConnectionState
    BY DEF ConnectionState
  <2>2. \A s \in ConnectionState : [s EXCEPT !.idle = 0] \in ConnectionState
    BY DEF ConnectionState
  <2>. QED
    BY <2>1, <2>2, Zenon DEF MarkActive, MarkInactive
<1>2. Touch(st) \in ConnectionState
  BY DEF Touch, ConnectionState
<1>3. Older(st) \in ConnectionState
  <2>. DEFINE n == IF st.idle > ConnectionTtl THEN st.idle ELSE st.idle + 1
  <2>1. n \in 0 .. ConnectionTtl + 1
    BY DEF ConnectionState
  <2>2. Older(st) = [st EXCEPT !.idle = n]
    BY DEF Older
  <2>. HIDE DEF n
  <2>. QED
    BY <2>1, <2>2 DEF ConnectionState
<1>4. [st EXCEPT !.sequence = st.sequence + 1] \in ConnectionState
  <2>. DEFINE n == st.sequence + 1
  <2>1. n \in Nat \ {0}
    BY DEF ConnectionState
  <2>. HIDE DEF n
  <2>2. [st EXCEPT !.sequence = n] \in ConnectionState
    BY <2>1 DEF ConnectionState
  <2>. QED
    BY <2>2 DEF n
<1>5. \A b \in Seq(Message) : [st EXCEPT !.buffer = b, !.idle = 0] \in ConnectionState
  <2>1. ASSUME NEW b \in Seq(Message) PROVE [st EXCEPT !.buffer = b] \in ConnectionState
    BY DEF ConnectionState
  <2>2. \A s \in ConnectionState : [s EXCEPT !.idle = 0] \in ConnectionState
    BY DEF ConnectionState
  <2>. QED
    BY <2>1, <2>2, Zenon
<1>. QED
  BY <1>1, <1>2, <1>3, <1>4, <1>5

(***************************************************************************)
(* The empty store satisfies the invariant.                                *)
(***************************************************************************)
LEMMA StoreInitInv == StoreInit => StoreInv
  BY StoreAssumption
  DEF StoreInit, StoreInv, StoreTypeOK, NumbersIdentifyEvents, Lifecycle, Unallocated,
      ConnectionState, InHand

(***************************************************************************)
(* Types are preserved by every operation of the store.                    *)
(***************************************************************************)
LEMMA StoreTypeStep == StoreInv /\ [StoreNext]_StoreVars => StoreTypeOK'
<1>. SUFFICES ASSUME StoreInv, [StoreNext]_StoreVars PROVE StoreTypeOK'
  OBVIOUS
<1>. USE StoreAssumption DEF StoreInv, StoreTypeOK
<1>0. CASE UNCHANGED StoreVars
  BY <1>0 DEF StoreVars
<1>1. ASSUME NEW c \in Conns, NEW u \in Users, Create(c, u) PROVE StoreTypeOK'
  <2>1. NewState(u) \in ConnectionState
    BY DEF NewState, ConnectionState
  <2>. QED
    BY <1>1, <2>1 DEF Create
<1>2. ASSUME NEW c \in Conns, Resume(c) PROVE StoreTypeOK'
  <2>1. MarkActive(stream[c]) \in ConnectionState
    BY StateUpdates
  <2>. QED
    BY <1>2, <2>1 DEF Resume
<1>3. ASSUME NEW c \in Conns, Disconnect(c) PROVE StoreTypeOK'
  <2>1. MarkInactive(stream[c]) \in ConnectionState
    BY StateUpdates
  <2>. QED
    BY <1>3, <2>1 DEF Disconnect, Disconnected
<1>4. ASSUME NEW c \in Conns, TouchStream(c) PROVE StoreTypeOK'
  <2>1. Touch(stream[c]) \in ConnectionState
    BY StateUpdates
  <2>. QED
    BY <1>4, <2>1 DEF TouchStream
<1>5. ASSUME NEW c \in Conns, CleanupRemove(c) PROVE StoreTypeOK'
  BY <1>5 DEF CleanupRemove
<1>6. ASSUME NEW t \in Tasks, NEW c \in Conns, NEW e \in Events, NextSequence(t, c, e)
      PROVE  StoreTypeOK'
  <2>1. [stream[c] EXCEPT !.sequence = @ + 1] \in ConnectionState
    BY StateUpdates
  <2>2. [conn |-> c, seq |-> stream[c].sequence, event |-> e] \in Held
    BY DEF ConnectionState, Held
  <2>. QED
    BY <1>6, <2>1, <2>2 DEF NextSequence
<1>7. ASSUME NEW t \in Tasks, BufferMessage(t) PROVE StoreTypeOK'
  <2>. DEFINE h == hand[t]
              m == [seq |-> h.seq, event |-> h.event]
  <2>1. h \in Held /\ m \in Message
    BY <1>7 DEF BufferMessage, Held, Message
  <2>2. stream[h.conn].buffer \in Seq(Message)
    BY <2>1 DEF Held, ConnectionState
  <2>3. Buffered(stream[h.conn].buffer, m) \in Seq(Message)
    BY <2>1, <2>2, BufferedFacts
  <2>4. [stream[h.conn] EXCEPT !.buffer = Buffered(@, m), !.idle = 0] \in ConnectionState
    BY <2>1, <2>3, StateUpdates DEF Held
  <2>5. stream' = [stream EXCEPT ![h.conn] =
                     [stream[h.conn] EXCEPT !.buffer = Buffered(@, m), !.idle = 0]]
    BY <1>7, <2>1 DEF BufferMessage, Held
  <2>6. hand' \in [Tasks -> Held \cup {Idle}]
    BY <1>7 DEF BufferMessage
  <2>. HIDE DEF m
  <2>. QED
    BY <1>7, <2>1, <2>4, <2>5, <2>6 DEF BufferMessage, Held
<1>8. CASE CleanupScan
  BY <1>8 DEF CleanupScan
<1>9. CASE StoreTick
  <2>1. \A c \in Conns : Older(stream[c]) \in ConnectionState
    BY StateUpdates
  <2>. QED
    BY <1>9, <2>1 DEF StoreTick
<1>. QED
  BY <1>0, <1>1, <1>2, <1>3, <1>4, <1>5, <1>6, <1>7, <1>8, <1>9 DEF StoreNext, StoreOp

(***************************************************************************)
(* No operation of the store makes a stream look older; only time does.    *)
(***************************************************************************)
LEMMA OperationsRefresh ==
    ASSUME StoreTypeOK, [StoreOp]_StoreVars
    PROVE  \A c \in Conns : stream'[c].idle <= stream[c].idle
<1>. DEFINE Fresher == \A c \in Conns : stream'[c].idle <= stream[c].idle
<1>0. \A c \in Conns : stream[c] \in ConnectionState /\ stream[c].idle \in Nat
  BY StoreAssumption DEF StoreTypeOK, ConnectionState
<1>. USE DEF StoreTypeOK
<1>1. CASE UNCHANGED stream
  BY <1>0, <1>1
<1>2. ASSUME NEW c \in Conns, NEW u \in Users, Create(c, u) PROVE Fresher
  BY <1>0, <1>2 DEF Create, NewState
<1>3. ASSUME NEW c \in Conns, Resume(c) PROVE Fresher
  BY <1>0, <1>3 DEF Resume, MarkActive, ConnectionState
<1>4. ASSUME NEW c \in Conns, Disconnect(c) PROVE Fresher
  BY <1>0, <1>4 DEF Disconnect, Disconnected, MarkInactive, ConnectionState
<1>5. ASSUME NEW c \in Conns, TouchStream(c) PROVE Fresher
  BY <1>0, <1>5 DEF TouchStream, Touch, ConnectionState
<1>6. ASSUME NEW t \in Tasks, NEW c \in Conns, NEW e \in Events, NextSequence(t, c, e)
      PROVE  Fresher
  BY <1>0, <1>6 DEF NextSequence, ConnectionState
<1>7. ASSUME NEW t \in Tasks, BufferMessage(t) PROVE Fresher
  <2>1. hand[t].conn \in Conns
    BY <1>7 DEF BufferMessage, Held
  <2>. QED
    BY <1>0, <1>7, <2>1 DEF BufferMessage, ConnectionState
<1>. QED
  BY <1>1, <1>2, <1>3, <1>4, <1>5, <1>6, <1>7 DEF StoreOp, StoreVars, CleanupRemove, CleanupScan

(***************************************************************************)
(* Every operation but queue_message's two halves and Create leaves each   *)
(* stream's owner, counter and buffer alone.                               *)
(***************************************************************************)
SameNumbers ==
    /\ hand' = hand
    /\ \A c \in Conns : /\ stream'[c].user = stream[c].user
                        /\ stream'[c].sequence = stream[c].sequence
                        /\ stream'[c].buffer = stream[c].buffer

LEMMA OtherStepsKeepNumbers ==
    ASSUME StoreTypeOK,
           \/ UNCHANGED StoreVars
           \/ \E c \in Conns : Resume(c) \/ Disconnect(c) \/ TouchStream(c) \/ CleanupRemove(c)
           \/ CleanupScan
           \/ StoreTick
    PROVE  SameNumbers
<1>. USE DEF SameNumbers, StoreTypeOK
<1>1. CASE UNCHANGED StoreVars
  BY <1>1 DEF StoreVars
<1>2. ASSUME NEW c \in Conns, Resume(c) PROVE SameNumbers
  BY <1>2 DEF Resume, MarkActive, ConnectionState
<1>3. ASSUME NEW c \in Conns, Disconnect(c) PROVE SameNumbers
  BY <1>3 DEF Disconnect, Disconnected, MarkInactive, ConnectionState
<1>4. ASSUME NEW c \in Conns, TouchStream(c) PROVE SameNumbers
  BY <1>4 DEF TouchStream, Touch, ConnectionState
<1>5. ASSUME NEW c \in Conns, CleanupRemove(c) PROVE SameNumbers
  BY <1>5 DEF CleanupRemove
<1>6. CASE CleanupScan
  BY <1>6 DEF CleanupScan
<1>7. CASE StoreTick
  BY <1>7 DEF StoreTick, Older, ConnectionState
<1>. QED
  BY <1>1, <1>2, <1>3, <1>4, <1>5, <1>6, <1>7

\* No task holds number q of stream c after the step.
FreeNext(c, q) == \A s \in Tasks : hand'[s] # Idle /\ hand'[s].conn = c => hand'[s].seq # q

(***************************************************************************)
(* Numbers keep identifying events.                                        *)
(***************************************************************************)
LEMMA StoreNumbersStep == StoreInv /\ [StoreNext]_StoreVars => NumbersIdentifyEvents'
<1>. SUFFICES ASSUME StoreInv, [StoreNext]_StoreVars PROVE NumbersIdentifyEvents'
  OBVIOUS
<1>. USE DEF StoreInv
<1>1. CASE SameNumbers
  BY <1>1 DEF SameNumbers, NumbersIdentifyEvents, InHand
<1>2. ASSUME NEW c \in Conns, NEW u \in Users, Create(c, u) PROVE NumbersIdentifyEvents'
  <2>1. /\ hand' = hand
        /\ stream'[c].buffer = <<>>
        /\ \A t \in Tasks : hand[t] # Idle => hand[t].conn # c
        /\ \A d \in Conns \ {c} : stream'[d] = stream[d]
    BY <1>2 DEF Create, NewState, StoreTypeOK, Lifecycle
  <2>. QED
    BY <2>1 DEF NumbersIdentifyEvents, InHand
<1>3. ASSUME NEW t \in Tasks, NEW c \in Conns, NEW e \in Events, NextSequence(t, c, e)
      PROVE  NumbersIdentifyEvents'
  <2>. DEFINE q == stream[c].sequence
  <2>1. /\ hand[t] = Idle
        /\ hand' = [hand EXCEPT ![t] = [conn |-> c, seq |-> q, event |-> e]]
        /\ q \in Nat
        /\ \A d \in Conns : stream[d].sequence \in Nat
        /\ stream'[c].sequence = q + 1
        /\ \A d \in Conns \ {c} : stream'[d].sequence = stream[d].sequence
        /\ \A d \in Conns : stream'[d].buffer = stream[d].buffer
    BY <1>3 DEF NextSequence, StoreTypeOK, ConnectionState
  <2>2. /\ hand \in [Tasks -> Held \cup {Idle}]
        /\ hand'[t] = [conn |-> c, seq |-> q, event |-> e]
        /\ \A s \in Tasks \ {t} : hand'[s] = hand[s]
    BY <2>1 DEF StoreTypeOK
  <2>3. \A d \in Conns : \A i \in 1 .. Len(stream[d].buffer) : stream[d].buffer[i].seq \in Nat
    <3>. SUFFICES ASSUME NEW d \in Conns, NEW i \in 1 .. Len(stream[d].buffer)
                  PROVE  stream[d].buffer[i].seq \in Nat
      OBVIOUS
    <3>1. stream[d].buffer \in Seq(Message)
      BY DEF StoreTypeOK, ConnectionState
    <3>2. stream[d].buffer[i] \in Message
      BY <3>1
    <3>. QED
      BY <3>2 DEF Message
  <2>4. \A s \in Tasks : hand[s] # Idle => hand[s].seq \in Nat /\ hand[s].conn \in Conns
    BY DEF StoreTypeOK, Held
  <2>. HIDE DEF q
  <2>5. ASSUME NEW d \in Conns, NEW i \in 1 .. Len(stream'[d].buffer)
        PROVE  /\ stream'[d].buffer[i].seq < stream'[d].sequence
               /\ FreeNext(d, stream'[d].buffer[i].seq)
    <3>. DEFINE n == stream[d].buffer[i].seq
    <3>1. /\ stream'[d].buffer[i].seq = n
          /\ i \in 1 .. Len(stream[d].buffer)
          /\ n \in Nat
      BY <2>1, <2>3
    <3>2. n < stream[d].sequence /\ ~InHand(d, n)
      BY <3>1 DEF NumbersIdentifyEvents
    <3>3. n < stream'[d].sequence
      BY <2>1, <3>1, <3>2 DEF q
    <3>. HIDE DEF n
    <3>4. FreeNext(d, n)
      <4>. SUFFICES ASSUME NEW s \in Tasks, hand'[s] # Idle, hand'[s].conn = d
                    PROVE  hand'[s].seq # n
        BY DEF FreeNext
      <4>1. CASE s = t
        BY <4>1, <2>1, <2>2, <3>1, <3>2 DEF q
      <4>2. CASE s # t
        BY <4>2, <2>2, <3>2 DEF InHand
      <4>. QED
        BY <4>1, <4>2
    <3>. QED
      BY <3>1, <3>3, <3>4
  <2>6. ASSUME NEW d \in Conns, NEW s \in Tasks, NEW r \in Tasks,
               hand'[s] # Idle, hand'[r] # Idle, hand'[s].conn = d, hand'[r].conn = d
        PROVE  /\ hand'[s].seq < stream'[d].sequence
               /\ hand'[s].seq = hand'[r].seq => s = r
    BY <2>1, <2>2, <2>4, <2>6 DEF NumbersIdentifyEvents, q
  <2>7. ASSUME NEW d \in Conns, NEW i \in 1 .. Len(stream'[d].buffer),
               NEW j \in 1 .. Len(stream'[d].buffer),
               stream'[d].buffer[i].seq = stream'[d].buffer[j].seq
        PROVE  i = j
    BY <2>1, <2>7 DEF NumbersIdentifyEvents
  <2>. QED
    BY <2>5, <2>6, <2>7 DEF NumbersIdentifyEvents, InHand, FreeNext
<1>4. ASSUME NEW t \in Tasks, BufferMessage(t) PROVE NumbersIdentifyEvents'
  <2>. DEFINE h == hand[t]
              m == [seq |-> h.seq, event |-> h.event]
              old == stream[h.conn].buffer
              new == Buffered(old, m)
  <2>1. /\ h # Idle
        /\ h \in Held
        /\ h.conn \in Conns
        /\ m \in Message
        /\ m.seq = h.seq
        /\ old \in Seq(Message)
    BY <1>4 DEF BufferMessage, StoreTypeOK, ConnectionState, Held, Message
  <2>2. /\ stream'[h.conn].buffer = new
        /\ \A d \in Conns \ {h.conn} : stream'[d].buffer = stream[d].buffer
        /\ \A d \in Conns : stream'[d].sequence = stream[d].sequence
    BY <1>4, <2>1 DEF BufferMessage, StoreTypeOK, ConnectionState
  <2>3. /\ hand'[t] = Idle
        /\ \A s \in Tasks \ {t} : hand'[s] = hand[s]
    BY <1>4 DEF BufferMessage, StoreTypeOK
  <2>4. /\ \A i, j \in 1 .. Len(old) : old[i].seq = old[j].seq => i = j
        /\ \A i \in 1 .. Len(old) : old[i].seq # m.seq
    BY <2>1 DEF NumbersIdentifyEvents, InHand
  <2>5. /\ \A i, j \in 1 .. Len(new) : new[i].seq = new[j].seq => i = j
        /\ \A i \in 1 .. Len(new) : new[i] = m \/ \E k \in 1 .. Len(old) : new[i] = old[k]
    <3>. HIDE DEF m, old
    <3>. QED
      BY <2>1, <2>4, BufferedNumbers
  <2>6. h.seq < stream[h.conn].sequence
    BY <2>1 DEF NumbersIdentifyEvents
  <2>7. \A s \in Tasks : /\ s # t
                         /\ hand[s] # Idle
                         /\ hand[s].conn = h.conn
                         => hand[s].seq # h.seq
    BY <2>1 DEF NumbersIdentifyEvents
  <2>8. \A i \in 1 .. Len(old) : old[i].seq < stream[h.conn].sequence /\ ~InHand(h.conn, old[i].seq)
    BY <2>1 DEF NumbersIdentifyEvents
  <2>. HIDE DEF new, m
  <2>10. ASSUME NEW i \in 1 .. Len(new)
         PROVE  new[i].seq < stream'[h.conn].sequence /\ FreeNext(h.conn, new[i].seq)
    <3>1. CASE new[i] = m
      BY <3>1, <2>1, <2>2, <2>3, <2>6, <2>7 DEF FreeNext
    <3>2. ASSUME NEW k \in 1 .. Len(old), new[i] = old[k]
          PROVE  new[i].seq < stream'[h.conn].sequence /\ FreeNext(h.conn, new[i].seq)
      BY <3>2, <2>1, <2>2, <2>3, <2>8 DEF InHand, FreeNext
    <3>. QED
      BY <3>1, <3>2, <2>5
  <2>11. ASSUME NEW d \in Conns \ {h.conn}
         PROVE  \A i \in 1 .. Len(stream'[d].buffer) :
                   /\ stream'[d].buffer[i].seq < stream'[d].sequence
                   /\ FreeNext(d, stream'[d].buffer[i].seq)
    BY <2>2, <2>3 DEF NumbersIdentifyEvents, InHand, FreeNext
  <2>12. \A d \in Conns : \A i, j \in 1 .. Len(stream'[d].buffer) :
             stream'[d].buffer[i].seq = stream'[d].buffer[j].seq => i = j
    BY <2>2, <2>5 DEF NumbersIdentifyEvents
  <2>13. \A d \in Conns : \A s, r \in Tasks :
             /\ hand'[s] # Idle
             /\ hand'[r] # Idle
             /\ hand'[s].conn = d
             /\ hand'[r].conn = d
             => /\ hand'[s].seq < stream'[d].sequence
                /\ hand'[s].seq = hand'[r].seq => s = r
    BY <2>2, <2>3 DEF NumbersIdentifyEvents
  <2>14. \A d \in Conns : \A i \in 1 .. Len(stream'[d].buffer) :
             /\ stream'[d].buffer[i].seq < stream'[d].sequence
             /\ FreeNext(d, stream'[d].buffer[i].seq)
    BY <2>2, <2>10, <2>11
  <2>. QED
    BY <2>12, <2>13, <2>14 DEF NumbersIdentifyEvents, InHand, FreeNext
<1>5. \/ SameNumbers
      \/ \E c \in Conns, u \in Users : Create(c, u)
      \/ \E t \in Tasks, c \in Conns, e \in Events : NextSequence(t, c, e)
      \/ \E t \in Tasks : BufferMessage(t)
  BY OtherStepsKeepNumbers DEF StoreNext, StoreOp
<1>. QED
  BY <1>1, <1>2, <1>3, <1>4, <1>5

(***************************************************************************)
(* Ids keep their lifecycle.                                               *)
(***************************************************************************)
LEMMA StoreLifecycleStep == StoreInv /\ [StoreNext]_StoreVars => Lifecycle'
<1>. SUFFICES ASSUME StoreInv, [StoreNext]_StoreVars PROVE Lifecycle'
  OBVIOUS
<1>. USE DEF StoreInv
<1>1. ASSUME SameNumbers, connections' \subseteq connections, doomed' \subseteq connections \cup doomed
      PROVE  Lifecycle'
  BY <1>1 DEF SameNumbers, Lifecycle, Unallocated
<1>2. ASSUME NEW c \in Conns, NEW u \in Users, Create(c, u) PROVE Lifecycle'
  BY <1>2, StoreAssumption DEF Create, NewState, StoreTypeOK, Lifecycle, Unallocated
<1>3. ASSUME NEW t \in Tasks, NEW c \in Conns, NEW e \in Events, NextSequence(t, c, e)
      PROVE  Lifecycle'
  BY <1>3 DEF NextSequence, StoreTypeOK, ConnectionState, Lifecycle, Unallocated
<1>4. ASSUME NEW t \in Tasks, BufferMessage(t) PROVE Lifecycle'
  <2>1. hand[t] # Idle /\ hand[t] \in Held /\ hand[t].conn \in Conns
    BY <1>4 DEF BufferMessage, StoreTypeOK, Held
  <2>2. /\ connections' = connections
        /\ doomed' = doomed
        /\ \A d \in Conns : stream'[d].user = stream[d].user
        /\ \A d \in Conns \ {hand[t].conn} : stream'[d] = stream[d]
        /\ hand'[t] = Idle
        /\ \A s \in Tasks \ {t} : hand'[s] = hand[s]
    BY <1>4, <2>1 DEF BufferMessage, StoreTypeOK, ConnectionState
  <2>. QED
    BY <2>1, <2>2 DEF Lifecycle, Unallocated
<1>5. \/ /\ SameNumbers
         /\ connections' \subseteq connections
         /\ doomed' \subseteq connections \cup doomed
      \/ \E c \in Conns, u \in Users : Create(c, u)
      \/ \E t \in Tasks, c \in Conns, e \in Events : NextSequence(t, c, e)
      \/ \E t \in Tasks : BufferMessage(t)
  BY OtherStepsKeepNumbers
  DEF StoreNext, StoreOp, StoreVars, Resume, Disconnect, TouchStream, CleanupRemove, CleanupScan, StoreTick
<1>. QED
  BY <1>1, <1>2, <1>3, <1>4, <1>5

(***************************************************************************)
(* The inductive invariant holds in every reachable state of the store.    *)
(***************************************************************************)
THEOREM StoreInvariant == StoreSpec => []StoreInv
<1>1. StoreInv /\ [StoreNext]_StoreVars => StoreInv'
  BY StoreTypeStep, StoreNumbersStep, StoreLifecycleStep DEF StoreInv
<1>. QED
  BY <1>1, StoreInitInv, PTL DEF StoreSpec

(***************************************************************************)
(* Type correctness of the store.                                          *)
(***************************************************************************)
THEOREM StoreTypes == StoreSpec => []StoreTypeOK
  BY StoreInvariant, PTL DEF StoreInv

(***************************************************************************)
(* However many tasks queue messages on a stream at once, no two of its    *)
(* events share a number (queue_message's fetch_add and buffer_message).   *)
(***************************************************************************)
THEOREM StoreNumbers == StoreSpec => []NumbersIdentifyEvents
  BY StoreInvariant, PTL DEF StoreInv

(***************************************************************************)
(* The user index names exactly the user's stored streams.                 *)
(***************************************************************************)
THEOREM StoreIndex == StoreSpec => []IndexMatchesMap
<1>. DEFINE I == StoreInv /\ IndexMatchesMap
<1>1. StoreInit => IndexMatchesMap
  BY DEF StoreInit, IndexMatchesMap
<1>2. ASSUME StoreInv, IndexMatchesMap, [StoreNext]_StoreVars PROVE IndexMatchesMap'
  <2>. USE <1>2 DEF StoreInv
  <2>1. ASSUME SameNumbers, connections' = connections, user_connections' = user_connections
        PROVE  IndexMatchesMap'
    BY <2>1 DEF SameNumbers, IndexMatchesMap, StoreTypeOK
  <2>2. ASSUME NEW c \in Conns, NEW u \in Users, Create(c, u) PROVE IndexMatchesMap'
    BY <2>2, StoreAssumption
    DEF Create, NewState, IndexMatchesMap, StoreTypeOK, Lifecycle, Unallocated
  <2>3. ASSUME NEW c \in Conns, CleanupRemove(c) PROVE IndexMatchesMap'
    BY <2>3 DEF CleanupRemove, IndexMatchesMap, StoreTypeOK
  <2>4. ASSUME NEW t \in Tasks, NEW c \in Conns, NEW e \in Events, NextSequence(t, c, e)
        PROVE  IndexMatchesMap'
    BY <2>4 DEF NextSequence, IndexMatchesMap, StoreTypeOK, ConnectionState
  <2>5. ASSUME NEW t \in Tasks, BufferMessage(t) PROVE IndexMatchesMap'
    <3>1. hand[t].conn \in Conns
      BY <2>5 DEF BufferMessage, StoreTypeOK, Held
    <3>2. \A d \in Conns : stream'[d].user = stream[d].user
      BY <2>5, <3>1 DEF BufferMessage, StoreTypeOK, ConnectionState
    <3>. QED
      BY <2>5, <3>2 DEF BufferMessage, IndexMatchesMap, StoreTypeOK
  <2>6. \/ SameNumbers /\ connections' = connections /\ user_connections' = user_connections
        \/ \E c \in Conns : CleanupRemove(c)
        \/ \E c \in Conns, u \in Users : Create(c, u)
        \/ \E t \in Tasks, c \in Conns, e \in Events : NextSequence(t, c, e)
        \/ \E t \in Tasks : BufferMessage(t)
    BY OtherStepsKeepNumbers
    DEF StoreNext, StoreOp, StoreVars, Resume, Disconnect, TouchStream, CleanupScan, StoreTick
  <2>. QED
    BY <2>1, <2>2, <2>3, <2>4, <2>5, <2>6
<1>. QED
  BY <1>1, <1>2, StoreInvariant, PTL DEF StoreSpec

(***************************************************************************)
(* buffer_message keeps the ring buffer within MESSAGE_BUFFER_SIZE: the    *)
(* oldest entry goes whenever a new one would exceed it.                   *)
(***************************************************************************)
THEOREM StoreBuffers == StoreSpec => []BufferBounded
<1>1. StoreInit => BufferBounded
  BY StoreAssumption DEF StoreInit, BufferBounded
<1>2. ASSUME StoreInv, BufferBounded, [StoreNext]_StoreVars PROVE BufferBounded'
  <2>. USE <1>2 DEF StoreInv
  <2>0. \A c \in Conns : stream[c].buffer \in Seq(Message)
    BY DEF StoreTypeOK, ConnectionState
  <2>1. CASE SameNumbers
    BY <2>1 DEF SameNumbers, BufferBounded
  <2>2. ASSUME NEW c \in Conns, NEW u \in Users, Create(c, u) PROVE BufferBounded'
    BY <2>2, StoreAssumption DEF Create, NewState, BufferBounded, StoreTypeOK
  <2>3. ASSUME NEW t \in Tasks, NEW c \in Conns, NEW e \in Events, NextSequence(t, c, e)
        PROVE  BufferBounded'
    BY <2>3 DEF NextSequence, BufferBounded, StoreTypeOK, ConnectionState
  <2>4. ASSUME NEW t \in Tasks, BufferMessage(t) PROVE BufferBounded'
    <3>. DEFINE h == hand[t]
                m == [seq |-> h.seq, event |-> h.event]
                new == Buffered(stream[h.conn].buffer, m)
    <3>1. h.conn \in Conns /\ m \in Message
      BY <2>4 DEF BufferMessage, StoreTypeOK, Held, Message
    <3>2. /\ stream'[h.conn].buffer = new
          /\ \A d \in Conns \ {h.conn} : stream'[d].buffer = stream[d].buffer
      BY <2>4, <3>1 DEF BufferMessage, StoreTypeOK, ConnectionState
    <3>3. Len(new) = Len(stream[h.conn].buffer)
                     - (IF Len(stream[h.conn].buffer) >= MessageBufferSize THEN 1 ELSE 0) + 1
      BY <2>0, <3>1, BufferedFacts
    <3>4. Len(stream[h.conn].buffer) \in Nat /\ Len(stream[h.conn].buffer) <= MessageBufferSize
      BY <2>0, <3>1 DEF BufferBounded
    <3>5. Len(new) <= MessageBufferSize
      <4>. HIDE DEF new
      <4>. QED
        BY <3>3, <3>4, StoreAssumption
    <3>. HIDE DEF new
    <3>. QED
      BY <3>1, <3>2, <3>5 DEF BufferBounded
  <2>5. \/ SameNumbers
        \/ \E c \in Conns, u \in Users : Create(c, u)
        \/ \E t \in Tasks, c \in Conns, e \in Events : NextSequence(t, c, e)
        \/ \E t \in Tasks : BufferMessage(t)
    BY OtherStepsKeepNumbers DEF StoreNext, StoreOp
  <2>. QED
    BY <2>1, <2>2, <2>3, <2>4, <2>5
<1>. QED
  BY <1>1, <1>2, StoreInvariant, PTL DEF StoreSpec

-----------------------------------------------------------------------------
(* The session. *)

MainStates == {"new", "opened", "attached", "joined", "replay", "snapshot", "run", "grace", "done"}
ActorStates == {"off", "up", "stuck", "told", "quiet", "down"}

(***************************************************************************)
(* The part of the session's state that decides which store operation a    *)
(* step performs.                                                          *)
(***************************************************************************)
Attachment ==
    /\ main \in [Sockets -> MainStates]
    /\ actor \in [Sockets -> ActorStates]
    /\ conn \in [Sockets -> Conns \cup {NoConn}]
    /\ DOMAIN request = Sockets
    /\ rx \in [Sockets -> Seq(Events)]
    /\ \A s \in Sockets : main[s] = "opened" => request[s].user \in Users
    /\ \A s \in Sockets : main[s] \in {"new", "opened"} => actor[s] = "off"
    /\ \A s \in Sockets : main[s] \in {"attached", "joined", "replay", "snapshot", "run"}
                          => actor[s] # "off"
    /\ \A s \in Sockets : hand[<<s, "main">>] # Idle => actor[s] # "off"
    /\ \A s \in Sockets : actor[s] # "off" => conn[s] \in Conns

(***************************************************************************)
(* The bound that ties a stream's age to its sockets' last pongs.          *)
(***************************************************************************)
PongBoundsIdle ==
    /\ pong \in [Sockets -> Nat]
    /\ \A s \in Sockets : actor[s] = "off" => pong[s] = 0
    /\ \A s \in Sockets : actor[s] = "up" =>
          /\ stream[conn[s]].idle <= pong[s]
          /\ pong[s] <= MaxMissedHeartbeats + 1

SessionInv == StoreInv /\ Attachment /\ PongBoundsIdle

(***************************************************************************)
(* Every step of a session but the passing of time is one operation of the *)
(* store, or leaves it alone.                                              *)
(***************************************************************************)
LEMMA SessionStoreStep ==
    ASSUME StoreTypeOK, Attachment, [SessionNext]_SessionVars
    PROVE  Tick \/ [StoreOp]_StoreVars
<1>. USE DEF Attachment
<1>0. CASE UNCHANGED SessionVars
  BY <1>0 DEF SessionVars
<1>1. ASSUME NEW s \in Sockets, NEW c \in Conns, Attach(s, c) PROVE StoreOp
  <2>1. request[s].user \in Users
    BY <1>1 DEF Attach
  <2>2. CASE Resumes(s)
    BY <1>1, <2>1, <2>2 DEF Attach, Resumes, StoreOp
  <2>3. CASE ~Resumes(s)
    BY <1>1, <2>1, <2>3 DEF Attach, StoreOp
  <2>. QED
    BY <2>2, <2>3
<1>2. ASSUME NEW s \in Sockets, NEW role \in {"main", "forward"}, NEW e \in Events, Take(s, role, e)
      PROVE  [StoreOp]_StoreVars
  <2>1. <<s, role>> \in Tasks
    BY SessionAssumption DEF SessionTasks
  <2>2. CASE NextSequence(<<s, role>>, conn[s], e)
    <3>1. conn[s] \in Conns
      BY <2>2 DEF NextSequence, StoreTypeOK
    <3>. QED
      BY <2>1, <2>2, <3>1 DEF StoreOp
  <2>3. CASE UNCHANGED StoreVars
    BY <2>3
  <2>. QED
    BY <1>2, <2>2, <2>3 DEF Take
<1>3. ASSUME NEW s \in Sockets, NEW role \in {"main", "forward"}, SendTaken(s, role)
      PROVE  StoreOp
  <2>1. <<s, role>> \in Tasks
    BY SessionAssumption DEF SessionTasks
  <2>. QED
    BY <1>3, <2>1 DEF SendTaken, StoreOp
<1>4. ASSUME NEW s \in Sockets, main[s] = "run", LeaveLoop(s) PROVE StoreOp
  BY <1>4 DEF LeaveLoop, StoreOp
<1>5. ASSUME NEW s \in Sockets, AskInitialLoad(s) \/ ActorHears(s) PROVE StoreOp
  BY <1>5 DEF AskInitialLoad, ActorHears, StoreOp
<1>6. ASSUME NEW s \in Sockets, ActorFinish(s) PROVE StoreOp
  BY <1>6 DEF ActorFinish, StoreOp
<1>7. CASE Sweep
  BY <1>7 DEF Sweep, StoreOp
<1>8. ASSUME NEW s \in Sockets, MainStep(s) PROVE [StoreOp]_StoreVars
  <2>1. ASSUME NEW e \in Events, TakeSnapshot(s, e) PROVE [StoreOp]_StoreVars
    BY <1>2, <2>1 DEF TakeSnapshot
  <2>2. CASE EndLoop(s)
    BY <1>4, <2>2 DEF EndLoop
  <2>3. CASE \/ Reject(s) \/ UsernameFails(s) \/ JoinHub(s) \/ Hello(s) \/ ReplayOne(s)
             \/ ReplayDone(s) \/ SnapshotFails(s) \/ GraceCheck(s)
    BY <2>3 DEF Reject, UsernameFails, JoinHub, Hello, ReplayOne, ReplayDone, SnapshotFails,
                GraceCheck
  <2>. QED
    BY <1>1, <1>3, <1>8, <2>1, <2>2, <2>3 DEF MainStep
<1>9. ASSUME NEW s \in Sockets, ForwardStep(s) PROVE [StoreOp]_StoreVars
  <2>1. CASE TakeEvent(s)
    <3>1. Head(rx[s]) \in Events
      BY <2>1 DEF TakeEvent
    <3>. QED
      BY <1>2, <2>1, <3>1 DEF TakeEvent
  <2>. QED
    BY <1>3, <1>9, <2>1 DEF ForwardStep
<1>10. ASSUME NEW s \in Sockets, ActorStep(s) PROVE [StoreOp]_StoreVars
  BY <1>6, <1>10 DEF ActorStep, ActorWrite, ActorClose, ActorPingTick, ActorOrphaned, ActorUnstuck
<1>11. CASE Environment
  <2>1. ASSUME NEW s \in Sockets, TokenExpires(s) PROVE StoreOp
    BY <1>4, <2>1 DEF TokenExpires
  <2>. QED
    BY <1>5, <1>11, <2>1 DEF Environment, Connect, Leave, Stall, ActorAnswersPing, ActorHearsEnd,
                             Publish
<1>. QED
  BY <1>0, <1>7, <1>8, <1>9, <1>10, <1>11 DEF SessionNext

(***************************************************************************)
(* What a step other than the passing of time does to actors and pongs.    *)
(***************************************************************************)
LeavesPongs ==
    /\ conn' = conn
    /\ pong' = pong
    /\ \/ actor' = actor
       \/ \E s \in Sockets, v \in {"stuck", "told", "quiet"} :
             actor[s] # "off" /\ actor' = [actor EXCEPT ![s] = v]

LEMMA SessionEffects ==
    ASSUME [SessionNext]_SessionVars
    PROVE  \/ Tick
           \/ LeavesPongs
           \/ \E s \in Sockets, c \in Conns : Attach(s, c)
           \/ \E s \in Sockets : AskInitialLoad(s) \/ ActorHears(s) \/ ActorFinish(s)
<1>0. CASE UNCHANGED SessionVars
  BY <1>0 DEF SessionVars, ServerVars, LeavesPongs
<1>1. CASE Sweep
  BY <1>1 DEF Sweep, ServerVars, LeavesPongs
<1>2. ASSUME NEW s \in Sockets, MainStep(s), \A c \in Conns : ~Attach(s, c) PROVE LeavesPongs
  <2>1. CASE \/ Reject(s) \/ UsernameFails(s) \/ JoinHub(s) \/ Hello(s) \/ ReplayOne(s)
             \/ ReplayDone(s) \/ SnapshotFails(s) \/ GraceCheck(s)
    BY <2>1 DEF Reject, UsernameFails, JoinHub, Hello, ReplayOne, ReplayDone, SnapshotFails,
                GraceCheck, LeavesPongs
  <2>2. CASE (\E e \in Events : TakeSnapshot(s, e)) \/ SendTaken(s, "main") \/ EndLoop(s)
    BY <2>2 DEF TakeSnapshot, SendTaken, EndLoop, LeaveLoop, LeavesPongs
  <2>. QED
    BY <1>2, <2>1, <2>2 DEF MainStep
<1>3. ASSUME NEW s \in Sockets, ForwardStep(s) PROVE LeavesPongs
  BY <1>3 DEF ForwardStep, TakeEvent, SendTaken, LeavesPongs
<1>4. ASSUME NEW s \in Sockets, actor[s] # "off", Stop(s, TRUE) \/ Stop(s, FALSE),
             conn' = conn, pong' = pong
      PROVE  LeavesPongs
  BY <1>4 DEF Stop, LeavesPongs
<1>5. ASSUME NEW s \in Sockets, ActorStep(s), ~ActorFinish(s) PROVE LeavesPongs
  <2>1. CASE ActorWrite(s)
    BY <1>4, <2>1 DEF ActorWrite, LeavesPongs
  <2>2. CASE ActorClose(s)
    BY <1>4, <2>2 DEF ActorClose, LeavesPongs
  <2>3. CASE ActorPingTick(s) \/ ActorOrphaned(s) \/ ActorUnstuck(s)
    BY <1>4, <2>3 DEF ActorPingTick, ActorOrphaned, ActorUnstuck
  <2>. QED
    BY <1>5, <2>1, <2>2, <2>3 DEF ActorStep
<1>6. ASSUME Environment, \A s \in Sockets : ~AskInitialLoad(s) /\ ~ActorHears(s)
      PROVE  LeavesPongs
  <2>1. ASSUME NEW s \in Sockets, ActorHearsEnd(s) PROVE LeavesPongs
    BY <1>4, <2>1 DEF ActorHearsEnd
  <2>2. ASSUME NEW s \in Sockets, ActorAnswersPing(s) PROVE LeavesPongs
    BY <2>2 DEF ActorAnswersPing, LeavesPongs
  <2>3. ASSUME NEW s \in Sockets, TokenExpires(s) PROVE LeavesPongs
    BY <2>3 DEF TokenExpires, LeaveLoop, LeavesPongs
  <2>4. ASSUME NEW d \in Devices, Leave(d) \/ Stall(d) PROVE LeavesPongs
    BY <2>4 DEF Leave, Stall, ServerVars, LeavesPongs
  <2>5. ASSUME NEW d \in Devices, NEW s \in Sockets, Connect(d, s) PROVE LeavesPongs
    BY <2>5 DEF Connect, LeavesPongs
  <2>6. ASSUME NEW u \in Users, NEW e \in Events, Publish(u, e) PROVE LeavesPongs
    BY <2>6 DEF Publish, LeavesPongs
  <2>. QED
    BY <1>6, <2>1, <2>2, <2>3, <2>4, <2>5, <2>6 DEF Environment
<1>. QED
  BY <1>0, <1>1, <1>2, <1>3, <1>5, <1>6 DEF SessionNext, MainStep, ActorStep

(***************************************************************************)
(* The age of a live socket's stream stays below the age of its last pong, *)
(* which the ping tick bounds.                                             *)
(***************************************************************************)
LEMMA PongStep ==
    ASSUME SessionInv, [SessionNext]_SessionVars
    PROVE  PongBoundsIdle'
<1>. USE DEF SessionInv
<1>0. /\ MaxMissedHeartbeats \in Nat
      /\ StoreTypeOK
      /\ \A c \in Conns : stream[c] \in ConnectionState /\ stream[c].idle \in Nat
  BY StoreAssumption, SessionAssumption DEF StoreInv, StoreTypeOK, ConnectionState
<1>1. CASE Tick
  <2>1. /\ actor' = actor
        /\ conn' = conn
        /\ pong' = [s \in Sockets |-> IF actor[s] = "up" THEN pong[s] + 1 ELSE pong[s]]
        /\ \A s \in Sockets : actor[s] = "up" => pong[s] <= MaxMissedHeartbeats
    BY <1>0, <1>1 DEF Tick, HeartbeatLost, PongBoundsIdle
  <2>2. \A c \in Conns : stream'[c].idle \in Nat /\ stream'[c].idle <= stream[c].idle + 1
    <3>. SUFFICES ASSUME NEW c \in Conns
                  PROVE  stream'[c].idle \in Nat /\ stream'[c].idle <= stream[c].idle + 1
      OBVIOUS
    <3>1. stream'[c] = [stream[c] EXCEPT !.idle =
                          IF stream[c].idle > ConnectionTtl THEN stream[c].idle
                          ELSE stream[c].idle + 1]
      BY <1>1 DEF Tick, StoreTick, Older
    <3>2. stream'[c].idle = IF stream[c].idle > ConnectionTtl THEN stream[c].idle
                            ELSE stream[c].idle + 1
      BY <1>0, <3>1 DEF ConnectionState
    <3>. QED
      BY <1>0, <3>2, StoreAssumption
  <2>3. pong' \in [Sockets -> Nat]
    BY <2>1 DEF PongBoundsIdle
  <2>4. ASSUME NEW r \in Sockets, actor[r] = "up"
        PROVE  stream'[conn[r]].idle <= pong[r] + 1 /\ pong[r] + 1 <= MaxMissedHeartbeats + 1
    <3>1. conn[r] \in Conns /\ pong[r] \in Nat /\ stream[conn[r]].idle <= pong[r]
      BY <2>4 DEF PongBoundsIdle, Attachment
    <3>. QED
      BY <1>0, <2>1, <2>2, <2>4, <3>1
  <2>. QED
    BY <2>1, <2>3, <2>4 DEF PongBoundsIdle
<1>2. CASE ~Tick
  <2>1. [StoreOp]_StoreVars
    BY <1>0, <1>2, SessionStoreStep
  <2>2. \A c \in Conns : stream'[c].idle <= stream[c].idle
    BY <1>0, <2>1, OperationsRefresh
  <2>3. \A c \in Conns : stream'[c].idle \in Nat
    <3>1. StoreTypeOK'
      BY <2>1, StoreTypeStep DEF StoreNext
    <3>. QED
      BY <3>1, StoreAssumption DEF StoreTypeOK, ConnectionState
  <2>8. \A r \in Sockets : actor[r] = "up" => stream'[conn[r]].idle <= pong[r]
    <3>. SUFFICES ASSUME NEW r \in Sockets, actor[r] = "up"
                  PROVE  stream'[conn[r]].idle <= pong[r]
      OBVIOUS
    <3>1. conn[r] \in Conns /\ pong[r] \in Nat /\ stream[conn[r]].idle <= pong[r]
      BY DEF PongBoundsIdle, Attachment
    <3>. QED
      BY <1>0, <2>2, <2>3, <3>1
  <2>4. CASE LeavesPongs
    <3>1. \A r \in Sockets : /\ actor'[r] = "up" => actor[r] = "up"
                             /\ actor'[r] = "off" => actor[r] = "off"
      BY <2>4 DEF LeavesPongs, Attachment
    <3>. QED
      BY <2>4, <2>8, <3>1 DEF LeavesPongs, PongBoundsIdle
  <2>5. ASSUME NEW s \in Sockets, NEW c \in Conns, Attach(s, c) PROVE PongBoundsIdle'
    <3>1. /\ actor' = [actor EXCEPT ![s] = "up"]
          /\ conn' = [conn EXCEPT ![s] = c]
          /\ pong' = pong
      BY <2>5 DEF Attach
    <3>2. stream'[c].idle = 0
      <4>1. Resume(c) \/ Create(c, request[s].user)
        BY <2>5 DEF Attach
      <4>2. CASE Resume(c)
        BY <1>0, <4>2 DEF Resume, MarkActive, StoreTypeOK, ConnectionState
      <4>3. CASE Create(c, request[s].user)
        BY <1>0, <4>3 DEF Create, NewState, StoreTypeOK
      <4>. QED
        BY <4>1, <4>2, <4>3
    <3>3. pong[s] = 0
      BY <2>5 DEF Attach, PongBoundsIdle, Attachment
    <3>4. \A r \in Sockets \ {s} : actor'[r] = actor[r] /\ conn'[r] = conn[r]
      BY <3>1 DEF Attachment
    <3>5. actor'[s] = "up" /\ conn'[s] = c
      BY <3>1 DEF Attachment
    <3>6. ASSUME NEW r \in Sockets, actor'[r] = "up"
          PROVE  stream'[conn'[r]].idle <= pong'[r] /\ pong'[r] <= MaxMissedHeartbeats + 1
      <4>1. CASE r = s
        BY <1>0, <3>1, <3>2, <3>3, <3>5, <4>1
      <4>2. CASE r # s
        BY <1>0, <2>8, <3>1, <3>4, <3>6, <4>2 DEF PongBoundsIdle
      <4>. QED
        BY <4>1, <4>2
    <3>7. \A r \in Sockets : actor'[r] = "off" => pong'[r] = 0
      BY <3>1, <3>4, <3>5 DEF PongBoundsIdle
    <3>. QED
      BY <3>1, <3>6, <3>7 DEF PongBoundsIdle
  <2>6. ASSUME NEW s \in Sockets, AskInitialLoad(s) \/ ActorHears(s) PROVE PongBoundsIdle'
    <3>1. /\ actor[s] = "up"
          /\ conn' = conn
          /\ pong' = [pong EXCEPT ![s] = 0]
          /\ actor' = actor \/ actor' = [actor EXCEPT ![s] = "quiet"]
          /\ TouchStream(conn[s])
      BY <2>6 DEF AskInitialLoad, ActorHears, Stop
    <3>2. stream'[conn[s]].idle = 0
      BY <1>0, <3>1 DEF TouchStream, Touch, StoreTypeOK, Attachment, ConnectionState
    <3>3. \A r \in Sockets : /\ actor'[r] = "up" => actor[r] = "up"
                             /\ actor'[r] = "off" => actor[r] = "off"
      BY <3>1 DEF Attachment
    <3>4. pong' \in [Sockets -> Nat] /\ pong'[s] = 0 /\ \A r \in Sockets \ {s} : pong'[r] = pong[r]
      BY <3>1 DEF PongBoundsIdle
    <3>. QED
      BY <1>0, <2>8, <3>1, <3>2, <3>3, <3>4 DEF PongBoundsIdle
  <2>7. ASSUME NEW s \in Sockets, ActorFinish(s) PROVE PongBoundsIdle'
    <3>1. /\ conn' = conn
          /\ pong' = [pong EXCEPT ![s] = 0]
          /\ actor' = [actor EXCEPT ![s] = "down"]
      BY <2>7 DEF ActorFinish
    <3>2. \A r \in Sockets : /\ actor'[r] = "up" => actor[r] = "up" /\ r # s
                             /\ actor'[r] = "off" => actor[r] = "off"
      BY <3>1 DEF Attachment
    <3>3. pong' \in [Sockets -> Nat] /\ pong'[s] = 0 /\ \A r \in Sockets \ {s} : pong'[r] = pong[r]
      BY <3>1 DEF PongBoundsIdle
    <3>. QED
      BY <2>8, <3>1, <3>2, <3>3 DEF PongBoundsIdle
  <2>. QED
    BY <1>2, <2>4, <2>5, <2>6, <2>7, SessionEffects
<1>. QED
  BY <1>1, <1>2

(***************************************************************************)
(* No step leaves a task serving a socket without a stream.                *)
(***************************************************************************)
LEMMA AttachmentStep ==
    ASSUME SessionInv, [SessionNext]_SessionVars
    PROVE  Attachment'
<1>. USE DEF SessionInv, Attachment, MainStates, ActorStates
<1>0. CASE UNCHANGED SessionVars
  BY <1>0 DEF SessionVars, StoreVars, ServerVars
<1>1. CASE Sweep
  BY <1>1 DEF Sweep, ServerVars, CleanupScan, CleanupRemove
<1>2. CASE Tick
  BY <1>2 DEF Tick, StoreTick
<1>3. ASSUME NEW s \in Sockets, NEW c \in Conns, Attach(s, c) PROVE Attachment'
  BY <1>3 DEF Attach, Resume, Create
<1>4. ASSUME NEW s \in Sockets,
             \/ Reject(s) \/ UsernameFails(s) \/ JoinHub(s) \/ ReplayOne(s)
             \/ ReplayDone(s) \/ SnapshotFails(s) \/ GraceCheck(s)
      PROVE  Attachment'
  BY <1>4 DEF Reject, UsernameFails, JoinHub, ReplayOne, ReplayDone, SnapshotFails,
              GraceCheck, StoreVars
<1>5. ASSUME NEW s \in Sockets, Hello(s) PROVE Attachment'
  <2>1. /\ main[s] = "joined"
        /\ main' = [main EXCEPT ![s] = "replay"] \/ main' = [main EXCEPT ![s] = "done"]
        /\ rx' = rx \/ rx' = [rx EXCEPT ![s] = <<>>]
        /\ actor' = actor
        /\ conn' = conn
        /\ request' = request
        /\ hand' = hand
    BY <1>5 DEF Hello, StoreVars
  <2>2. rx' \in [Sockets -> Seq(Events)]
    <3>1. <<>> \in Seq(Events)
      OBVIOUS
    <3>. QED
      BY <2>1, <3>1, Zenon
  <2>. QED
    BY <2>1, <2>2
<1>6. ASSUME NEW s \in Sockets, NEW role \in {"main", "forward"}, NEW e \in Events, Take(s, role, e),
             role = "main" => main[s] = "snapshot",
             actor' = actor, request' = request, conn' = conn, rx' \in [Sockets -> Seq(Events)]
      PROVE  Attachment'
  <2>1. CASE NextSequence(<<s, role>>, conn[s], e) /\ UNCHANGED <<main, forward, out>>
    BY <1>6, <2>1, SessionAssumption DEF NextSequence, SessionTasks, StoreInv, StoreTypeOK
  <2>2. CASE SendEvent(s, role, 0) /\ UNCHANGED StoreVars
    BY <1>6, <2>2 DEF SendEvent, StoreVars
  <2>. QED
    BY <1>6, <2>1, <2>2 DEF Take
<1>7. ASSUME NEW s \in Sockets, NEW role \in {"main", "forward"}, SendTaken(s, role)
      PROVE  Attachment'
  <2>1. /\ hand[<<s, role>>] # Idle
        /\ hand' = [hand EXCEPT ![<<s, role>>] = Idle]
    BY <1>7 DEF SendTaken, BufferMessage
  <2>2. /\ actor' = actor
        /\ request' = request
        /\ conn' = conn
        /\ rx' = rx
        /\ main' = IF role = "main" THEN [main EXCEPT ![s] = "run"] ELSE main
    BY <1>7 DEF SendTaken, SendEvent
  <2>3. \A r \in Sockets : hand'[<<r, "main">>] # Idle => hand[<<r, "main">>] # Idle
    BY <2>1, SessionAssumption DEF SessionTasks, StoreInv, StoreTypeOK
  <2>. QED
    BY <2>1, <2>2, <2>3
<1>8. ASSUME NEW s \in Sockets, main[s] = "run", LeaveLoop(s) PROVE Attachment'
  BY <1>8 DEF LeaveLoop, Disconnect
<1>9. ASSUME NEW s \in Sockets, AskInitialLoad(s) PROVE Attachment'
  BY <1>9 DEF AskInitialLoad, TouchStream
<1>10. ASSUME NEW s \in Sockets, NEW v \in {"up", "stuck", "told", "quiet", "down"},
              actor[s] # "off", actor' = [actor EXCEPT ![s] = v],
              main' = main, request' = request, conn' = conn, rx' = rx, hand' = hand
       PROVE  Attachment'
  BY <1>10
<1>11. ASSUME NEW s \in Sockets, ActorHears(s) PROVE Attachment'
  <2>1. actor' = [actor EXCEPT ![s] = "up"] \/ actor' = [actor EXCEPT ![s] = "quiet"]
    BY <1>11 DEF ActorHears, Stop
  <2>2. /\ actor[s] = "up"
        /\ main' = main
        /\ request' = request
        /\ conn' = conn
        /\ rx' = rx
        /\ hand' = hand
    BY <1>11 DEF ActorHears, TouchStream
  <2>. QED
    BY <1>10, <2>1, <2>2
<1>12. ASSUME NEW s \in Sockets,
              \/ ActorWrite(s) \/ ActorClose(s) \/ ActorPingTick(s) \/ ActorOrphaned(s)
              \/ ActorUnstuck(s) \/ ActorHearsEnd(s) \/ ActorAnswersPing(s)
       PROVE  Attachment'
  <2>1. /\ actor[s] \in {"up", "stuck"}
        /\ main' = main
        /\ request' = request
        /\ conn' = conn
        /\ rx' = rx
        /\ hand' = hand
    BY <1>12 DEF ActorWrite, ActorClose, ActorPingTick, ActorOrphaned, ActorUnstuck, ActorHearsEnd,
                 ActorAnswersPing, StoreVars
  <2>2. \E v \in {"up", "stuck", "told", "quiet"} : actor' = [actor EXCEPT ![s] = v]
    BY <1>12 DEF ActorWrite, ActorClose, ActorPingTick, ActorOrphaned, ActorUnstuck, ActorHearsEnd,
                 ActorAnswersPing, Stop
  <2>. QED
    BY <1>10, <2>1, <2>2
<1>13. ASSUME NEW s \in Sockets, ActorFinish(s) PROVE Attachment'
  BY <1>10, <1>13 DEF ActorFinish, Disconnect
<1>14. ASSUME NEW d \in Devices, NEW s \in Sockets, Connect(d, s) PROVE Attachment'
  <2>1. /\ main[s] = "new"
        /\ main' = [main EXCEPT ![s] = "opened"]
        /\ actor' = actor
        /\ conn' = conn
        /\ rx' = rx
        /\ hand' = hand
        /\ request' = [request EXCEPT ![s] = 
                         [user |-> UserOf[d], conn |-> device[d].conn, since |-> device[d].last]]
    BY <1>14 DEF Connect, StoreVars
  <2>2. /\ DOMAIN request' = Sockets
        /\ request'[s].user = UserOf[d]
        /\ \A r \in Sockets \ {s} : request'[r] = request[r]
    BY <2>1
  <2>3. UserOf[d] \in Users
    BY SessionAssumption
  <2>. QED
    BY <2>1, <2>2, <2>3
<1>15. ASSUME NEW d \in Devices, Leave(d) \/ Stall(d) PROVE Attachment'
  BY <1>15 DEF Leave, Stall, ServerVars, StoreVars
<1>16. ASSUME NEW u \in Users, NEW e \in Events, Publish(u, e) PROVE Attachment'
  <2>1. \A q \in Seq(Events) : /\ Append(q, e) \in Seq(Events)
                               /\ Len(q) >= HubCapacity => Append(Tail(q), e) \in Seq(Events)
    BY SessionAssumption
  <2>2. rx' \in [Sockets -> Seq(Events)]
    BY <1>16, <2>1 DEF Publish
  <2>. QED
    BY <1>16, <2>2 DEF Publish, StoreVars
<1>17. ASSUME NEW s \in Sockets, MainStep(s) PROVE Attachment'
  BY <1>3, <1>4, <1>5, <1>6, <1>7, <1>8, <1>17 DEF MainStep, TakeSnapshot, EndLoop
<1>18. ASSUME NEW s \in Sockets, ForwardStep(s) PROVE Attachment'
  <2>1. CASE TakeEvent(s)
    <3>1. Head(rx[s]) \in Events /\ Tail(rx[s]) \in Seq(Events)
      BY <2>1 DEF TakeEvent
    <3>. QED
      BY <1>6, <2>1, <3>1 DEF TakeEvent
  <2>. QED
    BY <1>7, <1>18, <2>1 DEF ForwardStep
<1>19. ASSUME NEW s \in Sockets, ActorStep(s) PROVE Attachment'
  BY <1>12, <1>13, <1>19 DEF ActorStep
<1>20. CASE Environment
  BY <1>8, <1>9, <1>11, <1>12, <1>14, <1>15, <1>16, <1>20 DEF Environment, TokenExpires
<1>. QED
  BY <1>0, <1>1, <1>2, <1>17, <1>18, <1>19, <1>20 DEF SessionNext

(***************************************************************************)
(* The inductive invariant of a session.                                   *)
(***************************************************************************)
THEOREM SessionInvariant == SessionSpec => []SessionInv
<1>1. SessionInit => SessionInv
  <2>. SUFFICES ASSUME SessionInit PROVE SessionInv
    OBVIOUS
  <2>1. StoreInv
    BY StoreInitInv DEF SessionInit
  <2>2. \A s \in Sockets : <<s, "main">> \in Tasks
    BY SessionAssumption DEF SessionTasks
  <2>3. Attachment
    BY <2>2 DEF SessionInit, StoreInit, Attachment, MainStates, ActorStates
  <2>4. PongBoundsIdle
    BY DEF SessionInit, PongBoundsIdle
  <2>. QED
    BY <2>1, <2>3, <2>4 DEF SessionInv
<1>2. ASSUME SessionInv, [SessionNext]_SessionVars PROVE SessionInv'
  <2>1. [StoreNext]_StoreVars
    <3>1. CASE Tick
      BY <3>1 DEF Tick, StoreNext
    <3>2. CASE [StoreOp]_StoreVars
      BY <3>2 DEF StoreNext
    <3>. QED
      BY <1>2, <3>1, <3>2, SessionStoreStep DEF SessionInv, StoreInv
  <2>2. StoreInv'
    BY <1>2, <2>1, StoreTypeStep, StoreNumbersStep, StoreLifecycleStep DEF SessionInv, StoreInv
  <2>. QED
    BY <1>2, <2>2, PongStep, AttachmentStep DEF SessionInv
<1>. QED
  BY <1>1, <1>2, PTL DEF SessionSpec

(***************************************************************************)
(* Sessions drive the store only as its specification allows, so what is   *)
(* proved of StoreSpec (unique numbers, matching index) holds of the       *)
(* composed system.                                                        *)
(***************************************************************************)
THEOREM SessionImplementsStore == SessionSpec => StoreSpec
<1>1. SessionInit => StoreInit
  BY DEF SessionInit
<1>2. ASSUME SessionInv, [SessionNext]_SessionVars PROVE [StoreNext]_StoreVars
  <2>1. CASE Tick
    BY <2>1 DEF Tick, StoreNext
  <2>2. CASE [StoreOp]_StoreVars
    BY <2>2 DEF StoreNext
  <2>. QED
    BY <1>2, <2>1, <2>2, SessionStoreStep DEF SessionInv, StoreInv
<1>. QED
  BY <1>1, <1>2, SessionInvariant, PTL DEF SessionSpec, StoreSpec

(***************************************************************************)
(* For every heartbeat limit below the TTL, the sweep never finds the      *)
(* stream of a running socket expired, whatever its predecessors did to    *)
(* the stream's is_active flag.                                            *)
(***************************************************************************)
THEOREM HeartbeatProtectsStream == SessionSpec => []LiveStreamNotExpired
<1>1. SessionInv => LiveStreamNotExpired
  <2>. SUFFICES ASSUME SessionInv, NEW s \in Sockets, actor[s] = "up"
                PROVE  ~(stream[conn[s]].idle > ConnectionTtl)
    BY DEF LiveStreamNotExpired, is_expired
  <2>1. /\ conn[s] \in Conns
        /\ pong[s] \in Nat
        /\ stream[conn[s]].idle <= pong[s]
        /\ pong[s] <= MaxMissedHeartbeats + 1
    BY DEF SessionInv, Attachment, PongBoundsIdle
  <2>2. stream[conn[s]].idle \in Nat
    BY <2>1, StoreAssumption DEF SessionInv, StoreInv, StoreTypeOK, ConnectionState
  <2>. QED
    BY <2>1, <2>2, StoreAssumption, SessionAssumption
<1>. QED
  BY <1>1, SessionInvariant, PTL

-----------------------------------------------------------------------------
(***************************************************************************)
(* A message reaches a device at most once.                                *)
(***************************************************************************)
Early == {"new", "opened", "attached", "joined"}
Roles == {"main", "forward"}

\* The numbers under way to the peer of a socket: queued for it, still to replay and in its tasks' hands.
Numbered(list) == {i \in 1 .. Len(list) : list[i].kind = "event" /\ list[i].seq > 0}
Sent(list) == {list[i].seq : i \in Numbered(list)}
ToReplay(s) == {m[2] : m \in missed[s]}
Holding(s) == {r \in Roles : hand[<<s, r>>] # Idle}
Taken(s) == {hand[<<s, r>>].seq : r \in Holding(s)}
UnderWay(s) == Sent(out[s]) \cup ToReplay(s) \cup Taken(s)

\* Each of them is in one place (NumbersIdentifyEvents says it of the hands).
SentOnce(list) == \A i, j \in Numbered(list) : list[i].seq = list[j].seq => i = j
UnderWayOnce(s) ==
    /\ SentOnce(out[s])
    /\ \A m, k \in missed[s] : m[2] = k[2] => m = k
    /\ Sent(out[s]) \cap ToReplay(s) = {}
    /\ (Sent(out[s]) \cup ToReplay(s)) \cap Taken(s) = {}

\* A socket sends nothing before its hello, and nothing at all when it was never attached to a stream.
HelloLeads(list) == \A i \in 1 .. Len(list) : list[i].kind = "hello" => i = 1
HelloFirst(s) ==
    /\ main[s] \in Early => out[s] = <<>> /\ Holding(s) = {} /\ forward[s] = "off"
    /\ actor[s] = "off" => out[s] = <<>> /\ missed[s] = {} /\ Holding(s) = {}
    /\ forward[s] = "on" => main[s] \in {"snapshot", "run"}
    /\ HelloLeads(out[s])

\* What is under way to the peer of a socket was given out by the socket's stream.
GivenOut(s) ==
    /\ \A r \in Holding(s) : hand[<<s, r>>].conn = conn[s]
    /\ conn[s] \in Conns => ~Unallocated(conn[s]) /\ \A n \in UnderWay(s) : n < stream[conn[s]].sequence

\* What a device has received: numbers that streams gave out, none of its own stream above the highest it names.
Received(d) ==
    /\ \A p \in got[d] : ~Unallocated(p[1]) /\ p[2] < stream[p[1]].sequence
    /\ \A p \in got[d] : p[1] = device[d].conn => p[2] <= device[d].last
    /\ device[d].conn \in Conns => ~Unallocated(device[d].conn)

\* The hello of a socket has not reached its device.
HasHello(list) == \E i \in 1 .. Len(list) : list[i].kind = "hello"
HelloPending(s) == main[s] \in {"attached", "joined"} \/ HasHello(out[s])

\* A device and its socket: nothing under way was received, and of a stream that is new to the device nothing is.
OnSocket(d, s) ==
    /\ main[s] # "new"
    /\ main[s] = "opened" => request[s].conn = device[d].conn /\ request[s].since = device[d].last
    /\ \A n \in UnderWay(s) : <<conn[s], n>> \notin got[d]
    /\ HelloPending(s) /\ conn[s] # device[d].conn => \A p \in got[d] : p[1] # conn[s]

DeliveryType ==
    /\ out \in [Sockets -> Seq(Frame)]
    /\ missed \in [Sockets -> SUBSET (Nat \X Nat)]
    /\ forward \in [Sockets -> {"off", "on", "ended"}]
    /\ request \in [Sockets -> Request]
    /\ device \in [Devices -> [socket : Sockets \cup {NoSocket}, conn : Conns \cup {NoConn}, last : Nat]]
    /\ got \in [Devices -> SUBSET (Conns \X Nat)]

Delivery ==
    /\ DeliveryType
    /\ \A s \in Sockets : UnderWayOnce(s) /\ HelloFirst(s) /\ GivenOut(s)
    /\ \A d \in Devices : Received(d)
    /\ \A d \in Devices, s \in Sockets : device[d].socket = s => OnSocket(d, s)


\* A frame put at the end of a queue.
LEMMA QueuedFacts ==
    ASSUME NEW list \in Seq(Frame), NEW kind \in {"hello", "event", "close"}, NEW n \in Nat
    PROVE  LET q == Append(list, [kind |-> kind, seq |-> n]) IN
           /\ q \in Seq(Frame)
           /\ Sent(q) = Sent(list) \cup (IF kind = "event" /\ n > 0 THEN {n} ELSE {})
           /\ SentOnce(list) /\ (kind = "event" => n \notin Sent(list)) => SentOnce(q)
           /\ HelloLeads(list) /\ (kind # "hello" \/ list = <<>>) => HelloLeads(q)
           /\ HasHello(q) => HasHello(list) \/ kind = "hello"
<1>. DEFINE f == [kind |-> kind, seq |-> n]
            q == Append(list, f)
            m == Len(list)
<1>1. f \in Frame /\ f.kind = kind /\ f.seq = n
  BY DEF Frame
<1>. HIDE DEF f
<1>2. /\ q \in Seq(Frame) /\ m \in Nat /\ Len(q) = m + 1 /\ q[m + 1] = f
      /\ \A i \in 1 .. m : q[i] = list[i]
      /\ list = <<>> => m = 0
  BY <1>1
<1>. HIDE DEF q, m
<1>3. \A i : i \in Numbered(q) <=> i \in Numbered(list) \/ (i = m + 1 /\ kind = "event" /\ n > 0)
  BY <1>1, <1>2 DEF Numbered, m
<1>4. \A i \in Numbered(list) : i \in 1 .. m /\ q[i] = list[i]
  BY <1>2 DEF Numbered, m
<1>5. Sent(q) = Sent(list) \cup (IF kind = "event" /\ n > 0 THEN {n} ELSE {})
  BY <1>1, <1>2, <1>3, <1>4 DEF Sent
<1>6. SentOnce(list) /\ (kind = "event" => n \notin Sent(list)) => SentOnce(q)
  <2>. SUFFICES ASSUME SentOnce(list), kind = "event" => n \notin Sent(list),
                       NEW i \in Numbered(q), NEW j \in Numbered(q), q[i].seq = q[j].seq
                PROVE  i = j
    BY DEF SentOnce
  <2>1. \A k \in Numbered(list) : list[k].seq \in Sent(list)
    BY DEF Sent
  <2>. QED
    BY <1>1, <1>2, <1>3, <1>4, <2>1 DEF SentOnce
<1>7. HelloLeads(list) /\ (kind # "hello" \/ list = <<>>) => HelloLeads(q)
  BY <1>1, <1>2 DEF HelloLeads, m
<1>8. HasHello(q) => HasHello(list) \/ kind = "hello"
  BY <1>1, <1>2 DEF HasHello, m
<1>. QED
  BY <1>2, <1>5, <1>6, <1>7, <1>8 DEF q, f

\* The first frame taken from a queue.
LEMMA TailFacts ==
    ASSUME NEW list \in Seq(Frame), list # <<>>
    PROVE  LET f == Head(list) t == Tail(list) IN
           /\ t \in Seq(Frame) /\ f \in Frame
           /\ Sent(t) \subseteq Sent(list)
           /\ f.kind = "event" /\ f.seq > 0 => f.seq \in Sent(list)
           /\ SentOnce(list) => SentOnce(t) /\ (f.kind = "event" /\ f.seq > 0 => f.seq \notin Sent(t))
           /\ HelloLeads(list) => HelloLeads(t) /\ ~HasHello(t)
           /\ f.kind = "hello" => HasHello(list)
<1>. DEFINE f == Head(list)
            t == Tail(list)
            m == Len(list)
<1>1. /\ t \in Seq(Frame) /\ f \in Frame /\ f = list[1] /\ m \in Nat /\ m > 0 /\ Len(t) = m - 1
      /\ \A i \in 1 .. m - 1 : t[i] = list[i + 1]
  OBVIOUS
<1>. HIDE DEF f, t, m
<1>2. \A i \in Numbered(t) : i \in 1 .. m - 1 /\ i + 1 \in Numbered(list) /\ t[i] = list[i + 1]
  BY <1>1 DEF Numbered, m
<1>3. f.kind = "event" /\ f.seq > 0 => 1 \in Numbered(list)
  BY <1>1 DEF Numbered, m
<1>4. Sent(t) \subseteq Sent(list) /\ (f.kind = "event" /\ f.seq > 0 => f.seq \in Sent(list))
  BY <1>1, <1>2, <1>3 DEF Sent
<1>5. SentOnce(list) => SentOnce(t) /\ (f.kind = "event" /\ f.seq > 0 => f.seq \notin Sent(t))
  <2>. SUFFICES ASSUME SentOnce(list) PROVE SentOnce(t) /\ (f.kind = "event" /\ f.seq > 0 => f.seq \notin Sent(t))
    OBVIOUS
  <2>1. ASSUME NEW i \in Numbered(t), NEW j \in Numbered(t), t[i].seq = t[j].seq PROVE i = j
    <3>1. i + 1 \in Numbered(list) /\ j + 1 \in Numbered(list) /\ list[i + 1].seq = list[j + 1].seq
      BY <1>2, <2>1
    <3>2. i + 1 = j + 1
      BY <3>1 DEF SentOnce
    <3>. QED
      BY <1>1, <1>2, <3>2
  <2>2. ASSUME f.kind = "event", f.seq > 0, NEW i \in Numbered(t), t[i].seq = f.seq PROVE FALSE
    <3>1. i + 1 = 1
      BY <1>1, <1>2, <1>3, <2>2 DEF SentOnce
    <3>. QED
      BY <1>2, <3>1
  <2>. QED
    BY <2>1, <2>2 DEF Sent, SentOnce
<1>6. HelloLeads(list) => HelloLeads(t) /\ ~HasHello(t)
  BY <1>1 DEF HelloLeads, HasHello, m
<1>7. f.kind = "hello" => HasHello(list)
  BY <1>1 DEF HasHello, m
<1>. QED
  BY <1>1, <1>4, <1>5, <1>6, <1>7 DEF f, t

LEMMA EmptyQueue == <<>> \in Seq(Frame) /\ Sent(<<>>) = {} /\ SentOnce(<<>>) /\ HelloLeads(<<>>) /\ ~HasHello(<<>>)
BY DEF Sent, Numbered, SentOnce, HelloLeads, HasHello

\* No stream forgets its owner or gives a number out again.
StreamsGrow == \A c \in Conns : ~Unallocated(c) =>
                  ~Unallocated(c)' /\ stream[c].sequence <= stream'[c].sequence

LEMMA StepsGrow == StoreInv /\ [StoreNext]_StoreVars => StreamsGrow
<1>. SUFFICES ASSUME StoreInv, [StoreNext]_StoreVars PROVE StreamsGrow
  OBVIOUS
<1>. USE StoreAssumption DEF StoreInv, StoreTypeOK, StreamsGrow, Unallocated
<1>0. \A c \in Conns : stream[c] \in ConnectionState /\ stream[c].sequence \in Nat
  BY DEF ConnectionState
<1>1. CASE \/ UNCHANGED StoreVars
           \/ \E c \in Conns : Resume(c) \/ Disconnect(c) \/ TouchStream(c) \/ CleanupRemove(c)
           \/ CleanupScan \/ StoreTick
  BY <1>0, <1>1, OtherStepsKeepNumbers DEF SameNumbers
<1>2. ASSUME NEW c \in Conns, NEW u \in Users, Create(c, u) PROVE StreamsGrow
  BY <1>0, <1>2 DEF Create
<1>3. ASSUME NEW t \in Tasks, NEW c \in Conns, NEW e \in Events, NextSequence(t, c, e) PROVE StreamsGrow
  BY <1>0, <1>3 DEF NextSequence, ConnectionState
<1>4. ASSUME NEW t \in Tasks, BufferMessage(t) PROVE StreamsGrow
  <2>1. hand[t].conn \in Conns
    BY <1>4 DEF BufferMessage, Held
  <2>. QED
    BY <1>0, <1>4, <2>1 DEF BufferMessage, ConnectionState
<1>. QED
  BY <1>1, <1>2, <1>3, <1>4 DEF StoreNext, StoreOp

\* Steps other than those that open a socket or attach it to a stream: where tasks go, and that streams grow.
Onward ==
    /\ StreamsGrow /\ request' = request /\ conn' = conn
    /\ \A s \in Sockets :
          /\ main'[s] \in Early => /\ forward'[s] = forward[s]
                                   /\ main'[s] = main[s] \/ (main[s] = "attached" /\ main'[s] = "joined")
          /\ actor'[s] = "off" => actor[s] = "off"
          /\ forward'[s] = "on" => main'[s] \in {"snapshot", "run"}

\* The numbers of a socket are those it had but for one that its stream gave out just now.
Moved(s) ==
    /\ UnderWayOnce(s)' /\ HelloLeads(out[s])'
    /\ HelloPending(s)' => HelloPending(s)
    /\ main'[s] \in Early \/ actor'[s] = "off" =>
          out'[s] = out[s] /\ missed'[s] = missed[s] /\ Holding(s)' = Holding(s)
    /\ \A r \in Holding(s)' : hand'[<<s, r>>].conn = conn[s]
    /\ \A n \in UnderWay(s)' : \/ n \in UnderWay(s)
                               \/ /\ conn[s] \in Conns /\ ~Unallocated(conn[s])
                                  /\ n = stream[conn[s]].sequence /\ n < stream'[conn[s]].sequence

LEMMA NumbersTyped ==
    ASSUME StoreInv, DeliveryType, NEW s \in Sockets
    PROVE  UnderWay(s) \subseteq Nat /\ \A r \in Holding(s) : hand[<<s, r>>] \in Held
<1>1. ASSUME NEW list \in Seq(Frame) PROVE Sent(list) \subseteq Nat
  <2>1. \A i \in Numbered(list) : list[i] \in Frame
    BY DEF Numbered
  <2>. QED
    BY <2>1 DEF Sent, Frame
<1>2. \A r \in Roles : <<s, r>> \in Tasks
  BY SessionAssumption DEF SessionTasks, Roles
<1>3. \A r \in Holding(s) : hand[<<s, r>>] \in Held
  BY <1>2 DEF Holding, StoreInv, StoreTypeOK
<1>4. Sent(out[s]) \subseteq Nat
  BY <1>1 DEF DeliveryType
<1>5. ToReplay(s) \subseteq Nat
  <2>1. \A m \in missed[s] : m[2] \in Nat
    BY DEF DeliveryType
  <2>. QED
    BY <2>1 DEF ToReplay
<1>6. Taken(s) \subseteq Nat
  BY <1>3 DEF Taken, Held
<1>. QED
  BY <1>3, <1>4, <1>5, <1>6 DEF UnderWay

LEMMA SocketMoved ==
    ASSUME StoreInv, StoreInv', Delivery, Onward, NEW s \in Sockets, Moved(s)
    PROVE  UnderWayOnce(s)' /\ HelloFirst(s)' /\ GivenOut(s)'
<1>0. \A c \in Conns : stream[c].sequence \in Nat /\ stream'[c].sequence \in Nat
  BY DEF StoreInv, StoreTypeOK, ConnectionState
<1>1. \A c \in Conns : ~Unallocated(c) => stream'[c].user # NoUser /\ stream[c].sequence <= stream'[c].sequence
  BY DEF Onward, StreamsGrow, Unallocated
<1>2. HelloFirst(s)'
  <2>1. /\ UnderWayOnce(s)' /\ HelloLeads(out[s])' /\ HelloFirst(s)
        /\ main'[s] \in Early \/ actor'[s] = "off" =>
              out'[s] = out[s] /\ missed'[s] = missed[s] /\ Holding(s)' = Holding(s)
    BY DEF Delivery, Moved
  <2>2. main'[s] \in Early => main[s] \in Early /\ forward'[s] = forward[s]
    BY DEF Onward, Early
  <2>3. (actor'[s] = "off" => actor[s] = "off") /\ (forward'[s] = "on" => main'[s] \in {"snapshot", "run"})
    BY DEF Onward
  <2>. QED
    BY <2>1, <2>2, <2>3 DEF HelloFirst
<1>3. GivenOut(s)'
  <2>. DEFINE c == conn[s]
  <2>1. /\ \A r \in Holding(s)' : hand'[<<s, r>>].conn = c
        /\ \A n \in UnderWay(s)' : \/ n \in UnderWay(s)
                                   \/ n = stream[c].sequence /\ n < stream'[c].sequence
    BY DEF Moved
  <2>2. c \in Conns => ~Unallocated(c) /\ \A n \in UnderWay(s) : n < stream[c].sequence
    BY DEF Delivery, GivenOut
  <2>3. c \in Conns => stream'[c].user # NoUser /\ stream[c].sequence <= stream'[c].sequence
    BY <1>1, <2>2
  <2>4. conn'[s] = c
    BY DEF Onward
  <2>5. UnderWay(s) \subseteq Nat
    BY NumbersTyped DEF Delivery
  <2>. HIDE DEF c
  <2>6. c \in Conns => \A n \in UnderWay(s)' : n < stream'[c].sequence
    BY <1>0, <2>1, <2>2, <2>3, <2>5
  <2>. QED
    BY <2>1, <2>3, <2>4, <2>6 DEF GivenOut, Unallocated
<1>. QED
  BY <1>2, <1>3 DEF Moved

\* A device that a step leaves alone, and its socket.
LEMMA DeviceKept ==
    ASSUME StoreInv, StoreInv', Delivery, StreamsGrow, NEW d \in Devices,
           device'[d].conn = device[d].conn, device'[d].last = device[d].last, got'[d] = got[d]
    PROVE  Received(d)'
<1>1. /\ \A p \in got[d] : ~Unallocated(p[1]) /\ p[2] < stream[p[1]].sequence
      /\ \A p \in got[d] : p[1] = device[d].conn => p[2] <= device[d].last
      /\ device[d].conn \in Conns => ~Unallocated(device[d].conn)
  BY DEF Delivery, Received
<1>2. \A p \in got[d] : p[1] \in Conns /\ p[2] \in Nat
  BY DEF Delivery, DeliveryType
<1>3. \A c \in Conns : stream[c].sequence \in Nat /\ stream'[c].sequence \in Nat
  BY DEF StoreInv, StoreTypeOK, ConnectionState
<1>4. \A c \in Conns : ~Unallocated(c) => stream'[c].user # NoUser /\ stream[c].sequence <= stream'[c].sequence
  BY DEF StreamsGrow, Unallocated
<1>5. \A p \in got[d] : stream'[p[1]].user # NoUser /\ p[2] < stream'[p[1]].sequence
  BY <1>1, <1>2, <1>3, <1>4
<1>. QED
  BY <1>1, <1>4, <1>5 DEF Received, Unallocated

LEMMA OnSocketMoved ==
    ASSUME StoreInv, Delivery, Onward, NEW d \in Devices, NEW s \in Sockets, OnSocket(d, s), Moved(s),
           device'[d].conn = device[d].conn, device'[d].last = device[d].last, got'[d] = got[d]
    PROVE  OnSocket(d, s)'
<1>0. Received(d) /\ \A c \in Conns : stream[c].sequence \in Nat
  BY DEF Delivery, StoreInv, StoreTypeOK, ConnectionState
<1>1. /\ main'[s] \in {"new", "opened"} => main'[s] = main[s]
      /\ conn' = conn /\ request' = request
  BY DEF Onward, Early
<1>2. \A n \in UnderWay(s)' : <<conn[s], n>> \notin got[d]
  <2>. SUFFICES ASSUME NEW n \in UnderWay(s)', <<conn[s], n>> \in got[d] PROVE FALSE
    OBVIOUS
  <2>1. n \notin UnderWay(s)
    BY DEF OnSocket
  <2>2. n = stream[conn[s]].sequence /\ conn[s] \in Conns
    BY <2>1 DEF Moved
  <2>3. n < stream[conn[s]].sequence
    BY <1>0 DEF Received
  <2>. QED
    BY <1>0, <2>2, <2>3
<1>3. HelloPending(s)' => HelloPending(s)
  BY DEF Moved
<1>. QED
  BY <1>1, <1>2, <1>3 DEF OnSocket

LEMMA KeepsDelivery ==
    ASSUME StoreInv, StoreInv', Delivery, DeliveryType', Onward, device' = device, got' = got,
           \A s \in Sockets : Moved(s)
    PROVE  Delivery'
<1>1. \A s \in Sockets : UnderWayOnce(s)' /\ HelloFirst(s)' /\ GivenOut(s)'
  BY SocketMoved
<1>2. \A d \in Devices : Received(d)'
  BY DeviceKept DEF Onward
<1>3. \A d \in Devices, s \in Sockets : device'[d].socket = s => OnSocket(d, s)'
  BY OnSocketMoved DEF Delivery
<1>. QED
  BY <1>1, <1>2, <1>3 DEF Delivery

\* A socket whose queue, replay and hands a step leaves alone.
SameSocket(s) == /\ out'[s] = out[s] /\ missed'[s] = missed[s]
                 /\ \A r \in Roles : hand'[<<s, r>>] = hand[<<s, r>>]

LEMMA SameMoved ==
    ASSUME Delivery, Onward, NEW s \in Sockets, SameSocket(s)
    PROVE  Moved(s)
<1>1. Holding(s)' = Holding(s) /\ Taken(s)' = Taken(s) /\ ToReplay(s)' = ToReplay(s)
  BY DEF SameSocket, Holding, Taken, ToReplay
<1>2. UnderWay(s)' = UnderWay(s) /\ (UnderWayOnce(s) => UnderWayOnce(s)')
  BY <1>1 DEF SameSocket, UnderWay, UnderWayOnce
<1>3. HelloPending(s)' => HelloPending(s)
  BY DEF SameSocket, HelloPending, Onward, Early
<1>4. UnderWayOnce(s) /\ HelloLeads(out[s]) /\ \A r \in Holding(s) : hand[<<s, r>>].conn = conn[s]
  BY DEF Delivery, HelloFirst, GivenOut
<1>5. HelloLeads(out[s])'
  BY <1>4 DEF SameSocket, HelloLeads
<1>6. \A r \in Holding(s)' : hand'[<<s, r>>].conn = conn[s]
  BY <1>1, <1>4 DEF SameSocket, Holding
<1>. QED
  BY <1>1, <1>2, <1>3, <1>4, <1>5, <1>6 DEF Moved, SameSocket

\* A socket past its hello that has queued, dropped or delivered some of what was under way, and nothing else.
LEMMA LessMoved ==
    ASSUME Delivery, Onward, NEW s \in Sockets, NEW q, out'[s] = q,
           Sent(q) \subseteq UnderWay(s), SentOnce(q), HelloLeads(q), HasHello(q) => HelloPending(s),
           missed'[s] \subseteq missed[s], \A r \in Roles : hand'[<<s, r>>] \in {hand[<<s, r>>], Idle},
           Sent(q) \cap ToReplay(s)' = {}, Sent(q) \cap Taken(s)' = {},
           main'[s] \notin Early, actor'[s] # "off"
    PROVE  Moved(s)
<1>1. Holding(s)' \subseteq Holding(s) /\ \A r \in Holding(s)' : hand'[<<s, r>>] = hand[<<s, r>>]
  BY DEF Holding
<1>2. Taken(s)' \subseteq Taken(s) /\ ToReplay(s)' \subseteq ToReplay(s)
  BY <1>1 DEF Taken, ToReplay
<1>3. UnderWay(s)' \subseteq UnderWay(s)
  BY <1>2 DEF UnderWay
<1>4. UnderWayOnce(s) /\ \A r \in Holding(s) : hand[<<s, r>>].conn = conn[s]
  BY DEF Delivery, GivenOut
<1>5. SentOnce(out[s])' /\ Sent(out[s])' = Sent(q) /\ HelloLeads(out[s])' /\ HasHello(out[s])' = HasHello(q)
  BY DEF SentOnce, Sent, Numbered, HelloLeads, HasHello
<1>6. ToReplay(s) \cap Taken(s) = {} /\ \A m, k \in missed[s] : m[2] = k[2] => m = k
  BY <1>4 DEF UnderWayOnce
<1>7. UnderWayOnce(s)'
  BY <1>2, <1>5, <1>6 DEF UnderWayOnce
<1>8. HelloPending(s)' => HelloPending(s)
  BY <1>5 DEF HelloPending, Early
<1>. QED
  BY <1>1, <1>3, <1>4, <1>5, <1>7, <1>8 DEF Moved

\* A frame without a number is queued, or none, and the replay may be abandoned.
LEMMA PutMoved ==
    ASSUME Delivery, Onward, NEW s \in Sockets, NEW kind \in {"hello", "event", "close"}, NEW n \in Nat,
           kind = "event" => n = 0, kind = "hello" => main[s] = "joined",
           out' = out \/ out' = Queued(s, kind, n),
           missed'[s] \subseteq missed[s], \A r \in Roles : hand'[<<s, r>>] = hand[<<s, r>>],
           main'[s] \notin Early, actor'[s] # "off"
    PROVE  Moved(s)
<1>. DEFINE q == out'[s]
<1>0. out[s] \in Seq(Frame) /\ UnderWayOnce(s) /\ HelloFirst(s) /\ out \in [Sockets -> Seq(Frame)]
  BY DEF Delivery, DeliveryType
<1>1. kind = "hello" => out[s] = <<>> /\ HelloPending(s)
  BY <1>0 DEF HelloFirst, HelloPending, Early
<1>2. SentOnce(out[s]) /\ HelloLeads(out[s])
  BY <1>0 DEF UnderWayOnce, HelloFirst
<1>3. Sent(q) = Sent(out[s]) /\ SentOnce(q) /\ HelloLeads(q) /\ (HasHello(q) => HelloPending(s))
  <2>1. CASE out' = out
    BY <1>2, <2>1 DEF HelloPending
  <2>2. CASE out' = Queued(s, kind, n)
    <3>1. q = Append(out[s], [kind |-> kind, seq |-> n])
      BY <1>0, <2>2 DEF Queued
    <3>2. 0 \notin Sent(out[s])
      BY DEF Sent, Numbered
    <3>3. (kind = "event" => n \notin Sent(out[s])) /\ (kind # "hello" \/ out[s] = <<>>)
      BY <1>1, <3>2
    <3>. HIDE DEF q
    <3>4. SentOnce(q) /\ HelloLeads(q)
      BY <1>0, <1>2, <3>1, <3>3, QueuedFacts
    <3>6. Sent(q) = Sent(out[s])
      <4>1. Sent(q) = Sent(out[s]) \cup (IF kind = "event" /\ n > 0 THEN {n} ELSE {})
        BY <1>0, <3>1, QueuedFacts
      <4>. QED
        BY <4>1
    <3>5. HasHello(q) => HasHello(out[s]) \/ kind = "hello"
      BY <1>0, <3>1, QueuedFacts
    <3>. QED
      BY <1>1, <3>4, <3>5, <3>6 DEF HelloPending
  <2>. QED
    BY <2>1, <2>2
<1>4. /\ Sent(q) \subseteq UnderWay(s)
      /\ Sent(q) \cap ToReplay(s)' = {} /\ Sent(q) \cap Taken(s)' = {}
  <2>1. ToReplay(s)' \subseteq ToReplay(s) /\ Taken(s)' = Taken(s)
    BY DEF ToReplay, Taken, Holding
  <2>. HIDE DEF q
  <2>. QED
    BY <1>0, <1>3, <2>1 DEF UnderWay, UnderWayOnce
<1>. HIDE DEF q
<1>. QED
  BY <1>3, <1>4, LessMoved DEF q

\* A number to replay, or one in a hand, is queued, or it is not sent: no task has it any more.
LEMMA SendMoved ==
    ASSUME StoreInv, Delivery, Onward, NEW s \in Sockets, NEW n \in Nat,
           out' = out \/ out' = Queued(s, "event", n),
           \/ /\ \E m \in missed[s] : n = m[2] /\ missed'[s] = missed[s] \ {m}
              /\ \A r \in Roles : hand'[<<s, r>>] = hand[<<s, r>>]
           \/ /\ missed'[s] = missed[s]
              /\ \E r \in Holding(s) : /\ n = hand[<<s, r>>].seq /\ hand'[<<s, r>>] = Idle
                                       /\ \A x \in Roles \ {r} : hand'[<<s, x>>] = hand[<<s, x>>],
           main'[s] \notin Early, actor'[s] # "off"
    PROVE  Moved(s)
<1>. DEFINE q == out'[s]
<1>0. /\ out[s] \in Seq(Frame) /\ out \in [Sockets -> Seq(Frame)]
      /\ UnderWayOnce(s) /\ HelloLeads(out[s]) /\ GivenOut(s)
  BY DEF Delivery, DeliveryType, HelloFirst
<1>1. \A r \in Roles : <<s, r>> \in Tasks
  BY SessionAssumption DEF SessionTasks, Roles
<1>2. ASSUME NEW m \in missed[s], n = m[2], missed'[s] = missed[s] \ {m},
             \A r \in Roles : hand'[<<s, r>>] = hand[<<s, r>>]
      PROVE  /\ n \in UnderWay(s) /\ n \notin Sent(out[s]) /\ n \notin ToReplay(s)' /\ n \notin Taken(s)'
             /\ Taken(s)' \subseteq Taken(s) /\ ToReplay(s)' \subseteq ToReplay(s)
  <2>1. Taken(s)' = Taken(s) /\ n \in ToReplay(s)
    BY <1>2 DEF Taken, Holding, ToReplay
  <2>2. n \notin ToReplay(s)' /\ ToReplay(s)' \subseteq ToReplay(s)
    BY <1>0, <1>2 DEF ToReplay, UnderWayOnce
  <2>. QED
    BY <1>0, <2>1, <2>2 DEF UnderWay, UnderWayOnce
<1>3. ASSUME missed'[s] = missed[s], NEW r \in Holding(s), n = hand[<<s, r>>].seq, hand'[<<s, r>>] = Idle,
             \A x \in Roles \ {r} : hand'[<<s, x>>] = hand[<<s, x>>]
      PROVE  /\ n \in UnderWay(s) /\ n \notin Sent(out[s]) /\ n \notin ToReplay(s)' /\ n \notin Taken(s)'
             /\ Taken(s)' \subseteq Taken(s) /\ ToReplay(s)' \subseteq ToReplay(s)
  <2>1. ToReplay(s)' = ToReplay(s) /\ n \in Taken(s)
    BY <1>3 DEF Taken, ToReplay
  <2>2. \A x \in Holding(s)' : x \in Holding(s) /\ x # r /\ hand'[<<s, x>>] = hand[<<s, x>>]
    BY <1>3 DEF Holding
  <2>3. \A x \in Holding(s) : hand[<<s, x>>].seq = n => x = r
    <3>. SUFFICES ASSUME NEW x \in Holding(s), hand[<<s, x>>].seq = n PROVE x = r
      OBVIOUS
    <3>1. x \in Roles /\ r \in Roles /\ hand[<<s, x>>] # Idle /\ hand[<<s, r>>] # Idle
      BY <1>3 DEF Holding
    <3>2. hand[<<s, x>>].conn = conn[s] /\ hand[<<s, r>>].conn = conn[s] /\ conn[s] \in Conns
      BY <1>0, <1>1, <1>3, <3>1 DEF GivenOut, StoreInv, StoreTypeOK, Held
    <3>3. <<s, x>> = <<s, r>>
      BY <1>1, <1>3, <3>1, <3>2 DEF StoreInv, NumbersIdentifyEvents
    <3>. QED
      BY <3>3
  <2>4. Taken(s)' \subseteq Taken(s) /\ n \notin Taken(s)'
    BY <2>2, <2>3 DEF Taken
  <2>. QED
    BY <1>0, <2>1, <2>4 DEF UnderWay, UnderWayOnce
<1>4. /\ n \in UnderWay(s) /\ n \notin Sent(out[s]) /\ n \notin ToReplay(s)' /\ n \notin Taken(s)'
      /\ Taken(s)' \subseteq Taken(s) /\ ToReplay(s)' \subseteq ToReplay(s)
  BY <1>2, <1>3
<1>5. missed'[s] \subseteq missed[s] /\ \A r \in Roles : hand'[<<s, r>>] \in {hand[<<s, r>>], Idle}
  BY DEF Holding
<1>6. Sent(q) \subseteq Sent(out[s]) \cup {n} /\ SentOnce(q) /\ HelloLeads(q) /\ (HasHello(q) => HelloPending(s))
  <2>1. CASE out' = out
    BY <1>0, <2>1 DEF HelloPending, UnderWayOnce
  <2>2. CASE out' = Queued(s, "event", n)
    <3>1. q = Append(out[s], [kind |-> "event", seq |-> n])
      BY <1>0, <2>2 DEF Queued
    <3>2. SentOnce(out[s])
      BY <1>0 DEF UnderWayOnce
    <3>. HIDE DEF q
    <3>. QED
      BY <1>0, <1>4, <3>1, <3>2, QueuedFacts DEF HelloPending
  <2>. QED
    BY <2>1, <2>2
<1>. HIDE DEF q
<1>7. /\ Sent(q) \subseteq UnderWay(s)
      /\ Sent(q) \cap ToReplay(s)' = {} /\ Sent(q) \cap Taken(s)' = {}
  BY <1>0, <1>4, <1>6 DEF UnderWay, UnderWayOnce
<1>. QED
  BY <1>5, <1>6, <1>7, LessMoved DEF q

\* The stream gives a task of the socket its next number.
LEMMA TakeMoved ==
    ASSUME StoreInv, Delivery, Onward, NEW s \in Sockets, NEW r \in Roles, NEW e \in Events,
           NextSequence(<<s, r>>, conn[s], e), out'[s] = out[s], missed'[s] = missed[s],
           main'[s] \notin Early, actor'[s] # "off"
    PROVE  Moved(s)
<1>. DEFINE c == conn[s]
            n == stream[c].sequence
<1>0. UnderWayOnce(s) /\ HelloLeads(out[s]) /\ GivenOut(s) /\ UnderWay(s) \subseteq Nat
  BY NumbersTyped DEF Delivery, HelloFirst
<1>1. \A x \in Roles : <<s, x>> \in Tasks
  BY SessionAssumption DEF SessionTasks, Roles
<1>2. c \in Conns /\ n \in Nat /\ stream[c] \in ConnectionState
  BY DEF NextSequence, StoreInv, StoreTypeOK, ConnectionState
<1>3. ~Unallocated(c) /\ \A k \in UnderWay(s) : k < n
  BY <1>0, <1>2 DEF GivenOut
<1>4. stream'[c].sequence = n + 1
  BY <1>2 DEF NextSequence, StoreInv, StoreTypeOK, ConnectionState
<1>5. /\ hand[<<s, r>>] = Idle /\ hand' = [hand EXCEPT ![<<s, r>>] = [conn |-> c, seq |-> n, event |-> e]]
      /\ hand \in [Tasks -> Held \cup {Idle}]
  BY DEF NextSequence, StoreInv, StoreTypeOK
<1>. HIDE DEF c, n
<1>6. /\ hand'[<<s, r>>].conn = c /\ hand'[<<s, r>>].seq = n
      /\ \A x \in Roles \ {r} : hand'[<<s, x>>] = hand[<<s, x>>]
  BY <1>1, <1>5
<1>7. /\ Holding(s)' \subseteq Holding(s) \cup {r} /\ r \notin Holding(s)
      /\ \A x \in Holding(s)' : x # r => hand'[<<s, x>>] = hand[<<s, x>>]
  BY <1>5, <1>6 DEF Holding
<1>8. Taken(s)' \subseteq Taken(s) \cup {n} /\ ToReplay(s)' = ToReplay(s) /\ Sent(out[s])' = Sent(out[s])
  BY <1>6, <1>7 DEF Taken, ToReplay, Sent, Numbered
<1>9. n \notin UnderWay(s)
  BY <1>0, <1>2, <1>3
<1>10. UnderWayOnce(s)'
  BY <1>0, <1>8, <1>9 DEF UnderWayOnce, UnderWay, SentOnce, Numbered
<1>11. UnderWay(s)' \subseteq UnderWay(s) \cup {n}
  BY <1>8 DEF UnderWay
<1>12. \A x \in Holding(s)' : hand'[<<s, x>>].conn = c
  BY <1>0, <1>6, <1>7 DEF GivenOut, c
<1>13. HelloLeads(out[s])' /\ (HelloPending(s)' => HelloPending(s))
  BY <1>0 DEF HelloLeads, HelloPending, Early
<1>14. n < stream'[c].sequence
  BY <1>2, <1>4
<1>. QED
  BY <1>2, <1>3, <1>10, <1>11, <1>12, <1>13, <1>14 DEF Moved, c, n

\* The actor takes the first frame of the queue, or drops them all.
LEMMA DropMoved ==
    ASSUME Delivery, Onward, NEW s \in Sockets,
           (out[s] # <<>> /\ out'[s] = Tail(out[s])) \/ out'[s] = <<>>,
           missed'[s] = missed[s], hand' = hand, main'[s] = main[s], actor'[s] # "off"
    PROVE  Moved(s) /\ (out[s] # <<>> => ~HelloPending(s)')
<1>. DEFINE q == out'[s]
<1>0. /\ out[s] \in Seq(Frame) /\ UnderWayOnce(s) /\ HelloLeads(out[s])
      /\ main[s] \in Early => out[s] = <<>>
  BY DEF Delivery, DeliveryType, HelloFirst
<1>1. Sent(q) \subseteq Sent(out[s]) /\ SentOnce(q) /\ HelloLeads(q) /\ ~HasHello(q)
  <2>1. CASE out[s] # <<>> /\ out'[s] = Tail(out[s])
    BY <1>0, <2>1, TailFacts DEF UnderWayOnce
  <2>2. CASE out'[s] = <<>>
    BY <2>2, EmptyQueue
  <2>. QED
    BY <2>1, <2>2
<1>2. CASE main[s] \in Early
  <2>1. out'[s] = out[s]
    BY <1>0, <1>2
  <2>. QED
    BY <1>0, <1>2, <2>1, SameMoved DEF SameSocket
<1>3. CASE main[s] \notin Early
  <2>1. ToReplay(s)' = ToReplay(s) /\ Taken(s)' = Taken(s)
    BY DEF ToReplay, Taken, Holding
  <2>. HIDE DEF q
  <2>2. Sent(q) \subseteq UnderWay(s) /\ Sent(q) \cap ToReplay(s)' = {} /\ Sent(q) \cap Taken(s)' = {}
    BY <1>0, <1>1, <2>1 DEF UnderWay, UnderWayOnce
  <2>3. Moved(s)
    BY <1>1, <1>3, <2>2, LessMoved DEF q
  <2>4. ~HelloPending(s)'
    BY <1>1, <1>3 DEF HelloPending, Early, HasHello, q
  <2>. QED
    BY <2>3, <2>4
<1>. QED
  BY <1>2, <1>3


\* The steps that leave alone what is under way and what devices have.
Quietly == Onward /\ DeliveryType' /\ UNCHANGED <<out, missed, hand, device, got>>

QuietStep ==
    \/ \E d \in Devices : Stall(d)
    \/ \E s \in Sockets : \/ ActorHears(s) \/ ActorAnswersPing(s) \/ ActorHearsEnd(s)
                          \/ Reject(s) \/ JoinHub(s) \/ ReplayDone(s) \/ SnapshotFails(s) \/ EndLoop(s) \/ GraceCheck(s)
                          \/ ActorPingTick(s) \/ ActorOrphaned(s) \/ ActorUnstuck(s)
    \/ \E u \in Users, e \in Events : Publish(u, e)
    \/ Sweep \/ Tick \/ UNCHANGED SessionVars

LEMMA QuietSteps == SessionInv /\ Delivery /\ StreamsGrow /\ QuietStep => Quietly
<1>. SUFFICES ASSUME SessionInv, Delivery, StreamsGrow, QuietStep PROVE Quietly
  OBVIOUS
<1>0. /\ main \in [Sockets -> MainStates] /\ actor \in [Sockets -> ActorStates]
      /\ DeliveryType
      /\ \A s \in Sockets : /\ main[s] \in Early => forward[s] = "off"
                            /\ forward[s] = "on" => main[s] \in {"snapshot", "run"}
                            /\ main[s] = "opened" => actor[s] = "off"
                            /\ main[s] \in {"attached", "joined", "replay", "snapshot", "run"} => actor[s] # "off"
  BY DEF SessionInv, Attachment, Delivery, HelloFirst
<1>. USE <1>0 DEF Quietly, Onward, Early, MainStates, ActorStates, DeliveryType, StoreVars, ServerVars, ClientVars
<1>1. ASSUME NEW d \in Devices, Stall(d) PROVE Quietly
  BY <1>1 DEF Stall
<1>2. ASSUME NEW s \in Sockets, ActorHears(s) PROVE Quietly
  BY <1>2 DEF ActorHears, Stop, TouchStream
<1>3. ASSUME NEW s \in Sockets, ActorAnswersPing(s) PROVE Quietly
  BY <1>3 DEF ActorAnswersPing
<1>4. ASSUME NEW s \in Sockets, ActorHearsEnd(s) PROVE Quietly
  BY <1>4 DEF ActorHearsEnd, Stop
<1>5. ASSUME NEW s \in Sockets, Reject(s) PROVE Quietly
  BY <1>5 DEF Reject
<1>6. ASSUME NEW s \in Sockets, JoinHub(s) PROVE Quietly
  BY <1>6 DEF JoinHub
<1>7. ASSUME NEW s \in Sockets, ReplayDone(s) PROVE Quietly
  BY <1>7 DEF ReplayDone
<1>8. ASSUME NEW s \in Sockets, SnapshotFails(s) PROVE Quietly
  BY <1>8 DEF SnapshotFails
<1>9. ASSUME NEW s \in Sockets, EndLoop(s) PROVE Quietly
  BY <1>9 DEF EndLoop, LeaveLoop, Disconnect
<1>10. ASSUME NEW s \in Sockets, GraceCheck(s) PROVE Quietly
  BY <1>10 DEF GraceCheck
<1>11. ASSUME NEW s \in Sockets, ActorPingTick(s) PROVE Quietly
  BY <1>11 DEF ActorPingTick, Stop
<1>12. ASSUME NEW s \in Sockets, ActorOrphaned(s) PROVE Quietly
  BY <1>12 DEF ActorOrphaned, Stop
<1>13. ASSUME NEW s \in Sockets, ActorUnstuck(s) PROVE Quietly
  BY <1>13 DEF ActorUnstuck, Stop
<1>14. ASSUME NEW u \in Users, NEW e \in Events, Publish(u, e) PROVE Quietly
  BY <1>14 DEF Publish
<1>15. CASE Sweep
  BY <1>15 DEF Sweep, CleanupScan, CleanupRemove
<1>16. CASE Tick
  BY <1>16 DEF Tick, StoreTick
<1>17. CASE UNCHANGED SessionVars
  BY <1>17 DEF SessionVars
<1>. QED
  BY <1>1, <1>2, <1>3, <1>4, <1>5, <1>6, <1>7, <1>8, <1>9, <1>10, <1>11, <1>12, <1>13, <1>14, <1>15, <1>16, <1>17 DEF QuietStep

LEMMA OneMoves ==
    ASSUME StoreInv, StoreInv', Delivery, DeliveryType', Onward, device' = device, got' = got,
           NEW s \in Sockets, Moved(s), \A u \in Sockets \ {s} : SameSocket(u)
    PROVE  Delivery'
<1>1. \A u \in Sockets : Moved(u)
  BY SameMoved
<1>. QED
  BY <1>1, KeepsDelivery

LEMMA QueuedType ==
    ASSUME out \in [Sockets -> Seq(Frame)], NEW s \in Sockets, NEW kind \in {"hello", "event", "close"}, NEW n \in Nat
    PROVE  /\ Queued(s, kind, n) \in [Sockets -> Seq(Frame)]
           /\ \A u \in Sockets \ {s} : Queued(s, kind, n)[u] = out[u]
<1>1. Append(out[s], [kind |-> kind, seq |-> n]) \in Seq(Frame)
  BY QueuedFacts
<1>. QED
  BY <1>1 DEF Queued

\* A task that sends an event goes on in the loop; a failed send may end the forwarding task.
LEMMA SendEventGoesOn ==
    ASSUME DeliveryType, StreamsGrow, NEW s \in Sockets, NEW r \in Roles, NEW n, SendEvent(s, r, n),
           out' \in [Sockets -> Seq(Frame)], UNCHANGED <<actor, request, conn, missed, device, got>>,
           main \in [Sockets -> MainStates], actor[s] # "off",
           \A u \in Sockets : forward[u] = "on" => main[u] \in {"snapshot", "run"},
           main[s] \notin Early
    PROVE  main'[s] \notin Early /\ actor'[s] # "off" /\ Onward /\ DeliveryType'
<1>1. CASE r = "main"
  <2>1. main' = [main EXCEPT ![s] = "run"] /\ forward' = [forward EXCEPT ![s] = IF @ = "off" THEN "on" ELSE @]
    BY <1>1 DEF SendEvent
  <2>2. forward' \in [Sockets -> {"off", "on", "ended"}] /\ \A u \in Sockets \ {s} : forward'[u] = forward[u]
    BY <2>1 DEF DeliveryType
  <2>3. main'[s] = "run" /\ \A u \in Sockets \ {s} : main'[u] = main[u]
    BY <2>1
  <2>. QED
    BY <2>2, <2>3 DEF Onward, Early, DeliveryType
<1>2. CASE r = "forward"
  <2>1. main' = main /\ forward' = [forward EXCEPT ![s] = IF CanSend(s) THEN @ ELSE "ended"]
    BY <1>2 DEF SendEvent
  <2>2. forward' \in [Sockets -> {"off", "on", "ended"}] /\ (\A u \in Sockets \ {s} : forward'[u] = forward[u])
        /\ forward'[s] \in {forward[s], "ended"}
    BY <2>1 DEF DeliveryType
  <2>. QED
    BY <2>1, <2>2 DEF Onward, Early, DeliveryType
<1>. QED
  BY <1>1, <1>2 DEF Roles

\* The steps of a task that queue a frame for its socket, or give a number out.
LEMMA SendingSteps ==
    ASSUME SessionInv, SessionInv', Delivery, StreamsGrow, NEW s \in Sockets,
           \/ UsernameFails(s) \/ AskInitialLoad(s) \/ TokenExpires(s) \/ Hello(s) \/ ReplayOne(s)
           \/ \E e \in Events : TakeSnapshot(s, e)
           \/ TakeEvent(s) \/ \E r \in Roles : SendTaken(s, r)
    PROVE  Delivery'
<1>0. /\ main \in [Sockets -> MainStates] /\ actor \in [Sockets -> ActorStates] /\ rx \in [Sockets -> Seq(Events)]
      /\ DeliveryType /\ StoreInv /\ StoreInv'
      /\ \A u \in Sockets : /\ main[u] \in Early => forward[u] = "off"
                            /\ forward[u] = "on" => main[u] \in {"snapshot", "run"}
                            /\ main[u] = "opened" => actor[u] = "off"
                            /\ main[u] \in {"attached", "joined", "replay", "snapshot", "run"} => actor[u] # "off"
      /\ main[s] \in Early \/ actor[s] = "off" => Holding(s) = {}
  BY DEF SessionInv, Attachment, Delivery, HelloFirst
<1>1. \A r \in Roles : <<s, r>> \in Tasks /\ \A u \in Sockets \ {s}, x \in Roles : <<u, x>> # <<s, r>>
  BY SessionAssumption DEF SessionTasks, Roles
<1>. DEFINE Rest == device' = device /\ got' = got /\ \A u \in Sockets \ {s} : SameSocket(u)
<1>2. WithClose(s) \in {out, Queued(s, "close", 0)}
  BY DEF WithClose
<1>12. \A kind \in {"hello", "event", "close"}, n \in Nat : out' \in {out, Queued(s, kind, n)} =>
          out' \in [Sockets -> Seq(Frame)] /\ \A u \in Sockets \ {s} : out'[u] = out[u]
  <2>1. out \in [Sockets -> Seq(Frame)]
    BY <1>0 DEF DeliveryType
  <2>. SUFFICES ASSUME NEW kind \in {"hello", "event", "close"}, NEW n \in Nat, out' = out \/ out' = Queued(s, kind, n)
                PROVE  out' \in [Sockets -> Seq(Frame)] /\ \A u \in Sockets \ {s} : out'[u] = out[u]
    OBVIOUS
  <2>2. CASE out' = out
    BY <2>1, <2>2
  <2>3. CASE out' = Queued(s, kind, n)
    <3>. DEFINE o == Queued(s, kind, n)
    <3>1. o \in [Sockets -> Seq(Frame)] /\ \A u \in Sockets \ {s} : o[u] = out[u]
      BY <2>1, QueuedType
    <3>2. out' = o
      BY <2>3
    <3>. HIDE DEF o
    <3>. QED
      BY <3>1, <3>2
  <2>. QED
    BY <2>2, <2>3
<1>3. CASE UsernameFails(s)
  <2>0. out' \in [Sockets -> Seq(Frame)] /\ \A u \in Sockets \ {s} : out'[u] = out[u]
    BY <1>2, <1>3, <1>12 DEF UsernameFails
  <2>1. Onward /\ DeliveryType' /\ Rest /\ main'[s] = "done" /\ actor'[s] # "off"
    BY <1>0, <1>3, <2>0
       DEF UsernameFails, Onward, Early, MainStates, ActorStates, DeliveryType, StoreVars, ClientVars, SameSocket
  <2>2. Moved(s)
    BY <1>0, <1>2, <1>3, <2>1, PutMoved DEF UsernameFails, StoreVars, Early
  <2>. QED
    BY <1>0, <2>1, <2>2, OneMoves
<1>4. CASE AskInitialLoad(s)
  <2>0. out' \in [Sockets -> Seq(Frame)] /\ \A u \in Sockets \ {s} : out'[u] = out[u]
    BY <1>4, <1>12 DEF AskInitialLoad
  <2>1. Onward /\ DeliveryType' /\ Rest /\ main'[s] = "snapshot" /\ actor'[s] # "off"
    BY <1>0, <1>4, <2>0
       DEF AskInitialLoad, TouchStream, Onward, Early, MainStates, ActorStates, DeliveryType, ClientVars, SameSocket
  <2>2. Moved(s)
    BY <1>0, <1>4, <2>1, PutMoved DEF AskInitialLoad, TouchStream, Early
  <2>. QED
    BY <1>0, <2>1, <2>2, OneMoves
<1>5. CASE TokenExpires(s)
  <2>0. out' \in [Sockets -> Seq(Frame)] /\ \A u \in Sockets \ {s} : out'[u] = out[u]
    BY <1>2, <1>5, <1>12 DEF TokenExpires
  <2>1. Onward /\ DeliveryType' /\ Rest /\ main'[s] = "grace" /\ actor'[s] # "off"
    BY <1>0, <1>5, <2>0
       DEF TokenExpires, LeaveLoop, Disconnect, Onward, Early, MainStates, ActorStates, DeliveryType, ClientVars, SameSocket
  <2>2. Moved(s)
    BY <1>0, <1>2, <1>5, <2>1, PutMoved DEF TokenExpires, LeaveLoop, Disconnect, Early
  <2>. QED
    BY <1>0, <2>1, <2>2, OneMoves
<1>6. CASE Hello(s)
  <2>0. HelloSeq(s) \in Nat /\ out' \in {out, Queued(s, "hello", HelloSeq(s))}
    BY <1>0, <1>6 DEF HelloSeq, Hello, DeliveryType, Request
  <2>3. out' \in [Sockets -> Seq(Frame)] /\ \A u \in Sockets \ {s} : out'[u] = out[u]
    BY <1>12, <2>0
  <2>4. /\ main[s] = "joined" /\ main' \in {[main EXCEPT ![s] = "replay"], [main EXCEPT ![s] = "done"]}
        /\ missed' \in {missed, [missed EXCEPT ![s] = {}]}
        /\ UNCHANGED <<StoreVars, forward, actor, request, conn, pong, ClientVars>>
    <3>1. CASE CanSend(s)
      <4>1. missed' = [missed EXCEPT ![s] = @]
        BY <1>6, <3>1 DEF Hello
      <4>2. missed' = missed
        BY <1>0, <4>1 DEF DeliveryType
      <4>. QED
        BY <1>6, <3>1, <4>2 DEF Hello
    <3>2. CASE ~CanSend(s)
      <4>1. missed' = [missed EXCEPT ![s] = {}]
        BY <1>6, <3>2 DEF Hello
      <4>. QED
        BY <1>6, <3>2, <4>1 DEF Hello
    <3>. QED
      BY <3>1, <3>2
  <2>1. Onward /\ DeliveryType' /\ Rest /\ main'[s] \in {"replay", "done"} /\ actor'[s] # "off"
    BY <1>0, <2>3, <2>4
       DEF Onward, Early, MainStates, ActorStates, DeliveryType, StoreVars, ClientVars, SameSocket
  <2>2. Moved(s)
    BY <1>0, <2>0, <2>1, <2>4, PutMoved DEF StoreVars, Early, DeliveryType
  <2>. QED
    BY <1>0, <2>1, <2>2, OneMoves
<1>7. CASE ReplayOne(s)
  <2>0. PICK m \in missed[s] : /\ out' = out \/ out' = Queued(s, "event", m[2])
                               /\ missed' = [missed EXCEPT ![s] = @ \ {m}] \/ (missed' = [missed EXCEPT ![s] = {}] /\ out' = out)
    BY <1>7 DEF ReplayOne
  <2>1. m[2] \in Nat
    BY <1>0 DEF DeliveryType
  <2>5. out' \in [Sockets -> Seq(Frame)] /\ \A u \in Sockets \ {s} : out'[u] = out[u]
    BY <1>12, <2>0, <2>1
  <2>2. Onward /\ DeliveryType' /\ Rest /\ main'[s] = "replay" /\ actor'[s] # "off" /\ hand' = hand
    BY <1>0, <1>7, <2>0, <2>5
       DEF ReplayOne, Onward, Early, MainStates, ActorStates, DeliveryType, StoreVars, ClientVars, SameSocket
  <2>3. CASE missed' = [missed EXCEPT ![s] = {}] /\ out' = out
    <3>1. missed'[s] = {}
      BY <1>0, <2>3 DEF DeliveryType
    <3>2. Moved(s)
      BY <2>2, <2>3, <3>1, PutMoved DEF Early
    <3>. QED
      BY <1>0, <2>2, <3>2, OneMoves
  <2>4. CASE missed' = [missed EXCEPT ![s] = @ \ {m}]
    <3>1. missed'[s] = missed[s] \ {m}
      BY <1>0, <2>4 DEF DeliveryType
    <3>2. Moved(s)
      BY <1>0, <2>0, <2>1, <2>2, <3>1, SendMoved DEF Early
    <3>. QED
      BY <1>0, <2>2, <3>2, OneMoves
  <2>. QED
    BY <2>0, <2>3, <2>4
<1>8. ASSUME NEW r \in Roles, NEW e \in Events, Take(s, r, e), main[s] \in {"snapshot", "run"},
             UNCHANGED <<actor, request, conn, missed, ClientVars>>
      PROVE  Delivery'
  <2>1. CASE NextSequence(<<s, r>>, conn[s], e) /\ UNCHANGED <<main, forward, out>>
    <3>1. /\ Onward /\ DeliveryType' /\ device' = device /\ got' = got
          /\ main'[s] \notin Early /\ actor'[s] # "off"
      BY <1>0, <1>8, <2>1 DEF Onward, Early, DeliveryType, ClientVars
    <3>2. \A u \in Sockets \ {s} : SameSocket(u)
      <4>1. hand \in [Tasks -> Held \cup {Idle}]
        BY <1>0 DEF StoreInv, StoreTypeOK
      <4>. QED
        BY <1>1, <1>8, <2>1, <4>1 DEF NextSequence, SameSocket
    <3>3. Moved(s)
      BY <1>0, <1>8, <2>1, <3>1, TakeMoved
    <3>. QED
      BY <1>0, <3>1, <3>2, <3>3, OneMoves
  <2>2. CASE SendEvent(s, r, 0) /\ UNCHANGED StoreVars
    <3>0. out' \in [Sockets -> Seq(Frame)] /\ \A u \in Sockets \ {s} : out'[u] = out[u]
      BY <1>12, <2>2 DEF SendEvent
    <3>4. out' = out \/ out' = Queued(s, "event", 0)
      BY <2>2 DEF SendEvent
    <3>5. hand' = hand /\ device' = device /\ got' = got /\ missed' = missed /\ actor' = actor /\ request' = request /\ conn' = conn
      BY <1>8, <2>2 DEF StoreVars, ClientVars
    <3>6. main'[s] \notin Early /\ actor'[s] # "off" /\ Onward /\ DeliveryType'
      BY <1>0, <1>8, <2>2, <3>0, <3>5, SendEventGoesOn DEF Early
    <3>1. Rest
      BY <3>0, <3>5 DEF SameSocket
    <3>2. Moved(s)
      BY <3>4, <3>5, <3>6, PutMoved
    <3>. QED
      BY <1>0, <3>1, <3>2, <3>6, OneMoves
  <2>. QED
    BY <1>8, <2>1, <2>2 DEF Take
<1>9. ASSUME NEW e \in Events, TakeSnapshot(s, e) PROVE Delivery'
  BY <1>8, <1>9 DEF TakeSnapshot, Roles
<1>10. CASE TakeEvent(s)
  <2>1. Head(rx[s]) \in Events
    BY <1>0, <1>10 DEF TakeEvent
  <2>. QED
    BY <1>0, <1>8, <1>10, <2>1 DEF TakeEvent, Roles
<1>11. ASSUME NEW r \in Roles, SendTaken(s, r) PROVE Delivery'
  <2>. DEFINE n == hand[<<s, r>>].seq
  <2>0. /\ hand[<<s, r>>] # Idle /\ hand \in [Tasks -> Held \cup {Idle}] /\ hand' = [hand EXCEPT ![<<s, r>>] = Idle]
        /\ r \in Holding(s) /\ n \in Nat
    BY <1>0, <1>1, <1>11 DEF SendTaken, BufferMessage, StoreInv, StoreTypeOK, Held, Holding
  <2>1. hand'[<<s, r>>] = Idle /\ \A u \in Sockets, x \in Roles : <<u, x>> # <<s, r>> => hand'[<<u, x>>] = hand[<<u, x>>]
    BY <1>1, <2>0, SessionAssumption DEF SessionTasks, Roles
  <2>2. main[s] \notin Early /\ actor[s] # "off"
    BY <1>0, <2>0
  <2>. HIDE DEF n
  <2>3. SendEvent(s, r, n) /\ UNCHANGED <<actor, request, conn, missed, rx, pong, ClientVars>>
    BY <1>11 DEF SendTaken, n
  <2>6. out' \in [Sockets -> Seq(Frame)] /\ \A u \in Sockets \ {s} : out'[u] = out[u]
    BY <1>12, <2>0, <2>3 DEF SendEvent
  <2>7. out' = out \/ out' = Queued(s, "event", n)
    BY <2>3 DEF SendEvent
  <2>8. device' = device /\ got' = got /\ missed' = missed /\ actor' = actor /\ request' = request /\ conn' = conn
    BY <2>3 DEF ClientVars
  <2>9. main'[s] \notin Early /\ actor'[s] # "off" /\ Onward /\ DeliveryType'
    BY <1>0, <2>0, <2>2, <2>3, <2>6, <2>8, SendEventGoesOn
  <2>4. Rest
    BY <1>1, <2>1, <2>6, <2>8 DEF SameSocket
  <2>5. Moved(s)
    BY <1>0, <2>0, <2>1, <2>7, <2>8, <2>9, SendMoved DEF n
  <2>. QED
    BY <1>0, <2>4, <2>5, <2>9, OneMoves
<1>. QED
  BY <1>3, <1>4, <1>5, <1>6, <1>7, <1>9, <1>10, <1>11

\* A socket that a step leaves alone, but for the streams it grows.
SameTask(s) == main'[s] = main[s] /\ actor'[s] = actor[s] /\ forward'[s] = forward[s] /\ conn'[s] = conn[s]

LEMMA SocketKept ==
    ASSUME StoreInv, StoreInv', Delivery, StreamsGrow, NEW s \in Sockets, SameSocket(s), conn'[s] = conn[s]
    PROVE  /\ UnderWayOnce(s)' /\ GivenOut(s)' /\ UnderWay(s)' = UnderWay(s) /\ Holding(s)' = Holding(s)
           /\ SameTask(s) => HelloFirst(s)' /\ (HelloPending(s)' => HelloPending(s))
<1>0. UnderWayOnce(s) /\ GivenOut(s) /\ HelloFirst(s)
  BY DEF Delivery
<1>1. Holding(s)' = Holding(s) /\ Taken(s)' = Taken(s) /\ ToReplay(s)' = ToReplay(s)
  BY DEF SameSocket, Holding, Taken, ToReplay
<1>2. UnderWay(s)' = UnderWay(s) /\ UnderWayOnce(s)'
  BY <1>0, <1>1 DEF SameSocket, UnderWay, UnderWayOnce
<1>3. SameTask(s) => HelloFirst(s)' /\ (HelloPending(s)' => HelloPending(s))
  BY <1>0, <1>1 DEF SameTask, SameSocket, HelloFirst, HelloPending, Early
<1>. DEFINE c == conn[s]
<1>4. c \in Conns => /\ ~Unallocated(c) /\ \A n \in UnderWay(s) : n < stream[c].sequence
                     /\ stream'[c].user # NoUser /\ stream[c].sequence <= stream'[c].sequence
                     /\ stream[c].sequence \in Nat /\ stream'[c].sequence \in Nat
  BY <1>0 DEF GivenOut, StreamsGrow, Unallocated, StoreInv, StoreTypeOK, ConnectionState
<1>5. UnderWay(s) \subseteq Nat
  BY NumbersTyped DEF Delivery
<1>6. \A r \in Holding(s)' : hand'[<<s, r>>].conn = c
  BY <1>0, <1>1 DEF SameSocket, GivenOut, Holding
<1>. HIDE DEF c
<1>7. c \in Conns => stream'[c].user # NoUser /\ \A n \in UnderWay(s)' : n < stream'[c].sequence
  BY <1>2, <1>4, <1>5
<1>8. conn'[s] = c
  BY DEF c
<1>9. GivenOut(s)'
  BY <1>6, <1>7, <1>8 DEF GivenOut, Unallocated
<1>. QED
  BY <1>1, <1>2, <1>3, <1>9

LEMMA OnSocketKept ==
    ASSUME Delivery, NEW d \in Devices, NEW s \in Sockets, OnSocket(d, s),
           device'[d].conn = device[d].conn, device'[d].last = device[d].last, got'[d] = got[d],
           SameTask(s), request'[s] = request[s], UnderWay(s)' = UnderWay(s), HelloPending(s)' => HelloPending(s)
    PROVE  OnSocket(d, s)'
BY DEF OnSocket, SameTask

\* Devices come and go.
LEMMA DeviceSteps ==
    ASSUME SessionInv, SessionInv', Delivery, StreamsGrow, NEW d \in Devices,
           Leave(d) \/ \E s \in Sockets : Connect(d, s)
    PROVE  Delivery'
<1>0. StoreInv /\ StoreInv' /\ DeliveryType
  BY DEF SessionInv, Delivery
<1>1. device \in [Devices -> [socket : Sockets \cup {NoSocket}, conn : Conns \cup {NoConn}, last : Nat]]
  BY <1>0 DEF DeliveryType
<1>2. CASE Leave(d)
  <2>1. /\ device' = [device EXCEPT ![d].socket = NoSocket] /\ got' = got
        /\ \A s \in Sockets : SameSocket(s) /\ SameTask(s) /\ request'[s] = request[s]
        /\ UNCHANGED <<out, missed, forward, request>>
    BY <1>2 DEF Leave, StoreVars, ServerVars, SameSocket, SameTask
  <2>2. \A s \in Sockets : /\ UnderWayOnce(s)' /\ HelloFirst(s)' /\ GivenOut(s)'
                           /\ UnderWay(s)' = UnderWay(s) /\ (HelloPending(s)' => HelloPending(s))
    BY <1>0, <2>1, SocketKept DEF SameTask
  <2>3. /\ \A b \in Devices : device'[b].conn = device[b].conn /\ device'[b].last = device[b].last
        /\ \A b \in Devices, s \in Sockets : device'[b].socket = s => device[b].socket = s
    BY <1>1, <2>1, SessionAssumption
  <2>4. \A b \in Devices : Received(b)'
    BY <1>0, <2>1, <2>3, DeviceKept
  <2>5. \A b \in Devices, s \in Sockets : device'[b].socket = s => OnSocket(b, s)'
    BY <2>1, <2>2, <2>3, OnSocketKept DEF Delivery
  <2>6. DeliveryType'
    BY <1>0, <2>1 DEF DeliveryType
  <2>. QED
    BY <2>2, <2>4, <2>5, <2>6 DEF Delivery
<1>3. ASSUME NEW s \in Sockets, Connect(d, s) PROVE Delivery'
  <2>1. /\ device' = [device EXCEPT ![d].socket = s] /\ got' = got
        /\ main[s] = "new" /\ actor[s] = "off" /\ main' = [main EXCEPT ![s] = "opened"]
        /\ request' = [request EXCEPT ![s] = [user |-> UserOf[d], conn |-> device[d].conn, since |-> device[d].last]]
        /\ UNCHANGED <<out, missed, forward, conn, actor, hand, stream>>
        /\ main \in [Sockets -> MainStates]
    BY <1>3 DEF Connect, StoreVars, SessionInv, Attachment
  <2>2. \A u \in Sockets : SameSocket(u) /\ conn'[u] = conn[u]
    BY <2>1 DEF SameSocket
  <2>3. \A u \in Sockets \ {s} : SameTask(u) /\ request'[u] = request[u]
    BY <1>0, <2>1 DEF SameTask, DeliveryType
  <2>4. \A u \in Sockets : UnderWayOnce(u)' /\ GivenOut(u)' /\ UnderWay(u)' = UnderWay(u) /\ Holding(u)' = Holding(u)
    BY <1>0, <2>2, SocketKept
  <2>5. \A u \in Sockets \ {s} : HelloFirst(u)' /\ (HelloPending(u)' => HelloPending(u))
    BY <1>0, <2>2, <2>3, SocketKept
  <2>6. /\ HelloFirst(s) /\ out[s] = <<>> /\ missed[s] = {} /\ Holding(s) = {} /\ forward[s] = "off"
        /\ main'[s] = "opened"
    BY <2>1 DEF Delivery, HelloFirst, Early
  <2>7. HelloFirst(s)'
    <3>1. out'[s] = <<>> /\ missed'[s] = {} /\ Holding(s)' = {} /\ forward'[s] = "off"
      BY <2>1, <2>4, <2>6
    <3>. QED
      BY <2>6, <3>1, EmptyQueue DEF HelloFirst, Early
  <2>8. UnderWay(s)' = {} /\ ~HelloPending(s)'
    <3>1. Sent(out[s]) = {} /\ ~HasHello(out[s]) /\ ToReplay(s) = {} /\ Taken(s) = {}
      BY <2>6, EmptyQueue DEF ToReplay, Taken
    <3>. QED
      BY <2>1, <2>4, <2>6, <3>1 DEF UnderWay, HelloPending
  <2>9. /\ \A b \in Devices : device'[b].conn = device[b].conn /\ device'[b].last = device[b].last
        /\ \A b \in Devices \ {d} : device'[b].socket = device[b].socket
        /\ device'[d].socket = s
    BY <1>1, <2>1
  <2>10. \A b \in Devices : Received(b)'
    BY <1>0, <2>1, <2>9, DeviceKept
  <2>11. \A b \in Devices, u \in Sockets \ {s} : device'[b].socket = u => OnSocket(b, u)'
    <3>. SUFFICES ASSUME NEW b \in Devices, NEW u \in Sockets \ {s}, device'[b].socket = u PROVE OnSocket(b, u)'
      OBVIOUS
    <3>1. OnSocket(b, u)
      BY <2>9 DEF Delivery
    <3>. QED
      BY <2>1, <2>3, <2>4, <2>5, <2>9, <3>1, OnSocketKept
  <2>12. \A b \in Devices : device'[b].socket = s => OnSocket(b, s)'
    <3>. SUFFICES ASSUME NEW b \in Devices, device'[b].socket = s PROVE OnSocket(b, s)'
      OBVIOUS
    <3>1. b = d
      BY <2>1, <2>9 DEF Delivery, OnSocket
    <3>2. request'[s] = [user |-> UserOf[d], conn |-> device[d].conn, since |-> device[d].last]
      BY <1>0, <2>1 DEF DeliveryType
    <3>. QED
      BY <2>6, <2>8, <2>9, <3>1, <3>2 DEF OnSocket
  <2>13. DeliveryType'
    <3>1. device' \in [Devices -> [socket : Sockets \cup {NoSocket}, conn : Conns \cup {NoConn}, last : Nat]]
      BY <1>1, <2>1
    <3>2. [user |-> UserOf[d], conn |-> device[d].conn, since |-> device[d].last] \in Request
      BY <1>1, SessionAssumption DEF Request
    <3>. QED
      BY <1>0, <2>1, <3>1, <3>2 DEF DeliveryType
  <2>. QED
    BY <2>4, <2>5, <2>7, <2>10, <2>11, <2>12, <2>13 DEF Delivery
<1>. QED
  BY <1>2, <1>3
\* What a resume replays: numbers past the one asked for, each once, all given out.
LEMMA MissedFacts ==
    ASSUME StoreInv, NEW c \in Conns, NEW since \in Nat
    PROVE  /\ \A m, k \in get_missed_messages(c, since) : m[2] = k[2] => m = k
           /\ \A m \in get_missed_messages(c, since) : m[2] > since /\ m[2] < stream[c].sequence
           /\ get_missed_messages(c, since) \in SUBSET (Nat \X Nat)
<1>. DEFINE buf == stream[c].buffer
<1>1. /\ \A i, j \in 1 .. Len(buf) : buf[i].seq = buf[j].seq => i = j
      /\ \A i \in 1 .. Len(buf) : buf[i].seq < stream[c].sequence
  BY DEF StoreInv, NumbersIdentifyEvents
<1>2. buf \in Seq(Message)
  BY DEF StoreInv, StoreTypeOK, ConnectionState
<1>3. \A i \in 1 .. Len(buf) : i \in Nat /\ buf[i].seq \in Nat
  <2>1. \A i \in 1 .. Len(buf) : buf[i] \in Message
    BY <1>2
  <2>. QED
    BY <2>1 DEF Message
<1>4. get_missed_messages(c, since) = {<<i, buf[i].seq>> : i \in {k \in 1 .. Len(buf) : buf[k].seq > since}}
  BY DEF get_missed_messages
<1>. HIDE DEF buf
<1>5. \A m \in get_missed_messages(c, since) :
         \E i \in 1 .. Len(buf) : m = <<i, buf[i].seq>> /\ buf[i].seq > since
  BY <1>4
<1>6. \A m \in get_missed_messages(c, since) : m[2] > since /\ m[2] < stream[c].sequence /\ m \in Nat \X Nat
  BY <1>1, <1>3, <1>5
<1>7. \A m, k \in get_missed_messages(c, since) : m[2] = k[2] => m = k
  BY <1>1, <1>5
<1>. QED
  BY <1>6, <1>7

\* A socket is attached to a stream: its device's, from where the device is, or one that nobody has seen.
LEMMA AttachStep ==
    ASSUME SessionInv, SessionInv', Delivery, StreamsGrow, NEW s \in Sockets, NEW c \in Conns, Attach(s, c)
    PROVE  Delivery'
<1>0. StoreInv /\ StoreInv' /\ DeliveryType
  BY DEF SessionInv, Delivery
<1>1. /\ main[s] = "opened" /\ actor[s] = "off" /\ request[s].user \in Users
      /\ main \in [Sockets -> MainStates] /\ actor \in [Sockets -> ActorStates] /\ conn \in [Sockets -> Conns \cup {NoConn}]
  BY DEF Attach, SessionInv, Attachment
<1>2. /\ conn' = [conn EXCEPT ![s] = c] /\ actor' = [actor EXCEPT ![s] = "up"]
      /\ main' = [main EXCEPT ![s] = "attached"] /\ hand' = hand
      /\ UNCHANGED <<forward, request, out, rx, pong, link, device, got>>
  <2>1. hand' = hand
    BY DEF Attach, Resume, Create
  <2>. QED
    BY <2>1 DEF Attach, ClientVars
<1>3. /\ HelloFirst(s) /\ out[s] = <<>> /\ missed[s] = {} /\ Holding(s) = {} /\ forward[s] = "off"
  BY <1>1 DEF Delivery, HelloFirst, Early
<1>4. \E ms \in SUBSET (Nat \X Nat) :
         /\ missed' = [missed EXCEPT ![s] = ms]
         /\ \A m, k \in ms : m[2] = k[2] => m = k
         /\ \A m \in ms : m[2] < stream'[c].sequence
         /\ \/ c = request[s].conn /\ \A m \in ms : m[2] > request[s].since
            \/ Unallocated(c) /\ ms = {}
  <2>1. CASE Resumes(s)
    <3>. DEFINE ms == get_missed_messages(c, request[s].since)
    <3>1. request[s].since \in Nat /\ c = request[s].conn /\ Resume(c) /\ missed' = [missed EXCEPT ![s] = ms]
      BY <1>0, <2>1 DEF Attach, DeliveryType, Request
    <3>2. /\ ms \in SUBSET (Nat \X Nat) /\ \A m, k \in ms : m[2] = k[2] => m = k
          /\ \A m \in ms : m[2] > request[s].since /\ m[2] < stream[c].sequence
      BY <1>0, <3>1, MissedFacts
    <3>3. stream'[c].sequence = stream[c].sequence
      BY <1>0, <3>1 DEF Resume, MarkActive, StoreInv, StoreTypeOK, ConnectionState
    <3>. HIDE DEF ms
    <3>. QED
      BY <3>1, <3>2, <3>3
  <2>2. CASE ~Resumes(s)
    <3>1. Unallocated(c) /\ missed' = missed
      BY <2>2 DEF Attach, Create
    <3>2. missed' = [missed EXCEPT ![s] = {}]
      BY <1>0, <1>3, <3>1 DEF DeliveryType
    <3>. QED
      BY <3>1, <3>2
  <2>. QED
    BY <2>1, <2>2
<1>5. PICK ms \in SUBSET (Nat \X Nat) :
         /\ missed' = [missed EXCEPT ![s] = ms]
         /\ \A m, k \in ms : m[2] = k[2] => m = k
         /\ \A m \in ms : m[2] < stream'[c].sequence
         /\ \/ c = request[s].conn /\ \A m \in ms : m[2] > request[s].since
            \/ Unallocated(c) /\ ms = {}
  BY <1>4
<1>6. missed'[s] = ms /\ \A u \in Sockets \ {s} : missed'[u] = missed[u]
  BY <1>0, <1>5 DEF DeliveryType
<1>7. \A u \in Sockets \ {s} : SameSocket(u) /\ SameTask(u)
  BY <1>1, <1>2, <1>6 DEF SameSocket, SameTask
<1>8. \A u \in Sockets \ {s} : /\ UnderWayOnce(u)' /\ HelloFirst(u)' /\ GivenOut(u)'
                               /\ UnderWay(u)' = UnderWay(u) /\ (HelloPending(u)' => HelloPending(u))
  BY <1>0, <1>7, SocketKept DEF SameTask
<1>9. /\ main'[s] = "attached" /\ actor'[s] = "up" /\ conn'[s] = c
      /\ out'[s] = <<>> /\ Holding(s)' = {} /\ forward'[s] = "off"
  BY <1>1, <1>2, <1>3 DEF Holding
<1>10. HelloFirst(s)'
  BY <1>9, EmptyQueue DEF HelloFirst, Early
<1>11. Sent(out[s])' = {} /\ Taken(s)' = {} /\ ToReplay(s)' = {m[2] : m \in ms}
  <2>1. Sent(out[s])' = Sent(<<>>)
    BY <1>9 DEF Sent, Numbered
  <2>2. Taken(s)' = {}
    BY <1>9 DEF Taken
  <2>. QED
    BY <1>6, <2>1, <2>2, EmptyQueue DEF ToReplay
<1>12. UnderWay(s)' = {m[2] : m \in ms}
  BY <1>11 DEF UnderWay
<1>13. UnderWayOnce(s)'
  <2>1. SentOnce(out[s])'
    BY <1>9, EmptyQueue DEF SentOnce, Numbered
  <2>2. \A m, k \in missed'[s] : m[2] = k[2] => m = k
    BY <1>5, <1>6
  <2>. QED
    BY <1>11, <2>1, <2>2 DEF UnderWayOnce
<1>14. ~(stream'[c].user = NoUser)
  <2>1. CASE Resumes(s)
    <3>1. c = request[s].conn /\ stream[c].user = request[s].user
      BY <2>1 DEF Attach, Resumes, Resumable
    <3>. QED
      BY <1>1, <3>1, StoreAssumption DEF StreamsGrow, Unallocated
  <2>2. CASE ~Resumes(s)
    <3>1. stream' = [stream EXCEPT ![c] = NewState(request[s].user)] /\ DOMAIN stream = Conns
      BY <1>0, <2>2 DEF Attach, Create, StoreInv, StoreTypeOK
    <3>. QED
      BY <1>1, <3>1, StoreAssumption DEF NewState
  <2>. QED
    BY <2>1, <2>2
<1>15. GivenOut(s)'
  <2>1. \A n \in UnderWay(s)' : n < stream'[c].sequence
    BY <1>5, <1>12
  <2>. QED
    BY <1>9, <1>14, <2>1 DEF GivenOut, Unallocated
<1>16. \A d \in Devices : Received(d)'
  BY <1>0, <1>2, DeviceKept
<1>17. \A d \in Devices, u \in Sockets \ {s} : device'[d].socket = u => OnSocket(d, u)'
  <2>. SUFFICES ASSUME NEW d \in Devices, NEW u \in Sockets \ {s}, device'[d].socket = u PROVE OnSocket(d, u)'
    OBVIOUS
  <2>1. OnSocket(d, u)
    BY <1>2 DEF Delivery
  <2>. QED
    BY <1>2, <1>7, <1>8, <2>1, OnSocketKept
<1>18. \A d \in Devices : device'[d].socket = s => OnSocket(d, s)'
  <2>. SUFFICES ASSUME NEW d \in Devices, device'[d].socket = s PROVE OnSocket(d, s)'
    OBVIOUS
  <2>1. request[s].conn = device[d].conn /\ request[s].since = device[d].last /\ Received(d)
    BY <1>1, <1>2 DEF Delivery, OnSocket
  <2>2. device[d].last \in Nat /\ \A p \in got[d] : p \in Conns \X Nat
    BY <1>0 DEF DeliveryType
  <2>3. \A p \in got[d] : ~Unallocated(p[1]) /\ (p[1] = device[d].conn => p[2] <= device[d].last)
    BY <2>1 DEF Received
  <2>4. \A n \in UnderWay(s)' : <<c, n>> \notin got[d]
    <3>. SUFFICES ASSUME NEW m \in ms, <<c, m[2]>> \in got[d] PROVE FALSE
      BY <1>12
    <3>1. CASE Unallocated(c) /\ ms = {}
      BY <3>1
    <3>2. CASE c = request[s].conn /\ \A k \in ms : k[2] > request[s].since
      <4>1. m[2] <= device[d].last /\ m[2] > device[d].last
        BY <2>1, <2>3, <3>2
      <4>2. m[2] \in Nat
        OBVIOUS
      <4>. QED
        BY <2>2, <4>1, <4>2
    <3>. QED
      BY <1>5, <3>1, <3>2
  <2>5. c # device[d].conn => \A p \in got[d] : p[1] # c
    BY <1>5, <2>1, <2>3
  <2>. QED
    BY <1>2, <1>9, <2>4, <2>5 DEF OnSocket
<1>19. DeliveryType'
  <2>1. missed' \in [Sockets -> SUBSET (Nat \X Nat)]
    BY <1>0, <1>5 DEF DeliveryType
  <2>. QED
    BY <1>0, <1>2, <2>1 DEF DeliveryType
<1>. QED
  BY <1>8, <1>10, <1>13, <1>15, <1>16, <1>17, <1>18, <1>19 DEF Delivery
\* The actor ends, closes, or writes a frame that no device gets.
LEMMA ActorDrops ==
    ASSUME SessionInv, SessionInv', Delivery, StreamsGrow, NEW s \in Sockets, actor[s] # "off",
           (out[s] # <<>> /\ out' = [out EXCEPT ![s] = Tail(@)]) \/ out' = [out EXCEPT ![s] = <<>>],
           actor' = actor \/ \E a \in ActorStates \ {"off"} : actor' = [actor EXCEPT ![s] = a],
           UNCHANGED <<hand, main, forward, request, conn, missed>>
    PROVE  /\ Onward /\ Moved(s) /\ (out[s] # <<>> => ~HelloPending(s)')
           /\ \A u \in Sockets \ {s} : SameSocket(u)
           /\ device' = device /\ got' = got => Delivery'
<1>0. /\ StoreInv /\ StoreInv' /\ DeliveryType
      /\ actor \in [Sockets -> ActorStates]
      /\ \A u \in Sockets : /\ main[u] \in Early => forward[u] = "off"
                            /\ forward[u] = "on" => main[u] \in {"snapshot", "run"}
  BY DEF SessionInv, Attachment, Delivery, HelloFirst
<1>1. actor'[s] # "off" /\ \A u \in Sockets : actor'[u] = "off" => actor[u] = "off"
  BY <1>0
<1>2. Onward
  BY <1>0, <1>1 DEF Onward, Early
<1>3. out \in [Sockets -> Seq(Frame)]
  BY <1>0 DEF DeliveryType
<1>4. /\ out' \in [Sockets -> Seq(Frame)] /\ \A u \in Sockets \ {s} : out'[u] = out[u]
      /\ \/ out[s] # <<>> /\ out'[s] = Tail(out[s])
         \/ out'[s] = <<>>
  <2>1. CASE out[s] # <<>> /\ out' = [out EXCEPT ![s] = Tail(@)]
    <3>1. Tail(out[s]) \in Seq(Frame)
      BY <1>3, <2>1, TailFacts
    <3>. QED
      BY <1>3, <2>1, <3>1
  <2>2. CASE out' = [out EXCEPT ![s] = <<>>]
    BY <1>3, <2>2, EmptyQueue
  <2>. QED
    BY <2>1, <2>2
<1>5. \A u \in Sockets \ {s} : SameSocket(u)
  BY <1>4 DEF SameSocket
<1>6. Moved(s) /\ (out[s] # <<>> => ~HelloPending(s)')
  BY <1>1, <1>2, <1>4, DropMoved
<1>7. ASSUME device' = device, got' = got PROVE Delivery'
  <2>1. DeliveryType'
    BY <1>0, <1>4, <1>7 DEF DeliveryType
  <2>. QED
    BY <1>0, <1>2, <1>5, <1>6, <1>7, <2>1, OneMoves
<1>. QED
  BY <1>2, <1>5, <1>6, <1>7

\* A device receives the first frame of its socket's queue.
LEMMA DeliverStep ==
    ASSUME SessionInv, SessionInv', Delivery, StreamsGrow, NEW s \in Sockets,
           actor[s] = "up", out[s] # <<>>, out' = [out EXCEPT ![s] = Tail(@)], Head(out[s]).kind # "close",
           Keeps(s, Head(out[s])), UNCHANGED <<StoreVars, actor, main, forward, request, conn, missed>>
    PROVE  Delivery'
<1>. DEFINE f == Head(out[s])
            c == conn[s]
<1>0. /\ StoreInv /\ StoreInv' /\ DeliveryType /\ c \in Conns /\ hand' = hand /\ stream' = stream
      /\ UnderWayOnce(s) /\ GivenOut(s) /\ main[s] \notin Early
  BY DEF SessionInv, Attachment, Delivery, HelloFirst, StoreVars
<1>1. Onward /\ Moved(s) /\ ~HelloPending(s)' /\ \A u \in Sockets \ {s} : SameSocket(u)
  BY <1>0, ActorDrops
<1>2. \A u \in Sockets : Moved(u)
  BY <1>1, SameMoved
<1>3. \A u \in Sockets : UnderWayOnce(u)' /\ HelloFirst(u)' /\ GivenOut(u)'
  BY <1>0, <1>1, <1>2, SocketMoved
<1>4. out[s] \in Seq(Frame) /\ out'[s] = Tail(out[s])
  BY <1>0 DEF DeliveryType
<1>5. /\ f \in Frame /\ Tail(out[s]) \in Seq(Frame)
      /\ f.kind = "event" /\ f.seq > 0 => f.seq \in Sent(out[s]) /\ f.seq \notin Sent(Tail(out[s]))
      /\ f.kind = "hello" => HelloPending(s)
  BY <1>0, <1>4, TailFacts DEF UnderWayOnce, HelloPending
<1>6. /\ device' = [d \in Devices |->
             IF device[d].socket # s THEN device[d]
             ELSE CASE f.kind = "hello" -> [device[d] EXCEPT !.conn = c, !.last = IF device[d].conn = c THEN @ ELSE 0]
                    [] f.kind = "event" -> [device[d] EXCEPT !.last = IF f.seq > @ THEN f.seq ELSE @]]
      /\ got' = [d \in Devices |-> IF device[d].socket = s /\ f.kind = "event" /\ f.seq > 0
                                   THEN got[d] \cup {<<c, f.seq>>} ELSE got[d]]
  BY DEF Keeps
<1>. HIDE DEF f, c
<1>7. f.kind \in {"hello", "event"} /\ f.seq \in Nat
  BY <1>5 DEF Frame, f
<1>. DEFINE Device == [socket : Sockets \cup {NoSocket}, conn : Conns \cup {NoConn}, last : Nat]
<1>8. \A d \in Devices : device[d] \in Device /\ got[d] \in SUBSET (Conns \X Nat)
  BY <1>0 DEF DeliveryType
<1>. HIDE DEF Device
<1>9. ASSUME NEW d \in Devices, device[d].socket = s, f.kind = "hello"
      PROVE  /\ device'[d] \in Device /\ device'[d].socket = s /\ device'[d].conn = c
             /\ device[d].conn = c => device'[d].last = device[d].last
             /\ got'[d] = got[d]
  <2>. DEFINE l == IF device[d].conn = c THEN device[d].last ELSE 0
  <2>1. device'[d] = [socket |-> s, conn |-> c, last |-> l] /\ got'[d] = got[d]
    BY <1>6, <1>8, <1>9 DEF Device
  <2>2. l \in Nat /\ (device[d].conn = c => l = device[d].last)
    BY <1>8 DEF Device
  <2>. HIDE DEF l
  <2>. QED
    BY <1>0, <2>1, <2>2 DEF Device
<1>10. ASSUME NEW d \in Devices, device[d].socket = s, f.kind = "event"
       PROVE  /\ device'[d] \in Device /\ device'[d].socket = s /\ device'[d].conn = device[d].conn
              /\ device'[d].last >= device[d].last /\ device'[d].last >= f.seq
              /\ got'[d] = IF f.seq > 0 THEN got[d] \cup {<<c, f.seq>>} ELSE got[d]
  <2>. DEFINE l == IF f.seq > device[d].last THEN f.seq ELSE device[d].last
  <2>1. /\ device'[d] = [socket |-> s, conn |-> device[d].conn, last |-> l]
        /\ got'[d] = IF f.seq > 0 THEN got[d] \cup {<<c, f.seq>>} ELSE got[d]
    BY <1>6, <1>8, <1>10 DEF Device
  <2>2. l \in Nat /\ l >= f.seq /\ l >= device[d].last
    BY <1>7, <1>8 DEF Device
  <2>3. device[d].conn \in Conns \cup {NoConn}
    BY <1>8 DEF Device
  <2>. HIDE DEF l
  <2>. QED
    BY <2>1, <2>2, <2>3 DEF Device
<1>11. ASSUME NEW d \in Devices, device[d].socket # s PROVE device'[d] = device[d] /\ got'[d] = got[d]
  BY <1>6, <1>11
<1>12. \A d \in Devices : device'[d].socket = device[d].socket
  BY <1>7, <1>9, <1>10, <1>11
<1>13. UnderWay(s)' \subseteq UnderWay(s) /\ UnderWay(s) \subseteq Nat
  <2>1. stream[c].sequence \in Nat
    BY <1>0 DEF StoreInv, StoreTypeOK, ConnectionState
  <2>2. UnderWay(s) \subseteq Nat
    BY <1>0, NumbersTyped
  <2>. QED
    BY <1>0, <1>1, <2>1, <2>2 DEF Moved, c
<1>14. f.kind = "event" /\ f.seq > 0 => f.seq \in UnderWay(s) /\ f.seq \notin UnderWay(s)'
  <2>1. Taken(s)' = Taken(s) /\ ToReplay(s)' = ToReplay(s) /\ Sent(out[s])' = Sent(Tail(out[s]))
    BY <1>0, <1>4 DEF Taken, Holding, ToReplay, Sent, Numbered
  <2>. QED
    BY <1>0, <1>5, <2>1 DEF UnderWay, UnderWayOnce
<1>15. ASSUME NEW d \in Devices, device[d].socket = s PROVE Received(d)' /\ OnSocket(d, s)'
  <2>0. Received(d) /\ OnSocket(d, s)
    BY <1>15 DEF Delivery
  <2>1. ~Unallocated(c) /\ \A n \in UnderWay(s) : n < stream[c].sequence
    BY <1>0 DEF GivenOut, c
  <2>2. main'[s] \notin {"new", "opened"} /\ ~HelloPending(s)' /\ conn'[s] = c
    BY <1>0, <1>1 DEF Early, c
  <2>3. \A n \in UnderWay(s) : <<c, n>> \notin got[d]
    BY <2>0 DEF OnSocket, c
  <2>4. CASE f.kind = "hello"
    <3>1. device'[d].conn = c /\ got'[d] = got[d] /\ (device[d].conn = c => device'[d].last = device[d].last)
      BY <1>9, <1>15, <2>4
    <3>2. c # device[d].conn => \A p \in got[d] : p[1] # c
      BY <1>5, <2>0, <2>4 DEF OnSocket, c
    <3>3. Received(d)'
      BY <1>0, <2>0, <2>1, <3>1, <3>2 DEF Received, Unallocated
    <3>4. OnSocket(d, s)'
      BY <1>13, <2>2, <2>3, <3>1 DEF OnSocket
    <3>. QED
      BY <3>3, <3>4
  <2>5. CASE f.kind = "event"
    <3>1. /\ device'[d].conn = device[d].conn /\ device'[d].last >= device[d].last /\ device'[d].last >= f.seq
          /\ device[d].last \in Nat /\ device'[d].last \in Nat
      BY <1>8, <1>10, <1>15, <2>5 DEF Device
    <3>2. \A p \in got'[d] : p \in got[d] \/ (p = <<c, f.seq>> /\ f.seq > 0)
      BY <1>10, <1>15, <2>5
    <3>3. \A p \in got[d] : p[2] \in Nat
      BY <1>8
    <3>4. Received(d)'
      <4>1. \A p \in got'[d] : stream'[p[1]].user # NoUser /\ p[2] < stream'[p[1]].sequence
        BY <1>0, <1>14, <2>0, <2>1, <2>5, <3>2 DEF Received, Unallocated
      <4>2. \A p \in got'[d] : p[1] = device'[d].conn => p[2] <= device'[d].last
        BY <1>7, <2>0, <3>1, <3>2, <3>3 DEF Received
      <4>3. device'[d].conn \in Conns => stream'[device'[d].conn].user # NoUser
        BY <1>0, <2>0, <3>1 DEF Received, Unallocated
      <4>. QED
        BY <4>1, <4>2, <4>3 DEF Received, Unallocated
    <3>5. \A n \in UnderWay(s)' : <<c, n>> \notin got'[d]
      BY <1>13, <1>14, <2>3, <2>5, <3>2
    <3>6. OnSocket(d, s)'
      BY <2>2, <3>5 DEF OnSocket
    <3>. QED
      BY <3>4, <3>6
  <2>. QED
    BY <1>7, <2>4, <2>5
<1>16. ASSUME NEW d \in Devices, device[d].socket # s PROVE Received(d)'
  BY <1>0, <1>11, <1>16, DeviceKept
<1>17. \A d \in Devices, u \in Sockets : device'[d].socket = u => OnSocket(d, u)'
  <2>1. ASSUME NEW d \in Devices, NEW u \in Sockets, device'[d].socket = u, u # s PROVE OnSocket(d, u)'
    <3>1. OnSocket(d, u) /\ device[d].socket # s
      BY <1>12, <2>1 DEF Delivery
    <3>. QED
      BY <1>0, <1>1, <1>2, <1>11, <3>1, OnSocketMoved
  <2>. QED
    BY <1>12, <1>15, <2>1
<1>18. DeliveryType'
  <2>1. device' \in [Devices -> Device]
    <3>1. \A d \in Devices : device'[d] \in Device
      BY <1>7, <1>8, <1>9, <1>10, <1>11
    <3>. QED
      BY <1>6, <3>1
  <2>2. got' \in [Devices -> SUBSET (Conns \X Nat)]
    <3>3. <<c, f.seq>> \in Conns \X Nat
      BY <1>0, <1>7
    <3>2. \A d \in Devices : got'[d] = got[d] \/ got'[d] = got[d] \cup {<<c, f.seq>>}
      BY <1>6
    <3>1. \A d \in Devices : got'[d] \in SUBSET (Conns \X Nat)
      BY <1>8, <3>2, <3>3
    <3>. QED
      BY <1>6, <3>1
  <2>3. out' \in [Sockets -> Seq(Frame)]
    BY <1>0, <1>5 DEF DeliveryType
  <2>. QED
    BY <1>0, <2>1, <2>2, <2>3 DEF DeliveryType, Device
<1>. QED
  BY <1>3, <1>15, <1>16, <1>17, <1>18 DEF Delivery

LEMMA DeliverySteps == SessionInv /\ SessionInv' /\ Delivery /\ [SessionNext]_SessionVars => Delivery'
<1>. SUFFICES ASSUME SessionInv, SessionInv', Delivery, [SessionNext]_SessionVars PROVE Delivery'
  OBVIOUS
<1>0. /\ StoreInv /\ StoreInv' /\ StoreTypeOK /\ Attachment /\ DeliveryType /\ DeliveryType
      /\ actor \in [Sockets -> ActorStates]
  BY DEF SessionInv, StoreInv, Attachment, Delivery
<1>1. StreamsGrow
  <2>1. [StoreNext]_StoreVars
    BY <1>0, SessionStoreStep DEF Tick, StoreNext
  <2>. QED
    BY <1>0, <2>1, StepsGrow
<1>2. CASE QuietStep
  <2>1. Quietly
    BY <1>1, <1>2, QuietSteps
  <2>2. \A s \in Sockets : SameSocket(s)
    BY <2>1 DEF Quietly, SameSocket
  <2>3. \A s \in Sockets : Moved(s)
    BY <2>1, <2>2, SameMoved DEF Quietly
  <2>. QED
    BY <1>0, <2>1, <2>3, KeepsDelivery DEF Quietly
<1>3. ASSUME NEW s \in Sockets,
             \/ UsernameFails(s) \/ AskInitialLoad(s) \/ TokenExpires(s) \/ Hello(s) \/ ReplayOne(s)
             \/ \E e \in Events : TakeSnapshot(s, e)
             \/ TakeEvent(s) \/ \E r \in Roles : SendTaken(s, r)
      PROVE  Delivery'
  BY <1>1, <1>3, SendingSteps
<1>4. ASSUME NEW s \in Sockets, NEW c \in Conns, Attach(s, c) PROVE Delivery'
  BY <1>1, <1>4, AttachStep
<1>5. ASSUME NEW d \in Devices, Leave(d) \/ \E s \in Sockets : Connect(d, s) PROVE Delivery'
  BY <1>1, <1>5, DeviceSteps
<1>6. ASSUME NEW s \in Sockets, ActorWrite(s) PROVE Delivery'
  <2>0. /\ actor[s] = "up" /\ out[s] # <<>> /\ out' = [out EXCEPT ![s] = Tail(@)] /\ Head(out[s]).kind # "close"
        /\ UNCHANGED <<StoreVars, main, forward, request, conn, missed>>
    BY <1>6 DEF ActorWrite
  <2>1. CASE Keeps(s, Head(out[s])) /\ UNCHANGED <<actor, link>>
    BY <1>1, <2>0, <2>1, DeliverStep
  <2>2. CASE UNCHANGED ClientVars /\ (actor' = actor \/ Stop(s, FALSE))
    <3>1. actor' = actor \/ \E a \in ActorStates \ {"off"} : actor' = [actor EXCEPT ![s] = a]
      BY <2>2 DEF Stop, ActorStates
    <3>. QED
      BY <1>1, <2>0, <2>2, <3>1, ActorDrops DEF StoreVars, ClientVars
  <2>. QED
    BY <1>6, <2>1, <2>2 DEF ActorWrite
<1>7. ASSUME NEW s \in Sockets, ActorClose(s) PROVE Delivery'
  <2>1. \E a \in ActorStates \ {"off"} : actor' = [actor EXCEPT ![s] = a]
    BY <1>7 DEF ActorClose, Stop, ActorStates
  <2>. QED
    BY <1>1, <1>7, <2>1, ActorDrops DEF ActorClose, StoreVars, ClientVars
<1>8. ASSUME NEW s \in Sockets, ActorFinish(s) PROVE Delivery'
  <2>1. \E a \in ActorStates \ {"off"} : actor' = [actor EXCEPT ![s] = a]
    BY <1>8 DEF ActorFinish, ActorStates
  <2>2. hand' = hand
    BY <1>8 DEF ActorFinish, Disconnect
  <2>. QED
    BY <1>1, <1>8, <2>1, <2>2, ActorDrops DEF ActorFinish
<1>9. ASSUME NEW s \in Sockets, MainStep(s) PROVE Delivery'
  BY <1>2, <1>3, <1>4, <1>9 DEF MainStep, QuietStep, Roles
<1>10. ASSUME NEW s \in Sockets, ForwardStep(s) PROVE Delivery'
  BY <1>3, <1>10 DEF ForwardStep, Roles
<1>11. ASSUME NEW s \in Sockets, ActorStep(s) PROVE Delivery'
  BY <1>2, <1>6, <1>7, <1>8, <1>11 DEF ActorStep, QuietStep
<1>12. CASE Environment
  BY <1>2, <1>3, <1>5, <1>12 DEF Environment, QuietStep
<1>. QED
  BY <1>2, <1>9, <1>10, <1>11, <1>12 DEF SessionNext, QuietStep

LEMMA DeliveryInit == SessionInit => Delivery
<1>. SUFFICES ASSUME SessionInit PROVE Delivery
  OBVIOUS
<1>1. ASSUME NEW s \in Sockets
      PROVE  /\ out[s] = <<>> /\ missed[s] = {} /\ Holding(s) = {} /\ UnderWay(s) = {} /\ Taken(s) = {}
             /\ UnderWayOnce(s) /\ HelloFirst(s)
             /\ main[s] = "new" /\ conn[s] = NoConn /\ forward[s] = "off"
  <2>1. out[s] = <<>> /\ missed[s] = {} /\ main[s] = "new" /\ conn[s] = NoConn /\ forward[s] = "off"
    BY DEF SessionInit
  <2>2. Holding(s) = {}
    BY SessionAssumption DEF SessionInit, StoreInit, Holding, Roles, SessionTasks
  <2>3. ToReplay(s) = {} /\ Taken(s) = {}
    BY <2>1, <2>2 DEF ToReplay, Taken
  <2>. QED
    BY <2>1, <2>2, <2>3, EmptyQueue DEF UnderWay, UnderWayOnce, HelloFirst
<1>2. \A s \in Sockets : GivenOut(s)
  BY <1>1, SessionAssumption DEF GivenOut
<1>3. \A d \in Devices : device[d] = [socket |-> NoSocket, conn |-> NoConn, last |-> 0] /\ got[d] = {}
  BY DEF SessionInit
<1>4. \A d \in Devices : Received(d)
  BY <1>3, SessionAssumption DEF Received
<1>5. \A d \in Devices, s \in Sockets : device[d].socket # s
  BY <1>3, SessionAssumption
<1>6. DeliveryType
  BY EmptyQueue DEF SessionInit, DeliveryType, Request
<1>. QED
  BY <1>1, <1>2, <1>4, <1>5, <1>6 DEF Delivery

(***************************************************************************)
(* However sockets of a stream overlap, replay and forward, a numbered     *)
(* message reaches a device at most once: get_missed_messages cuts the     *)
(* replay at the number the client has, and the tasks that number events   *)
(* take a number that nobody else queues.                                  *)
(***************************************************************************)
THEOREM NoSecondDeliveryAlways == SessionSpec => []NoSecondDelivery
<1>1. Delivery => NoSecondDelivery
  <2>. SUFFICES ASSUME Delivery, NEW d \in Devices, NEW s \in Sockets, device[d].socket = s,
                       NEW i \in 1 .. Len(out[s]), out[s][i].kind = "event", out[s][i].seq > 0
                PROVE  /\ <<conn[s], out[s][i].seq>> \notin got[d]
                       /\ \A j \in 1 .. Len(out[s]) :
                             out[s][j].kind = "event" /\ out[s][j].seq = out[s][i].seq => i = j
    BY DEF NoSecondDelivery
  <2>1. OnSocket(d, s) /\ SentOnce(out[s])
    BY DEF Delivery, UnderWayOnce
  <2>2. i \in Numbered(out[s])
    BY DEF Numbered
  <2>3. out[s][i].seq \in UnderWay(s)
    BY <2>2 DEF UnderWay, Sent
  <2>. QED
    BY <2>1, <2>2, <2>3 DEF OnSocket, SentOnce, Numbered
<1>2. SessionSpec => []Delivery
  <2>1. SessionInit => Delivery
    BY DeliveryInit
  <2>2. SessionInv /\ SessionInv' /\ Delivery /\ [SessionNext]_SessionVars => Delivery'
    BY DeliverySteps
  <2>. QED
    BY <2>1, <2>2, SessionInvariant, PTL DEF SessionSpec
<1>. QED
  BY <1>1, <1>2, PTL
=============================================================================
