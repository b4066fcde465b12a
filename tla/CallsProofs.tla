----------------------------- MODULE CallsProofs -----------------------------
(***************************************************************************)
(* Proofs about Calls on one node, for any number of users, calls, tasks   *)
(* and requests: as long as no two tasks overlap and nothing fails, the    *)
(* pieces of a call agree between two requests and the post of an ended    *)
(* call is marked.                                                         *)
(*                                                                         *)
(* With one node its local copy is what Redis will hold once the commands  *)
(* of the task that runs are carried out.  The inductive invariant says in *)
(* which phase that task has the call: it is about to create it, the call  *)
(* lives, it is about to drop it, or to remove its SFU and mark its post;  *)
(* and what its list of instructions then holds.                           *)
(***************************************************************************)
EXTENDS Calls, FiniteSetTheorems, SequenceTheorems, WellFoundedInduction, TLAPS

\* The deployment the theorems are about: the copy of a second node brings an ended call back.
OneNode == \A n, m \in Nodes : n = m

-----------------------------------------------------------------------------
(* Instructions and their arguments. *)

UserOps == [c : CallIds, do : {"remove", "reconcile", "host", "ws_add"}, u : Users, v : {None}]
CreateOps == [c : CallIds, do : {"create"}, u : Users, v : {None, NamedThread}]
SessionOps == [c : CallIds, do : {"add", "sfu_add", "sfu_remove"}, u : Users, v : SessionKinds]
SharingOps == [c : CallIds, do : {"sharing"}, u : Users, v : BOOLEAN]
SharerOps == [c : CallIds, do : {"sharer"}, u : Users \cup {None}, v : {None}]
PlainOps == [c : CallIds, do : {"touch", "state", "timer", "post", "reread", "last_read", "sfu_drop"}, u : {None}, v : {None}]
NumberOps == [c : CallIds, do : {"thread", "count", "mark"}, u : {None}, v : Nat]
DropOps == [c : CallIds, do : {"drop"}, u : {None}, v : Nat \cup {None}]
HostOps == [c : CallIds, do : {"authorize"}, u : Users, v : HostRequests]
Ops == UserOps \cup CreateOps \cup SessionOps \cup SharingOps \cup SharerOps \cup PlainOps \cup NumberOps \cup DropOps \cup HostOps

OpsOf(l) == {l[i] : i \in 1..Len(l)}
Has(l, do) == \E o \in OpsOf(l) : o.do = do

\* What a task does while its call lives.
Living == {"remove", "reconcile", "host", "ws_add", "add", "sfu_add", "sfu_remove", "sharing", "sharer", "touch", "state",
           "timer", "post", "reread", "thread", "count", "authorize"}
\* What may come before the thread post of a new call: none of these looks at the thread.
Early == {"ws_add", "add", "sfu_add", "sfu_remove"}

\* The list creates the thread post, once.
Awaiting(l) ==
    \E k \in 1..Len(l) :
       /\ l[k].do = "post"
       /\ \A j \in 1..Len(l) : (j < k => l[j].do \in Early) /\ (j > k => l[j].do # "post")

-----------------------------------------------------------------------------
(* The phases of call d under task k, with Redis R, the SFUs S and the posts P. *)

\* A call that the index does not name and nobody is about to create.
Gone(c, R, S, P) ==
    /\ R[c] = None
    /\ \A n \in Nodes : S[n][c] = None
    /\ \A i \in DOMAIN P[c] : P[c][i] = "ended"

\* Only a participant shares the screen, and whoever participates has joined.
CallOK(call) ==
    /\ call \in Call
    /\ call.sharer \in In(call) \cup {None}
    /\ \A u \in In(call) : \E i \in 1..Len(call.joined) : call.joined[i] = u

\* The call knows its one post, or has the thread that a client named and no post.
Bound(call, p) == (call.thread = 1 /\ Len(p) = 1) \/ (call.thread = NamedThread /\ p = <<>>)

\* Or the post is still to be created, or its id to be stored.
Threaded(l, call, p) ==
    \/ Bound(call, p) /\ ~Has(l, "post") /\ ~Has(l, "thread")
    \/ call.thread = None /\ p = <<>> /\ Awaiting(l) /\ ~Has(l, "thread")
    \/ /\ call.thread = None /\ Len(p) = 1 /\ l # <<>> /\ Head(l).do = "thread" /\ Head(l).v = 1
       /\ ~Has(l, "post") /\ ~Has(Tail(l), "thread")

\* Whom the list makes the sharer is in the call, and is not removed before.
Sharers(l, call) ==
    \A o \in OpsOf(l) : o.do = "sharer" => o.u = None \/ (o.u \in In(call) /\ ~Has(l, "remove"))

Does(l, d) == \A o \in OpsOf(l) : o.c = d /\ o.do \in Living

Lives(d, k, R, ch, P) ==
    /\ ch = d /\ CallOK(R[d])
    /\ Does(k.todo, d)
    /\ Threaded(k.todo, R[d], P[d])
    /\ Sharers(k.todo, R[d])
    /\ k.value \in {None, R[d]}
    /\ Has(k.todo, "authorize") => k.snap \in Call

\* The rest of the list of a task that creates call d with thread th.
Follows(l, d, th) ==
    /\ Does(l, d)
    /\ IF th = None THEN Awaiting(l) ELSE th = NamedThread /\ ~Has(l, "post")
    /\ ~Has(l, "thread") /\ ~Has(l, "sharer") /\ ~Has(l, "authorize")

Starts(d, k, R, ch, S, P) ==
    /\ Head(k.todo).do = "create" /\ Head(k.todo).c = d
    /\ ch = None /\ Gone(d, R, S, P) /\ P[d] = <<>>
    /\ Follows(Tail(k.todo), d, Head(k.todo).v)

Closes(d, k, R, ch, P) ==
    /\ ch = d /\ CallOK(R[d]) /\ Bound(R[d], P[d])
    /\ Head(k.todo).c = d
    /\ Head(k.todo).do = "last_read" \/ (Head(k.todo).do = "drop" /\ Head(k.todo).v = R[d].thread)

\* The post i of a removed call is to be marked.
Ending(d, i, P) == (i = 1 /\ Len(P[d]) = 1) \/ (i = NamedThread /\ P[d] = <<>>)

Marks(d, k, R, ch, S, P) ==
    /\ ch = None /\ R[d] = None
    /\ \E i \in {1, NamedThread} :
          /\ Ending(d, i, P)
          /\ \/ k.todo = <<Op(d, "sfu_drop", None, None), Op(d, "mark", None, i)>>
             \/ k.todo = <<Op(d, "mark", None, i)>> /\ \A n \in Nodes : S[n][d] = None

InPhase(d, k, R, ch, S, P) ==
    \/ Lives(d, k, R, ch, P)
    \/ k.todo # <<>> /\ (Starts(d, k, R, ch, S, P) \/ Closes(d, k, R, ch, P) \/ Marks(d, k, R, ch, S, P))

Good(k, R, ch, S, P) ==
    \/ k.todo = <<>> /\ ch = None /\ \A c \in CallIds : Gone(c, R, S, P)
    \/ \E d \in CallIds : InPhase(d, k, R, ch, S, P) /\ \A c \in CallIds \ {d} : Gone(c, R, S, P)

\* What Redis holds once the commands of a write, from io on, are carried out.
AfterRedis(io, R) ==
    IF io = None THEN R
    ELSE IF io.at = "set" THEN [R EXCEPT ![io.c] = io.call]
    ELSE IF io.at \in {"unpoint", "unset"} THEN [R EXCEPT ![io.c] = None]
    ELSE R

AfterChannel(io, ch) ==
    IF io = None THEN ch
    ELSE IF io.at \in {"set", "point"} THEN io.c
    ELSE IF io.at = "unpoint" THEN None
    ELSE ch

AfterActive(io, A) ==
    IF io = None THEN A
    ELSE IF io.at \in {"set", "point", "list"} THEN A \cup {io.c}
    ELSE A \ {io.c}

Persists == [at : {"set", "point", "list"}, c : CallIds, call : Call, old : Call \cup {None}]
Removes == [at : {"unpoint", "unset", "unlist"}, c : CallIds, call : {None}, old : {None}]

IsTask(k) ==
    /\ k = [node |-> k.node, http |-> k.http, snap |-> k.snap, value |-> k.value, todo |-> k.todo,
            found |-> k.found, io |-> k.io]
    /\ k.todo \in Seq(Ops)
    /\ k.io \in Persists \cup Removes \cup {None}
    /\ ~IsDone(k) => k.node \in Nodes

Stores(R, ch) == R \in [CallIds -> Call \cup {None}] /\ ch \in CallIds \cup {None}

CallsType ==
    /\ Stores(redis, channel)
    /\ DOMAIN local = Nodes
    /\ DOMAIN sfu = Nodes /\ \A n \in Nodes : DOMAIN sfu[n] = CallIds
    /\ posts \in [CallIds -> Seq({"open", "ended"})]
    /\ DOMAIN task = Tasks
    /\ \A t \in Tasks : IsTask(task[t])

\* The nodes have the calls R and the channel's call ch, which are all that is found.
Copied(R, ch, found) ==
    /\ Stores(R, ch)
    /\ \A n \in Nodes : local[n] = [calls |-> R, index |-> ch]
    /\ \A p \in found : p = <<ch, R[ch]>> /\ ch # None

\* Redis and the nodes have the same calls once the commands of k are carried out.
Agreed(k) ==
    /\ Copied(AfterRedis(k.io, redis), AfterChannel(k.io, channel), k.found)
    /\ AfterActive(k.io, active) = {c \in CallIds : AfterRedis(k.io, redis)[c] # None}
    /\ Good(k, AfterRedis(k.io, redis), AfterChannel(k.io, channel), sfu, posts)

\* At most one task runs.
Peaceful ==
    /\ CallsType
    /\ \A t, x \in Tasks : Busy(t) /\ Busy(x) => t = x
    /\ \A t \in Tasks : Busy(t) => Agreed(task[t])
    /\ (\A t \in Tasks : ~Busy(t)) => Agreed(Idle)

CallsInv == overlap \in Nat /\ faults \in Nat /\ (overlap = 0 /\ faults = 0 => Peaceful)

-----------------------------------------------------------------------------
(* Lists. *)

\* The instructions of a list are its head and those of its tail.
LEMMA OpsPop ==
    ASSUME NEW l \in Seq(Ops), l # <<>>
    PROVE  Head(l) \in Ops /\ Tail(l) \in Seq(Ops) /\ OpsOf(l) = {Head(l)} \cup OpsOf(Tail(l))
<1>1. Head(l) = l[1] /\ Tail(l) \in Seq(Ops) /\ Len(l) \in Nat /\ Len(l) > 0 /\ Len(Tail(l)) = Len(l) - 1
      /\ l[1] \in Ops
  OBVIOUS
<1>2. \A i \in 1..Len(Tail(l)) : Tail(l)[i] = l[i + 1]
  OBVIOUS
<1>3. \A i \in 1..Len(l) : i = 1 \/ (i - 1 \in 1..Len(Tail(l)) /\ l[i] = Tail(l)[i - 1])
  BY <1>1, <1>2
<1>4. \A i \in 1..Len(Tail(l)) : i + 1 \in 1..Len(l)
  BY <1>1
<1>5. \A o \in OpsOf(l) : o \in {Head(l)} \cup OpsOf(Tail(l))
  BY <1>1, <1>3 DEF OpsOf
<1>6. \A o \in OpsOf(Tail(l)) : o \in OpsOf(l)
  BY <1>2, <1>4 DEF OpsOf
<1>7. Head(l) \in OpsOf(l)
  BY <1>1 DEF OpsOf
<1> QED
  BY <1>1, <1>5, <1>6, <1>7

\* A list put before another one.
LEMMA OpsConcat ==
    ASSUME NEW p \in Seq(Ops), NEW r \in Seq(Ops)
    PROVE  p \o r \in Seq(Ops) /\ OpsOf(p \o r) = OpsOf(p) \cup OpsOf(r)
<1>1. p \o r \in Seq(Ops) /\ Len(p \o r) = Len(p) + Len(r) /\ Len(p) \in Nat /\ Len(r) \in Nat
  OBVIOUS
<1>2. \A i \in 1..Len(p) : (p \o r)[i] = p[i] /\ i \in 1..Len(p \o r)
  BY <1>1
<1>3. \A i \in 1..Len(r) : (p \o r)[i + Len(p)] = r[i] /\ i + Len(p) \in 1..Len(p \o r)
  BY <1>1
<1>4. \A i \in 1..Len(p \o r) : i \in 1..Len(p) \/ (i - Len(p) \in 1..Len(r) /\ (p \o r)[i] = r[i - Len(p)])
  BY <1>1
<1>5. \A o \in OpsOf(p \o r) : o \in OpsOf(p) \cup OpsOf(r)
  BY <1>2, <1>4 DEF OpsOf
<1>6. \A o \in OpsOf(p) \cup OpsOf(r) : o \in OpsOf(p \o r)
  BY <1>2, <1>3 DEF OpsOf
<1> QED
  BY <1>1, <1>5, <1>6

LEMMA OpsCons ==
    ASSUME NEW a \in Ops, NEW r \in Seq(Ops)
    PROVE  /\ <<a>> \o r \in Seq(Ops) /\ <<a>> \o r # <<>>
           /\ Head(<<a>> \o r) = a /\ Tail(<<a>> \o r) = r
           /\ OpsOf(<<a>> \o r) = {a} \cup OpsOf(r)
<1>1. <<a>> \o r \in Seq(Ops) /\ Len(<<a>> \o r) = 1 + Len(r) /\ Len(r) \in Nat
  OBVIOUS
<1>2. <<a>> \o r # <<>>
  BY <1>1
<1>3. Head(<<a>> \o r) = a
  BY <1>1
<1>4. Tail(<<a>> \o r) = r
  BY <1>1
<1> QED
  BY <1>1, <1>2, <1>3, <1>4, OpsPop

LEMMA OpsNone == OpsOf(<<>>) = {}
BY DEF OpsOf

\* The lists that an instruction leaves in its place.
LEMMA OpsTwo ==
    ASSUME NEW a \in Ops, NEW b \in Ops
    PROVE  <<a, b>> \in Seq(Ops) /\ OpsOf(<<a, b>>) = {a, b} /\ Head(<<a, b>>) = a /\ Tail(<<a, b>>) = <<b>>
BY DEF OpsOf

\* The thread post stays to be created while other instructions are carried out or put before it.
LEMMA AwaitingPop ==
    ASSUME NEW l \in Seq(Ops), l # <<>>, Awaiting(l)
    PROVE  /\ Head(l).do = "post" => ~Has(Tail(l), "post")
           /\ Head(l).do # "post" => Head(l).do \in Early /\ Awaiting(Tail(l))
<1>1. Head(l) = l[1] /\ Len(l) \in Nat /\ Len(l) > 0 /\ Len(Tail(l)) = Len(l) - 1 /\ Tail(l) \in Seq(Ops)
  OBVIOUS
<1>2. \A i \in 1..Len(Tail(l)) : i + 1 \in 1..Len(l) /\ Tail(l)[i] = l[i + 1]
  BY <1>1
<1>3. PICK k \in 1..Len(l) :
         /\ l[k].do = "post"
         /\ \A j \in 1..Len(l) : (j < k => l[j].do \in Early) /\ (j > k => l[j].do # "post")
  BY DEF Awaiting
<1>4. "post" \notin Early
  BY DEF Early
<1>5. ASSUME Head(l).do = "post" PROVE ~Has(Tail(l), "post")
  <2>1. k = 1
    BY <1>1, <1>3, <1>4, <1>5
  <2>2. \A i \in 1..Len(Tail(l)) : Tail(l)[i].do # "post"
    BY <1>1, <1>2, <1>3, <2>1
  <2>. QED
    BY <2>2 DEF Has, OpsOf
<1>6. ASSUME Head(l).do # "post" PROVE Head(l).do \in Early /\ Awaiting(Tail(l))
  <2>1. k > 1 /\ 1 \in 1..Len(l)
    BY <1>1, <1>3, <1>6
  <2>2. k - 1 \in 1..Len(Tail(l)) /\ Tail(l)[k - 1].do = "post"
    BY <1>1, <1>2, <1>3, <2>1
  <2>3. \A j \in 1..Len(Tail(l)) : (j < k - 1 => Tail(l)[j].do \in Early) /\ (j > k - 1 => Tail(l)[j].do # "post")
    BY <1>1, <1>2, <1>3
  <2>4. Head(l).do \in Early
    BY <1>1, <1>3, <2>1
  <2>. QED
    BY <2>2, <2>3, <2>4 DEF Awaiting
<1>. QED
  BY <1>5, <1>6

LEMMA AwaitingConcat ==
    ASSUME NEW p \in Seq(Ops), NEW r \in Seq(Ops), \A o \in OpsOf(p) : o.do \in Early, Awaiting(r)
    PROVE  Awaiting(p \o r)
<1>1. p \o r \in Seq(Ops) /\ Len(p \o r) = Len(p) + Len(r) /\ Len(p) \in Nat /\ Len(r) \in Nat
  OBVIOUS
<1>2. \A i \in 1..Len(p) : (p \o r)[i] = p[i] /\ p[i].do \in Early
  BY <1>1 DEF OpsOf
<1>3. \A i \in 1..Len(p \o r) : i \in 1..Len(p) \/ (i - Len(p) \in 1..Len(r) /\ (p \o r)[i] = r[i - Len(p)])
  BY <1>1
<1>4. PICK k \in 1..Len(r) :
         /\ r[k].do = "post"
         /\ \A j \in 1..Len(r) : (j < k => r[j].do \in Early) /\ (j > k => r[j].do # "post")
  BY DEF Awaiting
<1>5. k + Len(p) \in 1..Len(p \o r) /\ (p \o r)[k + Len(p)].do = "post"
  BY <1>1, <1>4
<1>6. ASSUME NEW j \in 1..Len(p \o r)
      PROVE  (j < k + Len(p) => (p \o r)[j].do \in Early) /\ (j > k + Len(p) => (p \o r)[j].do # "post")
  <2>1. CASE j \in 1..Len(p)
    BY <1>1, <1>2, <1>4, <2>1
  <2>2. CASE j - Len(p) \in 1..Len(r) /\ (p \o r)[j] = r[j - Len(p)]
    BY <1>1, <1>4, <2>2
  <2>. QED
    BY <1>3, <2>1, <2>2
<1>. QED
  BY <1>5, <1>6 DEF Awaiting

-----------------------------------------------------------------------------
(* What the setters do to a call. *)

\* A set of numbers has a least element.
LEMMA LeastNumber == ASSUME NEW I \in SUBSET Nat, I # {} PROVE \E x \in I : \A y \in I : x <= y
<1>1. PICK R : R = OpToRel(<, Nat)
  OBVIOUS
<1>2. IsWellFoundedOn(R, Nat)
  BY <1>1, NatLessThanWellFounded
<1>3. PICK x \in I : \A y \in I : ~(<<y, x>> \in R)
  BY <1>2, WFMin
<1>4. \A y \in I : y < x => <<y, x>> \in R
  BY <1>1 DEF OpToRel
<1>5. x \in Nat /\ \A y \in I : y \in Nat
  OBVIOUS
<1>6. \A y \in I : ~(y < x)
  BY <1>3, <1>4
<1>. QED
  BY <1>5, <1>6

\* The list of those who have joined keeps everybody but the one who is removed.
LEMMA Without ==
    ASSUME NEW s \in Seq(Users), NEW u
    PROVE  /\ RemoveFirst(s, u) \in Seq(Users)
           /\ \A i \in 1..Len(s) : s[i] # u => \E j \in 1..Len(RemoveFirst(s, u)) : RemoveFirst(s, u)[j] = s[i]
<1>1. CASE ~ \E i \in 1..Len(s) : s[i] = u
  BY <1>1 DEF RemoveFirst
<1>2. CASE \E i \in 1..Len(s) : s[i] = u
  <2>1. PICK k : k = SelectInSeq(s, LAMBDA v : v = u)
    OBVIOUS
  <2>2. k = LET I == {i \in 1..Len(s) : s[i] = u} IN IF I # {} THEN Min(I) ELSE 0
    BY <2>1 DEF SelectInSeq
  <2>3. PICK I : I = {i \in 1..Len(s) : s[i] = u}
    OBVIOUS
  <2>4. I \in SUBSET Nat /\ I # {} /\ I \subseteq 1..Len(s) /\ k = Min(I)
    BY <1>2, <2>2, <2>3
  <2>5. \E x \in I : \A y \in I : x =< y
    BY <2>4, LeastNumber
  <2>6. k \in I
    BY <2>4, <2>5 DEF Min
  <2>7. k \in 1..Len(s) /\ s[k] = u
    BY <2>3, <2>6
  <2>8. PICK a, b : a = SubSeq(s, 1, k - 1) /\ b = SubSeq(s, k + 1, Len(s))
    OBVIOUS
  <2>9. /\ a \in Seq(Users) /\ Len(a) = k - 1 /\ \A i \in 1..(k - 1) : a[i] = s[i]
        /\ b \in Seq(Users) /\ Len(b) = Len(s) - k /\ \A i \in 1..(Len(s) - k) : b[i] = s[k + i]
    BY <2>7, <2>8
  <2>10. RemoveFirst(s, u) = a \o b
    BY <1>2, <2>1, <2>8 DEF RemoveFirst, RemoveAt
  <2>11. /\ a \o b \in Seq(Users) /\ Len(a \o b) = Len(s) - 1
         /\ \A i \in 1..(k - 1) : (a \o b)[i] = s[i]
         /\ \A i \in k..(Len(s) - 1) : (a \o b)[i] = s[i + 1]
    <3>0. Len(s) \in Nat /\ k \in Nat /\ Len(a) = k - 1 /\ Len(b) = Len(s) - k /\ a \in Seq(Users) /\ b \in Seq(Users)
      BY <2>7, <2>9
    <3>1. a \o b \in Seq(Users) /\ Len(a \o b) = Len(a) + Len(b) /\ Len(a) + Len(b) = Len(s) - 1
      BY <3>0
    <3>2. \A i \in 1..(k - 1) : (a \o b)[i] = s[i]
      BY <2>7, <2>9, <3>1
    <3>3. ASSUME NEW i \in k..(Len(s) - 1) PROVE (a \o b)[i] = s[i + 1]
      <4>1. i - (k - 1) \in 1..(Len(s) - k) /\ k + (i - (k - 1)) = i + 1 /\ i \in 1..Len(a \o b) /\ ~(i <= Len(a))
        BY <2>7, <3>0, <3>1
      <4>2. (a \o b)[i] = b[i - Len(a)]
        BY <2>9, <3>1, <4>1
      <4>. QED
        BY <2>9, <4>1, <4>2
    <3>. QED
      BY <3>1, <3>2, <3>3
  <2>12. ASSUME NEW i \in 1..Len(s), s[i] # u PROVE \E j \in 1..Len(a \o b) : (a \o b)[j] = s[i]
    <3>1. CASE i < k
      <4>1. i \in 1..(k - 1) /\ i \in 1..(Len(s) - 1)
        BY <2>7, <3>1
      <4>. QED
        BY <2>11, <4>1
    <3>2. CASE i > k
      <4>1. i - 1 \in k..(Len(s) - 1) /\ (i - 1) + 1 = i
        BY <2>7, <3>2
      <4>2. (a \o b)[i - 1] = s[i]
        BY <2>11, <4>1
      <4>3. i - 1 \in 1..Len(a \o b)
        BY <2>7, <2>11, <3>2
      <4>. QED
        BY <4>2, <4>3
    <3>. QED
      BY <2>7, <2>12, <3>1, <3>2
  <2>. QED
    BY <2>10, <2>11, <2>12
<1>. QED
  BY <1>1, <1>2

\* A setter keeps the call in order.  Only remove_participant takes somebody out of it, and only
\* set_thread_id changes its thread.
LEMMA MutatorFacts ==
    ASSUME NEW call, CallOK(call), NEW o \in Ops, o.do \in MutateOps,
           o.do = "sharer" => o.u \in In(call) \cup {None}
    PROVE  /\ CallOK(Mutator(call, o))
           /\ o.do # "remove" => In(call) \subseteq In(Mutator(call, o))
           /\ Mutator(call, o).thread = IF o.do = "thread" THEN o.v ELSE call.thread
<1>. PICK m : m = Mutator(call, o)
  OBVIOUS
<1>0. /\ call \in Call /\ call.sharer \in In(call) \cup {None}
      /\ \A u \in In(call) : \E i \in 1..Len(call.joined) : call.joined[i] = u
  BY DEF CallOK
<1>1. CASE o.do = "add"
  <2>1. o.u \in Users /\ o.v \in SessionKinds
    BY <1>1 DEF Ops, UserOps, CreateOps, SessionOps, SharingOps, SharerOps, PlainOps, NumberOps, DropOps, HostOps
  <2>2. PICK j : j = RemoveFirst(call.joined, o.u)
    OBVIOUS
  <2>3. m = [call EXCEPT !.joined = Append(j, o.u), !.who[o.u] = [session |-> o.v, sharing |-> FALSE]]
    BY <1>1, <2>2 DEF Mutator, add_participant
  <2>4. call.joined \in Seq(Users)
    BY <1>0 DEF Call
  <2>5. j \in Seq(Users) /\ \A i \in 1..Len(call.joined) : call.joined[i] # o.u => \E k \in 1..Len(j) : j[k] = call.joined[i]
    BY <2>2, <2>4, Without
  <2>6. PICK w : w = [call.who EXCEPT ![o.u] = [session |-> o.v, sharing |-> FALSE]]
    OBVIOUS
  <2>6a. [session |-> o.v, sharing |-> FALSE] \in Participant
    BY <2>1 DEF Participant
  <2>6b. [session |-> o.v, sharing |-> FALSE] # None
    BY <2>6a, CallsAssumption
  <2>6c. call.who \in [Users -> Participant \cup {None}]
    BY <1>0 DEF Call
  <2>6d. w \in [Users -> Participant \cup {None}] /\ w[o.u] # None /\ \A u \in Users \ {o.u} : w[u] = call.who[u]
    BY <2>1, <2>6, <2>6a, <2>6b, <2>6c
  <2>6e. m = [call EXCEPT !.joined = Append(j, o.u), !.who = w]
    BY <1>0, <2>3, <2>6 DEF Call
  <2>7. /\ m \in Call /\ m.sharer = call.sharer /\ m.thread = call.thread /\ m.joined = Append(j, o.u)
        /\ m.who[o.u] # None /\ \A u \in Users \ {o.u} : m.who[u] = call.who[u]
    <3>1. Append(j, o.u) \in Seq(Users)
      BY <2>1, <2>5
    <3>. QED
      BY <1>0, <2>6d, <2>6e, <3>1 DEF Call
  <2>8. In(m) = In(call) \cup {o.u}
    BY <2>1, <2>7 DEF In
  <2>9. ASSUME NEW u \in In(m) PROVE \E i \in 1..Len(m.joined) : m.joined[i] = u
    <3>1. Len(m.joined) = Len(j) + 1 /\ Len(j) \in Nat /\ m.joined[Len(j) + 1] = o.u /\ \A k \in 1..Len(j) : m.joined[k] = j[k]
      BY <2>1, <2>5, <2>7
    <3>2. CASE u = o.u
      BY <3>1, <3>2
    <3>3. CASE u # o.u
      <4>1. PICK i \in 1..Len(call.joined) : call.joined[i] = u
        BY <1>0, <2>8, <2>9, <3>3
      <4>2. PICK k \in 1..Len(j) : j[k] = u
        BY <2>5, <3>3, <4>1
      <4>. QED
        BY <3>1, <4>2
    <3>. QED
      BY <3>2, <3>3
  <2>. QED
    BY <1>0, <1>1, <2>7, <2>8, <2>9 DEF CallOK
<1>2. CASE o.do = "remove"
  <2>1. o.u \in Users
    BY <1>2 DEF Ops, UserOps, CreateOps, SessionOps, SharingOps, SharerOps, PlainOps, NumberOps, DropOps, HostOps
  <2>2. PICK j : j = RemoveFirst(call.joined, o.u)
    OBVIOUS
  <2>3. m = [call EXCEPT !.joined = j, !.who[o.u] = None, !.sharer = IF @ = o.u THEN None ELSE @]
    BY <1>2, <2>2 DEF Mutator, remove_participant
  <2>4. call.joined \in Seq(Users)
    BY <1>0 DEF Call
  <2>5. j \in Seq(Users) /\ \A i \in 1..Len(call.joined) : call.joined[i] # o.u => \E k \in 1..Len(j) : j[k] = call.joined[i]
    BY <2>2, <2>4, Without
  <2>6. PICK w : w = [call.who EXCEPT ![o.u] = None]
    OBVIOUS
  <2>6c. call.who \in [Users -> Participant \cup {None}]
    BY <1>0 DEF Call
  <2>6d. w \in [Users -> Participant \cup {None}] /\ w[o.u] = None /\ \A u \in Users \ {o.u} : w[u] = call.who[u]
    BY <2>1, <2>6, <2>6c
  <2>6e. m = [call EXCEPT !.joined = j, !.who = w, !.sharer = IF call.sharer = o.u THEN None ELSE call.sharer]
    BY <1>0, <2>3, <2>6 DEF Call
  <2>7. /\ m \in Call /\ m.sharer = (IF call.sharer = o.u THEN None ELSE call.sharer) /\ m.thread = call.thread /\ m.joined = j
        /\ m.who[o.u] = None /\ \A u \in Users \ {o.u} : m.who[u] = call.who[u]
    BY <1>0, <2>1, <2>5, <2>6d, <2>6e DEF Call
  <2>8. In(m) = In(call) \ {o.u}
    BY <2>1, <2>7 DEF In
  <2>9. \A u \in In(m) : \E i \in 1..Len(m.joined) : m.joined[i] = u
    BY <1>0, <2>5, <2>7, <2>8
  <2>. QED
    BY <1>0, <1>2, <2>7, <2>8, <2>9 DEF CallOK
<1>3. CASE o.do = "sharing"
  <2>1. o.u \in Users /\ o.v \in BOOLEAN
    BY <1>3 DEF Ops, UserOps, CreateOps, SessionOps, SharingOps, SharerOps, PlainOps, NumberOps, DropOps, HostOps
  <2>2. CASE call.who[o.u] = None
    BY <1>0, <1>3, <2>2 DEF Mutator, set_screen_sharing, CallOK
  <2>3. CASE call.who[o.u] # None
    <3>1. m = [call EXCEPT !.who[o.u].sharing = o.v]
      BY <1>3, <2>3 DEF Mutator, set_screen_sharing
    <3>2. call.who[o.u] \in Participant
      BY <1>0, <2>1, <2>3 DEF Call
    <3>3. [call.who[o.u] EXCEPT !.sharing = o.v] \in Participant
      BY <2>1, <3>2 DEF Participant
    <3>4. [call.who[o.u] EXCEPT !.sharing = o.v] # None
      BY <3>3, CallsAssumption
    <3>4a. PICK w : w = [call.who EXCEPT ![o.u] = [call.who[o.u] EXCEPT !.sharing = o.v]]
      OBVIOUS
    <3>4b. call.who \in [Users -> Participant \cup {None}]
      BY <1>0 DEF Call
    <3>4c. w \in [Users -> Participant \cup {None}] /\ w[o.u] # None /\ \A u \in Users \ {o.u} : w[u] = call.who[u]
      BY <2>1, <3>3, <3>4, <3>4a, <3>4b
    <3>4d. m = [call EXCEPT !.who = w]
      BY <1>0, <3>1, <3>4a DEF Call
    <3>5. /\ m \in Call /\ m.sharer = call.sharer /\ m.thread = call.thread /\ m.joined = call.joined
          /\ m.who[o.u] # None /\ \A u \in Users \ {o.u} : m.who[u] = call.who[u]
      BY <1>0, <3>4c, <3>4d DEF Call
    <3>6. In(m) = In(call)
      BY <2>1, <2>3, <3>5 DEF In
    <3>. QED
      BY <1>0, <1>3, <3>5, <3>6 DEF CallOK
  <2>. QED
    BY <2>2, <2>3
<1>4. CASE o.do = "sharer"
  <2>1. m = [call EXCEPT !.sharer = o.u]
    BY <1>4 DEF Mutator, set_screen_sharer
  <2>2. m \in Call /\ m.who = call.who /\ m.joined = call.joined /\ m.sharer = o.u /\ m.thread = call.thread
    BY <1>0, <1>4, <2>1 DEF Call, In
  <2>. QED
    BY <1>0, <1>4, <2>2 DEF CallOK, In
<1>5. CASE o.do = "host"
  <2>1. m = [call EXCEPT !.host = o.u] /\ o.u \in Users
    BY <1>5 DEF Mutator, set_host, Ops, UserOps, CreateOps, SessionOps, SharingOps, SharerOps, PlainOps, NumberOps, DropOps, HostOps
  <2>2. m \in Call /\ m.who = call.who /\ m.joined = call.joined /\ m.sharer = call.sharer /\ m.thread = call.thread
    BY <1>0, <2>1 DEF Call
  <2>. QED
    BY <1>0, <1>5, <2>2 DEF CallOK, In
<1>6. CASE o.do = "thread"
  <2>1. m = [call EXCEPT !.thread = o.v] /\ o.v \in Nat
    BY <1>6 DEF Mutator, set_thread_id, Ops, UserOps, CreateOps, SessionOps, SharingOps, SharerOps, PlainOps, NumberOps, DropOps, HostOps
  <2>2. m \in Call /\ m.who = call.who /\ m.joined = call.joined /\ m.sharer = call.sharer /\ m.thread = o.v
    BY <1>0, <2>1 DEF Call
  <2>. QED
    BY <1>0, <1>6, <2>2 DEF CallOK, In
<1>7. CASE o.do = "touch"
  BY <1>0, <1>7 DEF Mutator, touch, CallOK
<1>. QED
  BY <1>1, <1>2, <1>3, <1>4, <1>5, <1>6, <1>7 DEF MutateOps

-----------------------------------------------------------------------------
(* Steps of the one task that runs. *)

\* An idle task has no part in the state.
LEMMA GoodIdle ==
    ASSUME NEW k, NEW R, NEW ch, NEW S, NEW P, k.todo = <<>>, Good(k, R, ch, S, P)
    PROVE  Good(Idle, R, ch, S, P)
<1>1. Idle.todo = <<>> /\ Idle.value = None
  BY DEF Idle
<1>2. CASE ch = None /\ \A c \in CallIds : Gone(c, R, S, P)
  BY <1>1, <1>2 DEF Good
<1>3. ASSUME NEW d \in CallIds, InPhase(d, k, R, ch, S, P), \A c \in CallIds \ {d} : Gone(c, R, S, P)
      PROVE  Good(Idle, R, ch, S, P)
  <2>1. Lives(d, k, R, ch, P)
    BY <1>3 DEF InPhase
  <2>2. Lives(d, Idle, R, ch, P)
    BY <1>1, <2>1, OpsNone DEF Lives, Has
  <2>. QED
    BY <1>3, <2>2 DEF Good, InPhase
<1>. QED
  BY <1>2, <1>3 DEF Good

LEMMA IdleTask == IsTask(Idle) /\ IsDone(Idle)
BY DEF Idle, IsTask, IsDone

\* What a step of the only task has to establish.
LEMMA MovesAlone ==
    ASSUME Peaceful, NEW t \in Tasks, \A x \in Tasks \ {t} : ~Busy(x), NEW k, Becomes(t, k), IsTask(k),
           Stores(redis', channel'), DOMAIN local' = Nodes,
           DOMAIN sfu' = Nodes, \A n \in Nodes : DOMAIN sfu'[n] = CallIds,
           posts' \in [CallIds -> Seq({"open", "ended"})],
           Agreed(k)'
    PROVE  Peaceful'
<1>1. DOMAIN task' = Tasks /\ \A x \in Tasks \ {t} : task'[x] = task[x] /\ ~Busy(x)
  BY DEF Peaceful, CallsType, Becomes
<1>2. task'[t] = IF IsDone(k) THEN Idle ELSE k
  BY DEF Peaceful, CallsType, Becomes
<1>3. CallsType'
  BY <1>1, <1>2, IdleTask DEF Peaceful, CallsType
<1>4. \A x \in Tasks \ {t} : ~Busy(x)'
  BY <1>1 DEF Busy
<1>5. Busy(t)' <=> ~IsDone(k)
  BY <1>2, IdleTask DEF Busy
<1>6. ASSUME IsDone(k) PROVE Agreed(Idle)'
  <2>1. k.todo = <<>> /\ k.found = {} /\ k.io = None /\ Idle.found = {} /\ Idle.io = None
    BY <1>6 DEF IsDone, Idle
  <2>2. Good(k, AfterRedis(k.io, redis'), AfterChannel(k.io, channel'), sfu', posts')
    BY DEF Agreed
  <2>3. Good(Idle, AfterRedis(k.io, redis'), AfterChannel(k.io, channel'), sfu', posts')
    BY <2>1, <2>2, GoodIdle
  <2>. QED
    BY <2>1, <2>3 DEF Agreed
<1>. QED
  BY <1>2, <1>3, <1>4, <1>5, <1>6 DEF Peaceful

\* And a step of the task that runs.
LEMMA Moves ==
    ASSUME Peaceful, NEW t \in Tasks, Busy(t), NEW k, Becomes(t, k), IsTask(k),
           Stores(redis', channel'), DOMAIN local' = Nodes,
           DOMAIN sfu' = Nodes, \A n \in Nodes : DOMAIN sfu'[n] = CallIds,
           posts' \in [CallIds -> Seq({"open", "ended"})],
           Agreed(k)'
    PROVE  Peaceful'
<1>1. \A x \in Tasks \ {t} : ~Busy(x)
  BY DEF Peaceful
<1>. QED
  BY <1>1, MovesAlone

\* A step that changes fields of a task.
TaskOf(n, h, s, v, l, f, i) == [node |-> n, http |-> h, snap |-> s, value |-> v, todo |-> l, found |-> f, io |-> i]

LEMMA ReadForm ==
    ASSUME NEW q, IsTask(q), NEW l, NEW v, NEW f
    PROVE  [q EXCEPT !.todo = l, !.value = v, !.found = f] = TaskOf(q.node, q.http, q.snap, v, l, f, q.io)
<1>1. q \in [node : {q.node}, http : {q.http}, snap : {q.snap}, value : {q.value}, todo : {q.todo}, found : {q.found}, io : {q.io}]
  BY DEF IsTask
<1>2. PICK e : e = [q EXCEPT !.todo = l, !.value = v, !.found = f]
  OBVIOUS
<1>3. e \in [node : {q.node}, http : {q.http}, snap : {q.snap}, value : {v}, todo : {l}, found : {f}, io : {q.io}]
  BY <1>1, <1>2
<1>. QED
  BY <1>2, <1>3 DEF TaskOf

LEMMA FoundForm ==
    ASSUME NEW q, IsTask(q), NEW f
    PROVE  [q EXCEPT !.found = f] = TaskOf(q.node, q.http, q.snap, q.value, q.todo, f, q.io)
<1>1. q \in [node : {q.node}, http : {q.http}, snap : {q.snap}, value : {q.value}, todo : {q.todo}, found : {q.found}, io : {q.io}]
  BY DEF IsTask
<1>2. PICK e : e = [q EXCEPT !.found = f]
  OBVIOUS
<1>3. e \in [node : {q.node}, http : {q.http}, snap : {q.snap}, value : {q.value}, todo : {q.todo}, found : {f}, io : {q.io}]
  BY <1>1, <1>2
<1>. QED
  BY <1>2, <1>3 DEF TaskOf

LEMMA IoForm ==
    ASSUME NEW q, IsTask(q), NEW i
    PROVE  [q EXCEPT !.io = i] = TaskOf(q.node, q.http, q.snap, q.value, q.todo, q.found, i)
<1>1. q \in [node : {q.node}, http : {q.http}, snap : {q.snap}, value : {q.value}, todo : {q.todo}, found : {q.found}, io : {q.io}]
  BY DEF IsTask
<1>2. PICK e : e = [q EXCEPT !.io = i]
  OBVIOUS
<1>3. e \in [node : {q.node}, http : {q.http}, snap : {q.snap}, value : {q.value}, todo : {q.todo}, found : {q.found}, io : {i}]
  BY <1>1, <1>2
<1>. QED
  BY <1>2, <1>3 DEF TaskOf

LEMMA ValueForm ==
    ASSUME NEW q, IsTask(q), NEW v, NEW f
    PROVE  [q EXCEPT !.value = v, !.found = f] = TaskOf(q.node, q.http, q.snap, v, q.todo, f, q.io)
<1>1. q \in [node : {q.node}, http : {q.http}, snap : {q.snap}, value : {q.value}, todo : {q.todo}, found : {q.found}, io : {q.io}]
  BY DEF IsTask
<1>2. PICK e : e = [q EXCEPT !.value = v, !.found = f]
  OBVIOUS
<1>3. e \in [node : {q.node}, http : {q.http}, snap : {q.snap}, value : {v}, todo : {q.todo}, found : {f}, io : {q.io}]
  BY <1>1, <1>2
<1>. QED
  BY <1>2, <1>3 DEF TaskOf

Snapped(q, s, l, f) == [q EXCEPT !.snap = s, !.todo = l, !.found = f]

LEMMA SnapForm ==
    ASSUME NEW q, IsTask(q), NEW l, NEW s, NEW f
    PROVE  Snapped(q, s, l, f) = TaskOf(q.node, q.http, s, q.value, l, f, q.io)
<1>1. q \in [node : {q.node}, http : {q.http}, snap : {q.snap}, value : {q.value}, todo : {q.todo}, found : {q.found}, io : {q.io}]
  BY DEF IsTask
<1>2. PICK e : e = Snapped(q, s, l, f)
  OBVIOUS
<1>3. e \in [node : {q.node}, http : {q.http}, snap : {s}, value : {q.value}, todo : {l}, found : {f}, io : {q.io}]
  BY <1>1, <1>2 DEF Snapped
<1>. QED
  BY <1>2, <1>3 DEF TaskOf

LEMMA TaskOfTask ==
    ASSUME NEW n \in Nodes, NEW h, NEW s, NEW v, NEW l \in Seq(Ops), NEW f, NEW i \in Persists \cup Removes \cup {None}
    PROVE  /\ IsTask(TaskOf(n, h, s, v, l, f, i))
           /\ TaskOf(n, h, s, v, l, f, i).todo = l /\ TaskOf(n, h, s, v, l, f, i).value = v
           /\ TaskOf(n, h, s, v, l, f, i).snap = s /\ TaskOf(n, h, s, v, l, f, i).found = f
           /\ TaskOf(n, h, s, v, l, f, i).io = i /\ TaskOf(n, h, s, v, l, f, i).node = n
<1>1. PICK k : k = TaskOf(n, h, s, v, l, f, i)
  OBVIOUS
<1>2. k.node = n /\ k.http = h /\ k.snap = s /\ k.value = v /\ k.todo = l /\ k.found = f /\ k.io = i
  BY <1>1 DEF TaskOf
<1>3. IsTask(k)
  BY <1>1, <1>2 DEF IsTask, TaskOf
<1>. QED
  BY <1>1, <1>2, <1>3

LEMMA ReadsFacts ==
    ASSUME CallsType, NEW t \in Tasks, Busy(t), NEW l \in Seq(Ops), NEW f, Reads(t, f, l)
    PROVE  \E k : /\ Becomes(t, k) /\ IsTask(k) /\ k.todo = l /\ k.value = None /\ k.found = f /\ k.io = task[t].io
                  /\ k.snap = task[t].snap
<1>1. IsTask(task[t]) /\ task[t].node \in Nodes /\ task[t].io \in Persists \cup Removes \cup {None}
  BY DEF CallsType, IsTask, Busy
<1>2. PICK q : q = task[t]
  OBVIOUS
<1>3. PICK k : k = TaskOf(q.node, q.http, q.snap, None, l, f, q.io)
  OBVIOUS
<1>4. Becomes(t, k)
  <2>1. IsTask(q)
    BY <1>1, <1>2
  <2>2. [q EXCEPT !.todo = l, !.value = None, !.found = f] = TaskOf(q.node, q.http, q.snap, None, l, f, q.io)
    BY <2>1, ReadForm, Zenon
  <2>. QED
    BY <1>2, <1>3, <2>2 DEF Reads
<1>. QED
  BY <1>1, <1>2, <1>3, <1>4, TaskOfTask

LEMMA SendsForm ==
    ASSUME NEW t, IsTask(task[t]), NEW l, NEW i, Sends(t, i, l)
    PROVE  \E k, q : Becomes(t, k) /\ q = task[t] /\ k = TaskOf(q.node, q.http, q.snap, None, l, q.found, i)
<1>1. PICK q : q = task[t]
  OBVIOUS
<1>2. q \in [node : {q.node}, http : {q.http}, snap : {q.snap}, value : {q.value}, todo : {q.todo}, found : {q.found}, io : {q.io}]
  BY <1>1 DEF IsTask
<1>3. PICK e : e = [q EXCEPT !.todo = l, !.value = None, !.io = i]
  OBVIOUS
<1>4. e \in [node : {q.node}, http : {q.http}, snap : {q.snap}, value : {None}, todo : {l}, found : {q.found}, io : {i}]
  BY <1>2, <1>3
<1>5. e = TaskOf(q.node, q.http, q.snap, None, l, q.found, i)
  BY <1>4 DEF TaskOf
<1>. QED
  BY <1>1, <1>3, <1>5 DEF Sends

LEMMA SendsFacts ==
    ASSUME CallsType, NEW t \in Tasks, Busy(t), NEW l \in Seq(Ops), NEW i \in Persists \cup Removes \cup {None}, Sends(t, i, l)
    PROVE  \E k : /\ Becomes(t, k) /\ IsTask(k) /\ k.todo = l /\ k.value = None /\ k.found = task[t].found /\ k.io = i
                  /\ k.snap = task[t].snap
<1>1. IsTask(task[t]) /\ task[t].node \in Nodes
  BY DEF CallsType, IsTask, Busy
<1>2. PICK k, q : Becomes(t, k) /\ q = task[t] /\ k = TaskOf(q.node, q.http, q.snap, None, l, q.found, i)
  BY <1>1, SendsForm
<1>3. q.node \in Nodes
  BY <1>1, <1>2
<1>. QED
  BY <1>2, <1>3, TaskOfTask

-----------------------------------------------------------------------------
(* What holds while nothing is left to copy or to send. *)

Settled ==
    /\ CallsType
    /\ \A n \in Nodes : local[n] = [calls |-> redis, index |-> channel]
    /\ active = {c \in CallIds : redis[c] # None}

Calm == \A t \in Tasks : ~Busy(t)

LEMMA CalmSettled == ASSUME Peaceful, Calm PROVE Settled /\ Good(Idle, redis, channel, sfu, posts)
<1>1. Agreed(Idle) /\ Idle.found = {} /\ Idle.io = None /\ CallsType
  BY DEF Peaceful, Calm, Idle
<1>. QED
  BY <1>1 DEF Agreed, Copied, AfterRedis, AfterChannel, AfterActive, Settled

LEMMA AtSettled ==
    ASSUME Peaceful, NEW t \in Tasks, NEW do, At(t, do)
    PROVE  /\ Busy(t) /\ task[t].todo \in Seq(Ops) /\ task[t].todo # <<>> /\ task[t].found = {} /\ task[t].io = None
           /\ task[t].node \in Nodes /\ Head1(t) = Head(task[t].todo) /\ Head1(t).do \in do
           /\ Settled /\ Good(task[t], redis, channel, sfu, posts)
<1>1. Busy(t) /\ task[t].todo # <<>> /\ task[t].found = {} /\ task[t].io = None /\ Head1(t) = Head(task[t].todo)
      /\ Head1(t).do \in do
  BY DEF At, Busy, IsDone, Head1
<1>2. Agreed(task[t]) /\ CallsType /\ task[t].todo \in Seq(Ops) /\ task[t].node \in Nodes
  BY <1>1 DEF Peaceful, CallsType, IsTask, Busy
<1>. QED
  BY <1>1, <1>2 DEF Agreed, Copied, AfterRedis, AfterChannel, AfterActive, Settled

\* What a task reads then.
LEMMA Reading ==
    ASSUME Settled, NEW n \in Nodes
    PROVE  /\ \A c \in CallIds : get_call(n, c) = redis[c]
           /\ get_call_by_channel(n) = IF channel # None /\ redis[channel] # None THEN channel ELSE None
           /\ channel # None /\ redis[channel] # None => channel_call(n) = redis[channel]
           /\ DOMAIN get_all_calls(n) = {c \in CallIds : redis[c] # None}
           /\ \A c \in CallIds : redis[c] # None => get_all_calls(n)[c] = redis[c]
<1>1. local[n].calls = redis /\ local[n].index = channel
  BY DEF Settled
<1>2. /\ \A c \in CallIds : get_call(n, c) = redis[c]
      /\ get_call_by_channel(n) = IF channel # None /\ redis[channel] # None THEN channel ELSE None
      /\ channel # None /\ redis[channel] # None => channel_call(n) = redis[channel]
  BY <1>1 DEF get_call, get_call_by_channel, channel_call, ChannelIsStored
<1>3. active = {c \in CallIds : redis[c] # None} /\ {x \in active : redis[x] # None} = {c \in CallIds : redis[c] # None}
  BY DEF Settled
<1>4. get_all_calls(n) = [c \in {x \in CallIds : redis[x] # None} |-> redis[c]]
  BY <1>1, <1>3 DEF get_all_calls
<1>. QED
  BY <1>2, <1>4

\* The call that the index names is the only one that is stored.
LEMMA OnlyOne ==
    ASSUME Settled, NEW k, Good(k, redis, channel, sfu, posts), NEW c \in CallIds, redis[c] # None PROVE channel = c
<1>0. \A d \in CallIds : CallOK(redis[d]) => redis[d] # None
  BY CallsAssumption DEF CallOK
<1>1. PICK d \in CallIds : InPhase(d, k, redis, channel, sfu, posts) /\ \A x \in CallIds \ {d} : Gone(x, redis, sfu, posts)
  BY DEF Good, Gone
<1>2. c = d
  BY <1>1 DEF Gone
<1>. QED
  BY <1>1, <1>2 DEF InPhase, Lives, Starts, Closes, Marks, Gone

\* What a lookup finds is what the nodes have.
LEMMA FindsCopy ==
    ASSUME Settled, NEW k, Good(k, redis, channel, sfu, posts), NEW cs \in SUBSET CallIds
    PROVE  \A p \in Found(cs) : p = <<channel, redis[channel]>> /\ channel # None
<1>1. \A c \in cs : redis[c] # None => channel = c /\ c # None
  BY OnlyOne, CallsAssumption
<1>. QED
  BY <1>1 DEF Found

\* A step that sends nothing and leaves the calls where they are.
LEMMA AgreedSame ==
    ASSUME Settled, NEW k, k.io = None, UNCHANGED ManagerVars,
           \A p \in k.found : p = <<channel, redis[channel]>> /\ channel # None,
           Good(k, redis, channel, sfu', posts')
    PROVE  Agreed(k)'
<1>1. UNCHANGED <<redis, channel, active, local>>
  BY DEF ManagerVars
<1>2. /\ AfterRedis(k.io, redis) = redis /\ AfterChannel(k.io, channel) = channel /\ AfterActive(k.io, active) = active
      /\ Stores(redis, channel)
  BY DEF AfterRedis, AfterChannel, AfterActive, Settled, CallsType
<1>3. AfterRedis(k.io, redis') = redis /\ AfterChannel(k.io, channel') = channel /\ AfterActive(k.io, active') = active
  BY <1>1, <1>2
<1>. QED
  BY <1>1, <1>2, <1>3 DEF Agreed, Copied, Settled

-----------------------------------------------------------------------------
(* What is found is copied, and the commands of a write are sent. *)

\* A task that changes in what it has found and what it sends only.
LEMMA GoodSame ==
    ASSUME NEW k, NEW q, k.todo = q.todo, k.value = q.value, k.snap = q.snap, NEW R, NEW ch, NEW S, NEW P, Good(q, R, ch, S, P)
    PROVE  Good(k, R, ch, S, P)
BY DEF Good, InPhase, Lives, Starts, Closes, Marks

LEMMA StepCopied ==
    ASSUME Peaceful, OneNode, NEW t \in Tasks, call_is_copied(t) PROVE Peaceful'
<1>. PICK q : q = task[t]
  OBVIOUS
<1>1. PICK p \in q.found :
         /\ upsert_call_local(q.node, p[1], p[2])
         /\ Becomes(t, [q EXCEPT !.found = q.found \ {p}])
         /\ UNCHANGED <<redis, channel, active, sfu, posts>>
  BY DEF call_is_copied
<1>2. Busy(t) /\ CallsType /\ IsTask(q) /\ q.node \in Nodes /\ q.todo \in Seq(Ops) /\ q.io \in Persists \cup Removes \cup {None}
      /\ Agreed(q)
  BY <1>1 DEF Busy, IsDone, Peaceful, CallsType, IsTask
<1>. PICK R, ch : R = AfterRedis(q.io, redis) /\ ch = AfterChannel(q.io, channel)
  OBVIOUS
<1>3. /\ Copied(R, ch, q.found) /\ AfterActive(q.io, active) = {c \in CallIds : R[c] # None} /\ Good(q, R, ch, sfu, posts)
  BY <1>2 DEF Agreed
<1>4. p[1] = ch /\ p[2] = R[ch] /\ ch \in CallIds /\ local[q.node] = [calls |-> R, index |-> ch] /\ R \in [CallIds -> Call \cup {None}]
  BY <1>1, <1>2, <1>3 DEF Copied, Stores
<1>5. [R EXCEPT ![ch] = R[ch]] = R
  BY <1>4
<1>6. DOMAIN local = Nodes /\ \A m \in Nodes : m = q.node
  BY <1>2 DEF CallsType, OneNode
<1>7. DOMAIN local' = Nodes /\ \A m \in Nodes : local'[m] = [calls |-> R, index |-> ch]
  <2>1. local' = [local EXCEPT ![q.node] = [calls |-> [local[q.node].calls EXCEPT ![ch] = R[ch]], index |-> ch]]
    BY <1>1, <1>4 DEF upsert_call_local
  <2>2. local[q.node].calls = R
    BY <1>4
  <2>3. local' = [local EXCEPT ![q.node] = [calls |-> R, index |-> ch]]
    BY <1>5, <2>1, <2>2
  <2>. QED
    BY <1>6, <2>3
<1>8. PICK k : k = TaskOf(q.node, q.http, q.snap, q.value, q.todo, q.found \ {p}, q.io)
  OBVIOUS
<1>9. Becomes(t, k)
  <2>1. PICK f : f = q.found \ {p}
    OBVIOUS
  <2>2. [q EXCEPT !.found = f] = TaskOf(q.node, q.http, q.snap, q.value, q.todo, f, q.io)
    BY <1>2, FoundForm
  <2>. QED
    BY <1>1, <1>8, <2>1, <2>2
<1>10. IsTask(k) /\ k.todo = q.todo /\ k.value = q.value /\ k.snap = q.snap /\ k.found = q.found \ {p} /\ k.io = q.io
  BY <1>2, <1>8, TaskOfTask
<1>11. Good(k, R, ch, sfu, posts)
  BY <1>3, <1>10, GoodSame
<1>12. Agreed(k)'
  <2>1. AfterRedis(k.io, redis') = R /\ AfterChannel(k.io, channel') = ch /\ AfterActive(k.io, active') = AfterActive(q.io, active)
    BY <1>1, <1>10
  <2>. QED
    BY <1>1, <1>3, <1>7, <1>10, <1>11, <2>1 DEF Agreed, Copied
<1>. QED
  BY <1>1, <1>2, <1>7, <1>9, <1>10, <1>12, Moves DEF CallsType

\* What a command is, and that there is one.
LEMMA CommandFacts ==
    ASSUME NEW i \in Persists \cup Removes
    PROVE  /\ i # None /\ i.c \in CallIds
           /\ i.at \in {"set", "point", "list", "unpoint", "unset", "unlist"}
           /\ i.at \in {"set", "point", "list"} => i \in Persists /\ i.call \in Call
           /\ i.at \in {"unpoint", "unset", "unlist"} => i \in Removes
<1>1. i \in Commands
  BY DEF Persists, Removes, Commands
<1>. QED
  BY <1>1, CallsAssumption DEF Persists, Removes

\* A command brings Redis nearer to what it will hold after the last one.
LEMMA Nearer ==
    ASSUME NEW i \in Persists \cup Removes, Carried(i), Stores(redis, channel), NEW j, j = After(i)
    PROVE  /\ j \in Persists \cup Removes \cup {None}
           /\ AfterRedis(j, redis') = AfterRedis(i, redis)
           /\ AfterChannel(j, channel') = AfterChannel(i, channel)
           /\ AfterActive(j, active') = AfterActive(i, active)
           /\ Stores(redis', channel')
<1>0. i # None /\ i.c \in CallIds /\ redis \in [CallIds -> Call \cup {None}] /\ channel \in CallIds \cup {None}
  BY CommandFacts DEF Stores
<1>1. CASE i.at = "set"
  <2>1. j = [i EXCEPT !.at = "point"] /\ i \in Persists /\ i.call \in Call
    BY <1>1, CommandFacts DEF After
  <2>2. j \in Persists /\ j.at = "point" /\ j.c = i.c
    BY <2>1 DEF Persists
  <2>3. j # None
    BY <2>2, CommandFacts
  <2>4. redis' = [redis EXCEPT ![i.c] = i.call] /\ channel' = channel /\ active' = active
    BY <1>1 DEF Carried
  <2>. QED
    BY <1>0, <1>1, <2>1, <2>2, <2>3, <2>4 DEF AfterRedis, AfterChannel, AfterActive, Stores
<1>2. CASE i.at = "point"
  <2>1. j = [i EXCEPT !.at = "list"] /\ i \in Persists
    BY <1>2, CommandFacts DEF After
  <2>2. j \in Persists /\ j.at = "list" /\ j.c = i.c
    BY <2>1 DEF Persists
  <2>3. j # None
    BY <2>2, CommandFacts
  <2>4. redis' = redis /\ channel' = i.c /\ active' = active
    BY <1>2 DEF Carried
  <2>. QED
    BY <1>0, <1>2, <2>2, <2>3, <2>4 DEF AfterRedis, AfterChannel, AfterActive, Stores
<1>3. CASE i.at = "list"
  <2>1. j = None /\ redis' = redis /\ channel' = channel /\ active' = active \cup {i.c}
    BY <1>3 DEF Carried, After
  <2>. QED
    BY <1>0, <1>3, <2>1 DEF AfterRedis, AfterChannel, AfterActive, Stores
<1>4. CASE i.at = "unpoint"
  <2>1. j = [i EXCEPT !.at = "unset"] /\ i \in Removes
    BY <1>4, CommandFacts DEF After
  <2>2. j \in Removes /\ j.at = "unset" /\ j.c = i.c
    BY <2>1 DEF Removes
  <2>3. j # None
    BY <2>2, CommandFacts
  <2>4. redis' = redis /\ channel' = None /\ active' = active
    BY <1>4 DEF Carried
  <2>. QED
    BY <1>0, <1>4, <2>2, <2>3, <2>4 DEF AfterRedis, AfterChannel, AfterActive, Stores
<1>5. CASE i.at = "unset"
  <2>1. j = [i EXCEPT !.at = "unlist"] /\ i \in Removes
    BY <1>5, CommandFacts DEF After
  <2>2. j \in Removes /\ j.at = "unlist" /\ j.c = i.c
    BY <2>1 DEF Removes
  <2>3. j # None
    BY <2>2, CommandFacts
  <2>4. redis' = [redis EXCEPT ![i.c] = None] /\ channel' = channel /\ active' = active
    BY <1>5 DEF Carried
  <2>. QED
    BY <1>0, <1>5, <2>2, <2>3, <2>4 DEF AfterRedis, AfterChannel, AfterActive, Stores
<1>6. CASE i.at = "unlist"
  <2>1. j = None /\ redis' = redis /\ channel' = channel /\ active' = active \ {i.c}
    BY <1>6 DEF Carried, After
  <2>. QED
    BY <1>0, <1>6, <2>1 DEF AfterRedis, AfterChannel, AfterActive, Stores
<1>. QED
  BY <1>1, <1>2, <1>3, <1>4, <1>5, <1>6, CommandFacts

LEMMA StepSent ==
    ASSUME Peaceful, NEW t \in Tasks, command_is_sent(t) PROVE Peaceful'
<1>. PICK q : q = task[t]
  OBVIOUS
<1>. PICK i, j : i = q.io /\ j = After(i)
  OBVIOUS
<1>1. i # None /\ Carried(i) /\ Becomes(t, [q EXCEPT !.io = j]) /\ UNCHANGED <<local, sfu, posts>>
  BY DEF command_is_sent
<1>2. Busy(t) /\ CallsType /\ IsTask(q) /\ q.node \in Nodes /\ q.todo \in Seq(Ops) /\ i \in Persists \cup Removes /\ Agreed(q)
  BY <1>1 DEF Busy, IsDone, Peaceful, CallsType, IsTask
<1>3. /\ j \in Persists \cup Removes \cup {None}
      /\ AfterRedis(j, redis') = AfterRedis(i, redis) /\ AfterChannel(j, channel') = AfterChannel(i, channel)
      /\ AfterActive(j, active') = AfterActive(i, active) /\ Stores(redis', channel')
  BY <1>1, <1>2, Nearer DEF CallsType
<1>4. PICK k : k = TaskOf(q.node, q.http, q.snap, q.value, q.todo, q.found, j)
  OBVIOUS
<1>5. Becomes(t, k)
  BY <1>1, <1>2, <1>4, IoForm
<1>6. IsTask(k) /\ k.todo = q.todo /\ k.value = q.value /\ k.snap = q.snap /\ k.found = q.found /\ k.io = j
  BY <1>2, <1>3, <1>4, TaskOfTask
<1>7. Good(k, AfterRedis(i, redis), AfterChannel(i, channel), sfu, posts)
  BY <1>2, <1>6, GoodSame DEF Agreed
<1>8. Agreed(k)'
  BY <1>1, <1>2, <1>3, <1>6, <1>7 DEF Agreed, Copied
<1>. QED
  BY <1>1, <1>2, <1>3, <1>5, <1>6, <1>8, Moves DEF CallsType

-----------------------------------------------------------------------------
(* The one call that the task which runs is about. *)

LEMMA OpFields ==
    \A c, do, u, v : Op(c, do, u, v).c = c /\ Op(c, do, u, v).do = do /\ Op(c, do, u, v).u = u /\ Op(c, do, u, v).v = v
BY DEF Op

LEMMA AboutOne ==
    ASSUME Peaceful, NEW t \in Tasks, NEW do, At(t, do)
    PROVE  \E d \in CallIds :
              /\ InPhase(d, task[t], redis, channel, sfu, posts)
              /\ \A c \in CallIds \ {d} : Gone(c, redis, sfu, posts)
              /\ Head(task[t].todo).c = d
              /\ Head(task[t].todo).do \in Living => Lives(d, task[t], redis, channel, posts)
<1>1. Good(task[t], redis, channel, sfu, posts) /\ task[t].todo # <<>> /\ task[t].todo \in Seq(Ops)
  BY AtSettled
<1>2. PICK d \in CallIds : InPhase(d, task[t], redis, channel, sfu, posts) /\ \A c \in CallIds \ {d} : Gone(c, redis, sfu, posts)
  BY <1>1 DEF Good
<1>3. Head(task[t].todo) \in OpsOf(task[t].todo)
  BY <1>1, OpsPop
<1>4. Head(task[t].todo).c = d
  <2>1. ASSUME Marks(d, task[t], redis, channel, sfu, posts) PROVE Head(task[t].todo).c = d
    BY <2>1, OpFields DEF Marks
  <2>. QED
    BY <1>2, <1>3, <2>1 DEF InPhase, Lives, Does, Starts, Closes
<1>5. Head(task[t].todo).do \in Living => Lives(d, task[t], redis, channel, posts)
  <2>1. ASSUME Marks(d, task[t], redis, channel, sfu, posts) PROVE Head(task[t].todo).do \in {"sfu_drop", "mark"}
    BY <2>1, OpFields DEF Marks
  <2>. QED
    BY <1>2, <2>1 DEF InPhase, Starts, Closes, Living
<1>. QED
  BY <1>2, <1>4, <1>5

\* An instruction is replaced by others while the call lives.
LEMMA LivesThen ==
    ASSUME NEW d, NEW k, NEW R, NEW ch, NEW P, Lives(d, k, R, ch, P), k.todo \in Seq(Ops), k.todo # <<>>,
           Head(k.todo).do \notin {"post", "thread"}, NEW p \in Seq(Ops),
           \A o \in OpsOf(p) : o.c = d /\ o.do \in Living \ {"post", "thread", "sharer", "remove", "authorize"},
           R[d].thread = None => \A o \in OpsOf(p) : o.do \in Early,
           NEW k2, k2.todo = p \o Tail(k.todo), k2.value \in {None, R[d]}, k2.todo # <<>> => k2.snap \in Call \cup {k.snap}
    PROVE  Lives(d, k2, R, ch, P)
<1>1. /\ Head(k.todo) \in Ops /\ Tail(k.todo) \in Seq(Ops) /\ OpsOf(k.todo) = {Head(k.todo)} \cup OpsOf(Tail(k.todo))
      /\ k2.todo \in Seq(Ops) /\ OpsOf(k2.todo) = OpsOf(p) \cup OpsOf(Tail(k.todo))
  BY OpsPop, OpsConcat
<1>2. Does(k2.todo, d)
  BY <1>1 DEF Lives, Does
<1>3. Threaded(k2.todo, R[d], P[d])
  <2>1. CASE Bound(R[d], P[d]) /\ ~Has(k.todo, "post") /\ ~Has(k.todo, "thread")
    BY <1>1, <2>1 DEF Threaded, Has
  <2>2. CASE R[d].thread = None /\ P[d] = <<>> /\ Awaiting(k.todo) /\ ~Has(k.todo, "thread")
    <3>1. Awaiting(Tail(k.todo))
      BY <2>2, AwaitingPop
    <3>2. Awaiting(k2.todo)
      BY <1>1, <2>2, <3>1, AwaitingConcat
    <3>3. ~Has(k2.todo, "thread")
      BY <1>1, <2>2 DEF Has
    <3>. QED
      BY <2>2, <3>2, <3>3 DEF Threaded
  <2>. QED
    BY <2>1, <2>2 DEF Lives, Threaded
<1>4. Sharers(k2.todo, R[d])
  BY <1>1 DEF Lives, Sharers, Has
<1>5. Has(k2.todo, "authorize") => k2.snap \in Call
  <2>1. Has(k2.todo, "authorize") => Has(k.todo, "authorize") /\ k2.todo # <<>>
    BY <1>1, OpsNone DEF Has
  <2>. QED
    BY <2>1 DEF Lives
<1>. QED
  BY <1>2, <1>3, <1>4, <1>5 DEF Lives

\* A step that writes neither calls nor posts.
Untouched ==
    /\ UNCHANGED <<ManagerVars, posts>>
    /\ DOMAIN sfu' = Nodes /\ \A n \in Nodes : DOMAIN sfu'[n] = CallIds

LEMMA UntouchedAll == ASSUME CallsType, UNCHANGED <<ManagerVars, sfu, posts>> PROVE Untouched
BY DEF Untouched, CallsType

\* The instruction at the head of the list of t, which is about the live call d.
AtWork(t, d) ==
    /\ t \in Tasks /\ d \in CallIds /\ At(t, Living)
    /\ Lives(d, task[t], redis, channel, posts)
    /\ \A c \in CallIds \ {d} : Gone(c, redis, sfu, posts)

\* Such a step puts the instructions p in the place of the one carried out.
LEMMA LiveStep ==
    ASSUME Peaceful, NEW t, NEW d, AtWork(t, d), NEW p \in Seq(Ops), NEW f, Reads(t, f, p \o Rest(t)), Untouched,
           \A x \in f : x = <<d, redis[d]>>,
           Head1(t).do \notin {"post", "thread"},
           \A o \in OpsOf(p) : o.c = d /\ o.do \in Living \ {"post", "thread", "sharer", "remove", "authorize"},
           redis[d].thread = None => \A o \in OpsOf(p) : o.do \in Early,
           \A n \in Nodes, c \in CallIds \ {d} : sfu'[n][c] = sfu[n][c]
    PROVE  Peaceful'
<1>0. t \in Tasks /\ d \in CallIds /\ At(t, Living)
  BY DEF AtWork
<1>1. /\ Busy(t) /\ Settled /\ CallsType /\ task[t].todo \in Seq(Ops) /\ task[t].todo # <<>> /\ Head1(t) = Head(task[t].todo)
      /\ task[t].io = None
  BY <1>0, AtSettled DEF Settled
<1>2. p \o Tail(task[t].todo) \in Seq(Ops)
  BY <1>1, OpsPop, OpsConcat
<1>3. PICK k : /\ Becomes(t, k) /\ IsTask(k) /\ k.todo = p \o Tail(task[t].todo) /\ k.value = None /\ k.found = f
               /\ k.io = None /\ k.snap = task[t].snap
  <2>1. PICK l : l = p \o Tail(task[t].todo)
    OBVIOUS
  <2>2. l \in Seq(Ops) /\ Reads(t, f, l)
    BY <1>2, <2>1 DEF Rest
  <2>3. PICK k : /\ Becomes(t, k) /\ IsTask(k) /\ k.todo = l /\ k.value = None /\ k.found = f
                 /\ k.io = task[t].io /\ k.snap = task[t].snap
    <3>1. CallsType /\ t \in Tasks /\ Busy(t)
      BY <1>0, <1>1
    <3>. QED
      BY <2>2, <3>1, ReadsFacts
  <2>. QED
    BY <1>1, <2>1, <2>3
<1>4. Lives(d, k, redis, channel, posts)
  BY <1>1, <1>3, LivesThen DEF AtWork
<1>5. \A c \in CallIds \ {d} : Gone(c, redis, sfu', posts')
  BY DEF AtWork, Gone, Untouched
<1>6. Good(k, redis, channel, sfu', posts')
  BY <1>0, <1>4, <1>5 DEF Good, InPhase, Untouched
<1>7. channel = d /\ d # None
  BY <1>0, CallsAssumption DEF AtWork, Lives
<1>8. Agreed(k)'
  BY <1>1, <1>3, <1>6, <1>7, AgreedSame DEF Untouched
<1>. QED
  BY <1>0, <1>1, <1>3, <1>8, Moves DEF Untouched, ManagerVars, CallsType

\* The facts that every instruction of a live call starts from.
LEMMA AtWorkFacts ==
    ASSUME Peaceful, NEW t \in Tasks, At(t, Living)
    PROVE  \E d \in CallIds :
              /\ AtWork(t, d) /\ Head1(t) \in Ops /\ Head1(t).c = d /\ task[t].node \in Nodes
              /\ channel = d /\ redis[d] # None /\ CallOK(redis[d])
              /\ get_call(task[t].node, d) = redis[d]
              /\ get_call_by_channel(task[t].node) = d /\ channel_call(task[t].node) = redis[d]
              /\ \A x \in Found({d}) : x = <<d, redis[d]>>
              /\ \A x \in FoundByChannel : x = <<d, redis[d]>>
<1>0. /\ Busy(t) /\ Settled /\ CallsType /\ task[t].todo \in Seq(Ops) /\ task[t].todo # <<>> /\ Head1(t) = Head(task[t].todo)
      /\ Head1(t).do \in Living /\ task[t].node \in Nodes
  BY AtSettled DEF Settled
<1>1. PICK d \in CallIds : /\ \A c \in CallIds \ {d} : Gone(c, redis, sfu, posts)
                           /\ Head1(t).c = d /\ Lives(d, task[t], redis, channel, posts)
  BY <1>0, AboutOne
<1>2. Head1(t) \in Ops
  BY <1>0, OpsPop
<1>3. channel = d /\ redis[d] # None /\ CallOK(redis[d]) /\ d # None
  BY <1>1, CallsAssumption DEF Lives, CallOK
<1>4. get_call(task[t].node, d) = redis[d] /\ get_call_by_channel(task[t].node) = d /\ channel_call(task[t].node) = redis[d]
  BY <1>0, <1>3, Reading
<1>5. \A x \in Found({d}) : x = <<d, redis[d]>>
  BY DEF Found
<1>6. {channel} \ {None} = {d}
  BY <1>3
<1>7. \A x \in FoundByChannel : x = <<d, redis[d]>>
  BY <1>5, <1>6 DEF FoundByChannel
<1>. QED
  BY <1>0, <1>1, <1>2, <1>3, <1>4, <1>5, <1>7 DEF AtWork

\* While the call has no thread only early instructions are carried out.
LEMMA HasThread ==
    ASSUME Peaceful, NEW t, NEW d, AtWork(t, d), Head1(t).do \notin Early \cup {"post", "thread"}
    PROVE  redis[d].thread # None /\ Bound(redis[d], posts[d])
<1>1. task[t].todo \in Seq(Ops) /\ task[t].todo # <<>> /\ Head1(t) = Head(task[t].todo)
  BY AtSettled DEF AtWork
<1>2. Threaded(task[t].todo, redis[d], posts[d])
  BY DEF AtWork, Lives
<1>3. 1 # None /\ NamedThread # None
  BY CallsAssumption DEF NamedThread
<1>4. Bound(redis[d], posts[d])
  BY <1>1, <1>2, AwaitingPop DEF Threaded
<1>. QED
  BY <1>3, <1>4 DEF Bound

LEMMA NoList == <<>> \in Seq(Ops) /\ OpsOf(<<>>) = {}
BY OpsNone

LEMMA OneList == ASSUME NEW a \in Ops PROVE <<a>> \in Seq(Ops) /\ OpsOf(<<a>>) = {a} /\ Head(<<a>>) = a /\ Tail(<<a>>) = <<>>
BY DEF OpsOf

\* The instructions that handlers name.
LEMMA OpFacts ==
    ASSUME NEW c \in CallIds
    PROVE  /\ \A do \in {"touch", "state", "timer", "post", "reread", "last_read", "sfu_drop"} : Op(c, do, None, None) \in Ops
           /\ \A do \in {"remove", "reconcile", "host", "ws_add"}, u \in Users : Op(c, do, u, None) \in Ops
           /\ \A u \in Users, th \in {None, NamedThread} : Op(c, "create", u, th) \in Ops
           /\ \A do \in {"add", "sfu_add", "sfu_remove"}, u \in Users, s \in SessionKinds : Op(c, do, u, s) \in Ops
           /\ \A u \in Users, b \in BOOLEAN : Op(c, "sharing", u, b) \in Ops
           /\ \A u \in Users \cup {None} : Op(c, "sharer", u, None) \in Ops
           /\ \A do \in {"thread", "count", "mark"}, i \in Nat : Op(c, do, None, i) \in Ops
           /\ \A i \in Nat \cup {None} : Op(c, "drop", None, i) \in Ops
           /\ \A u \in Users, v \in HostRequests : Op(c, "authorize", u, v) \in Ops
<1>1. \A do \in {"touch", "state", "timer", "post", "reread", "last_read", "sfu_drop"} : Op(c, do, None, None) \in PlainOps
  BY DEF Op, PlainOps
<1>2. \A do \in {"remove", "reconcile", "host", "ws_add"}, u \in Users : Op(c, do, u, None) \in UserOps
  BY DEF Op, UserOps
<1>3. \A do \in {"add", "sfu_add", "sfu_remove"}, u \in Users, s \in SessionKinds : Op(c, do, u, s) \in SessionOps
  BY DEF Op, SessionOps
<1>4. \A u \in Users, b \in BOOLEAN : Op(c, "sharing", u, b) \in SharingOps
  BY DEF Op, SharingOps
<1>5. \A u \in Users \cup {None} : Op(c, "sharer", u, None) \in SharerOps
  BY DEF Op, SharerOps
<1>6. \A do \in {"thread", "count", "mark"}, i \in Nat : Op(c, do, None, i) \in NumberOps
  BY DEF Op, NumberOps
<1>7. \A i \in Nat \cup {None} : Op(c, "drop", None, i) \in DropOps
  BY DEF Op, DropOps
<1>8. \A u \in Users, v \in HostRequests : Op(c, "authorize", u, v) \in HostOps
  BY DEF Op, HostOps
<1>9. \A u \in Users, th \in {None, NamedThread} : Op(c, "create", u, th) \in CreateOps
  BY DEF Op, CreateOps
<1>. QED
  BY <1>1, <1>2, <1>3, <1>4, <1>5, <1>6, <1>7, <1>8, <1>9 DEF Ops

\* The users and values in an instruction.
LEMMA OpTypes ==
    ASSUME NEW o \in Ops
    PROVE  /\ o.do \in {"remove", "reconcile", "host", "ws_add", "create", "add", "sfu_add", "sfu_remove", "authorize"} => o.u \in Users
           /\ o.do = "authorize" => o.v \in HostRequests
           /\ o.do \in {"count", "thread"} => o.v \in Nat
           /\ o.do = "create" => o.v \in {None, NamedThread}
BY DEF Ops, UserOps, CreateOps, CreateOps, SessionOps, SharingOps, SharerOps, PlainOps, NumberOps, DropOps, HostOps

-----------------------------------------------------------------------------
(* The instructions of a live call. *)

\* An instruction of a live call.
LEMMA AtLiving == ASSUME NEW t, NEW do, do \subseteq Living, At(t, do) PROVE At(t, Living)
BY DEF At

LEMMA StepState ==
    ASSUME Peaceful, NEW t \in Tasks, broadcast_call_state_event(t) PROVE Peaceful'
<1>1. At(t, {"state"}) /\ At(t, Living) /\ Head1(t).do = "state" /\ Head1(t).do \notin Early \cup {"post", "thread"}
  BY AtLiving DEF broadcast_call_state_event, At, Living, Early
<1>2. PICK d \in CallIds : /\ AtWork(t, d) /\ get_call_by_channel(task[t].node) = d /\ channel_call(task[t].node) = redis[d]
                           /\ \A x \in FoundByChannel : x = <<d, redis[d]>>
  BY <1>1, AtWorkFacts
<1>3. redis[d].thread # None
  BY <1>1, <1>2, HasThread
<1>4. PICK p, f : p = <<>> /\ f = FoundByChannel
  OBVIOUS
<1>5. Reads(t, f, p \o Rest(t)) /\ UNCHANGED <<ManagerVars, sfu, posts>>
  BY <1>2, <1>3, <1>4, CallsAssumption DEF broadcast_call_state_event, ensure_call_thread_id
<1>6. Untouched /\ sfu' = sfu
  BY <1>5, UntouchedAll DEF Peaceful
<1>7. p \in Seq(Ops) /\ OpsOf(p) = {}
  BY <1>4, NoList
<1>. QED
  BY <1>1, <1>2, <1>4, <1>5, <1>6, <1>7, LiveStep

LEMMA StepJoin ==
    ASSUME Peaceful, NEW t \in Tasks, ws_participant_is_replaced(t) PROVE Peaceful'
<1>1. At(t, Living) /\ Head1(t).do = "ws_add" /\ Head1(t).do \notin {"post", "thread"}
  BY AtLiving DEF ws_participant_is_replaced, At, Living
<1>2. PICK d \in CallIds : /\ AtWork(t, d) /\ get_call(task[t].node, d) = redis[d] /\ Head1(t).c = d /\ Head1(t) \in Ops
                           /\ redis[d] # None /\ CallOK(redis[d])
                           /\ \A x \in Found({d}) : x = <<d, redis[d]>>
  BY <1>1, AtWorkFacts
<1>. PICK u : u = Head1(t).u
  OBVIOUS
<1>. PICK old : old = redis[d].who[u]
  OBVIOUS
<1>3. u \in Users
  BY <1>1, <1>2, OpTypes
<1>4. old \in Participant \cup {None}
  BY <1>2, <1>3 DEF CallOK, Call
<1>5. PICK p : p = IF old # None /\ old.session = "ws" THEN <<>>
                   ELSE (IF old # None THEN <<Op(d, "sfu_remove", u, old.session)>> ELSE <<>>) \o <<Op(d, "add", u, "ws")>>
  OBVIOUS
<1>. PICK f : f = Found({d})
  OBVIOUS
<1>6. Reads(t, f, p \o Rest(t)) /\ Untouched /\ sfu' = sfu
  <2>1. UNCHANGED <<ManagerVars, sfu, posts>>
    BY DEF ws_participant_is_replaced
  <2>2. Reads(t, f, p \o Rest(t))
    BY <1>2, <1>5 DEF ws_participant_is_replaced
  <2>. QED
    BY <2>1, <2>2, UntouchedAll DEF Peaceful
<1>7. Op(d, "add", u, "ws") \in Ops
  BY <1>3, OpFacts DEF SessionKinds
<1>8. p \in Seq(Ops) /\ \A o \in OpsOf(p) : o.c = d /\ o.do \in {"sfu_remove", "add"}
  <2>1. CASE old # None /\ old.session = "ws"
    BY <1>5, <2>1, NoList
  <2>2. CASE old = None
    <3>1. p = <<>> \o <<Op(d, "add", u, "ws")>>
      BY <1>5, <2>2
    <3>. QED
      BY <1>7, <3>1, OneList, NoList, OpsConcat, OpFields
  <2>3. CASE old # None /\ old.session # "ws"
    <3>1. p = <<Op(d, "sfu_remove", u, old.session)>> \o <<Op(d, "add", u, "ws")>>
      BY <1>5, <2>3
    <3>2. old.session \in SessionKinds
      BY <1>4, <2>3 DEF Participant
    <3>3. Op(d, "sfu_remove", u, old.session) \in Ops
      BY <1>3, <3>2, OpFacts
    <3>. QED
      BY <1>7, <3>1, <3>3, OneList, OpsConcat, OpFields
  <2>. QED
    BY <2>1, <2>2, <2>3
<1>9. \A o \in OpsOf(p) : o.do \in Early /\ o.do \in Living \ {"post", "thread", "sharer", "remove", "authorize"}
  BY <1>8 DEF Early, Living
<1>. QED
  BY <1>1, <1>2, <1>6, <1>8, <1>9, LiveStep

LEMMA StepSfu ==
    ASSUME Peaceful, NEW t \in Tasks, get_or_create_sfu(t) \/ sfu_remove_participant(t) PROVE Peaceful'
<1>1. At(t, Living) /\ Head1(t).do \in {"sfu_add", "sfu_remove"} /\ Head1(t).do \notin {"post", "thread"}
  BY AtLiving DEF get_or_create_sfu, sfu_remove_participant, At, Living
<1>2. PICK d \in CallIds : AtWork(t, d) /\ Head1(t).c = d /\ task[t].node \in Nodes
  BY <1>1, AtWorkFacts
<1>3. CallsType
  BY DEF Peaceful
<1>4. Reads(t, {}, <<>> \o Rest(t)) /\ UNCHANGED <<ManagerVars, posts>>
  BY DEF get_or_create_sfu, sfu_remove_participant, Done, Then, Continue
<1>5. sfu' = sfu \/ \E x : sfu' = [sfu EXCEPT ![task[t].node][d] = x]
  BY <1>2 DEF get_or_create_sfu, sfu_remove_participant
<1>6. /\ DOMAIN sfu' = Nodes /\ \A n \in Nodes : DOMAIN sfu'[n] = CallIds
      /\ \A n \in Nodes, c \in CallIds \ {d} : sfu'[n][c] = sfu[n][c]
  <2>0. DOMAIN sfu = Nodes /\ \A n \in Nodes : DOMAIN sfu[n] = CallIds
    BY <1>3 DEF CallsType
  <2>1. CASE sfu' = sfu
    BY <2>0, <2>1
  <2>2. ASSUME NEW x, sfu' = [sfu EXCEPT ![task[t].node][d] = x]
        PROVE  /\ DOMAIN sfu' = Nodes /\ \A n \in Nodes : DOMAIN sfu'[n] = CallIds
               /\ \A n \in Nodes, c \in CallIds \ {d} : sfu'[n][c] = sfu[n][c]
    <3>1. PICK m : m = task[t].node
      OBVIOUS
    <3>2. sfu' = [sfu EXCEPT ![m] = [sfu[m] EXCEPT ![d] = x]]
      BY <2>2, <3>1
    <3>3. sfu'[m] = [sfu[m] EXCEPT ![d] = x] /\ DOMAIN sfu' = Nodes /\ \A n \in Nodes \ {m} : sfu'[n] = sfu[n]
      BY <1>2, <2>0, <3>1, <3>2
    <3>. QED
      BY <1>2, <2>0, <3>1, <3>3
  <2>. QED
    BY <1>5, <2>1, <2>2
<1>7. Untouched
  BY <1>4, <1>6 DEF Untouched
<1>8. PICK p, f : p = <<>> /\ f = {}
  OBVIOUS
<1>9. p \in Seq(Ops) /\ OpsOf(p) = {} /\ Reads(t, f, p \o Rest(t))
  BY <1>4, <1>8, NoList
<1>10. \A n \in Nodes, c \in CallIds \ {d} : sfu'[n][c] = sfu[n][c]
  BY <1>6
<1>11. /\ \A x \in f : x = <<d, redis[d]>>
       /\ \A o \in OpsOf(p) : o.c = d /\ o.do \in Living \ {"post", "thread", "sharer", "remove", "authorize"}
       /\ redis[d].thread = None => \A o \in OpsOf(p) : o.do \in Early
  BY <1>8, <1>9
<1>12. AtWork(t, d) /\ Head1(t).do \notin {"post", "thread"} /\ p \in Seq(Ops) /\ Reads(t, f, p \o Rest(t))
  BY <1>1, <1>2, <1>9
<1>. QED
  BY <1>7, <1>10, <1>11, <1>12, LiveStep

LEMMA CountFacts == ASSUME NEW call PROVE Cardinality(In(call)) \in Nat
<1>1. In(call) \subseteq Users
  BY DEF In
<1>2. IsFiniteSet(In(call))
  BY <1>1, CallsAssumption, FS_Subset
<1>. QED
  BY <1>2, FS_CardinalityType

\* A state is broadcast and a timeout armed.
LEMMA StateTimeout ==
    ASSUME NEW d \in CallIds, NEW i
    PROVE  /\ State(d) \o TimeoutIf(d, i) \in Seq(Ops)
           /\ \A o \in OpsOf(State(d) \o TimeoutIf(d, i)) : o.c = d /\ o.do \in {"state", "timer"}
<1>1. Op(d, "state", None, None) \in Ops /\ Op(d, "timer", None, None) \in Ops
  BY OpFacts
<1>2. State(d) \in Seq(Ops) /\ OpsOf(State(d)) = {Op(d, "state", None, None)}
  BY <1>1, OneList DEF State
<1>3. TimeoutIf(d, i) \in Seq(Ops) /\ OpsOf(TimeoutIf(d, i)) \subseteq {Op(d, "timer", None, None)}
  BY <1>1, OneList, NoList DEF TimeoutIf, Timeout
<1>. QED
  BY <1>2, <1>3, OpsConcat, OpFields

LEMMA StepReconcile ==
    ASSUME Peaceful, NEW t \in Tasks, reconcile_after_participant_left(t) PROVE Peaceful'
<1>1. At(t, Living) /\ Head1(t).do = "reconcile" /\ Head1(t).do \notin Early \cup {"post", "thread"}
  BY AtLiving DEF reconcile_after_participant_left, At, Living, Early
<1>2. PICK d \in CallIds : /\ AtWork(t, d) /\ get_call(task[t].node, d) = redis[d] /\ Head1(t).c = d
                           /\ redis[d] # None /\ CallOK(redis[d])
                           /\ \A x \in Found({d}) : x = <<d, redis[d]>>
  BY <1>1, AtWorkFacts
<1>3. redis[d].thread # None
  BY <1>1, <1>2, HasThread
<1>. PICK call : call = redis[d]
  OBVIOUS
<1>4. PICK p : p = IF In(call) # {} /\ (call.host = Head1(t).u \/ HostIsStale(call))
                   THEN <<Op(d, "host", select_next_host(call), None), Op(d, "count", None, Cardinality(In(call)))>>
                   ELSE State(d) \o TimeoutIf(d, Cardinality(In(call)))
  OBVIOUS
<1>. PICK f : f = Found({d})
  OBVIOUS
<1>5. Reads(t, f, p \o Rest(t)) /\ Untouched /\ sfu' = sfu
  <2>1. UNCHANGED <<ManagerVars, sfu, posts>>
    BY DEF reconcile_after_participant_left
  <2>2. Reads(t, f, p \o Rest(t))
    BY <1>2, <1>4 DEF reconcile_after_participant_left
  <2>. QED
    BY <2>1, <2>2, UntouchedAll DEF Peaceful
<1>6. p \in Seq(Ops) /\ \A o \in OpsOf(p) : o.c = d /\ o.do \in {"host", "count", "state", "timer"}
  <2>1. CASE In(call) # {} /\ (call.host = Head1(t).u \/ HostIsStale(call))
    <3>1. PICK u \in In(call) : TRUE
      BY <2>1
    <3>2. call.joined \in Seq(Users) /\ \E i \in 1..Len(call.joined) : call.joined[i] = u
      BY <1>2 DEF CallOK, Call
    <3>3. select_next_host(call) \in Users
      BY <3>2 DEF select_next_host
    <3>4. Op(d, "host", select_next_host(call), None) \in Ops /\ Op(d, "count", None, Cardinality(In(call))) \in Ops
      BY <3>3, OpFacts, CountFacts
    <3>. QED
      <4>1. PICK a, b : a = Op(d, "host", select_next_host(call), None) /\ b = Op(d, "count", None, Cardinality(In(call)))
        OBVIOUS
      <4>2. a.c = d /\ a.do = "host" /\ b.c = d /\ b.do = "count" /\ a \in Ops /\ b \in Ops /\ p = <<a, b>>
        BY <1>4, <2>1, <3>4, <4>1, OpFields
      <4>3. <<a, b>> \in Seq(Ops) /\ OpsOf(<<a, b>>) = {a, b}
        BY <4>2, OpsTwo
      <4>. QED
        BY <4>2, <4>3
  <2>2. CASE ~(In(call) # {} /\ (call.host = Head1(t).u \/ HostIsStale(call)))
    BY <1>4, <2>2, StateTimeout
  <2>. QED
    BY <2>1, <2>2
<1>7. \A o \in OpsOf(p) : o.do \in Living \ {"post", "thread", "sharer", "remove", "authorize"}
  BY <1>6 DEF Living
<1>. QED
  BY <1>1, <1>2, <1>3, <1>5, <1>6, <1>7, LiveStep

LEMMA StepCount ==
    ASSUME Peaceful, NEW t \in Tasks, participants_are_counted(t) PROVE Peaceful'
<1>1. At(t, Living) /\ Head1(t).do = "count" /\ Head1(t).do \notin Early \cup {"post", "thread"}
  BY AtLiving DEF participants_are_counted, At, Living, Early
<1>2. PICK d \in CallIds : /\ AtWork(t, d) /\ Head1(t).c = d
                           /\ \A x \in Found({d}) : x = <<d, redis[d]>>
  BY <1>1, AtWorkFacts
<1>3. redis[d].thread # None
  BY <1>1, <1>2, HasThread
<1>4. PICK i : Reads(t, Found({d}), State(d) \o TimeoutIf(d, i) \o Rest(t))
  BY <1>2 DEF participants_are_counted
<1>5. UNCHANGED <<ManagerVars, sfu, posts>>
  BY DEF participants_are_counted
<1>6. PICK p, f : p = State(d) \o TimeoutIf(d, i) /\ f = Found({d})
  OBVIOUS
<1>7. p \in Seq(Ops) /\ Reads(t, f, p \o Rest(t)) /\ \A o \in OpsOf(p) : o.c = d /\ o.do \in {"state", "timer"}
  BY <1>4, <1>6, StateTimeout
<1>8. \A o \in OpsOf(p) : o.do \in Living \ {"post", "thread", "sharer", "remove", "authorize"}
  BY <1>7 DEF Living
<1>9. Untouched /\ sfu' = sfu
  BY <1>5, UntouchedAll DEF Peaceful
<1>. QED
  BY <1>1, <1>2, <1>3, <1>6, <1>7, <1>8, <1>9, LiveStep

LEMMA StepTimeout ==
    ASSUME Peaceful, NEW t \in Tasks, schedule_timeout(t) PROVE Peaceful'
<1>1. At(t, Living) /\ Head1(t).do = "timer" /\ Head1(t).do \notin {"post", "thread"}
  BY AtLiving DEF schedule_timeout, At, Living
<1>2. PICK d \in CallIds : AtWork(t, d)
  BY <1>1, AtWorkFacts
<1>3. PICK p, f : p = <<>> /\ f = {}
  OBVIOUS
<1>4. Reads(t, f, p \o Rest(t)) /\ UNCHANGED <<ManagerVars, sfu, posts>>
  BY <1>3 DEF schedule_timeout, Done, Then, Continue
<1>5. Untouched /\ sfu' = sfu
  BY <1>4, UntouchedAll DEF Peaceful
<1>6. p \in Seq(Ops) /\ OpsOf(p) = {}
  BY <1>3, NoList
<1>. QED
  BY <1>1, <1>2, <1>3, <1>4, <1>5, <1>6, LiveStep

\* Redis will hold R and ch after the command i and what follows it, and the nodes hold them already.
Holds(i, R, ch) ==
    /\ i \in Persists \cup Removes \cup {None}
    /\ AfterRedis(i, redis) = R /\ AfterChannel(i, channel) = ch
    /\ AfterActive(i, active) = {x \in CallIds : R[x] # None}
    /\ Stores(R, ch) /\ DOMAIN local = Nodes
    /\ \A m \in Nodes : local[m] = [calls |-> R, index |-> ch]

\* The whole value of a call is written to the node's copy; its commands are still to be sent.
LEMMA Writes ==
    ASSUME Settled, OneNode, NEW n \in Nodes, NEW c \in CallIds, NEW call \in Call, NEW old \in Call \cup {None},
           upsert_call_local(n, c, call), redis' = redis, channel' = channel, active' = active
    PROVE  \E i, R : /\ i = persist_call(c, call, old) /\ Holds(i, R, c)'
                     /\ R[c] = call /\ \A x \in CallIds \ {c} : R[x] = redis[x]
<1>. PICK i, R : i = persist_call(c, call, old) /\ R = [redis EXCEPT ![c] = call]
  OBVIOUS
<1>1. /\ redis \in [CallIds -> Call \cup {None}] /\ DOMAIN local = Nodes /\ local[n].calls = redis
      /\ active = {x \in CallIds : redis[x] # None} /\ \A m \in Nodes : m = n
  BY DEF Settled, CallsType, Stores, OneNode
<1>2. i \in Persists /\ i.at = "set" /\ i.c = c /\ i.call = call
  BY DEF persist_call, Command, Persists
<1>3. i # None
  BY <1>2, CommandFacts
<1>4. Stores(R, c) /\ R[c] = call /\ \A x \in CallIds \ {c} : R[x] = redis[x]
  BY <1>1 DEF Stores
<1>5. AfterRedis(i, redis') = R /\ AfterChannel(i, channel') = c /\ AfterActive(i, active') = active \cup {c}
  BY <1>2, <1>3 DEF AfterRedis, AfterChannel, AfterActive
<1>6. call # None
  BY CallsAssumption
<1>7. active \cup {c} = {x \in CallIds : R[x] # None}
  BY <1>1, <1>4, <1>6
<1>8. DOMAIN local' = Nodes /\ \A m \in Nodes : local'[m] = [calls |-> R, index |-> c]
  <2>1. local' = [local EXCEPT ![n] = [calls |-> [local[n].calls EXCEPT ![c] = call], index |-> c]]
    BY DEF upsert_call_local
  <2>. QED
    BY <1>1, <2>1
<1>9. Holds(i, R, c)'
  BY <1>2, <1>4, <1>5, <1>7, <1>8 DEF Holds
<1>. QED
  BY <1>4, <1>9

LEMMA StepRead ==
    ASSUME Peaceful, NEW t \in Tasks, mutate_call_reads(t) PROVE Peaceful'
<1>1. At(t, Living)
  BY AtLiving DEF mutate_call_reads, Living, MutateOps
<1>2. PICK d \in CallIds : /\ AtWork(t, d) /\ get_call(task[t].node, d) = redis[d] /\ Head1(t).c = d
                           /\ redis[d] # None /\ channel = d /\ task[t].node \in Nodes
                           /\ \A x \in Found({d}) : x = <<d, redis[d]>>
  BY <1>1, AtWorkFacts
<1>. PICK q : q = task[t]
  OBVIOUS
<1>. PICK f, r : f = Found({d}) /\ r = redis[d]
  OBVIOUS
<1>3. /\ Busy(t) /\ Settled /\ CallsType /\ IsTask(q) /\ q.todo \in Seq(Ops) /\ q.todo # <<>> /\ q.io = None
      /\ DOMAIN task = Tasks
  BY <1>1, AtSettled DEF Settled, CallsType
<1>4. UNCHANGED <<ManagerVars, sfu, posts>> /\ task' = [task EXCEPT ![t].value = r, ![t].found = f]
  BY <1>2 DEF mutate_call_reads
<1>5. PICK k : k = TaskOf(q.node, q.http, q.snap, r, q.todo, f, q.io)
  OBVIOUS
<1>6. [q EXCEPT !.value = r, !.found = f] = k
  BY <1>3, <1>5, ValueForm
<1>7. IsTask(k) /\ k.todo = q.todo /\ k.snap = q.snap /\ k.value = r /\ k.found = f /\ k.io = None
  <2>1. q.node \in Nodes /\ q.io \in Persists \cup Removes \cup {None}
    BY <1>2, <1>3
  <2>. QED
    BY <1>3, <1>5, <2>1, TaskOfTask
<1>8. Becomes(t, k)
  <2>1. ~IsDone(k)
    BY <1>3, <1>7 DEF IsDone
  <2>2. task' = [task EXCEPT ![t] = [q EXCEPT !.value = r, !.found = f]]
    BY <1>3, <1>4
  <2>. QED
    BY <1>6, <2>1, <2>2 DEF Becomes
<1>9. Lives(d, k, redis, channel, posts)
  BY <1>2, <1>7 DEF AtWork, Lives
<1>10. Good(k, redis, channel, sfu', posts')
  BY <1>2, <1>4, <1>9 DEF Good, InPhase, AtWork
<1>11. Agreed(k)'
  <2>1. \A p \in k.found : p = <<channel, redis[channel]>> /\ channel # None
    BY <1>2, <1>7, CallsAssumption
  <2>. QED
    BY <1>3, <1>4, <1>7, <1>10, <2>1, AgreedSame
<1>. QED
  BY <1>3, <1>4, <1>7, <1>8, <1>11, Moves DEF ManagerVars, CallsType

\* What a task that writes call d, and goes on with the list r, has to establish.
LEMMA WriteFacts ==
    ASSUME Peaceful, OneNode, NEW t \in Tasks, NEW do, At(t, do), NEW d \in CallIds, NEW m \in Call, NEW old \in Call \cup {None},
           NEW r \in Seq(Ops), upsert_call_local(task[t].node, d, m), Sends(t, persist_call(d, m, old), r),
           UNCHANGED <<redis, channel, active, sfu, posts>>
    PROVE  \E k, R : /\ k.todo = r /\ k.value = None /\ k.snap = task[t].snap
                     /\ R[d] = m /\ \A x \in CallIds \ {d} : R[x] = redis[x]
                     /\ Good(k, R, d, sfu, posts) => Peaceful'
<1>1. Settled /\ CallsType /\ Busy(t) /\ task[t].found = {}
  BY AtSettled DEF Settled
<1>2. PICK n : n = task[t].node
  OBVIOUS
<1>3. n \in Nodes /\ upsert_call_local(n, d, m) /\ redis' = redis /\ channel' = channel /\ active' = active
  BY <1>2, AtSettled
<1>4. PICK i, R : /\ i = persist_call(d, m, old) /\ Holds(i, R, d)'
                  /\ R[d] = m /\ \A x \in CallIds \ {d} : R[x] = redis[x]
  BY <1>1, <1>3, Writes
<1>5. PICK k : /\ Becomes(t, k) /\ IsTask(k) /\ k.todo = r /\ k.value = None /\ k.found = task[t].found /\ k.io = i
               /\ k.snap = task[t].snap
  <2>1. i \in Persists \cup Removes \cup {None} /\ Sends(t, i, r)
    BY <1>4 DEF Holds
  <2>. QED
    BY <1>1, <2>1, SendsFacts
<1>6. ASSUME Good(k, R, d, sfu, posts) PROVE Peaceful'
  <2>1. Agreed(k)'
    BY <1>1, <1>4, <1>5, <1>6 DEF Agreed, Copied, Holds
  <2>2. Stores(redis', channel') /\ DOMAIN local' = Nodes
    BY <1>1, <1>4 DEF Holds, CallsType
  <2>. QED
    BY <1>1, <1>5, <2>1, <2>2, Moves DEF CallsType
<1>. QED
  BY <1>4, <1>5, <1>6

LEMMA StepWrite ==
    ASSUME Peaceful, OneNode, NEW t \in Tasks, mutate_call_writes(t) PROVE Peaceful'
<1>1. At(t, Living) /\ Head1(t).do \in MutateOps
  BY AtLiving DEF mutate_call_writes, At, Living, MutateOps
<1>2. PICK d \in CallIds : /\ AtWork(t, d) /\ Head1(t).c = d /\ Head1(t) \in Ops /\ CallOK(redis[d]) /\ task[t].node \in Nodes
  BY <1>1, AtWorkFacts
<1>. PICK l : l = task[t].todo
  OBVIOUS
<1>. PICK o : o = Head(l)
  OBVIOUS
<1>. PICK m : m = Mutator(redis[d], o)
  OBVIOUS
<1>3. /\ l \in Seq(Ops) /\ l # <<>> /\ o = Head1(t) /\ Tail(l) \in Seq(Ops) /\ OpsOf(l) = {o} \cup OpsOf(Tail(l))
      /\ Settled /\ Busy(t) /\ task[t].found = {}
  BY <1>1, AtSettled, OpsPop
<1>4. Lives(d, task[t], redis, channel, posts)
  BY <1>2 DEF AtWork
<1>5. task[t].value = redis[d]
  BY <1>4 DEF Lives, mutate_call_writes
<1>6. upsert_call_local(task[t].node, d, m) /\ UNCHANGED <<redis, channel, active, sfu, posts>>
  BY <1>2, <1>3, <1>5 DEF mutate_call_writes
<1>7. Sends(t, persist_call(d, m, redis[d]), Tail(l))
  BY <1>2, <1>3, <1>5 DEF mutate_call_writes, Rest
<1>8. o.do = "sharer" => o.u \in In(redis[d]) \cup {None}
  BY <1>3, <1>4 DEF Lives, Sharers
<1>9. /\ CallOK(m) /\ (o.do # "remove" => In(redis[d]) \subseteq In(m))
      /\ m.thread = IF o.do = "thread" THEN o.v ELSE redis[d].thread
  BY <1>1, <1>2, <1>3, <1>8, MutatorFacts
<1>10. PICK k, R :
          /\ k.todo = Tail(l) /\ k.value = None /\ k.snap = task[t].snap
          /\ R[d] = m /\ \A x \in CallIds \ {d} : R[x] = redis[x]
          /\ Good(k, R, d, sfu, posts) => Peaceful'
  <2>1. PICK old, r : old = redis[d] /\ r = Tail(l)
    OBVIOUS
  <2>2. old \in Call \cup {None} /\ m \in Call /\ r \in Seq(Ops) /\ Sends(t, persist_call(d, m, old), r)
    BY <1>2, <1>3, <1>7, <1>9, <2>1 DEF CallOK
  <2>3. PICK k, R :
           /\ k.todo = r /\ k.value = None /\ k.snap = task[t].snap
           /\ R[d] = m /\ \A x \in CallIds \ {d} : R[x] = redis[x]
           /\ Good(k, R, d, sfu, posts) => Peaceful'
    BY <1>1, <1>6, <2>2, WriteFacts
  <2>. QED
    BY <2>1, <2>3
<1>13. Does(Tail(l), d)
  BY <1>3, <1>4 DEF Lives, Does
<1>14. Threaded(Tail(l), m, posts[d])
  <2>1. CASE Bound(redis[d], posts[d]) /\ ~Has(l, "post") /\ ~Has(l, "thread")
    BY <1>3, <1>9, <2>1 DEF Threaded, Has, Bound
  <2>2. CASE redis[d].thread = None /\ posts[d] = <<>> /\ Awaiting(l) /\ ~Has(l, "thread")
    <3>1. o.do # "post" /\ o.do # "thread"
      BY <1>1, <1>3, <2>2 DEF MutateOps, Has
    <3>2. Awaiting(Tail(l))
      BY <1>3, <2>2, <3>1, AwaitingPop
    <3>. QED
      BY <1>3, <1>9, <2>2, <3>1, <3>2 DEF Threaded, Has
  <2>3. CASE /\ Len(posts[d]) = 1 /\ o.do = "thread" /\ o.v = 1
             /\ ~Has(l, "post") /\ ~Has(Tail(l), "thread")
    BY <1>3, <1>9, <2>3 DEF Threaded, Has, Bound
  <2>. QED
    BY <1>4, <2>1, <2>2, <2>3 DEF Lives, Threaded
<1>15. Sharers(Tail(l), m)
  BY <1>3, <1>4, <1>9 DEF Lives, Sharers, Has
<1>16. Has(Tail(l), "authorize") => k.snap \in Call
  BY <1>3, <1>4, <1>10, NoList DEF Lives, Has
<1>17. Lives(d, k, R, d, posts)
  BY <1>9, <1>10, <1>13, <1>14, <1>15, <1>16 DEF Lives
<1>18. \A c \in CallIds \ {d} : Gone(c, R, sfu, posts)
  BY <1>2, <1>10 DEF AtWork, Gone
<1>19. Good(k, R, d, sfu, posts)
  BY <1>17, <1>18 DEF Good, InPhase
<1>. QED
  BY <1>10, <1>19


\* What a task that sends nothing, and goes on with the list l, has to establish.
LEMMA ReadStep ==
    ASSUME Peaceful, NEW t \in Tasks, NEW do, At(t, do), NEW l \in Seq(Ops), NEW f, Reads(t, f, l), UNCHANGED ManagerVars,
           \A p \in f : p = <<channel, redis[channel]>> /\ channel # None,
           DOMAIN sfu' = Nodes, \A n \in Nodes : DOMAIN sfu'[n] = CallIds, posts' \in [CallIds -> Seq({"open", "ended"})]
    PROVE  \E k : /\ k.todo = l /\ k.value = None /\ k.snap = task[t].snap
                  /\ Good(k, redis, channel, sfu', posts') => Peaceful'
<1>1. Settled /\ CallsType /\ Busy(t) /\ task[t].io = None
  BY AtSettled DEF Settled
<1>2. PICK k : /\ Becomes(t, k) /\ IsTask(k) /\ k.todo = l /\ k.value = None /\ k.found = f /\ k.io = task[t].io
               /\ k.snap = task[t].snap
  BY <1>1, ReadsFacts
<1>3. ASSUME Good(k, redis, channel, sfu', posts') PROVE Peaceful'
  <2>1. Agreed(k)'
    BY <1>1, <1>2, <1>3, AgreedSame
  <2>2. Stores(redis', channel') /\ DOMAIN local' = Nodes
    BY <1>1 DEF ManagerVars, CallsType
  <2>. QED
    BY <1>1, <1>2, <2>1, <2>2, Moves
<1>. QED
  BY <1>2, <1>3

LEMMA StepPost ==
    ASSUME Peaceful, NEW t \in Tasks, create_call_thread_post(t) PROVE Peaceful'
<1>1. At(t, Living) /\ Head1(t).do = "post"
  BY AtLiving DEF create_call_thread_post, At, Living
<1>2. PICK d \in CallIds : AtWork(t, d) /\ Head1(t).c = d
  BY <1>1, AtWorkFacts
<1>. PICK l : l = task[t].todo
  OBVIOUS
<1>. PICK r : r = Tail(l)
  OBVIOUS
<1>. PICK o : o = Op(d, "thread", None, 1)
  OBVIOUS
<1>3. l \in Seq(Ops) /\ l # <<>> /\ Head(l).do = "post" /\ r \in Seq(Ops) /\ OpsOf(l) = {Head(l)} \cup OpsOf(r) /\ CallsType
  BY <1>1, AtSettled, OpsPop DEF Settled
<1>4. Lives(d, task[t], redis, channel, posts)
  BY <1>2 DEF AtWork
<1>5. redis[d].thread = None /\ posts[d] = <<>> /\ Awaiting(l) /\ ~Has(l, "thread")
  BY <1>3, <1>4 DEF Lives, Threaded, Has
<1>6. ~Has(r, "post")
  BY <1>3, <1>5, AwaitingPop
<1>7. posts' = [posts EXCEPT ![d] = <<"open">>] /\ Reads(t, {}, <<o>> \o r) /\ UNCHANGED <<ManagerVars, sfu>>
  <2>1. Append(posts[d], "open") = <<"open">> /\ Len(posts[d]) + 1 = 1
    BY <1>5
  <2>. QED
    BY <1>2, <2>1 DEF create_call_thread_post, Then, Continue, Rest
<1>8. o \in Ops /\ o.c = d /\ o.do = "thread" /\ o.v = 1
  BY OpFacts, OpFields
<1>9. /\ <<o>> \o r \in Seq(Ops) /\ <<o>> \o r # <<>> /\ Head(<<o>> \o r) = o /\ Tail(<<o>> \o r) = r
      /\ OpsOf(<<o>> \o r) = {o} \cup OpsOf(r)
  BY <1>3, <1>8, OpsCons
<1>10. PICK w, f : w = <<o>> \o r /\ f = {}
  OBVIOUS
<1>12. posts' \in [CallIds -> Seq({"open", "ended"})] /\ posts'[d] = <<"open">> /\ \A c \in CallIds \ {d} : posts'[c] = posts[c]
  BY <1>3, <1>7 DEF CallsType
<1>11. PICK k : /\ k.todo = w /\ k.value = None /\ k.snap = task[t].snap
                /\ Good(k, redis, channel, sfu', posts') => Peaceful'
  <2>1. w \in Seq(Ops) /\ Reads(t, f, w) /\ UNCHANGED ManagerVars /\ f = {}
    BY <1>7, <1>9, <1>10
  <2>2. DOMAIN sfu' = Nodes /\ \A n \in Nodes : DOMAIN sfu'[n] = CallIds
    BY <1>3, <1>7 DEF CallsType
  <2>. QED
    BY <1>1, <1>12, <2>1, <2>2, ReadStep
<1>13. Threaded(w, redis[d], posts'[d])
  <2>1. Len(posts'[d]) = 1
    BY <1>12
  <2>. QED
    BY <1>3, <1>5, <1>6, <1>8, <1>9, <1>10, <2>1 DEF Threaded, Has
<1>14. Does(w, d)
  BY <1>3, <1>4, <1>8, <1>9, <1>10 DEF Lives, Does, Living
<1>15. Sharers(w, redis[d])
  BY <1>3, <1>4, <1>8, <1>9, <1>10 DEF Lives, Sharers, Has
<1>16. Has(w, "authorize") => k.snap \in Call
  BY <1>3, <1>4, <1>8, <1>9, <1>10, <1>11 DEF Lives, Has
<1>18. Lives(d, k, redis, channel, posts')
  BY <1>4, <1>11, <1>13, <1>14, <1>15, <1>16 DEF Lives
<1>19. \A c \in CallIds \ {d} : Gone(c, redis, sfu', posts')
  BY <1>2, <1>7, <1>12 DEF AtWork, Gone
<1>20. Good(k, redis, channel, sfu', posts')
  BY <1>2, <1>18, <1>19 DEF Good, InPhase
<1>. QED
  BY <1>11, <1>20

\* A task that goes on with another copy of the call.
LEMMA SnapTask ==
    ASSUME NEW q, IsTask(q), q.node \in Nodes, NEW s, NEW l \in Seq(Ops), NEW f
    PROVE  \E k : /\ k = Snapped(q, s, l, f) /\ IsTask(k)
                  /\ k.todo = l /\ k.snap = s /\ k.value = q.value /\ k.found = f /\ k.io = q.io
<1>1. PICK n, h, v, i : n = q.node /\ h = q.http /\ v = q.value /\ i = q.io
  OBVIOUS
<1>2. Snapped(q, s, l, f) = TaskOf(n, h, s, v, l, f, i)
  BY <1>1, SnapForm
<1>3. n \in Nodes /\ i \in Persists \cup Removes \cup {None}
  BY <1>1 DEF IsTask
<1>4. PICK k : k = TaskOf(n, h, s, v, l, f, i)
  OBVIOUS
<1>5. IsTask(k) /\ k.todo = l /\ k.value = v /\ k.snap = s /\ k.found = f /\ k.io = i
  BY <1>3, <1>4, TaskOfTask
<1>6. k = Snapped(q, s, l, f)
  BY <1>2, <1>4
<1>. QED
  BY <1>1, <1>5, <1>6

LEMMA StepReread ==
    ASSUME Peaceful, NEW t \in Tasks, reread(t) PROVE Peaceful'
<1>1. At(t, Living) /\ Head1(t).do = "reread"
  BY AtLiving DEF reread, At, Living
<1>2. PICK d \in CallIds : /\ AtWork(t, d) /\ get_call(task[t].node, d) = redis[d] /\ Head1(t).c = d
                           /\ redis[d] # None /\ channel = d /\ CallOK(redis[d]) /\ task[t].node \in Nodes
                           /\ \A x \in Found({d}) : x = <<d, redis[d]>>
  BY <1>1, AtWorkFacts
<1>. PICK q : q = task[t]
  OBVIOUS
<1>0. PICK f, r, l : f = Found({d}) /\ r = redis[d] /\ l = Tail(q.todo)
  OBVIOUS
<1>3. /\ Busy(t) /\ Settled /\ CallsType /\ IsTask(q) /\ q.todo \in Seq(Ops) /\ q.todo # <<>> /\ q.io = None
      /\ l \in Seq(Ops) /\ Head1(t) = Head(q.todo)
  BY <1>0, <1>1, AtSettled, OpsPop DEF Settled, CallsType
<1>4. UNCHANGED <<ManagerVars, sfu, posts>> /\ Becomes(t, [q EXCEPT !.snap = r, !.todo = l, !.found = f])
  BY <1>0, <1>2 DEF reread, Rest
<1>5. PICK k : /\ k = Snapped(q, r, l, f) /\ IsTask(k)
               /\ k.todo = l /\ k.snap = r /\ k.value = q.value /\ k.found = f /\ k.io = q.io
  <2>1. IsTask(q) /\ q.node \in Nodes /\ l \in Seq(Ops)
    BY <1>2, <1>3
  <2>. QED
    BY <2>1, SnapTask
<1>7. IsTask(k) /\ k.todo = l /\ k.snap = r /\ k.value = q.value /\ k.found = f /\ k.io = None
  BY <1>3, <1>5
<1>8. Becomes(t, k)
  BY <1>4, <1>5 DEF Snapped
<1>9. Lives(d, q, redis, channel, posts)
  BY <1>2 DEF AtWork
<1>10. k.todo = <<>> \o Tail(q.todo) /\ k.value \in {None, redis[d]} /\ k.snap \in Call
  BY <1>0, <1>2, <1>3, <1>7, <1>9 DEF Lives, CallOK
<1>11. Lives(d, k, redis, channel, posts)
  BY <1>1, <1>3, <1>9, <1>10, LivesThen, NoList
<1>12. Good(k, redis, channel, sfu', posts')
  BY <1>2, <1>4, <1>11 DEF Good, InPhase, AtWork
<1>13. Agreed(k)'
  <2>1. \A p \in k.found : p = <<channel, redis[channel]>> /\ channel # None
    BY <1>0, <1>2, <1>7, CallsAssumption
  <2>. QED
    BY <1>3, <1>4, <1>7, <1>12, <2>1, AgreedSame
<1>. QED
  BY <1>3, <1>4, <1>7, <1>8, <1>13, Moves DEF ManagerVars, CallsType

-----------------------------------------------------------------------------
(* A call begins and ends. *)

LEMMA NewCallOK ==
    ASSUME NEW u \in Users, NEW th \in {None, NamedThread}
    PROVE  CallOK(NewCall(u, th)) /\ NewCall(u, th) \in Call /\ NewCall(u, th).thread = th /\ In(NewCall(u, th)) = {}
<1>1. PICK call : call = NewCall(u, th)
  OBVIOUS
<1>2. /\ call.host = u /\ call.joined = <<>> /\ call.who = [x \in Users |-> None] /\ call.sharer = None /\ call.thread = th
      /\ call = [host |-> u, joined |-> <<>>, who |-> [x \in Users |-> None], sharer |-> None, thread |-> th]
  BY <1>1 DEF NewCall
<1>3. /\ <<>> \in Seq(Users) /\ [x \in Users |-> None] \in [Users -> Participant \cup {None}]
      /\ th \in Nat \cup {None}
  BY DEF NamedThread
<1>4. call \in Call
  BY <1>2, <1>3 DEF Call
<1>5. In(call) = {}
  BY <1>2 DEF In
<1>. QED
  BY <1>1, <1>2, <1>4, <1>5 DEF CallOK

LEMMA StepCreate ==
    ASSUME Peaceful, OneNode, NEW t \in Tasks, add_call(t) PROVE Peaceful'
<1>1. At(t, {"create"}) /\ Head1(t).do = "create" /\ Head1(t).do \notin Living
  BY DEF add_call, At, Living
<1>2. PICK d \in CallIds : /\ InPhase(d, task[t], redis, channel, sfu, posts)
                           /\ \A c \in CallIds \ {d} : Gone(c, redis, sfu, posts)
                           /\ Head(task[t].todo).c = d
  BY <1>1, AboutOne
<1>. PICK l : l = task[t].todo
  OBVIOUS
<1>0. PICK r, u, th : r = Tail(l) /\ u = Head1(t).u /\ th = Head1(t).v
  OBVIOUS
<1>3. /\ l \in Seq(Ops) /\ l # <<>> /\ Head(l) \in Ops /\ Head(l) = Head1(t) /\ r \in Seq(Ops) /\ Head(l) \in OpsOf(l)
  BY <1>0, <1>1, AtSettled, OpsPop
<1>4. Starts(d, task[t], redis, channel, sfu, posts)
  <2>1. ~Marks(d, task[t], redis, channel, sfu, posts)
    BY <1>1, <1>3, OpFields DEF Marks
  <2>. QED
    BY <1>1, <1>2, <1>3, <2>1 DEF InPhase, Lives, Does, Closes
<1>5. u \in Users /\ th \in {None, NamedThread}
  BY <1>0, <1>1, <1>3, OpTypes
<1>6. PICK m, old : m = NewCall(u, th) /\ old = None
  OBVIOUS
<1>7. CallOK(m) /\ m.thread = th /\ In(m) = {} /\ m \in Call
  BY <1>5, <1>6, NewCallOK
<1>8. /\ upsert_call_local(task[t].node, d, m) /\ Sends(t, persist_call(d, m, old), r)
      /\ UNCHANGED <<redis, channel, active, sfu, posts>>
  BY <1>0, <1>2, <1>3, <1>6 DEF add_call, Rest
<1>9. PICK k, R : /\ k.todo = r /\ k.value = None /\ k.snap = task[t].snap
                  /\ R[d] = m /\ \A x \in CallIds \ {d} : R[x] = redis[x]
                  /\ Good(k, R, d, sfu, posts) => Peaceful'
  <2>1. r \in Seq(Ops) /\ old \in Call \cup {None} /\ m \in Call
    BY <1>3, <1>6, <1>7
  <2>. QED
    <3>1. UNCHANGED <<redis, channel, active, sfu, posts>> /\ upsert_call_local(task[t].node, d, m) /\ Sends(t, persist_call(d, m, old), r)
      BY <1>8
    <3>2. PICK do : do = {"create"} /\ At(t, do)
      BY <1>1
    <3>. QED
      BY <2>1, <3>1, <3>2, WriteFacts
<1>10. Follows(r, d, th) /\ posts[d] = <<>>
  BY <1>0, <1>3, <1>4 DEF Starts
<1>11. Threaded(r, m, posts[d])
  <2>1. CASE th = None
    BY <1>7, <1>10, <2>1 DEF Follows, Threaded
  <2>2. CASE th = NamedThread /\ th # None
    BY <1>7, <1>10, <2>2 DEF Follows, Threaded, Bound
  <2>. QED
    BY <1>5, <2>1, <2>2
<1>12. Sharers(r, m)
  BY <1>10 DEF Sharers, Has, Follows
<1>13. Lives(d, k, R, d, posts)
  BY <1>7, <1>9, <1>10, <1>11, <1>12 DEF Lives, Follows
<1>14. \A c \in CallIds \ {d} : Gone(c, R, sfu, posts)
  BY <1>2, <1>9 DEF Gone
<1>15. Good(k, R, d, sfu, posts)
  BY <1>13, <1>14 DEF Good, InPhase
<1>. QED
  BY <1>9, <1>15

\* The facts that an instruction of end_call starts from.
LEMMA Closing ==
    ASSUME Peaceful, NEW t \in Tasks, At(t, {"last_read", "drop"})
    PROVE  \E d \in CallIds :
              /\ Closes(d, task[t], redis, channel, posts) /\ Head1(t).c = d /\ redis[d] # None
              /\ \A c \in CallIds \ {d} : Gone(c, redis, sfu, posts)
<1>1. PICK d \in CallIds : /\ InPhase(d, task[t], redis, channel, sfu, posts)
                           /\ \A c \in CallIds \ {d} : Gone(c, redis, sfu, posts)
                           /\ Head(task[t].todo).c = d
  BY AboutOne
<1>2. /\ Head(task[t].todo) \in OpsOf(task[t].todo) /\ Head1(t) = Head(task[t].todo) /\ Head1(t).do \in {"last_read", "drop"}
  BY AtSettled, OpsPop
<1>3. ~Marks(d, task[t], redis, channel, sfu, posts)
  BY <1>2, OpFields DEF Marks
<1>4. Closes(d, task[t], redis, channel, posts)
  BY <1>1, <1>2, <1>3 DEF InPhase, Lives, Does, Living, Starts
<1>5. redis[d] # None
  BY <1>4, CallsAssumption DEF Closes, CallOK
<1>. QED
  BY <1>1, <1>2, <1>4, <1>5

\* The thread of a call that has one.
LEMMA BoundThread ==
    ASSUME NEW call, NEW p, Bound(call, p)
    PROVE  call.thread \in {1, NamedThread} /\ call.thread \in Nat /\ call.thread # None
BY CallsAssumption DEF Bound, NamedThread

LEMMA StepLastRead ==
    ASSUME Peaceful, NEW t \in Tasks, end_call_reads(t) PROVE Peaceful'
<1>1. At(t, {"last_read"}) /\ At(t, {"last_read", "drop"})
  BY DEF end_call_reads, At
<1>2. PICK d \in CallIds : /\ Closes(d, task[t], redis, channel, posts) /\ Head1(t).c = d /\ redis[d] # None
                           /\ \A c \in CallIds \ {d} : Gone(c, redis, sfu, posts)
  BY <1>1, Closing
<1>3. Settled /\ CallsType /\ task[t].node \in Nodes
  BY <1>1, AtSettled DEF Settled
<1>4. channel = d /\ d # None /\ get_call(task[t].node, d) = redis[d] /\ \A x \in Found({d}) : x = <<d, redis[d]>>
  BY <1>2, <1>3, Reading, CallsAssumption DEF Closes, Found
<1>5. PICK th, o, l, f : th = redis[d].thread /\ o = Op(d, "drop", None, th) /\ l = <<o>> /\ f = Found({d})
  OBVIOUS
<1>6. th \in Nat
  BY <1>2, <1>5, BoundThread DEF Closes
<1>7. Reads(t, f, l) /\ UNCHANGED <<ManagerVars, sfu, posts>>
  BY <1>2, <1>4, <1>5 DEF end_call_reads
<1>8. o \in Ops /\ o.c = d /\ o.do = "drop" /\ o.v = th
  BY <1>5, <1>6, OpFacts, OpFields
<1>9. l \in Seq(Ops) /\ l # <<>> /\ Head(l) = o
  BY <1>5, <1>8, OneList
<1>10. PICK k : /\ k.todo = l /\ k.value = None /\ k.snap = task[t].snap
                /\ Good(k, redis, channel, sfu', posts') => Peaceful'
  <2>1. \A p \in f : p = <<channel, redis[channel]>> /\ channel # None
    BY <1>4, <1>5
  <2>2. /\ DOMAIN sfu' = Nodes /\ \A n \in Nodes : DOMAIN sfu'[n] = CallIds
        /\ posts' \in [CallIds -> Seq({"open", "ended"})] /\ UNCHANGED ManagerVars
    BY <1>3, <1>7 DEF CallsType
  <2>. QED
    BY <1>1, <1>7, <1>9, <2>1, <2>2, ReadStep
<1>11. Closes(d, k, redis, channel, posts')
  BY <1>2, <1>5, <1>7, <1>8, <1>9, <1>10 DEF Closes
<1>12. \A c \in CallIds \ {d} : Gone(c, redis, sfu', posts')
  BY <1>2, <1>7 DEF Gone
<1>13. Good(k, redis, channel, sfu', posts')
  BY <1>9, <1>10, <1>11, <1>12 DEF Good, InPhase
<1>. QED
  BY <1>10, <1>13

\* A call is removed from the node's copies; the commands to Redis are still to be sent.
LEMMA Removal ==
    ASSUME Settled, OneNode, NEW n \in Nodes, NEW c \in CallIds, redis[c] # None,
           \A x \in CallIds \ {c} : redis[x] = None,
           remove_call_local(n, c), redis' = redis, channel' = channel, active' = active
    PROVE  \E i, R : /\ i = remove_call(n, c) /\ Holds(i, R, None)'
                     /\ R[c] = None /\ \A x \in CallIds \ {c} : R[x] = redis[x]
<1>. PICK i, R : i = remove_call(n, c) /\ R = [redis EXCEPT ![c] = None]
  OBVIOUS
<1>1. /\ redis \in [CallIds -> Call \cup {None}] /\ DOMAIN local = Nodes /\ local[n].calls = redis
      /\ active = {x \in CallIds : redis[x] # None} /\ \A m \in Nodes : m = n
  BY DEF Settled, CallsType, Stores, OneNode
<1>2. i \in Removes /\ i.at = "unpoint" /\ i.c = c
  BY <1>1 DEF remove_call, Command, Removes
<1>3. i # None
  BY <1>2, CommandFacts
<1>4. Stores(R, None) /\ R[c] = None /\ \A x \in CallIds \ {c} : R[x] = redis[x]
  BY <1>1 DEF Stores
<1>5. AfterRedis(i, redis') = R /\ AfterChannel(i, channel') = None /\ AfterActive(i, active') = active \ {c}
  BY <1>2, <1>3 DEF AfterRedis, AfterChannel, AfterActive
<1>7. active \ {c} = {x \in CallIds : R[x] # None}
  BY <1>1, <1>4
<1>8. DOMAIN local' = Nodes /\ \A m \in Nodes : local'[m] = [calls |-> R, index |-> None]
  <2>1. local' = [local EXCEPT ![n] = [calls |-> [local[n].calls EXCEPT ![c] = None],
                                        index |-> IF local[n].calls[c] # None THEN None ELSE local[n].index]]
    BY DEF remove_call_local
  <2>2. local' = [local EXCEPT ![n] = [calls |-> R, index |-> None]]
    BY <1>1, <2>1
  <2>. QED
    BY <1>1, <2>2
<1>9. Holds(i, R, None)'
  BY <1>2, <1>4, <1>5, <1>7, <1>8 DEF Holds
<1>. QED
  BY <1>4, <1>9

LEMMA PairIs == ASSUME NEW a, NEW b PROVE <<a>> \o <<b>> = <<a, b>>
<1>1. <<a>> \in Seq({a, b}) /\ <<b>> \in Seq({a, b}) /\ <<a, b>> \in Seq({a, b})
  OBVIOUS
<1>2. <<a>> \o <<b>> \in Seq({a, b}) /\ Len(<<a>> \o <<b>>) = 2
  BY <1>1
<1>3. (<<a>> \o <<b>>)[1] = <<a, b>>[1] /\ (<<a>> \o <<b>>)[2] = <<a, b>>[2] /\ Len(<<a, b>>) = 2
  BY <1>1
<1>4. \A i \in 1..2 : i = 1 \/ i = 2
  OBVIOUS
<1>5. \A i \in 1..Len(<<a, b>>) : (<<a>> \o <<b>>)[i] = <<a, b>>[i]
  BY <1>3, <1>4
<1>. QED
  BY <1>1, <1>2, <1>3, <1>5, SeqEqual

LEMMA StepDrop ==
    ASSUME Peaceful, OneNode, NEW t \in Tasks, end_call_removes(t) PROVE Peaceful'
<1>1. At(t, {"drop"}) /\ At(t, {"last_read", "drop"}) /\ Head1(t).do = "drop"
  BY DEF end_call_removes, At
<1>2. PICK d \in CallIds : /\ Closes(d, task[t], redis, channel, posts) /\ Head1(t).c = d /\ redis[d] # None
                           /\ \A c \in CallIds \ {d} : Gone(c, redis, sfu, posts)
  BY <1>1, Closing
<1>3. Settled /\ CallsType /\ task[t].node \in Nodes /\ Busy(t) /\ Head1(t) = Head(task[t].todo) /\ task[t].found = {}
  BY <1>1, AtSettled DEF Settled
<1>4. PICK n, th : n = task[t].node /\ th = redis[d].thread
  OBVIOUS
<1>5. th \in {1, NamedThread} /\ th \in Nat /\ th # None /\ Head1(t).v = th /\ Bound(redis[d], posts[d])
  BY <1>1, <1>2, <1>3, <1>4, BoundThread DEF Closes
<1>6. PICK a, b, l : a = Op(d, "sfu_drop", None, None) /\ b = Op(d, "mark", None, th) /\ l = <<a, b>>
  OBVIOUS
<1>7. l \in Seq(Ops) /\ l # <<>>
  BY <1>5, <1>6, OpFacts, OpsTwo
<1>8. /\ remove_call_local(n, d) /\ Sends(t, remove_call(n, d), l) /\ UNCHANGED <<redis, channel, active, sfu, posts>>
  <2>1. <<a>> \o <<b>> = l
    <3>1. a \in Ops /\ b \in Ops
      BY <1>5, <1>6, OpFacts
    <3>. QED
      BY <1>6, <3>1, PairIs
  <2>. QED
    BY <1>2, <1>4, <1>5, <1>6, <2>1 DEF end_call_removes
<1>9. PICK i, R : /\ i = remove_call(n, d) /\ Holds(i, R, None)'
                  /\ R[d] = None /\ \A x \in CallIds \ {d} : R[x] = redis[x]
  <2>1. n \in Nodes /\ \A x \in CallIds \ {d} : redis[x] = None
    BY <1>2, <1>3, <1>4 DEF Gone
  <2>2. Settled /\ redis[d] # None /\ remove_call_local(n, d) /\ redis' = redis /\ channel' = channel /\ active' = active
    BY <1>2, <1>3, <1>8
  <2>. QED
    BY <2>1, <2>2, Removal
<1>10. PICK k : /\ Becomes(t, k) /\ IsTask(k) /\ k.todo = l /\ k.value = None /\ k.found = {} /\ k.io = i
  <2>1. i \in Persists \cup Removes \cup {None} /\ Sends(t, i, l)
    BY <1>8, <1>9 DEF Holds
  <2>. QED
    BY <1>3, <1>7, <2>1, SendsFacts
<1>11. Ending(d, th, posts)
  BY <1>4, <1>5, CallsAssumption DEF Bound, Ending
<1>12. Marks(d, k, R, None, sfu, posts)
  <2>1. k.todo = <<Op(d, "sfu_drop", None, None), Op(d, "mark", None, th)>>
    BY <1>6, <1>10
  <2>. QED
    BY <1>5, <1>9, <1>11, <2>1 DEF Marks
<1>13. \A c \in CallIds \ {d} : Gone(c, R, sfu, posts)
  BY <1>2, <1>9 DEF Gone
<1>14. Good(k, R, None, sfu, posts)
  BY <1>7, <1>10, <1>12, <1>13 DEF Good, InPhase
<1>15. Agreed(k)'
  BY <1>8, <1>9, <1>10, <1>14 DEF Agreed, Copied, Holds
<1>16. Stores(redis', channel') /\ DOMAIN local' = Nodes
  BY <1>3, <1>8, <1>9 DEF Holds, CallsType
<1>. QED
  BY <1>3, <1>8, <1>10, <1>15, <1>16, Moves DEF CallsType

\* What remains of a call that is removed.
LEMMA Marking ==
    ASSUME Peaceful, NEW t \in Tasks, At(t, {"sfu_drop", "mark"})
    PROVE  \E d \in CallIds :
              /\ Marks(d, task[t], redis, channel, sfu, posts) /\ Head1(t).c = d
              /\ \A c \in CallIds \ {d} : Gone(c, redis, sfu, posts)
<1>1. PICK d \in CallIds : /\ InPhase(d, task[t], redis, channel, sfu, posts)
                           /\ \A c \in CallIds \ {d} : Gone(c, redis, sfu, posts)
                           /\ Head(task[t].todo).c = d
  BY AboutOne
<1>2. /\ Head(task[t].todo) \in OpsOf(task[t].todo) /\ Head1(t) = Head(task[t].todo) /\ Head1(t).do \in {"sfu_drop", "mark"}
  BY AtSettled, OpsPop
<1>3. Marks(d, task[t], redis, channel, sfu, posts)
  BY <1>1, <1>2 DEF InPhase, Lives, Does, Living, Starts, Closes
<1>. QED
  BY <1>1, <1>2, <1>3

LEMMA StepSfuDrop ==
    ASSUME Peaceful, OneNode, NEW t \in Tasks, sfu_is_removed(t) PROVE Peaceful'
<1>1. At(t, {"sfu_drop"}) /\ At(t, {"sfu_drop", "mark"}) /\ Head1(t).do = "sfu_drop"
  BY DEF sfu_is_removed, At
<1>2. PICK d \in CallIds : /\ Marks(d, task[t], redis, channel, sfu, posts) /\ Head1(t).c = d
                           /\ \A c \in CallIds \ {d} : Gone(c, redis, sfu, posts)
  BY <1>1, Marking
<1>3. CallsType /\ task[t].node \in Nodes /\ Head1(t) = Head(task[t].todo)
  BY <1>1, AtSettled DEF Settled
<1>4. PICK i \in {1, NamedThread} :
         Ending(d, i, posts) /\ task[t].todo = <<Op(d, "sfu_drop", None, None), Op(d, "mark", None, i)>>
  <2>1. \A i : <<Op(d, "mark", None, i)>> # task[t].todo
    BY <1>1, <1>3, OpFields
  <2>. QED
    BY <1>2, <2>1 DEF Marks
<1>5. PICK n, l, f : n = task[t].node /\ l = <<Op(d, "mark", None, i)>> /\ f = {}
  OBVIOUS
<1>6. l \in Seq(Ops) /\ l # <<>>
  BY <1>5, OpFacts, OneList DEF NamedThread
<1>7. Reads(t, f, l) /\ UNCHANGED <<ManagerVars, posts>> /\ sfu' = [sfu EXCEPT ![n] = [sfu[n] EXCEPT ![d] = None]]
  <2>1. <<>> \o Tail(task[t].todo) = l
    BY <1>4, <1>5
  <2>. QED
    BY <1>2, <1>5, <2>1 DEF sfu_is_removed, Done, Then, Continue, Rest
<1>8. sfu'[n] = [sfu[n] EXCEPT ![d] = None] /\ DOMAIN sfu' = Nodes /\ \A m \in Nodes : m = n
  BY <1>3, <1>5, <1>7 DEF CallsType, OneNode
<1>9. \A m \in Nodes : DOMAIN sfu'[m] = CallIds /\ sfu'[m][d] = None /\ \A c \in CallIds \ {d} : sfu'[m][c] = sfu[m][c]
  BY <1>3, <1>8 DEF CallsType
<1>10. PICK k : /\ k.todo = l /\ k.value = None /\ k.snap = task[t].snap
                /\ Good(k, redis, channel, sfu', posts') => Peaceful'
  <2>1. posts' \in [CallIds -> Seq({"open", "ended"})] /\ UNCHANGED ManagerVars /\ \A n2 \in Nodes : DOMAIN sfu'[n2] = CallIds
    BY <1>3, <1>7, <1>9 DEF CallsType
  <2>2. Reads(t, f, l) /\ l \in Seq(Ops) /\ DOMAIN sfu' = Nodes /\ \A p \in f : p = <<channel, redis[channel]>> /\ channel # None
    BY <1>5, <1>6, <1>7, <1>8
  <2>. QED
    BY <1>1, <2>1, <2>2, ReadStep
<1>11. Marks(d, k, redis, channel, sfu', posts')
  <2>1. channel = None /\ redis[d] = None
    BY <1>2 DEF Marks
  <2>2. posts' = posts /\ k.todo = <<Op(d, "mark", None, i)>>
    BY <1>5, <1>7, <1>10
  <2>. QED
    BY <1>4, <1>9, <2>1, <2>2 DEF Marks, Ending
<1>12. \A c \in CallIds \ {d} : Gone(c, redis, sfu', posts')
  BY <1>2, <1>7, <1>9 DEF Gone
<1>13. Good(k, redis, channel, sfu', posts')
  BY <1>6, <1>10, <1>11, <1>12 DEF Good, InPhase
<1>. QED
  BY <1>10, <1>13

LEMMA StepMark ==
    ASSUME Peaceful, NEW t \in Tasks, mark_call_thread_post_ended(t) PROVE Peaceful'
<1>1. At(t, {"mark"}) /\ At(t, {"sfu_drop", "mark"}) /\ Head1(t).do = "mark"
  BY DEF mark_call_thread_post_ended, At
<1>2. PICK d \in CallIds : /\ Marks(d, task[t], redis, channel, sfu, posts) /\ Head1(t).c = d
                           /\ \A c \in CallIds \ {d} : Gone(c, redis, sfu, posts)
  BY <1>1, Marking
<1>3. CallsType /\ Head1(t) = Head(task[t].todo)
  BY <1>1, AtSettled DEF Settled
<1>4. PICK i \in {1, NamedThread} :
         /\ Ending(d, i, posts) /\ task[t].todo = <<Op(d, "mark", None, i)>> /\ \A n \in Nodes : sfu[n][d] = None
  <2>1. \A i : <<Op(d, "sfu_drop", None, None), Op(d, "mark", None, i)>> # task[t].todo
    BY <1>1, <1>3, OpFields
  <2>. QED
    BY <1>2, <2>1 DEF Marks
<1>5. channel = None /\ redis[d] = None /\ Head1(t).v = i
  BY <1>2, <1>3, <1>4, OpFields DEF Marks
<1>6. PICK l, f : l = <<>> /\ f = {}
  OBVIOUS
<1>7. Reads(t, f, l) /\ UNCHANGED <<ManagerVars, sfu>>
  <2>1. <<>> \o Tail(task[t].todo) = l
    BY <1>4, <1>6
  <2>. QED
    BY <1>6, <2>1 DEF mark_call_thread_post_ended, Done, Then, Continue, Rest
<1>8. /\ posts' \in [CallIds -> Seq({"open", "ended"})]
      /\ \A c \in CallIds \ {d} : posts'[c] = posts[c]
      /\ \A j \in DOMAIN posts'[d] : posts'[d][j] = "ended"
  <2>0. posts \in [CallIds -> Seq({"open", "ended"})] /\ posts[d] \in Seq({"open", "ended"})
    BY <1>3 DEF CallsType
  <2>1. CASE i = NamedThread
    <3>1. posts' = posts /\ posts[d] = <<>>
      BY <1>4, <1>5, <2>1 DEF mark_call_thread_post_ended, Ending, NamedThread
    <3>. QED
      BY <2>0, <3>1
  <2>2. CASE i = 1
    <3>1. posts' = [posts EXCEPT ![d] = [posts[d] EXCEPT ![1] = "ended"]] /\ Len(posts[d]) = 1
      BY <1>2, <1>4, <1>5, <2>2 DEF mark_call_thread_post_ended, Ending, NamedThread
    <3>2. PICK w : w = [posts[d] EXCEPT ![1] = "ended"]
      OBVIOUS
    <3>3. w \in Seq({"open", "ended"}) /\ Len(w) = Len(posts[d]) /\ w[1] = "ended"
      <4>1. 1 \in 1..Len(posts[d])
        BY <3>1
      <4>. QED
        BY <2>0, <3>2, <4>1, ExceptSeq
    <3>4. w \in Seq({"open", "ended"}) /\ DOMAIN w = 1..1 /\ w[1] = "ended"
      <4>1. DOMAIN w = 1..Len(w)
        BY <3>3
      <4>. QED
        BY <3>1, <3>3, <4>1
    <3>5. posts' = [posts EXCEPT ![d] = w]
      BY <3>1, <3>2
    <3>6. posts'[d] = w /\ \A j \in DOMAIN w : w[j] = "ended"
      BY <2>0, <3>4, <3>5
    <3>. QED
      BY <2>0, <3>4, <3>5, <3>6
  <2>. QED
    BY <2>1, <2>2
<1>9. PICK k : /\ k.todo = l /\ k.value = None /\ k.snap = task[t].snap
               /\ Good(k, redis, channel, sfu', posts') => Peaceful'
  <2>1. DOMAIN sfu' = Nodes /\ (\A n \in Nodes : DOMAIN sfu'[n] = CallIds) /\ UNCHANGED ManagerVars
    BY <1>3, <1>7 DEF CallsType
  <2>2. Reads(t, f, l) /\ l \in Seq(Ops) /\ \A p \in f : p = <<channel, redis[channel]>> /\ channel # None
    BY <1>6, <1>7
  <2>. QED
    BY <1>1, <1>8, <2>1, <2>2, ReadStep
<1>10. \A c \in CallIds : Gone(c, redis, sfu', posts')
  BY <1>2, <1>4, <1>5, <1>7, <1>8 DEF Gone
<1>11. Good(k, redis, channel, sfu', posts')
  BY <1>5, <1>6, <1>9, <1>10 DEF Good
<1>. QED
  BY <1>9, <1>11

-----------------------------------------------------------------------------
(* The lists that tasks begin with. *)

\* About call d: neither its thread, nor a new sharer, nor a host's request.
Safe(l, d) ==
    l \in Seq(Ops) /\ \A o \in OpsOf(l) : o.c = d /\ o.do \in Living \ {"post", "thread", "authorize"} /\ (o.do = "sharer" => o.u = None)

\* Fit for a call that lives and has its thread.
Fit(l, d, call) ==
    \/ l = end_call(d)
    \/ /\ l \in Seq(Ops) /\ Sharers(l, call)
       /\ \A o \in OpsOf(l) : o.c = d /\ o.do \in Living \ {"post", "thread"}

LEMMA SafeFits == ASSUME NEW l, NEW d, NEW call, Safe(l, d) PROVE Fit(l, d, call) /\ ~Has(l, "authorize")
BY DEF Safe, Fit, Sharers, Has

LEMMA SafeJoin == ASSUME NEW a, NEW b, NEW d, Safe(a, d), Safe(b, d) PROVE Safe(a \o b, d)
BY OpsConcat DEF Safe

LEMMA SafeNone == ASSUME NEW d PROVE Safe(<<>>, d)
BY NoList DEF Safe

LEMMA SafeOne ==
    ASSUME NEW o \in Ops, o.do \in Living \ {"post", "thread", "authorize"}, o.do = "sharer" => o.u = None PROVE Safe(<<o>>, o.c)
BY OneList DEF Safe

LEMMA SafeTwo ==
    ASSUME NEW a, NEW b, NEW d, Safe(<<a>>, d), Safe(<<b>>, d), a \in Ops, b \in Ops PROVE Safe(<<a, b>>, d)
<1>1. a \in OpsOf(<<a>>) /\ b \in OpsOf(<<b>>)
  BY OneList
<1>2. <<a, b>> \in Seq(Ops) /\ OpsOf(<<a, b>>) = {a, b}
  BY OpsTwo
<1>. QED
  BY <1>1, <1>2 DEF Safe

\* The instructions that make up the handlers' lists.
LEMMA SafeOps ==
    ASSUME NEW c \in CallIds
    PROVE  /\ \A do \in {"touch", "state", "timer", "reread"} : Safe(<<Op(c, do, None, None)>>, c)
           /\ \A do \in {"remove", "reconcile", "host", "ws_add"}, u \in Users : Safe(<<Op(c, do, u, None)>>, c)
           /\ \A do \in {"add", "sfu_add", "sfu_remove"}, u \in Users, s \in SessionKinds : Safe(<<Op(c, do, u, s)>>, c)
           /\ \A u \in Users, b \in BOOLEAN : Safe(<<Op(c, "sharing", u, b)>>, c)
           /\ Safe(<<Op(c, "sharer", None, None)>>, c)
<1>1. ASSUME NEW do \in Living \ {"post", "thread", "authorize"}, NEW u, NEW v, Op(c, do, u, v) \in Ops, do = "sharer" => u = None
      PROVE  Safe(<<Op(c, do, u, v)>>, c)
  <2>1. PICK o : o = Op(c, do, u, v)
    OBVIOUS
  <2>2. o \in Ops /\ o.c = c /\ o.do = do /\ o.u = u
    BY <1>1, <2>1, OpFields
  <2>. QED
    BY <1>1, <2>1, <2>2, SafeOne
<1>2. \A do \in {"touch", "state", "timer", "reread"} : Safe(<<Op(c, do, None, None)>>, c)
  BY <1>1, OpFacts DEF Living
<1>3. \A do \in {"remove", "reconcile", "host", "ws_add"}, u \in Users : Safe(<<Op(c, do, u, None)>>, c)
  BY <1>1, OpFacts DEF Living
<1>4. \A do \in {"add", "sfu_add", "sfu_remove"}, u \in Users, s \in SessionKinds : Safe(<<Op(c, do, u, s)>>, c)
  BY <1>1, OpFacts DEF Living
<1>5. \A u \in Users, b \in BOOLEAN : Safe(<<Op(c, "sharing", u, b)>>, c)
  BY <1>1, OpFacts DEF Living
<1>6. Safe(<<Op(c, "sharer", None, None)>>, c)
  BY <1>1, OpFacts DEF Living
<1>. QED
  BY <1>2, <1>3, <1>4, <1>5, <1>6

LEMMA SafeLeaving ==
    ASSUME NEW c \in CallIds, NEW u \in Users, NEW s \in SessionKinds PROVE Safe(Leaving(c, u, s), c)
<1>1. PICK a, b, e : a = Op(c, "remove", u, None) /\ b = Op(c, "sfu_remove", u, s) /\ e = Op(c, "reconcile", u, None)
  OBVIOUS
<1>2. a \in Ops /\ b \in Ops /\ e \in Ops
  BY <1>1, OpFacts
<1>3. /\ a.c = c /\ a.do = "remove" /\ b.c = c /\ b.do = "sfu_remove" /\ e.c = c /\ e.do = "reconcile"
  BY <1>1, OpFields
<1>4. <<a, b, e>> \in Seq(Ops) /\ OpsOf(<<a, b, e>>) = {a, b, e}
  BY <1>2 DEF OpsOf
<1>5. Leaving(c, u, s) = <<a, b, e>>
  BY <1>1 DEF Leaving
<1>. QED
  BY <1>3, <1>4, <1>5 DEF Safe, Living

\* What a host request does once it is authorized.
LEMMA GrantedFits ==
    ASSUME NEW c \in CallIds, NEW call \in Call, NEW u \in Users, NEW v \in HostRequests
    PROVE  Granted(c, call, u, v) = end_call(c) \/ Safe(Granted(c, call, u, v), c)
<1>. PICK g : g = Granted(c, call, u, v)
  OBVIOUS
<1>. PICK x : x = v[2]
  OBVIOUS
<1>0. v[1] \in {"end", "mute_others"} \/ (v[1] \in {"mute", "lower_hand", "make", "screen_off", "remove"} /\ x \in Users)
  BY DEF HostRequests
<1>1. CASE v[1] = "end"
  BY <1>1, SafeNone DEF Granted, end_call_endpoint
<1>2. CASE v[1] # "end" /\ ~can_manage_call(u, call)
  BY <1>2, SafeNone DEF Granted
<1>3. CASE v[1] = "mute_others" /\ can_manage_call(u, call)
  <2>1. PICK i \in Nat : i = Cardinality(In(call) \ {u})
    <3>1. In(call) \ {u} \subseteq Users
      BY DEF In
    <3>2. IsFiniteSet(In(call) \ {u})
      BY <3>1, CallsAssumption, FS_Subset
    <3>. QED
      BY <3>2, FS_CardinalityType
  <2>2. PICK o : o = Op(c, "touch", None, None)
    OBVIOUS
  <2>3. g = [j \in 1..i |-> o]
    BY <1>3, <2>1, <2>2 DEF Granted, host_mute_others
  <2>4. o \in Ops /\ o.c = c /\ o.do = "touch"
    BY <2>2, OpFacts, OpFields
  <2>5. g \in Seq(Ops) /\ OpsOf(g) \subseteq {o}
    <3>1. g \in [1..i -> Ops]
      BY <2>3, <2>4
    <3>2. g \in Seq(Ops)
      BY <2>1, <3>1, SeqDef
    <3>3. Len(g) = i
      BY <2>1, <2>3, <3>2
    <3>. QED
      BY <2>3, <3>2, <3>3 DEF OpsOf
  <2>. QED
    BY <2>4, <2>5 DEF Safe, Living
<1>4. CASE v[1] \notin {"end", "mute_others"} /\ can_manage_call(u, call) /\ x \notin In(call)
  BY <1>4, SafeNone DEF Granted
<1>5. CASE v[1] \notin {"end", "mute_others"} /\ can_manage_call(u, call) /\ x \in In(call)
  <2>0. x \in Users /\ call.who[x] \in Participant
    BY <1>0, <1>5 DEF In, Call
  <2>1. CASE v[1] = "mute"
    <3>1. g = <<Op(c, "touch", None, None)>>
      BY <1>5, <2>1 DEF Granted, host_mute, Touch
    <3>. QED
      BY <3>1, SafeOps
  <2>2. CASE v[1] = "lower_hand"
    <3>1. g = <<Op(c, "touch", None, None)>>
      BY <1>5, <2>2 DEF Granted, host_lower_hand, Touch
    <3>. QED
      BY <3>1, SafeOps
  <2>3. CASE v[1] = "make"
    <3>1. g = <<Op(c, "host", x, None)>> \o <<Op(c, "state", None, None)>>
      BY <1>5, <2>3 DEF Granted, host_make_moderator, State
    <3>2. Safe(<<Op(c, "host", x, None)>>, c)
      BY <2>0, SafeOps
    <3>3. Safe(<<Op(c, "state", None, None)>>, c)
      BY SafeOps
    <3>. QED
      BY <3>1, <3>2, <3>3, SafeJoin
  <2>4. CASE v[1] = "screen_off"
    <3>1. g = <<Op(c, "sharing", x, FALSE)>> \o (IF call.sharer = x THEN <<Op(c, "sharer", None, None)>> ELSE <<>>)
      BY <1>5, <2>4 DEF Granted, host_screen_off
    <3>2. PICK r : r = IF call.sharer = x THEN <<Op(c, "sharer", None, None)>> ELSE <<>>
      OBVIOUS
    <3>3. Safe(r, c)
      BY <3>2, SafeOps, SafeNone
    <3>4. Safe(<<Op(c, "sharing", x, FALSE)>>, c)
      BY <2>0, SafeOps
    <3>. QED
      BY <3>1, <3>2, <3>3, <3>4, SafeJoin
  <2>5. CASE v[1] = "remove"
    <3>1. g = IF x = u THEN <<>> ELSE Leaving(c, x, call.who[x].session)
      BY <1>5, <2>5 DEF Granted, host_remove_user
    <3>2. call.who[x].session \in SessionKinds
      BY <2>0 DEF Participant
    <3>. QED
      BY <2>0, <3>1, <3>2, SafeNone, SafeLeaving
  <2>. QED
    BY <1>0, <1>5, <2>1, <2>2, <2>3, <2>4, <2>5
<1>. QED
  BY <1>0, <1>1, <1>2, <1>3, <1>4, <1>5

\* A task with a fit list is in phase.
LEMMA FitGood ==
    ASSUME NEW d \in CallIds, channel = d, CallOK(redis[d]), Bound(redis[d], posts[d]),
           \A c \in CallIds \ {d} : Gone(c, redis, sfu, posts), NEW l, Fit(l, d, redis[d]),
           NEW k, k.todo = l, k.value = None, Has(l, "authorize") => k.snap \in Call
    PROVE  l \in Seq(Ops) /\ Good(k, redis, channel, sfu, posts)
<1>1. CASE l = end_call(d)
  <2>1. PICK a, b : a = Op(d, "last_read", None, None) /\ b = Op(d, "drop", None, None)
    OBVIOUS
  <2>2. a \in Ops /\ b \in Ops
    BY <2>1, OpFacts
  <2>3. a.c = d /\ a.do = "last_read"
    BY <2>1, OpFields
  <2>4. l = <<a, b>>
    BY <1>1, <2>1 DEF end_call
  <2>5. l \in Seq(Ops) /\ l # <<>> /\ Head(l) = a
    BY <2>2, <2>4
  <2>6. Closes(d, k, redis, channel, posts)
    BY <2>3, <2>5 DEF Closes
  <2>. QED
    BY <2>5, <2>6 DEF Good, InPhase
<1>2. CASE /\ l \in Seq(Ops) /\ Sharers(l, redis[d])
           /\ \A o \in OpsOf(l) : o.c = d /\ o.do \in Living \ {"post", "thread"}
  <2>1. Threaded(l, redis[d], posts[d])
    BY <1>2 DEF Threaded, Has
  <2>2. Lives(d, k, redis, channel, posts)
    BY <1>2, <2>1 DEF Lives, Does
  <2>. QED
    BY <1>2, <2>2 DEF Good, InPhase
<1>. QED
  BY <1>1, <1>2 DEF Fit

LEMMA StepAuthorize ==
    ASSUME Peaceful, NEW t \in Tasks, authorize(t) PROVE Peaceful'
<1>1. At(t, Living) /\ Head1(t).do = "authorize" /\ Head1(t).do \notin Early \cup {"post", "thread"}
  BY AtLiving DEF authorize, At, Living, Early
<1>2. PICK d \in CallIds : /\ AtWork(t, d) /\ Head1(t).c = d /\ Head1(t) \in Ops
                           /\ channel = d /\ CallOK(redis[d])
  BY <1>1, AtWorkFacts
<1>3. Bound(redis[d], posts[d])
  BY <1>1, <1>2, HasThread
<1>4. CallsType /\ task[t].todo \in Seq(Ops) /\ task[t].todo # <<>> /\ Head1(t) = Head(task[t].todo)
  BY <1>1, AtSettled DEF Settled
<1>5. Has(task[t].todo, "authorize")
  BY <1>1, <1>4, OpsPop DEF Has
<1>6. task[t].snap \in Call
  BY <1>2, <1>5 DEF AtWork, Lives
<1>7. Head1(t).u \in Users /\ Head1(t).v \in HostRequests
  BY <1>1, <1>2, OpTypes
<1>8. PICK l, f : l = Granted(d, task[t].snap, Head1(t).u, Head1(t).v) /\ f = {}
  OBVIOUS
<1>9. Reads(t, f, l) /\ UNCHANGED <<ManagerVars, sfu, posts>>
  BY <1>2, <1>8 DEF authorize, Continue
<1>10. Fit(l, d, redis[d])
  <2>1. l = end_call(d) \/ Safe(l, d)
    BY <1>6, <1>7, <1>8, GrantedFits
  <2>. QED
    BY <2>1, SafeFits DEF Fit
<1>11. \A c \in CallIds \ {d} : Gone(c, redis, sfu, posts)
  BY <1>2 DEF AtWork
<1>12. l \in Seq(Ops)
  <2>1. PICK k : k = [todo |-> l, value |-> None, snap |-> task[t].snap]
    OBVIOUS
  <2>. QED
    BY <1>2, <1>3, <1>6, <1>10, <1>11, <2>1, FitGood
<1>13. PICK k : /\ k.todo = l /\ k.value = None /\ k.snap = task[t].snap
                /\ Good(k, redis, channel, sfu', posts') => Peaceful'
  <2>1. /\ DOMAIN sfu' = Nodes /\ (\A n \in Nodes : DOMAIN sfu'[n] = CallIds) /\ UNCHANGED ManagerVars
        /\ posts' \in [CallIds -> Seq({"open", "ended"})]
    BY <1>4, <1>9 DEF CallsType
  <2>2. Reads(t, f, l) /\ \A p \in f : p = <<channel, redis[channel]>> /\ channel # None
    BY <1>8, <1>9
  <2>. QED
    BY <1>1, <1>12, <2>1, <2>2, ReadStep
<1>14. Good(k, redis, channel, sfu, posts)
  BY <1>2, <1>3, <1>6, <1>10, <1>11, <1>13, FitGood
<1>. QED
  BY <1>9, <1>13, <1>14

-----------------------------------------------------------------------------
(* A task begins. *)

\* What is known of a stored call between two tasks.
LEMMA CalmCall ==
    ASSUME Peaceful, Calm, NEW c \in CallIds, redis[c] # None
    PROVE  /\ channel = c /\ CallOK(redis[c]) /\ Bound(redis[c], posts[c])
           /\ \A x \in CallIds \ {c} : Gone(x, redis, sfu, posts)
<1>1. Good(Idle, redis, channel, sfu, posts) /\ channel = c
  BY CalmSettled, OnlyOne
<1>2. Idle.todo = <<>> /\ c # None
  BY CallsAssumption DEF Idle
<1>3. PICK d \in CallIds : InPhase(d, Idle, redis, channel, sfu, posts) /\ \A x \in CallIds \ {d} : Gone(x, redis, sfu, posts)
  BY <1>1, <1>2 DEF Good
<1>4. Lives(d, Idle, redis, channel, posts)
  BY <1>2, <1>3 DEF InPhase
<1>5. d = c
  BY <1>1, <1>4 DEF Lives
<1>6. Bound(redis[c], posts[c])
  BY <1>2, <1>4, <1>5 DEF Lives, Threaded, Awaiting
<1>. QED
  BY <1>1, <1>3, <1>4, <1>5, <1>6 DEF Lives

\* And what is known when there is none.
LEMMA CalmNone ==
    ASSUME Peaceful, Calm, NEW n \in Nodes, get_call_by_channel(n) = None
    PROVE  channel = None /\ \A c \in CallIds : Gone(c, redis, sfu, posts)
<1>1. Good(Idle, redis, channel, sfu, posts) /\ Idle.todo = <<>> /\ Settled
  BY CalmSettled DEF Idle
<1>2. ASSUME NEW d \in CallIds, InPhase(d, Idle, redis, channel, sfu, posts) PROVE FALSE
  <2>1. Lives(d, Idle, redis, channel, posts)
    BY <1>1, <1>2 DEF InPhase
  <2>2. channel = d /\ redis[d] # None /\ d # None
    BY <2>1, CallsAssumption DEF Lives, CallOK
  <2>. QED
    BY <1>1, <2>2, Reading
<1>. QED
  BY <1>1, <1>2 DEF Good

\* The list of a task that creates call d.
Creates(l, d) ==
    /\ l \in Seq(Ops) /\ l # <<>> /\ Head(l).do = "create" /\ Head(l).c = d
    /\ Follows(Tail(l), d, Head(l).v)

\* What a task finds is what the nodes have; its list is empty, fit for the stored call, or creates one.
Begins(t, n) ==
    \E http, call, found, l :
       /\ Start(t, n, http, call, found, l)
       /\ \A p \in found : p = <<channel, redis[channel]>> /\ channel # None
       /\ \/ l = <<>>
          \/ \E c \in CallIds : /\ redis[c] # None /\ Fit(l, c, redis[c])
                                /\ Has(l, "authorize") => Last(l).do = "authorize" /\ call = redis[c]
          \/ get_call_by_channel(n) = None /\ \E d \in CallIds : Creates(l, d) /\ posts[d] = <<>>

LEMMA Beginning ==
    ASSUME Peaceful, Calm, NEW t \in Tasks, NEW n \in Nodes, Begins(t, n), UNCHANGED <<sfu, posts>>
    PROVE  Peaceful'
<1>1. PICK http, call, found, l :
         /\ Start(t, n, http, call, found, l)
         /\ \A p \in found : p = <<channel, redis[channel]>> /\ channel # None
         /\ \/ l = <<>>
            \/ \E c \in CallIds : /\ redis[c] # None /\ Fit(l, c, redis[c])
                                  /\ Has(l, "authorize") => Last(l).do = "authorize" /\ call = redis[c]
            \/ get_call_by_channel(n) = None /\ \E d \in CallIds : Creates(l, d) /\ posts[d] = <<>>
  BY DEF Begins
<1>2. CallsType /\ Settled /\ Good(Idle, redis, channel, sfu, posts) /\ UNCHANGED ManagerVars
  BY <1>1, CalmSettled DEF Settled, Start
<1>3. PICK s : s = IF l # <<>> /\ Last(l).do = "authorize" THEN call ELSE None
  OBVIOUS
<1>4. PICK k : k = TaskOf(n, http, s, None, l, found, None)
  OBVIOUS
<1>5. Becomes(t, k)
  BY <1>1, <1>3, <1>4 DEF Start, TaskOf
<1>6. l \in Seq(Ops) => IsTask(k)
  BY <1>4, TaskOfTask
<1>7. k.todo = l /\ k.value = None /\ k.snap = s /\ k.found = found /\ k.io = None
  BY <1>4 DEF TaskOf
<1>8. l \in Seq(Ops) /\ Good(k, redis, channel, sfu, posts)
  <2>1. CASE l = <<>>
    <3>1. Idle.todo = <<>> /\ Idle.value = None /\ Idle.snap = None
      BY DEF Idle
    <3>2. k.todo = Idle.todo /\ k.value = Idle.value /\ k.snap = Idle.snap
      BY <1>3, <1>7, <2>1, <3>1
    <3>. QED
      BY <1>2, <2>1, <3>2, GoodSame
  <2>2. ASSUME NEW c \in CallIds, redis[c] # None, Fit(l, c, redis[c]),
               Has(l, "authorize") => Last(l).do = "authorize" /\ call = redis[c]
        PROVE  l \in Seq(Ops) /\ Good(k, redis, channel, sfu, posts)
    <3>1. /\ channel = c /\ CallOK(redis[c]) /\ Bound(redis[c], posts[c])
          /\ \A x \in CallIds \ {c} : Gone(x, redis, sfu, posts)
      BY <2>2, CalmCall
    <3>2. Has(l, "authorize") => k.snap \in Call
      BY <1>3, <1>7, <2>2, <3>1, NoList DEF CallOK, Has
    <3>. QED
      BY <1>7, <2>2, <3>1, <3>2, FitGood
  <2>3. CASE get_call_by_channel(n) = None /\ \E d \in CallIds : Creates(l, d) /\ posts[d] = <<>>
    <3>1. PICK d \in CallIds : Creates(l, d) /\ posts[d] = <<>>
      BY <2>3
    <3>2. channel = None /\ \A x \in CallIds : Gone(x, redis, sfu, posts)
      BY <2>3, CalmNone
    <3>3. l \in Seq(Ops) /\ l # <<>> /\ Starts(d, k, redis, channel, sfu, posts)
      BY <1>7, <3>1, <3>2 DEF Creates, Starts
    <3>. QED
      BY <1>7, <3>2, <3>3 DEF Good, InPhase
  <2>. QED
    BY <1>1, <2>1, <2>2, <2>3
<1>9. Agreed(k)'
  <2>1. Good(k, redis, channel, sfu', posts')
    BY <1>8
  <2>2. \A p \in k.found : p = <<channel, redis[channel]>> /\ channel # None
    BY <1>1, <1>7
  <2>. QED
    BY <1>2, <1>7, <2>1, <2>2, AgreedSame
<1>10. \A x \in Tasks \ {t} : ~Busy(x)
  BY DEF Calm
<1>11. /\ Stores(redis', channel') /\ DOMAIN local' = Nodes /\ DOMAIN sfu' = Nodes /\ \A m \in Nodes : DOMAIN sfu'[m] = CallIds
       /\ posts' \in [CallIds -> Seq({"open", "ended"})]
  BY <1>2 DEF CallsType, ManagerVars
<1>. QED
  BY <1>5, <1>6, <1>8, <1>9, <1>10, <1>11, MovesAlone

\* A task that begins while another runs counts as an overlap, unless it does nothing.
LEMMA Quiet ==
    ASSUME Peaceful, ~Calm, NEW t \in Tasks, NEW n, NEW http, NEW call, NEW f, NEW l, Start(t, n, http, call, f, l),
           overlap' = overlap, overlap \in Nat, UNCHANGED <<sfu, posts>>
    PROVE  Peaceful'
<1>1. ~Busy(t) /\ UNCHANGED ManagerVars
  BY DEF Start
<1>2. PICK x \in Tasks \ {t} : Busy(x)
  BY <1>1 DEF Calm
<1>3. l = <<>> /\ f = {}
  BY <1>2 DEF Start
<1>4. task' = [task EXCEPT ![t] = Idle]
  BY <1>3 DEF Start, Becomes, IsDone
<1>5. DOMAIN task' = Tasks /\ task'[t] = Idle /\ \A y \in Tasks \ {t} : task'[y] = task[y]
  BY <1>4 DEF Peaceful, CallsType
<1>6. \A y \in Tasks : (Busy(y)' <=> Busy(y)) /\ (Busy(y) => task'[y] = task[y])
  BY <1>1, <1>5, IdleTask DEF Busy
<1>7. UNCHANGED <<redis, channel, active, local>>
  BY <1>1 DEF ManagerVars
<1>8. CallsType'
  BY <1>5, <1>7, IdleTask DEF Peaceful, CallsType
<1>9. \A y \in Tasks : Busy(y) => Agreed(task[y])'
  <2>1. ASSUME NEW y \in Tasks, Busy(y) PROVE Agreed(task[y])'
    <3>1. Agreed(task[y]) /\ task'[y] = task[y]
      BY <1>6, <2>1 DEF Peaceful
    <3>. QED
      BY <1>7, <3>1 DEF Agreed, Copied
  <2>. QED
    BY <2>1
<1>. QED
  BY <1>2, <1>6, <1>8, <1>9 DEF Peaceful

-----------------------------------------------------------------------------
(* The handlers. *)

\* What is found in Redis is the stored call.
Clean(f) == \A p \in f : p = <<channel, redis[channel]>> /\ channel # None

LEMMA CalmFinds ==
    ASSUME Peaceful, Calm PROVE Clean(FoundByChannel) /\ Clean(Found(active)) /\ \A c \in CallIds : Clean(Found({c}))
<1>1. Settled /\ Good(Idle, redis, channel, sfu, posts)
  BY CalmSettled
<1>2. \A cs \in SUBSET CallIds : Clean(Found(cs))
  BY <1>1, FindsCopy DEF Clean
<1>3. {channel} \ {None} \in SUBSET CallIds /\ active \in SUBSET CallIds /\ \A c \in CallIds : {c} \in SUBSET CallIds
  BY <1>1 DEF Settled, CallsType, Stores
<1>. QED
  BY <1>2, <1>3 DEF FoundByChannel

\* A handler that finds call c, or none.
LEMMA FoundOne ==
    ASSUME Peaceful, Calm, NEW n \in Nodes, NEW c, c = get_call_by_channel(n)
    PROVE  c = None \/ (c # None /\ c \in CallIds /\ redis[c] # None /\ channel_call(n) = redis[c] /\ redis[c] \in Call)
<1>0. Settled /\ Stores(redis, channel)
  BY CalmSettled DEF Settled, CallsType
<1>1. CASE channel # None /\ redis[channel] # None
  BY <1>0, <1>1, Reading DEF Stores
<1>2. CASE ~(channel # None /\ redis[channel] # None)
  BY <1>0, <1>2, Reading
<1>. QED
  BY <1>1, <1>2

\* A task whose list is safe, or ends the call.
LEMMA OnCall ==
    ASSUME NEW t \in Tasks, NEW n \in Nodes, NEW c \in CallIds, redis[c] # None,
           NEW http, NEW call, NEW f, NEW l, Start(t, n, http, call, f, l), Clean(f), l = end_call(c) \/ Safe(l, c)
    PROVE  Begins(t, n)
<1>1. CASE l = end_call(c)
  <2>1. PICK a, b : a = Op(c, "last_read", None, None) /\ b = Op(c, "drop", None, None)
    OBVIOUS
  <2>2. a \in Ops /\ b \in Ops
    BY <2>1, OpFacts
  <2>3. a.do = "last_read" /\ b.do = "drop"
    BY <2>1, OpFields
  <2>4. ~Has(l, "authorize")
    <3>1. l = <<a, b>>
      BY <1>1, <2>1 DEF end_call
    <3>2. OpsOf(l) = {a, b}
      BY <2>2, <3>1, OpsTwo
    <3>. QED
      BY <2>3, <3>2 DEF Has
  <2>. QED
    BY <1>1, <2>4 DEF Begins, Fit, Clean
<1>2. CASE Safe(l, c)
  <2>1. Fit(l, c, redis[c]) /\ ~Has(l, "authorize")
    BY <1>2, SafeFits
  <2>. QED
    BY <2>1 DEF Begins, Clean
<1>. QED
  BY <1>1, <1>2

\* In the quiet the call has its thread, so describing it needs no post.
LEMMA Described ==
    ASSUME Peaceful, Calm, NEW c \in CallIds, redis[c] # None PROVE ensure_call_thread_id(c, redis[c]) = <<>>
<1>1. redis[c].thread # None
  BY CalmCall, BoundThread
<1>. QED
  BY <1>1 DEF ensure_call_thread_id

\* A request whose list is safe.
LEMMA OnChannel ==
    ASSUME Peaceful, Calm, NEW t \in Tasks, NEW n \in Nodes, NEW c \in CallIds, redis[c] # None,
           NEW http, NEW l, Request(t, n, http, l) \/ RequestAll(t, n, http, l), Safe(l, c)
    PROVE  Begins(t, n)
<1>1. PICK call, f : Start(t, n, http, call, f, l) /\ (f = FoundByChannel \/ f = Found(active))
  BY DEF Request, RequestAll
<1>2. Clean(f)
  BY <1>1, CalmFinds
<1>. QED
  BY <1>1, <1>2, OnCall

LEMMA BeginsJoin ==
    ASSUME Peaceful, Calm, NEW t \in Tasks, NEW n \in Nodes, NEW u \in Users, join_call(t, n, u) PROVE Begins(t, n)
<1>. PICK c : c = get_call_by_channel(n)
  OBVIOUS
<1>1. c \in CallIds /\ redis[c] # None
  BY FoundOne DEF join_call
<1>2. PICK a, b : a = Op(c, "add", u, "http") /\ b = Op(c, "sfu_add", u, "http")
  OBVIOUS
<1>3. a \in Ops /\ b \in Ops /\ Safe(<<a>>, c) /\ Safe(<<b>>, c) /\ Safe(State(c), c)
  BY <1>1, <1>2, OpFacts, SafeOps DEF SessionKinds, State
<1>4. Safe(<<a, b>> \o State(c), c)
  BY <1>3, SafeTwo, SafeJoin
<1>5. Request(t, n, TRUE, <<a, b>> \o State(c))
  BY <1>2 DEF join_call
<1>. QED
  BY <1>1, <1>4, <1>5, OnChannel

LEMMA BeginsLeave ==
    ASSUME Peaceful, Calm, NEW t \in Tasks, NEW n \in Nodes, NEW u \in Users, leave_call(t, n, u) PROVE Begins(t, n)
<1>. PICK c : c = get_call_by_channel(n)
  OBVIOUS
<1>1. c \in CallIds /\ redis[c] # None /\ channel_call(n) = redis[c] /\ redis[c] \in Call
  BY FoundOne DEF leave_call
<1>. PICK p : p = redis[c].who[u]
  OBVIOUS
<1>2. p \in Participant \cup {None}
  BY <1>1 DEF Call
<1>3. PICK a, b : a = Op(c, "remove", u, None) /\ b = Op(c, "reconcile", u, None)
  OBVIOUS
<1>4. a \in Ops /\ b \in Ops /\ Safe(<<a>>, c) /\ Safe(<<b>>, c)
  BY <1>1, <1>3, OpFacts, SafeOps
<1>5. PICK l : l = IF p # None THEN Leaving(c, u, p.session) ELSE <<a, b>>
  OBVIOUS
<1>6. Safe(l, c)
  <2>1. CASE p # None
    <3>1. p.session \in SessionKinds
      BY <1>2, <2>1 DEF Participant
    <3>. QED
      BY <1>1, <1>5, <2>1, <3>1, SafeLeaving
  <2>2. CASE p = None
    BY <1>4, <1>5, <2>2, SafeTwo
  <2>. QED
    BY <2>1, <2>2
<1>7. Request(t, n, TRUE, l)
  BY <1>1, <1>3, <1>5 DEF leave_call
<1>. QED
  BY <1>1, <1>6, <1>7, OnChannel

LEMMA BeginsDescription ==
    ASSUME Peaceful, Calm, NEW t \in Tasks, NEW n \in Nodes, NEW c, NEW call,
           c = None \/ (c \in CallIds /\ redis[c] # None /\ call = redis[c]),
           NEW http, NEW l, Request(t, n, http, l) \/ RequestAll(t, n, http, l), l = build_call_channel_info(c, call)
    PROVE  Begins(t, n)
<1>1. l = <<>>
  <2>1. CASE c = None
    BY <2>1 DEF build_call_channel_info
  <2>2. CASE c \in CallIds /\ redis[c] # None /\ call = redis[c]
    BY <2>2, Described, CallsAssumption DEF build_call_channel_info, build_call_state_response
  <2>. QED
    BY <2>1, <2>2
<1>2. PICK call2, f : Start(t, n, http, call2, f, l) /\ (f = FoundByChannel \/ f = Found(active))
  BY DEF Request, RequestAll
<1>3. Clean(f)
  BY <1>2, CalmFinds
<1>. QED
  BY <1>1, <1>2, <1>3 DEF Begins, Clean

LEMMA BeginsState ==
    ASSUME Peaceful, Calm, NEW t \in Tasks, NEW n \in Nodes,
           get_call_state(t, n) \/ get_channel_state_mobile(t, n) \/ get_channels(t, n)
    PROVE  Begins(t, n)
<1>. PICK c, call : c = get_call_by_channel(n) /\ call = channel_call(n)
  OBVIOUS
<1>0. c = None \/ (c \in CallIds /\ redis[c] # None /\ call = redis[c])
  BY FoundOne
<1>1. CASE get_call_state(t, n)
  <2>1. c # None /\ Request(t, n, TRUE, build_call_state_response(c, call))
    BY <1>1 DEF get_call_state
  <2>2. Request(t, n, TRUE, build_call_channel_info(c, call))
    BY <2>1 DEF build_call_channel_info
  <2>. QED
    BY <1>0, <2>2, BeginsDescription
<1>2. CASE get_channel_state_mobile(t, n)
  BY <1>0, <1>2, BeginsDescription DEF get_channel_state_mobile
<1>3. CASE get_channels(t, n)
  <2>1. PICK d \in DOMAIN get_all_calls(n) : RequestAll(t, n, TRUE, build_call_channel_info(d, get_all_calls(n)[d]))
    BY <1>3 DEF get_channels
  <2>2. d \in CallIds /\ redis[d] # None /\ get_all_calls(n)[d] = redis[d]
    BY <2>1, CalmSettled, Reading
  <2>. QED
    BY <2>1, <2>2, BeginsDescription
<1>. QED
  BY <1>1, <1>2, <1>3

LEMMA BeginsDismiss ==
    ASSUME Peaceful, Calm, NEW t \in Tasks, NEW n \in Nodes, NEW u, dismiss_notification(t, n, u) PROVE Begins(t, n)
<1>. PICK c : c = get_call_by_channel(n)
  OBVIOUS
<1>1. c \in CallIds /\ redis[c] # None
  BY FoundOne DEF dismiss_notification
<1>2. Safe(Touch(c), c) /\ Safe(State(c), c)
  BY <1>1, SafeOps DEF Touch, State
<1>3. Request(t, n, TRUE, Touch(c) \o State(c))
  BY DEF dismiss_notification
<1>4. Safe(Touch(c) \o State(c), c)
  BY <1>2, SafeJoin
<1>. QED
  BY <1>1, <1>3, <1>4, OnChannel

LEMMA BeginsParticipant ==
    ASSUME Peaceful, Calm, NEW t \in Tasks, NEW n \in Nodes, NEW u \in Users, ParticipantRequest(t, n, u) PROVE Begins(t, n)
<1>. PICK c : c = get_call_by_channel(n)
  OBVIOUS
<1>. PICK call : call = channel_call(n)
  OBVIOUS
<1>1. c \in CallIds /\ redis[c] # None /\ call = redis[c] /\ call \in Call /\ c # None
  BY FoundOne DEF ParticipantRequest
<1>2. u \in In(call) /\ call.who[u] \in Participant /\ call.who[u].session \in SessionKinds
  BY <1>1 DEF ParticipantRequest, In, Call, Participant
<1>3. PICK l \in {mute_user(c), unmute_user(c), raise_hand(c), lower_hand(c), toggle_screen_share(c, call, u),
                  handle_offer(c, call, u), handle_ice_candidate(c, call, u)} : Request(t, n, TRUE, l)
  BY DEF ParticipantRequest
<1>4. Safe(Touch(c), c) /\ Safe(<<Op(c, "sfu_add", u, call.who[u].session)>>, c)
  <2>1. Safe(Touch(c), c)
    BY <1>1, SafeOps DEF Touch
  <2>2. Safe(<<Op(c, "sfu_add", u, call.who[u].session)>>, c)
    BY <1>1, <1>2, SafeOps
  <2>. QED
    BY <2>1, <2>2
<1>5. CASE l = Touch(c) \/ l = <<Op(c, "sfu_add", u, call.who[u].session)>>
  BY <1>1, <1>3, <1>4, <1>5, OnChannel
<1>6. CASE l = toggle_screen_share(c, call, u)
  <2>. PICK b \in BOOLEAN : b = call.who[u].sharing
    BY <1>2 DEF Participant
  <2>1. PICK a, s, z : a = Op(c, "sharing", u, ~b) /\ s = Op(c, "sharer", u, None) /\ z = Op(c, "sharer", None, None)
    OBVIOUS
  <2>2. a \in Ops /\ s \in Ops
    BY <1>1, <2>1, OpFacts
  <2>3. Safe(<<a>>, c) /\ Safe(<<z>>, c)
    <3>1. (~b) \in BOOLEAN
      OBVIOUS
    <3>2. Safe(<<a>>, c)
      BY <1>1, <2>1, <3>1, SafeOps
    <3>3. Safe(<<z>>, c)
      BY <1>1, <2>1, SafeOps
    <3>. QED
      BY <3>2, <3>3
  <2>4. l = <<a>> \o (IF ~b THEN <<s>> ELSE IF call.sharer = u THEN <<z>> ELSE <<>>)
    BY <1>6, <2>1 DEF toggle_screen_share
  <2>5. CASE ~b
    <3>1. l = <<a>> \o <<s>>
      BY <2>4, <2>5
    <3>2. l \in Seq(Ops) /\ OpsOf(l) = {a, s}
      <4>1. /\ <<a>> \in Seq(Ops) /\ OpsOf(<<a>>) = {a} /\ <<s>> \in Seq(Ops) /\ OpsOf(<<s>>) = {s}
        BY <2>2, OneList
      <4>. QED
        BY <3>1, <4>1, OpsConcat
    <3>3. a.c = c /\ a.do = "sharing" /\ s.c = c /\ s.do = "sharer" /\ s.u = u
      BY <2>1, OpFields
    <3>4. Fit(l, c, call) /\ ~Has(l, "authorize")
      BY <1>2, <3>2, <3>3 DEF Fit, Sharers, Has, Living
    <3>5. \E f : Start(t, n, TRUE, call, f, l) /\ Clean(f)
      BY <1>3, CalmFinds DEF Request
    <3>. QED
      BY <1>1, <3>4, <3>5 DEF Begins, Clean
  <2>6. CASE b
    <3>1. PICK r : r = IF call.sharer = u THEN <<z>> ELSE <<>>
      OBVIOUS
    <3>2. Safe(r, c)
      BY <2>3, <3>1, SafeNone
    <3>3. l = <<a>> \o r
      BY <2>4, <2>6, <3>1
    <3>4. Safe(l, c)
      BY <2>3, <3>2, <3>3, SafeJoin
    <3>. QED
      BY <1>1, <1>3, <3>4, OnChannel
  <2>. QED
    BY <2>5, <2>6
<1>. QED
  BY <1>3, <1>5, <1>6 DEF mute_user, unmute_user, raise_hand, lower_hand, handle_offer, handle_ice_candidate

LEMMA BeginsHost ==
    ASSUME Peaceful, Calm, NEW t \in Tasks, NEW n \in Nodes, NEW u \in Users, HostRequest(t, n, u) PROVE Begins(t, n)
<1>. PICK c : c = get_call_by_channel(n)
  OBVIOUS
<1>. PICK call : call = channel_call(n)
  OBVIOUS
<1>1. c \in CallIds /\ redis[c] # None /\ call = redis[c] /\ call \in Call /\ c # None
  BY FoundOne DEF HostRequest
<1>2. PICK v \in HostRequests : Request(t, n, TRUE, normalize_call_host_if_stale(c, call) \o <<Op(c, "authorize", u, v)>>)
  BY DEF HostRequest
<1>. PICK a : a = Op(c, "authorize", u, v)
  OBVIOUS
<1>3. a \in Ops /\ a.do = "authorize" /\ a.c = c
  <2>1. a \in Ops
    BY <1>1, OpFacts
  <2>. QED
    BY <2>1, OpFields
<1>. PICK p : p = normalize_call_host_if_stale(c, call)
  OBVIOUS
<1>. PICK l : l = p \o <<a>>
  OBVIOUS
<1>4. PICK f : Start(t, n, TRUE, call, f, l) /\ Clean(f)
  BY <1>2, CalmFinds DEF Request
<1>5. Safe(p, c)
  <2>1. CASE HostIsStale(call)
    <3>0. CallOK(call) /\ In(call) # {}
      BY <1>1, <2>1, CalmCall DEF HostIsStale
    <3>1. PICK x \in In(call) : \E i \in 1..Len(call.joined) : call.joined[i] = x
      BY <3>0 DEF CallOK
    <3>2. call.joined \in Seq(Users)
      BY <1>1 DEF Call
    <3>3. select_next_host(call) \in Users
      BY <3>1, <3>2 DEF select_next_host
    <3>4. PICK h, r : h = <<Op(c, "host", select_next_host(call), None)>> /\ r = <<Op(c, "reread", None, None)>>
      OBVIOUS
    <3>5. Safe(h, c)
      BY <1>1, <3>3, <3>4, SafeOps
    <3>6. Safe(State(c), c) /\ Safe(r, c)
      BY <1>1, <3>4, SafeOps DEF State
    <3>7. p = (h \o State(c)) \o r
      BY <2>1, <3>4 DEF normalize_call_host_if_stale
    <3>. QED
      BY <3>5, <3>6, <3>7, SafeJoin
  <2>2. CASE ~HostIsStale(call)
    BY <2>2, SafeNone DEF normalize_call_host_if_stale
  <2>. QED
    BY <2>1, <2>2
<1>6. p \in Seq(Ops) /\ <<a>> \in Seq(Ops) /\ OpsOf(<<a>>) = {a}
  BY <1>3, <1>5, OneList DEF Safe
<1>7. l \in Seq(Ops) /\ OpsOf(l) = OpsOf(p) \cup {a}
  <2>1. PICK q : q = <<a>>
    OBVIOUS
  <2>2. q \in Seq(Ops) /\ OpsOf(q) = {a} /\ l = p \o q
    BY <1>6, <2>1
  <2>. QED
    BY <1>6, <2>2, OpsConcat
<1>8. Fit(l, c, call)
  BY <1>3, <1>5, <1>7 DEF Fit, Safe, Sharers, Living
<1>9. Last(l) = a
  <2>1. Len(p) \in Nat /\ Len(l) = Len(p) + 1
    BY <1>6
  <2>2. l[Len(p) + 1] = a
    BY <1>6
  <2>. QED
    BY <2>1, <2>2 DEF Last
<1>. QED
  BY <1>1, <1>3, <1>4, <1>8, <1>9 DEF Begins, Clean

\* The calls that a task which looks all of them up finds.
LEMMA AllCalls ==
    ASSUME Peaceful, Calm, NEW n \in Nodes, NEW c \in DOMAIN get_all_calls(n)
    PROVE  c \in CallIds /\ redis[c] # None /\ get_all_calls(n)[c] = redis[c] /\ redis[c] \in Call
<1>1. Settled
  BY CalmSettled
<1>2. DOMAIN get_all_calls(n) = {x \in CallIds : redis[x] # None} /\ \A x \in CallIds : redis[x] # None => get_all_calls(n)[x] = redis[x]
  BY <1>1, Reading
<1>. QED
  BY <1>1, <1>2 DEF Settled, CallsType, Stores

\* The websocket action of u is about a stored call.
LEMMA Resolved ==
    ASSUME Peaceful, Calm, NEW n \in Nodes, NEW u \in Users, NEW r \in resolve_call_for_ws_connection(n, u)
    PROVE  r[1] \in DOMAIN get_all_calls(n) /\ r[2] \in SessionKinds
<1>. PICK all : all = get_all_calls(n)
  OBVIOUS
<1>1. \A c \in DOMAIN all : u \in In(all[c]) => all[c].who[u].session \in SessionKinds
  BY AllCalls DEF In, Call, Participant
<1>2. \A c \in find_call_for_session(n, u) : c \in DOMAIN all
  BY DEF find_call_for_session
<1>3. PICK c \in DOMAIN all :
         r = <<c, "ws">> \/ (u \in In(all[c]) /\ r = <<c, all[c].who[u].session>>)
  <2>1. CASE find_call_for_session(n, u) # {}
    BY <1>2, <2>1 DEF resolve_call_for_ws_connection
  <2>2. CASE find_call_for_session(n, u) = {}
    BY <2>2 DEF resolve_call_for_ws_connection, find_member_calls_for_user
  <2>. QED
    BY <2>1, <2>2
<1>. QED
  BY <1>1, <1>3 DEF SessionKinds

LEMMA BeginsAction ==
    ASSUME Peaceful, Calm, NEW t \in Tasks, NEW n \in Nodes, NEW u \in Users, handle_ws_action(t, n, u) PROVE Begins(t, n)
<1>1. PICK r \in resolve_call_for_ws_connection(n, u) :
         \E l \in {handle_ws_leave_call(r[1], get_all_calls(n)[r[1]], u, r[2]), handle_ws_sdp(r[1], get_all_calls(n)[r[1]], u, r[2]),
                   handle_ws_ice(r[1], get_all_calls(n)[r[1]], u, r[2]), handle_ws_mute(r[1], get_all_calls(n)[r[1]], u, r[2]),
                   handle_ws_raise_hand(r[1])} : RequestAll(t, n, FALSE, l)
  BY DEF handle_ws_action
<1>. PICK c, s : c = r[1] /\ s = r[2]
  OBVIOUS
<1>2. c \in CallIds /\ redis[c] # None /\ get_all_calls(n)[c] = redis[c] /\ s \in SessionKinds
  BY Resolved, AllCalls
<1>3. PICK l \in {Leaving(c, u, s), <<Op(c, "sfu_add", u, s)>>, handle_ws_mute(c, redis[c], u, s), Touch(c)} : RequestAll(t, n, FALSE, l)
  BY <1>1, <1>2 DEF handle_ws_leave_call, handle_ws_sdp, handle_ws_ice, handle_ws_raise_hand
<1>4. Safe(Leaving(c, u, s), c)
  BY <1>2, SafeLeaving
<1>5. Safe(<<Op(c, "sfu_add", u, s)>>, c)
  BY <1>2, SafeOps
<1>6. Safe(Touch(c), c)
  BY <1>2, SafeOps DEF Touch
<1>7. Safe(handle_ws_mute(c, redis[c], u, s), c)
  <2>1. PICK p : p = IF redis[c].who[u] = None THEN <<Op(c, "add", u, s)>> ELSE <<>>
    OBVIOUS
  <2>2. Safe(<<Op(c, "add", u, s)>>, c)
    BY <1>2, SafeOps
  <2>3. Safe(p, c)
    BY <2>1, <2>2, SafeNone
  <2>4. handle_ws_mute(c, redis[c], u, s) = p \o Touch(c)
    BY <2>1 DEF handle_ws_mute
  <2>. QED
    BY <1>6, <2>3, <2>4, SafeJoin
<1>8. Safe(l, c)
  BY <1>3, <1>4, <1>5, <1>6, <1>7
<1>. QED
  BY <1>2, <1>3, <1>8, OnChannel

LEMMA BeginsClosed ==
    ASSUME Peaceful, Calm, NEW t \in Tasks, NEW n \in Nodes, NEW u \in Users, handle_ws_connection_closed(t, n, u) PROVE Begins(t, n)
<1>1. PICK c \in find_call_for_session(n, u) : RequestAll(t, n, FALSE, Leaving(c, u, "ws"))
  BY DEF handle_ws_connection_closed
<1>2. c \in CallIds /\ redis[c] # None
  BY AllCalls DEF find_call_for_session
<1>3. Safe(Leaving(c, u, "ws"), c)
  BY <1>2, SafeLeaving DEF SessionKinds
<1>. QED
  BY <1>1, <1>2, <1>3, OnChannel

LEMMA BeginsTimeout ==
    ASSUME Peaceful, Calm, NEW t \in Tasks, NEW n \in Nodes, NEW c \in CallIds, end_call_if_still_empty(t, n, c) PROVE Begins(t, n)
<1>1. get_call(n, c) = redis[c]
  BY CalmSettled, Reading
<1>2. PICK l, f : /\ l = (IF StillAlone(redis[c]) THEN end_call(c) ELSE <<>>) /\ f = Found({c})
                  /\ Start(t, n, FALSE, redis[c], f, l)
  BY <1>1 DEF end_call_if_still_empty
<1>3. Clean(f)
  BY <1>2, CalmFinds
<1>4. CASE redis[c] # None
  BY <1>2, <1>3, <1>4, SafeNone, OnCall
<1>5. CASE redis[c] = None
  <2>1. l = <<>>
    BY <1>2, <1>5 DEF StillAlone
  <2>. QED
    BY <1>2, <1>3, <2>1 DEF Begins, Clean
<1>. QED
  BY <1>4, <1>5


\* What it takes to be the concatenation of two lists.
LEMMA ConcatIs ==
    ASSUME NEW p \in Seq(Ops), NEW q \in Seq(Ops), NEW r \in Seq(Ops), Len(r) = Len(p) + Len(q),
           \A i \in 1..Len(p) : r[i] = p[i], \A i \in 1..Len(q) : r[i + Len(p)] = q[i]
    PROVE  p \o q = r
<1>1. p \o q \in Seq(Ops) /\ Len(p \o q) = Len(p) + Len(q) /\ Len(p) \in Nat /\ Len(q) \in Nat
  OBVIOUS
<1>2. \A i \in 1..Len(p) + Len(q) : (p \o q)[i] = IF i <= Len(p) THEN p[i] ELSE q[i - Len(p)]
  BY ConcatProperties
<1>3. \A i \in 1..Len(p) + Len(q) : (p \o q)[i] = r[i]
  <2>1. TAKE i \in 1..Len(p) + Len(q)
  <2>2. CASE i <= Len(p)
    BY <1>1, <1>2, <2>2
  <2>3. CASE ~(i <= Len(p))
    <3>1. i - Len(p) \in 1..Len(q) /\ r[(i - Len(p)) + Len(p)] = q[i - Len(p)]
      BY <1>1, <2>3
    <3>. QED
      BY <1>1, <1>2, <2>3, <3>1
  <2>. QED
    BY <2>2, <2>3
<1>. QED
  BY <1>1, <1>3, SeqEqual

\* The lists that handlers put together piece by piece.
LEMMA ListOfThree ==
    ASSUME NEW a \in Ops, NEW b \in Ops, NEW c \in Ops PROVE <<a>> \o <<b, c>> = <<a, b, c>>
<1>1. PICK p, q, r : p = <<a>> /\ q = <<b, c>> /\ r = <<a, b, c>>
  OBVIOUS
<1>2. p \in Seq(Ops) /\ q \in Seq(Ops) /\ r \in Seq(Ops) /\ Len(p) = 1 /\ Len(q) = 2 /\ Len(r) = 3
  BY <1>1
<1>3. (\A i \in 1..1 : r[i] = p[i]) /\ \A i \in 1..2 : r[i + 1] = q[i]
  BY <1>1
<1>4. Len(r) = Len(p) + Len(q) /\ (\A i \in 1..Len(p) : r[i] = p[i]) /\ \A i \in 1..Len(q) : r[i + Len(p)] = q[i]
  BY <1>2, <1>3
<1>5. p \o q = r
  BY <1>2, <1>4, ConcatIs, Zenon
<1>. QED
  BY <1>1, <1>5

LEMMA ListOfFour ==
    ASSUME NEW a \in Ops, NEW b \in Ops, NEW c \in Ops, NEW d \in Ops PROVE <<a, b, c>> \o <<d>> = <<a, b, c, d>>
<1>1. PICK p, q, r : p = <<a, b, c>> /\ q = <<d>> /\ r = <<a, b, c, d>>
  OBVIOUS
<1>2. p \in Seq(Ops) /\ q \in Seq(Ops) /\ r \in Seq(Ops) /\ Len(p) = 3 /\ Len(q) = 1 /\ Len(r) = 4
  BY <1>1
<1>3. (\A i \in 1..3 : r[i] = p[i]) /\ \A i \in 1..1 : r[i + 3] = q[i]
  BY <1>1
<1>4. Len(r) = Len(p) + Len(q) /\ (\A i \in 1..Len(p) : r[i] = p[i]) /\ \A i \in 1..Len(q) : r[i + Len(p)] = q[i]
  BY <1>2, <1>3
<1>5. p \o q = r
  BY <1>2, <1>4, ConcatIs, Zenon
<1>. QED
  BY <1>1, <1>5

LEMMA ListOfFive ==
    ASSUME NEW a \in Ops, NEW b \in Ops, NEW c \in Ops, NEW d \in Ops, NEW e \in Ops PROVE <<a, b, c, d>> \o <<e>> = <<a, b, c, d, e>>
<1>1. PICK p, q, r : p = <<a, b, c, d>> /\ q = <<e>> /\ r = <<a, b, c, d, e>>
  OBVIOUS
<1>2. p \in Seq(Ops) /\ q \in Seq(Ops) /\ r \in Seq(Ops) /\ Len(p) = 4 /\ Len(q) = 1 /\ Len(r) = 5
  BY <1>1
<1>3. (\A i \in 1..4 : r[i] = p[i]) /\ \A i \in 1..1 : r[i + 4] = q[i]
  BY <1>1
<1>4. Len(r) = Len(p) + Len(q) /\ (\A i \in 1..Len(p) : r[i] = p[i]) /\ \A i \in 1..Len(q) : r[i + Len(p)] = q[i]
  BY <1>2, <1>3
<1>5. p \o q = r
  BY <1>2, <1>4, ConcatIs, Zenon
<1>. QED
  BY <1>1, <1>5

LEMMA ListOfSix ==
    ASSUME NEW a \in Ops, NEW b \in Ops, NEW c \in Ops, NEW d \in Ops, NEW e \in Ops, NEW f \in Ops PROVE <<a, b, c, d, e>> \o <<f>> = <<a, b, c, d, e, f>>
<1>1. PICK p, q, r : p = <<a, b, c, d, e>> /\ q = <<f>> /\ r = <<a, b, c, d, e, f>>
  OBVIOUS
<1>2. p \in Seq(Ops) /\ q \in Seq(Ops) /\ r \in Seq(Ops) /\ Len(p) = 5 /\ Len(q) = 1 /\ Len(r) = 6
  BY <1>1
<1>3. (\A i \in 1..5 : r[i] = p[i]) /\ \A i \in 1..1 : r[i + 5] = q[i]
  BY <1>1
<1>4. Len(r) = Len(p) + Len(q) /\ (\A i \in 1..Len(p) : r[i] = p[i]) /\ \A i \in 1..Len(q) : r[i + Len(p)] = q[i]
  BY <1>2, <1>3
<1>5. p \o q = r
  BY <1>2, <1>4, ConcatIs, Zenon
<1>. QED
  BY <1>1, <1>5

LEMMA ListOfNone == ASSUME NEW p \in Seq(Ops) PROVE p \o <<>> = p
<1>1. <<>> \in Seq(Ops) /\ Len(p) = Len(p) + 0 /\ Len(<<>>) = 0
  OBVIOUS
<1>2. \A i \in 1..0 : p[i + Len(p)] = <<>>[i]
  OBVIOUS
<1>. QED
  BY <1>1, <1>2, ConcatIs

\* The lists that create a call.
LEMMA CreatesBegin == ASSUME NEW d \in CallIds, NEW u \in Users PROVE Creates(BeginCall(d, u), d)
<1>1. PICK create, post, state, timer, add, sfu_add :
         /\ create = Op(d, "create", u, None) /\ post = Op(d, "post", None, None)
         /\ state = Op(d, "state", None, None) /\ timer = Op(d, "timer", None, None)
         /\ add = Op(d, "add", u, "http") /\ sfu_add = Op(d, "sfu_add", u, "http")
  OBVIOUS
<1>2. create \in Ops /\ post \in Ops /\ state \in Ops /\ timer \in Ops /\ add \in Ops /\ sfu_add \in Ops
  BY <1>1, OpFacts DEF SessionKinds
<1>3. /\ create.c = d /\ create.do = "create" /\ create.v = None
      /\ post.c = d /\ post.do = "post" /\ state.c = d /\ state.do = "state" /\ timer.c = d /\ timer.do = "timer"
      /\ add.c = d /\ add.do = "add" /\ sfu_add.c = d /\ sfu_add.do = "sfu_add"
  BY <1>1, OpFields
<1>4. PICK l, r : l = <<create, post, add, sfu_add, state, timer>> /\ r = <<post, add, sfu_add, state, timer>>
  OBVIOUS
<1>5. BeginCall(d, u) = l
  <2>1. BeginCall(d, u) = (<<create, post, add, sfu_add>> \o <<state>>) \o <<timer>>
    BY <1>1 DEF BeginCall, State, Timeout
  <2>2. <<create, post, add, sfu_add>> \o <<state>> = <<create, post, add, sfu_add, state>>
    BY <1>2, ListOfFive
  <2>3. <<create, post, add, sfu_add, state>> \o <<timer>> = <<create, post, add, sfu_add, state, timer>>
    BY <1>2, ListOfSix
  <2>. QED
    BY <1>4, <2>1, <2>2, <2>3, Zenon
<1>6. l \in Seq(Ops) /\ l # <<>> /\ Head(l) = create /\ Tail(l) = r
  BY <1>2, <1>4
<1>7. OpsOf(r) = {post, add, sfu_add, state, timer}
  BY <1>4 DEF OpsOf
<1>8. Awaiting(r)
  <2>1. Len(r) = 5 /\ r[1] = post /\ r[2] = add /\ r[3] = sfu_add /\ r[4] = state /\ r[5] = timer
    BY <1>4
  <2>. QED
    BY <1>3, <2>1 DEF Awaiting
<1>9. Follows(r, d, None)
  <2>1. Does(r, d)
    BY <1>3, <1>7 DEF Does, Living
  <2>2. ~Has(r, "thread") /\ ~Has(r, "sharer") /\ ~Has(r, "authorize")
    BY <1>3, <1>7 DEF Has
  <2>. QED
    BY <1>8, <2>1, <2>2 DEF Follows
<1>. QED
  BY <1>3, <1>5, <1>6, <1>9 DEF Creates

\* A join that creates a call: with the thread that the client names, no post is created.
Joining(d, u, th) ==
    <<Op(d, "create", u, th)>> \o <<Op(d, "ws_add", u, None), Op(d, "sfu_add", u, "ws")>> \o
    ensure_call_thread_id(d, NewCall(u, th)) \o Timeout(d) \o State(d)

LEMMA CreatesJoining ==
    ASSUME NEW d \in CallIds, NEW u \in Users, NEW th \in {None, NamedThread} PROVE Creates(Joining(d, u, th), d)
<1>1. PICK create, post, state, timer, add, sfu_add :
         /\ create = Op(d, "create", u, th) /\ post = Op(d, "post", None, None)
         /\ state = Op(d, "state", None, None) /\ timer = Op(d, "timer", None, None)
         /\ add = Op(d, "ws_add", u, None) /\ sfu_add = Op(d, "sfu_add", u, "ws")
  OBVIOUS
<1>2. create \in Ops /\ post \in Ops /\ state \in Ops /\ timer \in Ops /\ add \in Ops /\ sfu_add \in Ops
  BY <1>1, OpFacts DEF SessionKinds
<1>3. /\ create.c = d /\ create.do = "create" /\ create.v = th
      /\ post.c = d /\ post.do = "post" /\ state.c = d /\ state.do = "state" /\ timer.c = d /\ timer.do = "timer"
      /\ add.c = d /\ add.do = "ws_add" /\ sfu_add.c = d /\ sfu_add.do = "sfu_add"
  BY <1>1, OpFields
<1>4. PICK e : e = ensure_call_thread_id(d, NewCall(u, th))
  OBVIOUS
<1>5. Joining(d, u, th) = <<create>> \o <<add, sfu_add>> \o e \o <<timer>> \o <<state>>
  BY <1>1, <1>4 DEF Joining, Timeout, State
<1>6. <<create>> \o <<add, sfu_add>> = <<create, add, sfu_add>> /\ <<create, add, sfu_add>> \in Seq(Ops)
  BY <1>2, ListOfThree
<1>7. NewCall(u, th).thread = th /\ NamedThread # None
  BY NewCallOK, CallsAssumption DEF NamedThread
<1>8. CASE th = None
  <2>1. e = <<post>>
    BY <1>1, <1>4, <1>7, <1>8 DEF ensure_call_thread_id
  <2>2. PICK l, r : l = <<create, add, sfu_add, post, timer, state>> /\ r = <<add, sfu_add, post, timer, state>>
    OBVIOUS
  <2>3. Joining(d, u, th) = l
    <3>1. <<create, add, sfu_add>> \o <<post>> = <<create, add, sfu_add, post>>
      BY <1>2, ListOfFour
    <3>2. <<create, add, sfu_add, post>> \o <<timer>> = <<create, add, sfu_add, post, timer>>
      BY <1>2, ListOfFive
    <3>3. <<create, add, sfu_add, post, timer>> \o <<state>> = <<create, add, sfu_add, post, timer, state>>
      BY <1>2, ListOfSix
    <3>. QED
      BY <1>5, <1>6, <2>1, <2>2, <3>1, <3>2, <3>3, Zenon
  <2>4. l \in Seq(Ops) /\ l # <<>> /\ Head(l) = create /\ Tail(l) = r
    BY <1>2, <2>2
  <2>5. OpsOf(r) = {add, sfu_add, post, timer, state}
    BY <2>2 DEF OpsOf
  <2>6. Awaiting(r)
    <3>1. Len(r) = 5 /\ r[1] = add /\ r[2] = sfu_add /\ r[3] = post /\ r[4] = timer /\ r[5] = state
      BY <2>2
    <3>. QED
      BY <1>3, <3>1 DEF Awaiting, Early
  <2>7. Follows(r, d, th)
    <3>1. Does(r, d)
      BY <1>3, <2>5 DEF Does, Living
    <3>2. ~Has(r, "thread") /\ ~Has(r, "sharer") /\ ~Has(r, "authorize")
      BY <1>3, <2>5 DEF Has
    <3>. QED
      BY <1>8, <2>6, <3>1, <3>2 DEF Follows
  <2>. QED
    BY <1>3, <2>3, <2>4, <2>7 DEF Creates
<1>9. CASE th = NamedThread
  <2>1. e = <<>>
    BY <1>4, <1>7, <1>9 DEF ensure_call_thread_id
  <2>2. PICK l, r : l = <<create, add, sfu_add, timer, state>> /\ r = <<add, sfu_add, timer, state>>
    OBVIOUS
  <2>3. Joining(d, u, th) = l
    <3>1. <<create, add, sfu_add>> \o <<>> = <<create, add, sfu_add>>
      BY <1>6, ListOfNone
    <3>2. <<create, add, sfu_add>> \o <<timer>> = <<create, add, sfu_add, timer>>
      BY <1>2, ListOfFour
    <3>3. <<create, add, sfu_add, timer>> \o <<state>> = <<create, add, sfu_add, timer, state>>
      BY <1>2, ListOfFive
    <3>. QED
      BY <1>5, <1>6, <2>1, <2>2, <3>1, <3>2, <3>3, Zenon
  <2>4. l \in Seq(Ops) /\ l # <<>> /\ Head(l) = create /\ Tail(l) = r
    BY <1>2, <2>2
  <2>5. OpsOf(r) = {add, sfu_add, timer, state}
    BY <2>2 DEF OpsOf
  <2>6. Follows(r, d, th)
    <3>1. Does(r, d)
      BY <1>3, <2>5 DEF Does, Living
    <3>2. ~Has(r, "post") /\ ~Has(r, "thread") /\ ~Has(r, "sharer") /\ ~Has(r, "authorize")
      BY <1>3, <2>5 DEF Has
    <3>. QED
      BY <1>7, <1>9, <3>1, <3>2 DEF Follows
  <2>. QED
    BY <1>3, <2>3, <2>4, <2>6 DEF Creates
<1>. QED
  BY <1>8, <1>9

LEMMA BeginsStart ==
    ASSUME Peaceful, Calm, NEW t \in Tasks, NEW n \in Nodes, NEW u \in Users, start_call(t, n, u) PROVE Begins(t, n)
<1>1. get_call_by_channel(n) = None
  BY DEF start_call
<1>2. PICK d \in CallIds : Fresh(d) /\ Request(t, n, TRUE, BeginCall(d, u))
  BY DEF start_call
<1>3. PICK l, call, f : l = BeginCall(d, u) /\ f = FoundByChannel /\ Start(t, n, TRUE, call, f, l)
  BY <1>2 DEF Request
<1>4. Creates(l, d) /\ posts[d] = <<>>
  BY <1>2, <1>3, CreatesBegin DEF Fresh, Unused
<1>5. Clean(f)
  BY <1>3, CalmFinds
<1>. QED
  BY <1>1, <1>3, <1>4, <1>5 DEF Begins, Clean

LEMMA BeginsWsJoin ==
    ASSUME Peaceful, Calm, NEW t \in Tasks, NEW n \in Nodes, NEW u \in Users, handle_ws_join_call(t, n, u)
    PROVE  Begins(t, n)
<1>. PICK c : c = get_call_by_channel(n)
  OBVIOUS
<1>1. CASE c # None
  <2>1. c \in CallIds /\ redis[c] # None /\ channel_call(n) = redis[c]
    BY <1>1, FoundOne
  <2>2. PICK a, b : a = Op(c, "ws_add", u, None) /\ b = Op(c, "sfu_add", u, "ws")
    OBVIOUS
  <2>3. PICK l : l = (<<a, b>> \o ensure_call_thread_id(c, redis[c])) \o State(c)
    OBVIOUS
  <2>4. Request(t, n, FALSE, l)
    BY <1>1, <2>1, <2>2, <2>3 DEF handle_ws_join_call
  <2>5. a \in Ops /\ b \in Ops
    BY <2>1, <2>2, OpFacts DEF SessionKinds
  <2>6. Safe(<<a>>, c)
    BY <2>1, <2>2, SafeOps
  <2>7. Safe(<<b>>, c)
    BY <2>1, <2>2, SafeOps DEF SessionKinds
  <2>8. Safe(<<a, b>>, c) /\ Safe(State(c), c)
    BY <2>1, <2>5, <2>6, <2>7, SafeTwo, SafeOps DEF State
  <2>9. Safe(ensure_call_thread_id(c, redis[c]), c)
    BY <2>1, Described, SafeNone
  <2>10. Safe(<<a, b>> \o ensure_call_thread_id(c, redis[c]), c)
    BY <2>8, <2>9, SafeJoin
  <2>11. Safe(l, c)
    BY <2>3, <2>8, <2>10, SafeJoin
  <2>. QED
    BY <2>1, <2>4, <2>11, OnChannel
<1>2. CASE c = None
  <2>1. PICK d \in CallIds, th \in {None, NamedThread} : Fresh(d) /\ Request(t, n, FALSE, Joining(d, u, th))
    BY <1>2 DEF handle_ws_join_call, Joining
  <2>2. PICK l, call, f : l = Joining(d, u, th) /\ f = FoundByChannel /\ Start(t, n, FALSE, call, f, l)
    BY <2>1 DEF Request
  <2>3. Creates(l, d) /\ posts[d] = <<>>
    BY <2>1, <2>2, CreatesJoining DEF Fresh, Unused
  <2>4. Clean(f)
    BY <2>2, CalmFinds
  <2>. QED
    BY <1>2, <2>2, <2>3, <2>4 DEF Begins, Clean
<1>. QED
  BY <1>1, <1>2

LEMMA BeginsEnabled ==
    ASSUME Peaceful, Calm, NEW t \in Tasks, NEW n \in Nodes, NEW b, set_channel_calls_enabled(t, n, b) PROVE Begins(t, n)
<1>. PICK c, call : c = get_call_by_channel(n) /\ call = channel_call(n)
  OBVIOUS
<1>1. c = None \/ (c \in CallIds /\ redis[c] # None /\ call = redis[c])
  BY FoundOne
<1>2. Request(t, n, TRUE, build_call_channel_info(c, call))
  BY DEF set_channel_calls_enabled
<1>. QED
  BY <1>1, <1>2, BeginsDescription

-----------------------------------------------------------------------------
(* The invariant. *)

\* A task of node n begins.
Starting(t, n) == \E http, call, f, l : Start(t, n, http, call, f, l)

LEMMA HandlerStarts ==
    ASSUME NEW t \in Tasks, NEW n \in Nodes, NEW u \in Users, Handler(t, n, u) PROVE Starting(t, n)
<1>1. \E http, l : Request(t, n, http, l) \/ RequestAll(t, n, http, l)
  <2>1. CASE start_call(t, n, u) \/ join_call(t, n, u) \/ leave_call(t, n, u)
    BY <2>1 DEF start_call, join_call, leave_call
  <2>2. CASE get_call_state(t, n) \/ get_channel_state_mobile(t, n) \/ get_channels(t, n) \/ dismiss_notification(t, n, u)
    BY <2>2 DEF get_call_state, get_channel_state_mobile, get_channels, dismiss_notification
  <2>3. CASE ParticipantRequest(t, n, u)
    BY <2>3 DEF ParticipantRequest
  <2>4. CASE HostRequest(t, n, u)
    BY <2>4 DEF HostRequest
  <2>5. CASE handle_ws_join_call(t, n, u)
    BY <2>5 DEF handle_ws_join_call
  <2>6. CASE handle_ws_action(t, n, u)
    BY <2>6 DEF handle_ws_action
  <2>7. CASE handle_ws_connection_closed(t, n, u)
    BY <2>7 DEF handle_ws_connection_closed
  <2>. QED
    BY <2>1, <2>2, <2>3, <2>4, <2>5, <2>6, <2>7 DEF Handler
<1>. QED
  BY <1>1 DEF Request, RequestAll, Starting

\* Whatever begins in the quiet, and nothing that does something begins while another task runs.
LEMMA StepBegin ==
    ASSUME Peaceful, NEW t \in Tasks, NEW n \in Nodes, Starting(t, n), Calm => Begins(t, n),
           overlap' = overlap, overlap \in Nat, UNCHANGED <<sfu, posts>>
    PROVE  Peaceful'
<1>1. CASE Calm
  BY <1>1, Beginning
<1>2. CASE ~Calm
  <2>1. PICK http, call, f, l : Start(t, n, http, call, f, l)
    BY DEF Starting
  <2>. QED
    BY <1>2, <2>1, Quiet
<1>. QED
  BY <1>1, <1>2

LEMMA StepHandler ==
    ASSUME Peaceful, NEW t \in Tasks, NEW n \in Nodes, NEW u \in Users, overlap' = overlap, overlap \in Nat,
           Handler(t, n, u)
    PROVE  Peaceful'
<1>1. ASSUME Calm PROVE Begins(t, n)
  BY <1>1, BeginsStart, BeginsJoin, BeginsLeave, BeginsState, BeginsDismiss, BeginsParticipant, BeginsHost, BeginsWsJoin,
     BeginsAction, BeginsClosed DEF Handler
<1>2. UNCHANGED <<sfu, posts>>
  BY DEF Handler
<1>. QED
  BY <1>1, <1>2, HandlerStarts, StepBegin

LEMMA StepTask ==
    ASSUME Peaceful, OneNode, NEW t \in Tasks, TaskStep(t) PROVE Peaceful'
BY StepCopied, StepSent, StepRead, StepWrite, StepCreate, StepPost, StepState, StepJoin, StepSfu, StepReconcile, StepCount,
   StepTimeout, StepReread, StepAuthorize, StepLastRead, StepDrop, StepSfuDrop, StepMark DEF TaskStep

\* The history of overlaps and failures only grows.
LEMMA StartCounts ==
    ASSUME overlap \in Nat, NEW t, NEW n, Starting(t, n)
    PROVE  overlap' \in Nat /\ (overlap' = 0 => overlap' = overlap)
BY DEF Start, Starting

LEMMA TaskCounts ==
    ASSUME NEW t \in Tasks, TaskStep(t) PROVE overlap' = overlap /\ faults' = faults
BY DEF TaskStep, env, call_is_copied, command_is_sent, mutate_call_reads, mutate_call_writes, add_call,
   create_call_thread_post, broadcast_call_state_event, ws_participant_is_replaced, get_or_create_sfu,
   sfu_remove_participant, reconcile_after_participant_left, participants_are_counted, schedule_timeout, reread, authorize,
   end_call_reads, end_call_removes, sfu_is_removed, mark_call_thread_post_ended

\* At first there is no call.
LEMMA InitPeaceful == CallsInit => CallsInv
<1>. SUFFICES ASSUME CallsInit PROVE CallsInv
  OBVIOUS
<1>1. /\ redis = [c \in CallIds |-> None] /\ channel = None /\ active = {}
      /\ local = [n \in Nodes |-> [calls |-> [c \in CallIds |-> None], index |-> None]]
      /\ task = [t \in Tasks |-> Idle] /\ sfu = [n \in Nodes |-> [c \in CallIds |-> None]]
      /\ posts = [c \in CallIds |-> <<>>] /\ faults = 0 /\ overlap = 0
  BY DEF CallsInit, ManagerInit
<1>2. IsTask(Idle) /\ IsDone(Idle) /\ Idle.todo = <<>> /\ Idle.found = {} /\ Idle.io = None
  BY IdleTask DEF Idle
<1>3. Stores(redis, channel)
  BY <1>1 DEF Stores
<1>4. CallsType
  <2>1. DOMAIN local = Nodes
    BY <1>1
  <2>2. DOMAIN sfu = Nodes /\ \A n \in Nodes : DOMAIN sfu[n] = CallIds
    BY <1>1
  <2>3. posts \in [CallIds -> Seq({"open", "ended"})]
    BY <1>1
  <2>4. DOMAIN task = Tasks /\ \A t \in Tasks : task[t] = Idle
    BY <1>1
  <2>5. \A t \in Tasks : IsTask(task[t])
    BY <1>2, <2>4
  <2>. QED
    BY <1>3, <2>1, <2>2, <2>3, <2>4, <2>5 DEF CallsType
<1>5. \A c \in CallIds : Gone(c, redis, sfu, posts)
  BY <1>1 DEF Gone
<1>6. \A t \in Tasks : ~Busy(t)
  BY <1>1, <1>2 DEF Busy
<1>7. Good(Idle, redis, channel, sfu, posts)
  BY <1>1, <1>2, <1>5 DEF Good
<1>8. AfterRedis(Idle.io, redis) = redis /\ AfterChannel(Idle.io, channel) = channel /\ AfterActive(Idle.io, active) = active
  BY <1>2 DEF AfterRedis, AfterChannel, AfterActive
<1>9. Copied(redis, channel, Idle.found)
  BY <1>1, <1>2, <1>3 DEF Copied
<1>10. active = {c \in CallIds : redis[c] # None}
  BY <1>1
<1>11. Agreed(Idle)
  BY <1>7, <1>8, <1>9, <1>10 DEF Agreed
<1>. QED
  BY <1>1, <1>4, <1>6, <1>11 DEF CallsInv, Peaceful

LEMMA StutterPeaceful == ASSUME Peaceful, UNCHANGED CallVars PROVE Peaceful'
<1>1. UNCHANGED <<redis, channel, active, local, task, sfu, posts>>
  BY DEF CallVars, ManagerVars
<1>2. CallsType' /\ \A t \in Tasks : Busy(t)' <=> Busy(t)
  BY <1>1 DEF Peaceful, CallsType, Busy
<1>4. \A t \in Tasks : Agreed(task[t]) => Agreed(task[t])'
  BY <1>1 DEF Agreed, Copied
<1>5. Agreed(Idle) => Agreed(Idle)'
  BY <1>1 DEF Agreed, Copied
<1>. QED
  BY <1>2, <1>4, <1>5 DEF Peaceful

LEMMA NextInvariant == ASSUME OneNode, CallsInv, [Next]_CallVars PROVE CallsInv'
<1>0. overlap \in Nat /\ faults \in Nat /\ (overlap = 0 /\ faults = 0 => Peaceful)
  BY DEF CallsInv
<1>1. ASSUME NEW t \in Tasks, NEW n \in Nodes, NEW u \in Users, Handler(t, n, u) PROVE CallsInv'
  <2>1. overlap' \in Nat /\ (overlap' = 0 => overlap' = overlap) /\ faults' = faults
    BY <1>0, <1>1, HandlerStarts, StartCounts DEF Handler
  <2>2. overlap = 0 /\ faults = 0 /\ overlap' = overlap => Peaceful'
    BY <1>0, <1>1, StepHandler
  <2>. QED
    BY <1>0, <2>1, <2>2 DEF CallsInv
<1>2. ASSUME NEW t \in Tasks, NEW n \in Nodes, NEW b \in BOOLEAN, set_channel_calls_enabled(t, n, b) PROVE CallsInv'
  <2>1. Starting(t, n) /\ faults' = faults /\ UNCHANGED <<sfu, posts>>
    BY <1>2 DEF set_channel_calls_enabled, Request, Starting
  <2>2. overlap' \in Nat /\ (overlap' = 0 => overlap' = overlap)
    BY <1>0, <2>1, StartCounts
  <2>3. overlap = 0 /\ faults = 0 /\ overlap' = overlap => Peaceful'
    BY <1>0, <1>2, <2>1, BeginsEnabled, StepBegin
  <2>. QED
    BY <1>0, <2>1, <2>2, <2>3 DEF CallsInv
<1>3. ASSUME NEW t \in Tasks, NEW n \in Nodes, NEW c \in CallIds, end_call_if_still_empty(t, n, c) PROVE CallsInv'
  <2>1. Starting(t, n) /\ faults' = faults /\ UNCHANGED <<sfu, posts>>
    BY <1>3 DEF end_call_if_still_empty, Starting
  <2>2. overlap' \in Nat /\ (overlap' = 0 => overlap' = overlap)
    BY <1>0, <2>1, StartCounts
  <2>3. overlap = 0 /\ faults = 0 /\ overlap' = overlap => Peaceful'
    BY <1>0, <1>3, <2>1, BeginsTimeout, StepBegin
  <2>. QED
    BY <1>0, <2>1, <2>2, <2>3 DEF CallsInv
<1>4. ASSUME NEW t \in Tasks, TaskStep(t) PROVE CallsInv'
  BY <1>0, <1>4, TaskCounts, StepTask DEF CallsInv
<1>5. ASSUME NEW t \in Tasks, SfuFails(t) \/ PostFails(t) \/ Dropped(t) PROVE CallsInv'
  BY <1>0, <1>5 DEF SfuFails, PostFails, Dropped, CallsInv
<1>6. ASSUME NEW n \in Nodes, Crash(n) PROVE CallsInv'
  BY <1>0, <1>6 DEF Crash, CallsInv
<1>7. CASE UNCHANGED CallVars
  <2>1. overlap' = overlap /\ faults' = faults
    BY <1>7 DEF CallVars
  <2>. QED
    BY <1>0, <1>7, <2>1, StutterPeaceful DEF CallsInv
<1>. QED
  BY <1>1, <1>2, <1>3, <1>4, <1>5, <1>6, <1>7 DEF Next

\* The pieces of a call agree between two tasks.
LEMMA WholeAndMarked == ASSUME OneNode, CallsInv PROVE CallIsWhole /\ EndedPostIsMarked
<1>1. CASE overlap = 0 /\ faults = 0 /\ Calm
  <2>1. Peaceful
    BY <1>1 DEF CallsInv
  <2>2. Good(Idle, redis, channel, sfu, posts) /\ Idle.todo = <<>>
    BY <1>1, <2>1, CalmSettled DEF Idle
  <2>3. ASSUME NEW c \in CallIds, redis[c] # None
        PROVE  channel = c /\ redis[c].sharer \in In(redis[c]) \cup {None} /\ Len(posts[c]) = IF redis[c].thread = NamedThread THEN 0 ELSE 1
    <3>1. channel = c /\ CallOK(redis[c]) /\ Bound(redis[c], posts[c])
      BY <1>1, <2>1, <2>3, CalmCall
    <3>2. Len(posts[c]) = IF redis[c].thread = NamedThread THEN 0 ELSE 1
      BY <3>1 DEF Bound, NamedThread
    <3>. QED
      BY <3>1, <3>2 DEF CallOK
  <2>4. ASSUME NEW c \in CallIds, redis[c] = None PROVE Gone(c, redis, sfu, posts)
    <3>1. ASSUME NEW d \in CallIds, InPhase(d, Idle, redis, channel, sfu, posts), \A x \in CallIds \ {d} : Gone(x, redis, sfu, posts)
          PROVE  Gone(c, redis, sfu, posts)
      <4>1. Lives(d, Idle, redis, channel, posts)
        BY <2>2, <3>1 DEF InPhase
      <4>2. redis[d] # None
        BY <4>1, CallsAssumption DEF Lives, CallOK
      <4>. QED
        BY <2>4, <3>1, <4>2
    <3>. QED
      BY <2>2, <3>1 DEF Good
  <2>5. CallIsWhole
    BY <2>3, <2>4 DEF CallIsWhole, Stored, Gone
  <2>6. EndedPostIsMarked
    BY <2>4 DEF EndedPostIsMarked, Stored, Gone
  <2>. QED
    BY <2>5, <2>6
<1>2. CASE ~(overlap = 0 /\ faults = 0 /\ Calm)
  BY <1>2 DEF CallIsWhole, EndedPostIsMarked, Calm
<1>. QED
  BY <1>1, <1>2

\* On one node, the invariant holds in every behaviour.
THEOREM CallsInvariant == OneNode => (CallsSpec => []CallsInv)
<1>. SUFFICES ASSUME OneNode PROVE CallsSpec => []CallsInv
  OBVIOUS
<1>1. CallsInit => CallsInv
  BY InitPeaceful
<1>2. CallsInv /\ [Next]_CallVars => CallsInv'
  BY NextInvariant
<1>. QED
  BY <1>1, <1>2, PTL DEF CallsSpec

\* Between two requests that did not overlap the pieces of a call agree, on one node: one call at most is stored and
\* the index names it, only a participant shares the screen, the call has one thread post (none if a client named its
\* thread), and only it has an SFU.
THEOREM CallWhole == OneNode => (CallsSpec => []CallIsWhole)
<1>. SUFFICES ASSUME OneNode PROVE CallsSpec => []CallIsWhole
  OBVIOUS
<1>1. CallsSpec => []CallsInv
  BY CallsInvariant
<1>2. CallsInv => CallIsWhole
  BY WholeAndMarked
<1>. QED
  BY <1>1, <1>2, PTL

\* The thread post of a call that end_call has removed is marked as ended, on one node, unless tasks overlap or fail.
THEOREM EndedPostMarked == OneNode => (CallsSpec => []EndedPostIsMarked)
<1>. SUFFICES ASSUME OneNode PROVE CallsSpec => []EndedPostIsMarked
  OBVIOUS
<1>1. CallsSpec => []CallsInv
  BY CallsInvariant
<1>2. CallsInv => EndedPostIsMarked
  BY WholeAndMarked
<1>. QED
  BY <1>1, <1>2, PTL
=============================================================================
