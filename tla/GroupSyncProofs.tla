--------------------------- MODULE GroupSyncProofs ---------------------------
(***************************************************************************)
(* Proofs about module GroupSync: while nothing fails and no two tasks run *)
(* at once, what a link has inserted goes with the link.                   *)
(*                                                                         *)
(* Between two tasks every tracked membership is wanted by its link.  The  *)
(* inductive invariant says what holds while the one task runs: a row that *)
(* is not wanted is mended by an instruction that the task still has.      *)
(***************************************************************************)
EXTENDS GroupSync, SequenceTheorems, TLAPS

-----------------------------------------------------------------------------
(* Types. *)

Tracks == [g : Groups, s : Targets, x : Targets, u : Users]
LinkTables == [Groups -> [Targets -> BOOLEAN \cup {None}]]
GroupTables == [Groups -> SUBSET Users]
PolicyRows ==
    [enabled : BOOLEAN, source : {"all", "managers"} \cup Groups, scope : {"team", "global"}, target : Targets]

\* Instructions on a link, on the links of a group, on a group of Keycloak; and those of the policies.
RowDos == {"reconcile", "members_of", "tracked_of", "ensure", "track", "cleanup", "kept", "expel", "unlinked"}
LinkDos == {"each_link", "links"}
KeycloakDos == {"fetch", "fetch_user", "upsert"}
UserDos == {"policies", "new_user", "defaults", "channels", "insert", "leave", "dm", "full", "each_user"}

RowOps == [do : RowDos, x : Groups, s : Targets, set : SUBSET Tracks]
LinkOps == [do : LinkDos, x : Groups, s : {None}, set : SUBSET Targets]
KeycloakOps == [do : KeycloakDos, x : {Keycloak}, s : {None}, set : SUBSET Users]
UserOps == [do : UserDos, x : Users \cup Policies \cup {None}, s : Targets \cup {None}, set : SUBSET Users]
ApplyOps == [do : {"apply"}, x : Users \cup Policies \cup {None}, s : {None}, set : SUBSET Targets]
PolicyOps == [do : {"each_policy"}, x : {None}, s : {None}, set : SUBSET Policies]
Ops == RowOps \cup LinkOps \cup KeycloakOps \cup UserOps \cup ApplyOps \cup PolicyOps

SyncType ==
    /\ known \subseteq Users
    /\ policy \in [Policies -> PolicyRows \cup {None}]
    /\ ingroup \in GroupTables
    /\ link \in LinkTables
    /\ tracked \subseteq Tracks
    /\ grp \in [Groups -> {"absent", "live", "deleted"}]
    /\ kc \in BOOLEAN
    /\ task \in [Workers -> Seq(Ops)]
    /\ trouble \in Nat

-----------------------------------------------------------------------------
(* What the list l of a task still does, with the links L, the groups G and the rows T. *)

OpsOf(l) == {l[i] : i \in 1..Len(l)}

Wanted(m, L, G) == L[m.g][m.s] = TRUE /\ m.u \in G[m.g]

\* The instruction takes the row away, unless the row is wanted by then.
Clears(o, m) ==
    \/ o.do = "cleanup" /\ m \in o.set
    \/ o.do = "unlinked" /\ o.s = m.s /\ o.x = m.g
Reads(o, m) ==
    \/ o.do = "members_of" /\ o.s = m.s /\ o.x = m.g
    \/ o.do = "tracked_of" /\ o.s = m.s /\ o.x = m.g /\ m \notin o.set
\* These find the links that are there.
Visits(o, m) ==
    /\ o.x = m.g
    /\ \/ o.do = "reconcile" /\ o.s = m.s
       \/ o.do = "links" /\ m.s \in o.set
       \/ o.do = "each_link"
\* What mends m.
OpMends(o, m, L) == Clears(o, m) \/ Reads(o, m) \/ (L[m.g][m.s] # None /\ Visits(o, m))

\* Instructions that rely on what was just read: only at the head of a list, or after "track".
Transient == {"members_of", "tracked_of", "ensure", "track", "fetch", "fetch_user", "upsert"}
Stable(r) == \A o \in OpsOf(r) : o.do \notin Transient

\* The instruction o at the head, with r after it.
HeadOK(o, r, L, G) ==
    /\ Stable(r)
    /\ o.do = "members_of" => L[o.x][o.s] = TRUE
    /\ o.do \in {"tracked_of", "ensure"} => \A m \in o.set : Wanted(m, L, G)
    /\ o.do \in {"fetch", "fetch_user", "upsert"} => r = <<>>

ListOK(l, L, G) ==
    l # <<>> => IF Head(l).do = "track"
                THEN /\ Tail(l) # <<>>
                     /\ Head(Tail(l)).do = "ensure"
                     /\ HeadOK(Head(Tail(l)), Tail(Tail(l)), L, G)
                     /\ \A m \in Head(l).set : Wanted(m, L, G)
                ELSE HeadOK(Head(l), Tail(l), L, G)

Good(l, L, G, T) ==
    /\ ListOK(l, L, G)
    /\ \A m \in T : Wanted(m, L, G) \/ \E o \in OpsOf(l) : OpMends(o, m, L)

\* One task at most, and its list is good.
OneGood(k, L, G, T) == \E t \in Workers : (\A w \in Workers \ {t} : k[w] = <<>>) /\ Good(k[t], L, G, T)

SyncInv ==
    /\ SyncType
    /\ grp[Custom] = "absent" => ingroup[Custom] = {}
    /\ trouble = 0 => OneGood(task, link, ingroup, tracked)

-----------------------------------------------------------------------------
(* Lists. *)

\* The instructions of a list are its head and those of its tail.
LEMMA OpsPop ==
    ASSUME NEW l \in Seq(Ops), l # <<>>
    PROVE  Head(l) \in Ops /\ Tail(l) \in Seq(Ops) /\ OpsOf(l) = {Head(l)} \cup OpsOf(Tail(l))
<1>1. Head(l) = l[1] /\ Tail(l) \in Seq(Ops) /\ Len(l) \in Nat /\ Len(l) > 0 /\ Len(Tail(l)) = Len(l) - 1
      /\ l[1] \in Ops
  OBVIOUS
<1>2. \A i \in 1..Len(Tail(l)) : Tail(l)[i] = l[i + 1]
  OBVIOUS
<1>3. \A i \in 1..Len(l) : i = 1 \/ (i - 1 \in 1..Len(Tail(l)) /\ l[i] = Tail(l)[i - 1])
  BY <1>1, <1>2
<1>4. \A i \in 1..Len(Tail(l)) : i + 1 \in 1..Len(l)
  BY <1>1
<1>5. \A o \in OpsOf(l) : o \in {Head(l)} \cup OpsOf(Tail(l))
  BY <1>1, <1>3 DEF OpsOf
<1>6. \A o \in OpsOf(Tail(l)) : o \in OpsOf(l)
  BY <1>2, <1>4 DEF OpsOf
<1>7. Head(l) \in OpsOf(l)
  BY <1>1 DEF OpsOf
<1> QED
  BY <1>1, <1>5, <1>6, <1>7

\* A list put before another one.
LEMMA OpsConcat ==
    ASSUME NEW p \in Seq(Ops), NEW r \in Seq(Ops)
    PROVE  p \o r \in Seq(Ops) /\ OpsOf(p \o r) = OpsOf(p) \cup OpsOf(r)
<1>1. p \o r \in Seq(Ops) /\ Len(p \o r) = Len(p) + Len(r) /\ Len(p) \in Nat /\ Len(r) \in Nat
  OBVIOUS
<1>2. \A i \in 1..Len(p) : (p \o r)[i] = p[i] /\ i \in 1..Len(p \o r)
  BY <1>1
<1>3. \A i \in 1..Len(r) : (p \o r)[i + Len(p)] = r[i] /\ i + Len(p) \in 1..Len(p \o r)
  BY <1>1
<1>4. \A i \in 1..Len(p \o r) : i \in 1..Len(p) \/ (i - Len(p) \in 1..Len(r) /\ (p \o r)[i] = r[i - Len(p)])
  BY <1>1
<1>5. \A o \in OpsOf(p \o r) : o \in OpsOf(p) \cup OpsOf(r)
  BY <1>2, <1>4 DEF OpsOf
<1>6. \A o \in OpsOf(p) \cup OpsOf(r) : o \in OpsOf(p \o r)
  BY <1>2, <1>3 DEF OpsOf
<1> QED
  BY <1>1, <1>5, <1>6

LEMMA HeadConcat ==
    ASSUME NEW p \in Seq(Ops), NEW r \in Seq(Ops), p # <<>>
    PROVE  /\ p \o r # <<>> /\ Head(p \o r) = Head(p)
           /\ Tail(p) \in Seq(Ops) /\ Tail(p \o r) = Tail(p) \o r
<1>1. p \o r \in Seq(Ops) /\ Len(p \o r) = Len(p) + Len(r) /\ Len(p) \in Nat /\ Len(r) \in Nat /\ Len(p) > 0
  OBVIOUS
<1>2. p \o r # <<>> /\ Head(p \o r) = Head(p) /\ Tail(p) \in Seq(Ops) /\ Tail(p \o r) \in Seq(Ops)
  BY <1>1
<1>3. Tail(p) \o r \in Seq(Ops) /\ Len(Tail(p) \o r) = Len(p) - 1 + Len(r) /\ Len(Tail(p \o r)) = Len(p) - 1 + Len(r)
  BY <1>1, <1>2
<1>4. \A i \in 1..(Len(p) - 1 + Len(r)) : Tail(p \o r)[i] = (Tail(p) \o r)[i]
  BY <1>1, <1>2, <1>3
<1> QED
  BY <1>2, <1>3, <1>4, SeqEqual

\* A list with one instruction put before it.
LEMMA OpsCons ==
    ASSUME NEW a \in Ops, NEW r \in Seq(Ops)
    PROVE  /\ <<a>> \o r \in Seq(Ops) /\ <<a>> \o r # <<>>
           /\ Head(<<a>> \o r) = a /\ Tail(<<a>> \o r) = r
           /\ OpsOf(<<a>> \o r) = {a} \cup OpsOf(r)
<1>1. <<a>> \o r \in Seq(Ops) /\ Len(<<a>> \o r) = 1 + Len(r) /\ Len(r) \in Nat
  OBVIOUS
<1>2. <<a>> \o r # <<>>
  BY <1>1
<1>3. Head(<<a>> \o r) = a
  BY <1>1
<1>4. Tail(<<a>> \o r) = r
  BY <1>1
<1> QED
  BY <1>1, <1>2, <1>3, <1>4, OpsPop

LEMMA OpsNone == OpsOf(<<>>) = {}
BY DEF OpsOf

\* The lists that an instruction leaves in its place.
LEMMA OpsTwo ==
    ASSUME NEW a \in Ops, NEW b \in Ops
    PROVE  <<a, b>> \in Seq(Ops) /\ OpsOf(<<a, b>>) = {a, b} /\ Head(<<a, b>>) = a /\ Tail(<<a, b>>) = <<b>>
BY DEF OpsOf

LEMMA ConsNone ==
    ASSUME NEW r \in Seq(Ops)
    PROVE  <<>> \o r = r
OBVIOUS

\* A stable list asks nothing of the tables.
LEMMA StableCons ==
    ASSUME NEW a \in Ops, NEW r \in Seq(Ops), Stable(r), a.do \notin Transient
    PROVE  Stable(<<a>> \o r)
BY OpsCons DEF Stable

LEMMA StableList ==
    ASSUME NEW l \in Seq(Ops), Stable(l), NEW L, NEW G
    PROVE  ListOK(l, L, G)
<1> SUFFICES ASSUME l # <<>> PROVE ListOK(l, L, G)
  BY DEF ListOK
<1>1. Head(l).do \notin Transient /\ Stable(Tail(l))
  BY OpsPop DEF Stable
<1>2. Head(l).do # "track"
  BY <1>1 DEF Transient
<1>3. HeadOK(Head(l), Tail(l), L, G)
  BY <1>1 DEF HeadOK, Transient
<1> QED
  BY <1>2, <1>3 DEF ListOK

-----------------------------------------------------------------------------
(* One instruction o is replaced by others. *)

\* The instruction at the head of a good list is replaced by those of P: it is enough that they take
\* over what it mended.
LEMMA Replaced ==
    ASSUME NEW l \in Seq(Ops), l # <<>>, NEW n \in Seq(Ops), NEW P, OpsOf(n) = P \cup OpsOf(Tail(l)),
           NEW L, NEW G, NEW T, NEW U, U \subseteq T,
           Good(l, L, G, T), ListOK(n, L, G),
           \A m \in U : OpMends(Head(l), m, L) => Wanted(m, L, G) \/ \E v \in P : OpMends(v, m, L)
    PROVE  Good(n, L, G, U)
<1>1. OpsOf(l) = {Head(l)} \cup OpsOf(Tail(l))
  BY OpsPop
<1>2. ASSUME NEW m \in U, ~Wanted(m, L, G) PROVE \E v \in OpsOf(n) : OpMends(v, m, L)
  <2>1. PICK o \in OpsOf(l) : OpMends(o, m, L)
    BY <1>2 DEF Good
  <2> QED
    BY <1>1, <1>2, <2>1
<1> QED
  BY <1>2 DEF Good

\* The same for instructions that rely on nothing just read.
LEMMA PlainStep ==
    ASSUME NEW l \in Seq(Ops), l # <<>>, NEW p \in Seq(Ops), NEW L, NEW G, NEW T, NEW U, U \subseteq T,
           Good(l, L, G, T), Head(l).do # "track", Stable(p),
           \A m \in U : OpMends(Head(l), m, L) => Wanted(m, L, G) \/ \E a \in OpsOf(p) : OpMends(a, m, L)
    PROVE  Good(p \o Tail(l), L, G, U)
<1>1. Tail(l) \in Seq(Ops)
  BY OpsPop
<1>2. PICK n \in Seq(Ops) : n = p \o Tail(l)
  BY <1>1, OpsConcat
<1>3. OpsOf(n) = OpsOf(p) \cup OpsOf(Tail(l))
  BY <1>1, <1>2, OpsConcat
<1>4. Stable(Tail(l))
  BY DEF Good, ListOK, HeadOK
<1>5. Stable(n)
  BY <1>3, <1>4 DEF Stable
<1>6. ListOK(n, L, G)
  BY <1>5, StableList
<1>8. Good(n, L, G, U)
  BY <1>3, <1>6, Replaced
<1> QED
  BY <1>2, <1>8

\* The instruction at the head may go when it mends nothing.
LEMMA PopStep ==
    ASSUME NEW l \in Seq(Ops), l # <<>>, NEW L, NEW G, NEW T,
           Good(l, L, G, T), Head(l).do # "track",
           \A m \in T : OpMends(Head(l), m, L) => Wanted(m, L, G)
    PROVE  Good(Tail(l), L, G, T)
<1>0. <<>> \in Seq(Ops)
  OBVIOUS
<1>1. PICK p \in Seq(Ops) : p = <<>>
  BY <1>0, Zenon
<1>2. OpsOf(p) = {} /\ Stable(p)
  BY <1>1, OpsNone DEF Stable
<1>3. Good(p \o Tail(l), L, G, T)
  BY <1>2, PlainStep
<1>4. Tail(l) \in Seq(Ops)
  BY OpsPop
<1>5. p \o Tail(l) = Tail(l)
  BY <1>1, <1>4
<1> QED
  BY <1>3, <1>5

\* A list that begins with another instruction than "track".
LEMMA HeadList ==
    ASSUME NEW a \in Ops, NEW r \in Seq(Ops), NEW L, NEW G, a.do # "track", HeadOK(a, r, L, G)
    PROVE  ListOK(<<a>> \o r, L, G)
BY OpsCons DEF ListOK

-----------------------------------------------------------------------------
(* Instructions and their types. *)

LEMMA RowOpType ==
    ASSUME NEW o \in Ops, o.do \in RowDos
    PROVE  o.x \in Groups /\ o.s \in Targets /\ o.set \subseteq Tracks /\ o = Op(o.do, o.x, o.s, o.set)
BY DEF Ops, RowOps, LinkOps, KeycloakOps, UserOps, ApplyOps, PolicyOps, RowDos, LinkDos, KeycloakDos, UserDos, Op

LEMMA LinkOpType ==
    ASSUME NEW o \in Ops, o.do \in LinkDos
    PROVE  o.x \in Groups /\ o.s = None /\ o.set \subseteq Targets
BY DEF Ops, RowOps, LinkOps, KeycloakOps, UserOps, ApplyOps, PolicyOps, RowDos, LinkDos, KeycloakDos, UserDos

LEMMA KeycloakOpType ==
    ASSUME NEW o \in Ops, o.do \in KeycloakDos
    PROVE  o.x = Keycloak /\ o.s = None /\ o.set \subseteq Users
BY DEF Ops, RowOps, LinkOps, KeycloakOps, UserOps, ApplyOps, PolicyOps, RowDos, LinkDos, KeycloakDos, UserDos

LEMMA RowOpMade ==
    ASSUME NEW d \in RowDos, NEW x \in Groups, NEW s \in Targets, NEW S \in SUBSET Tracks
    PROVE  Op(d, x, s, S) \in Ops
BY DEF Op, Ops, RowOps

LEMMA LinkOpMade ==
    ASSUME NEW d \in LinkDos, NEW x \in Groups, NEW S \in SUBSET Targets
    PROVE  Op(d, x, None, S) \in Ops
BY DEF Op, Ops, LinkOps

LEMMA KeycloakOpMade ==
    ASSUME NEW d \in KeycloakDos, NEW S \in SUBSET Users
    PROVE  Op(d, Keycloak, None, S) \in Ops
BY DEF Op, Ops, KeycloakOps

LEMMA OpFields ==
    ASSUME NEW d, NEW x, NEW s, NEW S
    PROVE  /\ Op(d, x, s, S).do = d /\ Op(d, x, s, S).x = x /\ Op(d, x, s, S).s = s /\ Op(d, x, s, S).set = S
BY DEF Op

\* One instruction fewer in the set.
LEMMA OpShrinks ==
    ASSUME NEW o \in Ops, NEW S, S \subseteq o.set
    PROVE  /\ [o EXCEPT !.set = S] \in Ops
           /\ [o EXCEPT !.set = S].do = o.do /\ [o EXCEPT !.set = S].x = o.x
           /\ [o EXCEPT !.set = S].s = o.s /\ [o EXCEPT !.set = S].set = S
<1>1. CASE o \in RowOps
  BY <1>1 DEF Ops, RowOps
<1>2. CASE o \in LinkOps
  BY <1>2 DEF Ops, LinkOps
<1>3. CASE o \in KeycloakOps
  BY <1>3 DEF Ops, KeycloakOps
<1>4. CASE o \in UserOps
  BY <1>4 DEF Ops, UserOps
<1>5. CASE o \in ApplyOps
  BY <1>5 DEF Ops, ApplyOps
<1>6. CASE o \in PolicyOps
  BY <1>6 DEF Ops, PolicyOps
<1> QED
  BY <1>1, <1>2, <1>3, <1>4, <1>5, <1>6 DEF Ops

\* A task goes on with p.
LEMMA GoesOn ==
    ASSUME SyncType, NEW t \in Workers, NEW p, Continue(t, p)
    PROVE  task'[t] = p \o Tail(task[t]) /\ trouble' = trouble /\ known' = known
           /\ task' = [task EXCEPT ![t] = task'[t]]
BY DEF SyncType, Continue

-----------------------------------------------------------------------------
(* Reconciling one link: the lists that each instruction leaves are good. *)

LEMMA TailStable ==
    ASSUME NEW l \in Seq(Ops), l # <<>>, NEW L, NEW G, NEW T, Good(l, L, G, T), Head(l).do # "track"
    PROVE  Stable(Tail(l)) /\ HeadOK(Head(l), Tail(l), L, G)
BY DEF Good, ListOK, HeadOK

\* An instruction is replaced by one that relies on what it has read.
LEMMA HeadStep ==
    ASSUME NEW l \in Seq(Ops), l # <<>>, NEW a \in Ops, NEW L, NEW G, NEW T, Good(l, L, G, T),
           a.do # "track",
           HeadOK(a, Tail(l), L, G),
           \A m \in T : OpMends(Head(l), m, L) => Wanted(m, L, G) \/ OpMends(a, m, L)
    PROVE  Good(<<a>> \o Tail(l), L, G, T)
<1>1. Tail(l) \in Seq(Ops)
  BY OpsPop
<1>2. PICK n \in Seq(Ops) : n = <<a>> \o Tail(l)
  BY <1>1, OpsCons
<1>3. n # <<>> /\ Head(n) = a /\ OpsOf(n) = {a} \cup OpsOf(Tail(l))
  BY <1>1, <1>2, OpsCons
<1>4. ListOK(n, L, G)
  BY <1>1, <1>2, HeadList
<1>7. Good(n, L, G, T)
  BY <1>3, <1>4, Replaced
<1> QED
  BY <1>2, <1>7

LEMMA StepReconcile ==
    ASSUME NEW l \in Seq(Ops), l # <<>>, NEW L \in LinkTables, NEW G \in GroupTables, NEW T \in SUBSET Tracks,
           Good(l, L, G, T), Head(l).do = "reconcile"
    PROVE  /\ L[Head(l).x][Head(l).s] = None => Good(Tail(l), L, G, T)
           /\ L[Head(l).x][Head(l).s] = TRUE =>
                 Good(<<Op("members_of", Head(l).x, Head(l).s, {})>> \o Tail(l), L, G, T)
           /\ L[Head(l).x][Head(l).s] # None =>
                 Good(<<Op("tracked_of", Head(l).x, Head(l).s, {})>> \o Tail(l), L, G, T)
<1> PICK o \in Ops : o = Head(l)
  BY OpsPop
<1>1. o.x \in Groups /\ o.s \in Targets
  BY RowOpType DEF RowDos
<1>2. Stable(Tail(l)) /\ o.do # "track"
  BY TailStable
<1>3. \A m \in T : OpMends(o, m, L) => o.x = m.g /\ o.s = m.s /\ L[m.g][m.s] # None
  BY DEF OpMends, Clears, Reads, Visits
<1>4. ASSUME L[o.x][o.s] = None PROVE Good(Tail(l), L, G, T)
  <2>1. \A m \in T : ~OpMends(o, m, L)
    BY <1>3, <1>4
  <2> QED
    BY <1>2, <2>1, PopStep
<1>5. ASSUME NEW d \in {"members_of", "tracked_of"}, d = "members_of" => L[o.x][o.s] = TRUE
      PROVE  Good(<<Op(d, o.x, o.s, {})>> \o Tail(l), L, G, T)
  <2>1. PICK a \in Ops : a = Op(d, o.x, o.s, {})
    BY <1>1, RowOpMade DEF RowDos
  <2>2. a.do = d /\ a.x = o.x /\ a.s = o.s /\ a.set = {}
    BY <2>1, OpFields
  <2>3. HeadOK(a, Tail(l), L, G)
    BY <1>2, <1>5, <2>2 DEF HeadOK
  <2>4. \A m \in T : OpMends(o, m, L) => OpMends(a, m, L)
    BY <1>3, <1>5, <2>2 DEF OpMends, Reads
  <2>5. a.do # "track"
    BY <1>5, <2>2
  <2>6. Good(<<a>> \o Tail(l), L, G, T)
    BY <1>2, <2>3, <2>4, <2>5, HeadStep
  <2> QED
    BY <2>1, <2>6
<1> QED
  BY <1>4, <1>5

\* What a link wants, for the members that its group has.
LEMMA DesiredWanted ==
    ASSUME NEW L \in LinkTables, NEW G \in GroupTables, NEW g \in Groups, NEW s \in Targets, L[g][s] = TRUE
    PROVE  /\ Desired(g, s, G[g]) \in SUBSET Tracks
           /\ \A m \in Desired(g, s, G[g]) : Wanted(m, L, G)
BY DEF Desired, Track, Wanted, Tracks, GroupTables, Targets

LEMMA StepMembers ==
    ASSUME NEW l \in Seq(Ops), l # <<>>, NEW L \in LinkTables, NEW G \in GroupTables, NEW T \in SUBSET Tracks,
           Good(l, L, G, T), Head(l).do = "members_of"
    PROVE  Good(<<Op("tracked_of", Head(l).x, Head(l).s, Desired(Head(l).x, Head(l).s, G[Head(l).x]))>> \o Tail(l),
                L, G, T)
<1> PICK o \in Ops : o = Head(l)
  BY OpsPop
<1>1. o.x \in Groups /\ o.s \in Targets
  BY RowOpType DEF RowDos
<1>2. Stable(Tail(l)) /\ L[o.x][o.s] = TRUE
  BY TailStable DEF HeadOK
<1>3. PICK D \in SUBSET Tracks : D = Desired(o.x, o.s, G[o.x])
  BY <1>1, <1>2, DesiredWanted
<1>4. \A m \in D : Wanted(m, L, G)
  BY <1>1, <1>2, <1>3, DesiredWanted
<1>5. PICK a \in Ops : a = Op("tracked_of", o.x, o.s, D)
  BY <1>1, RowOpMade DEF RowDos
<1>6. a.do = "tracked_of" /\ a.x = o.x /\ a.s = o.s /\ a.set = D
  BY <1>5, OpFields
<1>7. HeadOK(a, Tail(l), L, G)
  BY <1>2, <1>4, <1>6 DEF HeadOK
<1>8. \A m \in T : OpMends(o, m, L) => Wanted(m, L, G) \/ OpMends(a, m, L)
  BY <1>4, <1>6 DEF OpMends, Reads, Clears, Visits
<1>9. Good(<<a>> \o Tail(l), L, G, T)
  BY <1>2, <1>6, <1>7, <1>8, HeadStep
<1> QED
  BY <1>3, <1>5, <1>9

\* Two instructions put before a list.
TwoBefore(n, a, b, r) ==
    /\ n = <<a, b>> \o r /\ n # <<>> /\ Head(n) = a /\ OpsOf(n) = {a, b} \cup OpsOf(r)
    /\ Tail(n) = <<b>> \o r /\ Tail(n) # <<>> /\ Head(Tail(n)) = b /\ Tail(Tail(n)) = r

LEMMA TwoCons ==
    ASSUME NEW a \in Ops, NEW b \in Ops, NEW r \in Seq(Ops)
    PROVE  \E n \in Seq(Ops) : TwoBefore(n, a, b, r)
<1>1. PICK p \in Seq(Ops) : p = <<a, b>>
  BY OpsTwo
<1>2. p # <<>> /\ Head(p) = a /\ Tail(p) = <<b>> /\ OpsOf(p) = {a, b}
  BY <1>1, OpsTwo
<1>3. /\ p \o r \in Seq(Ops) /\ OpsOf(p \o r) = OpsOf(p) \cup OpsOf(r)
      /\ p \o r # <<>> /\ Head(p \o r) = Head(p) /\ Tail(p \o r) = Tail(p) \o r
  BY <1>2, OpsConcat, HeadConcat
<1>4. <<b>> \o r # <<>> /\ Head(<<b>> \o r) = b /\ Tail(<<b>> \o r) = r
  BY OpsCons
<1>5. TwoBefore(p \o r, a, b, r)
  BY <1>1, <1>2, <1>3, <1>4 DEF TwoBefore
<1> QED
  BY <1>3, <1>5

LEMMA TwoStep ==
    ASSUME NEW l \in Seq(Ops), l # <<>>, NEW a \in Ops, NEW b \in Ops, NEW n \in Seq(Ops),
           TwoBefore(n, a, b, Tail(l)), NEW L, NEW G, NEW T, Good(l, L, G, T), ListOK(n, L, G),
           \A m \in T : OpMends(Head(l), m, L) => Wanted(m, L, G) \/ OpMends(a, m, L) \/ OpMends(b, m, L)
    PROVE  Good(n, L, G, T)
<1> PICK P : P = {a, b}
  OBVIOUS
<1>1. OpsOf(n) = P \cup OpsOf(Tail(l))
  BY DEF TwoBefore
<1> QED
  BY <1>1, Replaced

LEMMA StepTracked ==
    ASSUME NEW l \in Seq(Ops), l # <<>>, NEW L \in LinkTables, NEW G \in GroupTables, NEW T \in SUBSET Tracks,
           Good(l, L, G, T), Head(l).do = "tracked_of",
           NEW R, R = {m \in T : m.g = Head(l).x /\ m.s = Head(l).s}
    PROVE  Good(<<Op("ensure", Head(l).x, Head(l).s, Head(l).set \ R),
                  Op("cleanup", Head(l).x, Head(l).s, R \ Head(l).set)>> \o Tail(l), L, G, T)
<1> PICK o \in Ops : o = Head(l)
  BY OpsPop
<1>1. o.x \in Groups /\ o.s \in Targets /\ o.set \subseteq Tracks
  BY RowOpType DEF RowDos
<1>2. Stable(Tail(l)) /\ o.do # "track" /\ Tail(l) \in Seq(Ops)
  BY TailStable, OpsPop
<1>3. \A m \in o.set : Wanted(m, L, G)
  BY TailStable, <1>2 DEF HeadOK
<1>4. PICK a \in Ops : a = Op("ensure", o.x, o.s, o.set \ R)
  BY <1>1, RowOpMade DEF RowDos
<1>5. PICK b \in Ops : b = Op("cleanup", o.x, o.s, R \ o.set)
  BY <1>1, RowOpMade DEF RowDos
<1>6. a.do = "ensure" /\ a.x = o.x /\ a.s = o.s /\ a.set = o.set \ R
  BY <1>4, OpFields
<1>7. b.do = "cleanup" /\ b.x = o.x /\ b.s = o.s /\ b.set = R \ o.set
  BY <1>5, OpFields
<1> PICK r \in Seq(Ops) : r = Tail(l)
  BY <1>2
<1>8. PICK n \in Seq(Ops) : TwoBefore(n, a, b, r)
  BY TwoCons
<1>9. /\ n = <<a, b>> \o r /\ n # <<>> /\ Head(n) = a /\ OpsOf(n) = {a, b} \cup OpsOf(r)
      /\ Tail(n) = <<b>> \o r
  BY <1>8 DEF TwoBefore
<1>10. Stable(Tail(n))
  BY <1>2, <1>7, <1>9, StableCons DEF Transient
<1>11. HeadOK(a, Tail(n), L, G)
  BY <1>3, <1>6, <1>10 DEF HeadOK
<1>12. ListOK(n, L, G)
  BY <1>6, <1>9, <1>11 DEF ListOK
<1>13. \A m \in T : OpMends(o, m, L) => OpMends(b, m, L)
  BY <1>7 DEF OpMends, Reads, Clears, Visits
<1>15. Good(n, L, G, T)
  BY <1>8, <1>12, <1>13, TwoStep
<1> QED
  BY <1>4, <1>5, <1>9, <1>15

LEMMA StepEnsure ==
    ASSUME NEW l \in Seq(Ops), l # <<>>, NEW L \in LinkTables, NEW G \in GroupTables, NEW T \in SUBSET Tracks,
           Good(l, L, G, T), Head(l).do = "ensure", NEW m \in Head(l).set
    PROVE  /\ Good(<<[Head(l) EXCEPT !.set = @ \ {m}]>> \o Tail(l), L, G, T)
           /\ Good(<<Op("track", Head(l).x, Head(l).s, {m}), [Head(l) EXCEPT !.set = @ \ {m}]>> \o Tail(l), L, G, T)
<1> PICK o \in Ops : o = Head(l)
  BY OpsPop
<1>1. o.x \in Groups /\ o.s \in Targets /\ o.set \subseteq Tracks
  BY RowOpType DEF RowDos
<1>2. Stable(Tail(l)) /\ o.do # "track" /\ Tail(l) \in Seq(Ops)
  BY TailStable, OpsPop
<1>3. \A i \in o.set : Wanted(i, L, G)
  BY TailStable, <1>2 DEF HeadOK
<1>4. PICK b \in Ops : b = [o EXCEPT !.set = o.set \ {m}]
  BY OpShrinks
<1>5. b.do = "ensure" /\ b.x = o.x /\ b.s = o.s /\ b.set = o.set \ {m}
  BY <1>4, OpShrinks
<1>6. HeadOK(b, Tail(l), L, G)
  BY <1>2, <1>3, <1>5 DEF HeadOK
<1>7. \A i \in T : ~OpMends(o, i, L)
  BY DEF OpMends, Reads, Clears, Visits
<1>8. Good(<<b>> \o Tail(l), L, G, T)
  BY <1>2, <1>5, <1>6, <1>7, HeadStep
<1>9. PICK a \in Ops : a = Op("track", o.x, o.s, {m})
  BY <1>1, RowOpMade DEF RowDos
<1>10. a.do = "track" /\ a.x = o.x /\ a.s = o.s /\ a.set = {m}
  BY <1>9, OpFields
<1> PICK r \in Seq(Ops) : r = Tail(l)
  BY <1>2
<1>11. PICK n \in Seq(Ops) : TwoBefore(n, a, b, r)
  BY TwoCons
<1>12. /\ n = <<a, b>> \o r /\ n # <<>> /\ Head(n) = a /\ OpsOf(n) = {a, b} \cup OpsOf(r)
       /\ Tail(n) # <<>> /\ Head(Tail(n)) = b /\ Tail(Tail(n)) = r
  BY <1>11 DEF TwoBefore
<1>15. \A i \in a.set : Wanted(i, L, G)
  BY <1>3, <1>10
<1>16. ListOK(n, L, G)
  BY <1>5, <1>6, <1>10, <1>12, <1>15 DEF ListOK
<1>18. Good(n, L, G, T)
  BY <1>7, <1>11, <1>16, TwoStep
<1> QED
  BY <1>4, <1>8, <1>9, <1>12, <1>18

\* What is tracked was wanted when it was read, and still is.
LEMMA StepTrack ==
    ASSUME NEW l \in Seq(Ops), l # <<>>, NEW L \in LinkTables, NEW G \in GroupTables, NEW T \in SUBSET Tracks,
           Good(l, L, G, T), Head(l).do = "track"
    PROVE  Good(Tail(l), L, G, T \cup Head(l).set)
<1> PICK o \in Ops : o = Head(l)
  BY OpsPop
<1>1. /\ Tail(l) # <<>> /\ Head(Tail(l)).do = "ensure"
      /\ HeadOK(Head(Tail(l)), Tail(Tail(l)), L, G) /\ \A m \in o.set : Wanted(m, L, G)
  BY DEF Good, ListOK
<1>2. PICK n \in Seq(Ops) : n = Tail(l)
  BY OpsPop
<1>3. OpsOf(l) = {o} \cup OpsOf(n)
  BY <1>2, OpsPop
<1>5. ListOK(n, L, G)
  BY <1>1, <1>2 DEF ListOK
<1>7. ASSUME NEW m \in T, ~Wanted(m, L, G) PROVE \E v \in OpsOf(n) : OpMends(v, m, L)
  <2>1. PICK v \in OpsOf(l) : OpMends(v, m, L)
    BY <1>7 DEF Good
  <2>2. v # o
    BY <2>1 DEF OpMends, Clears, Reads, Visits
  <2> QED
    BY <1>3, <2>1, <2>2
<1> QED
  BY <1>1, <1>2, <1>5, <1>7 DEF Good

\* The instruction at the head is replaced by one, or by two, that rely on nothing just read.
LEMMA PlainOne ==
    ASSUME NEW l \in Seq(Ops), l # <<>>, NEW a \in Ops, NEW L, NEW G, NEW T, NEW U, U \subseteq T,
           Good(l, L, G, T), Head(l).do # "track", a.do \notin Transient,
           \A m \in U : OpMends(Head(l), m, L) => Wanted(m, L, G) \/ OpMends(a, m, L)
    PROVE  Good(<<a>> \o Tail(l), L, G, U)
<1>1. <<a>> \in Seq(Ops)
  OBVIOUS
<1>2. PICK p \in Seq(Ops) : p = <<a>>
  BY <1>1, Zenon
<1>3. OpsOf(p) = {a}
  BY <1>2 DEF OpsOf
<1>4. Stable(p)
  BY <1>3 DEF Stable
<1>5. Good(p \o Tail(l), L, G, U)
  BY <1>3, <1>4, PlainStep
<1> QED
  BY <1>2, <1>5

LEMMA PlainTwo ==
    ASSUME NEW l \in Seq(Ops), l # <<>>, NEW a \in Ops, NEW b \in Ops, NEW L, NEW G, NEW T, NEW U, U \subseteq T,
           Good(l, L, G, T), Head(l).do # "track", a.do \notin Transient, b.do \notin Transient,
           \A m \in U : OpMends(Head(l), m, L) => Wanted(m, L, G) \/ OpMends(a, m, L) \/ OpMends(b, m, L)
    PROVE  Good(<<a, b>> \o Tail(l), L, G, U)
<1>2. PICK p \in Seq(Ops) : p = <<a, b>>
  BY OpsTwo
<1>3. OpsOf(p) = {a, b}
  BY <1>2, OpsTwo
<1>4. Stable(p)
  BY <1>3 DEF Stable
<1>5. Good(p \o Tail(l), L, G, U)
  BY <1>3, <1>4, PlainStep
<1> QED
  BY <1>2, <1>5

LEMMA StepCleanup ==
    ASSUME NEW l \in Seq(Ops), l # <<>>, NEW L \in LinkTables, NEW G \in GroupTables, NEW T \in SUBSET Tracks,
           Good(l, L, G, T), Head(l).do = "cleanup"
    PROVE  /\ Head(l).set = {} => Good(Tail(l), L, G, T)
           /\ \A m \in Head(l).set :
                 Good(<<Op("kept", Head(l).x, Head(l).s, {m}), [Head(l) EXCEPT !.set = @ \ {m}]>> \o Tail(l),
                      L, G, T \ {m})
<1> PICK o \in Ops : o = Head(l)
  BY OpsPop
<1>1. o.x \in Groups /\ o.s \in Targets /\ o.set \subseteq Tracks
  BY RowOpType DEF RowDos
<1>2. o.do # "track"
  OBVIOUS
<1>3. ASSUME o.set = {} PROVE Good(Tail(l), L, G, T)
  <2>1. \A m \in T : ~OpMends(o, m, L)
    BY <1>3 DEF OpMends, Clears, Reads, Visits
  <2> QED
    BY <1>2, <2>1, PopStep
<1>4. ASSUME NEW m \in o.set
      PROVE  Good(<<Op("kept", o.x, o.s, {m}), [o EXCEPT !.set = o.set \ {m}]>> \o Tail(l), L, G, T \ {m})
  <2>1. PICK a \in Ops : a = Op("kept", o.x, o.s, {m})
    BY <1>1, RowOpMade DEF RowDos
  <2>2. a.do = "kept"
    BY <2>1, OpFields
  <2>3. PICK b \in Ops : b = [o EXCEPT !.set = o.set \ {m}]
    BY OpShrinks
  <2>4. b.do = "cleanup" /\ b.x = o.x /\ b.s = o.s /\ b.set = o.set \ {m}
    BY <2>3, OpShrinks
  <2>5. \A i \in T \ {m} : OpMends(o, i, L) => OpMends(b, i, L)
    BY <2>4 DEF OpMends, Clears, Reads, Visits
  <2>7. a.do \notin Transient /\ b.do \notin Transient
    BY <2>2, <2>4 DEF Transient
  <2>8. PICK U : U = T \ {m}
    OBVIOUS
  <2>9. Good(<<a, b>> \o Tail(l), L, G, U)
    BY <1>2, <2>5, <2>7, <2>8, PlainTwo
  <2> QED
    BY <2>1, <2>3, <2>8, <2>9
<1> QED
  BY <1>3, <1>4

LEMMA StepUnlinked ==
    ASSUME NEW l \in Seq(Ops), l # <<>>, NEW L \in LinkTables, NEW G \in GroupTables, NEW T \in SUBSET Tracks,
           Good(l, L, G, T), Head(l).do = "unlinked",
           NEW R, R = {m \in T : m.g = Head(l).x /\ m.s = Head(l).s}
    PROVE  Good(<<Op("cleanup", Head(l).x, Head(l).s, R)>> \o Tail(l), L, G, T)
<1> PICK o \in Ops : o = Head(l)
  BY OpsPop
<1>1. o.x \in Groups /\ o.s \in Targets
  BY RowOpType DEF RowDos
<1>2. PICK a \in Ops : a = Op("cleanup", o.x, o.s, R)
  BY <1>1, RowOpMade DEF RowDos
<1>3. a.do = "cleanup" /\ a.set = R
  BY <1>2, OpFields
<1>5. \A m \in T : OpMends(o, m, L) => OpMends(a, m, L)
  BY <1>3 DEF OpMends, Clears, Reads, Visits
<1>6. a.do \notin Transient /\ o.do # "track"
  BY <1>3 DEF Transient
<1>7. Good(<<a>> \o Tail(l), L, G, T)
  BY <1>5, <1>6, PlainOne
<1> QED
  BY <1>2, <1>7

LEMMA StepEach ==
    ASSUME NEW l \in Seq(Ops), l # <<>>, NEW L \in LinkTables, NEW G \in GroupTables, NEW T \in SUBSET Tracks,
           Good(l, L, G, T), Head(l).do = "each_link",
           NEW S, S = {s \in Targets : L[Head(l).x][s] # None}
    PROVE  Good(<<Op("links", Head(l).x, None, S)>> \o Tail(l), L, G, T)
<1> PICK o \in Ops : o = Head(l)
  BY OpsPop
<1>1. o.x \in Groups
  BY LinkOpType DEF LinkDos
<1>2. PICK a \in Ops : a = Op("links", o.x, None, S)
  BY <1>1, LinkOpMade DEF LinkDos
<1>3. a.do = "links" /\ a.x = o.x /\ a.set = S
  BY <1>2, OpFields
<1>5. ASSUME NEW m \in T, OpMends(o, m, L) PROVE OpMends(a, m, L)
  <2>1. o.x = m.g /\ L[m.g][m.s] # None /\ m.s \in Targets
    BY <1>5 DEF OpMends, Clears, Reads, Visits, Tracks
  <2> QED
    BY <1>3, <2>1 DEF OpMends, Visits
<1>6. a.do \notin Transient /\ o.do # "track"
  BY <1>3 DEF Transient
<1>7. Good(<<a>> \o Tail(l), L, G, T)
  BY <1>5, <1>6, PlainOne
<1> QED
  BY <1>2, <1>7

\* One link of the list.
LEMMA StepLinks ==
    ASSUME NEW l \in Seq(Ops), l # <<>>, NEW L \in LinkTables, NEW G \in GroupTables, NEW T \in SUBSET Tracks,
           Good(l, L, G, T), Head(l).do = "links"
    PROVE  /\ Head(l).set = {} => Good(Tail(l), L, G, T)
           /\ \A s \in Head(l).set :
                 Good(<<Op("reconcile", Head(l).x, s, {}), [Head(l) EXCEPT !.set = @ \ {s}]>> \o Tail(l), L, G, T)
<1> PICK o \in Ops : o = Head(l)
  BY OpsPop
<1>1. o.x \in Groups /\ o.set \subseteq Targets
  BY LinkOpType DEF LinkDos
<1>2. o.do # "track"
  OBVIOUS
<1>3. ASSUME o.set = {} PROVE Good(Tail(l), L, G, T)
  <2>1. \A m \in T : ~OpMends(o, m, L)
    BY <1>3 DEF OpMends, Clears, Reads, Visits
  <2> QED
    BY <1>2, <2>1, PopStep
<1>4. ASSUME NEW s \in o.set
      PROVE  Good(<<Op("reconcile", o.x, s, {}), [o EXCEPT !.set = o.set \ {s}]>> \o Tail(l), L, G, T)
  <2>1. PICK a \in Ops : a = Op("reconcile", o.x, s, {})
    BY <1>1, RowOpMade DEF RowDos
  <2>2. a.do = "reconcile" /\ a.x = o.x /\ a.s = s
    BY <2>1, OpFields
  <2>3. PICK b \in Ops : b = [o EXCEPT !.set = o.set \ {s}]
    BY OpShrinks
  <2>4. b.do = o.do /\ b.x = o.x /\ b.s = o.s /\ b.set = o.set \ {s}
    BY <2>3, OpShrinks
  <2>6. \A m \in T : OpMends(o, m, L) => OpMends(a, m, L) \/ OpMends(b, m, L)
    BY <2>2, <2>4 DEF OpMends, Clears, Reads, Visits
  <2>7. a.do \notin Transient /\ b.do \notin Transient
    BY <2>2, <2>4 DEF Transient
  <2>9. Good(<<a, b>> \o Tail(l), L, G, T)
    BY <1>2, <2>6, <2>7, PlainTwo
  <2> QED
    BY <2>1, <2>3, <2>9
<1> QED
  BY <1>3, <1>4

\* Instructions that mend nothing.
Menders == {"cleanup", "unlinked", "members_of", "tracked_of", "reconcile", "links", "each_link"}

LEMMA NoMender ==
    ASSUME NEW o, o.do \notin Menders, NEW m, NEW L
    PROVE  ~OpMends(o, m, L)
BY DEF OpMends, Clears, Reads, Visits, Menders

LEMMA StepIdle ==
    ASSUME NEW l \in Seq(Ops), l # <<>>, NEW L, NEW G, NEW T, Good(l, L, G, T),
           Head(l).do \notin Menders, Head(l).do # "track"
    PROVE  Good(Tail(l), L, G, T)
BY NoMender, PopStep

LEMMA StepKept ==
    ASSUME NEW l \in Seq(Ops), l # <<>>, NEW L, NEW G, NEW T, Good(l, L, G, T), Head(l).do = "kept"
    PROVE  Good(<<[Head(l) EXCEPT !.do = "expel"]>> \o Tail(l), L, G, T) /\ [Head(l) EXCEPT !.do = "expel"] \in Ops
<1> PICK o \in Ops : o = Head(l)
  BY OpsPop
<1>1. o.x \in Groups /\ o.s \in Targets /\ o.set \in SUBSET Tracks /\ o = Op(o.do, o.x, o.s, o.set)
  BY RowOpType DEF RowDos
<1>2. PICK a \in Ops : a = Op("expel", o.x, o.s, o.set)
  BY <1>1, RowOpMade DEF RowDos
<1>3. a = [o EXCEPT !.do = "expel"] /\ a.do = "expel"
  BY <1>1, <1>2 DEF Op
<1>4. a.do \notin Transient /\ o.do # "track" /\ o.do \notin Menders
  BY <1>3 DEF Transient, Menders
<1>5. Good(<<a>> \o Tail(l), L, G, T)
  BY <1>4, NoMender, PlainOne
<1> QED
  BY <1>3, <1>5

PolicyDos == UserDos \cup {"apply", "each_policy"}

\* Policies touch no link.
LEMMA StepPolicy ==
    ASSUME NEW l \in Seq(Ops), l # <<>>, NEW p \in Seq(Ops), NEW L, NEW G, NEW T, Good(l, L, G, T),
           Head(l).do \in PolicyDos, \A a \in OpsOf(p) : a.do \in PolicyDos
    PROVE  Good(p \o Tail(l), L, G, T)
<1>1. \A d \in PolicyDos : d \notin Menders /\ d # "track" /\ d \notin Transient
  BY DEF PolicyDos, UserDos, Menders, Transient
<1>2. Stable(p)
  BY <1>1 DEF Stable
<1>3. \A m \in T : ~OpMends(Head(l), m, L)
  BY <1>1, NoMender
<1> QED
  BY <1>1, <1>2, <1>3, PlainStep

-----------------------------------------------------------------------------
(* The sync with Keycloak. *)

\* Every row is wanted: any list will do.
LEMMA FreshList ==
    ASSUME NEW n, NEW L, NEW G, NEW T, \A m \in T : Wanted(m, L, G), ListOK(n, L, G)
    PROVE  Good(n, L, G, T)
BY DEF Good

\* An empty list is good when every row is wanted.
LEMMA GoodNone ==
    ASSUME NEW L, NEW G, NEW T
    PROVE  Good(<<>>, L, G, T) <=> \A m \in T : Wanted(m, L, G)
BY OpsNone DEF Good, ListOK

\* The sync runs alone, with nothing to mend.
LEMMA Alone ==
    ASSUME NEW l \in Seq(Ops), l # <<>>, NEW L, NEW G, NEW T, Good(l, L, G, T), Head(l).do \in KeycloakDos
    PROVE  Tail(l) = <<>> /\ \A m \in T : Wanted(m, L, G)
<1>1. Head(l).do # "track" /\ Head(l).do \notin Menders
  BY DEF KeycloakDos, Menders
<1>2. Tail(l) = <<>>
  BY <1>1, TailStable DEF HeadOK, KeycloakDos
<1>3. OpsOf(l) = {Head(l)}
  BY <1>2, OpsPop, OpsNone
<1> QED
  BY <1>1, <1>2, <1>3, NoMender DEF Good

\* A run of the sync, with nothing to mend.
LEMMA FetchGood ==
    ASSUME NEW a \in Ops, a.do \in KeycloakDos, NEW L, NEW G, NEW T, \A m \in T : Wanted(m, L, G)
    PROVE  <<a>> \in Seq(Ops) /\ Good(<<a>>, L, G, T)
<1>1. <<a>> \in Seq(Ops) /\ <<a>> # <<>> /\ Head(<<a>>) = a /\ Tail(<<a>>) = <<>>
  OBVIOUS
<1>2. a.do # "track"
  BY DEF KeycloakDos
<1>3. HeadOK(a, <<>>, L, G)
  BY OpsNone DEF HeadOK, Stable, KeycloakDos
<1>4. ListOK(<<a>>, L, G)
  BY <1>1, <1>2, <1>3 DEF ListOK
<1> QED
  BY <1>1, <1>4, FreshList

-----------------------------------------------------------------------------
(* The steps of a task. *)

GroupStates == [Groups -> {"absent", "live", "deleted"}]
Absent == grp[Custom] = "absent" => ingroup[Custom] = {}
GoodTask(t) == Good(task[t], link, ingroup, tracked)

\* What a step of task t has to keep.
Keeps(t) ==
    /\ task' = [task EXCEPT ![t] = task'[t]] /\ task'[t] \in Seq(Ops)
    /\ link' \in LinkTables /\ ingroup' \in GroupTables /\ tracked' \in SUBSET Tracks /\ grp' \in GroupStates
    /\ trouble' \in Nat /\ (trouble' = 0 => trouble = 0) /\ known' = known
    /\ Absent => Absent'
    /\ GoodTask(t) => (trouble' = 0 => GoodTask(t)')

\* The task goes on and only reads the tables of the groups.
LEMMA ReadStep ==
    ASSUME SyncType, NEW t \in Workers, task[t] # <<>>, NEW p \in Seq(Ops), Continue(t, p),
           UNCHANGED <<ingroup, grp, link, tracked>>,
           GoodTask(t) => Good(p \o Tail(task[t]), link, ingroup, tracked)
    PROVE  Keeps(t)
<1>1. task'[t] = p \o Tail(task[t]) /\ trouble' = trouble /\ known' = known /\ task' = [task EXCEPT ![t] = task'[t]]
  BY GoesOn
<1>2. task[t] \in Seq(Ops)
  BY DEF SyncType
<1>3. Tail(task[t]) \in Seq(Ops)
  BY <1>2, OpsPop
<1>4. task'[t] \in Seq(Ops)
  BY <1>1, <1>3, OpsConcat
<1>5. GoodTask(t) => GoodTask(t)'
  BY <1>1 DEF GoodTask
<1>6. Absent => Absent'
  BY DEF Absent
<1> QED
  BY <1>1, <1>4, <1>5, <1>6 DEF Keeps, SyncType, GroupStates

LEMMA HeadType ==
    ASSUME SyncType, NEW t \in Workers, task[t] # <<>>
    PROVE  /\ task[t] \in Seq(Ops) /\ Head(task[t]) \in Ops /\ Tail(task[t]) \in Seq(Ops)
           /\ link \in LinkTables /\ ingroup \in GroupTables /\ tracked \in SUBSET Tracks
BY OpsPop DEF SyncType

LEMMA EmptyList == <<>> \in Seq(Ops)
OBVIOUS

LEMMA KeepReconcile ==
    ASSUME SyncType, NEW t \in Workers, task[t] # <<>>, reconcile_group_syncable(t, Head(task[t]))
    PROVE  Keeps(t)
<1> PICK l : l = task[t]
  OBVIOUS
<1> PICK o : o = Head(l)
  OBVIOUS
<1>1. l \in Seq(Ops) /\ l # <<>> /\ o \in Ops /\ Tail(l) \in Seq(Ops)
      /\ link \in LinkTables /\ ingroup \in GroupTables /\ tracked \in SUBSET Tracks
  BY HeadType
<1>2. o.do = "reconcile" /\ UNCHANGED <<ingroup, grp, link, tracked>>
  BY DEF reconcile_group_syncable, Memberships, GroupVars
<1>3. o.x \in Groups /\ o.s \in Targets
  BY <1>1, <1>2, RowOpType DEF RowDos
<1>4. CASE ~Linked(o.x, o.s)
  <2>1. Continue(t, <<>>)
    BY <1>4 DEF reconcile_group_syncable
  <2>2. GoodTask(t) => Good(Tail(l), link, ingroup, tracked)
    BY <1>1, <1>2, <1>4, StepReconcile DEF GoodTask, Linked
  <2>3. GoodTask(t) => Good(<<>> \o Tail(l), link, ingroup, tracked)
    BY <1>1, <2>2, ConsNone
  <2> QED
    BY <1>2, <2>1, <2>3, EmptyList, ReadStep
<1>5. CASE Linked(o.x, o.s)
  <2>1. PICK d : d = IF link[o.x][o.s] THEN "members_of" ELSE "tracked_of"
    OBVIOUS
  <2>2. Continue(t, <<Op(d, o.x, o.s, {})>>)
    BY <1>5, <2>1 DEF reconcile_group_syncable
  <2>3. link[o.x][o.s] \in BOOLEAN
    BY <1>1, <1>3, <1>5 DEF Linked, LinkTables
  <2>4. d \in {"members_of", "tracked_of"} /\ (d = "members_of" => link[o.x][o.s] = TRUE)
    BY <2>1, <2>3
  <2>5. PICK a \in Ops : a = Op(d, o.x, o.s, {})
    BY <1>3, <2>4, RowOpMade DEF RowDos
  <2>6. GoodTask(t) => Good(<<a>> \o Tail(l), link, ingroup, tracked)
    BY <1>1, <1>2, <1>5, <2>4, <2>5, StepReconcile DEF GoodTask, Linked
  <2>7. <<a>> \in Seq(Ops)
    BY <2>5
  <2> QED
    BY <1>2, <2>2, <2>5, <2>6, <2>7, ReadStep
<1> QED
  BY <1>4, <1>5

LEMMA DesiredType ==
    ASSUME NEW g \in Groups, NEW s \in Targets, NEW U \in SUBSET Users
    PROVE  Desired(g, s, U) \in SUBSET Tracks
BY DEF Desired, Track, Tracks, Targets

LEMMA KeepMembers ==
    ASSUME SyncType, NEW t \in Workers, task[t] # <<>>, ReadGroupMembers(t, Head(task[t]))
    PROVE  Keeps(t)
<1> PICK l : l = task[t]
  OBVIOUS
<1> PICK o : o = Head(l)
  OBVIOUS
<1>1. l \in Seq(Ops) /\ l # <<>> /\ o \in Ops /\ Tail(l) \in Seq(Ops)
      /\ link \in LinkTables /\ ingroup \in GroupTables /\ tracked \in SUBSET Tracks
  BY HeadType
<1>2. o.do = "members_of" /\ UNCHANGED <<ingroup, grp, link, tracked>>
  BY DEF ReadGroupMembers, Memberships, GroupVars
<1>3. o.x \in Groups /\ o.s \in Targets
  BY <1>1, <1>2, RowOpType DEF RowDos
<1>4. PICK D \in SUBSET Tracks : D = Desired(o.x, o.s, ingroup[o.x])
  <2>1. ingroup[o.x] \in SUBSET Users
    BY <1>1, <1>3 DEF GroupTables
  <2> QED
    BY <1>3, <2>1, DesiredType
<1>5. PICK a \in Ops : a = Op("tracked_of", o.x, o.s, D)
  BY <1>3, RowOpMade DEF RowDos
<1>6. Continue(t, <<a>>)
  BY <1>4, <1>5 DEF ReadGroupMembers
<1>7. GoodTask(t) => Good(<<a>> \o Tail(l), link, ingroup, tracked)
  BY <1>1, <1>2, <1>4, <1>5, StepMembers DEF GoodTask
<1>8. <<a>> \in Seq(Ops)
  BY <1>5
<1> QED
  BY <1>2, <1>6, <1>7, <1>8, ReadStep

LEMMA KeepTracked ==
    ASSUME SyncType, NEW t \in Workers, task[t] # <<>>, ReadTracked(t, Head(task[t]))
    PROVE  Keeps(t)
<1> PICK l : l = task[t]
  OBVIOUS
<1> PICK o : o = Head(l)
  OBVIOUS
<1>1. l \in Seq(Ops) /\ l # <<>> /\ o \in Ops /\ Tail(l) \in Seq(Ops)
      /\ link \in LinkTables /\ ingroup \in GroupTables /\ tracked \in SUBSET Tracks
  BY HeadType
<1>2. o.do = "tracked_of" /\ UNCHANGED <<ingroup, grp, link, tracked>>
  BY DEF ReadTracked, Memberships, GroupVars
<1>3. o.x \in Groups /\ o.s \in Targets /\ o.set \subseteq Tracks
  BY <1>1, <1>2, RowOpType DEF RowDos
<1>4. PICK R : R = {m \in tracked : m.g = o.x /\ m.s = o.s}
  OBVIOUS
<1>5. PICK a \in Ops : a = Op("ensure", o.x, o.s, o.set \ R)
  BY <1>3, RowOpMade DEF RowDos
<1>6. PICK b \in Ops : b = Op("cleanup", o.x, o.s, R \ o.set)
  BY <1>1, <1>3, <1>4, RowOpMade DEF RowDos
<1>7. Continue(t, <<a, b>>)
  BY <1>4, <1>5, <1>6 DEF ReadTracked, TrackedBy
<1>8. GoodTask(t) => Good(<<a, b>> \o Tail(l), link, ingroup, tracked)
  BY <1>1, <1>2, <1>4, <1>5, <1>6, StepTracked DEF GoodTask
<1>9. <<a, b>> \in Seq(Ops)
  BY OpsTwo
<1> QED
  BY <1>2, <1>7, <1>8, <1>9, ReadStep

LEMMA OneOne ==
    ASSUME NEW a \in Ops, NEW b \in Ops
    PROVE  <<a>> \o <<b>> = <<a, b>> /\ <<a, b>> \in Seq(Ops)
<1>1. <<a>> \o <<b>> \in Seq(Ops) /\ <<a, b>> \in Seq(Ops) /\ Len(<<a>> \o <<b>>) = 2 /\ Len(<<a, b>>) = 2
  OBVIOUS
<1>2. \A i \in 1..2 : (<<a>> \o <<b>>)[i] = <<a, b>>[i]
  OBVIOUS
<1> QED
  BY <1>1, <1>2, SeqEqual

LEMMA KeepEnsure ==
    ASSUME SyncType, NEW t \in Workers, task[t] # <<>>, ensure_membership(t, Head(task[t]))
    PROVE  Keeps(t)
<1> PICK l : l = task[t]
  OBVIOUS
<1> PICK o : o = Head(l)
  OBVIOUS
<1>1. l \in Seq(Ops) /\ l # <<>> /\ o \in Ops /\ Tail(l) \in Seq(Ops)
      /\ link \in LinkTables /\ ingroup \in GroupTables /\ tracked \in SUBSET Tracks
  BY HeadType
<1>2. o.do = "ensure" /\ UNCHANGED <<ingroup, grp, link, tracked>>
  BY DEF ensure_membership, GroupVars
<1>3. o.x \in Groups /\ o.s \in Targets /\ o.set \subseteq Tracks
  BY <1>1, <1>2, RowOpType DEF RowDos
<1>4. CASE o.set = {}
  <2>1. Continue(t, <<>>)
    BY <1>4 DEF ensure_membership
  <2>2. GoodTask(t) => Good(Tail(l), link, ingroup, tracked)
    BY <1>1, <1>2, <1>4, StepIdle DEF GoodTask, Menders
  <2>3. GoodTask(t) => Good(<<>> \o Tail(l), link, ingroup, tracked)
    BY <1>1, <2>2, ConsNone
  <2> QED
    BY <1>2, <2>1, <2>3, EmptyList, ReadStep
<1>5. CASE o.set # {}
  <2>1. PICK m \in o.set :
           Continue(t, (IF IsMember(m.x, m.u) THEN <<>> ELSE <<Op("track", o.x, o.s, {m})>>) \o <<[o EXCEPT !.set = @ \ {m}]>>)
    BY <1>5 DEF ensure_membership
  <2>2. PICK b \in Ops : b = [o EXCEPT !.set = o.set \ {m}]
    BY <1>1, OpShrinks
  <2>3. PICK a \in Ops : a = Op("track", o.x, o.s, {m})
    BY <1>3, RowOpMade DEF RowDos
  <2>4. CASE IsMember(m.x, m.u)
    <3>1. Continue(t, <<>> \o <<b>>)
      BY <2>1, <2>2, <2>4
    <3>2. <<>> \o <<b>> = <<b>> /\ <<b>> \in Seq(Ops)
      BY <2>2
    <3>3. GoodTask(t) => Good(<<b>> \o Tail(l), link, ingroup, tracked)
      BY <1>1, <1>2, <2>2, StepEnsure DEF GoodTask
    <3> QED
      BY <1>2, <3>1, <3>2, <3>3, ReadStep
  <2>5. CASE ~IsMember(m.x, m.u)
    <3>1. Continue(t, <<a>> \o <<b>>)
      BY <2>1, <2>2, <2>3, <2>5
    <3>2. <<a>> \o <<b>> = <<a, b>> /\ <<a, b>> \in Seq(Ops)
      BY OneOne
    <3>3. GoodTask(t) => Good(<<a, b>> \o Tail(l), link, ingroup, tracked)
      BY <1>1, <1>2, <2>2, <2>3, StepEnsure DEF GoodTask
    <3> QED
      BY <1>2, <3>1, <3>2, <3>3, ReadStep
  <2> QED
    BY <2>4, <2>5
<1> QED
  BY <1>4, <1>5

LEMMA KeepGone ==
    ASSUME SyncType, NEW t \in Workers, task[t] # <<>>, TargetIsGone(t, Head(task[t]))
    PROVE  Keeps(t)
<1>1. task' = [task EXCEPT ![t] = <<>>] /\ trouble' \in Nat /\ trouble' # 0 /\ UNCHANGED <<known, ingroup, grp, link, tracked>>
  BY DEF TargetIsGone, SyncType, GroupVars
<1>2. task'[t] = <<>>
  BY <1>1 DEF SyncType
<1>3. Absent => Absent'
  BY <1>1 DEF Absent
<1> QED
  BY <1>1, <1>2, <1>3, EmptyList DEF Keeps, SyncType, GroupStates

LEMMA KeepKept ==
    ASSUME SyncType, NEW t \in Workers, task[t] # <<>>, cleanup_tracking_membership(t, Head(task[t]))
    PROVE  Keeps(t)
<1> PICK l : l = task[t]
  OBVIOUS
<1> PICK o : o = Head(l)
  OBVIOUS
<1>1. l \in Seq(Ops) /\ l # <<>> /\ o \in Ops /\ Tail(l) \in Seq(Ops)
      /\ link \in LinkTables /\ ingroup \in GroupTables /\ tracked \in SUBSET Tracks
  BY HeadType
<1>2. o.do = "kept" /\ UNCHANGED <<ingroup, grp, link, tracked>>
  BY DEF cleanup_tracking_membership, Memberships, GroupVars
<1>3. o.x \in Groups /\ o.s \in Targets /\ o.set \subseteq Tracks
  BY <1>1, <1>2, RowOpType DEF RowDos
<1>4. CASE Continue(t, <<>>)
  <2>2. GoodTask(t) => Good(Tail(l), link, ingroup, tracked)
    BY <1>1, <1>2, StepIdle DEF GoodTask, Menders
  <2>3. GoodTask(t) => Good(<<>> \o Tail(l), link, ingroup, tracked)
    BY <1>1, <2>2, ConsNone
  <2> QED
    BY <1>2, <1>4, <2>3, EmptyList, ReadStep
<1>5. CASE Continue(t, <<[o EXCEPT !.do = "expel"]>>)
  <2>1. PICK a \in Ops : a = [o EXCEPT !.do = "expel"]
    <3>1. o = Op(o.do, o.x, o.s, o.set)
      BY <1>1, <1>2, RowOpType DEF RowDos
    <3>2. Op("expel", o.x, o.s, o.set) \in Ops
      BY <1>3, RowOpMade DEF RowDos
    <3>3. Op("expel", o.x, o.s, o.set) = [o EXCEPT !.do = "expel"]
      BY <3>1 DEF Op
    <3> QED
      BY <3>2, <3>3
  <2>2. GoodTask(t) => Good(<<a>> \o Tail(l), link, ingroup, tracked)
    BY <1>1, <1>2, <2>1, StepKept DEF GoodTask
  <2>3. <<a>> \in Seq(Ops)
    BY <2>1
  <2> QED
    BY <1>2, <1>5, <2>1, <2>2, <2>3, ReadStep
<1> QED
  BY <1>4, <1>5 DEF cleanup_tracking_membership

LEMMA KeepExpel ==
    ASSUME SyncType, NEW t \in Workers, task[t] # <<>>, Expel(t, Head(task[t]))
    PROVE  Keeps(t)
<1> PICK l : l = task[t]
  OBVIOUS
<1> PICK o : o = Head(l)
  OBVIOUS
<1>1. l \in Seq(Ops) /\ l # <<>> /\ o \in Ops /\ Tail(l) \in Seq(Ops)
      /\ link \in LinkTables /\ ingroup \in GroupTables /\ tracked \in SUBSET Tracks
  BY HeadType
<1>2. o.do = "expel" /\ UNCHANGED <<ingroup, grp, link, tracked>>
  BY DEF Expel, GroupVars
<1>3. o.x \in Groups /\ o.s \in Targets /\ o.set \subseteq Tracks
  BY <1>1, <1>2, RowOpType DEF RowDos
<1>4. CASE TRUE
  <2>1. Continue(t, <<>>)
    BY <1>4 DEF Expel
  <2>2. GoodTask(t) => Good(Tail(l), link, ingroup, tracked)
    BY <1>1, <1>2, StepIdle DEF GoodTask, Menders
  <2>3. GoodTask(t) => Good(<<>> \o Tail(l), link, ingroup, tracked)
    BY <1>1, <2>2, ConsNone
  <2> QED
    BY <1>2, <2>1, <2>3, EmptyList, ReadStep
<1> QED
  BY <1>4

LEMMA KeepUnlinked ==
    ASSUME SyncType, NEW t \in Workers, task[t] # <<>>, cleanup_unlinked_syncable(t, Head(task[t]))
    PROVE  Keeps(t)
<1> PICK l : l = task[t]
  OBVIOUS
<1> PICK o : o = Head(l)
  OBVIOUS
<1>1. l \in Seq(Ops) /\ l # <<>> /\ o \in Ops /\ Tail(l) \in Seq(Ops)
      /\ link \in LinkTables /\ ingroup \in GroupTables /\ tracked \in SUBSET Tracks
  BY HeadType
<1>2. o.do = "unlinked" /\ UNCHANGED <<ingroup, grp, link, tracked>>
  BY DEF cleanup_unlinked_syncable, Memberships, GroupVars
<1>3. o.x \in Groups /\ o.s \in Targets /\ o.set \subseteq Tracks
  BY <1>1, <1>2, RowOpType DEF RowDos
<1>4. PICK R : R = {m \in tracked : m.g = o.x /\ m.s = o.s}
  OBVIOUS
<1>5. PICK a \in Ops : a = Op("cleanup", o.x, o.s, R)
  BY <1>1, <1>3, <1>4, RowOpMade DEF RowDos
<1>6. Continue(t, <<a>>)
  BY <1>4, <1>5 DEF cleanup_unlinked_syncable, TrackedBy
<1>7. GoodTask(t) => Good(<<a>> \o Tail(l), link, ingroup, tracked)
  BY <1>1, <1>2, <1>4, <1>5, StepUnlinked DEF GoodTask
<1>8. <<a>> \in Seq(Ops)
  BY <1>5
<1> QED
  BY <1>2, <1>6, <1>7, <1>8, ReadStep

LEMMA KeepEach ==
    ASSUME SyncType, NEW t \in Workers, task[t] # <<>>, reconcile_group_syncables(t, Head(task[t]))
    PROVE  Keeps(t)
<1> PICK l : l = task[t]
  OBVIOUS
<1> PICK o : o = Head(l)
  OBVIOUS
<1>1. l \in Seq(Ops) /\ l # <<>> /\ o \in Ops /\ Tail(l) \in Seq(Ops)
      /\ link \in LinkTables /\ ingroup \in GroupTables /\ tracked \in SUBSET Tracks
  BY HeadType
<1>2. o.do = "each_link" /\ UNCHANGED <<ingroup, grp, link, tracked>>
  BY DEF reconcile_group_syncables, Memberships, GroupVars
<1>3. o.x \in Groups /\ o.set \subseteq Targets
  BY <1>1, <1>2, LinkOpType DEF LinkDos
<1>4. PICK S : S = {s \in Targets : link[o.x][s] # None}
  OBVIOUS
<1>5. PICK a \in Ops : a = Op("links", o.x, None, S)
  BY <1>3, <1>4, LinkOpMade DEF LinkDos
<1>6. Continue(t, <<a>>)
  BY <1>4, <1>5 DEF reconcile_group_syncables, Linked
<1>7. GoodTask(t) => Good(<<a>> \o Tail(l), link, ingroup, tracked)
  BY <1>1, <1>2, <1>4, <1>5, StepEach DEF GoodTask
<1>8. <<a>> \in Seq(Ops)
  BY <1>5
<1> QED
  BY <1>2, <1>6, <1>7, <1>8, ReadStep

LEMMA KeepLinks ==
    ASSUME SyncType, NEW t \in Workers, task[t] # <<>>, NextLink(t, Head(task[t]))
    PROVE  Keeps(t)
<1> PICK l : l = task[t]
  OBVIOUS
<1> PICK o : o = Head(l)
  OBVIOUS
<1>1. l \in Seq(Ops) /\ l # <<>> /\ o \in Ops /\ Tail(l) \in Seq(Ops)
      /\ link \in LinkTables /\ ingroup \in GroupTables /\ tracked \in SUBSET Tracks
  BY HeadType
<1>2. o.do = "links" /\ UNCHANGED <<ingroup, grp, link, tracked>>
  BY DEF NextLink, Memberships, GroupVars
<1>3. o.x \in Groups /\ o.set \subseteq Targets
  BY <1>1, <1>2, LinkOpType DEF LinkDos
<1>4. GoodTask(t) => /\ o.set = {} => Good(Tail(l), link, ingroup, tracked)
                     /\ \A s \in o.set :
                          Good(<<Op("reconcile", o.x, s, {}), [o EXCEPT !.set = @ \ {s}]>> \o Tail(l), link, ingroup, tracked)
  BY <1>1, <1>2, StepLinks DEF GoodTask
<1>5. CASE o.set = {}
  <2>1. Continue(t, <<>>)
    BY <1>5 DEF NextLink
  <2>2. GoodTask(t) => Good(<<>> \o Tail(l), link, ingroup, tracked)
    BY <1>1, <1>4, <1>5, ConsNone
  <2> QED
    BY <1>2, <2>1, <2>2, EmptyList, ReadStep
<1>6. CASE o.set # {}
  <2>1. PICK s \in o.set : Continue(t, <<Op("reconcile", o.x, s, {}), [o EXCEPT !.set = @ \ {s}]>>)
    BY <1>6 DEF NextLink, Reconcile
  <2>2. PICK a \in Ops : a = Op("reconcile", o.x, s, {})
    BY <1>3, RowOpMade DEF RowDos
  <2>3. PICK b \in Ops : b = [o EXCEPT !.set = o.set \ {s}]
    BY <1>1, OpShrinks
  <2>4. GoodTask(t) => Good(<<a, b>> \o Tail(l), link, ingroup, tracked)
    BY <1>4, <2>2, <2>3
  <2>5. <<a, b>> \in Seq(Ops)
    BY OpsTwo
  <2> QED
    BY <1>2, <2>1, <2>2, <2>3, <2>4, <2>5, ReadStep
<1> QED
  BY <1>5, <1>6

\* The task goes on and writes rows of group_syncable_memberships.
LEMMA TrackStep ==
    ASSUME SyncType, NEW t \in Workers, task[t] # <<>>, NEW p \in Seq(Ops), Continue(t, p),
           UNCHANGED <<ingroup, grp, link>>, tracked' \in SUBSET Tracks,
           GoodTask(t) => Good(p \o Tail(task[t]), link, ingroup, tracked')
    PROVE  Keeps(t)
<1>1. task'[t] = p \o Tail(task[t]) /\ trouble' = trouble /\ known' = known /\ task' = [task EXCEPT ![t] = task'[t]]
  BY GoesOn
<1>2. task[t] \in Seq(Ops)
  BY DEF SyncType
<1>3. Tail(task[t]) \in Seq(Ops)
  BY <1>2, OpsPop
<1>4. task'[t] \in Seq(Ops)
  BY <1>1, <1>3, OpsConcat
<1>5. GoodTask(t) => GoodTask(t)'
  BY <1>1 DEF GoodTask
<1>6. Absent => Absent'
  BY DEF Absent
<1> QED
  BY <1>1, <1>4, <1>5, <1>6 DEF Keeps, SyncType, GroupStates

LEMMA KeepTrack ==
    ASSUME SyncType, NEW t \in Workers, task[t] # <<>>, TrackMembership(t, Head(task[t]))
    PROVE  Keeps(t)
<1> PICK l : l = task[t]
  OBVIOUS
<1> PICK o : o = Head(l)
  OBVIOUS
<1>1. l \in Seq(Ops) /\ l # <<>> /\ o \in Ops /\ Tail(l) \in Seq(Ops)
      /\ link \in LinkTables /\ ingroup \in GroupTables /\ tracked \in SUBSET Tracks
  BY HeadType
<1>2. o.do = "track" /\ UNCHANGED <<ingroup, grp, link>>
  BY DEF TrackMembership, Memberships
<1>3. o.x \in Groups /\ o.s \in Targets /\ o.set \subseteq Tracks
  BY <1>1, <1>2, RowOpType DEF RowDos
<1>4. Continue(t, <<>>) /\ tracked' = tracked \cup o.set
  BY DEF TrackMembership
<1>5. GoodTask(t) => Good(Tail(l), link, ingroup, tracked')
  BY <1>1, <1>2, <1>4, StepTrack DEF GoodTask
<1>6. GoodTask(t) => Good(<<>> \o Tail(l), link, ingroup, tracked')
  BY <1>1, <1>5, ConsNone
<1>7. tracked' \in SUBSET Tracks
  BY <1>1, <1>3, <1>4
<1> QED
  BY <1>2, <1>4, <1>6, <1>7, EmptyList, TrackStep

LEMMA KeepUntrack ==
    ASSUME SyncType, NEW t \in Workers, task[t] # <<>>, Untrack(t, Head(task[t]))
    PROVE  Keeps(t)
<1> PICK l : l = task[t]
  OBVIOUS
<1> PICK o : o = Head(l)
  OBVIOUS
<1>1. l \in Seq(Ops) /\ l # <<>> /\ o \in Ops /\ Tail(l) \in Seq(Ops)
      /\ link \in LinkTables /\ ingroup \in GroupTables /\ tracked \in SUBSET Tracks
  BY HeadType
<1>2. o.do = "cleanup" /\ UNCHANGED <<ingroup, grp, link>>
  BY DEF Untrack, Memberships
<1>3. o.x \in Groups /\ o.s \in Targets /\ o.set \subseteq Tracks
  BY <1>1, <1>2, RowOpType DEF RowDos
<1>4. GoodTask(t) => /\ o.set = {} => Good(Tail(l), link, ingroup, tracked)
                     /\ \A m \in o.set :
                          Good(<<Op("kept", o.x, o.s, {m}), [o EXCEPT !.set = @ \ {m}]>> \o Tail(l),
                               link, ingroup, tracked \ {m})
  BY <1>1, <1>2, StepCleanup DEF GoodTask
<1>5. CASE o.set = {}
  <2>1. Continue(t, <<>>) /\ tracked' = tracked
    BY <1>5 DEF Untrack
  <2>2. GoodTask(t) => Good(<<>> \o Tail(l), link, ingroup, tracked)
    BY <1>1, <1>4, <1>5, ConsNone
  <2> QED
    BY <1>2, <2>1, <2>2, EmptyList, ReadStep
<1>6. CASE o.set # {}
  <2>1. PICK m \in o.set : /\ tracked' = tracked \ {m}
                           /\ Continue(t, <<Op("kept", o.x, o.s, {m}), [o EXCEPT !.set = @ \ {m}]>>)
    BY <1>6 DEF Untrack
  <2>2. PICK a \in Ops : a = Op("kept", o.x, o.s, {m})
    BY <1>3, RowOpMade DEF RowDos
  <2>3. PICK b \in Ops : b = [o EXCEPT !.set = o.set \ {m}]
    BY <1>1, OpShrinks
  <2>4. GoodTask(t) => Good(<<a, b>> \o Tail(l), link, ingroup, tracked')
    BY <1>4, <2>1, <2>2, <2>3
  <2>5. <<a, b>> \in Seq(Ops)
    BY OpsTwo
  <2>6. tracked' \in SUBSET Tracks
    BY <1>1, <2>1
  <2> QED
    BY <1>2, <2>1, <2>2, <2>3, <2>4, <2>5, <2>6, TrackStep
<1> QED
  BY <1>5, <1>6

\* The groups of Keycloak are not made here.
LEMMA KeycloakGroup == Keycloak \in Groups /\ Custom \in Groups /\ Keycloak # Custom
BY GroupAssumption

LEMMA KeepFetch ==
    ASSUME SyncType, NEW t \in Workers, task[t] # <<>>,
           run_full_sync(t, Head(task[t])) \/ resync_user(t, Head(task[t]))
    PROVE  Keeps(t)
<1> PICK l : l = task[t]
  OBVIOUS
<1> PICK o : o = Head(l)
  OBVIOUS
<1>1. l \in Seq(Ops) /\ l # <<>> /\ o \in Ops
  BY HeadType
<1>2. o.do \in {"fetch", "fetch_user"} /\ UNCHANGED <<ingroup, grp, link, tracked>>
  BY DEF run_full_sync, resync_user, Memberships, GroupVars
<1>3. o.x = Keycloak
  BY <1>1, <1>2, KeycloakOpType DEF KeycloakDos
<1>4. GoodTask(t) => Tail(l) = <<>> /\ \A m \in tracked : Wanted(m, link, ingroup)
  BY <1>1, <1>2, Alone DEF GoodTask, KeycloakDos
<1>5. CASE Continue(t, <<>>)
  <2>1. Tail(l) \in Seq(Ops)
    BY <1>1, OpsPop
  <2>2. GoodTask(t) => Good(Tail(l), link, ingroup, tracked)
    BY <1>4, GoodNone
  <2>3. GoodTask(t) => Good(<<>> \o Tail(l), link, ingroup, tracked)
    BY <2>1, <2>2, ConsNone
  <2> QED
    BY <1>2, <1>5, <2>3, EmptyList, ReadStep
<1>6. CASE Continue(t, <<Op("upsert", Keycloak, None, {})>>)
  <2>1. PICK a \in Ops : a = Op("upsert", Keycloak, None, {}) /\ a.do = "upsert"
    BY KeycloakOpMade, OpFields DEF KeycloakDos
  <2>2. <<a>> \in Seq(Ops) /\ <<a>> \o <<>> = <<a>>
    OBVIOUS
  <2>3. GoodTask(t) => Good(<<a>> \o Tail(l), link, ingroup, tracked)
    BY <1>4, <2>1, <2>2, FetchGood DEF KeycloakDos
  <2>4. Continue(t, <<a>>)
    BY <1>6, <2>1
  <2> QED
    BY <1>2, <2>2, <2>3, <2>4, ReadStep
<1> QED
  BY <1>3, <1>5, <1>6 DEF run_full_sync, resync_user

LEMMA KeepUpsert ==
    ASSUME SyncType, NEW t \in Workers, task[t] # <<>>, upsert_group(t, Head(task[t]))
    PROVE  Keeps(t)
<1>1. task' = [task EXCEPT ![t] = <<>>] /\ UNCHANGED <<trouble, known, ingroup, grp, link, tracked>>
      /\ Head(task[t]).do = "upsert"
  BY DEF upsert_group, GroupVars
<1>2. task'[t] = <<>>
  BY <1>1 DEF SyncType
<1>3. Absent => Absent'
  BY <1>1 DEF Absent
<1>4. GoodTask(t) => GoodTask(t)'
  <2>1. GoodTask(t) => \A m \in tracked : Wanted(m, link, ingroup)
    BY <1>1, HeadType, Alone DEF GoodTask, KeycloakDos
  <2> QED
    BY <1>1, <1>2, <2>1, GoodNone DEF GoodTask
<1> QED
  BY <1>1, <1>2, <1>3, <1>4, EmptyList DEF Keeps, SyncType, GroupStates

-----------------------------------------------------------------------------
(* The policies: lists of their instructions. *)

PolicyList(p) == p \in Seq(Ops) /\ \A a \in OpsOf(p) : a.do \in PolicyDos
Subjects == Users \cup Policies \cup {None}

LEMMA PolicyNone == PolicyList(<<>>)
BY EmptyList, OpsNone DEF PolicyList

LEMMA PolicyOne ==
    ASSUME NEW a \in Ops, a.do \in PolicyDos
    PROVE  PolicyList(<<a>>)
BY DEF PolicyList, OpsOf

LEMMA PolicyTwo ==
    ASSUME NEW a \in Ops, a.do \in PolicyDos, NEW b \in Ops, b.do \in PolicyDos
    PROVE  PolicyList(<<a, b>>)
BY DEF PolicyList, OpsOf

LEMMA PolicyConcat ==
    ASSUME NEW p, NEW q, PolicyList(p), PolicyList(q)
    PROVE  PolicyList(p \o q)
BY OpsConcat DEF PolicyList

LEMMA UserOpMade ==
    ASSUME NEW d \in UserDos, NEW x \in Subjects, NEW s \in Targets \cup {None}, NEW S \in SUBSET Users
    PROVE  Op(d, x, s, S) \in Ops /\ Op(d, x, s, S).do \in PolicyDos
<1>1. Op(d, x, s, S) \in UserOps
  BY DEF Op, UserOps, Subjects
<1> QED
  BY <1>1, OpFields DEF Ops, PolicyDos

LEMMA ApplyOpMade ==
    ASSUME NEW x \in Subjects, NEW S \in SUBSET Targets
    PROVE  Op("apply", x, None, S) \in Ops /\ Op("apply", x, None, S).do \in PolicyDos
<1>1. Op("apply", x, None, S) \in ApplyOps
  BY DEF Op, ApplyOps, Subjects
<1> QED
  BY <1>1, OpFields DEF Ops, PolicyDos

LEMMA PolicyOpMade ==
    ASSUME NEW S \in SUBSET Policies
    PROVE  Op("each_policy", None, None, S) \in Ops /\ Op("each_policy", None, None, S).do \in PolicyDos
<1>1. Op("each_policy", None, None, S) \in PolicyOps
  BY DEF Op, PolicyOps
<1> QED
  BY <1>1, OpFields DEF Ops, PolicyDos

LEMMA UserOpType ==
    ASSUME NEW o \in Ops, o.do \in UserDos \cup {"apply"}
    PROVE  o.x \in Subjects /\ (o.do \in UserDos => o.set \subseteq Users)
<1>1. o \in UserOps \/ o \in ApplyOps
  BY DEF Ops, RowOps, LinkOps, KeycloakOps, PolicyOps, RowDos, LinkDos, KeycloakDos, UserDos
<1> QED
  BY <1>1 DEF UserOps, ApplyOps, Subjects, UserDos

LEMMA PolicyOpType ==
    ASSUME NEW o \in Ops, o.do = "each_policy"
    PROVE  o.set \subseteq Policies
<1>1. o \in PolicyOps
  BY DEF Ops, RowOps, LinkOps, KeycloakOps, UserOps, ApplyOps, PolicyOps, RowDos, LinkDos, KeycloakDos, UserDos
<1> QED
  BY <1>1 DEF PolicyOps

\* The targets of policies that are enabled.
LEMMA PolicyTargets ==
    ASSUME SyncType, NEW P, \A p \in P : p \in Policies /\ Enabled(p)
    PROVE  {policy[p].target : p \in P} \in SUBSET Targets
<1> SUFFICES ASSUME NEW p \in P PROVE policy[p].target \in Targets
  OBVIOUS
<1>1. p \in Policies /\ policy[p] # None
  BY DEF Enabled
<1>2. policy[p] \in PolicyRows
  BY <1>1 DEF SyncType
<1> QED
  BY <1>2 DEF PolicyRows

\* A step of the policies leaves a list of their instructions.
PolicyGoesOn(t, o) ==
    /\ o.do \in PolicyDos
    /\ UNCHANGED <<policy, ingroup>>
    /\ \E p \in Seq(Ops) : PolicyList(p) /\ Continue(t, p)

LEMMA PolicyPops ==
    ASSUME NEW t, NEW o, o.do \in PolicyDos, UNCHANGED <<policy, ingroup>>, Continue(t, <<>>)
    PROVE  PolicyGoesOn(t, o)
BY PolicyNone, EmptyList DEF PolicyGoesOn

LEMMA PolicyLeaves ==
    ASSUME NEW t, NEW o, o.do \in PolicyDos, UNCHANGED <<policy, ingroup>>,
           NEW a \in Ops, a.do \in PolicyDos, Continue(t, <<a>>)
    PROVE  PolicyGoesOn(t, o)
<1>1. <<a>> \in Seq(Ops)
  OBVIOUS
<1> QED
  BY <1>1, PolicyOne DEF PolicyGoesOn

LEMMA PolicyLeavesTwo ==
    ASSUME NEW t, NEW o, o.do \in PolicyDos, UNCHANGED <<policy, ingroup>>,
           NEW a \in Ops, a.do \in PolicyDos, NEW b \in Ops, b.do \in PolicyDos, Continue(t, <<a, b>>)
    PROVE  PolicyGoesOn(t, o)
<1>1. <<a, b>> \in Seq(Ops)
  OBVIOUS
<1> QED
  BY <1>1, PolicyTwo DEF PolicyGoesOn

LEMMA PolicyReads ==
    ASSUME SyncType, NEW t \in Workers, NEW o \in Ops,
           apply_auto_membership_for_team_join(t, o) \/ apply_auto_membership_for_new_user(t, o)
    PROVE  PolicyGoesOn(t, o)
<1>1. o.do \in {"policies", "new_user"} /\ UNCHANGED <<policy, ingroup>>
  BY DEF apply_auto_membership_for_team_join, apply_auto_membership_for_new_user
<1>2. o.do \in UserDos /\ o.do \in PolicyDos
  BY <1>1 DEF UserDos, PolicyDos
<1>3. o.x \in Subjects
  BY <1>2, UserOpType
<1>4. PICK P \in SUBSET get_applicable_policies(o.x) :
         Continue(t, <<Op("apply", o.x, None, {policy[p].target : p \in P})>>)
  BY DEF apply_auto_membership_for_team_join, apply_auto_membership_for_new_user
<1>5. PICK S : S = {policy[p].target : p \in P}
  OBVIOUS
<1>6. S \in SUBSET Targets
  BY <1>4, <1>5, PolicyTargets DEF get_applicable_policies
<1>7. PICK a : a = Op("apply", o.x, None, S)
  OBVIOUS
<1>8. a \in Ops /\ a.do \in PolicyDos
  BY <1>3, <1>6, <1>7, ApplyOpMade
<1>9. Continue(t, <<a>>)
  BY <1>4, <1>5, <1>7
<1> QED
  BY <1>1, <1>2, <1>8, <1>9, PolicyLeaves

\* The instruction that is left when one of its list is done.
LEMMA OpLess ==
    ASSUME NEW o \in Ops, NEW v
    PROVE  \E a \in Ops : /\ a = [o EXCEPT !.set = @ \ {v}] /\ a.do = o.do /\ a.x = o.x
                          /\ a.set \subseteq o.set
<1>1. PICK S : S = o.set \ {v}
  OBVIOUS
<1>2. S \subseteq o.set
  BY <1>1
<1>3. PICK a : a = [o EXCEPT !.set = S]
  OBVIOUS
<1>4. a \in Ops /\ a.do = o.do /\ a.x = o.x /\ a.set = S
  BY <1>2, <1>3, OpShrinks, Zenon
<1>5. a = [o EXCEPT !.set = @ \ {v}]
  BY <1>1, <1>3
<1> QED
  BY <1>2, <1>4, <1>5

LEMMA PolicyApplies ==
    ASSUME SyncType, NEW t \in Workers, NEW o \in Ops, ApplyTarget(t, o) \/ DirectMember(t, o)
    PROVE  PolicyGoesOn(t, o)
<1>1. o.do \in PolicyDos /\ UNCHANGED <<policy, ingroup>>
  BY DEF ApplyTarget, DirectMember, PolicyDos, UserDos, Others
<1>2. CASE o.set = {}
  <2>1. Continue(t, <<>>)
    BY <1>2 DEF ApplyTarget, DirectMember
  <2> QED
    BY <1>1, <2>1, PolicyPops
<1>3. CASE o.set # {}
  <2>1. PICK v \in o.set : Continue(t, <<[o EXCEPT !.set = @ \ {v}]>>)
    BY <1>3 DEF ApplyTarget, DirectMember
  <2>2. PICK a \in Ops : a = [o EXCEPT !.set = @ \ {v}] /\ a.do = o.do
    BY OpLess
  <2>3. Continue(t, <<a>>) /\ a.do \in PolicyDos
    BY <1>1, <2>1, <2>2
  <2> QED
    BY <1>1, <2>3, PolicyLeaves
<1> QED
  BY <1>2, <1>3

LEMMA PolicyPlain ==
    ASSUME SyncType, NEW t \in Workers, NEW o \in Ops,
           \/ apply_default_channel_membership_for_team_join(t, o) \/ InsertMember(t, o) \/ LeaveTeam(t, o)
           \/ ensure_default_channels_for_team(t, o)
    PROVE  PolicyGoesOn(t, o)
<1>1. o.do \in PolicyDos /\ UNCHANGED <<policy, ingroup>>
  BY DEF apply_default_channel_membership_for_team_join, InsertMember, LeaveTeam, ensure_default_channels_for_team,
         PolicyDos, UserDos, Others
<1>2. CASE Continue(t, <<>>)
  BY <1>1, <1>2, PolicyPops
<1>3. CASE Continue(t, <<o>>)
  BY <1>1, <1>3, PolicyLeaves
<1> QED
  BY <1>2, <1>3 DEF apply_default_channel_membership_for_team_join, InsertMember, LeaveTeam,
                    ensure_default_channels_for_team

LEMMA PolicyFull ==
    ASSUME SyncType, NEW t \in Workers, NEW o \in Ops, full_reconciliation(t, o)
    PROVE  PolicyGoesOn(t, o)
<1>1. o.do \in PolicyDos /\ UNCHANGED <<policy, ingroup>>
  BY DEF full_reconciliation, PolicyDos, UserDos
<1>2. PICK S : S = {p \in Policies : Enabled(p)}
  OBVIOUS
<1>3. PICK a : a = Op("each_policy", None, None, S)
  OBVIOUS
<1>4. a \in Ops /\ a.do \in PolicyDos
  BY <1>2, <1>3, PolicyOpMade
<1>5. Continue(t, <<a>>)
  BY <1>2, <1>3 DEF full_reconciliation
<1> QED
  BY <1>1, <1>4, <1>5, PolicyLeaves

LEMMA PolicyEach ==
    ASSUME SyncType, NEW t \in Workers, NEW o \in Ops, apply_policy(t, o)
    PROVE  PolicyGoesOn(t, o)
<1>1. o.do = "each_policy" /\ UNCHANGED <<policy, ingroup>>
  BY DEF apply_policy
<1>2. o.do \in PolicyDos /\ o.set \subseteq Policies
  BY <1>1, PolicyOpType DEF PolicyDos
<1>3. CASE o.set = {}
  <2>1. Continue(t, <<>>)
    BY <1>3 DEF apply_policy
  <2> QED
    BY <1>1, <1>2, <2>1, PolicyPops
<1>4. CASE o.set # {}
  <2>1. PICK p \in o.set, U \in SUBSET known :
           Continue(t, <<Op("each_user", p, None, U), [o EXCEPT !.set = @ \ {p}]>>)
    BY <1>4 DEF apply_policy
  <2>2. U \in SUBSET Users /\ p \in Subjects
    BY <1>2, <2>1 DEF SyncType, Subjects
  <2>3. PICK a : a = Op("each_user", p, None, U)
    OBVIOUS
  <2>4. a \in Ops /\ a.do \in PolicyDos
    BY <2>2, <2>3, UserOpMade DEF UserDos
  <2>5. PICK b \in Ops : b = [o EXCEPT !.set = @ \ {p}] /\ b.do = o.do
    BY OpLess
  <2>6. Continue(t, <<a, b>>) /\ b.do \in PolicyDos
    BY <1>2, <2>1, <2>3, <2>5
  <2> QED
    BY <1>1, <1>2, <2>4, <2>6, PolicyLeavesTwo
<1> QED
  BY <1>3, <1>4

LEMMA PolicyUser ==
    ASSUME SyncType, NEW t \in Workers, NEW o \in Ops, ApplyToUser(t, o)
    PROVE  PolicyGoesOn(t, o)
<1>1. o.do = "each_user" /\ UNCHANGED <<policy, ingroup>>
  BY DEF ApplyToUser
<1>2. o.do \in PolicyDos /\ o.do \in UserDos
  BY <1>1 DEF PolicyDos, UserDos
<1>3. o.set \subseteq Users
  BY <1>2, UserOpType
<1>4. CASE o.set = {}
  <2>1. Continue(t, <<>>)
    BY <1>4 DEF ApplyToUser
  <2> QED
    BY <1>1, <1>2, <2>1, PolicyPops
<1>5. CASE o.set # {}
  <2>1. PICK u \in o.set :
           Continue(t, (IF IsMember(Team, u) THEN <<Op("policies", u, None, {})>> ELSE <<>>)
                       \o <<[o EXCEPT !.set = @ \ {u}]>>)
    BY <1>5 DEF ApplyToUser
  <2>2. PICK b \in Ops : b = [o EXCEPT !.set = @ \ {u}] /\ b.do = o.do
    BY OpLess
  <2>3. PolicyList(<<b>>)
    BY <1>2, <2>2, PolicyOne
  <2>4. PICK a : a = Op("policies", u, None, {})
    OBVIOUS
  <2>5. a \in Ops /\ a.do \in PolicyDos
    BY <1>3, <2>4, UserOpMade DEF UserDos, Subjects
  <2>6. PolicyList(<<a>>)
    BY <2>5, PolicyOne
  <2>7. PICK q : q = IF IsMember(Team, u) THEN <<a>> ELSE <<>>
    OBVIOUS
  <2>8. PolicyList(q)
    BY <2>6, <2>7, PolicyNone
  <2>9. PolicyList(q \o <<b>>)
    BY <2>3, <2>8, PolicyConcat
  <2>10. Continue(t, q \o <<b>>)
    BY <2>1, <2>2, <2>4, <2>7
  <2> QED
    BY <1>1, <1>2, <2>9, <2>10 DEF PolicyGoesOn, PolicyList
<1> QED
  BY <1>4, <1>5

LEMMA KeepPolicy ==
    ASSUME SyncType, NEW t \in Workers, task[t] # <<>>, PolicyStep(t, Head(task[t])), UNCHANGED GroupVars
    PROVE  Keeps(t) /\ UNCHANGED policy
<1> PICK o : o = Head(task[t])
  OBVIOUS
<1>1. task[t] \in Seq(Ops) /\ o \in Ops
  BY HeadType
<1>2. PolicyGoesOn(t, o)
  BY <1>1, PolicyReads, PolicyApplies, PolicyPlain, PolicyFull, PolicyEach, PolicyUser DEF PolicyStep
<1>3. PICK p \in Seq(Ops) : PolicyList(p) /\ Continue(t, p)
  BY <1>2 DEF PolicyGoesOn
<1>4. o.do \in PolicyDos /\ UNCHANGED <<policy, ingroup, grp, link, tracked>>
  BY <1>2 DEF PolicyGoesOn, GroupVars
<1>5. GoodTask(t) => Good(p \o Tail(task[t]), link, ingroup, tracked)
  BY <1>1, <1>3, <1>4, StepPolicy DEF GoodTask, PolicyList
<1> QED
  BY <1>3, <1>4, <1>5, ReadStep

-----------------------------------------------------------------------------
(* One step of a task. *)

LEMMA KeepTask ==
    ASSUME SyncType, NEW t \in Workers, TaskStep(t)
    PROVE  task[t] # <<>> /\ Keeps(t) /\ UNCHANGED <<policy, kc>>
<1> PICK o : o = Head(task[t])
  OBVIOUS
<1>1. task[t] # <<>>
  BY DEF TaskStep, Busy
<1>2. UNCHANGED kc
  BY DEF TaskStep
<1>3. CASE PolicyStep(t, o) /\ UNCHANGED GroupVars
  BY <1>1, <1>2, <1>3, KeepPolicy
<1>4. CASE LinkStep(t, o)
  <2>1. UNCHANGED policy
    BY <1>4 DEF LinkStep, reconcile_group_syncable, ReadGroupMembers, ReadTracked, ensure_membership, TargetIsGone,
                TrackMembership, Untrack, cleanup_tracking_membership, Expel, cleanup_unlinked_syncable,
                reconcile_group_syncables, NextLink, Memberships
  <2>2. Keeps(t)
    BY <1>1, <1>4, KeepReconcile, KeepMembers, KeepTracked, KeepEnsure, KeepGone, KeepTrack, KeepUntrack, KeepKept,
       KeepExpel, KeepUnlinked, KeepEach, KeepLinks, Zenon DEF LinkStep
  <2> QED
    BY <1>1, <1>2, <2>1, <2>2
<1>5. CASE KeycloakStep(t, o)
  <2>1. UNCHANGED policy
    BY <1>5 DEF KeycloakStep, run_full_sync, resync_user, upsert_group, Memberships
  <2>2. Keeps(t)
    BY <1>1, <1>5, KeepFetch, KeepUpsert, Zenon DEF KeycloakStep
  <2> QED
    BY <1>1, <1>2, <2>1, <2>2
<1> QED
  BY <1>3, <1>4, <1>5 DEF TaskStep

\* The task that runs is the one whose list is good.
LEMMA InvTask ==
    ASSUME SyncInv, NEW t \in Workers, TaskStep(t)
    PROVE  SyncInv'
<1>1. SyncType /\ Absent
  BY DEF SyncInv, Absent
<1>2. task[t] # <<>> /\ Keeps(t) /\ UNCHANGED <<policy, kc>>
  BY <1>1, KeepTask
<1>3. task \in [Workers -> Seq(Ops)] /\ task' = [task EXCEPT ![t] = task'[t]] /\ task'[t] \in Seq(Ops)
  BY <1>1, <1>2 DEF SyncType, Keeps
<1>4. SyncType'
  <2>1. task' \in [Workers -> Seq(Ops)]
    BY <1>3
  <2> QED
    BY <1>1, <1>2, <2>1 DEF SyncType, Keeps, GroupStates
<1>5. Absent'
  BY <1>1, <1>2 DEF Keeps
<1>6. ASSUME trouble' = 0 PROVE OneGood(task', link', ingroup', tracked')
  <2>1. trouble = 0
    BY <1>2, <1>6 DEF Keeps
  <2>2. PICK w \in Workers : (\A v \in Workers \ {w} : task[v] = <<>>) /\ Good(task[w], link, ingroup, tracked)
    BY <2>1 DEF SyncInv, OneGood
  <2>3. w = t
    BY <1>2, <2>2
  <2>4. GoodTask(t)
    BY <2>2, <2>3 DEF GoodTask
  <2>5. Good(task'[t], link', ingroup', tracked')
    BY <1>2, <1>6, <2>4 DEF Keeps, GoodTask
  <2>6. \A v \in Workers \ {t} : task'[v] = <<>>
    BY <1>3, <2>2, <2>3
  <2> QED
    BY <2>5, <2>6 DEF OneGood
<1> QED
  BY <1>4, <1>5, <1>6 DEF SyncInv, Absent

-----------------------------------------------------------------------------
(* Requests and timers. *)

PolicyTables == [Policies -> PolicyRows \cup {None}]

\* A task that begins with no trouble begins alone, and finds every row wanted.
LEMMA BeginQuiet ==
    ASSUME SyncInv, NEW t \in Workers, NEW n, NEW todo, Begin(t, n, todo), trouble' = 0
    PROVE  (\A v \in Workers \ {t} : task[v] = <<>>) /\ \A m \in tracked : Wanted(m, link, ingroup)
<1>1. trouble \in Nat
  BY DEF SyncInv, SyncType
<1>2. \A v \in Workers \ {t} : task[v] = <<>>
  BY <1>1 DEF Begin, Busy
<1>3. task[t] = <<>>
  BY DEF Begin, Busy
<1>4. trouble = 0
  BY <1>1 DEF Begin
<1>5. PICK w \in Workers : Good(task[w], link, ingroup, tracked)
  BY <1>4 DEF SyncInv, OneGood
<1>6. task[w] = <<>>
  BY <1>2, <1>3
<1> QED
  BY <1>2, <1>5, <1>6, GoodNone

\* What a request has to show.
LEMMA Begins ==
    ASSUME SyncInv, NEW t \in Workers, NEW n, NEW todo \in Seq(Ops), Begin(t, n, todo),
           known' \in SUBSET Users, policy' \in PolicyTables, link' \in LinkTables, ingroup' \in GroupTables,
           grp' \in GroupStates, UNCHANGED <<tracked, kc>>, Absent',
           (\A m \in tracked : Wanted(m, link, ingroup)) => Good(todo, link', ingroup', tracked)
    PROVE  SyncInv'
<1>1. task \in [Workers -> Seq(Ops)] /\ trouble \in Nat /\ task' = [task EXCEPT ![t] = todo]
  BY DEF SyncInv, SyncType, Begin
<1>2. task' \in [Workers -> Seq(Ops)] /\ trouble' \in Nat
  BY <1>1 DEF Begin
<1>3. SyncType'
  BY <1>2 DEF SyncInv, SyncType, GroupStates, PolicyTables
<1>4. ASSUME trouble' = 0 PROVE OneGood(task', link', ingroup', tracked')
  <2>1. (\A v \in Workers \ {t} : task[v] = <<>>) /\ \A m \in tracked : Wanted(m, link, ingroup)
    BY <1>4, BeginQuiet
  <2>2. task'[t] = todo /\ \A v \in Workers \ {t} : task'[v] = <<>>
    BY <1>1, <2>1
  <2>3. Good(task'[t], link', ingroup', tracked')
    BY <2>1, <2>2
  <2> QED
    BY <2>2, <2>3 DEF OneGood
<1> QED
  BY <1>3, <1>4 DEF SyncInv, Absent

\* What a request of one statement has to show.
LEMMA States ==
    ASSUME SyncInv, UNCHANGED <<task, trouble, ingroup, link, tracked>>, known' \in SUBSET Users,
           policy' \in PolicyTables, grp' \in GroupStates,
           kc' \in BOOLEAN,
           grp'[Custom] = "absent" => grp[Custom] = "absent"
    PROVE  SyncInv'
<1>1. SyncType'
  BY DEF SyncInv, SyncType, PolicyTables, GroupStates
<1>2. trouble' = 0 => OneGood(task', link', ingroup', tracked')
  BY DEF SyncInv
<1>3. grp'[Custom] = "absent" => ingroup'[Custom] = {}
  BY DEF SyncInv
<1> QED
  BY <1>1, <1>2, <1>3 DEF SyncInv

\* A list of the policies can begin whenever every row is wanted.
LEMMA PolicyGood ==
    ASSUME NEW p, PolicyList(p), NEW L, NEW G, NEW T, \A m \in T : Wanted(m, L, G)
    PROVE  Good(p, L, G, T)
<1>1. Stable(p)
  BY DEF PolicyList, PolicyDos, UserDos, Stable, Transient
<1>2. ListOK(p, L, G)
  BY <1>1, StableList DEF PolicyList
<1> QED
  BY <1>1, <1>2, FreshList

\* Requests on teams, channels and policies: they leave the groups alone.
Apart(t) ==
    /\ known' \in SUBSET Users /\ policy' \in PolicyTables /\ UNCHANGED ingroup
    /\ \/ UNCHANGED <<task, trouble>>
       \/ \E todo : PolicyList(todo) /\ Begin(t, 1, todo)

LEMMA InvApart ==
    ASSUME SyncInv, NEW t \in Workers, Apart(t), UNCHANGED <<GroupVars, kc>>
    PROVE  SyncInv'
<1>1. UNCHANGED <<grp, link, tracked>> /\ grp \in GroupStates /\ link \in LinkTables /\ ingroup \in GroupTables
      /\ kc \in BOOLEAN
  BY DEF GroupVars, SyncInv, SyncType, GroupStates
<1>2. CASE UNCHANGED <<task, trouble>>
  BY <1>1, <1>2, States DEF Apart
<1>3. CASE \E todo : PolicyList(todo) /\ Begin(t, 1, todo)
  <2>1. PICK todo : PolicyList(todo) /\ Begin(t, 1, todo)
    BY <1>3
  <2>2. todo \in Seq(Ops)
    BY <2>1 DEF PolicyList
  <2>3. UNCHANGED ingroup
    BY DEF Apart
  <2>4. (\A m \in tracked : Wanted(m, link, ingroup)) => Good(todo, link', ingroup', tracked)
    BY <1>1, <2>1, <2>3, PolicyGood
  <2>5. Absent'
    BY <1>1, <2>3 DEF SyncInv, Absent
  <2> QED
    BY <1>1, <2>1, <2>2, <2>3, <2>4, <2>5, Begins DEF Apart
<1> QED
  BY <1>2, <1>3 DEF Apart

\* A request of one statement that leaves the policies alone, and one that begins a list.
LEMMA ApartStatement ==
    ASSUME SyncType, NEW t, NEW a, Statement(a), UNCHANGED ingroup, policy' \in PolicyTables
    PROVE  Apart(t)
BY DEF Apart, Statement, SyncType

LEMMA ApartRequest ==
    ASSUME SyncType, NEW t, NEW a, NEW todo, PolicyList(todo), Request(t, a, todo), UNCHANGED <<policy, ingroup>>
    PROVE  Apart(t)
BY DEF Apart, Request, SyncType, PolicyTables

LEMMA UserList ==
    ASSUME NEW d \in UserDos, NEW x \in Users, NEW s \in Targets \cup {None}, NEW S \in SUBSET Users
    PROVE  PolicyList(<<Op(d, x, s, S)>>)
<1>1. x \in Subjects
  BY DEF Subjects
<1>2. PICK a : a = Op(d, x, s, S)
  OBVIOUS
<1>3. a \in Ops /\ a.do \in PolicyDos
  BY <1>1, <1>2, UserOpMade
<1> QED
  BY <1>2, <1>3, PolicyOne

LEMMA DefaultsList ==
    ASSUME NEW u \in Users
    PROVE  PolicyList(JoinDefaults(u))
<1>1. u \in Subjects
  BY DEF Subjects
<1>2. PICK a : a = Op("defaults", u, None, {})
  OBVIOUS
<1>3. PICK b : b = Op("policies", u, None, {})
  OBVIOUS
<1>4. a \in Ops /\ a.do \in PolicyDos /\ b \in Ops /\ b.do \in PolicyDos
  BY <1>1, <1>2, <1>3, UserOpMade DEF UserDos
<1> QED
  BY <1>2, <1>3, <1>4, PolicyTwo DEF JoinDefaults

LEMMA CreateList ==
    ASSUME NEW a \in Users
    PROVE  PolicyList(<<Op("insert", a, Team, {}), Op("channels", a, None, {})>> \o JoinDefaults(a))
<1>1. a \in Subjects /\ Team \in Targets \cup {None}
  BY DEF Subjects, Targets
<1>2. PICK v : v = Op("insert", a, Team, {})
  OBVIOUS
<1>3. PICK w : w = Op("channels", a, None, {})
  OBVIOUS
<1>4. v \in Ops /\ v.do \in PolicyDos /\ w \in Ops /\ w.do \in PolicyDos
  BY <1>1, <1>2, <1>3, UserOpMade DEF UserDos
<1>5. PolicyList(<<v, w>>)
  BY <1>4, PolicyTwo
<1> QED
  BY <1>2, <1>3, <1>5, DefaultsList, PolicyConcat

\* The team: requests that begin a task.
LEMMA JoinsApart ==
    ASSUME SyncType, NEW t, NEW a, NEW u \in Users, NEW r, JoinTeam(t, a, u, r)
    PROVE  Apart(t)
<1>1. Request(t, a, JoinDefaults(u)) /\ UNCHANGED <<policy, ingroup>>
  BY DEF JoinTeam, Others
<1> QED
  BY <1>1, DefaultsList, ApartRequest

LEMMA RegisterApart ==
    ASSUME SyncType, NEW t, NEW u \in Users, register(t, u)
    PROVE  Apart(t)
<1>1. Begin(t, 1, <<Op("new_user", u, None, {})>>) /\ UNCHANGED <<policy, ingroup>> /\ known' = known \cup {u}
  BY DEF register, Others
<1>2. PolicyList(<<Op("new_user", u, None, {})>>)
  BY UserList DEF UserDos
<1>3. known' \in SUBSET Users
  BY <1>1 DEF SyncType
<1>4. policy' \in PolicyTables
  BY <1>1 DEF SyncType, PolicyTables
<1> QED
  BY <1>1, <1>2, <1>3, <1>4 DEF Apart

LEMMA TeamApart ==
    ASSUME SyncType, NEW t, NEW a \in Users, TeamRequest(t, a)
    PROVE  Apart(t)
<1>1. CASE register(t, a)
  BY <1>1, RegisterApart
<1>2. CASE create_team(t, a)
  <2>1. Request(t, a, <<Op("insert", a, Team, {}), Op("channels", a, None, {})>> \o JoinDefaults(a))
        /\ UNCHANGED <<policy, ingroup>>
    BY <1>2 DEF create_team, Others
  <2> QED
    BY <2>1, CreateList, ApartRequest
<1>3. CASE delete_team(a)
  <2>1. Statement(a) /\ UNCHANGED ingroup
    BY <1>3 DEF delete_team
  <2>2. policy' \in PolicyTables
    BY <1>3 DEF delete_team, SyncType, PolicyTables
  <2> QED
    BY <2>1, <2>2, ApartStatement
<1>4. CASE join_team(t, a)
  BY <1>4, JoinsApart DEF join_team
<1>5. CASE leave_team(t, a)
  <2>1. Request(t, a, <<Op("leave", a, None, {})>>) /\ UNCHANGED <<policy, ingroup>>
    BY <1>5 DEF leave_team, Others
  <2>2. PolicyList(<<Op("leave", a, None, {})>>)
    BY UserList DEF UserDos
  <2> QED
    BY <2>1, <2>2, ApartRequest
<1>6. CASE \E o \in {"open", "closed"} : update_team(a, o)
  <2>1. Statement(a) /\ UNCHANGED <<policy, ingroup>>
    BY <1>6 DEF update_team, Others
  <2>2. policy' \in PolicyTables
    BY <2>1 DEF SyncType, PolicyTables
  <2> QED
    BY <2>1, <2>2, ApartStatement
<1>7. CASE \E token \in BOOLEAN : add_team_member_by_invite(t, a, token)
  BY <1>7, JoinsApart DEF add_team_member_by_invite
<1>8. CASE \E u \in known :
              \/ add_member(t, a, u) \/ add_team_member(t, a, u) \/ add_team_members_batch(t, a, u)
              \/ remove_member(a, u) \/ remove_team_member(a, u) \/ trigger_user_resync(t, a, u)
              \/ admin_remove_team_member(a, u)
              \/ \E r \in {"member", "admin"} :
                    \/ admin_add_team_member(t, a, u, r)
                    \/ update_team_member_roles(a, u, r) \/ update_team_member_scheme_roles(a, u, r)
  <2>1. PICK u \in known :
              \/ add_member(t, a, u) \/ add_team_member(t, a, u) \/ add_team_members_batch(t, a, u)
              \/ remove_member(a, u) \/ remove_team_member(a, u) \/ trigger_user_resync(t, a, u)
              \/ admin_remove_team_member(a, u)
              \/ \E r \in {"member", "admin"} :
                    \/ admin_add_team_member(t, a, u, r)
                    \/ update_team_member_roles(a, u, r) \/ update_team_member_scheme_roles(a, u, r)
    BY <1>8
  <2>2. u \in Users
    BY DEF SyncType
  <2>3. CASE add_member(t, a, u) \/ add_team_member(t, a, u) \/ add_team_members_batch(t, a, u)
    <3>1. JoinTeam(t, a, u, "member")
      BY <2>3 DEF add_member, add_team_member, add_team_members_batch
    <3> QED
      BY <2>2, <3>1, JoinsApart
  <2>4. CASE trigger_user_resync(t, a, u)
    <3>1. Request(t, a, <<Op("policies", u, None, {})>>) /\ UNCHANGED <<policy, ingroup>>
      BY <2>4 DEF trigger_user_resync
    <3>2. PolicyList(<<Op("policies", u, None, {})>>)
      BY <2>2, UserList DEF UserDos
    <3> QED
      BY <3>1, <3>2, ApartRequest
  <2>5. CASE \E r \in {"member", "admin"} : admin_add_team_member(t, a, u, r)
    <3>1. Request(t, a, <<Op("defaults", u, None, {})>>) /\ UNCHANGED <<policy, ingroup>>
      BY <2>5 DEF admin_add_team_member, Others
    <3>2. PolicyList(<<Op("defaults", u, None, {})>>)
      BY <2>2, UserList DEF UserDos
    <3> QED
      BY <3>1, <3>2, ApartRequest
  <2>6. CASE \/ remove_member(a, u) \/ remove_team_member(a, u) \/ admin_remove_team_member(a, u)
             \/ \E r \in {"member", "admin"} :
                   update_team_member_roles(a, u, r) \/ update_team_member_scheme_roles(a, u, r)
    <3>1. Statement(a) /\ UNCHANGED <<policy, ingroup>>
      BY <2>6 DEF remove_member, remove_team_member, admin_remove_team_member, update_team_member_roles,
                  update_team_member_scheme_roles, ChangeRole, Others
    <3>2. policy' \in PolicyTables
      BY <3>1 DEF SyncType, PolicyTables
    <3> QED
      BY <3>1, <3>2, ApartStatement
  <2> QED
    BY <2>1, <2>3, <2>4, <2>5, <2>6
<1> QED
  BY <1>1, <1>2, <1>3, <1>4, <1>5, <1>6, <1>7, <1>8 DEF TeamRequest

LEMMA ChannelApart ==
    ASSUME SyncType, NEW t, NEW a \in Users, ChannelRequest(t, a)
    PROVE  Apart(t)
<1>1. CASE create_direct_channel_internal(t, a) \/ create_direct_channel_v1(t, a)
  <2>1. Request(t, a, <<Op("dm", a, None, Users)>>) /\ UNCHANGED <<policy, ingroup>>
    BY <1>1 DEF create_direct_channel_internal, create_direct_channel_v1, Others
  <2>2. PolicyList(<<Op("dm", a, None, Users)>>)
    BY UserList DEF UserDos
  <2> QED
    BY <2>1, <2>2, ApartRequest
<1>2. CASE \E c \in Channels, type \in {"public", "private"} : NewChannel(t, a, c, type)
  <2>1. PICK c \in Channels : Request(t, a, <<Op("insert", a, c, {})>>) /\ UNCHANGED <<policy, ingroup>>
    BY <1>2 DEF NewChannel, Others
  <2>2. c \in Targets \cup {None}
    BY DEF Targets
  <2>3. PolicyList(<<Op("insert", a, c, {})>>)
    BY <2>2, UserList DEF UserDos
  <2> QED
    BY <2>1, <2>3, ApartRequest
<1>3. CASE Statement(a) /\ UNCHANGED <<policy, ingroup>>
  <2>1. policy' \in PolicyTables
    BY <1>3 DEF SyncType, PolicyTables
  <2> QED
    BY <1>3, <2>1, ApartStatement
<1>4. ASSUME NEW c \in Channels,
             delete_channel(a, c) \/ v4_delete_channel(a, c) \/ restore_channel(a, c) \/ delete_admin_channel(a, c)
      PROVE  Statement(a) /\ UNCHANGED <<policy, ingroup>>
  BY <1>4 DEF delete_channel, v4_delete_channel, restore_channel, delete_admin_channel, SetChannel, Others
<1>5. ASSUME NEW c \in Channels, NEW type,
             create_admin_channel(a, c, type) \/ update_channel_privacy(a, c, type)
      PROVE  Statement(a) /\ UNCHANGED <<policy, ingroup>>
  BY <1>5 DEF create_admin_channel, update_channel_privacy, SetChannel, Others
<1>6. ASSUME NEW c \in Channels, NEW u, NEW r,
             \/ add_channel_member(a, c, u) \/ channel_remove_member(a, c, u) \/ remove_channel_member(a, c, u)
             \/ channel_add_member(a, c, u, r)
             \/ update_channel_member_roles(a, c, u, r) \/ update_channel_member_scheme_roles(a, c, u, r)
      PROVE  Statement(a) /\ UNCHANGED <<policy, ingroup>>
  BY <1>6 DEF add_channel_member, channel_remove_member, remove_channel_member, channel_add_member,
              update_channel_member_roles, update_channel_member_scheme_roles, AddToChannel, TakeFromChannel,
              ChangeRole, Others
<1>7. \/ create_direct_channel_internal(t, a) \/ create_direct_channel_v1(t, a)
      \/ \E c \in Channels, type \in {"public", "private"} : NewChannel(t, a, c, type)
      \/ Statement(a) /\ UNCHANGED <<policy, ingroup>>
  BY <1>4, <1>5, <1>6 DEF ChannelRequest, create_channel, v4_create_channel
<1> QED
  BY <1>1, <1>2, <1>3, <1>7

LEMMA PolicyApart ==
    ASSUME SyncType, NEW t, NEW a, PolicyRequest(a)
    PROVE  Apart(t)
<1>1. ASSUME NEW p \in Policies, NEW row \in PolicyRows \cup {None}, SetPolicy(a, p, row)
      PROVE  Apart(t)
  <2>1. Statement(a) /\ UNCHANGED ingroup /\ policy' = [policy EXCEPT ![p] = row]
    BY <1>1 DEF SetPolicy
  <2>2. policy' \in PolicyTables
    BY <2>1 DEF SyncType, PolicyTables
  <2> QED
    BY <2>1, <2>2, ApartStatement
<1>2. PICK p \in Policies :
         \/ delete_policy(a, p)
         \/ \E x \in Targets, enabled \in BOOLEAN : update_policy(a, p, enabled, x)
         \/ \E x \in Targets, source \in {"all", "managers"} \cup Groups, scope \in {"team", "global"} :
               create_policy(a, p, source, scope, x)
  BY DEF PolicyRequest
<1>3. CASE delete_policy(a, p)
  BY <1>1, <1>3 DEF delete_policy
<1>4. CASE \E x \in Targets, enabled \in BOOLEAN : update_policy(a, p, enabled, x)
  <2>1. PICK x \in Targets, enabled \in BOOLEAN : update_policy(a, p, enabled, x)
    BY <1>4
  <2>2. policy[p] \in PolicyRows
    BY <2>1 DEF update_policy, SyncType
  <2>3. PICK row : row = [policy[p] EXCEPT !.enabled = enabled, !.target = x]
    OBVIOUS
  <2>4. row \in PolicyRows
    BY <2>2, <2>3 DEF PolicyRows
  <2>5. SetPolicy(a, p, row)
    BY <2>1, <2>3 DEF update_policy
  <2> QED
    BY <1>1, <2>4, <2>5
<1>5. CASE \E x \in Targets, source \in {"all", "managers"} \cup Groups, scope \in {"team", "global"} :
              create_policy(a, p, source, scope, x)
  <2>1. PICK x \in Targets, source \in {"all", "managers"} \cup Groups, scope \in {"team", "global"} :
           create_policy(a, p, source, scope, x)
    BY <1>5
  <2>2. PICK row : row = [enabled |-> TRUE, source |-> source, scope |-> scope, target |-> x]
    OBVIOUS
  <2>3. row \in PolicyRows
    BY <2>2 DEF PolicyRows
  <2>4. SetPolicy(a, p, row)
    BY <2>1, <2>2 DEF create_policy
  <2> QED
    BY <1>1, <2>3, <2>4
<1> QED
  BY <1>2, <1>3, <1>4, <1>5

-----------------------------------------------------------------------------
(* Requests on groups and links, and Keycloak. *)

\* A list of one stable instruction.
LEMMA OneList ==
    ASSUME NEW a \in Ops, a.do \notin Transient, NEW L, NEW G
    PROVE  <<a>> \in Seq(Ops) /\ OpsOf(<<a>>) = {a} /\ ListOK(<<a>>, L, G)
<1>1. <<a>> \in Seq(Ops) /\ OpsOf(<<a>>) = {a} /\ Head(<<a>>) = a
  BY DEF OpsOf
<1>2. Stable(<<a>>)
  BY <1>1 DEF Stable
<1>3. ListOK(<<a>>, L, G)
  BY <1>1, <1>2, StableList
<1> QED
  BY <1>1, <1>3

\* Only one row of group_syncables, or the members of one group, differ.
SameLinkBut(x, s, L, M) == \A g \in Groups, y \in Targets : (g # x \/ y # s) => M[g][y] = L[g][y]
SameBut(x, G, H) == \A g \in Groups \ {x} : H[g] = G[g]

\* The link of one row has changed, and the list reconciles it or clears what it tracked.
LEMMA LinkGood ==
    ASSUME NEW g \in Groups, NEW s \in Targets, NEW L, NEW M, SameLinkBut(g, s, L, M), NEW G, NEW T \in SUBSET Tracks,
           \A m \in T : Wanted(m, L, G), NEW a \in Ops, a.x = g, a.s = s,
           (a.do = "reconcile" /\ M[g][s] # None) \/ a.do = "unlinked"
    PROVE  Good(<<a>>, M, G, T)
<1>1. a.do \notin Transient
  BY DEF Transient
<1>2. OpsOf(<<a>>) = {a} /\ ListOK(<<a>>, M, G)
  BY <1>1, OneList
<1>3. ASSUME NEW m \in T PROVE Wanted(m, M, G) \/ OpMends(a, m, M)
  <2>1. m.g \in Groups /\ m.s \in Targets
    BY DEF Tracks
  <2>2. CASE m.g # g \/ m.s # s
    <3>1. M[m.g][m.s] = L[m.g][m.s]
      BY <2>1, <2>2 DEF SameLinkBut
    <3> QED
      BY <3>1 DEF Wanted
  <2>3. CASE m.g = g /\ m.s = s
    BY <2>3 DEF OpMends, Clears, Visits
  <2> QED
    BY <2>2, <2>3
<1> QED
  BY <1>2, <1>3 DEF Good

\* The members of one group have changed, and the list visits its links.
LEMMA MembersGood ==
    ASSUME NEW g \in Groups, NEW L, NEW G, NEW H, SameBut(g, G, H), NEW T \in SUBSET Tracks,
           \A m \in T : Wanted(m, L, G), NEW a \in Ops, a.x = g, a.do = "each_link", None \notin BOOLEAN
    PROVE  Good(<<a>>, L, H, T)
<1>1. a.do \notin Transient
  BY DEF Transient
<1>2. OpsOf(<<a>>) = {a} /\ ListOK(<<a>>, L, H)
  BY <1>1, OneList
<1>3. ASSUME NEW m \in T PROVE Wanted(m, L, H) \/ OpMends(a, m, L)
  <2>1. m.g \in Groups /\ m.s \in Targets
    BY DEF Tracks
  <2>2. CASE m.g # g
    <3>1. H[m.g] = G[m.g]
      BY <2>1, <2>2 DEF SameBut
    <3> QED
      BY <3>1 DEF Wanted
  <2>3. CASE m.g = g
    <3>1. L[m.g][m.s] = TRUE
      BY DEF Wanted
    <3>2. L[m.g][m.s] # None
      BY <3>1
    <3> QED
      BY <2>3, <3>2 DEF OpMends, Visits
  <2> QED
    BY <2>2, <2>3
<1> QED
  BY <1>2, <1>3 DEF Good

\* What the tables are before a request.
LEMMA Before ==
    ASSUME SyncInv
    PROVE  /\ known \in SUBSET Users /\ policy \in PolicyTables /\ link \in LinkTables /\ ingroup \in GroupTables
           /\ grp \in GroupStates /\ tracked \in SUBSET Tracks /\ Absent
           /\ kc \in BOOLEAN
BY DEF SyncInv, SyncType, PolicyTables, GroupStates, Absent

LEMMA InvLinkRequest ==
    ASSUME SyncInv, NEW t \in Workers, NEW a, NEW g \in Groups, NEW s \in Targets, NEW row \in BOOLEAN \cup {None},
           NEW o \in Ops, o.x = g, o.s = s, (o.do = "reconcile" /\ row # None) \/ o.do = "unlinked",
           LinkRequest(t, a, g, s, row, <<o>>)
    PROVE  SyncInv'
<1>1. Begin(t, 1, <<o>>) /\ UNCHANGED <<known, policy, ingroup, grp, tracked, kc>>
      /\ link' = [link EXCEPT ![g][s] = row]
  BY DEF LinkRequest, Request, Memberships
<1>2. PICK M : M = link'
  OBVIOUS
<1>3. M \in LinkTables /\ SameLinkBut(g, s, link, M) /\ M[g][s] = row
  <2>1. M = [link EXCEPT ![g][s] = row]
    BY <1>1, <1>2
  <2>2. M \in LinkTables /\ M[g][s] = row
    BY <2>1, Before DEF LinkTables
  <2>3. SameLinkBut(g, s, link, M)
    BY <2>1, Before DEF LinkTables, SameLinkBut
  <2> QED
    BY <2>2, <2>3
<1>4. (\A m \in tracked : Wanted(m, link, ingroup)) => Good(<<o>>, M, ingroup, tracked)
  BY <1>3, LinkGood, Before
<1>5. Absent'
  BY <1>1, Before DEF Absent
<1>6. <<o>> \in Seq(Ops)
  OBVIOUS
<1> QED
  BY <1>1, <1>2, <1>3, <1>4, <1>5, <1>6, Before, Begins

LEMMA InvLinks ==
    ASSUME SyncInv, NEW t \in Workers, NEW a, LinksRequest(t, a)
    PROVE  SyncInv'
<1>1. PICK g \in Groups, s \in Targets :
         \/ unlink_group_syncable_by_kind(t, a, g, s)
         \/ \E auto_add \in BOOLEAN :
               link_group_syncable_by_kind(t, a, g, s, auto_add) \/ patch_group_syncable_by_kind(t, a, g, s, auto_add)
  BY DEF LinksRequest
<1>2. CASE unlink_group_syncable_by_kind(t, a, g, s)
  <2>1. PICK o : o = Op("unlinked", g, s, {})
    OBVIOUS
  <2>2. o \in Ops /\ o.x = g /\ o.s = s /\ o.do = "unlinked"
    BY <2>1, RowOpMade, OpFields DEF RowDos
  <2>3. LinkRequest(t, a, g, s, None, <<o>>)
    BY <1>2, <2>1 DEF unlink_group_syncable_by_kind
  <2> QED
    BY <2>2, <2>3, InvLinkRequest
<1>3. CASE \E auto_add \in BOOLEAN :
              link_group_syncable_by_kind(t, a, g, s, auto_add) \/ patch_group_syncable_by_kind(t, a, g, s, auto_add)
  <2>1. PICK o : o = Op("reconcile", g, s, {})
    OBVIOUS
  <2>2. o \in Ops /\ o.x = g /\ o.s = s /\ o.do = "reconcile"
    BY <2>1, RowOpMade, OpFields DEF RowDos
  <2>3. PICK row \in BOOLEAN : LinkRequest(t, a, g, s, row, <<o>>)
    BY <1>3, <2>1 DEF link_group_syncable_by_kind, patch_group_syncable_by_kind, Reconcile
  <2>4. row # None
    BY GroupAssumption
  <2> QED
    BY <2>2, <2>3, <2>4, InvLinkRequest
<1> QED
  BY <1>1, <1>2, <1>3

LEMMA InvMembers ==
    ASSUME SyncInv, NEW t \in Workers, NEW a, NEW g \in Groups, NEW U \in SUBSET Users, MembersRequest(t, a, g, U)
    PROVE  SyncInv'
<1>1. PICK o : o = ReconcileAll(g)
  OBVIOUS
<1>2. o \in Ops /\ o.x = g /\ o.do = "each_link"
  BY <1>1, LinkOpMade, OpFields DEF LinkDos, ReconcileAll
<1>3. Begin(t, 1, <<o>>) /\ UNCHANGED <<known, policy, grp, link, tracked, kc>>
      /\ ingroup' = [ingroup EXCEPT ![g] = U] /\ grp[g] = "live"
  BY <1>1 DEF MembersRequest, Request, Memberships, GroupVars
<1>4. PICK H : H = ingroup'
  OBVIOUS
<1>5. H \in GroupTables /\ SameBut(g, ingroup, H)
  BY <1>3, <1>4, Before DEF GroupTables, SameBut
<1>6. (\A m \in tracked : Wanted(m, link, ingroup)) => Good(<<o>>, link, H, tracked)
  BY <1>2, <1>5, MembersGood, Before, GroupAssumption
<1>7. Absent'
  BY <1>3, <1>5, <1>4, Before, KeycloakGroup DEF Absent, SameBut
<1>8. <<o>> \in Seq(Ops)
  BY <1>2
<1> QED
  BY <1>2, <1>3, <1>4, <1>5, <1>6, <1>7, <1>8, Before, Begins

LEMMA InvFetch ==
    ASSUME SyncInv, NEW t \in Workers, NEW n, NEW d \in {"fetch", "fetch_user"}, NEW S \in SUBSET Users,
           Begin(t, n, <<Op(d, Keycloak, None, S)>>), UNCHANGED <<known, policy, ingroup, grp, link, tracked, kc>>
    PROVE  SyncInv'
<1>1. PICK o : o = Op(d, Keycloak, None, S)
  OBVIOUS
<1>2. o \in Ops /\ o.do \in {"fetch", "fetch_user"}
  BY <1>1, KeycloakOpMade, OpFields DEF KeycloakDos
<1>3. <<o>> \in Seq(Ops)
  BY <1>2
<1>4. (\A m \in tracked : Wanted(m, link, ingroup)) => Good(<<o>>, link', ingroup', tracked)
  BY <1>2, FetchGood DEF KeycloakDos
<1>5. Absent'
  BY Before DEF Absent
<1>6. Begin(t, n, <<o>>)
  BY <1>1
<1> QED
  BY <1>3, <1>4, <1>5, <1>6, Before, Begins

\* A group made here had no members, so nobody's row depends on it.
LEMMA GoodGrows ==
    ASSUME NEW l \in Seq(Ops), NEW L, NEW G, NEW H, NEW T \in SUBSET Tracks, Good(l, L, G, T),
           \A g \in Groups : G[g] \subseteq H[g]
    PROVE  Good(l, L, H, T)
<1>1. \A m \in Tracks : Wanted(m, L, G) => Wanted(m, L, H)
  BY DEF Wanted, Tracks
<1>2. ASSUME NEW o \in Ops, NEW r, HeadOK(o, r, L, G) PROVE HeadOK(o, r, L, H)
  <2>1. CASE o.do \in {"tracked_of", "ensure"}
    <3>1. o.set \subseteq Tracks
      BY <2>1, RowOpType DEF RowDos
    <3> QED
      BY <1>1, <1>2, <2>1, <3>1 DEF HeadOK
  <2>2. CASE o.do \notin {"tracked_of", "ensure"}
    BY <1>2, <2>2 DEF HeadOK
  <2> QED
    BY <2>1, <2>2
<1>3. ListOK(l, L, H)
  <2> SUFFICES ASSUME l # <<>> PROVE ListOK(l, L, H)
    BY DEF ListOK
  <2>1. Head(l) \in Ops /\ Tail(l) \in Seq(Ops)
    BY OpsPop
  <2>2. ListOK(l, L, G)
    BY DEF Good
  <2>3. CASE Head(l).do = "track"
    <3>1. Tail(l) # <<>> /\ Head(Tail(l)).do = "ensure"
          /\ HeadOK(Head(Tail(l)), Tail(Tail(l)), L, G)
          /\ \A m \in Head(l).set : Wanted(m, L, G)
      BY <2>2, <2>3 DEF ListOK
    <3>2. Head(Tail(l)) \in Ops
      BY <2>1, <3>1, OpsPop
    <3>3. HeadOK(Head(Tail(l)), Tail(Tail(l)), L, H)
      BY <1>2, <3>1, <3>2
    <3>4. Head(l).set \subseteq Tracks
      BY <2>1, <2>3, RowOpType DEF RowDos
    <3>5. \A m \in Head(l).set : Wanted(m, L, H)
      BY <1>1, <3>1, <3>4
    <3> QED
      BY <2>3, <3>1, <3>3, <3>5 DEF ListOK
  <2>4. CASE Head(l).do # "track"
    <3>1. HeadOK(Head(l), Tail(l), L, H)
      BY <1>2, <2>1, <2>2, <2>4 DEF ListOK
    <3> QED
      BY <2>4, <3>1 DEF ListOK
  <2> QED
    BY <2>3, <2>4
<1> QED
  BY <1>1, <1>3 DEF Good

LEMMA InvCreate ==
    ASSUME SyncInv, NEW a, NEW U \in SUBSET Users, create_group(a, U)
    PROVE  SyncInv'
<1>1. grp[Custom] = "absent" /\ ingroup' = [ingroup EXCEPT ![Custom] = U] /\ grp' = [grp EXCEPT ![Custom] = "live"]
      /\ UNCHANGED <<known, policy, task, trouble, link, tracked, kc>>
  BY DEF create_group, GroupRequest, Statement, Memberships
<1>2. PICK H : H = ingroup'
  OBVIOUS
<1>3. ingroup[Custom] = {} /\ Custom \in Groups
  BY <1>1, Before, KeycloakGroup DEF Absent
<1>4. H \in GroupTables /\ \A g \in Groups : ingroup[g] \subseteq H[g]
  BY <1>1, <1>2, <1>3, Before DEF GroupTables
<1>5. grp' \in GroupStates /\ grp'[Custom] = "live"
  BY <1>1, <1>3, Before DEF GroupStates
<1>6. trouble' = 0 => OneGood(task', link', ingroup', tracked')
  <2> SUFFICES ASSUME trouble = 0 PROVE OneGood(task, link, H, tracked)
    BY <1>1, <1>2
  <2>1. PICK w \in Workers : (\A v \in Workers \ {w} : task[v] = <<>>) /\ Good(task[w], link, ingroup, tracked)
    BY DEF SyncInv, OneGood
  <2>2. task[w] \in Seq(Ops)
    BY DEF SyncInv, SyncType
  <2>3. Good(task[w], link, H, tracked)
    BY <1>4, <2>1, <2>2, Before, GoodGrows
  <2> QED
    BY <2>1, <2>3 DEF OneGood
<1>7. SyncType'
  BY <1>1, <1>2, <1>4, <1>5 DEF SyncInv, SyncType, GroupStates
<1> QED
  BY <1>5, <1>6, <1>7 DEF SyncInv

LEMMA InvState ==
    ASSUME SyncInv, NEW a, NEW g \in Groups, delete_group(a, g) \/ restore_group(a, g)
    PROVE  SyncInv'
<1>1. PICK state \in {"live", "deleted"} : GroupRequest(a, g, state) /\ UNCHANGED ingroup
  BY DEF delete_group, restore_group
<1>2. grp' = [grp EXCEPT ![g] = state] /\ UNCHANGED <<known, policy, task, trouble, link, tracked, kc, ingroup>>
  BY <1>1 DEF GroupRequest, Statement, Memberships
<1>3. grp' \in GroupStates /\ (grp'[Custom] = "absent" => grp[Custom] = "absent")
  BY <1>2, Before, KeycloakGroup DEF GroupStates
<1> QED
  BY <1>2, <1>3, Before, States

LEMMA InvGroups ==
    ASSUME SyncInv, NEW t \in Workers, NEW a, GroupsRequest(t, a)
    PROVE  SyncInv'
<1>1. CASE trigger_keycloak_sync(t, a)
  <2>1. Begin(t, 1, <<Op("fetch", Keycloak, None, {})>>) /\ UNCHANGED <<known, policy, ingroup, grp, link, tracked, kc>>
    BY <1>1 DEF trigger_keycloak_sync, Request, Memberships, GroupVars
  <2> QED
    BY <2>1, InvFetch
<1>2. CASE \E u \in known : trigger_keycloak_user_sync(t, a, u)
  <2>1. PICK u \in known : /\ Begin(t, 1, <<Op("fetch_user", Keycloak, None, {u})>>)
                           /\ UNCHANGED <<known, policy, ingroup, grp, link, tracked, kc>>
    BY <1>2 DEF trigger_keycloak_user_sync, Request, Memberships, GroupVars
  <2>2. {u} \in SUBSET Users
    BY Before
  <2> QED
    BY <2>1, <2>2, InvFetch
<1>3. CASE \E u \in known : create_group(a, {u})
  <2>1. PICK u \in known : create_group(a, {u})
    BY <1>3
  <2>2. {u} \in SUBSET Users
    BY Before
  <2> QED
    BY <2>1, <2>2, InvCreate
<1>4. CASE \E g \in Groups : delete_group(a, g) \/ restore_group(a, g)
  BY <1>4, InvState
<1>5. CASE \E g \in Groups, u \in known : add_group_members(t, a, g, u) \/ delete_group_members(t, a, g, u)
  <2>1. PICK g \in Groups, u \in known : add_group_members(t, a, g, u) \/ delete_group_members(t, a, g, u)
    BY <1>5
  <2>2. PICK U \in {ingroup[g] \cup {u}, ingroup[g] \ {u}} : MembersRequest(t, a, g, U)
    BY <2>1 DEF add_group_members, delete_group_members
  <2>3. U \in SUBSET Users
    BY <2>2, Before DEF GroupTables
  <2> QED
    BY <2>2, <2>3, InvMembers
<1> QED
  BY <1>1, <1>2, <1>3, <1>4, <1>5 DEF GroupsRequest

LEMMA InvEvent ==
    ASSUME SyncInv, KeycloakChanges
    PROVE  SyncInv'
<1>1. kc' = ~kc /\ UNCHANGED <<known, policy, task, trouble, ingroup, grp, link, tracked>>
  BY DEF KeycloakChanges, Memberships, GroupVars
<1>2. kc' \in BOOLEAN
  BY <1>1, Before
<1> QED
  BY <1>1, <1>2, Before, States

LEMMA InvPeriodic ==
    ASSUME SyncInv, Periodic \/ spawn_periodic_keycloak_sync
    PROVE  SyncInv'
<1>1. Worker \in Workers /\ Syncer \in Workers
  BY DEF Workers
<1>2. CASE spawn_periodic_reconciliation /\ UNCHANGED <<GroupVars, kc>>
  <2>1. UNCHANGED <<known, policy, task, trouble, ingroup, grp, link, tracked, kc>>
    BY <1>2 DEF spawn_periodic_reconciliation, GroupVars
  <2> QED
    BY <2>1, Before, States
<1>3. CASE RunWorker /\ UNCHANGED <<GroupVars, kc>>
  <2>1. Begin(Worker, 0, <<Op("full", None, None, {})>>)
        /\ UNCHANGED <<known, policy, ingroup, grp, link, tracked, kc>>
    BY <1>3 DEF RunWorker, GroupVars
  <2>2. PICK o : o = Op("full", None, None, {})
    OBVIOUS
  <2>3. o \in Ops /\ o.do \in PolicyDos
    BY <2>2, UserOpMade DEF UserDos, Subjects
  <2>4. PolicyList(<<o>>)
    BY <2>3, PolicyOne
  <2>5. (\A m \in tracked : Wanted(m, link, ingroup)) => Good(<<o>>, link', ingroup', tracked)
    BY <2>1, <2>4, PolicyGood
  <2>6. Absent'
    BY <2>1, Before DEF Absent
  <2>7. <<o>> \in Seq(Ops) /\ Begin(Worker, 0, <<o>>)
    BY <2>1, <2>2, <2>3
  <2> QED
    BY <1>1, <2>1, <2>5, <2>6, <2>7, Before, Begins
<1>4. CASE spawn_periodic_keycloak_sync
  <2>1. Begin(Syncer, 0, <<Op("fetch", Keycloak, None, {})>>)
        /\ UNCHANGED <<known, policy, ingroup, grp, link, tracked, kc>>
    BY <1>4 DEF spawn_periodic_keycloak_sync, Memberships, GroupVars
  <2> QED
    BY <1>1, <2>1, InvFetch
<1> QED
  BY <1>2, <1>3, <1>4 DEF Periodic

\* A failure or a crash is trouble, and leaves the tables as they were.
LEMMA InvTrouble ==
    ASSUME SyncInv, Crash \/ \E t \in Workers : Fails(t)
    PROVE  SyncInv'
<1>1. UNCHANGED <<known, policy, ingroup, grp, link, tracked, kc>> /\ trouble' = trouble + 1
  BY DEF Crash, Fails, GroupVars
<1>2. trouble' \in Nat /\ trouble' # 0
  BY <1>1 DEF SyncInv, SyncType
<1>3. task' \in [Workers -> Seq(Ops)]
  BY EmptyList DEF SyncInv, SyncType, Crash, Fails
<1>4. SyncType'
  BY <1>1, <1>2, <1>3 DEF SyncInv, SyncType
<1>5. grp'[Custom] = "absent" => ingroup'[Custom] = {}
  BY <1>1 DEF SyncInv
<1> QED
  BY <1>2, <1>4, <1>5 DEF SyncInv

-----------------------------------------------------------------------------
(* The theorem. *)

LEMMA InvInit ==
    ASSUME SyncInit
    PROVE  SyncInv
<1>1. known \subseteq Users /\ policy \in PolicyTables /\ trouble \in Nat /\ task = [t \in Workers |-> <<>>]
  BY MembershipAssumption DEF SyncInit, MembershipInit, PolicyTables
<1>2. task \in [Workers -> Seq(Ops)]
  BY <1>1, EmptyList
<1>3. ingroup \in GroupTables /\ grp \in GroupStates
  BY <1>1 DEF SyncInit, GroupTables, GroupStates
<1>4. link \in LinkTables /\ tracked = {}
  BY DEF SyncInit, LinkTables
<1>5. kc \in BOOLEAN
  BY DEF SyncInit
<1>6. SyncType
  BY <1>1, <1>2, <1>3, <1>4, <1>5 DEF SyncType, PolicyTables, GroupStates
<1>7. grp[Custom] = "absent" => ingroup[Custom] = {}
  BY GroupAssumption DEF SyncInit
<1>8. OneGood(task, link, ingroup, tracked)
  <2>1. Worker \in Workers
    BY DEF Workers
  <2>2. Good(<<>>, link, ingroup, tracked)
    BY <1>4, GoodNone
  <2> QED
    BY <1>1, <2>1, <2>2 DEF OneGood
<1> QED
  BY <1>6, <1>7, <1>8 DEF SyncInv

LEMMA InvNext ==
    ASSUME SyncInv, [Next]_SyncVars
    PROVE  SyncInv'
<1>1. ASSUME NEW a \in Users, NEW t \in Tasks,
             \/ (TeamRequest(t, a) \/ ChannelRequest(t, a) \/ PolicyRequest(a)) /\ UNCHANGED <<GroupVars, kc>>
             \/ LinksRequest(t, a) \/ GroupsRequest(t, a)
      PROVE  SyncInv'
  <2>1. t \in Workers /\ SyncType
    BY DEF Workers, SyncInv
  <2>2. CASE (TeamRequest(t, a) \/ ChannelRequest(t, a) \/ PolicyRequest(a)) /\ UNCHANGED <<GroupVars, kc>>
    <3>1. Apart(t)
      BY <2>1, <2>2, TeamApart, ChannelApart, PolicyApart
    <3> QED
      BY <2>1, <2>2, <3>1, InvApart
  <2>3. CASE LinksRequest(t, a) \/ GroupsRequest(t, a)
    BY <2>1, <2>3, InvLinks, InvGroups
  <2> QED
    BY <1>1, <2>2, <2>3
<1>2. CASE KeycloakChanges
  BY <1>2, InvEvent
<1>3. CASE Periodic \/ spawn_periodic_keycloak_sync
  BY <1>3, InvPeriodic
<1>4. CASE \E t \in Workers : TaskStep(t)
  BY <1>4, InvTask
<1>5. CASE Crash \/ \E t \in Workers : Fails(t)
  BY <1>5, InvTrouble
<1>6. CASE UNCHANGED SyncVars
  <2>1. UNCHANGED <<known, policy, task, trouble, ingroup, grp, link, tracked, kc>>
    BY <1>6 DEF SyncVars, MemberVars, GroupVars
  <2> QED
    BY <2>1, Before, States
<1> QED
  BY <1>1, <1>2, <1>3, <1>4, <1>5, <1>6 DEF Next

\* Once every task is done, each membership that a link has inserted still has a link that wants it,
\* provided nothing failed and no two tasks ran at once (groups.rs, cleanup_unlinked_syncable and
\* reconcile_group_syncable; keycloak_sync.rs): for any users, channels, policies and requests.
THEOREM TrackedDesired == SyncSpec => []TrackedIsDesired
<1>1. SyncInv => TrackedIsDesired
  <2> SUFFICES ASSUME SyncInv, Quiet, trouble = 0, NEW m \in tracked
               PROVE  link[m.g][m.s] = TRUE /\ m.u \in ingroup[m.g]
    BY DEF TrackedIsDesired
  <2>1. PICK w \in Workers : Good(task[w], link, ingroup, tracked)
    BY DEF SyncInv, OneGood
  <2>2. task[w] = <<>>
    BY DEF Quiet, Busy
  <2>3. Wanted(m, link, ingroup)
    BY <2>1, <2>2, GoodNone
  <2> QED
    BY <2>3 DEF Wanted
<1>2. SyncInit => SyncInv
  BY InvInit
<1>3. SyncInv /\ [Next]_SyncVars => SyncInv'
  BY InvNext
<1> QED
  BY <1>1, <1>2, <1>3, PTL DEF SyncSpec

=============================================================================
