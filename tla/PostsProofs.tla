---------------------------- MODULE PostsProofs ----------------------------
(***************************************************************************)
(* Proofs about Posts for any number of users, tasks and posts: replies    *)
(* are counted, and the unread counters are exact whenever no task runs,   *)
(* except for the users the model names.                                   *)
(***************************************************************************)
EXTENDS Posts, FiniteSetTheorems, WellFoundedInduction, TLAPS

People == Users \cup {Bot}
Does == {"sync", "compute", "legacy", "v2", "undirty", "drop_legacy", "drop", "position", "notify", "incr_legacy", "incr_count",
         "incr_root", "mark_dirty", "count_reply", "reply_activity", "mention_activity", "playbook", "heal", "system"}
Ops == [do : Does, u : People, p : Nat]
PostRows == [author : People, root : Nat, deleted : BOOLEAN, edited : BOOLEAN, pinned : BOOLEAN, replies : Nat]

(***************************************************************************)
(* How the instructions of a task follow each other.                       *)
(***************************************************************************)
\* Instruction k of l is followed, or preceded, by this one for the same user.
Then(l, k, do) == k < Len(l) /\ l[k + 1].do = do /\ l[k + 1].u = l[k].u
After(l, k, do) == l[k - 1].do = do /\ l[k - 1].u = l[k].u

Shaped(l) ==
    \A k \in 1..Len(l) :
       /\ l[k].do = "compute" => Then(l, k, "legacy")
       /\ l[k].do = "legacy" => Then(l, k, "v2") /\ l[k + 1].p = l[k].p
       /\ l[k].do = "v2" => k = Len(l) \/ Then(l, k, "undirty")
       /\ l[k].do = "position" => Then(l, k, "notify") \/ Then(l, k, "drop_legacy")
                                  \/ (Then(l, k, "compute") /\ k + 2 <= Len(l) /\ l[k + 2].p = 0)
       /\ l[k].do = "drop_legacy" => Then(l, k, "drop")
       /\ l[k].do = "incr_legacy" => Then(l, k, "incr_count")
       /\ l[k].do = "incr_count" => Then(l, k, "incr_root")
       /\ l[k].do = "incr_root" => Then(l, k, "mark_dirty")
       /\ k > 1 =>
             /\ l[k].do = "legacy" => After(l, k, "compute")
             /\ l[k].do = "v2" => After(l, k, "legacy")
             /\ l[k].do = "notify" => After(l, k, "position")
             /\ l[k].do = "drop" => After(l, k, "drop_legacy")
             /\ l[k].do # "count_reply"

\* The reconciler recounts one user after the other and ends each with the DEL of the mark; a
\* recount of another task comes last and deletes no mark.
ReconcilerDoes == {"sync", "compute", "legacy", "v2", "undirty"}
Belongs(t, l) ==
    IF t \in Tasks
    THEN \A k \in 1..Len(l) : l[k].do # "sync" /\ (l[k].do = "v2" => k = Len(l))
    ELSE \A k \in 1..Len(l) :
            /\ l[k].do \in ReconcilerDoes
            /\ l[k].do = "v2" => k < Len(l) /\ l[k].p = 0

Todo(t) == task[t].todo

DataOK ==
    /\ members \subseteq Users /\ dirty \subseteq People /\ stale \subseteq People
    /\ posts \in Seq(PostRows)
    /\ pos \in [People -> Nat]
    /\ DOMAIN legacy = Users /\ DOMAIN v2 = Users

ListsOK ==
    /\ DOMAIN task = Workers
    /\ \A t \in Workers :
          /\ task[t] = [todo |-> task[t].todo, value |-> task[t].value]
          /\ Todo(t) \in Seq(Ops) /\ Shaped(Todo(t)) /\ Belongs(t, Todo(t))

(***************************************************************************)
(* What a task has still to do for a user.                                 *)
(***************************************************************************)
\* A new post is to be counted: for everyone but its author, and for the author until the
\* position has moved.
Owes(l, u) == \E k \in 1..Len(l) : l[k].do = "notify" /\ (l[k].u # u \/ k > 1)
Has(l, do, u) == \E k \in 1..Len(l) : l[k].do = do /\ l[k].u = u
\* A recount that is replaced by a dirty mark when it fails.
Safe(t, l, do, u) == t \in Tasks /\ \E k \in 1..Len(l) : l[k].do = do /\ l[k].u = u /\ l[k].p = 0

Marks(l, u) == Owes(l, u) \/ Has(l, "mark_dirty", u)
WritesLegacy(t, l, u) == Has(l, "drop_legacy", u) \/ Safe(t, l, "legacy", u)
WritesV2(t, l, u) == Has(l, "drop", u) \/ Safe(t, l, "v2", u)

Excused(u) == u \in stale \/ \E t \in Workers : Marks(Todo(t), u)
LegacyOK(u) == legacy[u] \in {0, Truth(u).count} \/ Excused(u) \/ \E t \in Workers : WritesLegacy(t, Todo(t), u)
V2OK(u) == v2[u] \in {None, Truth(u)} \/ Excused(u) \/ \E t \in Workers : WritesV2(t, Todo(t), u)

\* Only a user the counters have missed is no member.
MembersOK == Users \ members \subseteq stale

\* A count that a task holds is right for the position it was made for, or the user is excused.
HeldAt(t, u) ==
    (Busy(t) /\ Head(Todo(t)).u = u /\ Head(Todo(t)).do \in {"legacy", "v2"}) =>
        task[t].value = CountAt(u, task[t].value.pos) \/ Excused(u)
HeldOK == \A t \in Workers, u \in Users : HeldAt(t, u)

\* What a task about to write the v2 hash or to delete it or the mark has done before.
HeadAt(t, u) ==
    (Busy(t) /\ Head(Todo(t)).u = u) =>
        /\ Head(Todo(t)).do = "undirty" => LegacyOK(u) /\ V2OK(u)
        /\ Head(Todo(t)).do = "drop" => LegacyOK(u)
        /\ Head(Todo(t)).do = "v2" /\ Head(Todo(t)).p = 0 => LegacyOK(u)
HeadOK == \A t \in Workers, u \in Users : HeadAt(t, u)

\* A mark is deleted after a recount or a deletion, or for someone whom the counters have missed.
Undirties(l, S) ==
    \A k \in 2..Len(l) : l[k].do = "undirty" => After(l, k, "v2") \/ After(l, k, "drop") \/ l[k].u \in S
Missed == stale \cup {Bot}
UndirtyOK == \A t \in Workers : Undirties(Todo(t), Missed)

CountersOK == \A u \in Users : u \in dirty \/ (LegacyOK(u) /\ V2OK(u))

UnreadInv == DataOK /\ ListsOK /\ MembersOK /\ HeldOK /\ HeadOK /\ UndirtyOK /\ CountersOK

-----------------------------------------------------------------------------
(* Numbers and lists. *)

\* A set of numbers has a least element.
LEMMA LeastNumber == ASSUME NEW I \in SUBSET Nat, I # {} PROVE \E x \in I : \A y \in I : x <= y
<1>1. PICK R : R = OpToRel(<, Nat)
  OBVIOUS
<1>2. IsWellFoundedOn(R, Nat)
  BY <1>1, NatLessThanWellFounded
<1>3. PICK x \in I : \A y \in I : ~(<<y, x>> \in R)
  BY <1>2, WFMin
<1>4. \A y \in I : y < x => <<y, x>> \in R
  BY <1>1 DEF OpToRel
<1>5. x \in Nat /\ \A y \in I : y \in Nat
  OBVIOUS
<1>6. \A y \in I : ~(y < x)
  BY <1>3, <1>4
<1>. QED
  BY <1>5, <1>6

\* SetToSeq lists every element of a finite set.
LEMMA SetToSeqFacts ==
    ASSUME NEW S, IsFiniteSet(S)
    PROVE  SetToSeq(S) \in Seq(S) /\ \A x \in S : \E k \in 1..Len(SetToSeq(S)) : SetToSeq(S)[k] = x
<1>1. PICK n \in Nat : n = Cardinality(S) /\ ExistsBijection(1..n, S)
  BY FS_CardinalityType
<1>2. PICK g \in [1..n -> S] : IsInjective(g)
  BY <1>1 DEF ExistsBijection, Bijection, Injection
<1>3. PICK f : f = SetToSeq(S)
  OBVIOUS
<1>4. f \in [1..n -> S] /\ IsInjective(f)
  <2>1. f = CHOOSE h \in [1..n -> S] : IsInjective(h)
    BY <1>1, <1>3 DEF SetToSeq
  <2>. QED
    BY <1>2, <2>1
<1>5. f \in Injection(1..n, S)
  BY <1>4 DEF Injection
<1>6. IsFiniteSet(1..n) /\ Cardinality(1..n) = n
  BY FS_Interval
<1>7. f \in Surjection(1..n, S)
  BY <1>1, <1>5, <1>6, FS_Injection
<1>8. \A x \in S : \E k \in 1..n : f[k] = x
  BY <1>7 DEF Surjection
<1>. QED
  BY <1>3, <1>4, <1>8

\* The equation of FlattenSeq has a solution, of any length.
Flat(seqs, n, f) == f = [i \in 1..n |-> IF i = 1 THEN seqs[i] ELSE f[i - 1] \o seqs[i]]

LEMMA FlatExists == ASSUME NEW seqs, NEW n \in Nat PROVE \E f : Flat(seqs, n, f)
<1>1. PICK I : I = {m \in Nat : ~ \E f : Flat(seqs, m, f)}
  OBVIOUS
<1>2. SUFFICES ASSUME I # {} PROVE FALSE
  BY <1>1
<1>3. PICK m \in I : \A y \in I : m <= y
  BY <1>1, <1>2, LeastNumber
<1>4. m \in Nat /\ ~ \E f : Flat(seqs, m, f)
  BY <1>1, <1>3
<1>5. CASE m = 0
  <2>1. PICK f : f = [i \in 1..0 |-> seqs[i]]
    OBVIOUS
  <2>2. Flat(seqs, 0, f)
    BY <2>1 DEF Flat
  <2>. QED
    BY <1>4, <1>5, <2>2
<1>6. CASE m > 0
  <2>1. m - 1 \in Nat /\ m - 1 \notin I
    BY <1>3, <1>4, <1>6
  <2>2. PICK g : Flat(seqs, m - 1, g)
    BY <1>1, <2>1
  <2>3. PICK f : f = [i \in 1..m |-> IF i = m THEN (IF m = 1 THEN seqs[m] ELSE g[m - 1] \o seqs[m]) ELSE g[i]]
    OBVIOUS
  <2>4. \A i \in 1..(m - 1) : f[i] = g[i]
    BY <1>4, <2>3
  <2>5. \A i \in 1..(m - 1) : g[i] = IF i = 1 THEN seqs[i] ELSE g[i - 1] \o seqs[i]
    BY <2>2 DEF Flat
  <2>6. \A i \in 1..m : f[i] = IF i = 1 THEN seqs[i] ELSE f[i - 1] \o seqs[i]
    <3>1. ASSUME NEW i \in 1..m, i # m PROVE f[i] = IF i = 1 THEN seqs[i] ELSE f[i - 1] \o seqs[i]
      <4>1. i \in 1..(m - 1) /\ (i # 1 => i - 1 \in 1..(m - 1))
        BY <1>4, <3>1
      <4>. QED
        BY <2>4, <2>5, <4>1
    <3>2. f[m] = IF m = 1 THEN seqs[m] ELSE f[m - 1] \o seqs[m]
      <4>1. m # 1 => m - 1 \in 1..(m - 1)
        BY <1>4, <1>6
      <4>2. f[m] = IF m = 1 THEN seqs[m] ELSE g[m - 1] \o seqs[m]
        BY <1>4, <1>6, <2>3
      <4>. QED
        BY <2>4, <4>1, <4>2
    <3>. QED
      BY <3>1, <3>2
  <2>7. Flat(seqs, m, f)
    <3>1. f = [i \in 1..m |-> f[i]]
      BY <2>3
    <3>. QED
      BY <2>6, <3>1 DEF Flat
  <2>. QED
    BY <1>4, <2>7
<1>. QED
  BY <1>4, <1>5, <1>6

\* Joined lists stay in a set that is closed under joining, and contain what the lists contain.
LEMMA FlattenFacts ==
    ASSUME NEW S, NEW W \in SUBSET Seq(S), \A a, b \in W : a \o b \in W, NEW seqs \in Seq(W), Len(seqs) # 0
    PROVE  /\ FlattenSeq(seqs) \in W
           /\ \A j \in 1..Len(seqs) : \A k \in 1..Len(seqs[j]) :
                 \E m \in 1..Len(FlattenSeq(seqs)) : FlattenSeq(seqs)[m] = seqs[j][k]
<1>1. PICK n : n = Len(seqs)
  OBVIOUS
<1>2. n \in Nat \ {0} /\ \A j \in 1..n : seqs[j] \in W
  BY <1>1
<1>3. PICK f : f = CHOOSE g : Flat(seqs, n, g)
  OBVIOUS
<1>4. Flat(seqs, n, f)
  BY <1>2, <1>3, FlatExists
<1>5. FlattenSeq(seqs) = f[n]
  BY <1>1, <1>2, <1>3 DEF FlattenSeq, Flat
<1>6. \A i \in 1..n : f[i] = IF i = 1 THEN seqs[i] ELSE f[i - 1] \o seqs[i]
  BY <1>4 DEF Flat
<1>. DEFINE Good(i) == /\ f[i] \in W
                       /\ \A j \in 1..i : \A k \in 1..Len(seqs[j]) : \E m \in 1..Len(f[i]) : f[i][m] = seqs[j][k]
<1>7. PICK I : I = {i \in 1..n : ~Good(i)}
  OBVIOUS
<1>8. ASSUME I # {} PROVE FALSE
  <2>0. I \in SUBSET Nat
    <3>. HIDE DEF Good
    <3>. QED
      BY <1>2, <1>7
  <2>1. PICK i \in I : \A y \in I : i <= y
    BY <1>8, <2>0, LeastNumber
  <2>2. i \in 1..n /\ ~Good(i)
    BY <1>7, <2>1
  <2>3. CASE i = 1
    <3>1. f[1] = seqs[1] /\ seqs[1] \in W
      BY <1>2, <1>6
    <3>2. Good(1)
      BY <3>1
    <3>. QED
      BY <2>2, <2>3, <3>2
  <2>4. CASE i # 1
    <3>1. i - 1 \in 1..n /\ i - 1 \notin I
      BY <1>2, <2>1, <2>2, <2>4
    <3>2. Good(i - 1)
      BY <1>7, <3>1
    <3>3. PICK a, b : a = f[i - 1] /\ b = seqs[i]
      OBVIOUS
    <3>4. a \in W /\ b \in W /\ f[i] = a \o b
      BY <1>2, <1>6, <2>2, <2>4, <3>2, <3>3
    <3>5. a \in Seq(S) /\ b \in Seq(S)
      BY <3>4
    <3>6. /\ \A m \in 1..Len(a) : m \in 1..Len(a \o b) /\ (a \o b)[m] = a[m]
          /\ \A m \in 1..Len(b) : m + Len(a) \in 1..Len(a \o b) /\ (a \o b)[m + Len(a)] = b[m]
      BY <3>5
    <3>7. \A j \in 1..(i - 1) : \A k \in 1..Len(seqs[j]) : \E m \in 1..Len(a) : a[m] = seqs[j][k]
      BY <3>2, <3>3
    <3>8. ASSUME NEW j \in 1..i, NEW k \in 1..Len(seqs[j]) PROVE \E m \in 1..Len(f[i]) : f[i][m] = seqs[j][k]
      <4>1. CASE j = i
        <5>1. k \in 1..Len(b) /\ b[k] = seqs[j][k]
          BY <3>3, <4>1
        <5>2. k + Len(a) \in 1..Len(f[i]) /\ f[i][k + Len(a)] = seqs[j][k]
          BY <3>4, <3>6, <5>1
        <5>. QED
          BY <5>2
      <4>2. CASE j # i
        <5>1. j \in 1..(i - 1)
          BY <2>2, <4>2
        <5>. QED
          BY <3>4, <3>6, <3>7, <5>1
      <4>. QED
        BY <4>1, <4>2
    <3>. QED
      BY <2>2, <3>4, <3>8
  <2>. QED
    BY <2>3, <2>4
<1>9. Good(n)
  <2>. HIDE DEF Good
  <2>. QED
    BY <1>2, <1>7, <1>8
<1>. QED
  BY <1>1, <1>5, <1>9

-----------------------------------------------------------------------------
(* Lists of instructions. *)

\* l2 is what is left of l when m instructions are gone.
Suffix(l2, l, m) == /\ m \in 0..Len(l) /\ Len(l2) = Len(l) - m
                    /\ \A k \in 1..Len(l2) : l2[k] = l[k + m]

LEMMA SuffixFacts ==
    ASSUME NEW l \in Seq(Ops), NEW l2 \in Seq(Ops), NEW m, Suffix(l2, l, m), NEW t, NEW S
    PROVE  /\ Shaped(l) => Shaped(l2)
           /\ Belongs(t, l) => Belongs(t, l2)
           /\ Undirties(l, S) => Undirties(l2, S)
<1>0. m \in 0..Len(l) /\ Len(l2) = Len(l) - m /\ Len(l) \in Nat /\ Len(l2) \in Nat /\ m \in Nat
  BY DEF Suffix
<1>1. \A k \in 1..Len(l2) : k + m \in 1..Len(l) /\ l2[k] = l[k + m]
  BY <1>0 DEF Suffix
<1>2. \A k \in 1..Len(l2) : k > 1 => k - 1 \in 1..Len(l2) /\ (k - 1) + m = (k + m) - 1
  BY <1>0
<1>3. \A k \in 1..Len(l2) : k > 1 => l2[k - 1] = l[(k + m) - 1]
  BY <1>1, <1>2
<1>4. \A k \in 1..Len(l2) : k < Len(l2) => k + 1 \in 1..Len(l2) /\ (k + 1) + m = (k + m) + 1
  BY <1>0
<1>5. \A k \in 1..Len(l2) : k < Len(l2) => l2[k + 1] = l[(k + m) + 1]
  BY <1>1, <1>4
<1>6. \A k \in 1..Len(l2) : k + 2 <= Len(l2) => l2[k + 2] = l[(k + m) + 2]
  <2>1. \A k \in 1..Len(l2) : k + 2 <= Len(l2) => k + 2 \in 1..Len(l2) /\ (k + 2) + m = (k + m) + 2
    BY <1>0
  <2>. QED
    BY <1>1, <2>1
<1>7. \A k \in 1..Len(l2) : /\ k < Len(l2) <=> k + m < Len(l)
                            /\ k = Len(l2) <=> k + m = Len(l)
                            /\ k + 2 <= Len(l2) <=> (k + m) + 2 <= Len(l)
                            /\ k > 1 => k + m > 1
  BY <1>0
<1>8. ASSUME Shaped(l), NEW k \in 1..Len(l2) PROVE Shaped(l2)!(k)
  <2>1. k + m \in 1..Len(l) /\ l2[k] = l[k + m]
    BY <1>1
  <2>2. \A do : Then(l, k + m, do) => Then(l2, k, do)
    BY <1>5, <1>7, <2>1 DEF Then
  <2>3. k > 1 => \A do : After(l, k + m, do) => After(l2, k, do)
    BY <1>3, <2>1 DEF After
  <2>4. Shaped(l)!(k + m)
    BY <1>8, <2>1 DEF Shaped
  <2>. QED
    BY <1>5, <1>6, <1>7, <2>1, <2>2, <2>3, <2>4 DEF Then
<1>9. Shaped(l) => Shaped(l2)
  BY <1>8 DEF Shaped
<1>10. Belongs(t, l) => Belongs(t, l2)
  BY <1>1, <1>7 DEF Belongs
<1>11. ASSUME Undirties(l, S) PROVE Undirties(l2, S)
  <2>1. SUFFICES ASSUME NEW k \in 2..Len(l2), l2[k].do = "undirty"
                 PROVE  After(l2, k, "v2") \/ After(l2, k, "drop") \/ l2[k].u \in S
    BY DEF Undirties
  <2>2. k \in 1..Len(l2) /\ k > 1 /\ k + m \in 2..Len(l)
    BY <1>0
  <2>3. l2[k] = l[k + m] /\ l2[k - 1] = l[(k + m) - 1]
    BY <1>1, <1>3, <2>2
  <2>. QED
    BY <1>11, <2>1, <2>2, <2>3 DEF Undirties, After
<1>. QED
  BY <1>9, <1>10, <1>11

\* Instructions that come only after the one that prepares them.
Inner == {"legacy", "v2", "notify", "drop", "count_reply"}
\* A list that begins with nothing prepared before.
Fresh(l, S) == Len(l) > 0 => l[1].do \notin Inner /\ (l[1].do = "undirty" => l[1].u \in S)

\* What is left when the first instruction is gone.
LEMMA TailFacts ==
    ASSUME NEW l \in Seq(Ops), l # <<>>
    PROVE  /\ Tail(l) \in Seq(Ops) /\ Suffix(Tail(l), l, 1)
           /\ Head(l) = l[1] /\ Len(l) \in Nat /\ 1 \in 1..Len(l) /\ l[1] \in Ops
           /\ Len(Tail(l)) = Len(l) - 1
           /\ \A k \in 1..Len(Tail(l)) : Tail(l)[k] = l[k + 1]
<1>1. Tail(l) \in Seq(Ops) /\ Head(l) = l[1] /\ Len(l) \in Nat /\ Len(l) > 0 /\ Len(Tail(l)) = Len(l) - 1
  OBVIOUS
<1>2. \A k \in 1..Len(Tail(l)) : Tail(l)[k] = l[k + 1]
  BY <1>1
<1>3. 1 \in 1..Len(l) /\ l[1] \in Ops /\ 1 \in 0..Len(l)
  BY <1>1
<1>. QED
  BY <1>1, <1>2, <1>3 DEF Suffix

LEMMA FreshTail ==
    ASSUME NEW l \in Seq(Ops), l # <<>>, Shaped(l), NEW S, Undirties(l, S),
           Head(l).do \notin {"compute", "legacy", "v2", "position", "drop_legacy", "drop"}
    PROVE  Fresh(Tail(l), S)
<1>1. SUFFICES ASSUME Len(Tail(l)) > 0
               PROVE  Tail(l)[1].do \notin Inner /\ (Tail(l)[1].do = "undirty" => Tail(l)[1].u \in S)
  BY DEF Fresh
<1>2. 2 \in 1..Len(l) /\ 2 \in 2..Len(l) /\ 2 > 1 /\ 2 - 1 = 1 /\ Head(l) = l[1]
  BY <1>1, TailFacts
<1>3. 1 \in 1..Len(Tail(l)) /\ Tail(l)[1] = l[2]
  BY <1>1, TailFacts
<1>4. Shaped(l)!(2)
  BY <1>2 DEF Shaped
<1>5. l[2].do = "undirty" => After(l, 2, "v2") \/ After(l, 2, "drop") \/ l[2].u \in S
  BY <1>2 DEF Undirties
<1>. QED
  BY <1>2, <1>3, <1>4, <1>5 DEF After, Inner

\* Two lists are joined.
LEMMA JoinFacts ==
    ASSUME NEW a \in Seq(Ops), NEW b \in Seq(Ops)
    PROVE  /\ a \o b \in Seq(Ops) /\ Len(a \o b) = Len(a) + Len(b) /\ Len(a) \in Nat /\ Len(b) \in Nat
           /\ \A k \in 1..Len(a) : k \in 1..Len(a \o b) /\ (a \o b)[k] = a[k]
           /\ \A k \in 1..Len(b) : k + Len(a) \in 1..Len(a \o b) /\ (a \o b)[k + Len(a)] = b[k]
           /\ \A k \in 1..Len(a \o b) : k \in 1..Len(a) \/ (k - Len(a) \in 1..Len(b) /\ (a \o b)[k] = b[k - Len(a)])
OBVIOUS

LEMMA JoinShaped ==
    ASSUME NEW a \in Seq(Ops), NEW b \in Seq(Ops), Shaped(a), Shaped(b), NEW S, Fresh(b, S),
           \A k \in 1..Len(a) : k = Len(a) => a[k].do # "v2"
    PROVE  Shaped(a \o b)
<1>1. PICK c : c = a \o b
  OBVIOUS
<1>2. PICK n \in Nat : n = Len(a)
  OBVIOUS
<1>3. /\ c \in Seq(Ops) /\ Len(c) = n + Len(b) /\ Len(b) \in Nat
      /\ \A k \in 1..n : k \in 1..Len(c) /\ c[k] = a[k]
      /\ \A k \in 1..Len(b) : k + n \in 1..Len(c) /\ c[k + n] = b[k]
      /\ \A k \in 1..Len(c) : k \in 1..n \/ k - n \in 1..Len(b)
  BY <1>1, <1>2, JoinFacts
<1>4. ASSUME NEW k \in 1..n PROVE Shaped(c)!(k)
  <2>1. Shaped(a)!(k) /\ c[k] = a[k]
    BY <1>2, <1>3, <1>4 DEF Shaped
  <2>2. k < n => k + 1 \in 1..n /\ k < Len(c) /\ c[k + 1] = a[k + 1]
    BY <1>3
  <2>3. \A do : Then(a, k, do) => Then(c, k, do) /\ c[k + 1] = a[k + 1]
    BY <1>2, <2>1, <2>2 DEF Then
  <2>4. k > 1 => k - 1 \in 1..n /\ c[k - 1] = a[k - 1]
    BY <1>3
  <2>5. k > 1 => \A do : After(a, k, do) => After(c, k, do)
    BY <2>1, <2>4 DEF After
  <2>6. k + 2 <= n => k + 2 <= Len(c) /\ c[k + 2] = a[k + 2]
    <3>1. k + 2 <= n => k + 2 \in 1..n /\ k + 2 <= Len(c)
      BY <1>3
    <3>. QED
      BY <1>3, <3>1
  <2>7. a[k].do = "v2" => Then(a, k, "undirty")
    BY <1>2, <2>1
  <2>. QED
    BY <1>2, <2>1, <2>3, <2>5, <2>6, <2>7
<1>5. ASSUME NEW j \in 1..Len(b) PROVE Shaped(c)!(j + n)
  <2>1. Shaped(b)!(j) /\ c[j + n] = b[j]
    BY <1>3 DEF Shaped
  <2>2. j < Len(b) => (j + n) < Len(c) /\ c[(j + n) + 1] = b[j + 1]
    <3>1. j < Len(b) => j + 1 \in 1..Len(b) /\ (j + 1) + n = (j + n) + 1 /\ (j + n) < Len(c)
      BY <1>3
    <3>. QED
      BY <1>3, <3>1
  <2>3. \A do : Then(b, j, do) => Then(c, j + n, do) /\ c[(j + n) + 1] = b[j + 1]
    BY <2>1, <2>2 DEF Then
  <2>4. j > 1 => c[(j + n) - 1] = b[j - 1]
    <3>1. j > 1 => j - 1 \in 1..Len(b) /\ (j - 1) + n = (j + n) - 1
      BY <1>3
    <3>. QED
      BY <1>3, <3>1
  <2>5. j > 1 => \A do : After(b, j, do) => After(c, j + n, do)
    BY <2>1, <2>4 DEF After
  <2>6. j = 1 => c[j + n].do \notin Inner
    BY <2>1 DEF Fresh
  <2>7. j + 2 <= Len(b) => (j + n) + 2 <= Len(c) /\ c[(j + n) + 2] = b[j + 2]
    <3>1. j + 2 <= Len(b) => j + 2 \in 1..Len(b) /\ (j + 2) + n = (j + n) + 2 /\ (j + n) + 2 <= Len(c)
      BY <1>3
    <3>. QED
      BY <1>3, <3>1
  <2>8. j = Len(b) => j + n = Len(c)
    BY <1>3
  <2>9. j = 1 \/ j > 1
    BY <1>3
  <2>10. j > 1 => Shaped(c)!(j + n)
    BY <2>1, <2>3, <2>5, <2>7, <2>8
  <2>11. j = 1 => Shaped(c)!(j + n)
    BY <2>1, <2>3, <2>6, <2>7, <2>8 DEF Inner
  <2>. QED
    BY <2>9, <2>10, <2>11
<1>6. ASSUME NEW k \in 1..Len(c) PROVE Shaped(c)!(k)
  <2>1. CASE k \in 1..n
    BY <1>4, <2>1
  <2>2. CASE k - n \in 1..Len(b)
    <3>1. (k - n) + n = k
      BY <1>3
    <3>2. PICK j \in 1..Len(b) : j + n = k
      BY <2>2, <3>1
    <3>. QED
      BY <1>5, <3>2
  <2>. QED
    BY <1>3, <2>1, <2>2
<1>7. Shaped(c)
  BY <1>6 DEF Shaped
<1>. QED
  BY <1>1, <1>7

LEMMA JoinUndirties ==
    ASSUME NEW a \in Seq(Ops), NEW b \in Seq(Ops), NEW S, Undirties(a, S), Undirties(b, S), Fresh(b, S), Fresh(a, S)
    PROVE  Undirties(a \o b, S) /\ Fresh(a \o b, S)
<1>1. PICK c : c = a \o b
  OBVIOUS
<1>2. PICK n \in Nat : n = Len(a)
  OBVIOUS
<1>3. /\ c \in Seq(Ops) /\ Len(c) = n + Len(b) /\ Len(b) \in Nat
      /\ \A k \in 1..n : k \in 1..Len(c) /\ c[k] = a[k]
      /\ \A k \in 1..Len(b) : k + n \in 1..Len(c) /\ c[k + n] = b[k]
      /\ \A k \in 1..Len(c) : k \in 1..n \/ k - n \in 1..Len(b)
  BY <1>1, <1>2, JoinFacts
<1>4. Fresh(c, S)
  <2>1. CASE n > 0
    <3>1. 1 \in 1..n /\ c[1] = a[1]
      BY <1>3, <2>1
    <3>. QED
      BY <1>2, <2>1, <3>1 DEF Fresh
  <2>2. CASE n = 0
    <3>1. Len(c) > 0 => 1 \in 1..Len(b) /\ 1 + n = 1 /\ Len(b) > 0
      BY <1>3, <2>2
    <3>2. Len(c) > 0 => c[1] = b[1]
      BY <1>3, <3>1
    <3>. QED
      BY <3>1, <3>2 DEF Fresh
  <2>. QED
    BY <2>1, <2>2
<1>5. ASSUME NEW k \in 2..Len(c), c[k].do = "undirty"
      PROVE  After(c, k, "v2") \/ After(c, k, "drop") \/ c[k].u \in S
  <2>0. k \in 1..Len(c) /\ k \in Nat /\ k >= 2
    BY <1>3
  <2>1. CASE k \in 1..n
    <3>1. k \in 2..n /\ k - 1 \in 1..n
      BY <2>0, <2>1
    <3>2. c[k] = a[k] /\ c[k - 1] = a[k - 1]
      BY <1>3, <2>1, <3>1
    <3>. QED
      BY <1>2, <1>5, <3>1, <3>2 DEF Undirties, After
  <2>2. CASE k - n \in 1..Len(b)
    <3>1. PICK j \in 1..Len(b) : j = k - n
      BY <2>2
    <3>2. j + n = k /\ c[k] = b[j]
      <4>1. j + n = k
        BY <1>3, <2>0, <3>1
      <4>. QED
        BY <1>3, <4>1
    <3>3. CASE j = 1
      <4>1. Len(b) > 0
        BY <3>3
      <4>. QED
        BY <1>5, <3>2, <3>3, <4>1 DEF Fresh
    <3>4. CASE j > 1
      <4>1. j \in 2..Len(b) /\ j - 1 \in 1..Len(b) /\ (j - 1) + n = k - 1
        BY <2>0, <3>1, <3>4
      <4>2. c[k - 1] = b[j - 1]
        BY <1>3, <4>1
      <4>. QED
        BY <1>5, <3>2, <4>1, <4>2 DEF Undirties, After
    <3>5. j = 1 \/ j > 1
      OBVIOUS
    <3>. QED
      BY <3>3, <3>4, <3>5
  <2>. QED
    BY <1>3, <2>0, <2>1, <2>2
<1>6. Undirties(c, S)
  BY <1>5 DEF Undirties
<1>. QED
  BY <1>1, <1>4, <1>6

\* What the first instruction takes with it.
LEMMA TailCovers ==
    ASSUME NEW l \in Seq(Ops), l # <<>>, Shaped(l), NEW t, NEW u
    PROVE  /\ Marks(l, u) => \/ Marks(Tail(l), u)
                             \/ Head(l).do = "notify" /\ Head(l).u # u
                             \/ Head(l).do = "position" /\ Head(l).u = u /\ l[2].do = "notify"
                             \/ Head(l).do = "mark_dirty" /\ Head(l).u = u
           /\ WritesLegacy(t, l, u) => \/ WritesLegacy(t, Tail(l), u)
                                       \/ Head(l).u = u /\ Head(l).do \in {"drop_legacy", "legacy"}
           /\ WritesV2(t, l, u) => \/ WritesV2(t, Tail(l), u)
                                   \/ Head(l).u = u /\ Head(l).do \in {"drop", "v2"}
<1>1. PICK s : s = Tail(l)
  OBVIOUS
<1>2. /\ s \in Seq(Ops) /\ Head(l) = l[1] /\ Len(l) \in Nat /\ Len(s) = Len(l) - 1
      /\ \A k \in 1..Len(s) : s[k] = l[k + 1]
  BY <1>1, TailFacts
<1>3. \A k \in 1..Len(l) : k = 1 \/ (k > 1 /\ k - 1 \in 1..Len(s) /\ s[k - 1] = l[k])
  <2>1. SUFFICES ASSUME NEW k \in 1..Len(l), k # 1 PROVE k > 1 /\ k - 1 \in 1..Len(s) /\ s[k - 1] = l[k]
    OBVIOUS
  <2>2. k > 1 /\ k - 1 \in 1..Len(s) /\ (k - 1) + 1 = k
    BY <1>2, <2>1
  <2>. QED
    BY <1>2, <2>2
<1>4. \A do : Has(l, do, u) => Has(s, do, u) \/ (Head(l).do = do /\ Head(l).u = u)
  BY <1>2, <1>3 DEF Has
<1>5. \A do : Safe(t, l, do, u) => Safe(t, s, do, u) \/ (Head(l).do = do /\ Head(l).u = u)
  BY <1>2, <1>3 DEF Safe
<1>6. ASSUME Owes(l, u)
      PROVE  Owes(s, u) \/ (Head(l).do = "notify" /\ Head(l).u # u) \/ (Head(l).do = "position" /\ Head(l).u = u /\ l[2].do = "notify")
  <2>1. PICK k \in 1..Len(l) : l[k].do = "notify" /\ (l[k].u # u \/ k > 1)
    BY <1>6 DEF Owes
  <2>2. CASE k = 1
    BY <1>2, <2>1, <2>2
  <2>3. CASE k > 1
    <3>1. k - 1 \in 1..Len(s) /\ s[k - 1] = l[k]
      BY <1>3, <2>3
    <3>2. CASE l[k].u # u \/ k - 1 > 1
      BY <2>1, <3>1, <3>2 DEF Owes
    <3>3. CASE l[k].u = u /\ ~(k - 1 > 1)
      <4>1. k = 2 /\ 2 - 1 = 1
        BY <2>3, <3>3
      <4>2. After(l, k, "position")
        BY <2>1, <2>3 DEF Shaped
      <4>. QED
        BY <1>2, <2>1, <3>3, <4>1, <4>2 DEF After
    <3>. QED
      BY <3>2, <3>3
  <2>. QED
    BY <2>2, <2>3
<1>. QED
  BY <1>1, <1>4, <1>5, <1>6 DEF Marks, WritesLegacy, WritesV2

\* What is to be done stays to be done when something is put before it.
LEMMA JoinCovers ==
    ASSUME NEW a \in Seq(Ops), NEW b \in Seq(Ops), NEW t, NEW u
    PROVE  /\ Marks(b, u) => Marks(a \o b, u)
           /\ WritesLegacy(t, b, u) => WritesLegacy(t, a \o b, u)
           /\ WritesV2(t, b, u) => WritesV2(t, a \o b, u)
           /\ \A do : Has(a, do, u) => Has(a \o b, do, u)
           /\ \A k \in 1..Len(a) : a[k].do = "notify" /\ k > 1 => Owes(a \o b, u)
<1>1. PICK c : c = a \o b
  OBVIOUS
<1>2. PICK n \in Nat : n = Len(a)
  OBVIOUS
<1>3. /\ c \in Seq(Ops) /\ Len(b) \in Nat
      /\ \A k \in 1..n : k \in 1..Len(c) /\ c[k] = a[k]
      /\ \A k \in 1..Len(b) : k + n \in 1..Len(c) /\ c[k + n] = b[k]
  BY <1>1, <1>2, JoinFacts
<1>4. \A do : Has(b, do, u) => Has(c, do, u)
  BY <1>3 DEF Has
<1>5. \A do : Safe(t, b, do, u) => Safe(t, c, do, u)
  BY <1>3 DEF Safe
<1>6. \A k \in 1..Len(b) : k > 1 => k + n > 1
  BY <1>3
<1>7. Owes(b, u) => Owes(c, u)
  BY <1>3, <1>6 DEF Owes
<1>8. \A do : Has(a, do, u) => Has(c, do, u)
  BY <1>2, <1>3 DEF Has
<1>9. \A k \in 1..Len(a) : a[k].do = "notify" /\ k > 1 => Owes(c, u)
  BY <1>2, <1>3 DEF Owes
<1>. QED
  BY <1>1, <1>4, <1>5, <1>7, <1>8, <1>9 DEF Marks, WritesLegacy, WritesV2

\* Lists of whole operations that recount nobody and delete no mark.
Plain(l) == /\ l \in Seq(Ops) /\ Shaped(l) /\ Fresh(l, {})
            /\ \A k \in 1..Len(l) : l[k].do \notin {"v2", "sync", "undirty"}

LEMMA PlainFacts ==
    ASSUME NEW a, Plain(a), NEW t \in Tasks, NEW S
    PROVE  Belongs(t, a) /\ Undirties(a, S) /\ Fresh(a, S)
<1>1. a \in Seq(Ops) /\ Len(a) \in Nat /\ \A k \in 1..Len(a) : a[k].do \notin {"v2", "sync", "undirty"}
  BY DEF Plain
<1>2. Belongs(t, a)
  BY <1>1 DEF Belongs
<1>3. Undirties(a, S)
  BY <1>1 DEF Undirties
<1>4. Len(a) > 0 => 1 \in 1..Len(a)
  BY <1>1
<1>. QED
  BY <1>1, <1>2, <1>3, <1>4 DEF Fresh, Plain

LEMMA PlainJoin ==
    ASSUME NEW a, Plain(a), NEW b \in Seq(Ops), Shaped(b), NEW S, Fresh(b, S), Undirties(b, S), NEW t \in Tasks, Belongs(t, b)
    PROVE  /\ a \o b \in Seq(Ops) /\ Shaped(a \o b) /\ Belongs(t, a \o b) /\ Undirties(a \o b, S) /\ Fresh(a \o b, S)
           /\ Plain(b) => Plain(a \o b)
<1>1. PICK c : c = a \o b
  OBVIOUS
<1>2. a \in Seq(Ops) /\ \A k \in 1..Len(a) : a[k].do \notin {"v2", "sync", "undirty"}
  BY DEF Plain
<1>3. PICK n \in Nat : n = Len(a)
  BY <1>2
<1>4. /\ c \in Seq(Ops) /\ Len(c) = n + Len(b) /\ Len(b) \in Nat
      /\ \A k \in 1..n : k \in 1..Len(c) /\ c[k] = a[k]
      /\ \A k \in 1..Len(c) : k \in 1..n \/ (k - n \in 1..Len(b) /\ c[k] = b[k - n])
  BY <1>1, <1>2, <1>3, JoinFacts
<1>5. Shaped(c)
  BY <1>1, <1>2, JoinShaped DEF Plain
<1>6. Undirties(c, S) /\ Fresh(c, S)
  BY <1>1, <1>2, PlainFacts, JoinUndirties
<1>7. Belongs(t, c)
  <2>1. ASSUME NEW k \in 1..Len(c) PROVE c[k].do # "sync" /\ (c[k].do = "v2" => k = Len(c))
    <3>1. CASE k \in 1..n
      BY <1>2, <1>3, <1>4, <3>1
    <3>2. CASE k - n \in 1..Len(b) /\ c[k] = b[k - n]
      <4>1. k - n = Len(b) => k = Len(c)
        BY <1>4
      <4>. QED
        BY <3>2, <4>1 DEF Belongs
    <3>. QED
      BY <1>4, <3>1, <3>2
  <2>. QED
    BY <2>1 DEF Belongs
<1>8. ASSUME Plain(b) PROVE Plain(c)
  <2>1. \A k \in 1..Len(c) : c[k].do \notin {"v2", "sync", "undirty"}
    BY <1>2, <1>3, <1>4, <1>8 DEF Plain
  <2>2. Undirties(a, {}) /\ Undirties(b, {}) /\ Fresh(a, {}) /\ Fresh(b, {})
    BY <1>8, PlainFacts
  <2>3. Fresh(c, {})
    BY <1>1, <1>2, <2>2, JoinUndirties
  <2>. QED
    BY <1>4, <1>5, <2>1, <2>3 DEF Plain
<1>. QED
  BY <1>1, <1>4, <1>5, <1>6, <1>7, <1>8

LEMMA PlainPairs == ASSUME NEW a, NEW b, Plain(a), Plain(b), NEW t \in Tasks PROVE Plain(a \o b)
<1>1. b \in Seq(Ops) /\ Shaped(b) /\ Belongs(t, b) /\ Undirties(b, {}) /\ Fresh(b, {})
  BY PlainFacts DEF Plain
<1>. QED
  BY <1>1, PlainJoin

(* The lists of the operations. *)

LEMMA OneOp ==
    ASSUME NEW do \in {"heal", "mention_activity", "playbook", "system", "mark_dirty"}, NEW u \in People, NEW p \in Nat
    PROVE  Plain(<<Op(do, u, p)>>)
<1>1. PICK l : l = <<Op(do, u, p)>>
  OBVIOUS
<1>2. do \in Does
  BY DEF Does
<1>3. l \in Seq(Ops) /\ Len(l) = 1 /\ l[1].do = do
  BY <1>1, <1>2 DEF Op, Ops
<1>4. \A k \in 1..Len(l) : k = 1
  BY <1>3
<1>5. Shaped(l)
  BY <1>3, <1>4 DEF Shaped
<1>. QED
  BY <1>1, <1>3, <1>4, <1>5 DEF Plain, Fresh, Inner

LEMMA NoOp == Plain(<<>>)
BY DEF Plain, Shaped, Fresh

\* increment_unreads: the position of the author, then the others.
LEMMA IncrementList ==
    ASSUME NEW u \in People, NEW p \in Nat
    PROVE  /\ Plain(increment_unreads(u, p))
           /\ increment_unreads(u, p) \in Seq(Ops) /\ Len(increment_unreads(u, p)) = 2
           /\ increment_unreads(u, p)[2].do = "notify"
<1>1. PICK l : l = increment_unreads(u, p)
  OBVIOUS
<1>2. "position" \in Does /\ "notify" \in Does
  BY DEF Does
<1>3. /\ l \in Seq(Ops) /\ Len(l) = 2
      /\ l[1].do = "position" /\ l[1].u = u /\ l[2].do = "notify" /\ l[2].u = u
  BY <1>1, <1>2 DEF Op, Ops, increment_unreads
<1>4. \A k \in 1..Len(l) : k = 1 \/ k = 2
  BY <1>3
<1>5. Shaped(l)
  BY <1>3, <1>4 DEF Shaped, Then, After
<1>. QED
  BY <1>1, <1>3, <1>4, <1>5 DEF Plain, Fresh, Inner

LEMMA MemberList ==
    ASSUME NEW u \in People
    PROVE  /\ Plain(increment_member(u)) /\ Len(increment_member(u)) = 4
           /\ increment_member(u)[4].do = "mark_dirty" /\ increment_member(u)[4].u = u
<1>1. PICK l : l = increment_member(u)
  OBVIOUS
<1>2. "incr_legacy" \in Does /\ "incr_count" \in Does /\ "incr_root" \in Does /\ "mark_dirty" \in Does
  BY DEF Does
<1>3. /\ l \in Seq(Ops) /\ Len(l) = 4
      /\ l[1].do = "incr_legacy" /\ l[1].u = u /\ l[2].do = "incr_count" /\ l[2].u = u
      /\ l[3].do = "incr_root" /\ l[3].u = u /\ l[4].do = "mark_dirty" /\ l[4].u = u
  BY <1>1, <1>2 DEF Op, Ops, increment_member
<1>4. \A k \in 1..Len(l) : k = 1 \/ k = 2 \/ k = 3 \/ k = 4
  BY <1>3
<1>5. Shaped(l)
  BY <1>3, <1>4 DEF Shaped, Then, After
<1>. QED
  BY <1>1, <1>3, <1>4, <1>5 DEF Plain, Fresh, Inner

\* increment_unreads, once it has read the members: everyone gets a mark.
LEMMA NotifyList ==
    ASSUME NEW S \in SUBSET Users, NEW t \in Tasks, NEW to, to = SetToSeq(S), NEW l,
           l = FlattenSeq([i \in DOMAIN to |-> increment_member(to[i])])
    PROVE  Plain(l) /\ \A u \in S : Has(l, "mark_dirty", u)
<1>1. IsFiniteSet(S)
  BY UnreadsAssumption, FS_Subset
<1>2. to \in Seq(S) /\ (\A u \in S : \E k \in 1..Len(to) : to[k] = u) /\ DOMAIN to = 1..Len(to) /\ Len(to) \in Nat
  BY <1>1, SetToSeqFacts
<1>3. PICK seqs : seqs = [i \in DOMAIN to |-> increment_member(to[i])]
  OBVIOUS
<1>4. PICK W : W = {a \in Seq(Ops) : Plain(a)}
  OBVIOUS
<1>5. \A a : Plain(a) <=> a \in W
  BY <1>4 DEF Plain
<1>6. W \in SUBSET Seq(Ops) /\ \A a, b \in W : a \o b \in W
  BY <1>4, <1>5, PlainPairs
<1>7. \A i \in 1..Len(to) : to[i] \in People /\ seqs[i] = increment_member(to[i]) /\ increment_member(to[i]) \in W
  BY <1>2, <1>3, <1>5, MemberList DEF People
<1>8. seqs \in Seq(W) /\ Len(seqs) = Len(to)
  BY <1>2, <1>3, <1>7
<1>9. CASE Len(to) = 0
  <2>1. l = seqs
    BY <1>3, <1>8, <1>9 DEF FlattenSeq
  <2>2. l = <<>>
    BY <1>8, <1>9, <2>1
  <2>3. S = {}
    BY <1>2, <1>9
  <2>. QED
    BY <2>2, <2>3, NoOp
<1>10. CASE Len(to) # 0
  <2>1. /\ FlattenSeq(seqs) \in W
        /\ \A j \in 1..Len(seqs) : \A k \in 1..Len(seqs[j]) :
                 \E m \in 1..Len(FlattenSeq(seqs)) : FlattenSeq(seqs)[m] = seqs[j][k]
    BY <1>6, <1>8, <1>10, FlattenFacts
  <2>2. l = FlattenSeq(seqs)
    BY <1>3
  <2>3. ASSUME NEW u \in S PROVE Has(l, "mark_dirty", u)
    <3>1. PICK j \in 1..Len(to) : to[j] = u
      BY <1>2
    <3>2. u \in People
      BY DEF People
    <3>3. Len(seqs[j]) = 4 /\ seqs[j][4].do = "mark_dirty" /\ seqs[j][4].u = u
      BY <1>7, <3>1, <3>2, MemberList
    <3>4. j \in 1..Len(seqs) /\ 4 \in 1..Len(seqs[j])
      BY <1>8, <3>3
    <3>5. \E m \in 1..Len(l) : l[m] = seqs[j][4]
      <4>1. \A k \in 1..Len(seqs[j]) : \E m \in 1..Len(FlattenSeq(seqs)) : FlattenSeq(seqs)[m] = seqs[j][k]
        BY <2>1, <3>4
      <4>. QED
        BY <2>2, <3>4, <4>1
    <3>. QED
      BY <3>3, <3>5 DEF Has
  <2>. QED
    BY <1>5, <2>1, <2>2, <2>3
<1>. QED
  BY <1>9, <1>10

\* The same without a connection.
LEMMA MarkList ==
    ASSUME NEW S \in SUBSET Users, NEW to, to = SetToSeq(S), NEW l, l = [i \in DOMAIN to |-> Op("mark_dirty", to[i], 0)]
    PROVE  Plain(l) /\ \A u \in S : Has(l, "mark_dirty", u)
<1>1. IsFiniteSet(S)
  BY UnreadsAssumption, FS_Subset
<1>2. to \in Seq(S) /\ (\A u \in S : \E k \in 1..Len(to) : to[k] = u) /\ DOMAIN to = 1..Len(to) /\ Len(to) \in Nat
  BY <1>1, SetToSeqFacts
<1>3. "mark_dirty" \in Does
  BY DEF Does
<1>4. \A i \in 1..Len(to) : Op("mark_dirty", to[i], 0) \in Ops
  BY <1>2, <1>3 DEF Op, Ops, People
<1>5. l \in Seq(Ops) /\ Len(l) = Len(to) /\ \A k \in 1..Len(l) : l[k] = Op("mark_dirty", to[k], 0)
  BY <1>2, <1>4
<1>6. \A k \in 1..Len(l) : l[k].do = "mark_dirty" /\ l[k].u = to[k]
  BY <1>5 DEF Op
<1>7. Shaped(l)
  BY <1>6 DEF Shaped
<1>8. Len(l) > 0 => 1 \in 1..Len(l)
  BY <1>5
<1>9. Plain(l)
  BY <1>5, <1>6, <1>7, <1>8 DEF Plain, Fresh, Inner
<1>. QED
  BY <1>2, <1>5, <1>6, <1>9 DEF Has

\* A recount, alone, after a new position, or with the deletion of the mark.
LEMMA RecountList ==
    ASSUME NEW u \in People, NEW p \in Nat, NEW t \in Tasks, NEW S
    PROVE  LET l == Recount(u, p)
           IN  l \in Seq(Ops) /\ Shaped(l) /\ Belongs(t, l) /\ Undirties(l, S) /\ Fresh(l, S)
<1>1. PICK l : l = Recount(u, p)
  OBVIOUS
<1>2. "compute" \in Does /\ "legacy" \in Does /\ "v2" \in Does
  BY DEF Does
<1>3. /\ l \in Seq(Ops) /\ Len(l) = 3
      /\ l[1].do = "compute" /\ l[1].u = u /\ l[2].do = "legacy" /\ l[2].u = u /\ l[2].p = p
      /\ l[3].do = "v2" /\ l[3].u = u /\ l[3].p = p
  BY <1>1, <1>2 DEF Op, Ops, Recount
<1>4. \A k \in 1..Len(l) : k = 1 \/ k = 2 \/ k = 3
  BY <1>3
<1>5. Shaped(l)
  BY <1>3, <1>4 DEF Shaped, Then, After
<1>6. \A k \in 2..Len(l) : k \in 1..Len(l)
  OBVIOUS
<1>7. Belongs(t, l) /\ Undirties(l, S) /\ Fresh(l, S)
  BY <1>3, <1>4, <1>6 DEF Belongs, Undirties, Fresh, Inner
<1>. QED
  BY <1>1, <1>3, <1>5, <1>7

LEMMA ReadList ==
    ASSUME NEW u \in People, NEW p \in Nat, NEW t \in Tasks, NEW S
    PROVE  LET l == mark_channel_as_read(u, p)
           IN  l \in Seq(Ops) /\ Shaped(l) /\ Belongs(t, l) /\ Undirties(l, S) /\ Fresh(l, S)
<1>1. PICK l : l = mark_channel_as_read(u, p)
  OBVIOUS
<1>2. "position" \in Does /\ "compute" \in Does /\ "legacy" \in Does /\ "v2" \in Does
  BY DEF Does
<1>3. /\ l \in Seq(Ops) /\ Len(l) = 4
      /\ l[1].do = "position" /\ l[1].u = u
      /\ l[2].do = "compute" /\ l[2].u = u /\ l[3].do = "legacy" /\ l[3].u = u /\ l[3].p = 0
      /\ l[4].do = "v2" /\ l[4].u = u /\ l[4].p = 0
  <2>1. PICK a, b : a = <<Op("position", u, p)>> /\ b = Recount(u, 0)
    OBVIOUS
  <2>2. a \in Seq(Ops) /\ Len(a) = 1 /\ a[1] = Op("position", u, p)
    BY <1>2, <2>1 DEF Op, Ops
  <2>3. /\ b \in Seq(Ops) /\ Len(b) = 3
        /\ b[1] = Op("compute", u, 0) /\ b[2] = Op("legacy", u, 0) /\ b[3] = Op("v2", u, 0)
    BY <1>2, <2>1 DEF Op, Ops, Recount
  <2>4. l = a \o b
    BY <1>1, <2>1 DEF mark_channel_as_read, cache_channel_unread_best_effort
  <2>5. l \in Seq(Ops) /\ Len(l) = 4 /\ l[1] = a[1] /\ l[2] = b[1] /\ l[3] = b[2] /\ l[4] = b[3]
    <3>0. a \o b \in Seq(Ops) /\ Len(a \o b) = Len(a) + Len(b)
      BY <2>2, <2>3, JoinFacts
    <3>1. l \in Seq(Ops) /\ Len(l) = 4
      BY <2>2, <2>3, <2>4, <3>0
    <3>2. 1 \in 1..Len(a) /\ 1 \in 1..Len(b) /\ 2 \in 1..Len(b) /\ 3 \in 1..Len(b)
      BY <2>2, <2>3
    <3>3. l[1] = a[1] /\ l[1 + Len(a)] = b[1] /\ l[2 + Len(a)] = b[2] /\ l[3 + Len(a)] = b[3]
      BY <2>2, <2>3, <2>4, <3>2, JoinFacts
    <3>. QED
      BY <2>2, <3>1, <3>3
  <2>. QED
    BY <2>2, <2>3, <2>5 DEF Op
<1>4. \A k \in 1..Len(l) : k = 1 \/ k = 2 \/ k = 3 \/ k = 4
  BY <1>3
<1>5. Shaped(l)
  BY <1>3, <1>4 DEF Shaped, Then, After
<1>6. \A k \in 2..Len(l) : k \in 1..Len(l)
  OBVIOUS
<1>7. Belongs(t, l) /\ Undirties(l, S) /\ Fresh(l, S)
  BY <1>3, <1>4, <1>6 DEF Belongs, Undirties, Fresh, Inner
<1>. QED
  BY <1>1, <1>3, <1>5, <1>7

LEMMA ReadAllList ==
    ASSUME NEW u \in Users, NEW t \in Tasks, DataOK, MembersOK
    PROVE  LET l == mark_all_as_read(u)
           IN  l \in Seq(Ops) /\ Shaped(l) /\ Belongs(t, l) /\ Undirties(l, Missed) /\ Fresh(l, Missed)
<1>0. u \in People /\ Len(posts) \in Nat
  BY DEF People, DataOK
<1>1. PICK l : l = mark_all_as_read(u)
  OBVIOUS
<1>2. "position" \in Does /\ "drop_legacy" \in Does /\ "drop" \in Does /\ "undirty" \in Does
  BY DEF Does
<1>3. CASE u \in members
  <2>3. /\ l \in Seq(Ops) /\ Len(l) = 4
        /\ l[1].do = "position" /\ l[1].u = u
        /\ l[2].do = "drop_legacy" /\ l[2].u = u /\ l[3].do = "drop" /\ l[3].u = u
        /\ l[4].do = "undirty" /\ l[4].u = u
    BY <1>0, <1>1, <1>2, <1>3 DEF Op, Ops, mark_all_as_read
  <2>4. \A k \in 1..Len(l) : k = 1 \/ k = 2 \/ k = 3 \/ k = 4
    BY <2>3
  <2>5. Shaped(l)
    BY <2>3, <2>4 DEF Shaped, Then, After
  <2>6. \A k \in 2..Len(l) : k \in 1..Len(l)
    OBVIOUS
  <2>7. Belongs(t, l) /\ Fresh(l, Missed)
    BY <2>3, <2>4, <2>6 DEF Belongs, Fresh, Inner
  <2>8. Undirties(l, Missed)
    BY <2>3, <2>4, <2>6 DEF Undirties, After
  <2>. QED
    BY <1>1, <2>3, <2>5, <2>7, <2>8
<1>4. CASE u \notin members
  <2>1. l \in Seq(Ops) /\ Len(l) = 1 /\ l[1].do = "undirty" /\ l[1].u = u
    BY <1>0, <1>1, <1>2, <1>4 DEF Op, Ops, mark_all_as_read
  <2>2. u \in Missed
    BY <1>4 DEF MembersOK, Missed
  <2>3. \A k \in 1..Len(l) : k = 1
    BY <2>1
  <2>4. Shaped(l)
    BY <2>1, <2>3 DEF Shaped
  <2>5. Belongs(t, l) /\ Undirties(l, Missed) /\ Fresh(l, Missed)
    BY <2>1, <2>2, <2>3 DEF Belongs, Undirties, Fresh, Inner
  <2>. QED
    BY <1>1, <2>1, <2>4, <2>5
<1>. QED
  BY <1>3, <1>4

\* A list that begins with nothing that depends on what was done before.
Opens(l, S) == Len(l) > 0 => l[1].do \notin {"legacy", "v2", "drop"} /\ (l[1].do = "undirty" => l[1].u \in S)
\* A reply to post i is still to be counted.
Counts(l, i) == \E k \in DOMAIN l : l[k].do = "count_reply" /\ l[k].p = i

\* Only the first instruction of a list counts a reply.
LEMMA CountsFirst ==
    ASSUME NEW l \in Seq(Ops), Shaped(l), NEW i
    PROVE  Counts(l, i) <=> Len(l) > 0 /\ l[1].do = "count_reply" /\ l[1].p = i
<1>1. DOMAIN l = 1..Len(l) /\ Len(l) \in Nat
  OBVIOUS
<1>2. \A k \in 1..Len(l) : k > 1 => l[k].do # "count_reply"
  BY DEF Shaped
<1>3. Len(l) > 0 => 1 \in 1..Len(l)
  BY <1>1
<1>4. \A k \in 1..Len(l) : k = 1 \/ k > 1
  BY <1>1
<1>5. \A k \in 1..Len(l) : Len(l) > 0
  BY <1>1
<1>. QED
  BY <1>1, <1>2, <1>3, <1>4, <1>5 DEF Counts

LEMMA FreshOpens == ASSUME NEW l, NEW S, Fresh(l, S) PROVE Opens(l, S)
BY DEF Fresh, Opens, Inner

\* create_post: the new post is owed to everyone, the reply to its root.
LEMMA InsertList ==
    ASSUME NEW t \in Tasks, NEW u \in People, NEW root \in Nat, NEW seq \in Nat, NEW kind, NEW l,
           l = AfterInsert(u, root, seq, kind), NEW S
    PROVE  /\ l \in Seq(Ops) /\ Shaped(l) /\ Belongs(t, l) /\ Undirties(l, S) /\ Opens(l, S)
           /\ \A v : Owes(l, v)
           /\ \A i : Counts(l, i) <=> root # 0 /\ i = root
<1>1. PICK heal : heal = IF direct THEN <<Op("heal", u, 0)>> ELSE <<>>
  OBVIOUS
<1>2. PICK ment : ment = IF kind = "mention" THEN <<Op("mention_activity", u, seq)>> ELSE <<>>
  OBVIOUS
<1>3. PICK inc : inc = increment_unreads(u, seq)
  OBVIOUS
<1>4. Plain(heal)
  BY <1>1, OneOp, NoOp
<1>5. Plain(ment)
  BY <1>2, OneOp, NoOp
<1>6. Plain(inc) /\ inc \in Seq(Ops) /\ Len(inc) = 2 /\ inc[2].do = "notify"
  BY <1>3, IncrementList
<1>7. heal \in Seq(Ops) /\ ment \in Seq(Ops)
  BY <1>4, <1>5 DEF Plain
<1>8. PICK c : c = heal \o inc
  OBVIOUS
<1>9. PICK d : d = c \o ment
  OBVIOUS
<1>10. Plain(c) /\ Plain(d) /\ c \in Seq(Ops) /\ d \in Seq(Ops)
  <2>1. Plain(c)
    BY <1>4, <1>6, <1>8, PlainPairs
  <2>2. Plain(d)
    BY <1>5, <1>9, <2>1, PlainPairs
  <2>. QED
    BY <2>1, <2>2 DEF Plain
<1>11. \E k \in 1..Len(d) : d[k].do = "notify" /\ k > 1
  <2>1. 2 \in 1..Len(inc)
    BY <1>6
  <2>2. Len(heal) \in Nat /\ 2 + Len(heal) \in 1..Len(c) /\ c[2 + Len(heal)] = inc[2]
    BY <1>6, <1>7, <1>8, <2>1, JoinFacts
  <2>3. 2 + Len(heal) \in 1..Len(d) /\ d[2 + Len(heal)] = c[2 + Len(heal)]
    BY <1>7, <1>9, <1>10, <2>2, JoinFacts
  <2>4. 2 + Len(heal) > 1
    BY <2>2
  <2>. QED
    BY <1>6, <2>2, <2>3, <2>4
<1>12. d = AfterBroadcast(u, seq, kind)
  BY <1>1, <1>2, <1>3, <1>8, <1>9 DEF AfterBroadcast
<1>13. Shaped(d) /\ Belongs(t, d) /\ Undirties(d, S) /\ Fresh(d, S) /\ Fresh(d, {})
  BY <1>10, PlainFacts DEF Plain
<1>14. CASE root # 0
  <2>1. PICK a : a = <<Op("count_reply", u, root), Op("reply_activity", u, seq)>>
    OBVIOUS
  <2>2. "count_reply" \in Does /\ "reply_activity" \in Does
    BY DEF Does
  <2>3. /\ a \in Seq(Ops) /\ Len(a) = 2 /\ a[1].do = "count_reply" /\ a[1].p = root
        /\ a[2].do = "reply_activity"
    BY <2>1, <2>2 DEF Op, Ops
  <2>4. \A k \in 1..Len(a) : k = 1 \/ k = 2
    BY <2>3
  <2>5. Shaped(a)
    BY <2>3, <2>4 DEF Shaped
  <2>6. l = a \o d
    BY <1>12, <1>14, <2>1 DEF AfterInsert
  <2>7. Shaped(l)
    BY <1>10, <1>13, <2>3, <2>4, <2>5, <2>6, JoinShaped
  <2>8. /\ l \in Seq(Ops) /\ Len(l) = 2 + Len(d) /\ Len(d) \in Nat /\ 1 \in 1..2 /\ 1 \in 1..Len(l) /\ l[1] = a[1]
        /\ \A k \in 1..2 : k \in 1..Len(l) /\ l[k] = a[k]
        /\ \A k \in 1..Len(d) : k + 2 \in 1..Len(l) /\ l[k + 2] = d[k]
        /\ \A k \in 1..Len(l) : k \in 1..2 \/ (k - 2 \in 1..Len(d) /\ l[k] = d[k - 2])
    <3>1. /\ l \in Seq(Ops) /\ Len(l) = 2 + Len(d) /\ Len(d) \in Nat
          /\ \A k \in 1..2 : k \in 1..Len(l) /\ l[k] = a[k]
          /\ \A k \in 1..Len(d) : k + 2 \in 1..Len(l) /\ l[k + 2] = d[k]
          /\ \A k \in 1..Len(l) : k \in 1..2 \/ (k - 2 \in 1..Len(d) /\ l[k] = d[k - 2])
      <4>1. /\ a \o d \in Seq(Ops) /\ Len(a \o d) = Len(a) + Len(d) /\ Len(d) \in Nat
            /\ \A k \in 1..Len(a) : k \in 1..Len(a \o d) /\ (a \o d)[k] = a[k]
            /\ \A k \in 1..Len(d) : k + Len(a) \in 1..Len(a \o d) /\ (a \o d)[k + Len(a)] = d[k]
            /\ \A k \in 1..Len(a \o d) : k \in 1..Len(a) \/ (k - Len(a) \in 1..Len(d) /\ (a \o d)[k] = d[k - Len(a)])
        BY <1>10, <2>3, JoinFacts
      <4>2. Len(a) = 2
        BY <2>3
      <4>. QED
        BY <2>6, <4>1, <4>2
    <3>2. 1 \in 1..2
      OBVIOUS
    <3>. QED
      BY <3>1, <3>2
  <2>9. \A k \in 1..Len(l) : l[k].do \notin {"v2", "sync", "undirty"}
    <3>1. \A k \in 1..Len(d) : d[k].do \notin {"v2", "sync", "undirty"}
      BY <1>10 DEF Plain
    <3>2. \A k \in 1..2 : l[k].do \notin {"v2", "sync", "undirty"}
      BY <2>3, <2>4, <2>8
    <3>. QED
      BY <2>8, <3>1, <3>2
  <2>10. Belongs(t, l)
    BY <2>9 DEF Belongs
  <2>11. Undirties(l, S)
    BY <2>8, <2>9 DEF Undirties
  <2>12. Opens(l, S)
    BY <2>3, <2>8 DEF Opens
  <2>13. ASSUME NEW v PROVE Owes(l, v)
    <3>1. Owes(d, v)
      BY <1>11 DEF Owes
    <3>2. \A k \in 1..Len(d) : k > 1 => k + 2 > 1
      OBVIOUS
    <3>. QED
      BY <1>11, <2>8, <3>2 DEF Owes
  <2>14. \A i : Counts(l, i) <=> i = root
    BY <2>3, <2>7, <2>8, CountsFirst
  <2>. QED
    BY <1>14, <2>7, <2>8, <2>10, <2>11, <2>12, <2>13, <2>14
<1>15. CASE root = 0
  <2>1. PICK a : a = IF kind = "playbook" THEN <<Op("playbook", u, 0)>> ELSE <<>>
    OBVIOUS
  <2>2. Plain(a) /\ a \in Seq(Ops)
    BY <2>1, OneOp, NoOp DEF Plain
  <2>3. l = a \o d
    BY <1>12, <1>15, <2>1 DEF AfterInsert
  <2>4. Plain(l)
    BY <1>10, <2>2, <2>3, PlainPairs
  <2>5. l \in Seq(Ops) /\ Shaped(l) /\ Fresh(l, {}) /\ Belongs(t, l) /\ Undirties(l, S) /\ Fresh(l, S)
    BY <2>4, PlainFacts DEF Plain
  <2>6. \A v : Owes(l, v)
    <3>1. PICK k \in 1..Len(d) : d[k].do = "notify" /\ k > 1
      BY <1>11
    <3>2. Len(a) \in Nat /\ k + Len(a) \in 1..Len(l) /\ l[k + Len(a)] = d[k]
      BY <1>10, <2>2, <2>3, JoinFacts
    <3>3. k + Len(a) > 1
      BY <3>1, <3>2
    <3>. QED
      BY <3>1, <3>2, <3>3 DEF Owes
  <2>7. \A i : ~Counts(l, i)
    BY <2>5, CountsFirst DEF Fresh, Inner
  <2>. QED
    BY <1>15, <2>5, <2>6, <2>7, FreshOpens
<1>. QED
  BY <1>14, <1>15

\* The reconciler comes to a user.
LEMMA SyncList ==
    ASSUME NEW u \in People, DataOK, MembersOK, NEW l, l = sync_user_unread_cache(u)
    PROVE  /\ l \in Seq(Ops) /\ Shaped(l) /\ Belongs(Reconciler, l) /\ Undirties(l, Missed) /\ Fresh(l, Missed)
           /\ \A k \in 1..Len(l) : k = Len(l) => l[k].do # "v2"
<1>1. "compute" \in Does /\ "legacy" \in Does /\ "v2" \in Does /\ "undirty" \in Does
  BY DEF Does
<1>2. PICK e : e = <<Op("undirty", u, 0)>>
  OBVIOUS
<1>3. e \in Seq(Ops) /\ Len(e) = 1 /\ e[1] = Op("undirty", u, 0)
  BY <1>1, <1>2 DEF Op, Ops
<1>4. Reconciler \notin Tasks
  BY UnreadsAssumption
<1>5. CASE u \in members
  <2>1. PICK r : r = Recount(u, 0)
    OBVIOUS
  <2>2. /\ r \in Seq(Ops) /\ Len(r) = 3
        /\ r[1] = Op("compute", u, 0) /\ r[2] = Op("legacy", u, 0) /\ r[3] = Op("v2", u, 0)
    BY <1>1, <2>1 DEF Op, Ops, Recount
  <2>3. l = r \o e
    BY <1>2, <1>5, <2>1 DEF sync_user_unread_cache
  <2>4. l \in Seq(Ops) /\ Len(l) = 4
    <3>1. r \o e \in Seq(Ops) /\ Len(r \o e) = Len(r) + Len(e)
      BY <1>3, <2>2, JoinFacts
    <3>. QED
      BY <1>3, <2>2, <2>3, <3>1
  <2>5. l[1] = r[1] /\ l[2] = r[2] /\ l[3] = r[3] /\ l[1 + Len(r)] = e[1]
    <3>1. 1 \in 1..Len(r) /\ 2 \in 1..Len(r) /\ 3 \in 1..Len(r) /\ 1 \in 1..Len(e)
      BY <1>3, <2>2
    <3>2. /\ \A k \in 1..Len(r) : (r \o e)[k] = r[k]
          /\ \A k \in 1..Len(e) : (r \o e)[k + Len(r)] = e[k]
      BY <1>3, <2>2, JoinFacts
    <3>3. \A k \in 1..Len(r) : l[k] = r[k]
      BY <2>3, <3>2
    <3>4. \A k \in 1..Len(e) : l[k + Len(r)] = e[k]
      BY <2>3, <3>2
    <3>. QED
      BY <3>1, <3>3, <3>4
  <2>6. /\ l[1].do = "compute" /\ l[1].u = u /\ l[2].do = "legacy" /\ l[2].u = u /\ l[2].p = 0
        /\ l[3].do = "v2" /\ l[3].u = u /\ l[3].p = 0 /\ l[4].do = "undirty" /\ l[4].u = u
    BY <1>3, <2>2, <2>5 DEF Op
  <2>7. \A k \in 1..Len(l) : k = 1 \/ k = 2 \/ k = 3 \/ k = 4
    BY <2>4
  <2>8. Shaped(l)
    BY <2>4, <2>6, <2>7 DEF Shaped, Then, After
  <2>9. Belongs(Reconciler, l)
    BY <1>4, <2>4, <2>6, <2>7 DEF Belongs, ReconcilerDoes
  <2>10. \A k \in 2..Len(l) : k \in 1..Len(l)
    OBVIOUS
  <2>11. Undirties(l, Missed) /\ Fresh(l, Missed)
    BY <2>4, <2>6, <2>7, <2>10 DEF Undirties, Fresh, Inner, After
  <2>. QED
    BY <2>4, <2>6, <2>8, <2>9, <2>11
<1>6. CASE u \notin members
  <2>1. l = <<>> \o e
    BY <1>2, <1>6 DEF sync_user_unread_cache
  <2>2. l = e
    BY <1>3, <2>1
  <2>3. \A k \in 1..Len(l) : k = 1
    <3>1. Len(l) = 1
      BY <1>3, <2>2
    <3>. QED
      BY <3>1
  <2>4. l[1].do = "undirty" /\ l[1].u = u
    BY <1>3, <2>2 DEF Op
  <2>5. u \in Missed
    BY <1>6 DEF MembersOK, Missed, People
  <2>6. Shaped(l)
    BY <2>3, <2>4 DEF Shaped
  <2>7. Belongs(Reconciler, l)
    BY <1>4, <2>3, <2>4 DEF Belongs, ReconcilerDoes
  <2>8. Undirties(l, Missed) /\ Fresh(l, Missed)
    BY <1>3, <2>2, <2>3, <2>4, <2>5 DEF Undirties, Fresh, Inner
  <2>. QED
    BY <1>3, <2>2, <2>3, <2>4, <2>6, <2>7, <2>8
<1>. QED
  BY <1>5, <1>6

-----------------------------------------------------------------------------
(* One step of the system.  The tasks of X do nothing in it.               *)

\* A task of X has counted the posts for u, or is about to touch the counters or the mark of u.
Counting(X, u) == \E x \in X : Busy(x) /\ Head(Todo(x)).u = u /\ Head(Todo(x)).do \in {"legacy", "v2"}
Window(X, u) == \E x \in X : Busy(x) /\ Head(Todo(x)).u = u /\ Head(Todo(x)).do \in {"legacy", "v2", "drop", "undirty"}

SameCounts(u) == \A q : CountAt(u, q)' = CountAt(u, q)

\* The counters of u are marked or right, and no task is about to change them.
Settled(X, u) == (u \in dirty' \/ (LegacyOK(u)' /\ V2OK(u)')) /\ ~Window(X, u)
\* What was true of u still is.
Carried(X, u) ==
    /\ Excused(u) => Excused(u)'
    /\ LegacyOK(u) => LegacyOK(u)'
    /\ V2OK(u) => V2OK(u)'
    /\ SameCounts(u) \/ ~Counting(X, u)
    /\ u \in dirty => u \in dirty' \/ (LegacyOK(u)' /\ V2OK(u)')

LEMMA ExcusedIsFine == ASSUME NEW u, Excused(u) PROVE LegacyOK(u) /\ V2OK(u)
BY DEF LegacyOK, V2OK

LEMMA ExcusedIsFineNext == ASSUME NEW u, Excused(u)' PROVE LegacyOK(u)' /\ V2OK(u)'
BY DEF LegacyOK, V2OK

\* The invariant is kept when every list is, and every user is excused, settled or carried over.
LEMMA Preserved ==
    ASSUME UnreadInv, DataOK', MembersOK', ListsOK', stale \subseteq stale',
           NEW X \in SUBSET Workers, \A x \in X : task'[x] = task[x],
           \A t \in Workers \ X : Undirties(Todo(t)', Missed') /\ \A u \in Users : HeldAt(t, u)' /\ HeadAt(t, u)',
           \A u \in Users : Excused(u)' \/ Settled(X, u) \/ Carried(X, u)
    PROVE  UnreadInv'
<1>1. \A u \in Users : Excused(u)' => LegacyOK(u)' /\ V2OK(u)'
  BY ExcusedIsFineNext
<1>2. CountersOK'
  <2>1. ASSUME NEW u \in Users PROVE u \in dirty' \/ (LegacyOK(u)' /\ V2OK(u)')
    <3>1. u \in dirty \/ (LegacyOK(u) /\ V2OK(u))
      BY DEF UnreadInv, CountersOK
    <3>. QED
      BY <1>1, <3>1 DEF Settled, Carried
  <2>. QED
    BY <2>1 DEF CountersOK
<1>3. UndirtyOK'
  <2>1. ASSUME NEW x \in X PROVE Undirties(Todo(x)', Missed')
    <3>1. Undirties(Todo(x), Missed)
      BY DEF UnreadInv, UndirtyOK
    <3>2. Todo(x)' = Todo(x) /\ Missed \subseteq Missed'
      BY DEF Todo, Missed
    <3>. QED
      BY <3>1, <3>2 DEF Undirties
  <2>2. ASSUME NEW t \in Workers PROVE Undirties(Todo(t)', Missed')
    BY <2>1
  <2>. QED
    BY <2>2 DEF UndirtyOK
<1>4. \A x \in X : Todo(x)' = Todo(x) /\ Busy(x)' = Busy(x) /\ task'[x].value = task[x].value
  BY DEF Todo, Busy
<1>5. HeldOK'
  <2>1. ASSUME NEW t \in Workers, NEW u \in Users PROVE HeldAt(t, u)'
    <3>1. CASE t \notin X
      BY <3>1
    <3>2. CASE t \in X
      <4>1. SUFFICES ASSUME Busy(t), Head(Todo(t)).u = u, Head(Todo(t)).do \in {"legacy", "v2"}, ~Excused(u)'
                     PROVE  (task[t].value = CountAt(u, task[t].value.pos))'
        BY <1>4, <3>2 DEF HeldAt
      <4>2. HeldAt(t, u)
        BY DEF UnreadInv, HeldOK
      <4>3. Counting(X, u) /\ Window(X, u)
        BY <3>2, <4>1 DEF Counting, Window
      <4>4. Carried(X, u)
        BY <4>1, <4>3 DEF Settled
      <4>5. SameCounts(u) /\ ~Excused(u)
        BY <4>1, <4>3, <4>4 DEF Carried
      <4>6. task[t].value = CountAt(u, task[t].value.pos)
        BY <4>1, <4>2, <4>5 DEF HeldAt
      <4>7. PICK w : w = task[t].value
        OBVIOUS
      <4>8. w = CountAt(u, w.pos)'
        BY <4>5, <4>6, <4>7 DEF SameCounts
      <4>9. task'[t].value = w
        BY <1>4, <3>2, <4>7
      <4>. QED
        BY <4>8, <4>9 DEF CountAt, Newer
    <3>. QED
      BY <3>1, <3>2
  <2>. QED
    BY <2>1 DEF HeldOK
<1>6. HeadOK'
  <2>1. ASSUME NEW t \in Workers, NEW u \in Users PROVE HeadAt(t, u)'
    <3>1. CASE t \notin X
      BY <3>1
    <3>2. CASE t \in X
      <4>1. SUFFICES ASSUME Busy(t), Head(Todo(t)).u = u, Head(Todo(t)).do \in {"undirty", "drop", "v2"}, ~Excused(u)'
                     PROVE  HeadAt(t, u)'
        BY <1>1, <1>4, <3>2 DEF HeadAt
      <4>2. HeadAt(t, u)
        BY DEF UnreadInv, HeadOK
      <4>3. Window(X, u)
        BY <3>2, <4>1 DEF Window
      <4>4. Carried(X, u)
        BY <4>1, <4>3 DEF Settled
      <4>5. (LegacyOK(u) => LegacyOK(u)') /\ (V2OK(u) => V2OK(u)')
        BY <4>4 DEF Carried
      <4>. QED
        BY <1>4, <3>2, <4>1, <4>2, <4>5 DEF HeadAt
    <3>. QED
      BY <3>1, <3>2
  <2>. QED
    BY <2>1 DEF HeadOK
<1>. QED
  BY <1>2, <1>3, <1>5, <1>6 DEF UnreadInv

\* A list that depends on nothing done before is no obstacle.
LEMMA OpensHead ==
    ASSUME NEW t \in Workers, NEW u \in Users, Todo(t)' \in Seq(Ops), Opens(Todo(t)', Missed')
    PROVE  HeldAt(t, u)' /\ HeadAt(t, u)'
<1>1. PICK l : l = Todo(t)'
  OBVIOUS
<1>2. Busy(t)' => l # <<>> /\ Len(l) > 0 /\ Head(l) = l[1]
  BY <1>1 DEF Busy, Todo
<1>3. Busy(t)' => Head(l).do \notin {"legacy", "v2", "drop"} /\ (Head(l).do = "undirty" => Head(l).u \in Missed')
  BY <1>1, <1>2 DEF Opens
<1>4. u # Bot
  BY UnreadsAssumption
<1>5. u \in Missed' => u \in stale'
  BY <1>4 DEF Missed
<1>6. u \in stale' => LegacyOK(u)' /\ V2OK(u)'
  BY DEF LegacyOK, V2OK, Excused
<1>7. HeldAt(t, u)'
  BY <1>1, <1>3 DEF HeldAt
<1>8. HeadAt(t, u)'
  BY <1>1, <1>3, <1>5, <1>6 DEF HeadAt
<1>. QED
  BY <1>7, <1>8

\* Task t goes on with the list l and the count v.
Moved(t, l, v) == task' = [task EXCEPT ![t] = [todo |-> l, value |-> v]]

LEMMA MovedFacts ==
    ASSUME ListsOK, NEW t \in Workers, NEW l \in Seq(Ops), NEW v, Moved(t, l, v)
    PROVE  /\ Todo(t)' = l /\ task'[t].value = v
           /\ \A x \in Workers \ {t} : task'[x] = task[x]
           /\ Shaped(l) /\ Belongs(t, l) => ListsOK'
<1>1. DOMAIN task = Workers
  BY DEF ListsOK
<1>2. /\ DOMAIN task' = Workers /\ task'[t] = [todo |-> l, value |-> v]
      /\ \A x \in Workers \ {t} : task'[x] = task[x]
  BY <1>1 DEF Moved
<1>3. Todo(t)' = l /\ task'[t].value = v
  BY <1>2 DEF Todo
<1>4. ASSUME Shaped(l), Belongs(t, l) PROVE ListsOK'
  <2>1. ASSUME NEW x \in Workers
        PROVE  /\ task'[x] = [todo |-> task'[x].todo, value |-> task'[x].value]
               /\ Todo(x)' \in Seq(Ops) /\ Shaped(Todo(x)') /\ Belongs(x, Todo(x)')
    <3>1. CASE x = t
      BY <1>2, <1>3, <1>4, <3>1
    <3>2. CASE x # t
      <4>1. task'[x] = task[x] /\ Todo(x)' = Todo(x)
        BY <1>2, <3>2 DEF Todo
      <4>. QED
        BY <4>1 DEF ListsOK
    <3>. QED
      BY <3>1, <3>2
  <2>2. \A x \in Workers : Shaped(Todo(x)') <=> Shaped(Todo(x))'
    BY DEF Shaped, Then, After
  <2>3. \A x \in Workers : Belongs(x, Todo(x)') <=> Belongs(x, Todo(x))'
    BY DEF Belongs
  <2>. QED
    BY <1>2, <2>1, <2>2, <2>3 DEF ListsOK
<1>. QED
  BY <1>2, <1>3, <1>4

LEMMA TaskMoves ==
    ASSUME UnreadInv, NEW t \in Workers, NEW l \in Seq(Ops), NEW v, Moved(t, l, v), DataOK', MembersOK', stale \subseteq stale',
           Shaped(l), Belongs(t, l), Undirties(l, Missed'),
           Opens(l, Missed') \/ \A u \in Users : HeldAt(t, u)' /\ HeadAt(t, u)',
           \A u \in Users : Excused(u)' \/ Settled(Workers \ {t}, u) \/ Carried(Workers \ {t}, u)
    PROVE  UnreadInv'
<1>1. Todo(t)' = l /\ (\A x \in Workers \ {t} : task'[x] = task[x]) /\ ListsOK'
  BY MovedFacts DEF UnreadInv
<1>2. \A u \in Users : HeldAt(t, u)' /\ HeadAt(t, u)'
  BY <1>1, OpensHead
<1>3. \A x \in Workers \ (Workers \ {t}) : Undirties(Todo(x)', Missed') /\ \A u \in Users : HeldAt(x, u)' /\ HeadAt(x, u)'
  BY <1>1, <1>2
<1>. QED
  BY <1>1, <1>3, Preserved

\* The covers of the next state.
LEMMA Covers ==
    ASSUME UnreadInv, NEW t \in Workers, NEW l \in Seq(Ops), NEW v, Moved(t, l, v), NEW u
    PROVE  /\ u \in stale' \/ Marks(l, u) => Excused(u)'
           /\ WritesLegacy(t, l, u) => LegacyOK(u)'
           /\ WritesV2(t, l, u) => V2OK(u)'
<1>1. Todo(t)' = l
  BY MovedFacts DEF UnreadInv
<1>2. Marks(Todo(t), u)' <=> Marks(Todo(t)', u)
  BY DEF Marks, Owes, Has
<1>3. WritesLegacy(t, Todo(t), u)' <=> WritesLegacy(t, Todo(t)', u)
  BY DEF WritesLegacy, Safe, Has
<1>4. WritesV2(t, Todo(t), u)' <=> WritesV2(t, Todo(t)', u)
  BY DEF WritesV2, Safe, Has
<1>. QED
  BY <1>1, <1>2, <1>3, <1>4 DEF Excused, LegacyOK, V2OK

LEMMA Keeping ==
    ASSUME UnreadInv, NEW t \in Workers, NEW l \in Seq(Ops), NEW v, Moved(t, l, v), stale \subseteq stale', NEW u \in Users,
           Marks(Todo(t), u) => Marks(l, u)
    PROVE  /\ Excused(u) => Excused(u)'
           /\ (WritesLegacy(t, Todo(t), u) => WritesLegacy(t, l, u)) /\ legacy'[u] = legacy[u] /\ Truth(u)' = Truth(u)
                 => (LegacyOK(u) => LegacyOK(u)')
           /\ (WritesV2(t, Todo(t), u) => WritesV2(t, l, u)) /\ v2'[u] = v2[u] /\ Truth(u)' = Truth(u)
                 => (V2OK(u) => V2OK(u)')
<1>1. Todo(t)' = l /\ \A x \in Workers \ {t} : Todo(x)' = Todo(x)
  BY MovedFacts DEF UnreadInv, Todo
<1>2. \A x \in Workers : Marks(Todo(x), u)' <=> Marks(Todo(x)', u)
  BY DEF Marks, Owes, Has
<1>3. \A x \in Workers : WritesLegacy(x, Todo(x), u)' <=> WritesLegacy(x, Todo(x)', u)
  BY DEF WritesLegacy, Safe, Has
<1>4. \A x \in Workers : WritesV2(x, Todo(x), u)' <=> WritesV2(x, Todo(x)', u)
  BY DEF WritesV2, Safe, Has
<1>5. \A x \in Workers : Marks(Todo(x), u) => Marks(Todo(x), u)'
  BY <1>1, <1>2
<1>6. Excused(u) => Excused(u)'
  BY <1>5 DEF Excused
<1>7. ASSUME WritesLegacy(t, Todo(t), u) => WritesLegacy(t, l, u), legacy'[u] = legacy[u], Truth(u)' = Truth(u), LegacyOK(u)
      PROVE  LegacyOK(u)'
  <2>1. \A x \in Workers : WritesLegacy(x, Todo(x), u) => WritesLegacy(x, Todo(x), u)'
    BY <1>1, <1>3, <1>7
  <2>. QED
    BY <1>6, <1>7, <2>1 DEF LegacyOK
<1>8. ASSUME WritesV2(t, Todo(t), u) => WritesV2(t, l, u), v2'[u] = v2[u], Truth(u)' = Truth(u), V2OK(u)
      PROVE  V2OK(u)'
  <2>1. \A x \in Workers : WritesV2(x, Todo(x), u) => WritesV2(x, Todo(x), u)'
    BY <1>1, <1>4, <1>8
  <2>. QED
    BY <1>6, <1>8, <2>1 DEF V2OK
<1>. QED
  BY <1>6, <1>7, <1>8

Keeps(t, l, u) ==
    /\ Marks(Todo(t), u) => Marks(l, u)
    /\ WritesLegacy(t, Todo(t), u) => WritesLegacy(t, l, u)
    /\ WritesV2(t, Todo(t), u) => WritesV2(t, l, u)

\* A user whose rows and counters the step leaves alone.
LEMMA Untouched ==
    ASSUME UnreadInv, NEW t \in Workers, NEW l \in Seq(Ops), NEW v, Moved(t, l, v), stale \subseteq stale', NEW u \in Users,
           Keeps(t, l, u), Truth(u)' = Truth(u), legacy'[u] = legacy[u], v2'[u] = v2[u], u \in dirty => u \in dirty',
           SameCounts(u) \/ ~Counting(Workers \ {t}, u)
    PROVE  Carried(Workers \ {t}, u)
BY Keeping DEF Carried, Keeps

LEMMA SameRows ==
    ASSUME NEW u, posts' = posts, u \in members' <=> u \in members
    PROVE  SameCounts(u) /\ (pos'[u] = pos[u] => Truth(u)' = Truth(u))
<1>1. \A q : CountAt(u, q)' = CountAt(u, q)
  BY DEF CountAt, Newer
<1>2. ASSUME pos'[u] = pos[u] PROVE Truth(u)' = Truth(u)
  BY <1>2 DEF Truth, compute_channel_unread_from_db, CountAt, Newer
<1>. QED
  BY <1>1, <1>2 DEF SameCounts

\* The list of a busy task.
LEMMA BusyFacts ==
    ASSUME UnreadInv, NEW t \in Workers, Busy(t)
    PROVE  /\ Todo(t) \in Seq(Ops) /\ Todo(t) # <<>> /\ Shaped(Todo(t)) /\ Belongs(t, Todo(t)) /\ Undirties(Todo(t), Missed)
           /\ Head(task[t].todo) = Head(Todo(t)) /\ Head(Todo(t)) \in Ops /\ Head(Todo(t)) = Todo(t)[1]
           /\ Len(Todo(t)) \in Nat /\ Len(Todo(t)) > 0
           /\ Tail(Todo(t)) \in Seq(Ops) /\ Shaped(Tail(Todo(t))) /\ Belongs(t, Tail(Todo(t)))
           /\ Undirties(Tail(Todo(t)), Missed)
<1>1. Todo(t) \in Seq(Ops) /\ Todo(t) # <<>> /\ Shaped(Todo(t)) /\ Belongs(t, Todo(t)) /\ Undirties(Todo(t), Missed)
  BY DEF UnreadInv, ListsOK, UndirtyOK, Busy, Todo
<1>2. /\ Head(Todo(t)) \in Ops /\ Tail(Todo(t)) \in Seq(Ops) /\ Head(Todo(t)) = Todo(t)[1]
      /\ Len(Todo(t)) \in Nat /\ Len(Todo(t)) > 0
  BY <1>1
<1>3. Suffix(Tail(Todo(t)), Todo(t), 1)
  BY <1>1, TailFacts
<1>. QED
  BY <1>1, <1>2, <1>3, SuffixFacts DEF Todo

\* An instruction is done and `more` put in its place.
LEMMA ContinueFacts ==
    ASSUME UnreadInv, NEW t \in Workers, Busy(t), NEW v, NEW more, Continue(t, v, more)
    PROVE  Moved(t, more \o Tail(Todo(t)), IF more \o Tail(Todo(t)) = <<>> THEN None ELSE v)
BY DEF UnreadInv, ListsOK, Continue, Moved, Todo

LEMMA DoneFacts ==
    ASSUME UnreadInv, NEW t \in Workers, Busy(t), NEW v, Continue(t, v, <<>>)
    PROVE  Moved(t, Tail(Todo(t)), IF Tail(Todo(t)) = <<>> THEN None ELSE v)
<1>1. Tail(Todo(t)) \in Seq(Ops)
  BY BusyFacts
<1>2. <<>> \o Tail(Todo(t)) = Tail(Todo(t))
  BY <1>1
<1>. QED
  BY <1>2, ContinueFacts

LEMMA MissedGrows == ASSUME stale \subseteq stale', NEW l, Undirties(l, Missed) PROVE Undirties(l, Missed')
<1>1. Missed \subseteq Missed'
  BY DEF Missed
<1>. QED
  BY <1>1 DEF Undirties

LEMMA FreshGrows == ASSUME stale \subseteq stale', NEW l, Fresh(l, Missed) PROVE Fresh(l, Missed') /\ Opens(l, Missed')
<1>1. Missed \subseteq Missed'
  BY DEF Missed
<1>. QED
  BY <1>1 DEF Fresh, Opens, Inner

\* The first instruction is gone.
LEMMA HeadGone ==
    ASSUME UnreadInv, NEW t \in Workers, Busy(t), NEW v, Moved(t, Tail(Todo(t)), v), DataOK', MembersOK', stale \subseteq stale',
           \/ Head(Todo(t)).do \notin {"compute", "legacy", "v2", "position", "drop_legacy", "drop"}
           \/ \A u \in Users : HeldAt(t, u)' /\ HeadAt(t, u)',
           \A u \in Users : Excused(u)' \/ Settled(Workers \ {t}, u) \/ Carried(Workers \ {t}, u)
    PROVE  UnreadInv'
<1>1. /\ Todo(t) \in Seq(Ops) /\ Todo(t) # <<>> /\ Shaped(Todo(t)) /\ Undirties(Todo(t), Missed)
      /\ Tail(Todo(t)) \in Seq(Ops) /\ Shaped(Tail(Todo(t))) /\ Belongs(t, Tail(Todo(t))) /\ Undirties(Tail(Todo(t)), Missed)
  BY BusyFacts
<1>2. Undirties(Tail(Todo(t)), Missed')
  BY <1>1, MissedGrows
<1>3. ASSUME Head(Todo(t)).do \notin {"compute", "legacy", "v2", "position", "drop_legacy", "drop"}
      PROVE  Opens(Tail(Todo(t)), Missed')
  <2>1. Fresh(Tail(Todo(t)), Missed)
    BY <1>1, <1>3, FreshTail
  <2>. QED
    BY <2>1, FreshGrows
<1>. QED
  BY <1>1, <1>2, <1>3, TaskMoves

\* The covers that outlive the first instruction.
LEMMA KeepsTail ==
    ASSUME UnreadInv, NEW t \in Workers, Busy(t), NEW u
    PROVE  LET o == Head(Todo(t))
               Keep == {"sync", "compute", "undirty", "incr_legacy", "incr_count", "incr_root", "count_reply", "reply_activity",
                        "mention_activity", "playbook", "heal", "system"}
           IN  /\ o.do \in Keep \/ (o.do # "notify" /\ o.u # u) => Keeps(t, Tail(Todo(t)), u)
               /\ o.do \notin {"notify", "mark_dirty"} /\ ~(o.do = "position" /\ Todo(t)[2].do = "notify") => (Marks(Todo(t), u) => Marks(Tail(Todo(t)), u))
               /\ o.do \in {"drop", "v2", "position", "notify", "mark_dirty"}
                    => (WritesLegacy(t, Todo(t), u) => WritesLegacy(t, Tail(Todo(t)), u))
               /\ o.do \in {"drop_legacy", "legacy", "position", "notify", "mark_dirty"}
                    => (WritesV2(t, Todo(t), u) => WritesV2(t, Tail(Todo(t)), u))
               /\ o.do = "notify" /\ o.u = u => Keeps(t, Tail(Todo(t)), u)
<1>1. Todo(t) \in Seq(Ops) /\ Todo(t) # <<>> /\ Shaped(Todo(t))
  BY BusyFacts
<1>. QED
  BY <1>1, TailCovers DEF Keeps

-----------------------------------------------------------------------------
(* The instructions. *)

\* The instruction touches neither rows nor counters.
LEMMA NeutralStep ==
    ASSUME UnreadInv, NEW t \in Workers, Busy(t), NEW v, Moved(t, Tail(Todo(t)), v),
           Head(Todo(t)).do \in {"sync", "undirty", "incr_legacy", "incr_count", "incr_root", "reply_activity", "mention_activity", "system"},
           UNCHANGED <<members, posts, pos, legacy, v2, dirty, stale>>
    PROVE  UnreadInv'
<1>1. DataOK' /\ MembersOK' /\ stale \subseteq stale'
  BY DEF UnreadInv, DataOK, MembersOK
<1>2. ASSUME NEW u \in Users PROVE Carried(Workers \ {t}, u)
  <2>1. Keeps(t, Tail(Todo(t)), u)
    BY KeepsTail
  <2>2. SameCounts(u) /\ Truth(u)' = Truth(u)
    BY SameRows
  <2>3. Tail(Todo(t)) \in Seq(Ops)
    BY BusyFacts
  <2>. QED
    BY <1>1, <2>1, <2>2, <2>3, Untouched
<1>. QED
  BY <1>1, <1>2, HeadGone

\* The second instruction of a list, which its first prepares.
LEMMA NextOp ==
    ASSUME NEW l \in Seq(Ops), l # <<>>, NEW do, Then(l, 1, do)
    PROVE  Tail(l) # <<>> /\ Head(Tail(l)).do = do /\ Head(Tail(l)).u = Head(l).u /\ Head(Tail(l)) = l[2]
<1>1. /\ Tail(l) \in Seq(Ops) /\ Head(l) = l[1] /\ Len(l) \in Nat
      /\ Len(Tail(l)) = Len(l) - 1 /\ \A k \in 1..Len(Tail(l)) : Tail(l)[k] = l[k + 1]
  BY TailFacts
<1>2. Len(Tail(l)) > 0 /\ 1 \in 1..Len(Tail(l)) /\ 1 + 1 = 2
  BY <1>1 DEF Then
<1>3. Tail(l)[1] = l[2]
  BY <1>1, <1>2
<1>4. Head(Tail(l)) = Tail(l)[1] /\ Tail(l) # <<>>
  <2>1. PICK s \in Seq(Ops) : s = Tail(l)
    BY <1>1
  <2>2. Len(s) > 0
    BY <1>2, <2>1
  <2>3. s # <<>> /\ Head(s) = s[1]
    BY <2>2
  <2>. QED
    BY <2>1, <2>3
<1>. QED
  BY <1>1, <1>2, <1>3, <1>4 DEF Then

LEMMA FirstOp ==
    ASSUME UnreadInv, NEW t \in Workers, Busy(t)
    PROVE  LET l == Todo(t)
               o == Head(l)
           IN  /\ o.do = "compute" => Then(l, 1, "legacy")
               /\ o.do = "legacy" => Then(l, 1, "v2") /\ l[2].p = o.p
               /\ o.do = "v2" => Len(l) = 1 \/ Then(l, 1, "undirty")
               /\ o.do = "v2" /\ t \in Tasks => Len(l) = 1
               /\ o.do = "v2" /\ t \notin Tasks => o.p = 0
               /\ o.do = "drop_legacy" => Then(l, 1, "drop")
               /\ o.do = "incr_legacy" => Then(l, 1, "incr_count")
               /\ o.do = "incr_count" => Then(l, 1, "incr_root")
               /\ o.do = "incr_root" => Then(l, 1, "mark_dirty")
               /\ o.do = "position" => \/ Then(l, 1, "notify") \/ Then(l, 1, "drop_legacy")
                                       \/ (Then(l, 1, "compute") /\ 3 <= Len(l) /\ l[3].p = 0)
<1>1. /\ Todo(t) \in Seq(Ops) /\ Shaped(Todo(t)) /\ Belongs(t, Todo(t)) /\ Head(Todo(t)) = Todo(t)[1]
      /\ Len(Todo(t)) \in Nat /\ Len(Todo(t)) > 0
  BY BusyFacts
<1>2. 1 \in 1..Len(Todo(t)) /\ 1 + 1 = 2 /\ 1 + 2 = 3
  BY <1>1
<1>3. Shaped(Todo(t))!(1)
  BY <1>1, <1>2 DEF Shaped
<1>4. t \in Tasks /\ Todo(t)[1].do = "v2" => 1 = Len(Todo(t))
  BY <1>1, <1>2 DEF Belongs
<1>5. ASSUME t \notin Tasks PROVE Todo(t)[1].do = "v2" => Todo(t)[1].p = 0
  <2>1. PICK l : l = Todo(t)
    OBVIOUS
  <2>2. Belongs(t, l)
    BY <1>1, <2>1
  <2>3. \A k \in 1..Len(l) : l[k].do = "v2" => l[k].p = 0
    BY <1>5, <2>2 DEF Belongs
  <2>. QED
    BY <1>2, <2>1, <2>3
<1>. QED
  BY <1>1, <1>2, <1>3, <1>4, <1>5

LEMMA ComputeStep ==
    ASSUME UnreadInv, NEW t \in Workers, Busy(t), Compute(t, Head(task[t].todo))
    PROVE  UnreadInv'
<1>. DEFINE l == Todo(t)
            o == Head(l)
            v == compute_channel_unread_from_db(o.u)
<1>0. o.do = "compute" /\ Continue(t, v, <<>>) /\ UNCHANGED <<members, posts, pos, legacy, v2, dirty, stale>>
  BY DEF Compute, Todo
<1>1. l \in Seq(Ops) /\ l # <<>> /\ Shaped(l) /\ Tail(l) \in Seq(Ops) /\ o = l[1] /\ Len(l) \in Nat /\ Len(l) > 0
  BY BusyFacts
<1>2. Moved(t, Tail(l), IF Tail(l) = <<>> THEN None ELSE v)
  BY <1>0, DoneFacts
<1>3. DataOK' /\ MembersOK' /\ stale \subseteq stale'
  BY <1>0 DEF UnreadInv, DataOK, MembersOK
<1>5. Tail(l) # <<>> /\ Head(Tail(l)).do = "legacy" /\ Head(Tail(l)).u = o.u
  BY <1>0, <1>1, FirstOp, NextOp
<1>6. Todo(t)' = Tail(l) /\ task'[t].value = v
  <2>1. Moved(t, Tail(l), v) /\ Tail(l) \in Seq(Ops)
    BY <1>1, <1>2, <1>5
  <2>2. ListsOK
    BY DEF UnreadInv
  <2>. QED
    BY <2>1, <2>2, MovedFacts
<1>7. ASSUME NEW u \in Users PROVE HeldAt(t, u)' /\ HeadAt(t, u)'
  <2>1. PICK w, q : w = v /\ q = pos[u]
    OBVIOUS
  <2>2. ASSUME o.u = u PROVE (task[t].value = CountAt(u, task[t].value.pos))'
    <3>1. w = CountAt(u, q)
      BY <2>1, <2>2 DEF compute_channel_unread_from_db
    <3>2. w.pos = q
      BY <3>1 DEF CountAt
    <3>3. CountAt(u, q)' = CountAt(u, q)
      BY <1>0, SameRows DEF SameCounts
    <3>4. w = CountAt(u, w.pos)'
      BY <3>1, <3>2, <3>3
    <3>5. task'[t].value = w
      BY <1>6, <2>1
    <3>. QED
      BY <3>4, <3>5 DEF CountAt, Newer
  <2>3. HeldAt(t, u)'
    BY <1>5, <1>6, <2>2 DEF HeldAt
  <2>4. HeadAt(t, u)'
    BY <1>5, <1>6 DEF HeadAt
  <2>. QED
    BY <2>3, <2>4
<1>8. ASSUME NEW u \in Users PROVE Carried(Workers \ {t}, u)
  <2>1. Keeps(t, Tail(l), u)
    BY <1>0, KeepsTail
  <2>2. SameCounts(u) /\ Truth(u)' = Truth(u)
    BY <1>0, SameRows
  <2>. QED
    BY <1>0, <1>1, <1>2, <1>3, <2>1, <2>2, Untouched
<1>. QED
  BY <1>2, <1>3, <1>7, <1>8, HeadGone

LEMMA WriteLegacyStep ==
    ASSUME UnreadInv, NEW t \in Workers, Busy(t), write_legacy_channel_count(t, Head(task[t].todo))
    PROVE  UnreadInv'
<1>. DEFINE l == Todo(t)
            o == Head(l)
            v == task[t].value
<1>0. /\ o.do = "legacy" /\ Continue(t, v, <<>>) /\ legacy' = [legacy EXCEPT ![o.u] = v.count]
      /\ stale' = stale \cup Outdated(t, o.u) /\ UNCHANGED <<members, posts, pos, v2, dirty>>
  BY DEF write_legacy_channel_count, Todo
<1>1. l \in Seq(Ops) /\ l # <<>> /\ Shaped(l) /\ Tail(l) \in Seq(Ops) /\ o = l[1] /\ o \in Ops
  BY BusyFacts
<1>2. Moved(t, Tail(l), IF Tail(l) = <<>> THEN None ELSE v)
  BY <1>0, DoneFacts
<1>3. DataOK' /\ MembersOK' /\ stale \subseteq stale'
  <2>1. o.u \in People /\ Outdated(t, o.u) \subseteq People
    BY <1>1 DEF Ops, Outdated
  <2>. QED
    BY <1>0, <2>1 DEF UnreadInv, DataOK, MembersOK
<1>4. Tail(l) # <<>> /\ Head(Tail(l)).do = "v2" /\ Head(Tail(l)).u = o.u
  BY <1>0, <1>1, FirstOp, NextOp
<1>5. Todo(t)' = Tail(l) /\ task'[t].value = v
  BY <1>1, <1>2, <1>4, MovedFacts DEF UnreadInv
<1>6. ASSUME NEW u \in Users PROVE SameCounts(u) /\ Truth(u)' = Truth(u)
  BY <1>0, SameRows
<1>7. ASSUME NEW u \in Users, u # o.u PROVE Carried(Workers \ {t}, u)
  <2>1. Keeps(t, Tail(l), u)
    BY <1>0, <1>7, KeepsTail
  <2>2. legacy'[u] = legacy[u]
    BY <1>0, <1>7 DEF UnreadInv, DataOK
  <2>. QED
    BY <1>0, <1>1, <1>2, <1>3, <1>6, <2>1, <2>2, Untouched
<1>8. ASSUME NEW u \in Users, u = o.u
      PROVE  Carried(Workers \ {t}, u) /\ LegacyOK(u)' /\ HeldAt(t, u)'
  <2>1. /\ Marks(l, u) => Marks(Tail(l), u)
        /\ WritesV2(t, l, u) => WritesV2(t, Tail(l), u)
    BY <1>0, KeepsTail
  <2>2. (Excused(u) => Excused(u)') /\ (V2OK(u) => V2OK(u)')
    BY <1>0, <1>1, <1>2, <1>3, <1>6, <2>1, Keeping
  <2>3. v = CountAt(u, v.pos) \/ Excused(u)
    BY <1>0, <1>8 DEF UnreadInv, HeldOK, HeldAt
  <2>4. LegacyOK(u)'
    <3>1. CASE Excused(u)
      BY <2>2, <3>1, ExcusedIsFineNext
    <3>2. CASE v = CountAt(u, v.pos) /\ v.pos = pos[u]
      <4>1. v.count = Truth(u).count
        BY <3>2 DEF Truth, compute_channel_unread_from_db
      <4>2. legacy'[u] = v.count
        BY <1>0, <1>8 DEF UnreadInv, DataOK
      <4>3. legacy'[u] \in {0, Truth(u)'.count}
        BY <1>6, <4>1, <4>2
      <4>. QED
        BY <4>3 DEF LegacyOK
    <3>3. CASE v.pos # pos[u]
      <4>1. u \in stale'
        BY <1>0, <1>8, <3>3 DEF Outdated
      <4>. QED
        BY <4>1 DEF Excused, LegacyOK
    <3>. QED
      BY <2>3, <3>1, <3>2, <3>3
  <2>5. Carried(Workers \ {t}, u)
    BY <1>0, <1>6, <2>2, <2>4 DEF Carried
  <2>6. HeldAt(t, u)'
    <3>1. CASE Excused(u)
      BY <2>2, <3>1 DEF HeldAt
    <3>2. CASE v = CountAt(u, v.pos)
      <4>1. PICK w, q : w = v /\ q = v.pos
        OBVIOUS
      <4>2. w = CountAt(u, w.pos)'
        <5>1. w = CountAt(u, q) /\ q = w.pos
          BY <3>2, <4>1
        <5>2. CountAt(u, q)' = CountAt(u, q)
          BY <1>6 DEF SameCounts
        <5>. QED
          BY <5>1, <5>2
      <4>3. task'[t].value = w
        BY <1>5, <4>1
      <4>4. (task[t].value = CountAt(u, task[t].value.pos))'
        BY <4>2, <4>3 DEF CountAt, Newer
      <4>. QED
        BY <4>4 DEF HeldAt
    <3>. QED
      BY <2>3, <3>1, <3>2
  <2>. QED
    BY <2>4, <2>5, <2>6
<1>9. ASSUME NEW u \in Users PROVE HeldAt(t, u)' /\ HeadAt(t, u)'
  <2>1. HeldAt(t, u)'
    BY <1>4, <1>5, <1>8 DEF HeldAt
  <2>2. HeadAt(t, u)'
    BY <1>4, <1>5, <1>8 DEF HeadAt
  <2>. QED
    BY <2>1, <2>2
<1>. QED
  BY <1>2, <1>3, <1>7, <1>8, <1>9, HeadGone

LEMMA WriteV2Step ==
    ASSUME UnreadInv, NEW t \in Workers, Busy(t), write_v2_channel_hash(t, Head(task[t].todo))
    PROVE  UnreadInv'
<1>. DEFINE l == Todo(t)
            o == Head(l)
            v == task[t].value
<1>0. /\ o.do = "v2" /\ Continue(t, v, <<>>) /\ v2' = [v2 EXCEPT ![o.u] = [count |-> v.count, root |-> v.root]]
      /\ stale' = stale \cup Outdated(t, o.u) /\ UNCHANGED <<members, posts, pos, legacy, dirty>>
  BY DEF write_v2_channel_hash, Todo
<1>1. /\ l \in Seq(Ops) /\ l # <<>> /\ Shaped(l) /\ Tail(l) \in Seq(Ops) /\ o = l[1] /\ o \in Ops
      /\ Len(l) \in Nat
  BY BusyFacts
<1>2. Moved(t, Tail(l), IF Tail(l) = <<>> THEN None ELSE v)
  BY <1>0, DoneFacts
<1>3. DataOK' /\ MembersOK' /\ stale \subseteq stale'
  <2>1. o.u \in People /\ Outdated(t, o.u) \subseteq People
    BY <1>1 DEF Ops, Outdated
  <2>. QED
    BY <1>0, <2>1 DEF UnreadInv, DataOK, MembersOK
<1>4. Todo(t)' = Tail(l)
  BY <1>1, <1>2, MovedFacts DEF UnreadInv
<1>5. Tail(l) = <<>> \/ (t \notin Tasks /\ o.p = 0 /\ Head(Tail(l)).do = "undirty" /\ Head(Tail(l)).u = o.u)
  <2>1. CASE Len(l) = 1
    <3>1. Len(Tail(l)) = 0
      BY <1>1, <2>1
    <3>2. PICK r \in Seq(Ops) : r = Tail(l)
      BY <1>1
    <3>3. r = <<>>
      BY <3>1, <3>2
    <3>. QED
      BY <3>2, <3>3
  <2>2. CASE Len(l) # 1
    <3>1. t \notin Tasks /\ o.p = 0 /\ Then(l, 1, "undirty")
      BY <1>0, <2>2, FirstOp
    <3>. QED
      BY <1>1, <3>1, NextOp
  <2>. QED
    BY <2>1, <2>2
<1>6. ASSUME NEW u \in Users PROVE SameCounts(u) /\ Truth(u)' = Truth(u)
  BY <1>0, SameRows
<1>7. ASSUME NEW u \in Users, u # o.u PROVE Carried(Workers \ {t}, u)
  <2>1. Keeps(t, Tail(l), u)
    BY <1>0, <1>7, KeepsTail
  <2>2. v2'[u] = v2[u]
    BY <1>0, <1>7 DEF UnreadInv, DataOK
  <2>. QED
    BY <1>0, <1>1, <1>2, <1>3, <1>6, <2>1, <2>2, Untouched
<1>8. ASSUME NEW u \in Users, u = o.u
      PROVE  Carried(Workers \ {t}, u) /\ V2OK(u)' /\ (o.p = 0 => LegacyOK(u)')
  <2>1. /\ Marks(l, u) => Marks(Tail(l), u)
        /\ WritesLegacy(t, l, u) => WritesLegacy(t, Tail(l), u)
    BY <1>0, KeepsTail
  <2>2. (Excused(u) => Excused(u)') /\ (LegacyOK(u) => LegacyOK(u)')
    BY <1>0, <1>1, <1>2, <1>3, <1>6, <2>1, Keeping
  <2>3. v = CountAt(u, v.pos) \/ Excused(u)
    BY <1>0, <1>8 DEF UnreadInv, HeldOK, HeldAt
  <2>4. V2OK(u)'
    <3>1. CASE Excused(u)
      BY <2>2, <3>1, ExcusedIsFineNext
    <3>2. CASE v = CountAt(u, v.pos) /\ v.pos = pos[u]
      <4>1. [count |-> v.count, root |-> v.root] = Truth(u)
        BY <3>2 DEF Truth, compute_channel_unread_from_db
      <4>2. v2'[u] = [count |-> v.count, root |-> v.root]
        BY <1>0, <1>8 DEF UnreadInv, DataOK
      <4>3. v2'[u] \in {None, Truth(u)'}
        BY <1>6, <4>1, <4>2
      <4>. QED
        BY <4>3 DEF V2OK
    <3>3. CASE v.pos # pos[u]
      <4>1. u \in stale'
        BY <1>0, <1>8, <3>3 DEF Outdated
      <4>. QED
        BY <4>1 DEF Excused, V2OK
    <3>. QED
      BY <2>3, <3>1, <3>2, <3>3
  <2>5. Carried(Workers \ {t}, u)
    BY <1>0, <1>6, <2>2, <2>4 DEF Carried
  <2>6. o.p = 0 => LegacyOK(u)
    BY <1>0, <1>8 DEF UnreadInv, HeadOK, HeadAt
  <2>. QED
    BY <2>2, <2>4, <2>5, <2>6
<1>9. ASSUME NEW u \in Users PROVE HeldAt(t, u)' /\ HeadAt(t, u)'
  <2>1. Busy(t)' => Tail(l) # <<>>
    BY <1>4 DEF Busy, Todo
  <2>2. HeldAt(t, u)'
    BY <1>4, <1>5, <2>1 DEF HeldAt
  <2>3. HeadAt(t, u)'
    BY <1>4, <1>5, <1>8, <2>1 DEF HeadAt
  <2>. QED
    BY <2>2, <2>3
<1>. QED
  BY <1>2, <1>3, <1>7, <1>8, <1>9, HeadGone

LEMMA ClearDirtyStep ==
    ASSUME UnreadInv, NEW t \in Workers, Busy(t), ClearDirty(t, Head(task[t].todo))
    PROVE  UnreadInv'
<1>. DEFINE l == Todo(t)
            o == Head(l)
<1>0. o.do = "undirty" /\ Continue(t, None, <<>>) /\ dirty' = dirty \ {o.u} /\ UNCHANGED <<members, posts, pos, legacy, v2, stale>>
  BY DEF ClearDirty, Todo
<1>1. Tail(l) \in Seq(Ops)
  BY BusyFacts
<1>2. Moved(t, Tail(l), IF Tail(l) = <<>> THEN None ELSE None)
  BY <1>0, DoneFacts
<1>3. DataOK' /\ MembersOK' /\ stale \subseteq stale'
  BY <1>0 DEF UnreadInv, DataOK, MembersOK
<1>4. ASSUME NEW u \in Users PROVE Carried(Workers \ {t}, u)
  <2>1. Keeps(t, Tail(l), u)
    BY <1>0, KeepsTail
  <2>2. SameCounts(u) /\ Truth(u)' = Truth(u)
    BY <1>0, SameRows
  <2>3. (Excused(u) => Excused(u)') /\ (LegacyOK(u) => LegacyOK(u)') /\ (V2OK(u) => V2OK(u)')
    BY <1>0, <1>1, <1>2, <1>3, <2>1, <2>2, Keeping DEF Keeps
  <2>4. o.u = u => LegacyOK(u) /\ V2OK(u)
    BY <1>0 DEF UnreadInv, HeadOK, HeadAt
  <2>5. o.u # u => (u \in dirty => u \in dirty')
    BY <1>0
  <2>. QED
    BY <2>2, <2>3, <2>4, <2>5 DEF Carried
<1>. QED
  BY <1>0, <1>2, <1>3, <1>4, HeadGone

LEMMA DropCountersStep ==
    ASSUME UnreadInv, NEW t \in Workers, Busy(t), DropCounters(t, Head(task[t].todo))
    PROVE  UnreadInv'
<1>. DEFINE l == Todo(t)
            o == Head(l)
<1>0. /\ \/ o.do = "drop_legacy" /\ legacy' = [legacy EXCEPT ![o.u] = 0] /\ UNCHANGED v2
         \/ o.do = "drop" /\ v2' = [v2 EXCEPT ![o.u] = None] /\ UNCHANGED legacy
      /\ Continue(t, None, <<>>)
      /\ UNCHANGED <<members, posts, pos, dirty, stale>>
  BY DEF DropCounters, Todo
<1>1. l \in Seq(Ops) /\ l # <<>> /\ Tail(l) \in Seq(Ops) /\ Shaped(l) /\ Undirties(l, Missed)
  BY BusyFacts
<1>2. Moved(t, Tail(l), IF Tail(l) = <<>> THEN None ELSE None)
  BY <1>0, DoneFacts
<1>3. DataOK' /\ MembersOK' /\ stale \subseteq stale'
  BY <1>0 DEF UnreadInv, DataOK, MembersOK
<1>4. Todo(t)' = Tail(l)
  BY <1>1, <1>2, MovedFacts DEF UnreadInv
<1>5. ASSUME NEW u \in Users PROVE SameCounts(u) /\ Truth(u)' = Truth(u)
  BY <1>0, SameRows
<1>6. ASSUME NEW u \in Users, u # o.u PROVE Carried(Workers \ {t}, u)
  <2>1. Keeps(t, Tail(l), u)
    BY <1>0, <1>6, KeepsTail
  <2>2. legacy'[u] = legacy[u] /\ v2'[u] = v2[u]
    BY <1>0, <1>6 DEF UnreadInv, DataOK
  <2>. QED
    BY <1>0, <1>1, <1>2, <1>3, <1>5, <2>1, <2>2, Untouched
<1>7. ASSUME NEW u \in Users, u = o.u
      PROVE  Carried(Workers \ {t}, u) /\ LegacyOK(u)' /\ (o.do = "drop" => V2OK(u)')
  <2>1. Marks(l, u) => Marks(Tail(l), u)
    BY <1>0, KeepsTail
  <2>2. CASE o.do = "drop_legacy"
    <3>1. WritesV2(t, l, u) => WritesV2(t, Tail(l), u)
      BY <2>2, KeepsTail
    <3>2. v2'[u] = v2[u]
      BY <1>0, <2>2
    <3>3. (Excused(u) => Excused(u)') /\ (V2OK(u) => V2OK(u)')
      BY <1>0, <1>1, <1>2, <1>3, <1>5, <2>1, <3>1, <3>2, Keeping
    <3>4. LegacyOK(u)'
      <4>1. legacy'[u] = 0
        BY <1>0, <1>7, <2>2 DEF UnreadInv, DataOK
      <4>. QED
        BY <4>1 DEF LegacyOK
    <3>. QED
      BY <1>0, <1>5, <2>2, <3>3, <3>4 DEF Carried
  <2>3. CASE o.do = "drop"
    <3>1. WritesLegacy(t, l, u) => WritesLegacy(t, Tail(l), u)
      BY <2>3, KeepsTail
    <3>2. legacy'[u] = legacy[u]
      BY <1>0, <2>3
    <3>3. (Excused(u) => Excused(u)') /\ (LegacyOK(u) => LegacyOK(u)')
      BY <1>0, <1>1, <1>2, <1>3, <1>5, <2>1, <3>1, <3>2, Keeping
    <3>4. V2OK(u)'
      <4>1. v2'[u] = None
        BY <1>0, <1>7, <2>3 DEF UnreadInv, DataOK
      <4>. QED
        BY <4>1 DEF V2OK
    <3>5. LegacyOK(u)
      BY <1>7, <2>3 DEF UnreadInv, HeadOK, HeadAt
    <3>. QED
      BY <1>0, <1>5, <3>3, <3>4, <3>5 DEF Carried
  <2>. QED
    BY <1>0, <2>2, <2>3
<1>8. ASSUME NEW u \in Users PROVE HeldAt(t, u)' /\ HeadAt(t, u)'
  <2>1. CASE o.do = "drop_legacy"
    <3>1. Head(Tail(l)).do = "drop" /\ Head(Tail(l)).u = o.u
      BY <1>1, <2>1, FirstOp, NextOp
    <3>2. HeldAt(t, u)'
      BY <1>4, <3>1 DEF HeldAt
    <3>3. HeadAt(t, u)'
      BY <1>4, <1>7, <3>1 DEF HeadAt
    <3>. QED
      BY <3>2, <3>3
  <2>2. CASE o.do = "drop"
    <3>1. Tail(l) # <<>> => /\ Head(Tail(l)).do \notin {"legacy", "v2", "drop"}
                            /\ Head(Tail(l)).do = "undirty" => Head(Tail(l)).u = o.u \/ Head(Tail(l)).u \in Missed
      <4>1. SUFFICES ASSUME Tail(l) # <<>>
                     PROVE  /\ Head(Tail(l)).do \notin {"legacy", "v2", "drop"}
                            /\ Head(Tail(l)).do = "undirty" => Head(Tail(l)).u = o.u \/ Head(Tail(l)).u \in Missed
        OBVIOUS
      <4>2. /\ Head(l) = l[1] /\ Len(l) \in Nat /\ Len(Tail(l)) = Len(l) - 1 /\ Head(Tail(l)) = Tail(l)[1]
            /\ \A k \in 1..Len(Tail(l)) : Tail(l)[k] = l[k + 1]
        BY <1>1, <4>1, TailFacts
      <4>3. Len(Tail(l)) > 0
        BY <1>1, <4>1
      <4>4. 2 \in 1..Len(l) /\ 2 \in 2..Len(l) /\ 2 > 1 /\ 2 - 1 = 1 /\ 1 \in 1..Len(Tail(l)) /\ 1 + 1 = 2
        BY <4>2, <4>3
      <4>5. Head(Tail(l)) = l[2]
        BY <4>2, <4>4
      <4>6. Shaped(l)!(2)
        BY <1>1, <4>4 DEF Shaped
      <4>7. l[2].do = "undirty" => After(l, 2, "v2") \/ After(l, 2, "drop") \/ l[2].u \in Missed
        BY <1>1, <4>4 DEF Undirties
      <4>. QED
        BY <2>2, <4>2, <4>4, <4>5, <4>6, <4>7 DEF After
    <3>2. u \in Missed => u \in stale'
      BY <1>0, UnreadsAssumption DEF Missed
    <3>3. u \in stale' => LegacyOK(u)' /\ V2OK(u)'
      BY DEF LegacyOK, V2OK, Excused
    <3>4. Busy(t)' => Tail(l) # <<>>
      BY <1>4 DEF Busy, Todo
    <3>5. HeldAt(t, u)'
      BY <1>4, <3>1, <3>4 DEF HeldAt
    <3>6. HeadAt(t, u)'
      BY <1>4, <1>7, <2>2, <3>1, <3>2, <3>3, <3>4 DEF HeadAt
    <3>. QED
      BY <3>5, <3>6
  <2>. QED
    BY <1>0, <2>1, <2>2
<1>. QED
  BY <1>2, <1>3, <1>6, <1>7, <1>8, HeadGone

LEMMA SetPositionStep ==
    ASSUME UnreadInv, NEW t \in Workers, Busy(t), NEW o, o = Head(task[t].todo), SetPosition(t, o)
    PROVE  UnreadInv'
<1>. DEFINE l == Todo(t)
<1>0. /\ o.do = "position" /\ Continue(t, None, <<>>) /\ pos' = [pos EXCEPT ![o.u] = o.p]
      /\ UNCHANGED <<members, posts, legacy, v2, dirty>>
      /\ stale' = IF /\ l[2].do = "notify" /\ o.u \in Users
                     /\ InWindow(t, o.u) \/ (o.u \notin dirty /\ ~ShownExactly(o.u)')
                  THEN stale \cup {o.u} ELSE stale
  BY DEF SetPosition, Todo
<1>00. o = Head(l)
  BY DEF Todo
<1>1. /\ l \in Seq(Ops) /\ l # <<>> /\ Tail(l) \in Seq(Ops) /\ Shaped(l) /\ Belongs(t, l) /\ o \in Ops /\ o = l[1]
      /\ Len(l) \in Nat
  BY <1>00, BusyFacts
<1>2. Moved(t, Tail(l), IF Tail(l) = <<>> THEN None ELSE None)
  BY <1>0, DoneFacts
<1>3. DataOK' /\ MembersOK' /\ stale \subseteq stale'
  <2>1. o.u \in People /\ o.p \in Nat /\ stale' \subseteq People /\ stale \subseteq stale'
    BY <1>0, <1>1 DEF Ops, UnreadInv, DataOK
  <2>. QED
    BY <1>0, <2>1 DEF UnreadInv, DataOK, MembersOK
<1>4. Todo(t)' = Tail(l)
  BY <1>1, <1>2, MovedFacts DEF UnreadInv
<1>5. \/ Then(l, 1, "notify") \/ Then(l, 1, "drop_legacy")
      \/ (Then(l, 1, "compute") /\ 3 <= Len(l) /\ l[3].p = 0)
  BY <1>0, <1>00, FirstOp
<1>6. ASSUME NEW u \in Users PROVE HeldAt(t, u)' /\ HeadAt(t, u)'
  <2>1. Head(Tail(l)).do \in {"notify", "drop_legacy", "compute"}
    BY <1>00, <1>1, <1>5, NextOp
  <2>2. HeldAt(t, u)'
    BY <1>4, <2>1 DEF HeldAt
  <2>3. HeadAt(t, u)'
    BY <1>4, <2>1 DEF HeadAt
  <2>. QED
    BY <2>2, <2>3
<1>7. ASSUME NEW u \in Users, u # o.u PROVE Carried(Workers \ {t}, u)
  <2>1. Keeps(t, Tail(l), u)
    BY <1>0, <1>7, <1>00, KeepsTail
  <2>2. pos'[u] = pos[u]
    BY <1>0, <1>7 DEF UnreadInv, DataOK, People
  <2>3. SameCounts(u) /\ Truth(u)' = Truth(u)
    BY <1>0, <2>2, SameRows
  <2>. QED
    BY <1>0, <1>1, <1>2, <1>3, <2>1, <2>3, Untouched
<1>8. ASSUME NEW u \in Users, u = o.u, Then(l, 1, "notify") PROVE Excused(u)' \/ Settled(Workers \ {t}, u)
  <2>1. l[2].do = "notify"
    <3>1. 1 + 1 = 2
      OBVIOUS
    <3>. QED
      BY <1>8, <3>1 DEF Then
  <2>2. SUFFICES ASSUME u \notin stale' PROVE Settled(Workers \ {t}, u)
    BY DEF Excused
  <2>3. ~InWindow(t, u) /\ (u \in dirty \/ ShownExactly(u)')
    BY <1>0, <1>8, <2>1, <2>2
  <2>4. ~Window(Workers \ {t}, u)
    BY <2>3 DEF InWindow, Window, Todo
  <2>5. ShownExactly(u)' => LegacyOK(u)' /\ V2OK(u)'
    BY DEF ShownExactly, LegacyOK, V2OK
  <2>. QED
    BY <1>0, <2>3, <2>4, <2>5 DEF Settled
<1>9. ASSUME NEW u \in Users, u = o.u, ~Then(l, 1, "notify") PROVE Carried(Workers \ {t}, u)
  <2>1. l[2].do # "notify" /\ l[2].u = u /\ 2 \in 1..Len(l) /\ 2 + 1 = 3
    <3>1. 1 + 1 = 2
      OBVIOUS
    <3>. QED
      BY <1>1, <1>5, <1>9, <3>1 DEF Then
  <2>2. \A k \in 2..Len(l) : k - 1 \in 1..Len(Tail(l)) /\ Tail(l)[k - 1] = l[k]
    <3>1. Len(Tail(l)) = Len(l) - 1 /\ \A k \in 1..Len(Tail(l)) : Tail(l)[k] = l[k + 1]
      BY <1>1, TailFacts
    <3>2. \A k \in 2..Len(l) : k - 1 \in 1..Len(Tail(l)) /\ (k - 1) + 1 = k
      BY <1>1, <3>1
    <3>. QED
      BY <3>1, <3>2
  <2>3. Shaped(l)!(2)
    BY <1>1, <2>1 DEF Shaped
  <2>4. CASE Then(l, 1, "drop_legacy")
    <3>1. l[2].do = "drop_legacy" /\ 1 + 1 = 2
      BY <2>4 DEF Then
    <3>2. 3 \in 2..Len(l) /\ 2 \in 2..Len(l) /\ l[3].do = "drop" /\ l[3].u = u
      BY <1>1, <2>1, <2>3, <3>1 DEF Then
    <3>3. Has(Tail(l), "drop_legacy", u) /\ Has(Tail(l), "drop", u)
      BY <2>1, <2>2, <3>1, <3>2 DEF Has
    <3>4. LegacyOK(u)' /\ V2OK(u)'
      BY <1>1, <1>2, <3>3, Covers DEF WritesLegacy, WritesV2
    <3>5. Marks(l, u) => Marks(Tail(l), u)
      BY <1>0, <2>1, <1>00, KeepsTail
    <3>6. Excused(u) => Excused(u)'
      BY <1>1, <1>2, <1>3, <3>5, Keeping
    <3>7. SameCounts(u)
      BY <1>0, SameRows
    <3>. QED
      BY <3>4, <3>6, <3>7 DEF Carried
  <2>5. CASE Then(l, 1, "compute") /\ 3 <= Len(l) /\ l[3].p = 0
    <3>1. l[2].do = "compute" /\ 1 + 1 = 2
      BY <2>5 DEF Then
    <3>2. 3 \in 2..Len(l) /\ 3 \in 1..Len(l) /\ 2 \in 2..Len(l) /\ l[3].do = "legacy" /\ l[3].u = u
      BY <1>1, <2>1, <2>3, <3>1 DEF Then
    <3>3. Shaped(l)!(3)
      BY <1>1, <3>2 DEF Shaped
    <3>4. 4 \in 2..Len(l) /\ l[4].do = "v2" /\ l[4].u = u /\ l[4].p = 0
      <4>1. Then(l, 3, "v2") /\ l[3 + 1].p = 0 /\ 3 + 1 = 4
        BY <2>5, <3>2, <3>3
      <4>. QED
        BY <1>1, <3>2, <4>1 DEF Then
    <3>5. t \in Tasks
      <4>1. 1 \in 1..Len(l)
        BY <1>1, <3>2
      <4>. QED
        BY <1>0, <1>1, <4>1 DEF Belongs, ReconcilerDoes
    <3>6. Safe(t, Tail(l), "legacy", u) /\ Safe(t, Tail(l), "v2", u)
      BY <2>2, <2>5, <3>2, <3>4, <3>5 DEF Safe
    <3>7. LegacyOK(u)' /\ V2OK(u)'
      BY <1>1, <1>2, <3>6, Covers DEF WritesLegacy, WritesV2
    <3>8. Marks(l, u) => Marks(Tail(l), u)
      BY <1>0, <2>1, <1>00, KeepsTail
    <3>9. Excused(u) => Excused(u)'
      BY <1>1, <1>2, <1>3, <3>8, Keeping
    <3>10. SameCounts(u)
      BY <1>0, SameRows
    <3>. QED
      BY <3>7, <3>9, <3>10 DEF Carried
  <2>. QED
    BY <1>5, <1>9, <2>4, <2>5
<1>. QED
  BY <1>2, <1>3, <1>6, <1>7, <1>8, <1>9, HeadGone

\* The members are notified, or only marked, in place of the first instruction.
LEMMA NotifyMoves ==
    ASSUME UnreadInv, NEW t \in Workers, Busy(t), Head(Todo(t)).do = "notify", NEW more, Plain(more),
           \A u \in members \ {Head(Todo(t)).u} : Has(more, "mark_dirty", u), NEW v, Moved(t, more \o Tail(Todo(t)), v),
           UNCHANGED <<members, posts, pos, legacy, v2, dirty, stale>>
    PROVE  UnreadInv'
<1>. DEFINE l == Todo(t)
            o == Head(l)
<1>1. /\ l \in Seq(Ops) /\ l # <<>> /\ Tail(l) \in Seq(Ops) /\ Shaped(l) /\ Belongs(t, l) /\ Undirties(l, Missed)
      /\ Shaped(Tail(l)) /\ Belongs(t, Tail(l)) /\ Undirties(Tail(l), Missed) /\ o = l[1] /\ Len(l) \in Nat /\ Len(l) > 0
  BY BusyFacts
<1>2. t \in Tasks
  <2>1. 1 \in 1..Len(l)
    BY <1>1
  <2>. QED
    BY <1>1, <2>1 DEF Belongs, ReconcilerDoes
<1>3. Fresh(Tail(l), Missed)
  BY <1>1, FreshTail
<1>4. DataOK' /\ MembersOK' /\ stale \subseteq stale'
  BY DEF UnreadInv, DataOK, MembersOK
<1>5. more \in Seq(Ops)
  BY DEF Plain
<1>6. PICK l2 : l2 = more \o Tail(l)
  OBVIOUS
<1>7. l2 \in Seq(Ops) /\ Shaped(l2) /\ Belongs(t, l2) /\ Undirties(l2, Missed) /\ Fresh(l2, Missed) /\ Moved(t, l2, v)
  BY <1>1, <1>2, <1>3, <1>6, PlainJoin
<1>8. Undirties(l2, Missed') /\ Opens(l2, Missed')
  BY <1>4, <1>7, MissedGrows, FreshGrows
<1>9. ASSUME NEW u \in Users PROVE Excused(u)' \/ Carried(Workers \ {t}, u)
  <2>1. CASE u \in members \ {o.u}
    <3>1. Has(l2, "mark_dirty", u)
      BY <1>1, <1>5, <1>6, <2>1, JoinCovers
    <3>. QED
      BY <1>7, <3>1, Covers DEF Marks
  <2>2. CASE u \notin members
    BY <1>4, <2>2 DEF UnreadInv, MembersOK, Excused
  <2>3. CASE u = o.u
    <3>1. Keeps(t, Tail(l), u)
      BY <2>3, KeepsTail
    <3>2. Keeps(t, l2, u)
      BY <1>1, <1>5, <1>6, <3>1, JoinCovers DEF Keeps
    <3>3. SameCounts(u) /\ Truth(u)' = Truth(u)
      BY SameRows
    <3>. QED
      BY <1>4, <1>7, <3>2, <3>3, Untouched
  <2>. QED
    BY <2>1, <2>2, <2>3
<1>. QED
  BY <1>4, <1>7, <1>8, <1>9, TaskMoves

LEMMA NotifyStep ==
    ASSUME UnreadInv, NEW t \in Workers, Busy(t), Notify(t, Head(task[t].todo))
    PROVE  UnreadInv'
<1>. DEFINE o == Head(Todo(t))
            to == SetToSeq(members \ {o.u})
            more == FlattenSeq([i \in DOMAIN to |-> increment_member(to[i])])
<1>1. o.do = "notify" /\ Continue(t, None, more) /\ UNCHANGED <<members, posts, pos, legacy, v2, dirty, stale>>
  BY DEF Notify, Todo
<1>2. members \ {o.u} \in SUBSET Users
  BY DEF UnreadInv, DataOK
<1>3. t \in Tasks
  <2>1. Belongs(t, Todo(t)) /\ o = Todo(t)[1] /\ Len(Todo(t)) \in Nat /\ Len(Todo(t)) > 0
    BY BusyFacts
  <2>2. 1 \in 1..Len(Todo(t))
    BY <2>1
  <2>. QED
    BY <1>1, <2>1, <2>2 DEF Belongs, ReconcilerDoes
<1>4. Plain(more) /\ \A u \in members \ {o.u} : Has(more, "mark_dirty", u)
  BY <1>2, <1>3, NotifyList
<1>5. Moved(t, more \o Tail(Todo(t)), IF more \o Tail(Todo(t)) = <<>> THEN None ELSE None)
  BY <1>1, ContinueFacts
<1>. HIDE DEF more
<1>. QED
  BY <1>1, <1>4, <1>5, NotifyMoves

LEMMA IncrementStep ==
    ASSUME UnreadInv, NEW t \in Workers, Busy(t), Increment(t, Head(task[t].todo))
    PROVE  UnreadInv'
<1>. DEFINE l == Todo(t)
            o == Head(l)
<1>0. /\ o.do \in {"incr_legacy", "incr_count", "incr_root"} /\ Continue(t, None, <<>>)
      /\ UNCHANGED <<members, posts, pos, dirty, stale>>
      /\ DOMAIN legacy' = DOMAIN legacy /\ DOMAIN v2' = DOMAIN v2
      /\ \A u \in Users : u # o.u => legacy'[u] = legacy[u] /\ v2'[u] = v2[u]
  BY DEF Increment, Todo, UnreadInv, DataOK
<1>1. l \in Seq(Ops) /\ l # <<>> /\ Tail(l) \in Seq(Ops) /\ Shaped(l) /\ o = l[1] /\ Len(l) \in Nat
  BY BusyFacts
<1>2. Moved(t, Tail(l), IF Tail(l) = <<>> THEN None ELSE None)
  BY <1>0, DoneFacts
<1>3. DataOK' /\ MembersOK' /\ stale \subseteq stale'
  BY <1>0 DEF UnreadInv, DataOK, MembersOK
<1>4. Has(Tail(l), "mark_dirty", o.u)
  <2>1. \A k \in 2..Len(l) : k - 1 \in 1..Len(Tail(l)) /\ Tail(l)[k - 1] = l[k]
    <3>1. Len(Tail(l)) = Len(l) - 1 /\ \A k \in 1..Len(Tail(l)) : Tail(l)[k] = l[k + 1]
      BY <1>1, TailFacts
    <3>2. \A k \in 2..Len(l) : k - 1 \in 1..Len(Tail(l)) /\ (k - 1) + 1 = k
      BY <1>1, <3>1
    <3>. QED
      BY <3>1, <3>2
  <2>2. ASSUME NEW k \in 1..Len(l), l[k].do = "incr_root", l[k].u = o.u
        PROVE  Has(Tail(l), "mark_dirty", o.u)
    <3>1. Then(l, k, "mark_dirty")
      BY <1>1, <2>2 DEF Shaped
    <3>2. k + 1 \in 2..Len(l) /\ l[k + 1].do = "mark_dirty" /\ l[k + 1].u = o.u
      BY <1>1, <2>2, <3>1 DEF Then
    <3>. QED
      BY <2>1, <3>2 DEF Has
  <2>3. ASSUME NEW k \in 1..Len(l), l[k].do = "incr_count", l[k].u = o.u
        PROVE  Has(Tail(l), "mark_dirty", o.u)
    <3>1. Then(l, k, "incr_root")
      BY <1>1, <2>3 DEF Shaped
    <3>2. k + 1 \in 1..Len(l) /\ l[k + 1].do = "incr_root" /\ l[k + 1].u = o.u
      BY <1>1, <2>3, <3>1 DEF Then
    <3>. QED
      BY <2>2, <3>2
  <2>4. CASE o.do = "incr_legacy"
    <3>1. Then(l, 1, "incr_count") /\ 1 + 1 = 2
      BY <2>4, FirstOp
    <3>2. 2 \in 1..Len(l) /\ l[2].do = "incr_count" /\ l[2].u = o.u
      BY <1>1, <3>1 DEF Then
    <3>. QED
      BY <2>3, <3>2
  <2>5. 1 \in 1..Len(l)
    BY <1>1
  <2>. QED
    BY <1>0, <1>1, <2>2, <2>3, <2>4, <2>5
<1>5. ASSUME NEW u \in Users PROVE Excused(u)' \/ Carried(Workers \ {t}, u)
  <2>1. CASE u = o.u
    BY <1>1, <1>2, <1>4, <2>1, Covers DEF Marks
  <2>2. CASE u # o.u
    <3>1. Keeps(t, Tail(l), u)
      BY <1>0, KeepsTail
    <3>2. SameCounts(u) /\ Truth(u)' = Truth(u)
      BY <1>0, SameRows
    <3>. QED
      BY <1>0, <1>1, <1>2, <1>3, <2>2, <3>1, <3>2, Untouched
  <2>. QED
    BY <2>1, <2>2
<1>. QED
  BY <1>0, <1>2, <1>3, <1>5, HeadGone

LEMMA MarkDirtyStep ==
    ASSUME UnreadInv, NEW t \in Workers, Busy(t), mark_dirty_with_conn(t, Head(task[t].todo))
    PROVE  UnreadInv'
<1>. DEFINE l == Todo(t)
            o == Head(l)
<1>0. /\ o.do = "mark_dirty" /\ Continue(t, None, <<>>) /\ dirty' = dirty \cup {o.u}
      /\ stale' = IF InWindow(t, o.u) THEN stale \cup {o.u} ELSE stale
      /\ UNCHANGED <<members, posts, pos, legacy, v2>>
  BY DEF mark_dirty_with_conn, Todo
<1>1. l \in Seq(Ops) /\ l # <<>> /\ Tail(l) \in Seq(Ops) /\ Shaped(l) /\ o \in Ops
  BY BusyFacts
<1>2. Moved(t, Tail(l), IF Tail(l) = <<>> THEN None ELSE None)
  BY <1>0, DoneFacts
<1>3. DataOK' /\ MembersOK' /\ stale \subseteq stale'
  <2>1. o.u \in People
    BY <1>1 DEF Ops
  <2>. QED
    BY <1>0, <2>1 DEF UnreadInv, DataOK, MembersOK
<1>4. ASSUME NEW u \in Users PROVE Excused(u)' \/ Settled(Workers \ {t}, u) \/ Carried(Workers \ {t}, u)
  <2>1. CASE u = o.u
    <3>1. SUFFICES ASSUME u \notin stale' PROVE Settled(Workers \ {t}, u)
      BY DEF Excused
    <3>2. ~InWindow(t, u) /\ u \in dirty'
      BY <1>0, <2>1, <3>1
    <3>3. ~Window(Workers \ {t}, u)
      BY <3>2 DEF InWindow, Window, Todo
    <3>. QED
      BY <3>2, <3>3 DEF Settled
  <2>2. CASE u # o.u
    <3>1. Keeps(t, Tail(l), u)
      BY <1>0, <2>2, KeepsTail
    <3>2. SameCounts(u) /\ Truth(u)' = Truth(u)
      BY <1>0, SameRows
    <3>. QED
      BY <1>0, <1>1, <1>2, <1>3, <3>1, <3>2, Untouched
  <2>. QED
    BY <2>1, <2>2
<1>. QED
  BY <1>0, <1>2, <1>3, <1>4, HeadGone

\* The reconciler's lists cover nobody.
LEMMA ReconcilerCoversNobody ==
    ASSUME NEW l, Belongs(Reconciler, l), NEW u
    PROVE  ~Marks(l, u) /\ ~WritesLegacy(Reconciler, l, u) /\ ~WritesV2(Reconciler, l, u)
<1>1. Reconciler \notin Tasks
  BY UnreadsAssumption
<1>2. \A k \in 1..Len(l) : l[k].do \in ReconcilerDoes
  BY <1>1 DEF Belongs
<1>. QED
  BY <1>1, <1>2 DEF ReconcilerDoes, Marks, Owes, Has, WritesLegacy, WritesV2, Safe

LEMMA SyncUserStep ==
    ASSUME UnreadInv, NEW t \in Workers, Busy(t), SyncUser(t, Head(task[t].todo))
    PROVE  UnreadInv'
<1>. DEFINE l == Todo(t)
            o == Head(l)
<1>1. /\ o.do = "sync" /\ Continue(t, None, sync_user_unread_cache(o.u))
      /\ UNCHANGED <<members, posts, pos, legacy, v2, dirty, stale>>
  BY DEF SyncUser, Todo
<1>2. /\ l \in Seq(Ops) /\ l # <<>> /\ Tail(l) \in Seq(Ops) /\ Shaped(l) /\ Belongs(t, l) /\ Undirties(l, Missed) /\ o \in Ops
      /\ Shaped(Tail(l)) /\ Belongs(t, Tail(l)) /\ Undirties(Tail(l), Missed) /\ o = l[1] /\ Len(l) \in Nat /\ Len(l) > 0
  BY BusyFacts
<1>3. t = Reconciler
  <2>1. 1 \in 1..Len(l)
    BY <1>2
  <2>2. t \notin Tasks
    BY <1>1, <1>2, <2>1 DEF Belongs
  <2>. QED
    BY <2>2 DEF Workers
<1>4. DataOK' /\ MembersOK' /\ stale \subseteq stale'
  BY <1>1 DEF UnreadInv, DataOK, MembersOK
<1>5. PICK more : more = sync_user_unread_cache(o.u)
  OBVIOUS
<1>6. /\ more \in Seq(Ops) /\ Shaped(more) /\ Belongs(t, more) /\ Undirties(more, Missed) /\ Fresh(more, Missed)
      /\ \A k \in 1..Len(more) : k = Len(more) => more[k].do # "v2"
  BY <1>2, <1>3, <1>5, SyncList DEF UnreadInv, Ops
<1>7. PICK l2 : l2 = more \o Tail(l)
  OBVIOUS
<1>8. Moved(t, l2, IF l2 = <<>> THEN None ELSE None)
  BY <1>1, <1>5, <1>7, ContinueFacts
<1>9. Fresh(Tail(l), Missed)
  BY <1>1, <1>2, FreshTail
<1>10. Shaped(l2) /\ Undirties(l2, Missed) /\ Fresh(l2, Missed)
  BY <1>2, <1>6, <1>7, <1>9, JoinShaped, JoinUndirties
<1>11. l2 \in Seq(Ops) /\ Belongs(t, l2)
  <2>1. PICK n \in Nat : n = Len(more)
    BY <1>6
  <2>2. /\ l2 \in Seq(Ops) /\ Len(l2) = n + Len(Tail(l)) /\ Len(Tail(l)) \in Nat
        /\ \A k \in 1..n : k \in 1..Len(l2) /\ l2[k] = more[k]
        /\ \A k \in 1..Len(l2) : k \in 1..n \/ (k - n \in 1..Len(Tail(l)) /\ l2[k] = Tail(l)[k - n])
    BY <1>2, <1>6, <1>7, <2>1, JoinFacts
  <2>3. Reconciler \notin Tasks
    BY UnreadsAssumption
  <2>4. PICK b \in Seq(Ops) : b = Tail(l)
    BY <1>2
  <2>5. \A k \in 1..Len(b) : b[k].do \in ReconcilerDoes /\ (b[k].do = "v2" => k < Len(b) /\ b[k].p = 0)
    BY <1>2, <1>3, <2>3, <2>4 DEF Belongs
  <2>6. \A k \in 1..n : more[k].do \in ReconcilerDoes /\ (more[k].do = "v2" => k < n /\ more[k].p = 0)
    BY <1>3, <1>6, <2>1, <2>3 DEF Belongs
  <2>7. ASSUME NEW k \in 1..Len(l2)
        PROVE  l2[k].do \in ReconcilerDoes /\ (l2[k].do = "v2" => k < Len(l2) /\ l2[k].p = 0)
    <3>1. CASE k \in 1..n
      <4>1. k < n => k < Len(l2)
        BY <2>2
      <4>. QED
        BY <2>2, <2>6, <3>1, <4>1
    <3>2. CASE k - n \in 1..Len(b) /\ l2[k] = b[k - n]
      <4>1. k - n < Len(b) => k < Len(l2)
        BY <2>2, <2>4
      <4>. QED
        BY <2>5, <3>2, <4>1
    <3>. QED
      BY <2>2, <2>4, <3>1, <3>2
  <2>. QED
    BY <1>3, <2>2, <2>3, <2>7 DEF Belongs
<1>12. Undirties(l2, Missed') /\ Opens(l2, Missed')
  BY <1>4, <1>10, MissedGrows, FreshGrows
<1>13. ASSUME NEW u \in Users PROVE Carried(Workers \ {t}, u)
  <2>1. Keeps(t, l2, u)
    BY <1>2, <1>3, ReconcilerCoversNobody DEF Keeps
  <2>2. SameCounts(u) /\ Truth(u)' = Truth(u)
    BY <1>1, SameRows
  <2>. QED
    BY <1>1, <1>4, <1>8, <1>11, <2>1, <2>2, Untouched
<1>. QED
  BY <1>4, <1>8, <1>10, <1>11, <1>12, <1>13, TaskMoves

\* Rows change in what is not counted.
LEMMA SameFlags ==
    ASSUME NEW u, DOMAIN posts' = DOMAIN posts, u \in members' <=> u \in members,
           \A i \in DOMAIN posts : posts'[i].deleted = posts[i].deleted /\ posts'[i].root = posts[i].root
    PROVE  SameCounts(u) /\ (pos'[u] = pos[u] => Truth(u)' = Truth(u))
<1>1. ASSUME NEW q PROVE Newer(q)' = Newer(q)
  BY DEF Newer
<1>2. ASSUME NEW q PROVE {i \in Newer(q)' : posts'[i].root = 0} = {i \in Newer(q) : posts[i].root = 0}
  <2>1. \A i \in Newer(q) : i \in DOMAIN posts
    BY DEF Newer
  <2>. QED
    BY <1>1, <2>1
<1>3. ASSUME NEW q PROVE CountAt(u, q)' = CountAt(u, q)
  <2>1. CASE u \in members
    BY <1>1, <1>2, <2>1 DEF CountAt
  <2>2. CASE u \notin members
    BY <2>2 DEF CountAt
  <2>. QED
    BY <2>1, <2>2
<1>4. ASSUME pos'[u] = pos[u] PROVE Truth(u)' = Truth(u)
  <2>1. PICK q : q = pos[u]
    OBVIOUS
  <2>2. Truth(u) = [count |-> CountAt(u, q).count, root |-> CountAt(u, q).root]
    BY <2>1 DEF Truth, compute_channel_unread_from_db
  <2>3. Truth(u)' = [count |-> CountAt(u, q)'.count, root |-> CountAt(u, q)'.root]
    BY <1>4, <2>1 DEF Truth, compute_channel_unread_from_db, CountAt, Newer
  <2>. QED
    BY <1>3, <2>2, <2>3
<1>. QED
  BY <1>3, <1>4 DEF SameCounts

LEMMA CountReplyStep ==
    ASSUME UnreadInv, NEW t \in Workers, Busy(t), CountReply(t, Head(task[t].todo))
    PROVE  UnreadInv'
<1>. DEFINE l == Todo(t)
            o == Head(l)
<1>1. /\ o.do = "count_reply" /\ Continue(t, None, <<>>) /\ posts' = [posts EXCEPT ![o.p].replies = @ + 1]
      /\ UNCHANGED <<members, pos, legacy, v2, dirty, stale>>
  BY DEF CountReply, Counters, Todo
<1>2. Tail(l) \in Seq(Ops)
  BY BusyFacts
<1>3. Moved(t, Tail(l), IF Tail(l) = <<>> THEN None ELSE None)
  BY <1>1, DoneFacts
<1>4. posts \in Seq(PostRows)
  BY DEF UnreadInv, DataOK
<1>5. posts' \in Seq(PostRows)
  <2>1. PICK n \in Nat : n = Len(posts) /\ posts \in [1..n -> PostRows]
    BY <1>4
  <2>2. \A r \in PostRows : [r EXCEPT !.replies = @ + 1] \in PostRows
    BY DEF PostRows
  <2>3. posts' \in [1..n -> PostRows]
    BY <1>1, <2>1, <2>2
  <2>. QED
    BY <2>3
<1>6. /\ DOMAIN posts' = DOMAIN posts
      /\ \A i \in DOMAIN posts : posts'[i].deleted = posts[i].deleted /\ posts'[i].root = posts[i].root
  BY <1>1, <1>4 DEF PostRows
<1>7. DataOK' /\ MembersOK' /\ stale \subseteq stale'
  BY <1>1, <1>5 DEF UnreadInv, DataOK, MembersOK
<1>8. ASSUME NEW u \in Users PROVE Carried(Workers \ {t}, u)
  <2>1. Keeps(t, Tail(l), u)
    BY <1>1, KeepsTail
  <2>2. SameCounts(u) /\ Truth(u)' = Truth(u)
    BY <1>1, <1>6, SameFlags
  <2>. QED
    BY <1>1, <1>2, <1>3, <1>7, <2>1, <2>2, Untouched
<1>. QED
  BY <1>1, <1>3, <1>7, <1>8, HeadGone

LEMMA NewPostRow == ASSUME NEW u \in People, NEW r \in Nat PROVE NewPost(u, r) \in PostRows
BY DEF NewPost, PostRows

\* A user whom the step has not bypassed, and for whom nobody has counted.
LEMMA NotBypassed ==
    ASSUME NEW t, NEW u \in Users, stale' = stale \cup Bypassed \cup Counted, u \notin stale'
    PROVE  Truth(u)' = Truth(u) /\ ~Counting(Workers \ {t}, u)
BY DEF Bypassed, Counted, Counting, Todo

LEMMA PlaybookStep ==
    ASSUME UnreadInv, NEW t \in Workers, Busy(t), check_playbook_triggers(t, Head(task[t].todo))
    PROVE  UnreadInv'
<1>. DEFINE l == Todo(t)
            o == Head(l)
<1>1. /\ o.do = "playbook" /\ Continue(t, None, <<>>)
      /\ posts' = IF Len(posts) < MaxPosts THEN Append(posts, NewPost(Bot, 0)) ELSE posts
      /\ UNCHANGED <<members, pos, legacy, v2, dirty>> /\ stale' = stale \cup Bypassed \cup Counted
  BY DEF check_playbook_triggers, Counters, Todo
<1>2. Tail(l) \in Seq(Ops)
  BY BusyFacts
<1>3. Moved(t, Tail(l), IF Tail(l) = <<>> THEN None ELSE None)
  BY <1>1, DoneFacts
<1>4. posts' \in Seq(PostRows)
  <2>1. NewPost(Bot, 0) \in PostRows
    BY NewPostRow DEF People
  <2>. QED
    BY <1>1, <2>1 DEF UnreadInv, DataOK
<1>5. DataOK' /\ MembersOK' /\ stale \subseteq stale'
  <2>1. Bypassed \subseteq People /\ Counted \subseteq People
    BY DEF Bypassed, Counted, People
  <2>. QED
    BY <1>1, <1>4, <2>1 DEF UnreadInv, DataOK, MembersOK
<1>6. ASSUME NEW u \in Users PROVE Excused(u)' \/ Carried(Workers \ {t}, u)
  <2>1. CASE u \in stale'
    BY <2>1 DEF Excused
  <2>2. CASE u \notin stale'
    <3>1. Keeps(t, Tail(l), u)
      BY <1>1, KeepsTail
    <3>2. Truth(u)' = Truth(u) /\ ~Counting(Workers \ {t}, u)
      BY <1>1, <2>2, NotBypassed
    <3>. QED
      BY <1>1, <1>2, <1>3, <1>5, <3>1, <3>2, Untouched
  <2>. QED
    BY <2>1, <2>2
<1>. QED
  BY <1>1, <1>3, <1>5, <1>6, HeadGone

LEMMA HealStep ==
    ASSUME UnreadInv, NEW t \in Workers, Busy(t), ensure_dm_membership(t, Head(task[t].todo))
    PROVE  UnreadInv'
<1>. DEFINE l == Todo(t)
            o == Head(l)
<1>1. /\ o.do = "heal" /\ Continue(t, None, <<>>) /\ members' = Users
      /\ UNCHANGED <<posts, pos, legacy, v2, dirty, stale>>
  BY DEF ensure_dm_membership, Counters, Todo
<1>2. Tail(l) \in Seq(Ops)
  BY BusyFacts
<1>3. Moved(t, Tail(l), IF Tail(l) = <<>> THEN None ELSE None)
  BY <1>1, DoneFacts
<1>4. DataOK' /\ MembersOK' /\ stale \subseteq stale'
  BY <1>1 DEF UnreadInv, DataOK, MembersOK
<1>5. ASSUME NEW u \in Users PROVE Excused(u)' \/ Carried(Workers \ {t}, u)
  <2>1. CASE u \notin members
    BY <1>1, <2>1 DEF UnreadInv, MembersOK, Excused
  <2>2. CASE u \in members
    <3>1. Keeps(t, Tail(l), u)
      BY <1>1, KeepsTail
    <3>2. SameCounts(u) /\ Truth(u)' = Truth(u)
      BY <1>1, <2>2, SameRows
    <3>. QED
      BY <1>1, <1>2, <1>3, <1>4, <3>1, <3>2, Untouched
  <2>. QED
    BY <2>1, <2>2
<1>. QED
  BY <1>1, <1>3, <1>4, <1>5, HeadGone

LEMMA SystemMessageStep ==
    ASSUME UnreadInv, NEW t \in Workers, Busy(t), create_system_message(t, Head(task[t].todo))
    PROVE  UnreadInv'
<1>. DEFINE l == Todo(t)
            o == Head(l)
<1>1. /\ o.do = "system" /\ Continue(t, None, increment_unreads(Bot, Len(posts) + 1))
      /\ posts' = Append(posts, NewPost(Bot, 0))
      /\ UNCHANGED <<members, pos, legacy, v2, dirty, stale>>
  BY DEF create_system_message, Counters, Todo
<1>2. /\ l \in Seq(Ops) /\ l # <<>> /\ Tail(l) \in Seq(Ops) /\ Shaped(l) /\ Belongs(t, l) /\ Undirties(l, Missed)
      /\ Shaped(Tail(l)) /\ Belongs(t, Tail(l)) /\ Undirties(Tail(l), Missed) /\ o = l[1] /\ Len(l) \in Nat /\ Len(l) > 0
  BY BusyFacts
<1>3. t \in Tasks
  <2>1. 1 \in 1..Len(l)
    BY <1>2
  <2>. QED
    BY <1>1, <1>2, <2>1 DEF Belongs, ReconcilerDoes
<1>4. Fresh(Tail(l), Missed)
  BY <1>1, <1>2, FreshTail
<1>5. Bot \in People /\ posts \in Seq(PostRows) /\ Len(posts) + 1 \in Nat
  BY DEF People, UnreadInv, DataOK
<1>6. DataOK' /\ MembersOK' /\ stale \subseteq stale'
  <2>1. NewPost(Bot, 0) \in PostRows
    BY <1>5, NewPostRow
  <2>2. posts' \in Seq(PostRows)
    BY <1>1, <1>5, <2>1
  <2>. QED
    BY <1>1, <2>2 DEF UnreadInv, DataOK, MembersOK
<1>7. PICK more : more = increment_unreads(Bot, Len(posts) + 1)
  OBVIOUS
<1>8. Plain(more) /\ more \in Seq(Ops) /\ Len(more) = 2 /\ more[2].do = "notify"
  BY <1>5, <1>7, IncrementList
<1>9. PICK l2 : l2 = more \o Tail(l)
  OBVIOUS
<1>10. Moved(t, l2, IF l2 = <<>> THEN None ELSE None)
  BY <1>1, <1>7, <1>9, ContinueFacts
<1>11. l2 \in Seq(Ops) /\ Shaped(l2) /\ Belongs(t, l2) /\ Undirties(l2, Missed) /\ Fresh(l2, Missed)
  BY <1>2, <1>3, <1>4, <1>8, <1>9, PlainJoin
<1>12. Undirties(l2, Missed') /\ Opens(l2, Missed')
  BY <1>6, <1>11, MissedGrows, FreshGrows
<1>13. ASSUME NEW u \in Users PROVE Excused(u)'
  <2>1. 2 \in 1..Len(more) /\ 2 > 1
    BY <1>8
  <2>2. Owes(l2, u)
    BY <1>2, <1>8, <1>9, <2>1, JoinCovers
  <2>. QED
    BY <1>10, <1>11, <2>2, Covers DEF Marks
<1>. QED
  BY <1>6, <1>10, <1>11, <1>12, <1>13, TaskMoves

-----------------------------------------------------------------------------
(* Failures. *)

\* The command that fails is one of a recount: the reconciler gives the user up, another task
\* marks the user, or goes on when errors are ignored.
LEMMA RecountFails ==
    ASSUME UnreadInv, NEW t \in Workers, Busy(t), Head(Todo(t)).do \in {"legacy", "v2"}, NEW v,
           v = task[t].value \/ AfterError(Todo(t)) = <<>>,
           Moved(t, AfterError(Todo(t)), v), UNCHANGED <<members, posts, pos, legacy, v2, dirty, stale>>
    PROVE  UnreadInv'
<1>. DEFINE l == Todo(t)
            o == Head(l)
            later == {i \in DOMAIN l : l[i].do = "undirty" /\ l[i].u = o.u}
<1>1. /\ l \in Seq(Ops) /\ l # <<>> /\ Tail(l) \in Seq(Ops) /\ Shaped(l) /\ Belongs(t, l) /\ Undirties(l, Missed) /\ o \in Ops
      /\ o = l[1] /\ Len(l) \in Nat /\ Len(l) > 0
  BY BusyFacts
<1>2. DataOK' /\ MembersOK' /\ stale \subseteq stale'
  BY DEF UnreadInv, DataOK, MembersOK
<1>3. ASSUME NEW u \in Users PROVE SameCounts(u) /\ Truth(u)' = Truth(u)
  BY SameRows
<1>4. CASE t \notin Tasks
  <2>0. t = Reconciler
    BY <1>4 DEF Workers
  <2>1. later # {}
    <3>1. ASSUME NEW k \in 1..Len(l), l[k].do = "v2", l[k].u = o.u PROVE k + 1 \in later
      <4>1. k < Len(l)
        BY <1>1, <1>4, <3>1 DEF Belongs
      <4>2. Then(l, k, "undirty")
        BY <1>1, <3>1, <4>1 DEF Shaped
      <4>3. k + 1 \in DOMAIN l
        BY <1>1, <4>1
      <4>. QED
        BY <3>1, <4>2, <4>3 DEF Then
    <3>2. CASE o.do = "v2"
      <4>1. 1 \in 1..Len(l)
        BY <1>1
      <4>. QED
        BY <1>1, <3>1, <3>2, <4>1
    <3>3. CASE o.do = "legacy"
      <4>1. Then(l, 1, "v2") /\ 1 + 1 = 2
        BY <3>3, FirstOp
      <4>2. 2 \in 1..Len(l) /\ l[2].do = "v2" /\ l[2].u = o.u
        BY <1>1, <4>1 DEF Then
      <4>. QED
        BY <3>1, <4>2
    <3>. QED
      BY <3>2, <3>3
  <2>2. PICK i \in later : AfterError(l) = SubSeq(l, i + 1, Len(l))
    <3>1. PICK j : j = CHOOSE i \in later : TRUE
      OBVIOUS
    <3>2. j \in later
      BY <2>1, <3>1
    <3>3. AfterError(l) = SubSeq(l, j + 1, Len(l))
      BY <2>1, <3>1 DEF AfterError
    <3>. QED
      BY <3>2, <3>3
  <2>3. PICK l2 : l2 = SubSeq(l, i + 1, Len(l))
    OBVIOUS
  <2>4. i \in 1..Len(l) /\ l[i].do = "undirty"
    BY <1>1, <2>2
  <2>5. l2 \in Seq(Ops) /\ Len(l2) = Len(l) - i /\ \A k \in 1..Len(l2) : l2[k] = l[k + i]
    <3>1. l2 \in Seq(Ops) /\ Len(l2) = Len(l) - i
      BY <1>1, <2>3, <2>4
    <3>2. ASSUME NEW k \in 1..Len(l2) PROVE l2[k] = l[k + i]
      <4>1. PICK s \in Seq(Ops) : s = l
        BY <1>1
      <4>2. PICK n \in Nat : n = Len(s)
        OBVIOUS
      <4>3. i \in 1..n /\ l2 = SubSeq(s, i + 1, n) /\ k \in 1..(n - i)
        BY <2>3, <2>4, <3>1, <4>1, <4>2
      <4>4. SubSeq(s, i + 1, n)[k] = s[(i + 1) + k - 1]
        BY <4>2, <4>3
      <4>5. (i + 1) + k - 1 = k + i
        BY <4>3
      <4>. QED
        BY <4>1, <4>3, <4>4, <4>5
    <3>. QED
      BY <3>1, <3>2
  <2>6. Suffix(l2, l, i)
    BY <1>1, <2>4, <2>5 DEF Suffix
  <2>7. Shaped(l2) /\ Belongs(t, l2) /\ Undirties(l2, Missed)
    BY <1>1, <2>5, <2>6, SuffixFacts
  <2>8. Opens(l2, Missed')
    <3>1. SUFFICES ASSUME Len(l2) > 0 PROVE l2[1].do \notin {"legacy", "v2", "drop"} /\ (l2[1].do = "undirty" => l2[1].u \in Missed)
      BY DEF Opens, Missed
    <3>2. 1 \in 1..Len(l2) /\ i + 1 \in 1..Len(l) /\ i + 1 \in 2..Len(l) /\ i + 1 > 1 /\ (i + 1) - 1 = i /\ 1 + i = i + 1
      BY <1>1, <2>4, <2>5, <3>1
    <3>3. l2[1] = l[i + 1]
      BY <2>5, <3>2
    <3>4. Shaped(l)!(i + 1)
      BY <1>1, <3>2 DEF Shaped
    <3>5. l[i + 1].do = "undirty" => After(l, i + 1, "v2") \/ After(l, i + 1, "drop") \/ l[i + 1].u \in Missed
      BY <1>1, <3>2 DEF Undirties
    <3>. QED
      BY <2>4, <3>2, <3>3, <3>4, <3>5 DEF After
  <2>9. Moved(t, l2, v)
    BY <2>2, <2>3
  <2>10. ASSUME NEW u \in Users PROVE Carried(Workers \ {t}, u)
    <3>1. Keeps(t, l2, u)
      BY <1>1, <2>0, ReconcilerCoversNobody DEF Keeps
    <3>. QED
      BY <1>2, <1>3, <2>5, <2>9, <3>1, Untouched
  <2>. QED
    BY <1>2, <2>5, <2>7, <2>8, <2>9, <2>10, MissedGrows, TaskMoves
<1>5. CASE t \in Tasks
  <2>1. Len(l) = 1 \/ (o.do = "legacy" /\ Len(l) = 2 /\ l[2].do = "v2" /\ l[2].u = o.u /\ l[2].p = o.p)
    <3>1. CASE o.do = "v2"
      BY <1>5, <3>1, FirstOp
    <3>2. CASE o.do = "legacy"
      <4>1. Then(l, 1, "v2") /\ l[2].p = o.p /\ 1 + 1 = 2
        BY <3>2, FirstOp
      <4>2. 2 \in 1..Len(l) /\ l[2].do = "v2" /\ l[2].u = o.u
        BY <1>1, <4>1 DEF Then
      <4>3. Len(l) = 2
        BY <1>1, <1>5, <4>2 DEF Belongs
      <4>. QED
        BY <3>2, <4>1, <4>2, <4>3
    <3>. QED
      BY <3>1, <3>2
  <2>2. \A k \in 1..Len(l) : l[k].do \in {"legacy", "v2"} /\ l[k].u = o.u /\ l[k].p = o.p
    <3>1. \A k \in 1..Len(l) : k = 1 \/ (k = 2 /\ Len(l) = 2)
      <4>1. Len(l) = 1 \/ Len(l) = 2
        BY <2>1
      <4>2. PICK n \in Nat : n = Len(l)
        BY <1>1
      <4>3. n = 1 \/ n = 2
        BY <4>1, <4>2
      <4>4. \A k \in 1..n : k = 1 \/ (k = 2 /\ n = 2)
        BY <4>3
      <4>. QED
        BY <4>2, <4>4
    <3>. QED
      BY <1>1, <2>1, <3>1
  <2>3. later = {}
    BY <1>1, <2>2
  <2>4. ASSUME NEW u \in Users PROVE ~Marks(l, u) /\ (o.u # u \/ o.p # 0 => ~WritesLegacy(t, l, u) /\ ~WritesV2(t, l, u))
    BY <2>2 DEF Marks, Owes, Has, WritesLegacy, WritesV2, Safe
  <2>5. CASE o.p = 0
    <3>1. PICK l2 : l2 = <<Op("mark_dirty", o.u, 0)>>
      OBVIOUS
    <3>2. AfterError(l) = l2
      BY <2>3, <2>5, <3>1 DEF AfterError
    <3>3. o.u \in People
      BY <1>1 DEF Ops
    <3>4. Plain(l2)
      BY <3>1, <3>3, OneOp
    <3>5. l2 \in Seq(Ops) /\ Shaped(l2) /\ Belongs(t, l2) /\ Undirties(l2, Missed') /\ Fresh(l2, Missed')
      BY <1>5, <3>4, PlainFacts DEF Plain
    <3>6. Opens(l2, Missed')
      BY <3>5, FreshOpens
    <3>7. Has(l2, "mark_dirty", o.u)
      <4>1. Len(l2) = 1 /\ l2[1] = Op("mark_dirty", o.u, 0)
        BY <3>1
      <4>2. 1 \in 1..Len(l2)
        BY <4>1
      <4>. QED
        BY <4>1, <4>2 DEF Has, Op
    <3>8. Moved(t, l2, v)
      BY <3>2
    <3>9. ASSUME NEW u \in Users PROVE Excused(u)' \/ Carried(Workers \ {t}, u)
      <4>1. CASE u = o.u
        BY <3>5, <3>7, <3>8, <4>1, Covers DEF Marks
      <4>2. CASE u # o.u
        <5>1. Keeps(t, l2, u)
          BY <2>4, <4>2 DEF Keeps
        <5>. QED
          BY <1>2, <1>3, <3>5, <3>8, <5>1, Untouched
      <4>. QED
        BY <4>1, <4>2
    <3>. QED
      BY <1>2, <3>5, <3>6, <3>8, <3>9, TaskMoves
  <2>6. CASE o.p # 0
    <3>1. AfterError(l) = Tail(l)
      BY <2>3, <2>6 DEF AfterError
    <3>2. Moved(t, Tail(l), v)
      BY <3>1
    <3>3. Todo(t)' = Tail(l) /\ task'[t].value = v
      BY <1>1, <3>2, MovedFacts DEF UnreadInv
    <3>4. ASSUME NEW u \in Users PROVE Carried(Workers \ {t}, u)
      <4>1. Keeps(t, Tail(l), u)
        BY <2>4, <2>6 DEF Keeps
      <4>. QED
        BY <1>1, <1>2, <1>3, <3>2, <4>1, Untouched
    <3>5. Tail(l) = <<>> \/ (Head(Tail(l)).do = "v2" /\ Head(Tail(l)).u = o.u /\ Head(Tail(l)).p # 0)
      <4>1. CASE Len(l) = 1
        <5>1. Len(Tail(l)) = 0
          BY <1>1, <4>1
        <5>2. PICK s \in Seq(Ops) : s = Tail(l)
          BY <1>1
        <5>3. s = <<>>
          BY <5>1, <5>2
        <5>. QED
          BY <5>2, <5>3
      <4>2. CASE Len(l) = 2 /\ l[2].do = "v2" /\ l[2].u = o.u /\ l[2].p = o.p
        <5>1. Then(l, 1, "v2")
          <6>1. 1 + 1 = 2 /\ 1 < Len(l)
            BY <4>2
          <6>. QED
            BY <1>1, <4>2, <6>1 DEF Then
        <5>2. Head(Tail(l)).do = "v2" /\ Head(Tail(l)).u = o.u /\ Head(Tail(l)) = l[2]
          BY <1>1, <5>1, NextOp
        <5>. QED
          BY <2>6, <4>2, <5>2
      <4>. QED
        BY <2>1, <4>1, <4>2
    <3>6. ASSUME NEW u \in Users PROVE HeldAt(t, u)' /\ HeadAt(t, u)'
      <4>1. Busy(t)' => Tail(l) # <<>>
        BY <3>3 DEF Busy, Todo
      <4>2. HeadAt(t, u)'
        BY <3>3, <3>5, <4>1 DEF HeadAt
      <4>3. HeldAt(t, u)'
        <5>1. SUFFICES ASSUME Tail(l) # <<>>, u = o.u, ~Excused(u)'
                       PROVE  (task[t].value = CountAt(u, task[t].value.pos))'
          BY <3>3, <3>5, <4>1 DEF HeldAt
        <5>2. PICK w, q : w = task[t].value /\ q = task[t].value.pos
          OBVIOUS
        <5>3. ~Excused(u)
          BY <3>4, <5>1 DEF Carried
        <5>4. w = CountAt(u, q) /\ q = w.pos
          BY <5>1, <5>2, <5>3 DEF UnreadInv, HeldOK, HeldAt
        <5>5. CountAt(u, q)' = CountAt(u, q)
          BY <1>3 DEF SameCounts
        <5>6. w = CountAt(u, w.pos)'
          BY <5>4, <5>5
        <5>7. task'[t].value = w
          BY <3>1, <3>3, <5>1, <5>2
        <5>. QED
          BY <5>6, <5>7 DEF CountAt, Newer
      <4>. QED
        BY <4>2, <4>3
    <3>. QED
      BY <1>2, <3>2, <3>4, <3>6, HeadGone
  <2>. QED
    BY <2>5, <2>6
<1>. QED
  BY <1>4, <1>5

LEMMA RedisFailsStep ==
    ASSUME UnreadInv, NEW t \in Workers, RedisFails(t)
    PROVE  UnreadInv'
<1>. DEFINE l == Todo(t)
            o == Head(l)
            v == IF AfterError(l) = <<>> THEN None ELSE task[t].value
<1>1. /\ Busy(t) /\ UNCHANGED <<members, posts, pos, legacy, v2, dirty>>
      /\ o.do \in {"sync", "legacy", "v2", "drop_legacy", "drop", "undirty", "notify", "incr_legacy",
                "incr_count", "incr_root", "mark_dirty"}
      /\ stale' = IF o.do \in {"mark_dirty", "drop", "drop_legacy"} THEN stale \cup {o.u} ELSE stale
  BY DEF RedisFails, Todo
<1>2. Moved(t, AfterError(l), v)
  BY DEF RedisFails, Moved, Todo, UnreadInv, ListsOK
<1>3. /\ l \in Seq(Ops) /\ l # <<>> /\ Tail(l) \in Seq(Ops) /\ Shaped(l) /\ Belongs(t, l) /\ o \in Ops
      /\ o = l[1] /\ Len(l) \in Nat /\ Len(l) > 0
  BY <1>1, BusyFacts
<1>4. CASE o.do \in {"legacy", "v2"}
  <2>1. v = task[t].value \/ AfterError(l) = <<>>
    OBVIOUS
  <2>2. UNCHANGED stale
    BY <1>1, <1>4
  <2>3. PICK w : w = v
    OBVIOUS
  <2>. HIDE DEF v
  <2>. QED
    BY <1>1, <1>2, <1>4, <2>1, <2>2, <2>3, RecountFails
<1>5. CASE o.do = "notify"
  <2>1. PICK to : to = SetToSeq(members \ {o.u})
    OBVIOUS
  <2>2. PICK more : more = [i \in DOMAIN to |-> Op("mark_dirty", to[i], 0)]
    OBVIOUS
  <2>3. AfterError(l) = more \o Tail(l)
    BY <1>5, <2>1, <2>2 DEF AfterError
  <2>4. members \ {o.u} \in SUBSET Users
    BY DEF UnreadInv, DataOK
  <2>5. Plain(more) /\ \A u \in members \ {o.u} : Has(more, "mark_dirty", u)
    BY <2>1, <2>2, <2>4, MarkList
  <2>6. UNCHANGED stale
    BY <1>1, <1>5
  <2>7. Moved(t, more \o Tail(l), v)
    BY <1>2, <2>3
  <2>. HIDE DEF v
  <2>. QED
    BY <1>1, <1>5, <2>5, <2>6, <2>7, NotifyMoves
<1>6. CASE o.do \notin {"legacy", "v2", "notify"}
  <2>1. AfterError(l) = Tail(l)
    BY <1>6 DEF AfterError
  <2>2. Moved(t, Tail(l), v)
    BY <1>2, <2>1
  <2>3. CASE o.do \in {"sync", "undirty", "incr_legacy", "incr_count", "incr_root"}
    <3>1. UNCHANGED stale
      BY <1>1, <2>3
    <3>. HIDE DEF v
    <3>. QED
      BY <1>1, <2>2, <2>3, <3>1, NeutralStep
  <2>4. CASE o.do \in {"mark_dirty", "drop", "drop_legacy"}
    <3>1. stale' = stale \cup {o.u} /\ o.u \in People /\ stale \subseteq stale'
      BY <1>1, <1>3, <2>4 DEF Ops
    <3>2. DataOK' /\ MembersOK'
      BY <1>1, <3>1 DEF UnreadInv, DataOK, MembersOK
    <3>3. ASSUME NEW u \in Users PROVE Excused(u)' \/ Carried(Workers \ {t}, u)
      <4>1. CASE u = o.u
        BY <3>1, <4>1 DEF Excused
      <4>2. CASE u # o.u
        <5>1. Keeps(t, Tail(l), u)
          BY <1>1, <2>4, <4>2, KeepsTail
        <5>2. SameCounts(u) /\ Truth(u)' = Truth(u)
          BY <1>1, SameRows
        <5>. HIDE DEF v
        <5>. QED
          BY <1>1, <1>3, <2>2, <3>1, <5>1, <5>2, Untouched
      <4>. QED
        BY <4>1, <4>2
    <3>4. Todo(t)' = Tail(l)
      <4>. HIDE DEF v
      <4>. QED
        BY <1>3, <2>2, MovedFacts DEF UnreadInv
    <3>5. ASSUME NEW u \in Users PROVE HeldAt(t, u)' /\ HeadAt(t, u)'
      <4>1. Tail(l) # <<>> => /\ Head(Tail(l)).do \notin {"legacy", "v2"}
                              /\ Head(Tail(l)).do \in {"drop", "undirty"} => Head(Tail(l)).u \in Missed'
        <5>1. SUFFICES ASSUME Tail(l) # <<>>
                       PROVE  /\ Head(Tail(l)).do \notin {"legacy", "v2"}
                              /\ Head(Tail(l)).do \in {"drop", "undirty"} => Head(Tail(l)).u \in Missed'
          OBVIOUS
        <5>2. /\ Head(l) = l[1] /\ Len(Tail(l)) = Len(l) - 1 /\ Head(Tail(l)) = Tail(l)[1]
              /\ \A k \in 1..Len(Tail(l)) : Tail(l)[k] = l[k + 1]
          BY <1>3, <5>1, TailFacts
        <5>3. Len(Tail(l)) > 0
          BY <1>3, <5>1
        <5>4. 2 \in 1..Len(l) /\ 2 \in 2..Len(l) /\ 2 > 1 /\ 2 - 1 = 1 /\ 1 \in 1..Len(Tail(l)) /\ 1 + 1 = 2
          BY <1>3, <5>2, <5>3
        <5>5. Head(Tail(l)) = l[2]
          BY <5>2, <5>4
        <5>6. Shaped(l)!(2)
          BY <1>3, <5>4 DEF Shaped
        <5>7. l[2].do = "undirty" => After(l, 2, "v2") \/ After(l, 2, "drop") \/ l[2].u \in Missed
          BY <1>1, <5>4, BusyFacts DEF Undirties
        <5>8. Missed \subseteq Missed' /\ o.u \in Missed'
          BY <3>1 DEF Missed
        <5>. QED
          BY <2>4, <5>2, <5>4, <5>5, <5>6, <5>7, <5>8 DEF After
      <4>2. u \in Missed' => u \in stale'
        BY UnreadsAssumption DEF Missed
      <4>3. u \in stale' => LegacyOK(u)' /\ V2OK(u)'
        BY DEF LegacyOK, V2OK, Excused
      <4>4. Busy(t)' => Tail(l) # <<>>
        BY <3>4 DEF Busy, Todo
      <4>5. HeldAt(t, u)'
        BY <3>4, <4>1, <4>4 DEF HeldAt
      <4>6. HeadAt(t, u)'
        BY <3>4, <4>1, <4>2, <4>3, <4>4 DEF HeadAt
      <4>. QED
        BY <4>5, <4>6
    <3>. HIDE DEF v
    <3>. QED
      BY <1>1, <2>2, <3>1, <3>2, <3>3, <3>5, HeadGone
  <2>. QED
    BY <1>1, <1>6, <2>3, <2>4
<1>. QED
  BY <1>1, <1>4, <1>5, <1>6

LEMMA CrashStep ==
    ASSUME UnreadInv, Crash
    PROVE  UnreadInv'
<1>1. /\ task' = [t \in Workers |-> Idle] /\ UNCHANGED <<members, posts, pos, legacy, v2, dirty>>
      /\ stale' = IF \E t \in Tasks : Busy(t) THEN Users ELSE stale
  BY DEF Crash
<1>2. \A t \in Workers : Todo(t)' = <<>> /\ task'[t] = Idle
  BY <1>1 DEF Todo, Idle
<1>3. DataOK'
  BY <1>1 DEF UnreadInv, DataOK, People
<1>4. MembersOK'
  BY <1>1 DEF UnreadInv, MembersOK, DataOK
<1>5. Shaped(<<>>) /\ \A t : Belongs(t, <<>>)
  BY DEF Shaped, Belongs
<1>6. ListsOK'
  <2>1. DOMAIN task' = Workers
    BY <1>1
  <2>2. \A t \in Workers : Shaped(Todo(t))' <=> Shaped(Todo(t)')
    BY DEF Shaped, Then, After
  <2>3. \A t \in Workers : Belongs(t, Todo(t))' <=> Belongs(t, Todo(t)')
    BY DEF Belongs
  <2>4. \A t \in Workers : task'[t] = [todo |-> task'[t].todo, value |-> task'[t].value]
    BY <1>2 DEF Idle
  <2>5. \A t \in Workers : Todo(t)' \in Seq(Ops)
    <3>1. <<>> \in Seq(Ops)
      OBVIOUS
    <3>. QED
      BY <1>2, <3>1
  <2>. QED
    BY <1>2, <1>5, <2>1, <2>2, <2>3, <2>4, <2>5 DEF ListsOK
<1>7. \A t \in Workers : ~Busy(t)'
  BY <1>2 DEF Busy, Todo
<1>8. HeldOK' /\ HeadOK'
  BY <1>7 DEF HeldOK, HeldAt, HeadOK, HeadAt
<1>9. UndirtyOK'
  <2>1. ASSUME NEW t \in Workers PROVE Undirties(Todo(t), Missed)'
    <3>1. Len(<<>>) = 0 /\ ~ \E k \in 2..0 : TRUE
      OBVIOUS
    <3>. QED
      BY <1>2, <3>1 DEF Undirties
  <2>. QED
    BY <2>1 DEF UndirtyOK
<1>10. CountersOK'
  <2>1. ASSUME NEW u \in Users PROVE u \in dirty' \/ (LegacyOK(u)' /\ V2OK(u)')
    <3>1. CASE \E t \in Tasks : Busy(t)
      BY <1>1, <3>1 DEF LegacyOK, V2OK, Excused
    <3>2. CASE ~ \E t \in Tasks : Busy(t)
      <4>1. ASSUME NEW t \in Workers PROVE ~Marks(Todo(t), u) /\ ~WritesLegacy(t, Todo(t), u) /\ ~WritesV2(t, Todo(t), u)
        <5>1. CASE t \in Tasks
          <6>1. Todo(t) = <<>>
            BY <3>2, <5>1 DEF Busy, Todo
          <6>2. \A k \in 1..Len(Todo(t)) : FALSE
            BY <6>1
          <6>. QED
            BY <6>2 DEF Marks, Owes, Has, WritesLegacy, WritesV2, Safe
        <5>2. CASE t = Reconciler
          BY <5>2, ReconcilerCoversNobody DEF UnreadInv, ListsOK
        <5>. QED
          BY <5>1, <5>2 DEF Workers
      <4>2. u \in dirty \/ (LegacyOK(u) /\ V2OK(u))
        BY DEF UnreadInv, CountersOK
      <4>3. Truth(u)' = Truth(u)
        BY <1>1, SameRows
      <4>4. stale' = stale
        BY <1>1, <3>2
      <4>5. LegacyOK(u) => LegacyOK(u)'
        BY <1>1, <4>1, <4>3, <4>4 DEF LegacyOK, Excused
      <4>6. V2OK(u) => V2OK(u)'
        BY <1>1, <4>1, <4>3, <4>4 DEF V2OK, Excused
      <4>. QED
        BY <1>1, <4>2, <4>5, <4>6
    <3>. QED
      BY <3>1, <3>2
  <2>. QED
    BY <2>1 DEF CountersOK
<1>. QED
  BY <1>3, <1>4, <1>6, <1>8, <1>9, <1>10 DEF UnreadInv

\* A handler ends where it is: everyone is named.
LEMMA DroppedStep ==
    ASSUME UnreadInv, NEW t \in Tasks, Dropped(t)
    PROVE  UnreadInv'
<1>1. /\ task' = [task EXCEPT ![t] = Idle] /\ stale' = stale \cup Users /\ UNCHANGED <<members, posts, pos, legacy, v2, dirty>>
  BY DEF Dropped
<1>2. DataOK' /\ MembersOK' /\ stale \subseteq stale'
  BY <1>1 DEF UnreadInv, DataOK, MembersOK, People
<1>3. PICK l : l = <<>>
  OBVIOUS
<1>4. l \in Seq(Ops) /\ Len(l) = 0 /\ Moved(t, l, None) /\ t \in Workers
  BY <1>1, <1>3 DEF Moved, Idle, Workers
<1>5. Shaped(l) /\ Belongs(t, l)
  BY <1>4 DEF Shaped, Belongs
<1>6. PICK S : S = Missed'
  OBVIOUS
<1>7. Undirties(l, S) /\ Opens(l, S)
  BY <1>4 DEF Undirties, Opens
<1>8. \A u \in Users : Excused(u)'
  BY <1>1 DEF Excused
<1>. QED
  BY <1>2, <1>4, <1>5, <1>6, <1>7, <1>8, TaskMoves

-----------------------------------------------------------------------------
(* Requests, statements and rounds of the reconciler. *)

LEMMA BeginFacts ==
    ASSUME UnreadInv, NEW t \in Workers, NEW new, NEW l, Begin(t, new, l)
    PROVE  Moved(t, l, None) /\ \A u : Keeps(t, l, u)
<1>1. Todo(t) = <<>> /\ Moved(t, l, None)
  BY DEF Begin, Busy, Todo, Moved
<1>2. \A k \in 1..Len(Todo(t)) : FALSE
  BY <1>1
<1>. QED
  BY <1>1, <1>2 DEF Keeps, Marks, Owes, Has, WritesLegacy, WritesV2, Safe

\* A task begins; someone may become a member.
LEMMA BeginStep ==
    ASSUME UnreadInv, NEW t \in Workers, NEW new, NEW l \in Seq(Ops), Begin(t, new, l), Shaped(l), Belongs(t, l),
           Undirties(l, Missed), Opens(l, Missed), UNCHANGED <<posts, pos, legacy, v2, dirty, stale>>,
           members \subseteq members', members' \subseteq Users
    PROVE  UnreadInv'
<1>1. DataOK' /\ MembersOK' /\ stale \subseteq stale' /\ Missed' = Missed
  BY DEF UnreadInv, DataOK, MembersOK, Missed
<1>2. Moved(t, l, None) /\ \A u : Keeps(t, l, u)
  BY BeginFacts
<1>3. ASSUME NEW u \in Users PROVE Excused(u)' \/ Carried(Workers \ {t}, u)
  <2>1. CASE u \notin members
    BY <2>1 DEF UnreadInv, MembersOK, Excused
  <2>2. CASE u \in members
    <3>1. SameCounts(u) /\ Truth(u)' = Truth(u)
      BY <2>2, SameRows
    <3>. QED
      BY <1>1, <1>2, <3>1, Untouched
  <2>. QED
    BY <2>1, <2>2
<1>. QED
  BY <1>1, <1>2, <1>3, TaskMoves

LEMMA CreatePostStep ==
    ASSUME UnreadInv, NEW t \in Tasks, NEW u \in Users, NEW root \in {0} \cup Ids, NEW kind, create_post(t, u, root, kind)
    PROVE  UnreadInv'
<1>1. PICK l : l = AfterInsert(u, root, Len(posts) + 1, kind)
  OBVIOUS
<1>2. /\ posts' = Append(posts, NewPost(u, root)) /\ Begin(t, 1, l)
      /\ UNCHANGED <<members, pos, legacy, v2, dirty, stale>>
  BY <1>1 DEF create_post, Request, Counters
<1>3. u \in People /\ posts \in Seq(PostRows) /\ root \in Nat /\ Len(posts) + 1 \in Nat /\ t \in Workers
  BY DEF People, UnreadInv, DataOK, Ids, Workers
<1>4. /\ l \in Seq(Ops) /\ Shaped(l) /\ Belongs(t, l) /\ Undirties(l, Missed') /\ Opens(l, Missed')
      /\ \A v : Owes(l, v)
  <2>1. PICK S, n : S = Missed' /\ n = Len(posts) + 1
    OBVIOUS
  <2>2. n \in Nat /\ l = AfterInsert(u, root, n, kind)
    BY <1>1, <1>3, <2>1
  <2>3. u \in People /\ root \in Nat
    BY <1>3
  <2>4. l \in Seq(Ops) /\ Shaped(l) /\ Belongs(t, l) /\ Undirties(l, S) /\ Opens(l, S)
    BY <2>2, <2>3, InsertList
  <2>5. \A v : Owes(l, v)
    BY <2>2, <2>3, <2>4, InsertList
  <2>. QED
    BY <2>1, <2>4, <2>5
<1>5. Moved(t, l, None)
  BY <1>2, <1>3, BeginFacts
<1>6. DataOK' /\ MembersOK' /\ stale \subseteq stale'
  <2>1. NewPost(u, root) \in PostRows
    BY <1>3, NewPostRow
  <2>2. posts' \in Seq(PostRows)
    BY <1>2, <1>3, <2>1
  <2>. QED
    BY <1>2, <2>2 DEF UnreadInv, DataOK, MembersOK
<1>7. \A v \in Users : Excused(v)'
  BY <1>3, <1>4, <1>5, Covers DEF Marks
<1>. QED
  BY <1>3, <1>4, <1>5, <1>6, <1>7, TaskMoves

LEMMA UserTaskStep ==
    ASSUME UnreadInv, NEW t \in Tasks, NEW u \in Users, UserTask(t, u)
    PROVE  UnreadInv'
<1>0. t \in Workers /\ u \in People /\ members \subseteq Users /\ posts \in Seq(PostRows) /\ Len(posts) \in Nat
  BY DEF Workers, People, UnreadInv, DataOK
<1>1. CASE \E root \in {0} \cup Ids, kind \in {"plain", "mention", "playbook"} : create_post(t, u, root, kind)
  BY <1>1, CreatePostStep
<1>2. CASE \E target \in 0..Len(posts) : MarkRead(t, u, target)
  <2>1. PICK target \in 0..Len(posts) : MarkRead(t, u, target)
    BY <1>2
  <2>2. target \in Nat
    BY <1>0
  <2>3. PICK l : l = mark_channel_as_read(u, target)
    OBVIOUS
  <2>4. l \in Seq(Ops) /\ Shaped(l) /\ Belongs(t, l) /\ Undirties(l, Missed) /\ Fresh(l, Missed)
    BY <1>0, <2>2, <2>3, ReadList
  <2>5. Begin(t, 1, l) /\ UNCHANGED <<members, posts, pos, legacy, v2, dirty, stale>>
    BY <2>1, <2>3 DEF MarkRead, Request, Counters
  <2>. QED
    BY <1>0, <2>4, <2>5, FreshOpens, BeginStep
<1>3. CASE MarkAllRead(t, u)
  <2>1. PICK l : l = mark_all_as_read(u)
    OBVIOUS
  <2>2. l \in Seq(Ops) /\ Shaped(l) /\ Belongs(t, l) /\ Undirties(l, Missed) /\ Fresh(l, Missed)
    BY <2>1, ReadAllList DEF UnreadInv
  <2>3. Begin(t, 1, l) /\ UNCHANGED <<members, posts, pos, legacy, v2, dirty, stale>>
    BY <1>3, <2>1 DEF MarkAllRead, Request, Counters
  <2>. QED
    BY <1>0, <2>2, <2>3, FreshOpens, BeginStep
<1>4. CASE add_member(t, u)
  <2>1. PICK l : l = <<Op("system", Bot, 0)>>
    OBVIOUS
  <2>2. Plain(l)
    BY <2>1, OneOp DEF People
  <2>3. l \in Seq(Ops) /\ Shaped(l) /\ Belongs(t, l) /\ Undirties(l, Missed) /\ Fresh(l, Missed)
    BY <2>2, PlainFacts DEF Plain
  <2>4. Begin(t, 1, l) /\ UNCHANGED <<posts, pos, legacy, v2, dirty, stale>> /\ members' = members \cup {u}
    BY <1>4, <2>1 DEF add_member, Request, Counters
  <2>5. members \subseteq members' /\ members' \subseteq Users
    BY <1>0, <2>4
  <2>. QED
    BY <1>0, <2>3, <2>4, <2>5, FreshOpens, BeginStep
<1>. QED
  BY <1>1, <1>2, <1>3, <1>4 DEF UserTask

LEMMA ReconcileStep ==
    ASSUME UnreadInv, reconcile_dirty_users_once
    PROVE  UnreadInv'
<1>1. PICK s : s = SetToSeq(dirty)
  OBVIOUS
<1>2. PICK l : l = [i \in DOMAIN s |-> Op("sync", s[i], 0)]
  OBVIOUS
<1>3. Begin(Reconciler, 0, l) /\ UNCHANGED <<members, posts, pos, legacy, v2, dirty, stale>>
  BY <1>1, <1>2 DEF reconcile_dirty_users_once
<1>4. IsFiniteSet(dirty) /\ dirty \subseteq People
  <2>1. dirty \subseteq People
    BY DEF UnreadInv, DataOK
  <2>2. IsFiniteSet(People)
    BY UnreadsAssumption, FS_AddElement DEF People
  <2>. QED
    BY <2>1, <2>2, FS_Subset
<1>5. s \in Seq(People) /\ DOMAIN s = 1..Len(s) /\ Len(s) \in Nat
  <2>1. s \in Seq(dirty)
    BY <1>1, <1>4, SetToSeqFacts
  <2>. QED
    BY <1>4, <2>1
<1>6. l \in Seq(Ops) /\ Len(l) = Len(s) /\ \A k \in 1..Len(l) : l[k].do = "sync"
  <2>1. "sync" \in Does
    BY DEF Does
  <2>2. \A i \in 1..Len(s) : Op("sync", s[i], 0) \in Ops
    BY <1>5, <2>1 DEF Op, Ops
  <2>3. l \in Seq(Ops) /\ Len(l) = Len(s) /\ \A k \in 1..Len(l) : l[k] = Op("sync", s[k], 0)
    BY <1>2, <1>5, <2>2
  <2>4. \A k \in 1..Len(l) : l[k].do = "sync"
    <3>1. \A x : Op("sync", x, 0).do = "sync"
      BY DEF Op
    <3>. QED
      BY <2>3, <3>1
  <2>. QED
    BY <2>3, <2>4
<1>7. Shaped(l)
  BY <1>6 DEF Shaped
<1>8. Belongs(Reconciler, l)
  BY <1>6, UnreadsAssumption DEF Belongs, ReconcilerDoes
<1>9. Undirties(l, Missed)
  BY <1>6 DEF Undirties
<1>10. Opens(l, Missed)
  <2>1. Len(l) > 0 => 1 \in 1..Len(l)
    BY <1>5, <1>6
  <2>. QED
    BY <1>6, <2>1 DEF Opens
<1>11. members \subseteq members' /\ members' \subseteq Users /\ Reconciler \in Workers
  BY <1>3 DEF UnreadInv, DataOK, Workers
<1>. QED
  BY <1>3, <1>6, <1>7, <1>8, <1>9, <1>10, <1>11, BeginStep

LEMMA OverviewStep ==
    ASSUME UnreadInv, NEW t \in Tasks, NEW u \in Users, get_unread_overview(t, u)
    PROVE  UnreadInv'
<1>1. PICK p \in {0, 1} : Begin(t, 0, Recount(u, p))
  BY DEF get_unread_overview
<1>2. PICK l : l = Recount(u, p)
  OBVIOUS
<1>3. u \in People /\ p \in Nat /\ t \in Workers
  BY DEF People, Workers
<1>4. l \in Seq(Ops) /\ Shaped(l) /\ Belongs(t, l) /\ Undirties(l, Missed) /\ Fresh(l, Missed)
  BY <1>2, <1>3, RecountList
<1>5. UNCHANGED <<members, posts, pos, legacy, v2, dirty, stale>>
  BY DEF get_unread_overview
<1>6. members \subseteq members' /\ members' \subseteq Users
  BY <1>5 DEF UnreadInv, DataOK
<1>. QED
  BY <1>1, <1>2, <1>3, <1>4, <1>5, <1>6, FreshOpens, BeginStep

\* A statement that no task carries out.
LEMMA StatementStep ==
    ASSUME UnreadInv, UNCHANGED <<task, legacy, v2, dirty>>, DataOK', MembersOK', stale \subseteq stale',
           \A u \in Users : u \in stale' \/ (Truth(u)' = Truth(u) /\ (SameCounts(u) \/ ~Counting(Workers, u)))
    PROVE  UnreadInv'
<1>1. \A x \in Workers : Todo(x)' = Todo(x) /\ task'[x] = task[x]
  BY DEF Todo
<1>2. ListsOK'
  BY DEF UnreadInv, ListsOK, Todo
<1>3. ASSUME NEW u \in Users PROVE Excused(u)' \/ Carried(Workers, u)
  <2>1. CASE u \in stale'
    BY <2>1 DEF Excused
  <2>2. CASE u \notin stale'
    <3>1. Excused(u) => Excused(u)'
      BY DEF Excused, Marks, Owes, Has, Todo
    <3>2. \A x \in Workers : WritesLegacy(x, Todo(x), u) => WritesLegacy(x, Todo(x), u)'
      BY DEF WritesLegacy, Has, Safe, Todo
    <3>3. \A x \in Workers : WritesV2(x, Todo(x), u) => WritesV2(x, Todo(x), u)'
      BY DEF WritesV2, Has, Safe, Todo
    <3>4. Truth(u)' = Truth(u) /\ (SameCounts(u) \/ ~Counting(Workers, u))
      BY <2>2
    <3>5. LegacyOK(u) => LegacyOK(u)'
      BY <3>1, <3>2, <3>4 DEF LegacyOK
    <3>6. V2OK(u) => V2OK(u)'
      BY <3>1, <3>3, <3>4 DEF V2OK
    <3>. QED
      BY <3>1, <3>4, <3>5, <3>6 DEF Carried
  <2>. QED
    BY <2>1, <2>2
<1>4. Workers \in SUBSET Workers /\ Workers \ Workers = {}
  OBVIOUS
<1>. QED
  BY <1>1, <1>2, <1>3, <1>4, Preserved

\* Nothing is touched that is counted.
LEMMA OtherRows ==
    ASSUME UnreadInv, UNCHANGED <<members, posts, pos, legacy, v2, dirty, task, stale>>
    PROVE  UnreadInv'
<1>1. DataOK' /\ MembersOK' /\ stale \subseteq stale'
  BY DEF UnreadInv, DataOK, MembersOK
<1>2. \A u \in Users : Truth(u)' = Truth(u) /\ SameCounts(u)
  BY SameRows
<1>. QED
  BY <1>1, <1>2, StatementStep

LEMMA ChangePostStep ==
    ASSUME UnreadInv, NEW i \in Ids, NEW p \in PostRows, p.root = posts[i].root, ChangePost(i, p)
    PROVE  UnreadInv'
<1>1. /\ UNCHANGED <<members, pos, legacy, v2, dirty, task>> /\ posts' = [posts EXCEPT ![i] = p]
      /\ stale' = stale \cup Bypassed \cup (IF p.deleted = posts[i].deleted THEN {} ELSE Counted)
  BY DEF ChangePost, Statement
<1>2. posts \in Seq(PostRows)
  BY DEF UnreadInv, DataOK
<1>3. posts' \in Seq(PostRows)
  <2>1. PICK n \in Nat : n = Len(posts) /\ posts \in [1..n -> PostRows]
    BY <1>2
  <2>2. posts' \in [1..n -> PostRows]
    BY <1>1, <2>1
  <2>. QED
    BY <2>2
<1>4. DataOK' /\ MembersOK' /\ stale \subseteq stale'
  <2>1. Bypassed \subseteq People /\ Counted \subseteq People
    BY DEF Bypassed, Counted, People
  <2>. QED
    BY <1>1, <1>3, <2>1 DEF UnreadInv, DataOK, MembersOK
<1>5. ASSUME NEW u \in Users, u \notin stale' PROVE Truth(u)' = Truth(u) /\ (SameCounts(u) \/ ~Counting(Workers, u))
  <2>1. Truth(u)' = Truth(u)
    BY <1>1, <1>5 DEF Bypassed
  <2>2. CASE p.deleted = posts[i].deleted
    <3>1. /\ DOMAIN posts' = DOMAIN posts
          /\ \A j \in DOMAIN posts : posts'[j].deleted = posts[j].deleted /\ posts'[j].root = posts[j].root
      BY <1>1, <2>2 DEF Ids
    <3>. QED
      BY <1>1, <2>1, <3>1, SameFlags
  <2>3. CASE p.deleted # posts[i].deleted
    <3>1. u \notin Counted
      BY <1>1, <1>5, <2>3
    <3>. QED
      BY <2>1, <3>1 DEF Counted, Counting, Todo
  <2>. QED
    BY <2>2, <2>3
<1>. QED
  BY <1>1, <1>4, <1>5, StatementStep

LEMMA MovePositionStep ==
    ASSUME UnreadInv, NEW u \in Users, NEW q \in Nat, MovePosition(u, q)
    PROVE  UnreadInv'
<1>1. /\ UNCHANGED <<members, posts, legacy, v2, dirty, task>> /\ pos' = [pos EXCEPT ![u] = q]
      /\ stale' = stale \cup Bypassed
  BY DEF MovePosition, Statement
<1>2. DataOK' /\ MembersOK' /\ stale \subseteq stale'
  <2>1. Bypassed \subseteq People
    BY DEF Bypassed, People
  <2>. QED
    BY <1>1, <2>1 DEF UnreadInv, DataOK, MembersOK
<1>3. ASSUME NEW x \in Users, x \notin stale' PROVE Truth(x)' = Truth(x) /\ SameCounts(x)
  <2>1. Truth(x)' = Truth(x)
    BY <1>1, <1>3 DEF Bypassed
  <2>. QED
    BY <1>1, <2>1, SameRows
<1>. QED
  BY <1>1, <1>2, <1>3, StatementStep

LEMMA RemoveMemberStep ==
    ASSUME UnreadInv, NEW u \in Users, remove_member(u)
    PROVE  UnreadInv'
<1>1. /\ UNCHANGED <<posts, pos, legacy, v2, dirty, task>> /\ members' = members \ {u}
      /\ stale' = stale \cup {u}
  BY DEF remove_member, Statement
<1>2. DataOK' /\ MembersOK' /\ stale \subseteq stale'
  BY <1>1 DEF UnreadInv, DataOK, MembersOK, People
<1>3. ASSUME NEW x \in Users, x \notin stale' PROVE Truth(x)' = Truth(x) /\ SameCounts(x)
  <2>1. x # u /\ (x \in members' <=> x \in members)
    BY <1>1, <1>3
  <2>. QED
    BY <1>1, <2>1, SameRows
<1>. QED
  BY <1>1, <1>2, <1>3, StatementStep

\* The last live post.
LEMMA MaxSeqFacts == ASSUME NEW n \in Nat, NEW S \in SUBSET (1..n) PROVE MaxSeq(S) \in Nat
<1>1. CASE S = {}
  BY <1>1 DEF MaxSeq
<1>2. CASE S # {}
  <2>1. PICK I : I = {n - i : i \in S}
    OBVIOUS
  <2>2. I \in SUBSET Nat /\ I # {}
    <3>1. \A i \in S : n - i \in Nat
      OBVIOUS
    <3>. QED
      BY <1>2, <2>1, <3>1
  <2>3. PICK m \in I : \A y \in I : m <= y
    BY <2>2, LeastNumber
  <2>4. PICK i \in S : m = n - i
    BY <2>1, <2>3
  <2>5. \A j \in S : j <= i
    <3>1. \A j \in S : n - i <= n - j
      BY <2>1, <2>3, <2>4
    <3>2. \A j \in S : j \in Nat
      OBVIOUS
    <3>. QED
      BY <2>4, <3>1, <3>2
  <2>6. PICK x : x = CHOOSE i0 \in S : \A j \in S : j <= i0
    OBVIOUS
  <2>7. x \in S
    BY <2>4, <2>5, <2>6
  <2>8. MaxSeq(S) = x
    BY <1>2, <2>6 DEF MaxSeq
  <2>. QED
    BY <2>7, <2>8
<1>. QED
  BY <1>1, <1>2

LEMMA PostChange ==
    ASSUME UnreadInv, NEW i \in Ids,
           \/ ChangePost(i, [posts[i] EXCEPT !.deleted = TRUE])
           \/ ChangePost(i, [posts[i] EXCEPT !.edited = TRUE])
           \/ \E b \in BOOLEAN : ChangePost(i, [posts[i] EXCEPT !.pinned = b])
    PROVE  UnreadInv'
<1>1. posts[i] \in PostRows
  BY DEF Ids, UnreadInv, DataOK
<1>2. PICK r \in PostRows : r = posts[i]
  BY <1>1
<1>3. \A b \in BOOLEAN :
         /\ [r EXCEPT !.deleted = TRUE] \in PostRows /\ [r EXCEPT !.deleted = TRUE].root = r.root
         /\ [r EXCEPT !.edited = TRUE] \in PostRows /\ [r EXCEPT !.edited = TRUE].root = r.root
         /\ [r EXCEPT !.pinned = b] \in PostRows /\ [r EXCEPT !.pinned = b].root = r.root
  BY DEF PostRows
<1>4. PICK p \in PostRows : p.root = r.root /\ ChangePost(i, p)
  BY <1>2, <1>3
<1>. QED
  BY <1>2, <1>4, ChangePostStep

LEMMA UserStatementStep ==
    ASSUME UnreadInv, NEW u \in Users, UserStatement(u)
    PROVE  UnreadInv'
<1>0. posts \in Seq(PostRows) /\ Len(posts) \in Nat /\ Ids = 1..Len(posts)
  BY DEF UnreadInv, DataOK, Ids
<1>. DEFINE Same == UNCHANGED <<members, posts, pos, legacy, v2, dirty, task, stale>>
<1>1. ASSUME NEW i \in Ids,
             \/ v4_delete_post(u, i) \/ update_post_message(u, i) \/ delete_post(u, i) \/ update_post(u, i)
             \/ v4_pin_post(u, i) \/ v4_unpin_post(u, i) \/ channel_pin_post(u, i) \/ channel_unpin_post(u, i)
             \/ pin_post(u, i) \/ unpin_post(u, i)
      PROVE  UnreadInv'
  BY <1>1, PostChange DEF v4_delete_post, update_post_message, delete_post, update_post, v4_pin_post, v4_unpin_post,
     channel_pin_post, channel_unpin_post, pin_post, unpin_post
<1>2. ASSUME NEW i \in Ids,
             \/ v4_add_reaction(u, i) \/ add_reaction(u, i) \/ v4_remove_reaction(u, i) \/ remove_reaction(u, i)
             \/ save_post(u, i) \/ unsave_post(u, i) \/ set_post_reminder(u, i)
             \/ save_acknowledgement_for_post(u, i) \/ delete_acknowledgement_for_post(u, i)
      PROVE  Same
  <2>1. PICK S : SetMarks(S)
    BY <1>2 DEF v4_add_reaction, add_reaction, v4_remove_reaction, remove_reaction, save_post, unsave_post,
       set_post_reminder, save_acknowledgement_for_post, delete_acknowledgement_for_post
  <2>. QED
    BY <2>1 DEF SetMarks, QuietStatement, Statement
<1>3. ASSUME NEW i \in Ids, set_post_unread(u, i) PROVE UnreadInv'
  <2>1. i - 1 \in Nat /\ MovePosition(u, i - 1)
    BY <1>0, <1>3 DEF set_post_unread
  <2>. QED
    BY <2>1, MovePositionStep
<1>4. ASSUME NEW i \in Ids, \/ mark_thread_read_internal(u, i) \/ follow_thread_internal(u, i)
                            \/ unfollow_thread_internal(u, i) \/ set_thread_unread(u, i)
      PROVE  Same
  BY <1>4 DEF mark_thread_read_internal, follow_thread_internal, unfollow_thread_internal, set_thread_unread,
     ThreadStatement, QuietStatement, Statement
<1>5. ASSUME create_scheduled_post(u) \/ update_scheduled_post(u) \/ delete_scheduled_post(u) PROVE Same
  BY <1>5 DEF create_scheduled_post, update_scheduled_post, delete_scheduled_post, SetScheduled, QuietStatement, Statement
<1>6. ASSUME \/ v4_mark_channel_as_read(u) \/ mark_channel_member_as_read(u)
             \/ mark_channel_viewed(u) \/ mark_channel_as_unread(u)
      PROVE  UnreadInv'
  <2>1. MaxSeq({i \in Ids : Live(i)}) \in Nat
    <3>1. {i \in Ids : Live(i)} \in SUBSET (1..Len(posts))
      BY <1>0
    <3>. QED
      BY <1>0, <3>1, MaxSeqFacts
  <2>2. PICK q \in Nat : MovePosition(u, q)
    BY <1>0, <1>6, <2>1 DEF v4_mark_channel_as_read, mark_channel_member_as_read, mark_channel_viewed, mark_channel_as_unread
  <2>. QED
    BY <2>2, MovePositionStep
<1>7. ASSUME mark_all_read_internal(u) PROVE Same
  BY <1>7 DEF mark_all_read_internal, ThreadStatement, QuietStatement, Statement
<1>8. ASSUME (\E a \in feed : mark_activities_read(u, a)) \/ mark_all_activities_read(u) PROVE Same
  BY <1>8 DEF mark_activities_read, mark_all_activities_read, QuietStatement, Statement
<1>9. ASSUME Same PROVE UnreadInv'
  BY <1>9, OtherRows
<1>. QED
  BY <1>1, <1>2, <1>3, <1>4, <1>5, <1>6, <1>7, <1>8, <1>9, RemoveMemberStep DEF UserStatement

LEMMA TaskStepStep ==
    ASSUME UnreadInv, NEW t \in Workers, TaskStep(t)
    PROVE  UnreadInv'
<1>1. PICK o : Busy(t) /\ o = Head(task[t].todo)
  BY DEF TaskStep
<1>2. ASSUME SystemMessageCapped(t, o) \/ ReplyActivity(t, o) \/ create_mention_activity(t, o) PROVE UnreadInv'
  <2>1. /\ Continue(t, None, <<>>) /\ UNCHANGED <<members, posts, pos, legacy, v2, dirty, stale>>
        /\ o.do \in {"system", "reply_activity", "mention_activity"}
    BY <1>2 DEF SystemMessageCapped, ReplyActivity, create_mention_activity, Counters
  <2>2. Moved(t, Tail(Todo(t)), IF Tail(Todo(t)) = <<>> THEN None ELSE None)
    BY <1>1, <2>1, DoneFacts
  <2>3. o = Head(Todo(t))
    BY <1>1 DEF Todo
  <2>. QED
    BY <1>1, <2>1, <2>2, <2>3, NeutralStep
<1>. QED
  BY <1>1, <1>2, SyncUserStep, ComputeStep, WriteLegacyStep, WriteV2Step, ClearDirtyStep, DropCountersStep, SetPositionStep,
     NotifyStep, IncrementStep, MarkDirtyStep, CountReplyStep, PlaybookStep, HealStep, SystemMessageStep
     DEF TaskStep

LEMMA UnreadInit == ASSUME PostsInit PROVE UnreadInv
<1>1. /\ members = Users /\ posts = <<>> /\ pos = [u \in Users \cup {Bot} |-> 0] /\ legacy = [u \in Users |-> 0]
      /\ v2 = [u \in Users |-> [count |-> 0, root |-> 0]] /\ dirty = {} /\ task = [t \in Workers |-> Idle] /\ stale = {}
  BY DEF PostsInit, UnreadsInit
<1>2. <<>> \in Seq(PostRows) /\ <<>> \in Seq(Ops) /\ DOMAIN <<>> = {} /\ Len(<<>>) = 0
  OBVIOUS
<1>3. DataOK /\ MembersOK
  BY <1>1, <1>2 DEF DataOK, MembersOK, People
<1>4. \A t \in Workers : Todo(t) = <<>> /\ task[t] = Idle
  BY <1>1 DEF Todo, Idle
<1>5. ListsOK
  <2>1. DOMAIN task = Workers
    BY <1>1
  <2>2. Shaped(<<>>) /\ \A t : Belongs(t, <<>>)
    BY DEF Shaped, Belongs
  <2>3. \A t \in Workers : task[t] = [todo |-> task[t].todo, value |-> task[t].value]
    BY <1>4 DEF Idle
  <2>. QED
    BY <1>2, <1>4, <2>1, <2>2, <2>3 DEF ListsOK
<1>6. HeldOK /\ HeadOK
  BY <1>4 DEF HeldOK, HeldAt, HeadOK, HeadAt, Busy, Todo
<1>7. UndirtyOK
  <2>1. ~ \E k \in 2..0 : TRUE
    OBVIOUS
  <2>. QED
    BY <1>2, <1>4, <2>1 DEF UndirtyOK, Undirties
<1>8. ASSUME NEW u \in Users PROVE LegacyOK(u) /\ V2OK(u)
  <2>1. Newer(pos[u]) = {}
    BY <1>1, <1>2 DEF Newer
  <2>2. Cardinality({}) = 0
    BY FS_EmptySet
  <2>3. {i \in {} : posts[i].root = 0} = {}
    OBVIOUS
  <2>4. Truth(u) = [count |-> 0, root |-> 0]
    BY <1>1, <2>1, <2>2, <2>3 DEF Truth, compute_channel_unread_from_db, CountAt
  <2>. QED
    BY <1>1, <2>4 DEF LegacyOK, V2OK
<1>. QED
  BY <1>3, <1>5, <1>6, <1>7, <1>8 DEF UnreadInv, CountersOK

LEMMA UnreadStep == ASSUME UnreadInv, [PostsNext]_PostVars PROVE UnreadInv'
<1>1. ASSUME NEW t \in Workers, TaskStep(t) PROVE UnreadInv'
  BY <1>1, TaskStepStep
<1>2. CASE Background
  BY <1>2, ReconcileStep, OverviewStep, RedisFailsStep, DroppedStep, CrashStep DEF Background
<1>3. ASSUME NEW t \in Tasks, NEW u \in Users, UserTask(t, u) PROVE UnreadInv'
  BY <1>3, UserTaskStep
<1>4. ASSUME NEW u \in Users, UserStatement(u) PROVE UnreadInv'
  BY <1>4, UserStatementStep
<1>5. CASE UNCHANGED PostVars
  <2>1. UNCHANGED <<members, posts, pos, legacy, v2, dirty, task, stale>>
    BY <1>5 DEF PostVars, UnreadVars
  <2>. QED
    BY <2>1, OtherRows
<1>. QED
  BY <1>1, <1>2, <1>3, <1>4, <1>5 DEF PostsNext

LEMMA UnreadInvariant == PostsSpec => []UnreadInv
<1>1. PostsInit => UnreadInv
  BY UnreadInit
<1>2. UnreadInv /\ [PostsNext]_PostVars => UnreadInv'
  BY UnreadStep
<1>. QED
  BY <1>1, <1>2, PTL DEF PostsSpec

\* When no task runs nobody is excused for what is still to be done.
LEMMA QuietExact == ASSUME UnreadInv PROVE UnreadIsExact
<1>1. SUFFICES ASSUME Quiet, NEW u \in members \ (dirty \cup stale) PROVE ShownExactly(u)
  BY DEF UnreadIsExact
<1>2. u \in Users /\ u \notin stale /\ LegacyOK(u) /\ V2OK(u)
  BY <1>1 DEF UnreadInv, DataOK, CountersOK
<1>3. ASSUME NEW t \in Workers PROVE ~Marks(Todo(t), u) /\ ~WritesLegacy(t, Todo(t), u) /\ ~WritesV2(t, Todo(t), u)
  <2>1. Todo(t) = <<>>
    BY <1>1 DEF Quiet, Busy, Todo
  <2>2. \A k \in 1..Len(Todo(t)) : FALSE
    BY <2>1
  <2>. QED
    BY <2>2 DEF Marks, Owes, Has, WritesLegacy, WritesV2, Safe
<1>4. ~Excused(u)
  BY <1>2, <1>3 DEF Excused
<1>. QED
  BY <1>2, <1>3, <1>4 DEF ShownExactly, LegacyOK, V2OK

\* The counters a member is shown are what the database says once no task runs and the member is
\* not marked dirty, unless the counters missed a change or lost a race (increment_unreads,
\* sync_user_unread_cache, mark_channel_as_read, mark_all_as_read, get_unread_overview): for any
\* number of users, tasks, posts and failures.
THEOREM UnreadExact == PostsSpec => []UnreadIsExact
<1>1. UnreadInv => UnreadIsExact
  BY QuietExact
<1>. QED
  BY <1>1, UnreadInvariant, PTL

-----------------------------------------------------------------------------
(* Replies. *)

\* The tasks that have a reply to post i to count, and its replies.
Waiting(i) == {t \in Tasks : Counts(Todo(t), i)}
Repliers(i) == {j \in Ids : posts[j].root = i}

\* Only posts are replied to, and only replies to posts are still to be counted.
RootsOK == \A j \in Ids : posts[j].root <= Len(posts)
WaitingOK == \A t \in Tasks : \A i : Counts(Todo(t), i) => i \in Ids
ReplyInv == RootsOK /\ WaitingOK /\ RepliesAreCounted

LEMMA ReplyNumbers ==
    ASSUME UnreadInv, NEW i
    PROVE  /\ IsFiniteSet(Waiting(i)) /\ Uncounted(i) = Cardinality(Waiting(i)) /\ Uncounted(i) \in Nat
           /\ IsFiniteSet(Repliers(i)) /\ Inserted(i) = Cardinality(Repliers(i)) /\ Inserted(i) \in Nat
<1>1. IsFiniteSet(Waiting(i))
  BY UnreadsAssumption, FS_Subset DEF Waiting
<1>2. Ids = 1..Len(posts) /\ Len(posts) \in Nat
  BY DEF UnreadInv, DataOK, Ids
<1>3. IsFiniteSet(Ids)
  BY <1>2, FS_Interval
<1>4. IsFiniteSet(Repliers(i))
  BY <1>3, FS_Subset DEF Repliers
<1>5. Uncounted(i) = Cardinality(Waiting(i)) /\ Inserted(i) = Cardinality(Repliers(i))
  BY DEF Uncounted, Waiting, Counts, Todo, Inserted, Repliers
<1>. QED
  BY <1>1, <1>4, <1>5, FS_CardinalityType

LEMMA ReplyNumbersNext ==
    ASSUME UnreadInv', NEW i
    PROVE  /\ IsFiniteSet(Waiting(i)') /\ Uncounted(i)' = Cardinality(Waiting(i)') /\ Uncounted(i)' \in Nat
           /\ IsFiniteSet(Repliers(i)') /\ Inserted(i)' = Cardinality(Repliers(i)') /\ Inserted(i)' \in Nat
<1>1. IsFiniteSet(Waiting(i)')
  BY UnreadsAssumption, FS_Subset DEF Waiting
<1>2. Ids' = 1..Len(posts') /\ Len(posts') \in Nat
  BY DEF UnreadInv, DataOK, Ids
<1>3. IsFiniteSet(Ids')
  BY <1>2, FS_Interval
<1>4. IsFiniteSet(Repliers(i)')
  BY <1>3, FS_Subset DEF Repliers
<1>5. Uncounted(i)' = Cardinality(Waiting(i)') /\ Inserted(i)' = Cardinality(Repliers(i)')
  BY DEF Uncounted, Waiting, Counts, Todo, Inserted, Repliers
<1>. QED
  BY <1>1, <1>4, <1>5, FS_CardinalityType

\* No reply is inserted and none is counted; posts of the bot may be added.
RepliesKept ==
    /\ Len(posts) <= Len(posts')
    /\ \A i \in Ids : posts'[i].replies = posts[i].replies /\ posts'[i].root = posts[i].root
    /\ \A i \in Ids' \ Ids : posts'[i].replies = 0 /\ posts'[i].root = 0

LEMMA NothingCounted ==
    ASSUME UnreadInv, UnreadInv', ReplyInv, RepliesKept, \A i : Waiting(i)' = Waiting(i), UNCHANGED cut
    PROVE  ReplyInv'
<1>1. /\ Ids = 1..Len(posts) /\ Len(posts) \in Nat /\ Ids' = 1..Len(posts') /\ Len(posts') \in Nat
      /\ \A i \in Ids' : posts'[i] \in PostRows
  BY DEF UnreadInv, DataOK, Ids
<1>2. \A i \in Ids : posts[i] \in PostRows /\ posts[i].root <= Len(posts)
  BY DEF UnreadInv, DataOK, Ids, ReplyInv, RootsOK
<1>3. Ids \subseteq Ids'
  BY <1>1 DEF RepliesKept
<1>4. RootsOK'
  <2>1. SUFFICES ASSUME NEW j \in Ids' PROVE posts'[j].root <= Len(posts')
    BY DEF RootsOK
  <2>. QED
    BY <1>1, <1>2 DEF RepliesKept, PostRows
<1>5. WaitingOK'
  BY <1>3 DEF ReplyInv, WaitingOK, Waiting
<1>6. ASSUME NEW i \in Ids PROVE Repliers(i)' = Repliers(i)
  <2>1. i # 0
    BY <1>1
  <2>. QED
    BY <1>3, <2>1 DEF Repliers, RepliesKept
<1>7. ASSUME NEW i \in Ids' PROVE /\ posts'[i].replies + Uncounted(i)' <= Inserted(i)'
                                  /\ i \notin cut' => posts'[i].replies + Uncounted(i)' = Inserted(i)'
  <2>1. CASE i \in Ids
    <3>1. Uncounted(i)' = Uncounted(i) /\ Inserted(i)' = Inserted(i)
      BY <1>6, <2>1, ReplyNumbers, ReplyNumbersNext
    <3>2. /\ posts[i].replies + Uncounted(i) <= Inserted(i)
          /\ i \notin cut => posts[i].replies + Uncounted(i) = Inserted(i)
      BY <2>1 DEF ReplyInv, RepliesAreCounted
    <3>. QED
      BY <2>1, <3>1, <3>2 DEF RepliesKept
  <2>2. CASE i \notin Ids
    <3>1. Waiting(i)' = {}
      BY <2>2 DEF ReplyInv, WaitingOK, Waiting
    <3>2. Repliers(i)' = {}
      <4>1. i > Len(posts)
        BY <1>1, <2>2
      <4>2. \A j \in Ids' : posts'[j].root <= Len(posts)
        BY <1>1, <1>2 DEF RepliesKept
      <4>. QED
        BY <1>1, <4>1, <4>2 DEF Repliers, PostRows
    <3>3. Uncounted(i)' = 0 /\ Inserted(i)' = 0
      BY <3>1, <3>2, ReplyNumbersNext, FS_EmptySet
    <3>4. posts'[i].replies = 0
      BY <2>2 DEF RepliesKept
    <3>. QED
      BY <3>3, <3>4
  <2>. QED
    BY <2>1, <2>2
<1>8. RepliesAreCounted'
  BY <1>7 DEF RepliesAreCounted
<1>. QED
  BY <1>4, <1>5, <1>8 DEF ReplyInv

LEMMA KeptRows == ASSUME UnreadInv, UNCHANGED posts PROVE RepliesKept
<1>1. Len(posts) \in Nat /\ Ids' = Ids
  BY DEF UnreadInv, DataOK, Ids
<1>. QED
  BY <1>1 DEF RepliesKept

LEMMA BotPost == ASSUME UnreadInv, posts' = Append(posts, NewPost(Bot, 0)) PROVE RepliesKept
<1>0. posts \in Seq(PostRows)
  BY DEF UnreadInv, DataOK
<1>1a. NewPost(Bot, 0) \in PostRows
  BY NewPostRow DEF People
<1>1. Ids = 1..Len(posts) /\ Len(posts) \in Nat /\ posts \in Seq(PostRows) /\ NewPost(Bot, 0) \in PostRows
  BY <1>0, <1>1a DEF Ids
<1>2. /\ Len(posts') = Len(posts) + 1 /\ Ids' = 1..(Len(posts) + 1)
      /\ \A i \in Ids : posts'[i] = posts[i]
      /\ posts'[Len(posts) + 1] = NewPost(Bot, 0)
  BY <1>1 DEF Ids
<1>3. Ids' \ Ids = {Len(posts) + 1}
  BY <1>1, <1>2
<1>. QED
  BY <1>1, <1>2, <1>3 DEF RepliesKept, NewPost

\* A task goes on, and neither what it did nor what it does next is to count a reply.
LEMMA MovesOn ==
    ASSUME UnreadInv, UnreadInv', ReplyInv, NEW t \in Workers, NEW l2, NEW v, Moved(t, l2, v),
           Busy(t) => Head(Todo(t)).do # "count_reply", Len(l2) > 0 => l2[1].do # "count_reply",
           RepliesKept, UNCHANGED cut
    PROVE  ReplyInv'
<1>1. DOMAIN task = Workers /\ Todo(t)' = l2 /\ \A x \in Workers \ {t} : Todo(x)' = Todo(x)
  BY DEF UnreadInv, ListsOK, Moved, Todo
<1>2. l2 \in Seq(Ops) /\ Shaped(l2)
  <2>1. Todo(t)' \in Seq(Ops) /\ Shaped(Todo(t))'
    BY DEF UnreadInv, ListsOK
  <2>2. Shaped(Todo(t))' <=> Shaped(Todo(t)')
    BY DEF Shaped, Then, After
  <2>. QED
    BY <1>1, <2>1, <2>2
<1>3. \A i : ~Counts(l2, i)
  BY <1>2, CountsFirst
<1>4. \A i : ~Counts(Todo(t), i)
  <2>1. Todo(t) \in Seq(Ops) /\ Shaped(Todo(t))
    BY DEF UnreadInv, ListsOK
  <2>2. Len(Todo(t)) > 0 => Busy(t) /\ Head(Todo(t)) = Todo(t)[1]
    BY <2>1 DEF Busy, Todo
  <2>. QED
    BY <2>1, <2>2, CountsFirst
<1>5. ASSUME NEW i PROVE Waiting(i)' = Waiting(i)
  <2>1. \A x \in Workers : Counts(Todo(x), i)' <=> Counts(Todo(x)', i)
    BY DEF Counts
  <2>2. \A x \in Workers : Counts(Todo(x)', i) <=> Counts(Todo(x), i)
    BY <1>1, <1>3, <1>4
  <2>. QED
    BY <2>1, <2>2 DEF Waiting, Workers
<1>. QED
  BY <1>5, NothingCounted

\* No list goes on with the counting of a reply.
LEMMA TailStart ==
    ASSUME UnreadInv, NEW t \in Workers, Busy(t), NEW i \in 2..Len(Todo(t))
    PROVE  Todo(t)[i].do # "count_reply"
<1>1. Shaped(Todo(t)) /\ Len(Todo(t)) \in Nat
  BY BusyFacts
<1>2. i \in 1..Len(Todo(t)) /\ i > 1
  BY <1>1
<1>. QED
  BY <1>1, <1>2 DEF Shaped

LEMMA JoinStart ==
    ASSUME UnreadInv, NEW t \in Workers, Busy(t), NEW more \in Seq(Ops), Len(more) > 0 => more[1].do # "count_reply",
           NEW l2, l2 = more \o Tail(Todo(t))
    PROVE  Len(l2) > 0 => l2[1].do # "count_reply"
<1>1. Todo(t) \in Seq(Ops) /\ Todo(t) # <<>>
  BY BusyFacts
<1>2. PICK s \in Seq(Ops) : s = Tail(Todo(t)) /\ Len(s) = Len(Todo(t)) - 1 /\ \A k \in 1..Len(s) : s[k] = Todo(t)[k + 1]
  BY <1>1, TailFacts
<1>3. l2 = more \o s /\ Len(l2) = Len(more) + Len(s) /\ Len(more) \in Nat /\ Len(s) \in Nat
  BY <1>2
<1>4. CASE Len(more) > 0
  <2>1. l2[1] = more[1]
    BY <1>3, <1>4
  <2>. QED
    BY <1>4, <2>1
<1>5. CASE Len(more) = 0
  <2>1. SUFFICES ASSUME Len(s) > 0 PROVE l2[1].do # "count_reply"
    BY <1>3, <1>5
  <2>2. more = <<>>
    BY <1>5
  <2>3. l2[1] = s[1]
    <3>1. <<>> \o s = s
      OBVIOUS
    <3>. QED
      BY <1>3, <2>2, <3>1
  <2>4. 1 \in 1..Len(s) /\ 1 + 1 = 2 /\ Len(Todo(t)) \in Nat
    BY <1>1, <1>3, <2>1
  <2>5. s[1] = Todo(t)[2] /\ 2 \in 2..Len(Todo(t))
    BY <1>2, <1>3, <2>1, <2>4
  <2>. QED
    BY <2>3, <2>5, TailStart
<1>. QED
  BY <1>3, <1>4, <1>5

LEMMA GoesOn ==
    ASSUME UnreadInv, UnreadInv', ReplyInv, NEW t \in Workers, Busy(t), Head(Todo(t)).do # "count_reply", NEW v,
           NEW more \in Seq(Ops), Len(more) > 0 => more[1].do # "count_reply", Continue(t, v, more), RepliesKept
    PROVE  ReplyInv'
<1>1. PICK l2 : l2 = more \o Tail(Todo(t))
  OBVIOUS
<1>2. Moved(t, l2, IF l2 = <<>> THEN None ELSE v)
  BY <1>1, ContinueFacts
<1>3. Len(l2) > 0 => l2[1].do # "count_reply"
  BY <1>1, JoinStart
<1>4. UNCHANGED cut
  BY DEF Continue
<1>. QED
  BY <1>2, <1>3, <1>4, MovesOn

\* The instruction is done, nothing is added.
LEMMA IsDone ==
    ASSUME UnreadInv, UnreadInv', ReplyInv, NEW t \in Workers, Busy(t), Head(Todo(t)).do # "count_reply", NEW v,
           Continue(t, v, <<>>), RepliesKept
    PROVE  ReplyInv'
<1>0. PICK e : e = <<>>
  OBVIOUS
<1>1. e \in Seq(Ops) /\ ~(Len(e) > 0)
  BY <1>0
<1>2. Continue(t, v, e)
  BY <1>0
<1>. QED
  BY <1>1, <1>2, GoesOn

LEMMA CountReplyKeeps ==
    ASSUME UnreadInv, UnreadInv', ReplyInv, NEW t \in Workers, Busy(t), CountReply(t, Head(task[t].todo))
    PROVE  ReplyInv'
<1>. DEFINE l == Todo(t)
<1>0. PICK p : p = Head(l).p
  OBVIOUS
<1>1. /\ Head(l).do = "count_reply" /\ Continue(t, None, <<>>) /\ posts' = [posts EXCEPT ![p].replies = @ + 1]
      /\ UNCHANGED cut
  BY <1>0 DEF CountReply, Todo, Continue
<1>2. l \in Seq(Ops) /\ Shaped(l) /\ Belongs(t, l) /\ Head(l) = l[1] /\ Len(l) \in Nat /\ Len(l) > 0 /\ Tail(l) \in Seq(Ops) /\ Shaped(Tail(l))
  BY BusyFacts
<1>3. t \in Tasks
  <2>1. 1 \in 1..Len(l)
    BY <1>2
  <2>. QED
    BY <1>1, <1>2, <2>1 DEF Belongs, ReconcilerDoes
<1>4. \A i : Counts(l, i) <=> i = p
  BY <1>0, <1>1, <1>2, CountsFirst
<1>5. p \in Ids
  BY <1>3, <1>4 DEF ReplyInv, WaitingOK
<1>6. /\ Ids = 1..Len(posts) /\ Len(posts) \in Nat /\ posts \in Seq(PostRows)
  BY DEF UnreadInv, DataOK, Ids
<1>7. /\ Ids' = Ids /\ Len(posts') = Len(posts)
      /\ \A i \in Ids : posts'[i].root = posts[i].root /\ posts[i].replies \in Nat
      /\ \A i \in Ids : posts'[i].replies = IF i = p THEN posts[i].replies + 1 ELSE posts[i].replies
  <2>1. PICK n \in Nat : n = Len(posts) /\ posts \in [1..n -> PostRows]
    BY <1>6
  <2>2. \A r \in PostRows : /\ [r EXCEPT !.replies = @ + 1] \in PostRows /\ [r EXCEPT !.replies = @ + 1].root = r.root
                           /\ [r EXCEPT !.replies = @ + 1].replies = r.replies + 1 /\ r.replies \in Nat
    BY DEF PostRows
  <2>3. /\ posts' \in [1..n -> PostRows]
        /\ \A i \in 1..n : posts'[i] = IF i = p THEN [posts[i] EXCEPT !.replies = @ + 1] ELSE posts[i]
    BY <1>1, <2>1, <2>2
  <2>4. DOMAIN posts' = 1..n /\ Len(posts') = n
    BY <2>3
  <2>5. \A i \in 1..n : posts[i] \in PostRows
    BY <2>1
  <2>6. \A i \in 1..n : /\ posts'[i].root = posts[i].root /\ posts[i].replies \in Nat
                        /\ posts'[i].replies = IF i = p THEN posts[i].replies + 1 ELSE posts[i].replies
    BY <2>2, <2>3, <2>5
  <2>. QED
    BY <1>6, <2>1, <2>4, <2>6 DEF Ids
<1>8. Todo(t)' = Tail(l) /\ \A x \in Workers \ {t} : Todo(x)' = Todo(x)
  <2>1. Moved(t, Tail(l), IF Tail(l) = <<>> THEN None ELSE None)
    BY <1>1, DoneFacts
  <2>. QED
    BY <1>2, <2>1, MovedFacts DEF UnreadInv, Todo
<1>9. \A i : ~Counts(Tail(l), i)
  <2>1. PICK s \in Seq(Ops) : s = Tail(l)
    BY <1>2
  <2>2. Len(s) > 0 => s[1].do # "count_reply"
    <3>0. PICK e : e = <<>>
      OBVIOUS
    <3>1. e \in Seq(Ops) /\ ~(Len(e) > 0)
      BY <3>0
    <3>2. s = e \o Tail(l)
      BY <2>1, <3>0
    <3>. QED
      BY <3>1, <3>2, JoinStart
  <2>3. \A i : ~Counts(s, i)
    BY <1>2, <2>1, <2>2, CountsFirst
  <2>. QED
    BY <2>1, <2>3
<1>10. ASSUME NEW i PROVE Waiting(i)' = IF i = p THEN Waiting(i) \ {t} ELSE Waiting(i)
  <2>1. \A x \in Workers : Counts(Todo(x), i)' <=> Counts(Todo(x)', i)
    BY DEF Counts
  <2>2. \A x \in Workers \ {t} : Counts(Todo(x)', i) <=> Counts(Todo(x), i)
    BY <1>8
  <2>3. ~Counts(Todo(t)', i)
    BY <1>8, <1>9
  <2>. QED
    BY <1>3, <1>4, <2>1, <2>2, <2>3 DEF Waiting, Workers
<1>11. ASSUME NEW i \in Ids PROVE Repliers(i)' = Repliers(i)
  BY <1>7 DEF Repliers
<1>12. RootsOK' /\ WaitingOK'
  <2>1. RootsOK'
    BY <1>7 DEF ReplyInv, RootsOK
  <2>2. \A i : Waiting(i) # {} => i \in Ids
    BY DEF ReplyInv, WaitingOK, Waiting
  <2>3. \A i : Waiting(i)' # {} => i \in Ids'
    BY <1>7, <1>10, <2>2
  <2>. QED
    BY <2>1, <2>3 DEF WaitingOK, Waiting
<1>13. ASSUME NEW i \in Ids' PROVE /\ posts'[i].replies + Uncounted(i)' <= Inserted(i)'
                                   /\ i \notin cut' => posts'[i].replies + Uncounted(i)' = Inserted(i)'
  <2>0. i \in Ids
    BY <1>7
  <2>1. /\ posts[i].replies + Uncounted(i) <= Inserted(i)
        /\ i \notin cut => posts[i].replies + Uncounted(i) = Inserted(i)
    BY <2>0 DEF ReplyInv, RepliesAreCounted
  <2>2. Inserted(i)' = Inserted(i) /\ Inserted(i) \in Nat
    BY <1>11, <2>0, ReplyNumbers, ReplyNumbersNext
  <2>3. CASE i # p
    <3>1. Uncounted(i)' = Uncounted(i)
      BY <1>10, <2>3, ReplyNumbers, ReplyNumbersNext
    <3>. QED
      BY <1>1, <1>7, <2>0, <2>1, <2>2, <2>3, <3>1
  <2>4. CASE i = p
    <3>1. t \in Waiting(i)
      BY <1>3, <1>4, <2>4 DEF Waiting
    <3>2. IsFiniteSet(Waiting(i)) /\ Uncounted(i) = Cardinality(Waiting(i)) /\ Uncounted(i) \in Nat
      BY ReplyNumbers
    <3>3. Cardinality(Waiting(i) \ {t}) = Cardinality(Waiting(i)) - 1
      BY <3>1, <3>2, FS_RemoveElement
    <3>4. Uncounted(i)' = Uncounted(i) - 1
      BY <1>10, <2>4, <3>2, <3>3, ReplyNumbersNext
    <3>. QED
      BY <1>1, <1>7, <2>0, <2>1, <2>2, <2>4, <3>2, <3>4
  <2>. QED
    BY <2>3, <2>4
<1>. QED
  BY <1>12, <1>13 DEF ReplyInv, RepliesAreCounted

\* create_post inserts a reply and leaves it to its task to count.
LEMMA CreatePostKeeps ==
    ASSUME UnreadInv, UnreadInv', ReplyInv, NEW t \in Tasks, NEW u \in Users, NEW root \in {0} \cup Ids, NEW kind,
           create_post(t, u, root, kind)
    PROVE  ReplyInv'
<1>1. PICK n : n = Len(posts) + 1
  OBVIOUS
<1>2. PICK l : l = AfterInsert(u, root, n, kind)
  OBVIOUS
<1>3. /\ posts' = Append(posts, NewPost(u, root)) /\ Begin(t, 1, l) /\ UNCHANGED cut
  BY <1>1, <1>2 DEF create_post, Request, Begin
<1>4. /\ u \in People /\ posts \in Seq(PostRows) /\ Ids = 1..Len(posts) /\ Len(posts) \in Nat /\ root \in Nat /\ n \in Nat
      /\ t \in Workers /\ root < n /\ \A j \in Ids : posts[j].root \in Nat /\ posts[j].root < n
  <2>1. posts \in Seq(PostRows) /\ u \in People /\ t \in Workers /\ Ids = 1..Len(posts) /\ Len(posts) \in Nat
    BY DEF UnreadInv, DataOK, People, Workers, Ids
  <2>2. \A j \in Ids : posts[j].root \in Nat /\ posts[j].root <= Len(posts)
    <3>1. \A j \in Ids : posts[j] \in PostRows
      BY <2>1
    <3>. QED
      BY <3>1 DEF ReplyInv, RootsOK, PostRows
  <2>. QED
    BY <1>1, <2>1, <2>2
<1>5. /\ Ids' = Ids \cup {n} /\ n \notin Ids /\ Len(posts') = n /\ \A j \in Ids : posts'[j] = posts[j]
      /\ posts'[n].root = root /\ posts'[n].replies = 0
  <2>1. NewPost(u, root) \in PostRows
    BY <1>4, NewPostRow
  <2>2. /\ Len(posts') = n /\ DOMAIN posts' = 1..n /\ posts'[n] = NewPost(u, root)
        /\ \A j \in 1..Len(posts) : posts'[j] = posts[j]
    BY <1>1, <1>3, <1>4, <2>1
  <2>. QED
    BY <1>1, <1>4, <2>2 DEF Ids, NewPost
<1>6. l \in Seq(Ops) /\ \A i : Counts(l, i) <=> root # 0 /\ i = root
  <2>1. PICK S : S = Missed
    OBVIOUS
  <2>2. l \in Seq(Ops) /\ Opens(l, S)
    BY <1>2, <1>4, InsertList
  <2>3. u \in People /\ root \in Nat /\ n \in Nat
    BY <1>4
  <2>4. ASSUME NEW i PROVE Counts(l, i) <=> root # 0 /\ i = root
    BY <1>2, <2>2, <2>3, InsertList
  <2>. QED
    BY <2>2, <2>4
<1>7. Todo(t) = <<>> /\ Todo(t)' = l /\ \A x \in Workers \ {t} : Todo(x)' = Todo(x)
  <2>1. Moved(t, l, None)
    BY <1>3, <1>4, BeginFacts
  <2>2. Todo(t) = <<>>
    BY <1>3 DEF Begin, Busy, Todo
  <2>. QED
    BY <1>4, <1>6, <2>1, <2>2, MovedFacts DEF UnreadInv, Todo
<1>8. ASSUME NEW i PROVE /\ Waiting(i)' = IF root # 0 /\ i = root THEN Waiting(i) \cup {t} ELSE Waiting(i)
                         /\ t \notin Waiting(i)
  <2>1. \A x \in Workers : Counts(Todo(x), i)' <=> Counts(Todo(x)', i)
    BY DEF Counts
  <2>2. \A x \in Workers \ {t} : Counts(Todo(x)', i) <=> Counts(Todo(x), i)
    BY <1>7
  <2>3. Counts(Todo(t)', i) <=> root # 0 /\ i = root
    BY <1>6, <1>7
  <2>4. DOMAIN <<>> = {}
    OBVIOUS
  <2>5. ~Counts(Todo(t), i)
    BY <1>7, <2>4 DEF Counts
  <2>. QED
    BY <2>1, <2>2, <2>3, <2>5 DEF Waiting, Workers
<1>9. ASSUME NEW i PROVE Repliers(i)' = IF i = root THEN Repliers(i) \cup {n} ELSE Repliers(i)
  BY <1>5 DEF Repliers
<1>10. RootsOK' /\ WaitingOK'
  <2>1. RootsOK'
    BY <1>4, <1>5 DEF RootsOK
  <2>2. \A i : Waiting(i) # {} => i \in Ids
    BY DEF ReplyInv, WaitingOK, Waiting
  <2>3. root # 0 => root \in Ids'
    BY <1>5
  <2>4. \A i : Waiting(i)' # {} => i \in Ids'
    BY <1>5, <1>8, <2>2, <2>3
  <2>. QED
    BY <2>1, <2>4 DEF WaitingOK, Waiting
<1>11. ASSUME NEW i \in Ids' PROVE /\ posts'[i].replies + Uncounted(i)' <= Inserted(i)'
                                   /\ i \notin cut' => posts'[i].replies + Uncounted(i)' = Inserted(i)'
  <2>1. /\ IsFiniteSet(Waiting(i)) /\ Uncounted(i) = Cardinality(Waiting(i)) /\ Uncounted(i) \in Nat
        /\ IsFiniteSet(Repliers(i)) /\ Inserted(i) = Cardinality(Repliers(i)) /\ Inserted(i) \in Nat
    BY ReplyNumbers
  <2>2. Uncounted(i)' = Cardinality(Waiting(i)') /\ Inserted(i)' = Cardinality(Repliers(i)')
    BY ReplyNumbersNext
  <2>3. CASE i \in Ids
    <3>0. i # 0
      BY <1>4, <2>3
    <3>1. /\ posts[i].replies + Uncounted(i) <= Inserted(i)
          /\ i \notin cut => posts[i].replies + Uncounted(i) = Inserted(i)
      BY <2>3 DEF ReplyInv, RepliesAreCounted
    <3>2. posts'[i].replies = posts[i].replies /\ posts[i].replies \in Nat
      <4>1. posts[i] \in PostRows
        BY <1>4, <2>3
      <4>. QED
        BY <1>5, <2>3, <4>1 DEF PostRows
    <3>3. CASE i # root
      BY <1>3, <1>8, <1>9, <2>1, <2>2, <3>1, <3>2, <3>3
    <3>4. CASE i = root
      <4>1. Cardinality(Waiting(i) \cup {t}) = Cardinality(Waiting(i)) + 1
        BY <1>8, <2>1, FS_AddElement
      <4>2. n \notin Repliers(i)
        BY <1>5 DEF Repliers
      <4>3. Cardinality(Repliers(i) \cup {n}) = Cardinality(Repliers(i)) + 1
        BY <2>1, <4>2, FS_AddElement
      <4>4. Uncounted(i)' = Uncounted(i) + 1 /\ Inserted(i)' = Inserted(i) + 1
        BY <1>8, <1>9, <2>1, <2>2, <3>0, <3>4, <4>1, <4>3
      <4>5. posts'[i].replies + Uncounted(i)' = (posts[i].replies + Uncounted(i)) + 1
        BY <2>1, <3>2, <4>4
      <4>6. posts'[i].replies + Uncounted(i)' <= Inserted(i)'
        BY <2>1, <3>1, <3>2, <4>4, <4>5
      <4>7. i \notin cut' => posts'[i].replies + Uncounted(i)' = Inserted(i)'
        BY <1>3, <3>1, <4>4, <4>5
      <4>. QED
        BY <4>6, <4>7
    <3>. QED
      BY <3>3, <3>4
  <2>4. CASE i = n
    <3>1. Waiting(n) = {}
      BY <1>5 DEF ReplyInv, WaitingOK, Waiting
    <3>2. Repliers(n) = {}
      BY <1>4 DEF Repliers
    <3>3. n # root
      BY <1>4
    <3>4. Waiting(i)' = {} /\ Repliers(i)' = {}
      BY <1>8, <1>9, <2>4, <3>1, <3>2, <3>3
    <3>5. Uncounted(i)' = 0 /\ Inserted(i)' = 0
      BY <2>2, <3>4, FS_EmptySet
    <3>. QED
      BY <1>5, <2>4, <3>5
  <2>. QED
    BY <1>5, <2>3, <2>4
<1>. QED
  BY <1>10, <1>11 DEF ReplyInv, RepliesAreCounted

\* The other steps of a task.
LEMMA TaskStepKeeps ==
    ASSUME UnreadInv, UnreadInv', ReplyInv, NEW t \in Workers, TaskStep(t)
    PROVE  ReplyInv'
<1>1. PICK o : /\ Busy(t) /\ o = Head(task[t].todo) /\ o = Head(Todo(t)) /\ o \in Ops
  BY BusyFacts DEF TaskStep
<1>2. CASE CountReply(t, o)
  BY <1>1, <1>2, CountReplyKeeps
<1>3. CASE SyncUser(t, o)
  <2>1. PICK more : more = sync_user_unread_cache(o.u)
    OBVIOUS
  <2>2. more \in Seq(Ops) /\ Fresh(more, Missed)
    BY <1>1, <2>1, SyncList DEF UnreadInv, Ops
  <2>3. Len(more) > 0 => more[1].do # "count_reply"
    BY <2>2 DEF Fresh, Inner
  <2>4. o.do # "count_reply" /\ Continue(t, None, more) /\ UNCHANGED posts
    BY <1>3, <2>1 DEF SyncUser
  <2>. QED
    BY <1>1, <2>2, <2>3, <2>4, KeptRows, GoesOn
<1>4. CASE Notify(t, o)
  <2>1. PICK to : to = SetToSeq(members \ {o.u})
    OBVIOUS
  <2>2. PICK more : more = FlattenSeq([i \in DOMAIN to |-> increment_member(to[i])])
    OBVIOUS
  <2>3. o.do = "notify" /\ Continue(t, None, more) /\ UNCHANGED posts
    BY <1>4, <2>1, <2>2 DEF Notify
  <2>4. t \in Tasks /\ members \ {o.u} \in SUBSET Users
    <3>1. Belongs(t, Todo(t)) /\ o = Todo(t)[1] /\ Len(Todo(t)) \in Nat /\ Len(Todo(t)) > 0
      BY <1>1, BusyFacts
    <3>2. 1 \in 1..Len(Todo(t))
      BY <3>1
    <3>3. t \in Tasks
      BY <2>3, <3>1, <3>2 DEF Belongs, ReconcilerDoes
    <3>. QED
      BY <3>3 DEF UnreadInv, DataOK
  <2>5. Plain(more)
    BY <2>1, <2>2, <2>4, NotifyList
  <2>6. more \in Seq(Ops) /\ (Len(more) > 0 => more[1].do # "count_reply")
    BY <2>5 DEF Plain, Fresh, Inner
  <2>. QED
    BY <1>1, <2>3, <2>6, KeptRows, GoesOn
<1>5. CASE create_system_message(t, o)
  <2>1. PICK more : more = increment_unreads(Bot, Len(posts) + 1)
    OBVIOUS
  <2>2. Bot \in People /\ Len(posts) + 1 \in Nat
    BY DEF People, UnreadInv, DataOK
  <2>3. Plain(more)
    BY <2>1, <2>2, IncrementList
  <2>4. more \in Seq(Ops) /\ (Len(more) > 0 => more[1].do # "count_reply")
    BY <2>3 DEF Plain, Fresh, Inner
  <2>5. o.do # "count_reply" /\ Continue(t, None, more) /\ posts' = Append(posts, NewPost(Bot, 0))
    BY <1>5, <2>1 DEF create_system_message
  <2>. QED
    BY <1>1, <2>4, <2>5, BotPost, GoesOn
<1>6. CASE check_playbook_triggers(t, o)
  <2>1. /\ o.do # "count_reply" /\ Continue(t, None, <<>>)
        /\ posts' = Append(posts, NewPost(Bot, 0)) \/ UNCHANGED posts
    BY <1>6 DEF check_playbook_triggers
  <2>. QED
    BY <1>1, <2>1, KeptRows, BotPost, IsDone
<1>7. ASSUME NEW v, Continue(t, v, <<>>), o.do # "count_reply", UNCHANGED posts PROVE ReplyInv'
  BY <1>1, <1>7, KeptRows, IsDone
<1>8. CASE Compute(t, o) \/ write_legacy_channel_count(t, o) \/ write_v2_channel_hash(t, o)
  BY <1>7, <1>8 DEF Compute, write_legacy_channel_count, write_v2_channel_hash
<1>9. CASE ClearDirty(t, o) \/ DropCounters(t, o) \/ Increment(t, o)
  BY <1>7, <1>9 DEF ClearDirty, DropCounters, Increment
<1>10. CASE SetPosition(t, o) \/ mark_dirty_with_conn(t, o)
  BY <1>7, <1>10 DEF SetPosition, mark_dirty_with_conn
<1>11. CASE ensure_dm_membership(t, o) \/ SystemMessageCapped(t, o) \/ ReplyActivity(t, o) \/ create_mention_activity(t, o)
  BY <1>7, <1>11 DEF ensure_dm_membership, SystemMessageCapped, ReplyActivity, create_mention_activity
<1>. QED
  BY <1>1, <1>2, <1>3, <1>4, <1>5, <1>6, <1>8, <1>9, <1>10, <1>11 DEF TaskStep

\* A failed command: what is left of the list, or what replaces it, counts no reply.
LEMMA RedisFailsKeeps ==
    ASSUME UnreadInv, UnreadInv', ReplyInv, NEW t \in Workers, RedisFails(t)
    PROVE  ReplyInv'
<1>. DEFINE l == Todo(t)
            o == Head(l)
<1>1. Busy(t) /\ UNCHANGED <<posts, cut>> /\ o.do # "count_reply"
  BY DEF RedisFails, Todo
<1>2. PICK l2 : l2 = AfterError(l)
  OBVIOUS
<1>3. PICK v : Moved(t, l2, v)
  BY <1>2 DEF RedisFails, Moved, Todo, UnreadInv, ListsOK
<1>4. l \in Seq(Ops) /\ l # <<>> /\ Len(l) \in Nat /\ Tail(l) \in Seq(Ops) /\ o \in Ops
  BY <1>1, BusyFacts
<1>5. <<>> \in Seq(Ops) /\ Len(<<>>) = 0
  OBVIOUS
<1>6. CASE l2 = Tail(l)
  <2>1. PICK e : e = <<>>
    OBVIOUS
  <2>2. e \in Seq(Ops) /\ ~(Len(e) > 0)
    BY <2>1
  <2>3. l2 = e \o Tail(l)
    BY <1>4, <1>6, <2>1
  <2>4. Len(l2) > 0 => l2[1].do # "count_reply"
    BY <1>1, <2>2, <2>3, JoinStart
  <2>. QED
    BY <1>1, <1>3, <2>4, KeptRows, MovesOn
<1>7. CASE o.do = "notify"
  <2>1. PICK to : to = SetToSeq(members \ {o.u})
    OBVIOUS
  <2>2. PICK more : more = [i \in DOMAIN to |-> Op("mark_dirty", to[i], 0)]
    OBVIOUS
  <2>3. l2 = more \o Tail(l)
    BY <1>2, <1>7, <2>1, <2>2 DEF AfterError
  <2>4. members \ {o.u} \in SUBSET Users
    BY DEF UnreadInv, DataOK
  <2>5. Plain(more)
    BY <2>1, <2>2, <2>4, MarkList
  <2>6. more \in Seq(Ops) /\ (Len(more) > 0 => more[1].do # "count_reply")
    BY <2>5 DEF Plain, Fresh, Inner
  <2>7. Len(l2) > 0 => l2[1].do # "count_reply"
    BY <1>1, <2>3, <2>6, JoinStart
  <2>. QED
    BY <1>1, <1>3, <2>7, KeptRows, MovesOn
<1>8. CASE \E i \in 1..Len(l) : l2 = SubSeq(l, i + 1, Len(l))
  <2>1. PICK i \in 1..Len(l) : l2 = SubSeq(l, i + 1, Len(l))
    BY <1>8
  <2>2. Len(l2) > 0 => i + 1 \in 2..Len(l) /\ l2[1] = l[i + 1]
    BY <1>4, <2>1
  <2>3. Len(l2) > 0 => l2[1].do # "count_reply"
    BY <1>1, <2>2, TailStart
  <2>. QED
    BY <1>1, <1>3, <2>3, KeptRows, MovesOn
<1>9. CASE \E u : l2 = <<Op("mark_dirty", u, 0)>>
  <2>1. Len(l2) > 0 => l2[1].do # "count_reply"
    BY <1>9 DEF Op
  <2>. QED
    BY <1>1, <1>3, <2>1, KeptRows, MovesOn
<1>10. CASE o.do # "notify"
  <2>. DEFINE later == {i \in DOMAIN l : l[i].do = "undirty" /\ l[i].u = o.u}
  <2>1. CASE o.do \in {"legacy", "v2"} /\ later # {}
    <3>1. PICK j : j = CHOOSE i \in later : TRUE
      OBVIOUS
    <3>2. j \in 1..Len(l)
      BY <1>4, <2>1, <3>1
    <3>3. l2 = SubSeq(l, j + 1, Len(l))
      BY <1>2, <2>1, <3>1 DEF AfterError
    <3>. QED
      BY <1>8, <3>2, <3>3
  <2>2. CASE o.do \in {"legacy", "v2"} /\ later = {} /\ o.p = 0
    <3>1. l2 = <<Op("mark_dirty", o.u, 0)>>
      BY <1>2, <2>2 DEF AfterError
    <3>. QED
      BY <1>9, <3>1
  <2>3. CASE ~(o.do \in {"legacy", "v2"} /\ (later # {} \/ o.p = 0))
    <3>1. l2 = Tail(l)
      BY <1>2, <1>10, <2>3 DEF AfterError
    <3>. QED
      BY <1>6, <3>1
  <2>. QED
    BY <2>1, <2>2, <2>3
<1>. QED
  BY <1>7, <1>10

\* Tasks end, and what they had still to count is cut short.
LEMMA CutShort ==
    ASSUME UnreadInv, UnreadInv', ReplyInv, UNCHANGED posts, NEW C, cut' = cut \cup C,
           \A i : Waiting(i)' \subseteq Waiting(i), \A i \in Ids \ C : Waiting(i)' = Waiting(i)
    PROVE  ReplyInv'
<1>1. RootsOK' /\ WaitingOK'
  BY DEF ReplyInv, RootsOK, WaitingOK, Waiting, Ids
<1>2. ASSUME NEW i \in Ids' PROVE /\ posts'[i].replies + Uncounted(i)' <= Inserted(i)'
                                  /\ i \notin cut' => posts'[i].replies + Uncounted(i)' = Inserted(i)'
  <2>1. i \in Ids /\ posts'[i].replies = posts[i].replies /\ Repliers(i)' = Repliers(i)
    BY DEF Ids, Repliers
  <2>2. posts[i].replies \in Nat
    <3>1. posts[i] \in PostRows
      BY <2>1 DEF UnreadInv, DataOK, Ids
    <3>. QED
      BY <3>1 DEF PostRows
  <2>3. /\ posts[i].replies + Uncounted(i) <= Inserted(i)
        /\ i \notin cut => posts[i].replies + Uncounted(i) = Inserted(i)
    BY <2>1 DEF ReplyInv, RepliesAreCounted
  <2>4. Uncounted(i) \in Nat /\ Inserted(i) \in Nat /\ Inserted(i)' = Inserted(i) /\ Uncounted(i)' \in Nat
    BY <2>1, ReplyNumbers, ReplyNumbersNext
  <2>5. Uncounted(i)' <= Uncounted(i)
    <3>1. /\ IsFiniteSet(Waiting(i)) /\ Uncounted(i) = Cardinality(Waiting(i))
          /\ Uncounted(i)' = Cardinality(Waiting(i)')
      BY ReplyNumbers, ReplyNumbersNext
    <3>. QED
      BY <3>1, FS_Subset
  <2>6. i \notin cut' => i \notin cut /\ Uncounted(i)' = Uncounted(i)
    <3>1. i \notin cut' => i \notin cut /\ Waiting(i)' = Waiting(i)
      BY <2>1
    <3>. QED
      BY <3>1, ReplyNumbers, ReplyNumbersNext
  <2>. QED
    BY <2>1, <2>2, <2>3, <2>4, <2>5, <2>6
<1>. QED
  BY <1>1, <1>2 DEF ReplyInv, RepliesAreCounted

\* What a task has to count it has to count of some post.
LEMMA ToCountFacts == \A t, i : i \in ToCount(t) <=> i \in Ids /\ Counts(Todo(t), i)
BY DEF ToCount, Ids, Counts, Todo

\* A task that ends has nothing to count.
LEMMA NothingLeft ==
    ASSUME NEW t \in Workers, task'[t] = Idle
    PROVE  \A i : ~Counts(Todo(t), i)'
<1>1. DOMAIN <<>> = {}
  OBVIOUS
<1>2. Todo(t)' = <<>>
  BY DEF Todo, Idle
<1>. QED
  BY <1>1, <1>2 DEF Counts

\* The process ends: what was still to be counted never is.
LEMMA CrashKeeps == ASSUME UnreadInv, UnreadInv', ReplyInv, Crash PROVE ReplyInv'
<1>1. PICK C : C = UNION {ToCount(t) : t \in Workers}
  OBVIOUS
<1>2. UNCHANGED posts /\ cut' = cut \cup C /\ \A t \in Workers : task'[t] = Idle
  BY <1>1 DEF Crash
<1>3. \A i : Waiting(i)' = {}
  BY <1>2, NothingLeft DEF Waiting, Workers
<1>4. \A i \in Ids \ C : Waiting(i) = {}
  BY <1>1, ToCountFacts DEF Waiting, Workers
<1>. QED
  BY <1>2, <1>3, <1>4, CutShort

\* The same for one handler.
LEMMA DroppedKeeps ==
    ASSUME UnreadInv, UnreadInv', ReplyInv, NEW t \in Tasks, Dropped(t)
    PROVE  ReplyInv'
<1>1. PICK C : C = ToCount(t)
  OBVIOUS
<1>2. UNCHANGED posts /\ cut' = cut \cup C /\ task'[t] = Idle /\ \A x \in Workers \ {t} : task'[x] = task[x]
  BY <1>1 DEF Dropped, UnreadInv, ListsOK, Workers
<1>3. ASSUME NEW i PROVE Waiting(i)' = Waiting(i) \ {t}
  <2>1. ~Counts(Todo(t), i)'
    BY <1>2, NothingLeft DEF Workers
  <2>2. \A x \in Workers \ {t} : Counts(Todo(x), i)' <=> Counts(Todo(x), i)
    BY <1>2 DEF Counts, Todo
  <2>. QED
    BY <2>1, <2>2 DEF Waiting, Workers
<1>4. \A i \in Ids \ C : t \notin Waiting(i)
  BY <1>1, ToCountFacts DEF Waiting
<1>5. /\ \A i : Waiting(i)' \subseteq Waiting(i)
      /\ \A i \in Ids \ C : Waiting(i)' = Waiting(i)
  BY <1>3, <1>4
<1>. QED
  BY <1>2, <1>5, CutShort

\* A task begins with a list that counts no reply.
LEMMA BeginKeeps ==
    ASSUME UnreadInv, UnreadInv', ReplyInv, NEW t \in Workers, NEW new, NEW l, Begin(t, new, l), UNCHANGED posts,
           Len(l) > 0 => l[1].do # "count_reply"
    PROVE  ReplyInv'
<1>1. Moved(t, l, None) /\ ~Busy(t) /\ UNCHANGED cut
  BY BeginFacts DEF Begin
<1>. QED
  BY <1>1, KeptRows, MovesOn

LEMMA BackgroundKeeps == ASSUME UnreadInv, UnreadInv', ReplyInv, Background PROVE ReplyInv'
<1>1. CASE reconcile_dirty_users_once
  <2>1. PICK s : s = SetToSeq(dirty)
    OBVIOUS
  <2>2. PICK l : l = [i \in DOMAIN s |-> Op("sync", s[i], 0)]
    OBVIOUS
  <2>3. Begin(Reconciler, 0, l) /\ UNCHANGED posts
    BY <1>1, <2>1, <2>2 DEF reconcile_dirty_users_once
  <2>4. Reconciler \in Workers
    BY DEF Workers
  <2>5. Len(l) > 0 => l[1].do # "count_reply"
    <3>1. dirty \subseteq People
      BY DEF UnreadInv, DataOK
    <3>2. IsFiniteSet(dirty)
      <4>1. IsFiniteSet(People)
        BY UnreadsAssumption, FS_AddElement DEF People
      <4>. QED
        BY <3>1, <4>1, FS_Subset
    <3>3. DOMAIN s = 1..Len(s) /\ Len(s) \in Nat
      BY <2>1, <3>2, SetToSeqFacts
    <3>4. Len(l) = Len(s) /\ \A k \in 1..Len(s) : l[k] = Op("sync", s[k], 0)
      BY <2>2, <3>3
    <3>5. \A x : Op("sync", x, 0).do # "count_reply"
      BY DEF Op
    <3>. QED
      BY <3>3, <3>4, <3>5
  <2>. QED
    BY <2>3, <2>4, <2>5, BeginKeeps
<1>2. ASSUME NEW t \in Tasks, NEW u \in Users, get_unread_overview(t, u) PROVE ReplyInv'
  <2>1. PICK p : Begin(t, 0, Recount(u, p)) /\ UNCHANGED posts
    BY <1>2 DEF get_unread_overview
  <2>2. PICK l : l = Recount(u, p)
    OBVIOUS
  <2>3. l[1].do # "count_reply" /\ t \in Workers
    BY <2>2 DEF Recount, Op, Workers
  <2>. QED
    BY <2>1, <2>2, <2>3, BeginKeeps
<1>. QED
  BY <1>1, <1>2, RedisFailsKeeps, CrashKeeps, DroppedKeeps DEF Background

LEMMA UserTaskKeeps ==
    ASSUME UnreadInv, UnreadInv', ReplyInv, NEW t \in Tasks, NEW u \in Users, UserTask(t, u)
    PROVE  ReplyInv'
<1>0. t \in Workers
  BY DEF Workers
<1>1. CASE \E root \in {0} \cup Ids, kind \in {"plain", "mention", "playbook"} : create_post(t, u, root, kind)
  BY <1>1, CreatePostKeeps
<1>2. ASSUME NEW q, MarkRead(t, u, q) PROVE ReplyInv'
  <2>1. PICK l : l = mark_channel_as_read(u, q)
    OBVIOUS
  <2>2. Begin(t, 1, l) /\ UNCHANGED posts
    BY <1>2, <2>1 DEF MarkRead, Request
  <2>3. PICK a, b : /\ a = <<Op("position", u, q)>> /\ b = Recount(u, 0) /\ l = a \o b
    BY <2>1 DEF mark_channel_as_read, cache_channel_unread_best_effort
  <2>4. l[1].do # "count_reply"
    <3>1. a \in Seq({Op("position", u, q)}) /\ Len(a) = 1 /\ a[1] = Op("position", u, q)
      BY <2>3
    <3>2. b \in Seq({Op("compute", u, 0), Op("legacy", u, 0), Op("v2", u, 0)})
      BY <2>3 DEF Recount
    <3>3. l[1] = Op("position", u, q)
      BY <2>3, <3>1, <3>2
    <3>. QED
      BY <3>3 DEF Op
  <2>. QED
    BY <1>0, <2>2, <2>4, BeginKeeps
<1>3. CASE MarkAllRead(t, u)
  <2>1. PICK l : l = mark_all_as_read(u)
    OBVIOUS
  <2>2. Begin(t, 1, l) /\ UNCHANGED posts
    BY <1>3, <2>1 DEF MarkAllRead, Request
  <2>3. l[1].do # "count_reply"
    BY <2>1 DEF mark_all_as_read, Op
  <2>. QED
    BY <1>0, <2>2, <2>3, BeginKeeps
<1>4. CASE add_member(t, u)
  <2>1. PICK l : l = <<Op("system", Bot, 0)>>
    OBVIOUS
  <2>2. Begin(t, 1, l) /\ UNCHANGED posts
    BY <1>4, <2>1 DEF add_member, Request
  <2>3. l[1].do # "count_reply"
    BY <2>1 DEF Op
  <2>. QED
    BY <1>0, <2>2, <2>3, BeginKeeps
<1>. QED
  BY <1>1, <1>2, <1>3, <1>4 DEF UserTask

\* A statement that no task carries out inserts no reply and counts none.
LEMMA StatementKeeps == ASSUME UnreadInv, UnreadInv', ReplyInv, Statement, RepliesKept PROVE ReplyInv'
<1>1. UNCHANGED <<task, cut>>
  BY DEF Statement
<1>2. \A i : Waiting(i)' = Waiting(i)
  BY <1>1 DEF Waiting, Counts, Todo
<1>. QED
  BY <1>1, <1>2, NothingCounted

LEMMA ChangeKeeps ==
    ASSUME UnreadInv, NEW i \in Ids, NEW p, posts' = [posts EXCEPT ![i] = p],
           p.root = posts[i].root, p.replies = posts[i].replies
    PROVE  RepliesKept
<1>1. posts \in Seq(PostRows)
  BY DEF UnreadInv, DataOK
<1>2. PICK n \in Nat : n = Len(posts) /\ DOMAIN posts = 1..n
  BY <1>1
<1>3. DOMAIN posts' = 1..n /\ Ids' = Ids /\ Ids = 1..n
  BY <1>2 DEF Ids
<1>4. Len(posts') = n
  BY <1>2, <1>3
<1>5. \A j \in Ids : posts'[j] = IF j = i THEN p ELSE posts[j]
  BY DEF Ids
<1>. QED
  BY <1>2, <1>3, <1>4, <1>5 DEF RepliesKept

LEMMA PostChangeKeeps ==
    ASSUME UnreadInv, UnreadInv', ReplyInv, NEW i \in Ids,
           \/ ChangePost(i, [posts[i] EXCEPT !.deleted = TRUE])
           \/ ChangePost(i, [posts[i] EXCEPT !.edited = TRUE])
           \/ \E b \in BOOLEAN : ChangePost(i, [posts[i] EXCEPT !.pinned = b])
    PROVE  ReplyInv'
<1>1. posts[i] \in PostRows
  BY DEF Ids, UnreadInv, DataOK
<1>2. PICK r \in PostRows : r = posts[i]
  BY <1>1
<1>3. \A b \in BOOLEAN :
         /\ [r EXCEPT !.deleted = TRUE].root = r.root /\ [r EXCEPT !.deleted = TRUE].replies = r.replies
         /\ [r EXCEPT !.edited = TRUE].root = r.root /\ [r EXCEPT !.edited = TRUE].replies = r.replies
         /\ [r EXCEPT !.pinned = b].root = r.root /\ [r EXCEPT !.pinned = b].replies = r.replies
  BY DEF PostRows
<1>4. PICK p : p.root = r.root /\ p.replies = r.replies /\ ChangePost(i, p)
  BY <1>2, <1>3
<1>5. Statement /\ posts' = [posts EXCEPT ![i] = p]
  BY <1>4 DEF ChangePost
<1>. QED
  BY <1>2, <1>4, <1>5, ChangeKeeps, StatementKeeps

LEMMA UserStatementKeeps ==
    ASSUME UnreadInv, UnreadInv', ReplyInv, NEW u \in Users, UserStatement(u)
    PROVE  ReplyInv'
<1>1. ASSUME NEW i \in Ids,
             \/ v4_delete_post(u, i) \/ update_post_message(u, i) \/ delete_post(u, i) \/ update_post(u, i)
             \/ v4_pin_post(u, i) \/ v4_unpin_post(u, i) \/ channel_pin_post(u, i) \/ channel_unpin_post(u, i)
             \/ pin_post(u, i) \/ unpin_post(u, i)
      PROVE  ReplyInv'
  BY <1>1, PostChangeKeeps DEF v4_delete_post, update_post_message, delete_post, update_post, v4_pin_post, v4_unpin_post,
     channel_pin_post, channel_unpin_post, pin_post, unpin_post
<1>. DEFINE Same == Statement /\ UNCHANGED posts
<1>2. ASSUME NEW i \in Ids,
             \/ v4_add_reaction(u, i) \/ add_reaction(u, i) \/ v4_remove_reaction(u, i) \/ remove_reaction(u, i)
             \/ save_post(u, i) \/ unsave_post(u, i) \/ set_post_reminder(u, i)
             \/ save_acknowledgement_for_post(u, i) \/ delete_acknowledgement_for_post(u, i)
      PROVE  Same
  <2>1. PICK S : SetMarks(S)
    BY <1>2 DEF v4_add_reaction, add_reaction, v4_remove_reaction, remove_reaction, save_post, unsave_post,
       set_post_reminder, save_acknowledgement_for_post, delete_acknowledgement_for_post
  <2>. QED
    BY <2>1 DEF SetMarks, QuietStatement
<1>3. ASSUME NEW q, MovePosition(u, q) PROVE Same
  BY <1>3 DEF MovePosition
<1>4. ASSUME \/ v4_mark_channel_as_read(u) \/ mark_channel_member_as_read(u)
             \/ mark_channel_viewed(u) \/ mark_channel_as_unread(u) \/ \E i \in Ids : set_post_unread(u, i)
      PROVE  Same
  BY <1>3, <1>4 DEF v4_mark_channel_as_read, mark_channel_member_as_read, mark_channel_viewed, mark_channel_as_unread,
     set_post_unread
<1>5. ASSUME NEW i \in Ids, \/ mark_thread_read_internal(u, i) \/ follow_thread_internal(u, i)
                            \/ unfollow_thread_internal(u, i) \/ set_thread_unread(u, i)
      PROVE  Same
  BY <1>5 DEF mark_thread_read_internal, follow_thread_internal, unfollow_thread_internal, set_thread_unread,
     ThreadStatement, QuietStatement
<1>6. ASSUME create_scheduled_post(u) \/ update_scheduled_post(u) \/ delete_scheduled_post(u) PROVE Same
  BY <1>6 DEF create_scheduled_post, update_scheduled_post, delete_scheduled_post, SetScheduled, QuietStatement
<1>7. ASSUME remove_member(u) \/ mark_all_read_internal(u) PROVE Same
  BY <1>7 DEF remove_member, mark_all_read_internal, ThreadStatement, QuietStatement
<1>8. ASSUME (\E a \in feed : mark_activities_read(u, a)) \/ mark_all_activities_read(u) PROVE Same
  BY <1>8 DEF mark_activities_read, mark_all_activities_read, QuietStatement
<1>9. ASSUME Same PROVE ReplyInv'
  BY <1>9, KeptRows, StatementKeeps
<1>. QED
  BY <1>1, <1>2, <1>4, <1>5, <1>6, <1>7, <1>8, <1>9 DEF UserStatement

LEMMA ReplyStep == ASSUME UnreadInv, ReplyInv, [PostsNext]_PostVars PROVE ReplyInv'
<1>0. UnreadInv'
  BY UnreadStep
<1>1. CASE PostsNext
  BY <1>0, <1>1, TaskStepKeeps, BackgroundKeeps, UserTaskKeeps, UserStatementKeeps DEF PostsNext
<1>2. CASE UNCHANGED PostVars
  <2>1. UNCHANGED <<posts, task, cut>>
    BY <1>2 DEF PostVars, UnreadVars
  <2>2. \A i : Waiting(i)' = Waiting(i)
    BY <2>1 DEF Waiting, Counts, Todo
  <2>. QED
    BY <1>0, <2>1, <2>2, KeptRows, NothingCounted
<1>. QED
  BY <1>1, <1>2

LEMMA ReplyInit == ASSUME PostsInit PROVE ReplyInv
<1>1. posts = <<>> /\ task = [t \in Workers |-> Idle] /\ DOMAIN <<>> = {}
  BY DEF PostsInit, UnreadsInit
<1>2. Ids = {} /\ \A t \in Tasks : Todo(t) = <<>>
  BY <1>1 DEF Ids, Todo, Idle, Workers
<1>. QED
  BY <1>1, <1>2 DEF ReplyInv, RootsOK, WaitingOK, RepliesAreCounted, Counts

\* reply_count is the number of the replies that create_post has inserted and counted, whichever
\* replies, deletions and edits run at the same time; only a handler or a process that ends between
\* the INSERT and the UPDATE of create_post leaves a reply out, and then only of the post it was a
\* reply to; no reply is ever counted twice.
THEOREM RepliesCounted == PostsSpec => []RepliesAreCounted
<1>1. PostsInit => ReplyInv
  BY ReplyInit
<1>2. UnreadInv /\ ReplyInv /\ [PostsNext]_PostVars => ReplyInv'
  BY ReplyStep
<1>3. ReplyInv => RepliesAreCounted
  BY DEF ReplyInv
<1>. QED
  BY <1>1, <1>2, <1>3, UnreadInvariant, PTL DEF PostsSpec

=============================================================================
