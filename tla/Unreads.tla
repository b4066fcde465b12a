------------------------------ MODULE Unreads ------------------------------
(***************************************************************************)
(* The unread counters (backend/src/services/unreads.rs) of one channel:   *)
(* the posts and read positions of the database, which decide, and the     *)
(* counters in Redis, which clients are shown: the legacy counter, the v2  *)
(* hash, and the dirty marks that make the reconciler recount a user.      *)
(*                                                                         *)
(* A task carries out a list of instructions, each one SQL statement or    *)
(* one Redis command; other tasks run in between.  The team has one        *)
(* channel, so its counters move with the channel's and are left out, as   *)
(* are the mention counts and the broadcasts.  unread_v2_enabled is set.   *)
(***************************************************************************)
EXTENDS Naturals, Sequences, FiniteSets, SequencesExt

CONSTANTS
    Users,
    Bot,           \* the author of system messages, a member of no channel
    None,
    Tasks,
    Reconciler,    \* the task of run_unread_v2_reconciler
    MaxTrouble,    \* bound on failures and on tasks that begin while another runs
    MaxEvents      \* bound on requests and trouble together

ASSUME UnreadsAssumption == IsFiniteSet(Users) /\ IsFiniteSet(Tasks) /\ Bot \notin Users /\ Reconciler \notin Tasks

VARIABLES
    direct,     \* is this the direct channel of Users?  (never changes)
    members,    \* channel_members
    posts,      \* posts in the order of seq: author, root (0: none), deleted, pinned, replies
    pos,        \* user -> channel_reads.last_read_message_id (0: none)
    legacy,     \* user -> rc:unread (0: no key)
    v2,         \* user -> rc:unread:v2:uc, or None
    dirty,      \* the users with a dirty mark
    task,       \* task -> what is left to do, and the count it holds (or None)
    stale,      \* history: users whose counters missed a change or lost a race
    cut,        \* history: posts of which a reply was inserted and the count of it cut short
    trouble,    \* failures, and tasks begun while another was running, so far
    requests    \* the requests so far

UnreadVars == <<direct, members, posts, pos, legacy, v2, dirty, task, stale, cut, trouble, requests>>

Workers == Tasks \cup {Reconciler}

Op(do, u, p) == [do |-> do, u |-> u, p |-> p]

Idle == [todo |-> <<>>, value |-> None]

UnreadsInit ==
    /\ direct \in BOOLEAN
    /\ members = Users
    /\ posts = <<>>
    /\ pos = [u \in Users \cup {Bot} |-> 0]
    /\ legacy = [u \in Users |-> 0]
    /\ v2 = [u \in Users |-> [count |-> 0, root |-> 0]]
    /\ dirty = {}
    /\ task = [t \in Workers |-> Idle]
    /\ stale = {}
    /\ cut = {}
    /\ trouble = 0
    /\ requests = 0

-----------------------------------------------------------------------------
(* What the database says. *)

Newer(q) == {i \in DOMAIN posts : i > q /\ ~posts[i].deleted}

\* What u has not read, when u has read as far as q.
CountAt(u, q) ==
    LET unread == IF u \in members THEN Newer(q) ELSE {}
    IN  [count |-> Cardinality(unread),
         root |-> Cardinality({i \in unread : posts[i].root = 0}),
         pos |-> q]

compute_channel_unread_from_db(u) == CountAt(u, pos[u])

Truth(u) == LET c == compute_channel_unread_from_db(u) IN [count |-> c.count, root |-> c.root]

\* The counters say what the database says: the v2 hash is what is shown, the legacy counter,
\* if there is one, agrees.
ShownExactly(u) == v2[u] \in {None, Truth(u)} /\ legacy[u] \in {0, Truth(u).count}

\* The database changes and no counter is touched: users whose count is now another one.
Bypassed == {u \in Users : Truth(u)' # Truth(u)}

MaxSeq(S) == IF S = {} THEN 0 ELSE CHOOSE i \in S : \A j \in S : j <= i

-----------------------------------------------------------------------------
(* Tasks. *)

Busy(t) == task[t].todo # <<>>

MoreTrouble(new) == trouble < MaxTrouble /\ trouble + requests + new < MaxEvents

\* A task begins, for `new` requests (0 or 1).  The first idle one stands for all.
Begin(t, new, todo) ==
    /\ ~Busy(t)
    /\ t \in Tasks => t = CHOOSE x \in Tasks : ~Busy(x)
    /\ task' = [task EXCEPT ![t] = [todo |-> todo, value |-> None]]
    /\ IF \E x \in Workers \ {t} : Busy(x)
       THEN MoreTrouble(new) /\ trouble' = trouble + 1
       ELSE trouble' = trouble
    /\ UNCHANGED <<direct, cut>>

\* The instruction is done; `more` is to be done next.
Continue(t, value, more) ==
    /\ task' = [task EXCEPT ![t] = LET rest == more \o Tail(@.todo)
                                   IN  [todo |-> rest, value |-> IF rest = <<>> THEN None ELSE value]]
    /\ UNCHANGED <<direct, cut, trouble>>

\* The next instruction of some other task is on the counters of u, after it has counted.
InWindow(t, u) ==
    \E x \in Workers \ {t} :
        Busy(x) /\ Head(task[x].todo).u = u /\ Head(task[x].todo).do \in {"legacy", "v2", "drop", "undirty"}

\* Users for whom some task has counted and not yet written.
Counted == {u \in Users : \E t \in Workers : Busy(t) /\ Head(task[t].todo).u = u /\ Head(task[t].todo).do \in {"legacy", "v2"}}

-----------------------------------------------------------------------------
(* The operations of the service, as lists of instructions. *)

\* write_legacy_channel_count and write_v2_channel_hash of a fresh count.
Recount(u, p) == <<Op("compute", u, 0), Op("legacy", u, p), Op("v2", u, p)>>

cache_channel_unread_best_effort(u) == Recount(u, 0)

\* Mutant: the v2 hash is left alone.
sync_legacy_only(u) ==
    (IF u \in members THEN <<Op("compute", u, 0), Op("legacy", u, 0)>> ELSE <<>>) \o <<Op("undirty", u, 0)>>

sync_user_unread_cache(u) ==
    (IF u \in members THEN Recount(u, 0) ELSE <<>>) \o <<Op("undirty", u, 0)>>

mark_channel_as_read(u, target) == <<Op("position", u, target)>> \o cache_channel_unread_best_effort(u)

mark_all_as_read(u) ==
    IF u \in members
    THEN <<Op("position", u, Len(posts)), Op("drop_legacy", u, 0), Op("drop", u, 0), Op("undirty", u, 0)>>
    ELSE <<Op("undirty", u, 0)>>

increment_unreads(author, seq) == <<Op("position", author, seq), Op("notify", author, 0)>>

\* What increment_unreads does for one member.
increment_member(u) ==
    <<Op("incr_legacy", u, 0), Op("incr_count", u, 0), Op("incr_root", u, 0), Op("mark_dirty", u, 0)>>

\* The cached count of a user is missing, or the two caches disagree.
NeedsRefresh(u) == IF v2[u] = None THEN TRUE ELSE legacy[u] \notin {0, v2[u].count}

get_unread_overview(t, u) ==
    /\ u \in members
    /\ NeedsRefresh(u)
    /\ Begin(t, 0, Recount(u, IF v2[u] = None THEN 1 ELSE 0))     \* 1: errors are ignored
    /\ UNCHANGED <<members, posts, pos, legacy, v2, dirty, stale>>

\* Mutant: the reconciler is not started.
reconcile_nobody ==
    /\ FALSE
    /\ UNCHANGED UnreadVars

\* One round of the reconciler: the marks it has scanned, one user after the other.
reconcile_dirty_users_once ==
    /\ dirty # {}
    /\ Begin(Reconciler, 0, [i \in DOMAIN SetToSeq(dirty) |-> Op("sync", SetToSeq(dirty)[i], 0)])
    /\ UNCHANGED <<members, posts, pos, legacy, v2, dirty, stale>>

-----------------------------------------------------------------------------
(* The instructions. *)

\* The channels of the user are read.
SyncUser(t, o) ==
    /\ o.do = "sync"
    /\ Continue(t, None, sync_user_unread_cache(o.u))
    /\ UNCHANGED <<members, posts, pos, legacy, v2, dirty, stale>>

\* A count is written that a new read position has overtaken.
Outdated(t, u) == IF task[t].value.pos # pos[u] THEN {u} ELSE {}

Compute(t, o) ==
    /\ o.do = "compute"
    /\ Continue(t, compute_channel_unread_from_db(o.u), <<>>)
    /\ UNCHANGED <<members, posts, pos, legacy, v2, dirty, stale>>

write_legacy_channel_count(t, o) ==
    /\ o.do = "legacy"
    /\ legacy' = [legacy EXCEPT ![o.u] = task[t].value.count]
    /\ stale' = stale \cup Outdated(t, o.u)
    /\ Continue(t, task[t].value, <<>>)
    /\ UNCHANGED <<members, posts, pos, v2, dirty>>

write_v2_channel_hash(t, o) ==
    /\ o.do = "v2"
    /\ v2' = [v2 EXCEPT ![o.u] = [count |-> task[t].value.count, root |-> task[t].value.root]]
    /\ stale' = stale \cup Outdated(t, o.u)
    /\ Continue(t, task[t].value, <<>>)
    /\ UNCHANGED <<members, posts, pos, legacy, dirty>>

ClearDirty(t, o) ==
    /\ o.do = "undirty"
    /\ dirty' = dirty \ {o.u}
    /\ Continue(t, None, <<>>)
    /\ UNCHANGED <<members, posts, pos, legacy, v2, stale>>

\* mark_all_as_read deletes the two counters, one after the other.
DropCounters(t, o) ==
    /\ \/ o.do = "drop_legacy" /\ legacy' = [legacy EXCEPT ![o.u] = 0] /\ UNCHANGED v2
       \/ o.do = "drop" /\ v2' = [v2 EXCEPT ![o.u] = None] /\ UNCHANGED legacy
    /\ Continue(t, None, <<>>)
    /\ UNCHANGED <<members, posts, pos, dirty, stale>>

\* The INSERT ... ON CONFLICT of a read position: the later statement wins.  The author
\* of a new post is then neither recounted nor marked: the counters must be right as they are, or
\* marked for the reconciler, and no recount under way.
SetPosition(t, o) ==
    /\ o.do = "position"
    /\ pos' = [pos EXCEPT ![o.u] = o.p]
    /\ Continue(t, None, <<>>)
    /\ UNCHANGED <<members, posts, legacy, v2, dirty>>
    /\ stale' = IF /\ task[t].todo[2].do = "notify" /\ o.u \in Users
                   /\ InWindow(t, o.u) \/ (o.u \notin dirty /\ ~ShownExactly(o.u)')
                THEN stale \cup {o.u} ELSE stale

\* increment_unreads reads the members and goes through all but the author.
Notify(t, o) ==
    /\ o.do = "notify"
    /\ Continue(t, None, LET to == SetToSeq(members \ {o.u})
                         IN  FlattenSeq([i \in DOMAIN to |-> increment_member(to[i])]))
    /\ UNCHANGED <<members, posts, pos, legacy, v2, dirty, stale>>

\* HINCRBY takes a field that is not there for 0.
Fields(hash) == IF hash = None THEN [count |-> 0, root |-> 0] ELSE hash

Increment(t, o) ==
    /\ \/ /\ o.do = "incr_legacy"
          /\ legacy' = [legacy EXCEPT ![o.u] = @ + 1]
          /\ UNCHANGED v2
       \/ /\ o.do = "incr_count"
          /\ v2' = [v2 EXCEPT ![o.u] = [Fields(@) EXCEPT !.count = @ + 1]]
          /\ UNCHANGED legacy
       \/ /\ o.do = "incr_root"    \* also for a reply
          /\ v2' = [v2 EXCEPT ![o.u] = [Fields(@) EXCEPT !.root = @ + 1]]
          /\ UNCHANGED legacy
    /\ Continue(t, None, <<>>)
    /\ UNCHANGED <<members, posts, pos, dirty, stale>>

\* A mark set between another task's count and its DEL is lost.
mark_dirty_with_conn(t, o) ==
    /\ o.do = "mark_dirty"
    /\ dirty' = dirty \cup {o.u}
    /\ stale' = IF InWindow(t, o.u) THEN stale \cup {o.u} ELSE stale
    /\ Continue(t, None, <<>>)
    /\ UNCHANGED <<members, posts, pos, legacy, v2>>

-----------------------------------------------------------------------------
(* Failures. *)

\* What a task still does when its Redis command fails: increments and deletions are
\* skipped one by one, a recount of the reconciler gives the user up, a cached count
\* is replaced by a dirty mark, and increment_unreads without a connection only marks.
AfterError(todo) ==
    LET o == Head(todo)
        later == {i \in DOMAIN todo : todo[i].do = "undirty" /\ todo[i].u = o.u}
    IN  CASE o.do \in {"legacy", "v2"} /\ later # {} -> SubSeq(todo, (CHOOSE i \in later : TRUE) + 1, Len(todo))
          [] o.do \in {"legacy", "v2"} /\ later = {} /\ o.p = 0 -> <<Op("mark_dirty", o.u, 0)>>
          [] o.do = "notify" -> LET to == SetToSeq(members \ {o.u})
                                IN  [i \in DOMAIN to |-> Op("mark_dirty", to[i], 0)] \o Tail(todo)
          [] OTHER -> Tail(todo)

RedisFails(t) ==
    /\ Busy(t)
    /\ MoreTrouble(0)
    /\ Head(task[t].todo).do \in {"sync", "legacy", "v2", "drop_legacy", "drop", "undirty", "notify",
                                  "incr_legacy", "incr_count", "incr_root", "mark_dirty"}
    /\ task' = [task EXCEPT ![t] = LET rest == AfterError(@.todo)
                                   IN  [todo |-> rest, value |-> IF rest = <<>> THEN None ELSE @.value]]
    /\ trouble' = trouble + 1
    /\ stale' = IF Head(task[t].todo).do \in {"mark_dirty", "drop", "drop_legacy"}
                THEN stale \cup {Head(task[t].todo).u} ELSE stale
    /\ UNCHANGED <<direct, cut, members, posts, pos, legacy, v2, dirty>>

\* The replies that a task has yet to count.
ToCount(t) ==
    {i \in DOMAIN posts : \E k \in DOMAIN task[t].todo : task[t].todo[k].do = "count_reply" /\ task[t].todo[k].p = i}

\* A handler ends where it is: its client has gone away, or one of its queries failed.
Dropped(t) ==
    /\ MoreTrouble(0)
    /\ Busy(t)
    /\ task' = [task EXCEPT ![t] = Idle]
    /\ trouble' = trouble + 1
    /\ stale' = stale \cup Users
    /\ cut' = cut \cup ToCount(t)
    /\ UNCHANGED <<direct, members, posts, pos, legacy, v2, dirty>>

\* The process ends; its tasks with it.
Crash ==
    /\ MoreTrouble(0)
    /\ \E t \in Workers : Busy(t)
    /\ task' = [t \in Workers |-> Idle]
    /\ trouble' = trouble + 1
    /\ stale' = IF \E t \in Tasks : Busy(t) THEN Users ELSE stale
    /\ cut' = cut \cup UNION {ToCount(t) : t \in Workers}
    /\ UNCHANGED <<direct, members, posts, pos, legacy, v2, dirty>>

=============================================================================
