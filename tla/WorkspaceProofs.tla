--------------------------- MODULE WorkspaceProofs ---------------------------
(***************************************************************************)
(* Proofs about the areas of Workspace, for any number of tasks, rows and  *)
(* events.  A behaviour stays in its area, so the invariant of an area is  *)
(* the property itself, which the steps of the others leave alone, and,    *)
(* in that area, what makes it inductive.                                  *)
(***************************************************************************)
EXTENDS Workspace, FiniteSetTheorems, WellFoundedInduction, TLAPS

(***************************************************************************)
(* A step of Workspace stays in the area, is a step of that area or leaves *)
(* its tables and requests alone, and leaves the tables of the others.     *)
(***************************************************************************)
LEMMA AreaSteps ==
    ASSUME [WorkspaceNext]_WorkspaceVars
    PROVE  /\ area' = area
           /\ IF area = "limits" THEN RateLimitNext \/ UNCHANGED <<RequestVars, RateLimitVars>> ELSE UNCHANGED RateLimitVars
           /\ IF area = "bookmarks" THEN BookmarksNext \/ UNCHANGED <<RequestVars, BookmarkVars>> ELSE UNCHANGED BookmarkVars
           /\ IF area = "terms" THEN TermsNext \/ UNCHANGED <<RequestVars, TermsVars>> ELSE UNCHANGED TermsVars
           /\ IF area = "push" THEN PushNext \/ UNCHANGED <<RequestVars, PushVars>> ELSE UNCHANGED PushVars
           /\ IF area = "playbooks" THEN PlaybooksNext \/ UNCHANGED <<RequestVars, PlaybookVars>> ELSE UNCHANGED PlaybookVars
           /\ IF area = "quiet_hours" THEN Hold \/ UNCHANGED QuietVars ELSE UNCHANGED QuietVars
           /\ IF area = "media" THEN SfuNext \/ UNCHANGED <<RequestVars, SfuVars>> ELSE UNCHANGED SfuVars
           /\ IF area = "integrations" THEN IntegrationsNext \/ UNCHANGED <<RequestVars, IntegrationVars>>
              ELSE UNCHANGED IntegrationVars
           /\ IF area = "mail" THEN EmailAdminNext \/ UNCHANGED <<RequestVars, EmailAdminVars>> ELSE UNCHANGED EmailAdminVars
           /\ IF area = "files" THEN FileStoreNext \/ UNCHANGED <<RequestVars, FileVars>> ELSE UNCHANGED FileVars
           /\ IF area = "sidebar" THEN SidebarNext \/ UNCHANGED <<RequestVars, SidebarVars>> ELSE UNCHANGED SidebarVars
           /\ IF area = "status" THEN StatusNext \/ UNCHANGED <<RequestVars, StatusVars>>
              ELSE IF area = "settings" THEN SettingsNext \/ UNCHANGED <<RequestVars, StatusVars>>
              ELSE UNCHANGED StatusVars
<1>1. CASE UNCHANGED WorkspaceVars
  BY <1>1 DEF WorkspaceVars
<1>2. CASE WorkspaceNext
  <2>1. area' = area
    BY <1>2 DEF WorkspaceNext, Elsewhere
  <2>2. IF area = "limits" THEN RateLimitNext ELSE UNCHANGED RateLimitVars
    BY <1>2 DEF WorkspaceNext, Elsewhere
  <2>3. IF area = "quiet_hours" THEN Hold ELSE UNCHANGED QuietVars
    BY <1>2 DEF WorkspaceNext, Elsewhere
  <2>4. IF area = "bookmarks" THEN BookmarksNext ELSE UNCHANGED BookmarkVars
    BY <1>2 DEF WorkspaceNext, Elsewhere
  <2>5. IF area = "terms" THEN TermsNext ELSE UNCHANGED TermsVars
    BY <1>2 DEF WorkspaceNext, Elsewhere
  <2>6. IF area = "push" THEN PushNext ELSE UNCHANGED PushVars
    BY <1>2 DEF WorkspaceNext, Elsewhere
  <2>7. IF area = "playbooks" THEN PlaybooksNext ELSE UNCHANGED PlaybookVars
    BY <1>2 DEF WorkspaceNext, Elsewhere
  <2>8. IF area = "status" THEN StatusNext ELSE IF area = "settings" THEN SettingsNext ELSE UNCHANGED StatusVars
    BY <1>2 DEF WorkspaceNext, Elsewhere
  <2>9. IF area = "media" THEN SfuNext ELSE UNCHANGED SfuVars
    BY <1>2 DEF WorkspaceNext, Elsewhere
  <2>10. IF area = "integrations" THEN IntegrationsNext ELSE UNCHANGED IntegrationVars
    BY <1>2 DEF WorkspaceNext, Elsewhere
  <2>11. IF area = "mail" THEN EmailAdminNext ELSE UNCHANGED EmailAdminVars
    BY <1>2 DEF WorkspaceNext, Elsewhere
  <2>12. IF area = "files" THEN FileStoreNext ELSE UNCHANGED FileVars
    BY <1>2 DEF WorkspaceNext, Elsewhere
  <2>13. IF area = "sidebar" THEN SidebarNext ELSE UNCHANGED SidebarVars
    BY <1>2 DEF WorkspaceNext, Elsewhere
  <2>. QED
    BY <2>1, <2>2, <2>3, <2>4, <2>5, <2>6, <2>7, <2>8, <2>9, <2>10, <2>11, <2>12, <2>13
<1>. QED
  BY <1>1, <1>2

-----------------------------------------------------------------------------
(* The statements that requests have left. *)

Elems(list) == {list[i] : i \in 1..Len(list)}
Todo(t) == Elems(task[t])

\* The elements of the short lists that requests are made of.
LEMMA ShortLists ==
    /\ Elems(<<>>) = {}
    /\ \A o : Elems(<<o>>) = {o} /\ Len(<<o>>) = 1 /\ <<o>> # <<>>
    /\ \A o, p : Elems(<<o, p>>) = {o, p} /\ Len(<<o, p>>) = 2
    /\ \A S : <<>> \in Seq(S)
    /\ \A S : \A o \in S : <<o>> \in Seq(S)
    /\ \A S : \A o, p \in S : <<o, p>> \in Seq(S)
BY DEF Elems

\* A list of one statement is its head.
LEMMA OneLeft ==
    ASSUME NEW S, NEW list \in Seq(S), Len(list) = 1
    PROVE  /\ Head(list) \in S /\ Tail(list) = <<>>
           /\ Elems(list) = {Head(list)} /\ list # <<>>
<1>1. Tail(list) \in Seq(S) /\ Len(Tail(list)) = 0 /\ list # <<>>
  OBVIOUS
<1>2. \A r \in Seq(S) : Len(r) = 0 => r = <<>>
  OBVIOUS
<1>3. Head(list) \in S /\ Head(list) = list[1]
  BY <1>1
<1>4. Elems(list) = {list[1]}
  BY DEF Elems
<1>. QED
  BY <1>1, <1>2, <1>3, <1>4

\* Two lists with the same elements in the same places are the same.
LEMMA SameList ==
    ASSUME NEW S, NEW k \in Seq(S), NEW l \in Seq(S), Len(k) = Len(l), \A i \in 1..Len(k) : k[i] = l[i]
    PROVE  k = l
OBVIOUS

\* The places of a sequence made of two.
LEMMA JoinedPlaces ==
    ASSUME NEW S
    PROVE  \A r, q \in Seq(S) :
              /\ r \o q \in Seq(S) /\ Len(r \o q) = Len(r) + Len(q)
              /\ \A i \in 1..Len(r) + Len(q) : (r \o q)[i] = IF i <= Len(r) THEN r[i] ELSE q[i - Len(r)]
OBVIOUS

\* The elements of a sequence made of two.
LEMMA Joined ==
    ASSUME NEW S, NEW r \in Seq(S), NEW q \in Seq(S)
    PROVE  r \o q \in Seq(S) /\ Elems(r \o q) = Elems(r) \cup Elems(q)
<1>1. /\ r \o q \in Seq(S) /\ Len(r \o q) = Len(r) + Len(q) /\ Len(r) \in Nat /\ Len(q) \in Nat
      /\ \A i \in 1..Len(r) + Len(q) : (r \o q)[i] = IF i <= Len(r) THEN r[i] ELSE q[i - Len(r)]
  OBVIOUS
<1>. DEFINE both == r \o q
<1>. HIDE DEF both
<1>2. ASSUME NEW x \in Elems(both) PROVE x \in Elems(r) \cup Elems(q)
  <2>1. PICK i \in 1..Len(r) + Len(q) : x = both[i]
    BY <1>1, <1>2 DEF Elems, both
  <2>2. CASE i <= Len(r)
    BY <1>1, <2>1, <2>2 DEF Elems, both
  <2>3. CASE ~(i <= Len(r))
    <3>1. i - Len(r) \in 1..Len(q) /\ x = q[i - Len(r)]
      BY <1>1, <2>1, <2>3 DEF both
    <3>. QED
      BY <3>1 DEF Elems
  <2>. QED
    BY <2>2, <2>3
<1>3. ASSUME NEW x \in Elems(r) PROVE x \in Elems(both)
  <2>1. PICK i \in 1..Len(r) : x = r[i]
    BY <1>3 DEF Elems
  <2>2. i \in 1..Len(both) /\ x = both[i]
    BY <1>1, <2>1 DEF both
  <2>. QED
    BY <2>2 DEF Elems
<1>4. ASSUME NEW x \in Elems(q) PROVE x \in Elems(both)
  <2>1. PICK i \in 1..Len(q) : x = q[i]
    BY <1>4 DEF Elems
  <2>2. Len(r) + i \in 1..Len(both) /\ x = both[Len(r) + i]
    BY <1>1, <2>1 DEF both
  <2>. QED
    BY <2>2 DEF Elems
<1>. QED
  BY <1>1, <1>2, <1>3, <1>4 DEF both

\* What the ways a request goes on do to the statements it has left, all of them in a set S.
LEMMA TaskLists ==
    ASSUME NEW S, task \in [Tasks -> Seq(S)], NEW t \in Tasks, NEW todo \in Seq(S)
    PROVE  /\ Begin(t, todo) =>
                 /\ task' \in [Tasks -> Seq(S)] /\ task' = [task EXCEPT ![t] = todo]
                 /\ Todo(t) = {} /\ \A u \in Tasks : Todo(u)' = IF u = t THEN Elems(todo) ELSE Todo(u)
           /\ GiveUp(t) \/ Interrupted(t) =>
                 /\ task' \in [Tasks -> Seq(S)] /\ task' = [task EXCEPT ![t] = <<>>]
                 /\ \A u \in Tasks : Todo(u)' = IF u = t THEN {} ELSE Todo(u)
           /\ Busy(t) /\ Continue(t, todo) =>
                 /\ task' \in [Tasks -> Seq(S)] /\ task' = [task EXCEPT ![t] = todo \o Tail(@)]
                 /\ \A u \in Tasks : Todo(u)' = IF u = t THEN Elems(todo) \cup Elems(Tail(task[t])) ELSE Todo(u)
           /\ Busy(t) => /\ Head(task[t]) \in S /\ Head(task[t]) \in Todo(t)
                         /\ Todo(t) = {Head(task[t])} \cup Elems(Tail(task[t]))
           /\ Todo(t) \subseteq S
<1>0. /\ \A u \in Tasks : task[u] \in Seq(S) /\ Len(task[u]) \in Nat
      /\ <<>> \in Seq(S) /\ Len(<<>>) = 0
  OBVIOUS
<1>1. Begin(t, todo) =>
         /\ task' \in [Tasks -> Seq(S)] /\ task' = [task EXCEPT ![t] = todo]
         /\ Todo(t) = {} /\ \A u \in Tasks : Todo(u)' = IF u = t THEN Elems(todo) ELSE Todo(u)
  BY <1>0 DEF Begin, Busy, Todo, Elems
<1>2. GiveUp(t) \/ Interrupted(t) =>
         /\ task' \in [Tasks -> Seq(S)] /\ task' = [task EXCEPT ![t] = <<>>]
         /\ \A u \in Tasks : Todo(u)' = IF u = t THEN {} ELSE Todo(u)
  <2>. SUFFICES ASSUME task' = [task EXCEPT ![t] = <<>>]
                PROVE  /\ task' \in [Tasks -> Seq(S)]
                       /\ \A u \in Tasks : Todo(u)' = IF u = t THEN {} ELSE Todo(u)
    BY DEF GiveUp, Interrupted
  <2>1. task' \in [Tasks -> Seq(S)] /\ task'[t] = <<>> /\ \A u \in Tasks : u # t => task'[u] = task[u]
    BY <1>0
  <2>2. \A u \in Tasks : Todo(u)' = Elems(task'[u])
    BY DEF Todo, Elems
  <2>. QED
    BY <2>1, <2>2, ShortLists DEF Todo
<1>3. ASSUME Busy(t)
      PROVE  /\ Head(task[t]) \in S /\ Head(task[t]) \in Todo(t)
             /\ Tail(task[t]) \in Seq(S) /\ Len(Tail(task[t])) = Len(task[t]) - 1
             /\ \A i \in 1..Len(task[t]) - 1 : Tail(task[t])[i] = task[t][i + 1]
             /\ Head(task[t]) = task[t][1] /\ Len(task[t]) \in Nat /\ Len(task[t]) > 0
  BY <1>3 DEF Busy, Todo, Elems
<1>4. Busy(t) => Todo(t) = {Head(task[t])} \cup Elems(Tail(task[t]))
  <2>. SUFFICES ASSUME Busy(t) PROVE Todo(t) = {Head(task[t])} \cup Elems(Tail(task[t]))
    OBVIOUS
  <2>. DEFINE n == Len(task[t])
              rest == Tail(task[t])
  <2>1. n \in Nat /\ n > 0 /\ Len(rest) = n - 1 /\ \A i \in 1..n - 1 : rest[i] = task[t][i + 1]
    BY <1>3
  <2>. HIDE DEF n, rest
  <2>2. ASSUME NEW x \in Elems(rest) PROVE x \in Todo(t)
    <3>1. PICK i \in 1..n - 1 : x = rest[i]
      BY <2>1, <2>2 DEF Elems
    <3>2. i + 1 \in 1..n /\ x = task[t][i + 1]
      BY <2>1, <3>1
    <3>. QED
      BY <3>2 DEF Todo, Elems, n
  <2>3. ASSUME NEW x \in Todo(t), x # Head(task[t]) PROVE x \in Elems(rest)
    <3>1. PICK i \in 1..n : x = task[t][i]
      BY <2>3 DEF Todo, Elems, n
    <3>2. i - 1 \in 1..n - 1 /\ x = rest[i - 1]
      BY <1>3, <2>1, <2>3, <3>1
    <3>. QED
      BY <2>1, <3>2 DEF Elems
  <2>. QED
    BY <1>3, <2>2, <2>3 DEF rest
<1>5. ASSUME NEW rest \in Seq(S)
      PROVE  todo \o rest \in Seq(S) /\ Elems(todo \o rest) = Elems(todo) \cup Elems(rest)
  BY Joined
<1>6. Busy(t) /\ Continue(t, todo) =>
         /\ task' \in [Tasks -> Seq(S)] /\ task' = [task EXCEPT ![t] = todo \o Tail(@)]
         /\ \A u \in Tasks : Todo(u)' = IF u = t THEN Elems(todo) \cup Elems(Tail(task[t])) ELSE Todo(u)
  <2>. SUFFICES ASSUME Busy(t), Continue(t, todo)
                PROVE  /\ task' \in [Tasks -> Seq(S)] /\ task' = [task EXCEPT ![t] = todo \o Tail(@)]
                       /\ \A u \in Tasks : Todo(u)' = IF u = t THEN Elems(todo) \cup Elems(Tail(task[t])) ELSE Todo(u)
    OBVIOUS
  <2>. DEFINE both == todo \o Tail(task[t])
  <2>1. both \in Seq(S) /\ Elems(both) = Elems(todo) \cup Elems(Tail(task[t]))
    BY <1>3, <1>5
  <2>2. task' = [task EXCEPT ![t] = both]
    BY DEF Continue
  <2>3. task' \in [Tasks -> Seq(S)] /\ task'[t] = both /\ \A u \in Tasks : u # t => task'[u] = task[u]
    BY <2>1, <2>2
  <2>4. \A u \in Tasks : Todo(u)' = Elems(task'[u])
    BY DEF Todo, Elems
  <2>. QED
    BY <2>1, <2>2, <2>3, <2>4 DEF Todo
<1>7. Todo(t) \subseteq S
  BY <1>0 DEF Todo, Elems
<1>. QED
  BY <1>1, <1>2, <1>3, <1>4, <1>6, <1>7

\* The statements left are in a set R after a step when those left before are in a smaller set S and
\* those that the step adds are in R.
LEMMA TaskSteps ==
    ASSUME NEW S, NEW R, S \subseteq R, task \in [Tasks -> Seq(S)], NEW t \in Tasks, NEW todo \in Seq(R),
           \/ Begin(t, todo) \/ GiveUp(t) \/ Interrupted(t)
           \/ (Busy(t) /\ Continue(t, todo)) \/ task' = task
    PROVE  task' \in [Tasks -> Seq(R)]
<1>1. \A s \in Seq(S) : s \in Seq(R)
  OBVIOUS
<1>2. task \in [Tasks -> Seq(R)]
  BY <1>1
<1>. QED
  BY <1>2, TaskLists

\* The requests of an area that never have more than one statement left, in a set S.
OneAtMost(S) == task \in [Tasks -> Seq(S)] /\ \A t \in Tasks : Len(task[t]) \in {0, 1}

\* How such requests go on.
LEMMA OneAtMostSteps ==
    ASSUME NEW S, OneAtMost(S), NEW t \in Tasks
    PROVE  /\ Todo(t) \subseteq S
           /\ Busy(t) => Head(task[t]) \in S /\ Todo(t) = {Head(task[t])}
           /\ \A o \in S : Begin(t, <<o>>) \/ (Busy(t) /\ Continue(t, <<o>>)) =>
                 OneAtMost(S)' /\ \A u \in Tasks : Todo(u)' = IF u = t THEN {o} ELSE Todo(u)
           /\ GiveUp(t) \/ Interrupted(t) \/ (Busy(t) /\ Continue(t, <<>>)) =>
                 OneAtMost(S)' /\ \A u \in Tasks : Todo(u)' = IF u = t THEN {} ELSE Todo(u)
<1>0. task \in [Tasks -> Seq(S)] /\ task[t] \in Seq(S) /\ Len(task[t]) \in {0, 1} /\ <<>> \in Seq(S)
  BY DEF OneAtMost
<1>1. Busy(t) => Len(task[t]) = 1
  BY <1>0 DEF Busy
<1>2. Busy(t) => Head(task[t]) \in S /\ Todo(t) = {Head(task[t])} /\ Tail(task[t]) = <<>>
  BY <1>0, <1>1, OneLeft DEF Todo
<1>3. ASSUME NEW list \in Seq(S), Len(list) \in {0, 1}, task' = [task EXCEPT ![t] = list]
      PROVE  OneAtMost(S)' /\ \A u \in Tasks : Todo(u)' = IF u = t THEN Elems(list) ELSE Todo(u)
  <2>1. task' \in [Tasks -> Seq(S)] /\ task'[t] = list /\ \A u \in Tasks : u # t => task'[u] = task[u]
    BY <1>0, <1>3
  <2>2. \A u \in Tasks : Todo(u)' = Elems(task'[u])
    BY DEF Todo, Elems
  <2>. QED
    BY <1>3, <2>1, <2>2 DEF OneAtMost, Todo
<1>4. ASSUME NEW o \in S, Begin(t, <<o>>) \/ (Busy(t) /\ Continue(t, <<o>>))
      PROVE  OneAtMost(S)' /\ \A u \in Tasks : Todo(u)' = IF u = t THEN {o} ELSE Todo(u)
  <2>1. <<o>> \in Seq(S) /\ Len(<<o>>) = 1 /\ <<o>> \o <<>> = <<o>>
    OBVIOUS
  <2>2. task' = [task EXCEPT ![t] = <<o>>]
    BY <1>2, <1>4, <2>1 DEF Begin, Continue
  <2>3. Elems(<<o>>) = {o}
    BY ShortLists
  <2>. QED
    BY <1>3, <2>1, <2>2, <2>3
<1>5. ASSUME GiveUp(t) \/ Interrupted(t) \/ (Busy(t) /\ Continue(t, <<>>))
      PROVE  OneAtMost(S)' /\ \A u \in Tasks : Todo(u)' = IF u = t THEN {} ELSE Todo(u)
  <2>1. <<>> \in Seq(S) /\ Len(<<>>) = 0 /\ <<>> \o <<>> = <<>>
    OBVIOUS
  <2>2. task' = [task EXCEPT ![t] = <<>>]
    BY <1>2, <1>5, <2>1 DEF GiveUp, Interrupted, Continue
  <2>3. Elems(<<>>) = {}
    BY ShortLists
  <2>. QED
    BY <1>3, <2>1, <2>2, <2>3
<1>6. Todo(t) \subseteq S
  BY <1>0 DEF Todo, Elems
<1>. QED
  BY <1>2, <1>4, <1>5, <1>6

-----------------------------------------------------------------------------
(* Rate limits. *)

\* The window of a key: it expires within Window seconds, and what was granted
\* since it was made is neither more than was counted nor more than the limit.
LimitInv ==
    /\ second \in Nat /\ granted \in Nat
    /\ counter = None => granted = 0
    /\ counter # None => /\ counter \in [count : Nat, expires : Nat]
                         /\ counter.expires \in (second + 1)..(second + Window)
                         /\ granted <= counter.count /\ granted <= Limit

\* LimitInv is what RateLimit starts with and keeps, and it implies RefusalEnds.
LEMMA LimitInvInit == RateLimitInit => LimitInv
BY DEF RateLimitInit, LimitInv

LEMMA LimitInvNext == LimitInv /\ RateLimitNext => LimitInv'
<1>. SUFFICES ASSUME LimitInv, RateLimitNext PROVE LimitInv'
  OBVIOUS
<1>. USE RateLimitAssumption DEF LimitInv
<1>1. CASE UNCHANGED <<second, counter, granted>>
  BY <1>1
<1>2. CASE reset_rate_limit
  BY <1>2 DEF reset_rate_limit
<1>3. ASSUME NEW t \in Tasks, check_rate_limit(t) PROVE LimitInv'
  <2>. DEFINE n == CountOf(counter) + 1
              e == IF counter = None THEN second + Window ELSE counter.expires
  <2>1. counter' = [count |-> n, expires |-> e]
    BY <1>3 DEF check_rate_limit, Incremented
  <2>2. /\ n \in Nat /\ e \in Nat /\ granted + 1 <= n
        /\ e \in (second + 1)..(second + Window) /\ granted <= Limit
    BY DEF CountOf
  <2>3. second' = second /\ granted' = IF n <= Limit THEN granted + 1 ELSE granted
    BY <1>3, <2>1 DEF check_rate_limit
  <2>. HIDE DEF n, e
  <2>4. counter' \in [count : Nat, expires : Nat] /\ counter'.count = n /\ counter'.expires = e
    BY <2>1, <2>2
  <2>. QED
    BY <2>2, <2>3, <2>4
<1>4. CASE SecondPasses
  <2>1. CASE counter = None
    BY <1>4, <2>1 DEF SecondPasses
  <2>2. CASE counter # None /\ counter.expires = second + 1
    BY <1>4, <2>2 DEF SecondPasses
  <2>3. CASE counter # None /\ counter.expires # second + 1
    <3>1. counter' = counter /\ granted' = granted /\ second' = second + 1
      BY <1>4, <2>3 DEF SecondPasses
    <3>. QED
      BY <2>3, <3>1
  <2>. QED
    BY <2>1, <2>2, <2>3
<1>. QED
  BY <1>1, <1>2, <1>3, <1>4
     DEF RateLimitNext, RateLimitVars, get_rate_limit_status, ReadTtl, check_login, CountLogins, AddLogin, ExpireLogins

\* The counter of an entity expires at most a window after its first request, and no more than the limit
\* is granted until then, for any limit, window and number of requests (services/rate_limit.rs,
\* RATE_LIMIT_SCRIPT).
THEOREM RefusalEndsAlways == WorkspaceSpec => []RefusalEnds
<1>1. WorkspaceInit => LimitInv
  BY LimitInvInit DEF WorkspaceInit
<1>2. LimitInv /\ [WorkspaceNext]_WorkspaceVars => LimitInv'
  <2>. SUFFICES ASSUME LimitInv, [WorkspaceNext]_WorkspaceVars PROVE LimitInv'
    OBVIOUS
  <2>1. CASE UNCHANGED RateLimitVars
    BY <2>1 DEF LimitInv, RateLimitVars
  <2>2. CASE RateLimitNext
    BY <2>2, LimitInvNext
  <2>. QED
    BY <2>1, <2>2, AreaSteps
<1>3. LimitInv => RefusalEnds
  BY RateLimitAssumption DEF LimitInv, RefusalEnds
<1>. QED
  BY <1>1, <1>2, <1>3, PTL DEF WorkspaceSpec

-----------------------------------------------------------------------------
(* Quiet hours. *)

\* Remainders by Day of what is less than a day from the days around midnight.
LEMMA Remainders ==
    ASSUME NEW x \in Int
    PROVE  /\ x \in 0 .. Day - 1 => x % Day = x
           /\ x \in -Day .. -1 => x % Day = x + Day
           /\ x \in Day .. 2 * Day - 1 => x % Day = x - Day
<1>. USE DayAssumption
<1>1. ASSUME NEW q \in Int, NEW r \in 0 .. Day - 1, x = q * Day + r PROVE x % Day = r
  BY <1>1
<1>2. x = 0 * Day + x /\ x = (-1) * Day + (x + Day) /\ x = 1 * Day + (x - Day)
  OBVIOUS
<1>3. x \in 0 .. Day - 1 => x % Day = x
  BY <1>1, <1>2
<1>4. x \in -Day .. -1 => x % Day = x + Day
  <2>1. x \in -Day .. -1 => x + Day \in 0 .. Day - 1
    OBVIOUS
  <2>. QED
    BY <1>1, <1>2, <2>1
<1>5. x \in Day .. 2 * Day - 1 => x % Day = x - Day
  <2>1. x \in Day .. 2 * Day - 1 => x - Day \in 0 .. Day - 1
    OBVIOUS
  <2>. QED
    BY <1>1, <1>2, <2>1
<1>. QED
  BY <1>3, <1>4, <1>5

\* The times are those of a day, and send_after is what calculate_send_after makes of them.
QuietInv ==
    /\ {start, end, now} \subseteq TimeOfDay
    /\ send_after \in {Unset, calculate_send_after(start, end, now)}

\* What calculate_send_after returns, for any length of the day.
LEMMA SendAfterIsOutside ==
    ASSUME NEW s \in TimeOfDay, NEW e \in TimeOfDay, NEW t \in TimeOfDay, s # e
    PROVE  LET x == calculate_send_after(s, e, t) IN
           IF Quiet(s, e, t) THEN x # NotHeld /\ x > t /\ ~Quiet(s, e, x % Day) ELSE x = NotHeld
<1>. USE DayAssumption DEF TimeOfDay
<1>. DEFINE a == (t - s) % Day
            b == (e - s) % Day
<1>1. a = (IF s <= t THEN t - s ELSE t - s + Day) /\ b = (IF s <= e THEN e - s ELSE e - s + Day)
  <2>1. t - s \in Int /\ e - s \in Int
    OBVIOUS
  <2>. QED
    BY <2>1, Remainders
<1>2. Quiet(s, e, t) <=> in_quiet_hours(s, e, t)
  <2>. HIDE DEF a, b
  <2>1. Quiet(s, e, t) <=> a < b
    BY DEF Quiet, a, b
  <2>. QED
    BY <1>1, <2>1 DEF in_quiet_hours
<1>3. ASSUME in_quiet_hours(s, e, t)
      PROVE  LET x == t + minutes_until_end(s, e, t) IN x \in {e, Day + e} /\ x \in Int /\ x > t
  BY <1>3 DEF in_quiet_hours, minutes_until_end
<1>4. e % Day = e /\ (Day + e) % Day = e
  <2>1. Day + e \in Int /\ Day + e \in Day .. 2 * Day - 1 /\ e \in Int /\ Day + e - Day = e
    OBVIOUS
  <2>. QED
    BY <2>1, Remainders
<1>5. ~Quiet(s, e, e)
  <2>1. b \in Int
    BY <1>1
  <2>. QED
    BY <2>1 DEF Quiet
<1>. QED
  BY <1>2, <1>3, <1>4, <1>5 DEF calculate_send_after

\* An email is held back exactly when it is enqueued in quiet hours, to a moment that is later and is
\* outside of them, whatever the length of the day and wherever midnight falls
\* (email_service.rs, calculate_send_after).
THEOREM HeldUntilOutsideAlways == WorkspaceSpec => []HeldUntilOutside
<1>1. WorkspaceInit => QuietInv
  BY DEF WorkspaceInit, QuietInit, QuietInv
<1>2. QuietInv /\ [WorkspaceNext]_WorkspaceVars => QuietInv'
  <2>. SUFFICES ASSUME QuietInv, [WorkspaceNext]_WorkspaceVars PROVE QuietInv'
    OBVIOUS
  <2>1. UNCHANGED <<start, end, now>> /\ send_after' \in {send_after, calculate_send_after(start, end, now)}
    BY AreaSteps DEF Hold, QuietVars
  <2>2. calculate_send_after(start, end, now)' = calculate_send_after(start, end, now)
    BY <2>1 DEF calculate_send_after, in_quiet_hours, minutes_until_end
  <2>. QED
    BY <2>1, <2>2 DEF QuietInv, TimeOfDay
<1>3. QuietInv => HeldUntilOutside
  <2>. SUFFICES ASSUME QuietInv, send_after # Unset, start # end
                PROVE  IF Quiet(start, end, now)
                       THEN send_after # NotHeld /\ send_after > now /\ ~Quiet(start, end, send_after % Day)
                       ELSE send_after = NotHeld
    BY DEF HeldUntilOutside
  <2>. QED
    BY SendAfterIsOutside DEF QuietInv
<1>. QED
  BY <1>1, <1>2, <1>3, PTL DEF WorkspaceSpec

-----------------------------------------------------------------------------
(* Bookmarks. *)

BookmarkOps == {"update_bookmark", "sort_bookmark", "delete_bookmark"}
BookmarkTold == {"created", "updated", "sorted", "deleted"}
BookmarkStmt ==
    [do : BookmarkOps \cup {"insert_bookmark"}, x : BookmarkIds] \cup [do : {"tell"}, x : [event : BookmarkTold, b : BookmarkIds]]

\* A request of this area has at most one statement left.  An insertion under way is the only one of its
\* bookmark, which has no row yet; the other requests began with a row; and a row that was deleted is
\* the one that was shown last, marked as deleted.
BookmarkRows ==
    /\ channel_bookmarks \in [BookmarkIds -> BookmarkRow \cup {None}]
    /\ lastShown \in [BookmarkIds -> BookmarkRow \cup {None}]
    /\ \A b \in BookmarkIds : lastShown[b] # None => channel_bookmarks[b] = lastShown[b] /\ lastShown[b].delete_at = 1
BookmarkPending ==
    \A t \in Tasks : \A o \in Todo(t) :
        /\ o.do = "insert_bookmark" => channel_bookmarks[o.x] = None /\ \A u \in Tasks : o \in Todo(u) => u = t
        /\ o.do \in BookmarkOps => channel_bookmarks[o.x] # None
BookmarkInv == OneAtMost(BookmarkStmt) /\ BookmarkRows /\ BookmarkPending

\* BookmarkPending depends only on the statements left and on which rows there are.
LEMMA BookmarkPendingKept ==
    ASSUME BookmarkInv, NEW t \in Tasks,
           \A b \in BookmarkIds : channel_bookmarks[b] = None <=> channel_bookmarks'[b] = None,
           \A u \in Tasks \ {t} : Todo(u)' = Todo(u),
           \A p \in Todo(t)' : p.do = "tell"
    PROVE  BookmarkPending'
<1>1. \A u \in Tasks : \A p \in Todo(u)' : p.do = "tell" \/ (u # t /\ p \in Todo(u))
  OBVIOUS
<1>2. \A u \in Tasks : \A p \in Todo(u) : p.do # "tell" => p.x \in BookmarkIds
  <2>1. \A u \in Tasks : Todo(u) \subseteq BookmarkStmt
    BY OneAtMostSteps DEF BookmarkInv
  <2>. QED
    BY <2>1 DEF BookmarkStmt
<1>. QED
  BY <1>1, <1>2 DEF BookmarkInv, BookmarkPending, BookmarkOps

\* Between the statements: a request starts with one statement, is cut short, or is one of the owner's
\* moves; no row is written.
LEMMA BookmarkRequests ==
    ASSUME BookmarkInv, NEW t \in Tasks, BookmarkRequest(t) \/ (Interrupted(t) /\ UNCHANGED BookmarkVars)
    PROVE  BookmarkInv'
<1>. USE DEF BookmarkInv
<1>0. BookmarkRows' /\ channel_bookmarks' = channel_bookmarks
  BY DEF BookmarkRows, BookmarkRequest, BookmarkVars, OwnerMoves, create_bookmark, update_bookmark,
         reorder_bookmark, delete_bookmark
<1>1. ASSUME NEW b \in BookmarkIds, NEW do \in BookmarkOps, Kept(b), Begin(t, <<Stmt(do, b)>>)
      PROVE  OneAtMost(BookmarkStmt)' /\ BookmarkPending'
  <2>. DEFINE o == Stmt(do, b)
  <2>1. o \in BookmarkStmt /\ o.do = do /\ o.x = b /\ o.do # "insert_bookmark" /\ channel_bookmarks[b] # None
    BY <1>1 DEF Stmt, BookmarkStmt, BookmarkOps, Kept
  <2>2. Begin(t, <<o>>)
    BY <1>1
  <2>. HIDE DEF o
  <2>3. OneAtMost(BookmarkStmt)' /\ \A u \in Tasks : Todo(u)' = IF u = t THEN {o} ELSE Todo(u)
    BY <2>1, <2>2, OneAtMostSteps
  <2>. QED
    BY <1>0, <2>1, <2>3 DEF BookmarkPending
<1>2. ASSUME NEW b \in BookmarkIds, create_bookmark(t, b)
      PROVE  OneAtMost(BookmarkStmt)' /\ BookmarkPending'
  <2>. DEFINE o == Stmt("insert_bookmark", b)
  <2>1. /\ o \in BookmarkStmt /\ o.do = "insert_bookmark" /\ o.x = b /\ channel_bookmarks[b] = None
        /\ o.do \notin BookmarkOps
    BY <1>2 DEF Stmt, BookmarkStmt, BookmarkOps, create_bookmark
  <2>2. Begin(t, <<o>>) /\ \A u \in Tasks : o \notin Todo(u)
    BY <1>2 DEF create_bookmark, Todo, Elems
  <2>. HIDE DEF o
  <2>3. OneAtMost(BookmarkStmt)' /\ \A u \in Tasks : Todo(u)' = IF u = t THEN {o} ELSE Todo(u)
    BY <2>1, <2>2, OneAtMostSteps
  <2>. QED
    BY <1>0, <2>1, <2>2, <2>3 DEF BookmarkPending
<1>3. CASE OwnerMoves
  <2>1. task' = task
    BY <1>3 DEF OwnerMoves, Statement
  <2>2. \A u \in Tasks : Todo(u)' = Todo(u)
    BY <2>1 DEF Todo, Elems
  <2>. QED
    BY <1>0, <2>1, <2>2 DEF OneAtMost, BookmarkPending
<1>4. CASE Interrupted(t)
  <2>1. OneAtMost(BookmarkStmt)' /\ \A u \in Tasks : Todo(u)' = IF u = t THEN {} ELSE Todo(u)
    BY <1>4, OneAtMostSteps
  <2>. QED
    BY <1>0, <2>1 DEF BookmarkPending
<1>. QED
  BY <1>0, <1>1, <1>2, <1>3, <1>4
     DEF BookmarkRequest, BookmarkOps, update_bookmark, reorder_bookmark, delete_bookmark

\* A statement: the insertion writes a row where there was none, an edit one that is not deleted, and a
\* deletion marks the row, once for all.
LEMMA BookmarkSteps ==
    ASSUME BookmarkInv, NEW t \in Tasks, Busy(t), BookmarkStep(t, Head(task[t]))
    PROVE  BookmarkInv'
<1>. DEFINE o == Head(task[t])
<1>. USE DEF BookmarkInv
<1>1. o \in BookmarkStmt /\ Todo(t) = {o}
  BY OneAtMostSteps
<1>. HIDE DEF o
\* What a step leaves of the request is nothing or the event to tell.
<1>2. ASSUME NEW e \in BookmarkTold, NEW b \in BookmarkIds, broadcast_bookmark_event(t, e, b)
      PROVE  /\ OneAtMost(BookmarkStmt)' /\ \A p \in Todo(t)' : p.do = "tell"
             /\ \A u \in Tasks \ {t} : Todo(u)' = Todo(u)
  <2>. DEFINE p == Stmt("tell", [event |-> e, b |-> b])
  <2>1. p \in BookmarkStmt /\ p.do = "tell" /\ Continue(t, <<p>>)
    BY <1>2 DEF broadcast_bookmark_event, Stmt, BookmarkStmt
  <2>. HIDE DEF p
  <2>2. OneAtMost(BookmarkStmt)' /\ \A u \in Tasks : Todo(u)' = IF u = t THEN {p} ELSE Todo(u)
    BY <2>1, OneAtMostSteps
  <2>. QED
    BY <2>1, <2>2
<1>3. ASSUME Continue(t, <<>>) \/ GiveUp(t)
      PROVE  /\ OneAtMost(BookmarkStmt)' /\ \A p \in Todo(t)' : p.do = "tell"
             /\ \A u \in Tasks \ {t} : Todo(u)' = Todo(u)
  BY <1>3, OneAtMostSteps
<1>4. CASE Tell(t, o)
  <2>1. Continue(t, <<>>) /\ UNCHANGED <<channel_bookmarks, lastShown>>
    BY <1>4 DEF Tell
  <2>2. BookmarkPending'
    BY <1>3, <2>1, BookmarkPendingKept
  <2>. QED
    BY <1>3, <2>1, <2>2 DEF BookmarkRows
<1>5. CASE InsertBookmark(t, o)
  <2>. DEFINE r == [edited |-> FALSE, sort_order |-> 0, delete_at |-> 0]
  <2>1. r \in BookmarkRow
    BY DEF BookmarkRow
  <2>2. /\ channel_bookmarks' = [channel_bookmarks EXCEPT ![o.x] = r] /\ lastShown' = lastShown
        /\ o.do = "insert_bookmark" /\ o.x \in BookmarkIds
        /\ broadcast_bookmark_event(t, "created", o.x)
    BY <1>1, <1>5 DEF InsertBookmark, BookmarkStmt
  <2>. HIDE DEF r
  <2>3. /\ OneAtMost(BookmarkStmt)' /\ \A p \in Todo(t)' : p.do = "tell"
        /\ \A u \in Tasks \ {t} : Todo(u)' = Todo(u)
    BY <1>2, <2>2 DEF BookmarkTold
  <2>4. channel_bookmarks[o.x] = None
    BY <1>1, <2>2 DEF BookmarkPending
  <2>5. BookmarkRows'
    BY <2>1, <2>2, <2>4, BookmarksAssumption DEF BookmarkRows
  <2>6. ASSUME NEW u \in Tasks, NEW p \in Todo(u), u # t, p.do # "tell" PROVE p.x \in BookmarkIds /\ p.x # o.x
    <3>1. p \in [do : BookmarkOps \cup {"insert_bookmark"}, x : BookmarkIds]
      BY <2>6, OneAtMostSteps DEF BookmarkStmt
    <3>2. o \in [do : BookmarkOps \cup {"insert_bookmark"}, x : BookmarkIds]
      BY <1>1, <2>2 DEF BookmarkStmt
    <3>3. p.do = o.do /\ p.x = o.x => p = o
      BY <3>1, <3>2
    <3>4. p # o
      BY <1>1, <2>2, <2>6 DEF BookmarkPending
    <3>5. p.do \in BookmarkOps => channel_bookmarks[p.x] # None
      BY DEF BookmarkPending
    <3>. QED
      BY <2>2, <2>4, <3>1, <3>3, <3>4, <3>5
  <2>7. BookmarkPending'
    <3>. SUFFICES ASSUME NEW u \in Tasks, NEW p \in Todo(u)', p.do # "tell"
                  PROVE  /\ p.do = "insert_bookmark" =>
                               channel_bookmarks'[p.x] = None /\ \A v \in Tasks : p \in Todo(v)' => v = u
                         /\ p.do \in BookmarkOps => channel_bookmarks'[p.x] # None
      BY DEF BookmarkPending, BookmarkOps
    <3>1. u # t /\ p \in Todo(u) /\ p.x \in BookmarkIds /\ p.x # o.x
      BY <2>3, <2>6
    <3>2. channel_bookmarks'[p.x] = channel_bookmarks[p.x]
      BY <2>2, <3>1 DEF BookmarkRows
    <3>3. \A v \in Tasks : p \in Todo(v)' => p \in Todo(v)
      BY <2>3
    <3>. QED
      BY <3>1, <3>2, <3>3 DEF BookmarkPending
  <2>. QED
    BY <2>3, <2>5, <2>7
\* A row is written over a row, and lastShown keeps agreeing with it.
<1>6. ASSUME NEW e \in BookmarkTold, NEW b \in BookmarkIds, NEW r \in BookmarkRow, channel_bookmarks[b] # None,
             channel_bookmarks' = [channel_bookmarks EXCEPT ![b] = r], broadcast_bookmark_event(t, e, b), BookmarkRows'
      PROVE  BookmarkInv'
  <2>1. \A c \in BookmarkIds : channel_bookmarks[c] = None <=> channel_bookmarks'[c] = None
    BY <1>6, BookmarksAssumption DEF BookmarkRows
  <2>2. /\ OneAtMost(BookmarkStmt)' /\ \A p \in Todo(t)' : p.do = "tell"
        /\ \A u \in Tasks \ {t} : Todo(u)' = Todo(u)
    BY <1>2, <1>6
  <2>3. BookmarkPending'
    BY <2>1, <2>2, BookmarkPendingKept
  <2>. QED
    BY <1>6, <2>2, <2>3
<1>7. ASSUME NEW e \in BookmarkTold, NEW r, o.do \in BookmarkOps, Edit(t, o.x, e, r),
             channel_bookmarks[o.x] \in BookmarkRow => r \in BookmarkRow
      PROVE  BookmarkInv'
  <2>1. o.x \in BookmarkIds /\ lastShown' = lastShown
    BY <1>1, <1>7 DEF BookmarkStmt, BookmarkOps, Edit
  <2>2. CASE Kept(o.x)
    <3>1. /\ channel_bookmarks' = [channel_bookmarks EXCEPT ![o.x] = r] /\ broadcast_bookmark_event(t, e, o.x)
          /\ channel_bookmarks[o.x] \in BookmarkRow /\ channel_bookmarks[o.x].delete_at = 0 /\ channel_bookmarks[o.x] # None
      BY <1>7, <2>1, <2>2 DEF Edit, Kept, BookmarkRows
    <3>2. r \in BookmarkRow /\ lastShown[o.x] = None
      BY <1>7, <2>1, <3>1 DEF BookmarkRows
    <3>3. BookmarkRows'
      BY <2>1, <3>1, <3>2 DEF BookmarkRows
    <3>. QED
      BY <1>6, <2>1, <3>1, <3>2, <3>3
  <2>3. CASE ~Kept(o.x)
    <3>1. GiveUp(t) /\ channel_bookmarks' = channel_bookmarks
      BY <1>7, <2>3 DEF Edit
    <3>2. BookmarkPending'
      BY <1>3, <3>1, BookmarkPendingKept
    <3>. QED
      BY <1>3, <2>1, <3>1, <3>2 DEF BookmarkRows
  <2>. QED
    BY <2>2, <2>3
<1>8. CASE UpdateBookmark(t, o)
  <2>. DEFINE r == [channel_bookmarks[o.x] EXCEPT !.edited = TRUE]
  <2>1. channel_bookmarks[o.x] \in BookmarkRow => r \in BookmarkRow
    BY DEF BookmarkRow
  <2>2. o.do \in BookmarkOps /\ Edit(t, o.x, "updated", r)
    BY <1>8 DEF UpdateBookmark, BookmarkOps
  <2>. HIDE DEF r
  <2>. QED
    BY <1>7, <2>1, <2>2 DEF BookmarkTold
<1>9. CASE SortBookmark(t, o)
  <2>. DEFINE r == [channel_bookmarks[o.x] EXCEPT !.sort_order = 1]
  <2>1. channel_bookmarks[o.x] \in BookmarkRow => r \in BookmarkRow
    BY DEF BookmarkRow
  <2>2. o.do \in BookmarkOps /\ Edit(t, o.x, "sorted", r)
    BY <1>9 DEF SortBookmark, BookmarkOps
  <2>. HIDE DEF r
  <2>. QED
    BY <1>7, <2>1, <2>2 DEF BookmarkTold
<1>10. CASE SoftDeleteBookmark(t, o)
  <2>. DEFINE r == [channel_bookmarks[o.x] EXCEPT !.delete_at = 1]
  <2>1. /\ o.x \in BookmarkIds /\ channel_bookmarks[o.x] # None /\ channel_bookmarks[o.x] \in BookmarkRow
        /\ broadcast_bookmark_event(t, "deleted", o.x)
    BY <1>1, <1>10 DEF SoftDeleteBookmark, BookmarkStmt, BookmarkOps, BookmarkPending, BookmarkRows
  <2>2. r \in BookmarkRow /\ r.delete_at = 1
    BY <2>1 DEF BookmarkRow
  <2>3. channel_bookmarks[o.x].delete_at = 1 => r = channel_bookmarks[o.x]
    BY <2>1 DEF BookmarkRow
  <2>4. channel_bookmarks' = [channel_bookmarks EXCEPT ![o.x] = r]
    BY <1>10 DEF SoftDeleteBookmark
  <2>. HIDE DEF r
  <2>5. lastShown' = [lastShown EXCEPT ![o.x] = IF lastShown[o.x] = None THEN r ELSE lastShown[o.x]]
    BY <1>10, <2>1, <2>4 DEF SoftDeleteBookmark, BookmarkRows
  <2>6. BookmarkRows'
    BY <2>1, <2>2, <2>3, <2>4, <2>5, BookmarksAssumption DEF BookmarkRows
  <2>. QED
    BY <1>6, <2>1, <2>2, <2>4, <2>6 DEF BookmarkTold
<1>. QED
  BY <1>4, <1>5, <1>8, <1>9, <1>10 DEF BookmarkStep, o

\* A deleted bookmark stays as it was, for any number of bookmarks and of requests at once
\* (channel_bookmarks.rs, update_bookmark and reorder_bookmark).
THEOREM DeletedBookmarkIsFinalAlways == WorkspaceSpec => []DeletedBookmarkIsFinal
<1>. DEFINE Inv == DeletedBookmarkIsFinal /\ (area = "bookmarks" => BookmarkInv)
<1>1. WorkspaceInit => Inv
  <2>. SUFFICES ASSUME RequestsInit, BookmarksInit PROVE BookmarkInv /\ DeletedBookmarkIsFinal
    BY DEF WorkspaceInit
  <2>1. OneAtMost(BookmarkStmt)
    BY DEF RequestsInit, OneAtMost
  <2>2. \A t \in Tasks : Todo(t) = {}
    BY ShortLists DEF RequestsInit, Todo
  <2>. QED
    BY <2>1, <2>2 DEF BookmarkInv, BookmarksInit, BookmarkRows, BookmarkPending, DeletedBookmarkIsFinal
<1>2. Inv /\ [WorkspaceNext]_WorkspaceVars => Inv'
  <2>. SUFFICES ASSUME Inv, [WorkspaceNext]_WorkspaceVars PROVE Inv'
    OBVIOUS
  <2>1. CASE area # "bookmarks"
    BY <2>1, AreaSteps DEF DeletedBookmarkIsFinal, BookmarkVars
  <2>2. CASE area = "bookmarks"
    <3>1. BookmarkInv'
      <4>1. CASE UNCHANGED <<RequestVars, BookmarkVars>>
        <5>1. UNCHANGED <<task, channel_bookmarks, lastShown>> /\ \A t \in Tasks : Todo(t)' = Todo(t)
          BY <4>1 DEF RequestVars, BookmarkVars, Todo, Elems
        <5>. QED
          BY <2>2, <5>1 DEF BookmarkInv, OneAtMost, BookmarkRows, BookmarkPending
      <4>2. CASE BookmarksNext
        BY <2>2, <4>2, BookmarkRequests, BookmarkSteps DEF BookmarksNext
      <4>. QED
        BY <2>2, <4>1, <4>2, AreaSteps
    <3>. QED
      BY <3>1 DEF BookmarkInv, BookmarkRows, DeletedBookmarkIsFinal
  <2>. QED
    BY <2>1, <2>2
<1>. QED
  BY <1>1, <1>2, PTL DEF WorkspaceSpec

-----------------------------------------------------------------------------
(* Terms of service. *)

TermsStmt ==
    [do : {"read_acceptance", "insert_acceptance"}, x : TermsUsers \X TermsIds]
    \cup [do : {"delete_terms", "count_users"}, x : TermsIds]
    \cup [do : {"update_terms"}, x : [i : TermsIds, date : TermsDates]]
    \cup [do : {"activate_terms"}, x : [i : TermsIds, others : SUBSET TermsIds]]
    \cup [do : {"count_accepted"}, x : [i : TermsIds, total : {Cardinality(r) : r \in SUBSET TermsUsers}]]

\* A version that is there was made once, and who was thanked accepted a version that was made: an
\* identifier that is not used yet is in no acceptance.
TermsRows ==
    /\ terms_of_service \in [TermsIds -> TermsRow \cup {None}]
    /\ registered \subseteq TermsUsers
    /\ \A i \in TermsIds : terms_of_service[i] # None => i \in usedTerms
    /\ thanked \subseteq TermsUsers \X TermsIds
    /\ \A p \in thanked : p[2] \in usedTerms
    /\ user_terms_acceptance \subseteq TermsUsers \X TermsIds
TermsInv == OneAtMost(TermsStmt) /\ TermsRows /\ AcceptanceStands

\* An edit or an activation writes rows over rows and takes none away.
LEMMA TermsEdited ==
    ASSUME TermsRows, AcceptanceStands, NEW table \in [TermsIds -> TermsRow \cup {None}], SetTerms(table),
           \A i \in TermsIds : table[i] = None <=> terms_of_service[i] = None
    PROVE  TermsRows' /\ AcceptanceStands'
BY DEF SetTerms, TermsRows, AcceptanceStands, Stands

\* The trigger takes the active flag of rows and no row.
LEMMA TriggerKeepsRows ==
    ASSUME NEW table \in [TermsIds -> TermsRow \cup {None}], NEW others
    PROVE  LET new == enforce_single_active_terms(table, others) IN
           new \in [TermsIds -> TermsRow \cup {None}] /\ \A i \in TermsIds : new[i] = None <=> table[i] = None
<1>. DEFINE off(r) == [r EXCEPT !.is_active = FALSE]
<1>1. \A r \in TermsRow : off(r) \in TermsRow
  BY DEF TermsRow
<1>2. enforce_single_active_terms(table, others) =
         [i \in TermsIds |-> IF i \in others /\ table[i] # None THEN off(table[i]) ELSE table[i]]
  BY DEF enforce_single_active_terms
<1>. HIDE DEF off
<1>. QED
  BY <1>1, <1>2, TermsAssumption

\* Requests begin with a check and write nothing but new versions and closed accounts.
LEMMA TermsRequests ==
    ASSUME TermsInv, NEW t \in Tasks, TermsRequest(t) \/ (Interrupted(t) /\ UNCHANGED TermsVars)
    PROVE  TermsInv'
<1>. DEFINE Same == UNCHANGED <<terms_of_service, user_terms_acceptance, registered, usedTerms, thanked>>
<1>0. Same => TermsRows' /\ AcceptanceStands'
  BY DEF TermsInv, TermsRows, AcceptanceStands, Stands
<1>1. ASSUME NEW o \in TermsStmt, Begin(t, <<o>>), Same PROVE TermsInv'
  BY <1>0, <1>1, OneAtMostSteps DEF TermsInv
<1>2. Statement => OneAtMost(TermsStmt)'
  BY DEF Statement, OneAtMost, TermsInv
<1>3. CurrentTerms \subseteq TermsIds /\ ActiveTerms \subseteq TermsIds
  BY DEF CurrentTerms, ActiveTerms
<1>4. ASSUME NEW u \in registered, get_terms_status(t, u) PROVE TermsInv'
  <2>1. \A i \in TermsIds : Stmt("read_acceptance", <<u, i>>) \in TermsStmt
    BY <1>4 DEF Stmt, TermsStmt, TermsInv, TermsRows
  <2>. QED
    BY <1>0, <1>1, <1>2, <1>3, <1>4, <2>1 DEF get_terms_status, TermsVars, TermsInv
<1>5. ASSUME NEW u \in registered, AccountCloses(u) PROVE TermsInv'
  BY <1>2, <1>5 DEF AccountCloses, TermsInv, TermsRows, AcceptanceStands, Stands
<1>6. ASSUME NEW u \in registered, NEW i \in TermsIds, accept_terms(t, u, i) PROVE TermsInv'
  <2>1. Stmt("insert_acceptance", <<u, i>>) \in TermsStmt
    BY <1>6 DEF Stmt, TermsStmt, TermsInv, TermsRows
  <2>. QED
    BY <1>1, <1>6, <2>1 DEF accept_terms, TermsVars
<1>7. ASSUME NEW i \in TermsIds, NEW d \in TermsDates, create_terms(i, d) PROVE TermsInv'
  <2>. DEFINE r == [is_active |-> FALSE, effective_date |-> d]
  <2>1. r \in TermsRow
    BY DEF TermsRow
  <2>2. /\ terms_of_service' = [terms_of_service EXCEPT ![i] = r]
        /\ i \notin usedTerms /\ usedTerms' = usedTerms \cup {i}
        /\ UNCHANGED <<user_terms_acceptance, registered, thanked>> /\ OneAtMost(TermsStmt)'
    BY <1>2, <1>7 DEF create_terms
  <2>. HIDE DEF r
  <2>3. TermsRows'
    BY <2>1, <2>2 DEF TermsInv, TermsRows
  <2>4. \A j \in TermsIds : j # i => (Stands(j)' <=> Stands(j))
    BY <2>2 DEF Stands, TermsInv, TermsRows
  <2>5. \A p \in thanked \cup user_terms_acceptance : p[2] \in TermsIds
    BY DEF TermsInv, TermsRows
  <2>6. \A p \in thanked \cup user_terms_acceptance : p[2] # i
    BY <2>2, <2>5 DEF TermsInv, TermsRows, AcceptanceStands, Stands
  <2>7. AcceptanceStands'
    BY <2>2, <2>4, <2>5, <2>6 DEF TermsInv, AcceptanceStands
  <2>. QED
    BY <2>2, <2>3, <2>7 DEF TermsInv
<1>8. ASSUME NEW i \in TermsIds, NEW d \in TermsDates, update_terms(t, i, d) PROVE TermsInv'
  <2>1. Stmt("update_terms", [i |-> i, date |-> d]) \in TermsStmt
    BY DEF Stmt, TermsStmt
  <2>. QED
    BY <1>1, <1>8, <2>1 DEF update_terms, TermsVars
<1>9. ASSUME NEW i \in TermsIds, delete_terms(t, i) PROVE TermsInv'
  <2>1. Stmt("delete_terms", i) \in TermsStmt
    BY DEF Stmt, TermsStmt
  <2>. QED
    BY <1>1, <1>9, <2>1 DEF delete_terms, TermsVars
<1>10. ASSUME NEW i \in TermsIds, activate_terms(t, i) PROVE TermsInv'
  <2>1. Stmt("activate_terms", [i |-> i, others |-> ActiveTerms \ {i}]) \in TermsStmt
    BY <1>3 DEF Stmt, TermsStmt
  <2>. QED
    BY <1>1, <1>10, <2>1 DEF activate_terms, TermsVars
<1>11. ASSUME NEW i \in TermsIds, get_terms_stats(i) PROVE TermsInv'
  BY <1>0, <1>2, <1>11 DEF get_terms_stats, TermsInv
<1>12. CASE get_all_terms_stats(t)
  <2>1. \A i \in TermsIds : Stmt("count_users", i) \in TermsStmt
    BY DEF Stmt, TermsStmt
  <2>. QED
    BY <1>1, <1>3, <1>12, <2>1 DEF get_all_terms_stats, TermsVars
<1>13. CASE Interrupted(t) /\ UNCHANGED TermsVars
  BY <1>0, <1>13, OneAtMostSteps DEF TermsInv, TermsVars
<1>. QED
  BY <1>4, <1>5, <1>6, <1>7, <1>8, <1>9, <1>10, <1>11, <1>12, <1>13 DEF TermsRequest

\* Statements: an acceptance is written only for terms that are there, and goes with them.
LEMMA TermsSteps ==
    ASSUME TermsInv, NEW t \in Tasks, Busy(t), TermsStep(t, Head(task[t]))
    PROVE  TermsInv'
<1>. DEFINE o == Head(task[t])
            Same == UNCHANGED <<terms_of_service, user_terms_acceptance, registered, usedTerms, thanked>>
<1>0. Same => TermsRows' /\ AcceptanceStands'
  BY DEF TermsInv, TermsRows, AcceptanceStands, Stands
<1>1. o \in TermsStmt
  BY OneAtMostSteps DEF TermsInv
<1>2. Continue(t, <<>>) \/ GiveUp(t) => OneAtMost(TermsStmt)'
  BY OneAtMostSteps DEF TermsInv
<1>. HIDE DEF o
<1>3. CASE ReadAcceptance(t, o)
  BY <1>0, <1>2, <1>3 DEF ReadAcceptance, TermsInv
<1>4. CASE InsertAcceptance(t, o)
  <2>1. o.x \in TermsUsers \X TermsIds /\ o.x[2] \in TermsIds
    BY <1>1, <1>4 DEF InsertAcceptance, TermsStmt
  <2>2. OneAtMost(TermsStmt)' /\ UNCHANGED <<terms_of_service, registered, usedTerms>>
    BY <1>2, <1>4 DEF InsertAcceptance
  <2>3. \/ UNCHANGED <<user_terms_acceptance, thanked>>
        \/ /\ Stands(o.x[2]) /\ user_terms_acceptance' = user_terms_acceptance \cup {o.x}
           /\ thanked' = thanked \cup {o.x}
    BY <1>4 DEF InsertAcceptance
  <2>4. TermsRows'
    BY <2>1, <2>2, <2>3 DEF TermsInv, TermsRows, Stands
  <2>5. \A i : Stands(i)' <=> Stands(i)
    BY <2>2 DEF Stands
  <2>6. AcceptanceStands'
    BY <2>3, <2>5 DEF TermsInv, AcceptanceStands
  <2>. QED
    BY <2>2, <2>4, <2>6 DEF TermsInv
<1>5. CASE UpdateTerms(t, o)
  <2>1. o.x \in [i : TermsIds, date : TermsDates]
    BY <1>1, <1>5 DEF UpdateTerms, TermsStmt
  <2>2. CASE ~Stands(o.x.i)
    BY <1>0, <1>2, <1>5, <2>2 DEF UpdateTerms, TermsVars, TermsInv
  <2>3. CASE Stands(o.x.i)
    <3>. DEFINE r == [terms_of_service[o.x.i] EXCEPT !.effective_date = o.x.date]
                table == [terms_of_service EXCEPT ![o.x.i] = r]
    <3>1. terms_of_service[o.x.i] \in TermsRow /\ o.x.i \in TermsIds /\ o.x.date \in TermsDates
      BY <2>1, <2>3 DEF TermsInv, TermsRows, Stands
    <3>2. r \in TermsRow
      BY <3>1 DEF TermsRow
    <3>3. /\ Continue(t, <<>>)
          /\ SetTerms(IF table[o.x.i].is_active THEN enforce_single_active_terms(table, ActiveTerms \ {o.x.i}) ELSE table)
      BY <1>5, <2>3 DEF UpdateTerms
    <3>. HIDE DEF r
    <3>4. table \in [TermsIds -> TermsRow \cup {None}] /\ \A i \in TermsIds : table[i] = None <=> terms_of_service[i] = None
      BY <2>3, <3>1, <3>2, TermsAssumption DEF TermsInv, TermsRows, Stands
    <3>. HIDE DEF table
    <3>5. PICK new \in [TermsIds -> TermsRow \cup {None}] :
             SetTerms(new) /\ \A i \in TermsIds : new[i] = None <=> table[i] = None
      BY <3>3, <3>4, TriggerKeepsRows
    <3>. QED
      BY <1>2, <3>3, <3>4, <3>5, TermsEdited DEF TermsInv
  <2>. QED
    BY <2>2, <2>3
<1>6. CASE DeleteTerms(t, o)
  <2>1. o.x \in TermsIds
    BY <1>1, <1>6 DEF DeleteTerms, TermsStmt
  <2>2. /\ terms_of_service' = [terms_of_service EXCEPT ![o.x] = None] /\ OneAtMost(TermsStmt)'
        /\ user_terms_acceptance' = {p \in user_terms_acceptance : p[2] # o.x}
        /\ UNCHANGED <<registered, usedTerms, thanked>>
    BY <1>2, <1>6 DEF DeleteTerms
  <2>3. TermsRows'
    BY <2>1, <2>2 DEF TermsInv, TermsRows
  <2>4. \A i \in TermsIds : Stands(i)' <=> i # o.x /\ Stands(i)
    BY <2>1, <2>2 DEF Stands, TermsInv, TermsRows
  <2>5. \A p \in thanked \cup user_terms_acceptance : p[2] \in TermsIds
    BY DEF TermsInv, TermsRows
  <2>6. AcceptanceStands'
    BY <2>2, <2>4, <2>5 DEF TermsInv, AcceptanceStands
  <2>. QED
    BY <2>2, <2>3, <2>6 DEF TermsInv
<1>7. CASE ActivateTerms(t, o)
  <2>1. o.x \in [i : TermsIds, others : SUBSET TermsIds]
    BY <1>1, <1>7 DEF ActivateTerms, TermsStmt
  <2>2. CASE ~Stands(o.x.i)
    BY <1>0, <1>2, <1>7, <2>2 DEF ActivateTerms, TermsVars, TermsInv
  <2>3. CASE Stands(o.x.i)
    <3>. DEFINE r == [terms_of_service[o.x.i] EXCEPT !.is_active = TRUE]
                table == [terms_of_service EXCEPT ![o.x.i] = r]
                new == enforce_single_active_terms(table, o.x.others)
    <3>1. terms_of_service[o.x.i] \in TermsRow /\ o.x.i \in TermsIds
      BY <2>1, <2>3 DEF TermsInv, TermsRows, Stands
    <3>2. r \in TermsRow
      BY <3>1 DEF TermsRow
    <3>3. Continue(t, <<>>) /\ SetTerms(new)
      BY <1>7, <2>3 DEF ActivateTerms
    <3>. HIDE DEF r
    <3>4. table \in [TermsIds -> TermsRow \cup {None}] /\ \A i \in TermsIds : table[i] = None <=> terms_of_service[i] = None
      BY <2>3, <3>1, <3>2, TermsAssumption DEF TermsInv, TermsRows, Stands
    <3>. HIDE DEF table
    <3>5. new \in [TermsIds -> TermsRow \cup {None}] /\ \A i \in TermsIds : new[i] = None <=> table[i] = None
      BY <3>4, TriggerKeepsRows
    <3>. HIDE DEF new
    <3>. QED
      BY <1>2, <3>3, <3>4, <3>5, TermsEdited DEF TermsInv
  <2>. QED
    BY <2>2, <2>3
<1>8. CASE CountUsers(t, o)
  <2>. DEFINE p == Stmt("count_accepted", [i |-> o.x, total |-> Cardinality(registered)])
  <2>1. o.x \in TermsIds /\ registered \in SUBSET TermsUsers
    BY <1>1, <1>8 DEF CountUsers, TermsStmt, TermsInv, TermsRows
  <2>2. p \in TermsStmt
    BY <2>1 DEF Stmt, TermsStmt
  <2>3. Continue(t, <<p>>) /\ Same
    BY <1>8 DEF CountUsers, TermsVars
  <2>. HIDE DEF p
  <2>. QED
    BY <1>0, <2>2, <2>3, OneAtMostSteps DEF TermsInv
<1>9. CASE CountAccepted(t, o)
  BY <1>0, <1>2, <1>9 DEF CountAccepted, TermsInv
<1>. QED
  BY <1>3, <1>4, <1>5, <1>6, <1>7, <1>8, <1>9 DEF TermsStep, o

\* Whoever was told that the terms are accepted has accepted them for as long as they exist, and no
\* acceptance outlives its terms, for any number of versions, users and requests at once
\* (terms_of_service.rs, accept_terms and delete_terms).
THEOREM AcceptanceStandsAlways == WorkspaceSpec => []AcceptanceStands
<1>. DEFINE Inv == AcceptanceStands /\ (area = "terms" => TermsInv)
<1>1. WorkspaceInit => Inv
  <2>. SUFFICES ASSUME RequestsInit, TermsInit PROVE TermsInv
    BY DEF WorkspaceInit, TermsInv
  <2>1. OneAtMost(TermsStmt)
    BY DEF RequestsInit, OneAtMost
  <2>. QED
    BY <2>1 DEF TermsInit, TermsInv, TermsRows, AcceptanceStands
<1>2. Inv /\ [WorkspaceNext]_WorkspaceVars => Inv'
  <2>. SUFFICES ASSUME Inv, [WorkspaceNext]_WorkspaceVars PROVE Inv'
    OBVIOUS
  <2>1. CASE area # "terms"
    BY <2>1, AreaSteps DEF AcceptanceStands, Stands, TermsVars
  <2>2. CASE area = "terms"
    <3>1. CASE UNCHANGED <<RequestVars, TermsVars>>
      BY <2>2, <3>1 DEF RequestVars, TermsVars, TermsInv, OneAtMost, TermsRows, AcceptanceStands, Stands
    <3>2. CASE TermsNext
      BY <2>2, <3>2, TermsRequests, TermsSteps DEF TermsNext, TermsInv
    <3>. QED
      BY <2>2, <3>1, <3>2, AreaSteps
  <2>. QED
    BY <2>1, <2>2
<1>. QED
  BY <1>1, <1>2, PTL DEF WorkspaceSpec

-----------------------------------------------------------------------------
(* Push notifications. *)

\* The statements a request may have left when the tokens in dead were called invalid.
PushStmt(dead) ==
    [do : {"push"}, x : [left : SUBSET Tokens, call : BOOLEAN]] \cup [do : {"delete_invalid"}, x : dead]

\* A device has its token in one of the two rows that only its own registrations write, no two devices
\* hold a token, and a token about to be deleted was called invalid.
PushRows ==
    /\ row \in [Devices \cup Tokens -> Tokens \cup {None}]
    /\ holds \in [Devices -> Tokens \cup {None}]
    /\ \A d, e \in Devices : holds[d] = holds[e] /\ holds[d] # None => d = e
    /\ \A d \in Devices \ unsaved :
          holds[d] # None => holds[d] \in refused \/ row[d] = holds[d] \/ row[holds[d]] = holds[d]
PushInv == task \in [Tasks -> Seq(PushStmt(refused))] /\ PushRows

\* Registrations and the requests that begin a round of notifications keep PushInv.
LEMMA PushRequests ==
    ASSUME PushInv, NEW t \in Tasks, PushRequest(t) \/ (Interrupted(t) /\ UNCHANGED PushVars)
    PROVE  PushInv'
<1>. DEFINE S == PushStmt(refused)
<1>0. refused' = refused
  BY DEF PushRequest, PushVars, attach_device, attach_without_token, detach_device, send_message_notification, send_push_to_user,
         send_call_ringing_notification, test_notifications, TokenRevoked, generate_jwt_token
<1>1. ASSUME task' \in [Tasks -> Seq(S)], PushRows' PROVE PushInv'
  BY <1>0, <1>1 DEF PushInv, PushStmt
<1>. HIDE DEF S
<1>2. Statement => task' \in [Tasks -> Seq(S)]
  BY DEF PushInv, Statement, S
<1>3. UNCHANGED <<row, holds, unsaved>> => PushRows'
  BY <1>0 DEF PushInv, PushRows
<1>4. ASSUME NEW d \in Devices, NEW k \in Tokens, NEW embedded \in BOOLEAN, NEW saved \in BOOLEAN,
             attach_device(d, k, embedded, saved)
      PROVE  PushInv'
  <2>. DEFINE id == IF embedded THEN k ELSE d
  <2>1. /\ \A e \in Devices : holds[e] # k
        /\ row' = IF saved THEN [row EXCEPT ![id] = k] ELSE row
        /\ unsaved' = IF saved THEN unsaved \ {d} ELSE unsaved \cup {d}
        /\ holds' = [holds EXCEPT ![d] = k] /\ Statement
    BY <1>4 DEF attach_device, parse_mobile_device_id
  <2>2. /\ holds' \in [Devices -> Tokens \cup {None}] /\ holds'[d] = k
        /\ \A e \in Devices : e # d => holds'[e] = holds[e]
    BY <2>1 DEF PushInv, PushRows
  <2>3. \A c, e \in Devices : holds'[c] = holds'[e] /\ holds'[c] # None => c = e
    BY <2>1, <2>2 DEF PushInv, PushRows
  <2>4. row' \in [Devices \cup Tokens -> Tokens \cup {None}]
    BY <2>1 DEF PushInv, PushRows
  <2>5. ASSUME NEW e \in Devices \ unsaved', holds'[e] # None, holds'[e] \notin refused
        PROVE  row'[e] = holds'[e] \/ row'[holds'[e]] = holds'[e]
    <3>1. CASE e = d
      BY <2>1, <2>2, <2>5, <3>1 DEF PushInv, PushRows
    <3>2. CASE e # d
      <4>1. e \in Devices \ unsaved /\ holds'[e] = holds[e] /\ holds[e] \in Tokens /\ holds[e] # k
        BY <2>1, <2>2, <2>5, <3>2 DEF PushInv, PushRows
      <4>2. row[e] = holds[e] \/ row[holds[e]] = holds[e]
        BY <2>5, <4>1 DEF PushInv, PushRows
      <4>3. e # id /\ holds[e] # id
        BY <3>2, <4>1, PushAssumption
      <4>4. row'[e] = row[e] /\ row'[holds[e]] = row[holds[e]]
        BY <2>1, <4>1, <4>3 DEF PushInv, PushRows
      <4>. QED
        BY <4>1, <4>2, <4>4
    <3>. QED
      BY <3>1, <3>2
  <2>6. PushRows'
    BY <1>0, <2>2, <2>3, <2>4, <2>5 DEF PushRows
  <2>. QED
    BY <1>1, <1>2, <2>1, <2>6
<1>5. ASSUME NEW d \in Devices, NEW id \in {d} \cup Tokens, detach_device(d, id) PROVE PushInv'
  <2>1. /\ holds[d] # None /\ id \in {d, holds[d]} /\ row[id] = holds[d]
        /\ row' = [row EXCEPT ![id] = None] /\ holds' = [holds EXCEPT ![d] = None]
        /\ unsaved' = unsaved /\ Statement
    BY <1>5 DEF detach_device
  <2>2. /\ holds' \in [Devices -> Tokens \cup {None}] /\ holds'[d] = None
        /\ \A e \in Devices : e # d => holds'[e] = holds[e]
    BY <2>1 DEF PushInv, PushRows
  <2>3. \A c, e \in Devices : holds'[c] = holds'[e] /\ holds'[c] # None => c = e
    BY <2>2 DEF PushInv, PushRows
  <2>4. row' \in [Devices \cup Tokens -> Tokens \cup {None}]
    BY <2>1 DEF PushInv, PushRows
  <2>5. ASSUME NEW e \in Devices \ unsaved', holds'[e] # None, holds'[e] \notin refused
        PROVE  row'[e] = holds'[e] \/ row'[holds'[e]] = holds'[e]
    <3>1. /\ e # d /\ e \in Devices \ unsaved /\ holds'[e] = holds[e] /\ holds[e] \in Tokens
          /\ holds[e] # holds[d] /\ holds[d] \in Tokens
      BY <2>1, <2>2, <2>5 DEF PushInv, PushRows
    <3>2. row[e] = holds[e] \/ row[holds[e]] = holds[e]
      BY <2>5, <3>1 DEF PushInv, PushRows
    <3>3. e # id /\ holds[e] # id
      BY <2>1, <3>1, PushAssumption
    <3>4. row'[e] = row[e] /\ row'[holds[e]] = row[holds[e]]
      BY <2>1, <3>1, <3>3 DEF PushInv, PushRows
    <3>. QED
      BY <3>1, <3>2, <3>4
  <2>6. PushRows'
    BY <1>0, <2>2, <2>3, <2>4, <2>5 DEF PushRows
  <2>. QED
    BY <1>1, <1>2, <2>1, <2>6
<1>10. ASSUME NEW d \in Devices, NEW saved \in BOOLEAN, attach_without_token(d, saved) PROVE PushInv'
  <2>1. /\ row' = IF saved THEN [row EXCEPT ![d] = None] ELSE row
        /\ holds' = [holds EXCEPT ![d] = None] /\ unsaved' = unsaved /\ Statement
    BY <1>10 DEF attach_without_token
  <2>2. /\ holds' \in [Devices -> Tokens \cup {None}] /\ holds'[d] = None
        /\ \A e \in Devices : e # d => holds'[e] = holds[e]
    BY <2>1 DEF PushInv, PushRows
  <2>3. \A c, e \in Devices : holds'[c] = holds'[e] /\ holds'[c] # None => c = e
    BY <2>2 DEF PushInv, PushRows
  <2>4. row' \in [Devices \cup Tokens -> Tokens \cup {None}]
    BY <2>1 DEF PushInv, PushRows
  <2>5. ASSUME NEW e \in Devices \ unsaved', holds'[e] # None, holds'[e] \notin refused
        PROVE  row'[e] = holds'[e] \/ row'[holds'[e]] = holds'[e]
    <3>1. e # d /\ e \in Devices \ unsaved /\ holds'[e] = holds[e] /\ holds[e] \in Tokens
      BY <2>1, <2>2, <2>5 DEF PushInv, PushRows
    <3>2. row[e] = holds[e] \/ row[holds[e]] = holds[e]
      BY <2>5, <3>1 DEF PushInv, PushRows
    <3>3. e # d /\ holds[e] # d
      BY <3>1, PushAssumption
    <3>4. row'[e] = row[e] /\ row'[holds[e]] = row[holds[e]]
      BY <2>1, <3>1, <3>3 DEF PushInv, PushRows
    <3>. QED
      BY <3>1, <3>2, <3>4
  <2>6. PushRows'
    BY <1>0, <2>2, <2>3, <2>4, <2>5 DEF PushRows
  <2>. QED
    BY <1>1, <1>2, <2>1, <2>6
<1>6. ASSUME NEW call \in BOOLEAN, send_push_to_user(t, call) PROVE PushInv'
  <2>. DEFINE o == Stmt("push", [left |-> get_user_devices, call |-> call])
  <2>1. get_user_devices \subseteq Tokens
    BY DEF get_user_devices, PushInv, PushRows
  <2>2. o \in S
    BY <2>1 DEF Stmt, PushStmt, S
  <2>3. Begin(t, <<o>>) /\ UNCHANGED <<row, holds, unsaved>>
    BY <1>6 DEF send_push_to_user, PushVars
  <2>. HIDE DEF o
  <2>4. <<o>> \in Seq(S) /\ task \in [Tasks -> Seq(S)]
    BY <2>2 DEF PushInv, S
  <2>5. task' \in [Tasks -> Seq(S)]
    BY <2>3, <2>4, TaskSteps
  <2>. QED
    BY <1>1, <1>3, <2>3, <2>5
<1>7. ASSUME NEW k \in Tokens, TokenRevoked(k) PROVE PushInv'
  BY <1>1, <1>2, <1>3, <1>7 DEF TokenRevoked
<1>8. ASSUME NEW old \in BOOLEAN, generate_jwt_token(old) PROVE PushInv'
  BY <1>1, <1>2, <1>3, <1>8 DEF generate_jwt_token
<1>9. CASE Interrupted(t) /\ UNCHANGED PushVars
  <2>1. <<>> \in Seq(S) /\ task \in [Tasks -> Seq(S)]
    BY DEF PushInv, S
  <2>2. task' \in [Tasks -> Seq(S)]
    BY <1>9, <2>1, TaskSteps
  <2>. QED
    BY <1>1, <1>3, <1>9, <2>2 DEF PushVars
<1>. QED
  BY <1>4, <1>5, <1>6, <1>7, <1>8, <1>9, <1>10
     DEF PushRequest, send_message_notification, send_call_ringing_notification, test_notifications

\* A notification to one device, and the deletion of a device whose token was called invalid.
LEMMA PushSteps ==
    ASSUME PushInv, NEW t \in Tasks, Busy(t), PushStep(t, Head(task[t]))
    PROVE  PushInv'
<1>. DEFINE o == Head(task[t])
            S == PushStmt(refused)
            R == PushStmt(refused')
<1>0. task \in [Tasks -> Seq(S)] /\ o \in S
  BY TaskLists DEF PushInv
<1>1. ASSUME task' \in [Tasks -> Seq(R)], PushRows' PROVE PushInv'
  BY <1>1 DEF PushInv, PushStmt
<1>2. refused \subseteq refused' => S \subseteq R
  BY DEF PushStmt
<1>. HIDE DEF o
<1>3. CASE SendToDevice(t, o)
  <2>1. PICK k \in o.x.left : \E answer \in send_push_notification(k, o.x.call) :
          /\ refused' = IF answer = "invalid" THEN refused \cup {k} ELSE refused
          /\ CASE answer = "not_configured" -> GiveUp(t)
               [] answer = "invalid" -> Continue(t, <<Stmt("delete_invalid", k)>> \o Rest(o, k))
               [] OTHER -> Continue(t, Rest(o, k))
    BY <1>3 DEF SendToDevice
  <2>2. o.x \in [left : SUBSET Tokens, call : BOOLEAN] /\ UNCHANGED <<row, holds, unsaved>>
    BY <1>0, <1>3 DEF SendToDevice, PushStmt
  <2>3. refused \subseteq refused' /\ S \subseteq R
    BY <1>2, <2>1
  <2>4. Rest(o, k) \in Seq(R)
    <3>. DEFINE x == [o.x EXCEPT !.left = o.x.left \ {k}]
    <3>1. x \in [left : SUBSET Tokens, call : BOOLEAN]
      BY <2>2
    <3>2. Stmt("push", x) \in R
      BY <3>1 DEF Stmt, PushStmt
    <3>3. Rest(o, k) \in {<<>>, <<Stmt("push", x)>>}
      BY DEF Rest
    <3>. HIDE DEF x, R
    <3>4. <<>> \in Seq(R) /\ <<Stmt("push", x)>> \in Seq(R)
      BY <3>2
    <3>. QED
      BY <3>3, <3>4
  <2>5. k \in refused' => <<Stmt("delete_invalid", k)>> \o Rest(o, k) \in Seq(R)
    <3>1. k \in refused' => Stmt("delete_invalid", k) \in R
      BY DEF Stmt, PushStmt
    <3>. HIDE DEF R
    <3>. QED
      BY <2>4, <3>1
  <2>. HIDE DEF S, R
  <2>6. GiveUp(t) \/ \E todo \in Seq(R) : Continue(t, todo)
    BY <2>1, <2>4, <2>5
  <2>7. task' \in [Tasks -> Seq(R)]
    <3>1. <<>> \in Seq(R)
      OBVIOUS
    <3>. QED
      BY <1>0, <2>3, <2>6, <3>1, TaskSteps
  <2>8. PushRows'
    BY <2>2, <2>3 DEF PushInv, PushRows
  <2>. QED
    BY <1>1, <2>7, <2>8 DEF R
<1>4. CASE delete_invalid_device(t, o)
  <2>1. /\ o.x \in refused /\ refused' = refused /\ UNCHANGED <<holds, unsaved>> /\ Continue(t, <<>>)
        /\ row' = [id \in DOMAIN row |-> IF row[id] = o.x THEN None ELSE row[id]]
    BY <1>0, <1>4 DEF delete_invalid_device, PushStmt
  <2>2. task' \in [Tasks -> Seq(R)]
    <3>1. <<>> \in Seq(R) /\ S \subseteq R
      BY <1>2, <2>1
    <3>. HIDE DEF R, S
    <3>. QED
      BY <1>0, <2>1, <3>1, TaskSteps
  <2>3. row' \in [Devices \cup Tokens -> Tokens \cup {None}]
    BY <2>1 DEF PushInv, PushRows
  <2>4. \A id \in Devices \cup Tokens : row[id] # o.x => row'[id] = row[id]
    BY <2>1 DEF PushInv, PushRows
  <2>5. PushRows'
    BY <2>1, <2>3, <2>4 DEF PushInv, PushRows
  <2>. QED
    BY <1>1, <2>2, <2>5
<1>. QED
  BY <1>3, <1>4 DEF PushStep, o

\* A device stays registered with the token it holds unless that very token was called invalid, however
\* late the deletion of another comes, for any number of devices, tokens and notifications at once
\* (push_notifications.rs, delete_invalid_device).
THEOREM TokenStaysRegisteredAlways == WorkspaceSpec => []TokenStaysRegistered
<1>. DEFINE Inv == TokenStaysRegistered /\ (area = "push" => PushInv)
<1>1. WorkspaceInit => Inv
  <2>. SUFFICES ASSUME RequestsInit, PushInit PROVE PushInv /\ TokenStaysRegistered
    BY DEF WorkspaceInit
  <2>1. task \in [Tasks -> Seq(PushStmt(refused))]
    BY DEF RequestsInit
  <2>. QED
    BY <2>1 DEF PushInit, PushInv, PushRows, TokenStaysRegistered
<1>2. Inv /\ [WorkspaceNext]_WorkspaceVars => Inv'
  <2>. SUFFICES ASSUME Inv, [WorkspaceNext]_WorkspaceVars PROVE Inv'
    OBVIOUS
  <2>1. CASE area # "push"
    BY <2>1, AreaSteps DEF TokenStaysRegistered, PushVars
  <2>2. CASE area = "push"
    <3>1. CASE UNCHANGED <<RequestVars, PushVars>>
      BY <2>2, <3>1 DEF RequestVars, PushVars, PushInv, PushStmt, PushRows, TokenStaysRegistered
    <3>2. CASE PushNext
      <4>1. PushInv'
        BY <2>2, <3>2, PushRequests, PushSteps DEF PushNext
      <4>2. PushInv' => TokenStaysRegistered'
        BY DEF PushInv, PushRows, TokenStaysRegistered
      <4>. QED
        BY <4>1, <4>2
    <3>. QED
      BY <2>2, <3>1, <3>2, AreaSteps
  <2>. QED
    BY <2>1, <2>2
<1>. QED
  BY <1>1, <1>2, PTL DEF WorkspaceSpec

-----------------------------------------------------------------------------
(* Playbooks. *)

RunArg == [r : Runs, caller : People, owner : People, made : BOOLEAN]
StartRun == <<"run_channel", "run_member", "run", "run_tasks">>
InsertTaskStmt == [do : {"insert_task"}, x : [r : {None}, item : PlaybookTasks, list : Checklists]]
PlaybookStmt == InsertTaskStmt \cup [do : {"run_channel", "run_member", "run", "run_tasks"}, x : RunArg]

\* The list is what is left of a start_run for x: the last statements of StartRun.
RunLeft(list, x) ==
    /\ Len(list) \in 1..4
    /\ \A i \in 1..Len(list) : list[i] = Stmt(StartRun[4 - Len(list) + i], x)

\* A request inserts a task or starts a run.
PlaybookLists ==
    /\ task \in [Tasks -> Seq(PlaybookStmt)]
    /\ \A t \in Tasks : \/ Len(task[t]) \in {0, 1} /\ \A i \in 1..Len(task[t]) : task[t][i] \in InsertTaskStmt
                        \/ \E x \in RunArg : RunLeft(task[t], x)

\* No two requests start a run.  There is no row before its statement, and when it is the next one the
\* channel that was made for the run has whoever starts it.
RunsStarting ==
    /\ \A t, u \in Tasks, x, y \in RunArg : RunLeft(task[t], x) /\ RunLeft(task[u], y) /\ x.r = y.r => t = u
    /\ \A t \in Tasks, x \in RunArg : RunLeft(task[t], x) =>
          /\ Len(task[t]) >= 2 => run[x.r] = None
          /\ Len(task[t]) = 2 /\ x.made => x.caller \in runChannel[x.r]

\* A run keeps its tasks, all of them tasks of a checklist that is there, and so is every task.
PlaybookRows ==
    /\ playbook \in [archived : BOOLEAN, channel : BOOLEAN]
    /\ run = [r \in Runs |-> run[r]] /\ runTask = [r \in Runs |-> runTask[r]]
    /\ runChannel = [r \in Runs |-> runChannel[r]] /\ started = [r \in Runs |-> started[r]]
    /\ item = [x \in PlaybookTasks |-> item[x]]
    /\ \A x \in PlaybookTasks : item[x] # None => item[x] \in checklist
    /\ \A r \in Runs : /\ run[r] # None /\ run[r].made => run[r].caller \in runChannel[r]
                       /\ started[r] # None => DOMAIN runTask[r] = started[r]
                       /\ DOMAIN runTask[r] \subseteq PlaybookTasks
                       /\ \A x \in DOMAIN runTask[r] : item[x] \in checklist
PlaybookInv == PlaybookLists /\ RunsStarting /\ PlaybookRows

\* Of a start_run, the statement done is followed by the rest of it; of the others by nothing.
LEMMA RunLeftFacts ==
    ASSUME NEW list \in Seq(PlaybookStmt), NEW x \in RunArg, RunLeft(list, x)
    PROVE  /\ list # <<>> /\ Head(list).x = x
           /\ Head(list).do = "run_channel" <=> Len(list) = 4
           /\ Head(list).do = "run_member" <=> Len(list) = 3
           /\ Head(list).do = "run" <=> Len(list) = 2
           /\ Head(list).do = "run_tasks" <=> Len(list) = 1
           /\ Head(list).do # "insert_task"
           /\ Len(list) > 1 => RunLeft(Tail(list), x) /\ Len(Tail(list)) = Len(list) - 1
           /\ Len(list) = 1 => Tail(list) = <<>>
           /\ \A y \in RunArg : RunLeft(list, y) => y = x
<1>. DEFINE n == Len(list)
<1>1. n \in 1..4 /\ list # <<>> /\ Head(list) = list[1] /\ list[1] = Stmt(StartRun[4 - n + 1], x)
  BY DEF RunLeft
<1>2. Head(list).x = x /\ Head(list).do = StartRun[5 - n]
  BY <1>1 DEF Stmt
<1>3. /\ StartRun[1] = "run_channel" /\ StartRun[2] = "run_member"
      /\ StartRun[3] = "run" /\ StartRun[4] = "run_tasks"
  BY DEF StartRun
<1>4. /\ Tail(list) \in Seq(PlaybookStmt) /\ Len(Tail(list)) = n - 1
      /\ \A i \in 1..n - 1 : Tail(list)[i] = list[i + 1]
  BY <1>1
<1>5. ASSUME n > 1 PROVE RunLeft(Tail(list), x)
  <2>1. \A i \in 1..n - 1 : i + 1 \in 1..n /\ 4 - n + (i + 1) = 4 - (n - 1) + i
    BY <1>1
  <2>2. \A i \in 1..n - 1 : Tail(list)[i] = Stmt(StartRun[4 - (n - 1) + i], x)
    BY <1>4, <2>1 DEF RunLeft
  <2>. QED
    BY <1>1, <1>4, <1>5, <2>2 DEF RunLeft
<1>6. n = 1 => Tail(list) = <<>>
  <2>1. \A s \in Seq(PlaybookStmt) : Len(s) = 0 => s = <<>>
    OBVIOUS
  <2>2. n = 1 => Len(Tail(list)) = 0
    BY <1>4
  <2>. QED
    BY <1>4, <2>1, <2>2
<1>7. ASSUME NEW y \in RunArg, RunLeft(list, y) PROVE y = x
  <2>1. list[1] = Stmt(StartRun[4 - n + 1], y)
    BY <1>1, <1>7 DEF RunLeft
  <2>2. Head(list).x = y
    BY <1>1, <2>1 DEF Stmt
  <2>. QED
    BY <1>2, <2>2
<1>8. n = 1 \/ n = 2 \/ n = 3 \/ n = 4
  BY <1>1
<1>9. /\ Head(list).do = "run_channel" <=> n = 4
      /\ Head(list).do = "run_member" <=> n = 3
      /\ Head(list).do = "run" <=> n = 2
      /\ Head(list).do = "run_tasks" <=> n = 1
      /\ Head(list).do # "insert_task"
  <2>. HIDE DEF n
  <2>1. CASE n = 1
    BY <1>2, <1>3, <2>1
  <2>2. CASE n = 2
    BY <1>2, <1>3, <2>2
  <2>3. CASE n = 3
    BY <1>2, <1>3, <2>3
  <2>4. CASE n = 4
    BY <1>2, <1>3, <2>4
  <2>. QED
    BY <1>8, <2>1, <2>2, <2>3, <2>4
<1>. QED
  BY <1>1, <1>2, <1>4, <1>5, <1>6, <1>7, <1>9

\* Nothing but the statements left changes in what a request does first.
LEMMA PlaybookBegins ==
    ASSUME PlaybookInv, NEW t \in Tasks, NEW list \in Seq(PlaybookStmt), task' = [task EXCEPT ![t] = list],
           UNCHANGED <<run, runChannel>>,
           \/ Len(list) \in {0, 1} /\ \A i \in 1..Len(list) : list[i] \in InsertTaskStmt
           \/ \E x \in RunArg :
                 /\ RunLeft(list, x) /\ run[x.r] = None /\ (Len(list) = 2 => ~x.made)
                 /\ \A u \in Tasks, y \in RunArg : RunLeft(task[u], y) => y.r # x.r
    PROVE  PlaybookLists' /\ RunsStarting'
<1>1. /\ task' \in [Tasks -> Seq(PlaybookStmt)] /\ task'[t] = list
      /\ \A u \in Tasks : u # t => task'[u] = task[u]
  BY DEF PlaybookInv, PlaybookLists
<1>2. PlaybookLists'
  BY <1>1 DEF PlaybookInv, PlaybookLists
<1>3. CASE Len(list) \in {0, 1} /\ \A i \in 1..Len(list) : list[i] \in InsertTaskStmt
  <2>1. \A x \in RunArg : ~RunLeft(list, x)
    <3>. SUFFICES ASSUME NEW x \in RunArg, RunLeft(list, x) PROVE FALSE
      OBVIOUS
    <3>1. Head(list).do # "insert_task" /\ list # <<>>
      BY RunLeftFacts
    <3>2. Len(list) = 1
      <4>1. Len(list) # 0
        BY <3>1
      <4>. QED
        BY <1>3, <4>1
    <3>3. Head(list) \in InsertTaskStmt
      BY <1>3, <3>1, <3>2
    <3>. QED
      BY <3>1, <3>3 DEF InsertTaskStmt
  <2>. QED
    BY <1>1, <1>2, <2>1 DEF PlaybookInv, RunsStarting
<1>4. ASSUME NEW x \in RunArg, RunLeft(list, x), run[x.r] = None, Len(list) = 2 => ~x.made,
             \A u \in Tasks, y \in RunArg : RunLeft(task[u], y) => y.r # x.r
      PROVE  RunsStarting'
  <2>1. \A y \in RunArg : RunLeft(list, y) => y = x
    BY <1>4, RunLeftFacts
  <2>2. \A u \in Tasks, y \in RunArg : RunLeft(task'[u], y) => (u = t /\ y = x) \/ (u # t /\ RunLeft(task[u], y) /\ y.r # x.r)
    BY <1>1, <1>4, <2>1
  <2>3. \A u, v \in Tasks, y, z \in RunArg : RunLeft(task'[u], y) /\ RunLeft(task'[v], z) /\ y.r = z.r => u = v
    BY <2>2 DEF PlaybookInv, RunsStarting
  <2>4. ASSUME NEW u \in Tasks, NEW y \in RunArg, RunLeft(task'[u], y)
        PROVE  /\ Len(task'[u]) >= 2 => run[y.r] = None
               /\ Len(task'[u]) = 2 /\ y.made => y.caller \in runChannel[y.r]
    BY <1>1, <1>4, <2>2, <2>4 DEF PlaybookInv, RunsStarting
  <2>. QED
    BY <2>3, <2>4 DEF RunsStarting
<1>. QED
  BY <1>2, <1>3, <1>4

\* Requests: edits of the playbook and of runs, and the first look of those that take statements.
LEMMA PlaybookRequests ==
    ASSUME PlaybookInv, NEW t \in Tasks, PlaybookRequest(t) \/ (Interrupted(t) /\ UNCHANGED PlaybookVars)
    PROVE  PlaybookInv'
<1>1. ASSUME Statement, runChannel' = runChannel, PlaybookRows',
             \A r \in Runs : run[r] = None => run'[r] = None
      PROVE  PlaybookInv'
  <2>1. task' = task
    BY <1>1 DEF Statement
  <2>2. PlaybookLists'
    BY <2>1 DEF PlaybookInv, PlaybookLists
  <2>3. \A x \in RunArg : x.r \in Runs
    BY DEF RunArg
  <2>4. RunsStarting'
    BY <1>1, <2>1, <2>3 DEF PlaybookInv, RunsStarting
  <2>. QED
    BY <1>1, <2>2, <2>4 DEF PlaybookInv
<1>2. UNCHANGED PlaybookVars => PlaybookRows'
  BY DEF PlaybookVars, PlaybookInv, PlaybookRows
<1>3. ASSUME NEW channel \in BOOLEAN, update_playbook(channel) \/ delete_playbook PROVE PlaybookInv'
  <2>1. playbook' \in [archived : BOOLEAN, channel : BOOLEAN]
    BY <1>3 DEF update_playbook, delete_playbook, PlaybookInv, PlaybookRows
  <2>2. Statement /\ UNCHANGED <<checklist, item, run, runTask, runChannel, updates, started>>
    BY <1>3 DEF update_playbook, delete_playbook
  <2>3. PlaybookRows'
    BY <2>1, <2>2 DEF PlaybookInv, PlaybookRows
  <2>. QED
    BY <1>1, <2>2, <2>3
<1>5. ASSUME NEW c, create_checklist(c) PROVE PlaybookInv'
  BY <1>1, <1>5 DEF create_checklist, PlaybookInv, PlaybookRows
\* A task that goes is in no run, and so is none of a checklist that goes.
<1>6. ASSUME NEW gone \in SUBSET PlaybookTasks, WithoutTasks(gone), \A x \in gone : ~Used(x), Statement,
             UNCHANGED <<playbook, run, runTask, runChannel, started>>,
             \A x \in PlaybookTasks \ gone : item[x] \in checklist => item[x] \in checklist'
      PROVE  PlaybookInv'
  <2>1. item' = [x \in PlaybookTasks |-> IF x \in gone THEN None ELSE item[x]]
    BY <1>6 DEF WithoutTasks
  <2>2. \A r \in Runs : \A x \in DOMAIN runTask[r] : x \in PlaybookTasks \ gone
    BY <1>6 DEF Used, PlaybookInv, PlaybookRows
  <2>3. item' = [x \in PlaybookTasks |-> item'[x]] /\ \A x \in PlaybookTasks : item'[x] # None => item'[x] \in checklist'
    BY <1>6, <2>1 DEF PlaybookInv, PlaybookRows
  <2>4. \A r \in Runs : \A x \in DOMAIN runTask[r] : item'[x] \in checklist'
    BY <1>6, <2>1, <2>2 DEF PlaybookInv, PlaybookRows
  <2>5. PlaybookRows'
    BY <1>6, <2>3, <2>4 DEF PlaybookInv, PlaybookRows
  <2>. QED
    BY <1>1, <1>6, <2>5
<1>7. ASSUME NEW c, delete_checklist(c) PROVE PlaybookInv'
  BY <1>6, <1>7 DEF delete_checklist, TasksOf
<1>8. ASSUME NEW x \in PlaybookTasks, delete_task(x) PROVE PlaybookInv'
  BY <1>6, <1>8 DEF delete_task
<1>9. ASSUME NEW c \in Checklists, NEW x \in PlaybookTasks, create_task(t, c, x) PROVE PlaybookInv'
  <2>. DEFINE o == Stmt("insert_task", [r |-> None, item |-> x, list |-> c])
              list == <<o>>
  <2>1. o \in InsertTaskStmt /\ o \in PlaybookStmt
    BY DEF Stmt, InsertTaskStmt, PlaybookStmt
  <2>2. task' = [task EXCEPT ![t] = list] /\ UNCHANGED PlaybookVars
    BY <1>9 DEF create_task, Begin
  <2>. HIDE DEF o
  <2>3. list \in Seq(PlaybookStmt) /\ Len(list) = 1 /\ \A i \in 1..Len(list) : list[i] \in InsertTaskStmt
    BY <2>1
  <2>. HIDE DEF list
  <2>4. UNCHANGED <<run, runChannel>>
    BY <2>2 DEF PlaybookVars
  <2>. QED
    BY <1>2, <2>2, <2>3, <2>4, PlaybookBegins DEF PlaybookInv
<1>10. ASSUME NEW caller \in People, NEW owner \in People, NEW given \in BOOLEAN,
             start_run(t, caller, owner, given)
       PROVE  PlaybookInv'
  <2>1. PICK r \in FreshRun :
          LET x == [r |-> r, caller |-> caller, owner |-> owner, made |-> playbook.channel /\ ~given]
          IN  Begin(t, (IF x.made THEN <<Stmt("run_channel", x), Stmt("run_member", x)>> ELSE <<>>)
                       \o <<Stmt("run", x), Stmt("run_tasks", x)>>)
    BY <1>10 DEF start_run
  <2>. DEFINE x == [r |-> r, caller |-> caller, owner |-> owner, made |-> playbook.channel /\ ~given]
              a == Stmt("run_channel", x)
              b == Stmt("run_member", x)
              c == Stmt("run", x)
              d == Stmt("run_tasks", x)
              list == (IF x.made THEN <<a, b>> ELSE <<>>) \o <<c, d>>
  <2>2. x \in RunArg /\ r \in Runs /\ run[r] = None
    BY <1>10 DEF RunArg, FreshRun, RunExists, PlaybookInv, PlaybookRows
  <2>3. \A u \in Tasks, y \in RunArg : RunLeft(task[u], y) => y.r # r
    <3>. SUFFICES ASSUME NEW u \in Tasks, NEW y \in RunArg, RunLeft(task[u], y) PROVE y.r # r
      OBVIOUS
    <3>1. Head(task[u]).x = y /\ task[u] # <<>> /\ task[u] \in Seq(PlaybookStmt)
      BY RunLeftFacts DEF PlaybookInv, PlaybookLists
    <3>2. 1 \in 1..Len(task[u]) /\ Head(task[u]) = task[u][1]
      BY <3>1
    <3>3. task[u][1].x.r # r
      BY <3>2 DEF FreshRun
    <3>. QED
      BY <3>1, <3>2, <3>3
  <2>4. task' = [task EXCEPT ![t] = list] /\ UNCHANGED PlaybookVars
    BY <1>10, <2>1 DEF start_run, Begin
  <2>5. {a, b, c, d} \subseteq PlaybookStmt
    BY <2>2 DEF Stmt, PlaybookStmt
  <2>6. /\ StartRun[1] = "run_channel" /\ StartRun[2] = "run_member"
        /\ StartRun[3] = "run" /\ StartRun[4] = "run_tasks"
    BY DEF StartRun
  <2>7. a = Stmt(StartRun[1], x) /\ b = Stmt(StartRun[2], x) /\ c = Stmt(StartRun[3], x) /\ d = Stmt(StartRun[4], x)
    BY <2>6
  <2>8. x.r = r
    OBVIOUS
  <2>. HIDE DEF x, a, b, c, d
  <2>9. list \in Seq(PlaybookStmt) /\ RunLeft(list, x) /\ (Len(list) = 2 => ~x.made)
    <3>1. CASE x.made
      <4>1. list = <<a, b>> \o <<c, d>>
        BY <3>1
      <4>. HIDE DEF list
      <4>2. /\ list \in Seq(PlaybookStmt) /\ Len(list) = 4
            /\ list[1] = a /\ list[2] = b /\ list[3] = c /\ list[4] = d
        BY <2>5, <4>1
      <4>3. \A i \in 1..4 : i = 1 \/ i = 2 \/ i = 3 \/ i = 4
        OBVIOUS
      <4>4. \A i \in 1..4 : list[i] = Stmt(StartRun[4 - 4 + i], x)
        BY <2>7, <4>2, <4>3
      <4>. QED
        BY <4>2, <4>4 DEF RunLeft
    <3>2. CASE ~x.made
      <4>1. list = <<>> \o <<c, d>>
        BY <3>2
      <4>. HIDE DEF list
      <4>2. list \in Seq(PlaybookStmt) /\ Len(list) = 2 /\ list[1] = c /\ list[2] = d
        BY <2>5, <4>1
      <4>3. \A i \in 1..2 : i = 1 \/ i = 2
        OBVIOUS
      <4>4. \A i \in 1..2 : list[i] = Stmt(StartRun[4 - 2 + i], x)
        BY <2>7, <4>2, <4>3
      <4>. QED
        BY <3>2, <4>2, <4>4 DEF RunLeft
    <3>. QED
      BY <3>1, <3>2
  <2>. HIDE DEF list
  <2>10. UNCHANGED <<run, runChannel>>
    BY <2>4 DEF PlaybookVars
  <2>11. PlaybookLists' /\ RunsStarting'
    BY <2>2, <2>3, <2>4, <2>8, <2>9, <2>10, PlaybookBegins
  <2>. QED
    BY <1>2, <2>4, <2>11 DEF PlaybookInv
<1>11. ASSUME NEW r \in Runs, NEW status, update_run(r, status) PROVE PlaybookInv'
  <2>. DEFINE new == [run[r] EXCEPT !.status = status]
  <2>1. run[r] # None /\ run' = [run EXCEPT ![r] = new]
    BY <1>11 DEF update_run, RunExists
  <2>2. new.made = run[r].made /\ new.caller = run[r].caller
    OBVIOUS
  <2>. HIDE DEF new
  <2>3. run' = [q \in Runs |-> run'[q]] /\ \A q \in Runs : run'[q] = IF q = r THEN new ELSE run[q]
    BY <2>1 DEF PlaybookInv, PlaybookRows
  <2>4. PlaybookRows'
    BY <1>11, <2>1, <2>2, <2>3 DEF update_run, PlaybookInv, PlaybookRows
  <2>. QED
    BY <1>1, <1>11, <2>1, <2>3, <2>4 DEF update_run
<1>12. ASSUME NEW r \in Runs, finish_run(r) PROVE PlaybookInv'
  <2>. DEFINE new == [run[r] EXCEPT !.status = "finished", !.stamped = TRUE]
  <2>1. run[r] # None /\ run' = [run EXCEPT ![r] = new]
    BY <1>12 DEF finish_run, RunExists
  <2>2. new.made = run[r].made /\ new.caller = run[r].caller
    OBVIOUS
  <2>. HIDE DEF new
  <2>3. run' = [q \in Runs |-> run'[q]] /\ \A q \in Runs : run'[q] = IF q = r THEN new ELSE run[q]
    BY <2>1 DEF PlaybookInv, PlaybookRows
  <2>4. PlaybookRows'
    BY <1>12, <2>1, <2>2, <2>3 DEF finish_run, PlaybookInv, PlaybookRows
  <2>. QED
    BY <1>1, <1>12, <2>1, <2>3, <2>4 DEF finish_run
<1>13. ASSUME NEW r \in Runs, create_status_update(r) PROVE PlaybookInv'
  BY <1>1, <1>13 DEF create_status_update, PlaybookInv, PlaybookRows
<1>14. ASSUME NEW r \in Runs, NEW x, NEW status, update_run_task(r, x, status) PROVE PlaybookInv'
  <2>1. runTask' = [q \in Runs |-> runTask'[q]] /\ \A q \in Runs : DOMAIN runTask'[q] = DOMAIN runTask[q]
    BY <1>14 DEF update_run_task, PlaybookInv, PlaybookRows
  <2>2. PlaybookRows'
    BY <1>14, <2>1 DEF update_run_task, PlaybookInv, PlaybookRows
  <2>. QED
    BY <1>1, <1>14, <2>2 DEF update_run_task
<1>15. CASE Interrupted(t) /\ UNCHANGED PlaybookVars
  <2>. DEFINE list == <<>>
  <2>1. list \in Seq(PlaybookStmt) /\ Len(list) = 0 /\ \A i \in 1..Len(list) : list[i] \in InsertTaskStmt
    OBVIOUS
  <2>2. task' = [task EXCEPT ![t] = list] /\ UNCHANGED <<run, runChannel>>
    BY <1>15 DEF Interrupted, PlaybookVars
  <2>. HIDE DEF list
  <2>. QED
    BY <1>2, <1>15, <2>1, <2>2, PlaybookBegins DEF PlaybookInv
<1>. QED
  <2>1. CASE PlaybookRequest(t)
    BY <1>3, <1>5, <1>7, <1>8, <1>9, <1>10, <1>11, <1>12, <1>13, <1>14, <2>1 DEF PlaybookRequest
  <2>. QED
    BY <1>15, <2>1

\* Statements: the parts of starting a run, in their order, and the insertion of a task.
LEMMA PlaybookSteps ==
    ASSUME PlaybookInv, NEW t \in Tasks, Busy(t), PlaybookStep(t, Head(task[t]))
    PROVE  PlaybookInv'
<1>. DEFINE o == Head(task[t])
<1>0. task \in [Tasks -> Seq(PlaybookStmt)] /\ task[t] \in Seq(PlaybookStmt) /\ task[t] # <<>>
  BY DEF PlaybookInv, PlaybookLists, Busy
<1>1. \A y \in RunArg : y.r \in Runs
  BY DEF RunArg
<1>2. CASE InsertTask(t, o)
  <2>1. ASSUME NEW x \in RunArg PROVE ~RunLeft(task[t], x)
    BY <1>0, <1>2, <2>1, RunLeftFacts DEF InsertTask
  <2>2. Len(task[t]) = 1 /\ o \in InsertTaskStmt
    <3>1. Len(task[t]) \in {0, 1} /\ \A i \in 1..Len(task[t]) : task[t][i] \in InsertTaskStmt
      BY <2>1 DEF PlaybookInv, PlaybookLists
    <3>2. Len(task[t]) # 0
      BY <1>0
    <3>. QED
      BY <1>0, <3>1, <3>2
  <2>3. Tail(task[t]) = <<>>
    BY <1>0, <2>2, OneLeft
  <2>. DEFINE list == <<>>
  <2>4. /\ list \in Seq(PlaybookStmt) /\ Len(list) = 0 /\ \A i \in 1..Len(list) : list[i] \in InsertTaskStmt
        /\ list \o list = list
    OBVIOUS
  <2>5. task' = [task EXCEPT ![t] = list] /\ UNCHANGED <<run, runChannel>>
    BY <1>2, <2>3, <2>4 DEF InsertTask, Continue, GiveUp
  <2>. HIDE DEF list
  <2>6. PlaybookLists' /\ RunsStarting'
    BY <2>4, <2>5, PlaybookBegins
  <2>7. o.x.item \in PlaybookTasks
    BY <2>2 DEF InsertTaskStmt
  <2>. HIDE DEF o
  <2>8. /\ UNCHANGED <<playbook, checklist, run, runTask, runChannel, started>>
        /\ item' = item \/ (o.x.list \in checklist /\ item' = [item EXCEPT ![o.x.item] = o.x.list])
    BY <1>2 DEF InsertTask
  <2>9. PlaybookRows'
    BY <2>7, <2>8 DEF PlaybookInv, PlaybookRows
  <2>. QED
    BY <2>6, <2>9 DEF PlaybookInv
<1>3. ASSUME o.do \in {"run_channel", "run_member", "run", "run_tasks"}
      PROVE  \E x \in RunArg : RunLeft(task[t], x) /\ o.x = x
  <2>1. PICK x \in RunArg : RunLeft(task[t], x)
    <3>1. CASE Len(task[t]) \in {0, 1} /\ \A i \in 1..Len(task[t]) : task[t][i] \in InsertTaskStmt
      <4>1. Len(task[t]) # 0
        BY <1>0
      <4>2. o \in InsertTaskStmt
        BY <1>0, <3>1, <4>1
      <4>. QED
        BY <1>3, <4>2 DEF InsertTaskStmt
    <3>. QED
      BY <3>1 DEF PlaybookInv, PlaybookLists
  <2>. QED
    BY <1>0, <2>1, RunLeftFacts
<1>4. ASSUME NEW x \in RunArg, RunLeft(task[t], x), o.x = x,
             Continue(t, <<>>), run' = run \/ (Len(task[t]) = 2 /\ \A r \in Runs : r # x.r => run'[r] = run[r]),
             \A r \in Runs : r # x.r => runChannel'[r] = runChannel[r],
             Len(task[t]) = 3 => x.caller \in runChannel'[x.r]
      PROVE  PlaybookLists' /\ RunsStarting'
  <2>0. PICK n \in 1..4 : n = Len(task[t])
    BY <1>4 DEF RunLeft
  <2>1. /\ n > 1 => RunLeft(Tail(task[t]), x) /\ Len(Tail(task[t])) = n - 1
        /\ n = 1 => Tail(task[t]) = <<>>
    BY <1>0, <1>4, <2>0, RunLeftFacts
  <2>. DEFINE rest == Tail(task[t])
  <2>2. rest \in Seq(PlaybookStmt) /\ <<>> \o rest = rest
    BY <1>0
  <2>3. task' = [task EXCEPT ![t] = rest]
    BY <1>4, <2>2 DEF Continue
  <2>4. /\ task' \in [Tasks -> Seq(PlaybookStmt)] /\ task'[t] = rest
        /\ \A u \in Tasks : u # t => task'[u] = task[u]
    BY <1>0, <2>2, <2>3
  <2>. HIDE DEF rest, o
  <2>5. rest = <<>> \/ RunLeft(rest, x)
    BY <2>0, <2>1 DEF rest
  <2>6. PlaybookLists'
    <3>1. rest = <<>> => Len(rest) \in {0, 1} /\ \A i \in 1..Len(rest) : rest[i] \in InsertTaskStmt
      OBVIOUS
    <3>. QED
      BY <2>4, <2>5, <3>1 DEF PlaybookInv, PlaybookLists
  <2>7. \A u \in Tasks, y \in RunArg : RunLeft(task'[u], y) =>
           \/ u = t /\ y = x /\ n > 1 /\ Len(rest) = n - 1
           \/ u # t /\ RunLeft(task[u], y) /\ y.r # x.r
    <3>. SUFFICES ASSUME NEW u \in Tasks, NEW y \in RunArg, RunLeft(task'[u], y)
                  PROVE  \/ u = t /\ y = x /\ n > 1 /\ Len(rest) = n - 1
                         \/ u # t /\ RunLeft(task[u], y) /\ y.r # x.r
      OBVIOUS
    <3>1. CASE u = t
      <4>1. rest # <<>> /\ RunLeft(rest, y)
        BY <2>2, <2>4, <3>1, RunLeftFacts
      <4>2. n > 1 /\ Len(rest) = n - 1
        BY <2>0, <2>1, <4>1 DEF rest
      <4>3. y = x
        BY <2>2, <2>5, <4>1, RunLeftFacts
      <4>. QED
        BY <3>1, <4>2, <4>3
    <3>2. CASE u # t
      BY <1>4, <2>4, <3>2 DEF PlaybookInv, RunsStarting
    <3>. QED
      BY <3>1, <3>2
  <2>8. \A u, v \in Tasks, y, z \in RunArg : RunLeft(task'[u], y) /\ RunLeft(task'[v], z) /\ y.r = z.r => u = v
    BY <2>7 DEF PlaybookInv, RunsStarting
  <2>9. ASSUME NEW u \in Tasks, NEW y \in RunArg, RunLeft(task'[u], y)
        PROVE  /\ Len(task'[u]) >= 2 => run'[y.r] = None
               /\ Len(task'[u]) = 2 /\ y.made => y.caller \in runChannel'[y.r]
    <3>1. CASE u = t
      <4>1. y = x /\ n > 1 /\ Len(task'[u]) = n - 1
        BY <2>4, <2>7, <2>9, <3>1
      <4>2. run[x.r] = None
        BY <1>4, <2>0, <4>1 DEF PlaybookInv, RunsStarting
      <4>3. /\ Len(task'[u]) >= 2 => n # 2
            /\ Len(task'[u]) = 2 => n = 3
        BY <4>1
      <4>. QED
        BY <1>4, <2>0, <4>1, <4>2, <4>3
    <3>2. CASE u # t
      <4>1. RunLeft(task[u], y) /\ y.r # x.r /\ task'[u] = task[u] /\ y.r \in Runs
        BY <1>1, <2>4, <2>7, <2>9, <3>2
      <4>2. run'[y.r] = run[y.r] /\ runChannel'[y.r] = runChannel[y.r]
        BY <1>4, <4>1
      <4>. QED
        BY <4>1, <4>2 DEF PlaybookInv, RunsStarting
    <3>. QED
      BY <3>1, <3>2
  <2>10. RunsStarting'
    BY <2>8, <2>9 DEF RunsStarting
  <2>. QED
    BY <2>6, <2>10
<1>. HIDE DEF o
<1>5. CASE InsertRunChannel(t, o)
  <2>1. PICK x \in RunArg : RunLeft(task[t], x) /\ o.x = x
    BY <1>3, <1>5 DEF InsertRunChannel
  <2>2. Len(task[t]) = 4 /\ x.r \in Runs
    BY <1>0, <1>1, <1>5, <2>1, RunLeftFacts DEF InsertRunChannel, o
  <2>3. /\ runChannel' = [runChannel EXCEPT ![x.r] = {}] /\ Continue(t, <<>>)
        /\ UNCHANGED <<playbook, checklist, item, run, runTask, started>>
    BY <1>5, <2>1 DEF InsertRunChannel
  <2>4. /\ \A r \in Runs : r # x.r => runChannel'[r] = runChannel[r]
        /\ runChannel' = [r \in Runs |-> runChannel'[r]]
    BY <2>3 DEF PlaybookInv, PlaybookRows
  <2>5. run[x.r] = None
    BY <2>1, <2>2 DEF PlaybookInv, RunsStarting
  <2>6. PlaybookRows'
    BY <2>3, <2>4, <2>5 DEF PlaybookInv, PlaybookRows
  <2>7. PlaybookLists' /\ RunsStarting'
    BY <1>4, <2>1, <2>2, <2>3, <2>4
  <2>. QED
    BY <2>6, <2>7 DEF PlaybookInv
<1>6. CASE InsertRunMember(t, o)
  <2>1. PICK x \in RunArg : RunLeft(task[t], x) /\ o.x = x
    BY <1>3, <1>6 DEF InsertRunMember
  <2>2. Len(task[t]) = 3 /\ x.r \in Runs
    BY <1>0, <1>1, <1>6, <2>1, RunLeftFacts DEF InsertRunMember, o
  <2>3. /\ runChannel' = [runChannel EXCEPT ![x.r] = @ \cup {x.caller}] /\ Continue(t, <<>>)
        /\ UNCHANGED <<playbook, checklist, item, run, runTask, started>>
    BY <1>6, <2>1 DEF InsertRunMember
  <2>4. /\ \A r \in Runs : r # x.r => runChannel'[r] = runChannel[r]
        /\ runChannel' = [r \in Runs |-> runChannel'[r]] /\ x.caller \in runChannel'[x.r]
    BY <2>2, <2>3 DEF PlaybookInv, PlaybookRows
  <2>5. run[x.r] = None
    BY <2>1, <2>2 DEF PlaybookInv, RunsStarting
  <2>6. PlaybookRows'
    BY <2>3, <2>4, <2>5 DEF PlaybookInv, PlaybookRows
  <2>7. PlaybookLists' /\ RunsStarting'
    BY <1>4, <2>1, <2>2, <2>3, <2>4
  <2>. QED
    BY <2>6, <2>7 DEF PlaybookInv
<1>7. CASE InsertRun(t, o)
  <2>1. PICK x \in RunArg : RunLeft(task[t], x) /\ o.x = x
    BY <1>3, <1>7 DEF InsertRun
  <2>2. Len(task[t]) = 2 /\ x.r \in Runs
    BY <1>0, <1>1, <1>7, <2>1, RunLeftFacts DEF InsertRun, o
  <2>. DEFINE new == [caller |-> x.caller, owner |-> x.owner, made |-> x.made, status |-> "in_progress", stamped |-> FALSE]
  <2>3. /\ run' = [run EXCEPT ![x.r] = new] /\ Continue(t, <<>>)
        /\ UNCHANGED <<playbook, checklist, item, runTask, runChannel, started>>
    BY <1>7, <2>1 DEF InsertRun
  <2>4. new.caller = x.caller /\ new.made = x.made
    OBVIOUS
  <2>. HIDE DEF new
  <2>5. /\ \A r \in Runs : run'[r] = IF r = x.r THEN new ELSE run[r]
        /\ run' = [r \in Runs |-> run'[r]]
    BY <2>3 DEF PlaybookInv, PlaybookRows
  <2>6. x.made => x.caller \in runChannel[x.r]
    BY <2>1, <2>2 DEF PlaybookInv, RunsStarting
  <2>7. PlaybookRows'
    BY <2>3, <2>4, <2>5, <2>6 DEF PlaybookInv, PlaybookRows
  <2>8. PlaybookLists' /\ RunsStarting'
    BY <1>4, <2>1, <2>2, <2>3, <2>5
  <2>. QED
    BY <2>7, <2>8 DEF PlaybookInv
<1>8. CASE InsertRunTasks(t, o)
  <2>1. PICK x \in RunArg : RunLeft(task[t], x) /\ o.x = x
    BY <1>3, <1>8 DEF InsertRunTasks
  <2>2. Len(task[t]) = 1 /\ x.r \in Runs
    BY <1>0, <1>1, <1>8, <2>1, RunLeftFacts DEF InsertRunTasks, o
  <2>. DEFINE tasks == {y \in PlaybookTasks : item[y] # None}
              new == [y \in tasks |-> [status |-> "pending", completed |-> FALSE]]
  <2>3. /\ runTask' = [runTask EXCEPT ![x.r] = new] /\ started' = [started EXCEPT ![x.r] = tasks]
        /\ Continue(t, <<>>)
        /\ UNCHANGED <<playbook, checklist, item, run, runChannel>>
    BY <1>8, <2>1 DEF InsertRunTasks
  <2>4. DOMAIN new = tasks
    OBVIOUS
  <2>5. tasks \subseteq PlaybookTasks /\ \A y \in tasks : item[y] \in checklist
    BY DEF PlaybookInv, PlaybookRows
  <2>. HIDE DEF new, tasks
  <2>6. /\ runTask' = [r \in Runs |-> runTask'[r]] /\ started' = [r \in Runs |-> started'[r]]
        /\ \A r \in Runs : runTask'[r] = IF r = x.r THEN new ELSE runTask[r]
        /\ \A r \in Runs : started'[r] = IF r = x.r THEN tasks ELSE started[r]
    BY <2>3 DEF PlaybookInv, PlaybookRows
  <2>7. PlaybookRows'
    BY <2>3, <2>4, <2>5, <2>6 DEF PlaybookInv, PlaybookRows
  <2>8. PlaybookLists' /\ RunsStarting'
    BY <1>4, <2>1, <2>2, <2>3
  <2>. QED
    BY <2>7, <2>8 DEF PlaybookInv
<1>. QED
  BY <1>2, <1>5, <1>6, <1>7, <1>8 DEF PlaybookStep, o

\* A run's channel has whoever starts it wherever its start was cut short, a run keeps the tasks it started with,
\* and none of them is gone, for any number of runs, tasks and requests at once (playbooks.rs, start_run).
THEOREM RunIsWholeAlways == WorkspaceSpec => []RunIsWhole
<1>. DEFINE Inv == RunIsWhole /\ (area = "playbooks" => PlaybookInv)
<1>1. PlaybookInv => RunIsWhole
  BY DEF PlaybookInv, PlaybookRows, RunIsWhole, RunExists, calculate_progress
<1>2. WorkspaceInit => Inv
  <2>. SUFFICES ASSUME RequestsInit, PlaybooksInit PROVE PlaybookInv
    BY <1>1 DEF WorkspaceInit
  <2>1. \A u \in Tasks : task[u] = <<>>
    BY DEF RequestsInit
  <2>2. PlaybookLists
    BY <2>1 DEF RequestsInit, PlaybookLists
  <2>3. \A x : ~RunLeft(<<>>, x)
    BY DEF RunLeft
  <2>4. RunsStarting
    BY <2>1, <2>3 DEF RunsStarting
  <2>5. PlaybookRows
    <3>1. DOMAIN <<>> = {}
      OBVIOUS
    <3>2. /\ run = [r \in Runs |-> None] /\ runTask = [r \in Runs |-> <<>>]
          /\ runChannel = [r \in Runs |-> None] /\ started = [r \in Runs |-> None]
      BY DEF PlaybooksInit
    <3>5. item = [x \in PlaybookTasks |-> item[x]]
      BY DEF PlaybooksInit
    <3>4. playbook \in [archived : BOOLEAN, channel : BOOLEAN]
      BY DEF PlaybooksInit
    <3>3. \A x \in PlaybookTasks : item[x] # None => item[x] \in checklist
      BY DEF PlaybooksInit
    <3>. QED
      BY <3>1, <3>2, <3>3, <3>4, <3>5 DEF PlaybookRows
  <2>. QED
    BY <2>2, <2>4, <2>5 DEF PlaybookInv
<1>3. Inv /\ [WorkspaceNext]_WorkspaceVars => Inv'
  <2>. SUFFICES ASSUME Inv, [WorkspaceNext]_WorkspaceVars PROVE Inv'
    OBVIOUS
  <2>1. CASE area # "playbooks"
    <3>1. UNCHANGED PlaybookVars /\ area' = area
      BY <2>1, AreaSteps
    <3>. QED
      BY <2>1, <3>1 DEF RunIsWhole, RunExists, calculate_progress, PlaybookVars
  <2>2. CASE area = "playbooks"
    <3>1. PlaybookInv'
      <4>1. CASE UNCHANGED <<RequestVars, PlaybookVars>>
        BY <2>2, <4>1 DEF RequestVars, PlaybookVars, PlaybookInv, PlaybookLists, RunsStarting, PlaybookRows
      <4>2. CASE PlaybooksNext
        BY <2>2, <4>2, PlaybookRequests, PlaybookSteps DEF PlaybooksNext
      <4>. QED
        BY <2>2, <4>1, <4>2, AreaSteps
    <3>2. PlaybookInv' => RunIsWhole'
      BY DEF PlaybookInv, PlaybookRows, RunIsWhole, RunExists, calculate_progress
    <3>. QED
      BY <3>1, <3>2
  <2>. QED
    BY <2>1, <2>2
<1>. QED
  BY <1>2, <1>3, PTL DEF WorkspaceSpec

-----------------------------------------------------------------------------
(* Status and settings. *)

StatusRows ==
    /\ clock \in Nat
    /\ users \in [presence : Presences, manual : BOOLEAN, custom : CustomRow \cup {None}]
    /\ wrote \in [custom : CustomRow \cup {None}, settings : [Settings -> {"chosen", None}], level : {"mentions", None}]
    /\ user_preferences \in SettingsRow \cup {None}
    /\ notifications \in LevelRow \cup {None}

\* A custom status that a request is yet to write is one, or none.
WritesCustom(S) == \A o \in S : o.do = "write_custom" => o.x \in CustomRow \cup {None}
CustomPending == \E S : task \in [Tasks -> Seq(S)] /\ WritesCustom(S)

StatusInv == StatusRows /\ ChoicesAreKept /\ (area = "status" => CustomPending)

LEMMA StatusInvInit == RequestsInit /\ UserStatusInit => StatusInv
<1>. SUFFICES ASSUME RequestsInit, UserStatusInit PROVE StatusInv
  OBVIOUS
<1>1. task \in [Tasks -> Seq({})] /\ WritesCustom({})
  BY DEF RequestsInit, WritesCustom
<1>2. CustomPending
  BY <1>1 DEF CustomPending
<1>3. StatusRows
  BY DEF UserStatusInit, StatusRows, Presences, SettingsRow
<1>4. ChoicesAreKept
  BY DEF UserStatusInit, ChoicesAreKept
<1>. QED
  BY <1>2, <1>3, <1>4 DEF StatusInv

\* However a request goes on, what it is left to write is typed when what the step adds is.
LEMMA CustomPendingSteps ==
    ASSUME CustomPending, NEW t \in Tasks, NEW A, WritesCustom(A), NEW todo \in Seq(A),
           \/ Begin(t, todo) \/ GiveUp(t) \/ Interrupted(t)
           \/ (Busy(t) /\ Continue(t, todo)) \/ task' = task
    PROVE  CustomPending'
<1>1. PICK S : task \in [Tasks -> Seq(S)] /\ WritesCustom(S)
  BY DEF CustomPending
<1>. DEFINE R == S \cup A
<1>2. S \subseteq R /\ WritesCustom(R)
  BY <1>1 DEF WritesCustom
<1>3. todo \in Seq(R)
  OBVIOUS
<1>. HIDE DEF R
<1>4. task' \in [Tasks -> Seq(R)]
  BY <1>1, <1>2, <1>3, TaskSteps
<1>. QED
  BY <1>2, <1>4 DEF CustomPending

\* The lists that the requests about a status leave.
LEMMA StatusLists ==
    ASSUME NEW cs \in CustomRow \cup {None}, NEW x
    PROVE  LET A == {Stmt("read_recent", cs), Stmt("write_custom", cs), Stmt("clear_expired", None),
                     Stmt("read_snapshot", None), Stmt("write_recent", x), Stmt("broadcast", x)}
           IN  /\ WritesCustom(A)
               /\ <<>> \in Seq(A) /\ Announce \in Seq(A)
               /\ (IF cs = None THEN <<>> ELSE <<Stmt("read_recent", cs)>>) \o Announce \in Seq(A)
               /\ <<Stmt("write_custom", cs)>> \o Announce \in Seq(A)
               /\ (IF cs = None THEN <<>> ELSE <<Stmt("read_recent", cs)>>) \in Seq(A)
               /\ <<Stmt("write_recent", x)>> \in Seq(A)
               /\ <<Stmt("broadcast", x)>> \in Seq(A)
<1>. DEFINE A == {Stmt("read_recent", cs), Stmt("write_custom", cs), Stmt("clear_expired", None),
                  Stmt("read_snapshot", None), Stmt("write_recent", x), Stmt("broadcast", x)}
<1>1. WritesCustom(A)
  BY DEF WritesCustom, Stmt
<1>2. /\ Stmt("read_recent", cs) \in A /\ Stmt("write_custom", cs) \in A /\ Stmt("clear_expired", None) \in A
      /\ Stmt("read_snapshot", None) \in A /\ Stmt("write_recent", x) \in A /\ Stmt("broadcast", x) \in A
  OBVIOUS
<1>. HIDE DEF A
<1>3. Announce \in Seq(A)
  BY <1>2, ShortLists DEF Announce
<1>4. /\ <<>> \in Seq(A) /\ <<Stmt("read_recent", cs)>> \in Seq(A) /\ <<Stmt("write_custom", cs)>> \in Seq(A)
      /\ <<Stmt("write_recent", x)>> \in Seq(A) /\ <<Stmt("broadcast", x)>> \in Seq(A)
  BY <1>2, ShortLists
<1>5. \A r, q \in Seq(A) : r \o q \in Seq(A)
  OBVIOUS
<1>6. (IF cs = None THEN <<>> ELSE <<Stmt("read_recent", cs)>>) \in Seq(A)
  BY <1>4
<1>. QED
  BY <1>1, <1>3, <1>4, <1>5, <1>6 DEF A

\* What the statements about a status do to the rows.
LEMMA StatusEffects ==
    ASSUME StatusRows, ChoicesAreKept, UNCHANGED <<user_preferences, notifications>>,
           \/ /\ UNCHANGED clock
              /\ \/ UNCHANGED <<users, wrote>>
                 \/ \E cs \in CustomRow \cup {None} : WriteCustom(cs)
                 \/ users' = ClearExpired /\ UNCHANGED wrote
                 \/ (\E p \in Presences : users' = WritePresence(p)) /\ UNCHANGED wrote
           \/ clock' = clock + 1 /\ UNCHANGED <<users, wrote>>
    PROVE  StatusRows' /\ ChoicesAreKept'
<1>. USE DEF StatusRows
<1>1. CASE UNCHANGED <<clock, users, wrote>>
  BY <1>1 DEF ChoicesAreKept, StatusExpired
<1>2. ASSUME NEW cs \in CustomRow \cup {None}, WriteCustom(cs), UNCHANGED clock
      PROVE  StatusRows' /\ ChoicesAreKept'
  <2>1. users'.custom = cs /\ users' \in [presence : Presences, manual : BOOLEAN, custom : CustomRow \cup {None}]
    BY <1>2 DEF WriteCustom
  <2>2. /\ wrote'.custom = cs /\ wrote'.settings = wrote.settings /\ wrote'.level = wrote.level
        /\ wrote' \in [custom : CustomRow \cup {None}, settings : [Settings -> {"chosen", None}], level : {"mentions", None}]
    BY <1>2 DEF WriteCustom
  <2>. QED
    BY <1>2, <2>1, <2>2 DEF ChoicesAreKept
<1>3. CASE users' = ClearExpired /\ UNCHANGED <<clock, wrote>>
  <2>1. CASE StatusExpired(users.custom)
    <3>1. users' = [users EXCEPT !.custom = None]
      BY <1>3, <2>1 DEF ClearExpired
    <3>2. users'.custom = None /\ users' \in [presence : Presences, manual : BOOLEAN, custom : CustomRow \cup {None}]
      BY <3>1
    <3>3. StatusExpired(wrote.custom)
      BY <2>1 DEF ChoicesAreKept
    <3>4. StatusExpired(wrote.custom)'
      BY <1>3, <3>3 DEF StatusExpired
    <3>. QED
      BY <1>3, <3>2, <3>4 DEF ChoicesAreKept
  <2>2. CASE ~StatusExpired(users.custom)
    BY <1>1, <1>3, <2>2 DEF ClearExpired
  <2>. QED
    BY <2>1, <2>2
<1>4. ASSUME NEW p \in Presences, users' = WritePresence(p), UNCHANGED <<clock, wrote>>
      PROVE  StatusRows' /\ ChoicesAreKept'
  <2>1. users'.custom = users.custom
    BY <1>4 DEF WritePresence
  <2>2. users' \in [presence : Presences, manual : BOOLEAN, custom : CustomRow \cup {None}]
    <3>1. users' = [users EXCEPT !.presence = p, !.manual = p # "online"]
      BY <1>4 DEF WritePresence
    <3>2. (p # "online") \in BOOLEAN
      OBVIOUS
    <3>. QED
      BY <3>1, <3>2
  <2>. QED
    BY <1>4, <2>1, <2>2 DEF ChoicesAreKept, StatusExpired
<1>5. CASE clock' = clock + 1 /\ UNCHANGED <<users, wrote>>
  <2>1. StatusExpired(wrote.custom) => StatusExpired(wrote.custom)'
    BY <1>5, StatusAssumption DEF StatusExpired, CustomRow
  <2>. QED
    BY <1>5, <2>1 DEF ChoicesAreKept
<1>. QED
  BY <1>1, <1>2, <1>3, <1>4, <1>5

LEMMA StatusInvStatusNext == ASSUME StatusRows, ChoicesAreKept, CustomPending, StatusNext
                             PROVE  StatusRows' /\ ChoicesAreKept' /\ CustomPending'
<1>0. /\ None \in CustomRow \cup {None} /\ clock \in Nat
      /\ \A text \in Texts : \A until \in Nat \cup {None} : Custom(text, until) \in CustomRow \cup {None}
      /\ \A text \in Texts \cup {None}, d \in {"dont_clear", "date_and_time", "one_hour"} :
            build_custom_status_from_update_request(text, d) \in CustomRow \cup {None}
      /\ \A text \in Texts, d \in {"date_and_time", "one_hour"}, date \in {None, clock + 1} :
            Custom(text, to_expires_at(d, date)) \in CustomRow \cup {None}
  <2>1. clock \in Nat
    BY DEF StatusRows
  <2>2. \A d \in {"dont_clear", "date_and_time", "one_hour"}, date \in {None, clock + 1} :
           to_expires_at(d, date) \in Nat \cup {None}
    BY <2>1 DEF to_expires_at
  <2>3. \A text \in Texts : \A until \in Nat \cup {None} : Custom(text, until) \in CustomRow
    BY DEF Custom, CustomRow
  <2>. QED
    BY <2>1, <2>2, <2>3 DEF build_custom_status_from_update_request
\* The list that a step leaves, for each of the lists there are.
<1>1. ASSUME NEW t \in Tasks, NEW cs \in CustomRow \cup {None}, NEW x, NEW list,
             \/ list \in {<<>>, Announce, <<Stmt("write_recent", x)>>, <<Stmt("broadcast", x)>>}
             \/ list = (IF cs = None THEN <<>> ELSE <<Stmt("read_recent", cs)>>) \o Announce
             \/ list = <<Stmt("write_custom", cs)>> \o Announce
             \/ list = IF cs = None THEN <<>> ELSE <<Stmt("read_recent", cs)>>,
             \/ Begin(t, list) \/ GiveUp(t) \/ Interrupted(t)
             \/ (Busy(t) /\ Continue(t, list)) \/ task' = task
      PROVE  CustomPending'
  <2>. DEFINE A == {Stmt("read_recent", cs), Stmt("write_custom", cs), Stmt("clear_expired", None),
                    Stmt("read_snapshot", None), Stmt("write_recent", x), Stmt("broadcast", x)}
  <2>1. WritesCustom(A) /\ list \in Seq(A)
    BY <1>1, StatusLists
  <2>. HIDE DEF A
  <2>. QED
    BY <1>1, <2>1, CustomPendingSteps
<1>2. ASSUME NEW t \in Tasks, StatusRequest(t) PROVE StatusRows' /\ ChoicesAreKept' /\ CustomPending'
  <2>1. ASSUME NEW cs \in CustomRow \cup {None}, update_custom_status_internal(t, cs, Announce)
        PROVE  StatusRows' /\ ChoicesAreKept' /\ CustomPending'
    <3>1. CustomPending'
      BY <1>1, <2>1 DEF update_custom_status_internal
    <3>2. WriteCustom(cs) /\ UNCHANGED <<clock, user_preferences, notifications>>
      BY <2>1 DEF update_custom_status_internal
    <3>. QED
      BY <3>1, <3>2, StatusEffects
  <2>2. ASSUME NEW text \in Texts, NEW date \in {None, clock + 1}, update_user_custom_status(t, text, "date_and_time", date)
        PROVE  StatusRows' /\ ChoicesAreKept' /\ CustomPending'
    BY <1>0, <2>1, <2>2 DEF update_user_custom_status
  <2>3. ASSUME NEW text \in Texts, update_user_custom_status(t, text, "one_hour", None)
        PROVE  StatusRows' /\ ChoicesAreKept' /\ CustomPending'
    BY <1>0, <2>1, <2>3 DEF update_user_custom_status
  <2>4. CASE clear_user_custom_status(t)
    BY <1>0, <2>1, <2>4 DEF clear_user_custom_status
  <2>5. ASSUME NEW cs \in CustomRow \cup {None}, Begin(t, Announce), WriteCustom(cs),
               UNCHANGED <<clock, user_preferences, notifications>>
        PROVE  StatusRows' /\ ChoicesAreKept' /\ CustomPending'
    <3>1. CustomPending'
      BY <1>1, <2>5
    <3>. QED
      BY <2>5, <3>1, StatusEffects
  <2>6. CASE delete_my_status(t)
    BY <1>0, <2>5, <2>6 DEF delete_my_status
  <2>7. ASSUME NEW p \in Presences, NEW cs \in CustomRow \cup {None}, NEW then,
               then \in {Announce, <<Stmt("write_custom", cs)>> \o Announce}, update_user_status_internal(t, p, then)
        PROVE  StatusRows' /\ ChoicesAreKept' /\ CustomPending'
    <3>1. Begin(t, then) /\ users' = WritePresence(p) /\ UNCHANGED <<clock, user_preferences, notifications, wrote>>
      BY <2>7 DEF update_user_status_internal
    <3>2. CustomPending'
      BY <1>1, <2>7, <3>1
    <3>. QED
      BY <3>1, <3>2, StatusEffects
  <2>8. ASSUME NEW p \in Presences, update_user_status(t, p)
        PROVE  StatusRows' /\ ChoicesAreKept' /\ CustomPending'
    BY <1>0, <2>7, <2>8 DEF update_user_status
  <2>9. ASSUME NEW text \in Texts \cup {None}, NEW d \in {"dont_clear", "date_and_time", "one_hour"},
               update_my_status(t, "away", text, d) \/ update_my_status_v1(t, text, d)
        PROVE  StatusRows' /\ ChoicesAreKept' /\ CustomPending'
    <3>. DEFINE cs == build_custom_status_from_update_request(text, d)
    <3>1. cs \in CustomRow \cup {None} /\ "away" \in Presences
      BY <1>0 DEF Presences
    <3>2. CASE update_my_status(t, "away", text, d)
      <4>1. update_user_status_internal(t, "away", <<Stmt("write_custom", cs)>> \o Announce)
        BY <3>2 DEF update_my_status
      <4>. HIDE DEF cs
      <4>. QED
        BY <2>7, <3>1, <4>1
    <3>3. CASE update_my_status_v1(t, text, d)
      <4>1. Begin(t, Announce) /\ WriteCustom(cs) /\ UNCHANGED <<clock, user_preferences, notifications>>
        BY <3>3 DEF update_my_status_v1
      <4>. HIDE DEF cs
      <4>. QED
        BY <2>5, <3>1, <4>1
    <3>. QED
      BY <2>9, <3>2, <3>3
  <2>10. ASSUME NEW text \in Texts, delete_recent_custom_status(t, text)
         PROVE  StatusRows' /\ ChoicesAreKept' /\ CustomPending'
    <3>1. UNCHANGED <<clock, users, wrote, user_preferences, notifications>>
      BY <2>10 DEF delete_recent_custom_status, StatusVars
    <3>2. PICK x : Begin(t, <<Stmt("write_recent", x)>>)
      BY <2>10 DEF delete_recent_custom_status
    <3>3. CustomPending'
      BY <1>0, <1>1, <3>2
    <3>. QED
      BY <3>1, <3>3, StatusEffects
  <2>11. CASE (\E text \in Texts : update_preferences_internal(<<text>>)) \/ delete_preferences_for_user
    <3>1. UNCHANGED <<clock, users, wrote, user_preferences, notifications>> /\ task' = task
      BY <2>11 DEF update_preferences_internal, delete_preferences_for_user, Statement
    <3>2. CustomPending'
      BY <1>0, <1>1, <3>1
    <3>. QED
      BY <3>1, <3>2, StatusEffects
  <2>12. CASE get_user_status \/ run_custom_status_expiry_cleanup(t)
    <3>1. users' = ClearExpired /\ UNCHANGED <<clock, wrote, user_preferences, notifications>>
      BY <2>12 DEF get_user_status, run_custom_status_expiry_cleanup
    <3>2. Begin(t, Announce) \/ task' = task
      BY <2>12 DEF get_user_status, run_custom_status_expiry_cleanup, Statement
    <3>3. CustomPending'
      BY <1>0, <1>1, <3>2
    <3>. QED
      BY <3>1, <3>3, StatusEffects
  <2>. QED
    BY <1>2, <2>2, <2>3, <2>4, <2>6, <2>8, <2>9, <2>10, <2>11, <2>12 DEF StatusRequest
<1>3. ASSUME NEW t \in Tasks, Busy(t), StatusStep(t, Head(task[t]))
      PROVE  StatusRows' /\ ChoicesAreKept' /\ CustomPending'
  <2>. DEFINE o == Head(task[t])
  <2>1. o.do = "write_custom" => o.x \in CustomRow \cup {None}
    <3>1. PICK S : task \in [Tasks -> Seq(S)] /\ WritesCustom(S)
      BY DEF CustomPending
    <3>2. o \in S
      BY <1>3, <3>1 DEF Busy
    <3>. QED
      BY <3>1, <3>2 DEF WritesCustom
  <2>. HIDE DEF o
  <2>2. CASE WriteCustomLater(t, o)
    <3>1. o.x \in CustomRow \cup {None} /\ WriteCustom(o.x) /\ UNCHANGED <<clock, user_preferences, notifications>>
      BY <2>1, <2>2 DEF WriteCustomLater
    <3>2. Continue(t, IF o.x = None THEN <<>> ELSE <<Stmt("read_recent", o.x)>>)
      BY <2>2 DEF WriteCustomLater
    <3>3. CustomPending'
      BY <1>1, <1>3, <3>1, <3>2
    <3>. QED
      BY <3>1, <3>3, StatusEffects
  <2>3. CASE add_to_recent_custom_statuses(t, o)
    <3>1. UNCHANGED <<clock, users, wrote, user_preferences, notifications>>
      BY <2>3 DEF add_to_recent_custom_statuses, StatusVars
    <3>2. GiveUp(t) \/ \E x : Continue(t, <<Stmt("write_recent", x)>>)
      BY <2>3 DEF add_to_recent_custom_statuses
    <3>3. CustomPending'
      BY <1>0, <1>1, <1>3, <3>2
    <3>. QED
      BY <3>1, <3>3, StatusEffects
  <2>4. CASE WriteRecent(t, o) \/ broadcast_status_change(t, o)
    <3>1. UNCHANGED <<clock, users, wrote, user_preferences, notifications>> /\ Continue(t, <<>>)
      BY <2>4 DEF WriteRecent, broadcast_status_change
    <3>2. CustomPending'
      BY <1>0, <1>1, <1>3, <3>1
    <3>. QED
      BY <3>1, <3>2, StatusEffects
  <2>5. CASE clear_expired_custom_status_if_needed(t, o)
    <3>1. users' = ClearExpired /\ UNCHANGED <<clock, wrote, user_preferences, notifications>> /\ Continue(t, <<>>)
      BY <2>5 DEF clear_expired_custom_status_if_needed
    <3>2. CustomPending'
      BY <1>0, <1>1, <1>3, <3>1
    <3>. QED
      BY <3>1, <3>2, StatusEffects
  <2>6. CASE fetch_user_status_snapshot(t, o)
    <3>1. UNCHANGED <<clock, users, wrote, user_preferences, notifications>> /\ Continue(t, <<Stmt("broadcast", users)>>)
      BY <2>6 DEF fetch_user_status_snapshot, StatusVars
    <3>2. CustomPending'
      BY <1>0, <1>1, <1>3, <3>1
    <3>. QED
      BY <3>1, <3>2, StatusEffects
  <2>. QED
    BY <1>3, <2>2, <2>3, <2>4, <2>5, <2>6 DEF StatusStep, o
<1>4. ASSUME NEW t \in Tasks, Interrupted(t), UNCHANGED StatusVars
      PROVE  StatusRows' /\ ChoicesAreKept' /\ CustomPending'
  <2>1. CustomPending'
    BY <1>0, <1>1, <1>4
  <2>2. UNCHANGED <<clock, users, wrote, user_preferences, notifications>>
    BY <1>4 DEF StatusVars
  <2>. QED
    BY <2>1, <2>2, StatusEffects
<1>5. CASE TimePasses
  <2>1. clock' = clock + 1 /\ UNCHANGED <<users, wrote, user_preferences, notifications, task>>
    BY <1>5 DEF TimePasses, RequestVars
  <2>2. StatusRows' /\ ChoicesAreKept'
    BY <2>1, StatusEffects
  <2>3. CustomPending'
    BY <2>1 DEF CustomPending
  <2>. QED
    BY <2>2, <2>3
<1>. QED
  BY <1>2, <1>3, <1>4, <1>5 DEF StatusNext

\* The requests about settings.
LEMMA StatusInvSettingsNext == ASSUME StatusRows, ChoicesAreKept, SettingsNext
                               PROVE  StatusRows' /\ ChoicesAreKept'
<1>. USE DEF StatusRows
<1>1. CASE UNCHANGED <<clock, users, wrote, user_preferences, notifications>>
  BY <1>1, StatusEffects
<1>2. ASSUME NEW t \in Tasks, InsertDefaults(t, Head(task[t])) PROVE StatusRows' /\ ChoicesAreKept'
  <2>1. CASE user_preferences # None
    BY <1>1, <1>2, <2>1 DEF InsertDefaults
  <2>2. CASE user_preferences = None
    <3>1. user_preferences' = Defaults /\ UNCHANGED <<clock, users, wrote, notifications>>
      BY <1>2, <2>2 DEF InsertDefaults
    <3>2. Defaults \in SettingsRow
      BY DEF Defaults, SettingsRow, Settings
    <3>3. \A s \in Settings : wrote.settings[s] = None
      BY <2>2 DEF ChoicesAreKept
    <3>. QED
      BY <3>1, <3>2, <3>3 DEF ChoicesAreKept, StatusExpired
  <2>. QED
    BY <2>1, <2>2
<1>3. ASSUME NEW s \in Settings, update_my_preferences([x \in {s} |-> "chosen"])
      PROVE  StatusRows' /\ ChoicesAreKept'
  <2>. DEFINE prefs == [x \in Settings |-> IF x = s THEN "chosen"
                                         ELSE IF user_preferences # None THEN user_preferences[x]
                                         ELSE IF x \in BaseSettings THEN "default" ELSE None]
              said == [x \in Settings |-> IF x = s THEN "chosen" ELSE wrote.settings[x]]
  <2>1. user_preferences' = prefs
    BY <1>3 DEF update_my_preferences
  <2>2. wrote' = [wrote EXCEPT !.settings = said]
    BY <1>3 DEF update_my_preferences
  <2>3. UNCHANGED <<clock, users, notifications>>
    BY <1>3 DEF update_my_preferences
  <2>4. prefs \in SettingsRow /\ prefs # None
    BY StatusAssumption DEF SettingsRow, Settings
  <2>5. said \in [Settings -> {"chosen", None}] /\ \A x \in Settings : said[x] = IF x = s THEN "chosen" ELSE wrote.settings[x]
    OBVIOUS
  <2>6. \A x \in Settings : said[x] # None => prefs[x] = said[x]
    BY DEF ChoicesAreKept
  <2>. HIDE DEF prefs, said
  <2>7. /\ wrote'.settings = said /\ wrote'.custom = wrote.custom /\ wrote'.level = wrote.level
        /\ wrote' \in [custom : CustomRow \cup {None}, settings : [Settings -> {"chosen", None}], level : {"mentions", None}]
    BY <2>2, <2>5
  <2>. QED
    BY <2>1, <2>3, <2>4, <2>6, <2>7 DEF ChoicesAreKept, StatusExpired
<1>4. ASSUME NEW level \in {None, "mentions"}, NEW muted \in {"as_is", "yes", "no"}, update_channel_notifications(level, muted)
      PROVE  StatusRows' /\ ChoicesAreKept'
  <2>. DEFINE l == IF level # None THEN level ELSE IF notifications # None THEN notifications.level ELSE "default"
              m == IF muted # "as_is" THEN muted = "yes" ELSE IF notifications # None THEN notifications.muted ELSE FALSE
  <2>1. notifications' = [level |-> l, muted |-> m] /\ UNCHANGED <<clock, users, user_preferences>>
    BY <1>4 DEF update_channel_notifications
  <2>2. l \in {"default", "mentions"}
    BY DEF LevelRow
  <2>3. m \in BOOLEAN
    BY DEF LevelRow
  <2>4. level # None => l = level
    OBVIOUS
  <2>5. level = None /\ notifications # None => l = notifications.level
    OBVIOUS
  <2>. HIDE DEF l, m
  <2>6. notifications' \in LevelRow /\ notifications'.level = l
    BY <2>1, <2>2, <2>3 DEF LevelRow
  <2>7. notifications' # None
    BY <2>6, StatusAssumption
  <2>8. CASE level # None
    <3>1. wrote' = [wrote EXCEPT !.level = level]
      BY <1>4, <2>8 DEF update_channel_notifications
    <3>2. /\ wrote'.settings = wrote.settings /\ wrote'.custom = wrote.custom /\ wrote'.level = level
          /\ wrote' \in [custom : CustomRow \cup {None}, settings : [Settings -> {"chosen", None}], level : {"mentions", None}]
      BY <3>1
    <3>. QED
      BY <2>1, <2>4, <2>6, <2>7, <2>8, <3>2 DEF ChoicesAreKept, StatusExpired
  <2>9. CASE level = None
    <3>1. wrote' = wrote
      BY <1>4, <2>9 DEF update_channel_notifications
    <3>. QED
      BY <2>1, <2>5, <2>6, <2>7, <2>9, <3>1 DEF ChoicesAreKept, StatusExpired
  <2>. QED
    BY <2>8, <2>9
<1>. QED
  BY <1>1, <1>2, <1>3, <1>4
     DEF SettingsNext, SettingsRequest, get_my_preferences, create_status_preset, delete_status_preset, StatusVars

\* The custom status, the settings and the level that the user wrote last stand, whatever readers, the
\* worker and requests that were cut short do beside them, for any number of requests at once
\* (status.rs, clear_expired_custom_statuses; preferences.rs, get_my_preferences).
THEOREM ChoicesAreKeptAlways == WorkspaceSpec => []ChoicesAreKept
<1>1. WorkspaceInit => StatusInv
  BY StatusInvInit DEF WorkspaceInit
<1>2. StatusInv /\ [WorkspaceNext]_WorkspaceVars => StatusInv'
  <2>. SUFFICES ASSUME StatusInv, [WorkspaceNext]_WorkspaceVars PROVE StatusInv'
    OBVIOUS
  <2>1. area' = area
    BY AreaSteps
  <2>2. CASE UNCHANGED StatusVars /\ (area # "status" \/ UNCHANGED RequestVars)
    <3>1. StatusRows' /\ ChoicesAreKept'
      BY <2>2, StatusEffects DEF StatusInv, StatusVars
    <3>2. area = "status" => CustomPending'
      BY <2>2 DEF StatusInv, CustomPending, RequestVars
    <3>. QED
      BY <2>1, <3>1, <3>2 DEF StatusInv
  <2>3. CASE area = "status" /\ StatusNext
    BY <2>1, <2>3, StatusInvStatusNext DEF StatusInv
  <2>4. CASE area = "settings" /\ SettingsNext
    BY <2>1, <2>4, StatusInvSettingsNext DEF StatusInv
  <2>. QED
    BY <2>2, <2>3, <2>4, AreaSteps
<1>3. StatusInv => ChoicesAreKept
  BY DEF StatusInv
<1>. QED
  BY <1>1, <1>2, <1>3, PTL DEF WorkspaceSpec
-----------------------------------------------------------------------------
(* Media. *)

\* A registered track has a task that registered it and has not unregistered it; a listed one has a task
\* of its session that listed it and has not ended.
Stages == {"register", "list", "forward", "unlist"}
RegisteredBy(k)  == \E f \in forwarders : f.k = k /\ f.at \in {"list", "forward"}
ListedBy(k, s)   == \E f \in forwarders : f.k = k /\ f.s = s /\ f.at \in {"forward", "unlist"}
IsForwarder(f) ==
    \E conn, voice : \E k \in TrackIds, s \in MediaSessions, at \in Stages :
        f = [k |-> k, s |-> s, conn |-> conn, at |-> at, voice |-> voice]
TracksType ==
    /\ DOMAIN tracks = TrackIds
    /\ session_tracks \in [MediaSessions -> SUBSET TrackIds]
    /\ \A f \in forwarders : IsForwarder(f)
TracksInv ==
    /\ TracksType
    /\ \A k \in TrackIds : tracks[k] # None => RegisteredBy(k)
    /\ \A s \in MediaSessions : \A k \in session_tracks[s] : ListedBy(k, s)

\* TracksInv is what Sfu starts with and keeps, and it implies TracksAreForwarded.
LEMMA TracksInvInit == SfuInit => TracksInv
BY DEF SfuInit, TracksInv, TracksType

LEMMA TracksInvNext == TracksInv /\ SfuNext => TracksInv'
<1>. SUFFICES ASSUME TracksInv, SfuNext PROVE TracksInv'
  OBVIOUS
<1>. USE DEF TracksInv
<1>1. CASE UNCHANGED <<tracks, session_tracks, forwarders>>
  BY <1>1 DEF TracksType, RegisteredBy, ListedBy
<1>2. ASSUME NEW f \in forwarders, NEW at \in Stages, NEW v, forwarders' = (forwarders \ {f}) \cup {v},
             v.k = f.k, v.s = f.s, v.at = at, IsForwarder(v)
      PROVE  /\ \A g \in forwarders' : IsForwarder(g)
             /\ \A k \in TrackIds : RegisteredBy(k) /\ (k # f.k \/ at \in {"list", "forward"}) => RegisteredBy(k)'
             /\ \A k \in TrackIds, s \in MediaSessions :
                   ListedBy(k, s) /\ (k # f.k \/ s # f.s \/ at \in {"forward", "unlist"}) => ListedBy(k, s)'
             /\ at \in {"list", "forward"} => RegisteredBy(f.k)'
             /\ at \in {"forward", "unlist"} => ListedBy(f.k, f.s)'
  <2>1. v \in forwarders' /\ \A g \in forwarders \ {f} : g \in forwarders'
    BY <1>2
  <2>2. \A g \in forwarders' : g = v \/ g \in forwarders
    BY <1>2
  <2>3. \A g \in forwarders' : IsForwarder(g)
    BY <1>2, <2>2 DEF TracksType
  <2>. QED
    BY <1>2, <2>1, <2>3 DEF RegisteredBy, ListedBy
<1>3. ASSUME NEW f \in forwarders
      PROVE  /\ f.k \in TrackIds /\ f.s \in MediaSessions
             /\ \A at \in Stages : LET v == [f EXCEPT !.at = at]
                                   IN  v.k = f.k /\ v.s = f.s /\ v.at = at /\ IsForwarder(v)
             /\ LET v == [f EXCEPT !.voice = TRUE]
                IN  v.k = f.k /\ v.s = f.s /\ v.at = f.at /\ f.at \in Stages /\ IsForwarder(v)
  <2>0. PICK conn, voice : \E k \in TrackIds, s \in MediaSessions, at \in Stages :
           f = [k |-> k, s |-> s, conn |-> conn, at |-> at, voice |-> voice]
    <3>1. IsForwarder(f)
      BY DEF TracksType
    <3>. QED
      BY <3>1 DEF IsForwarder
  <2>1. PICK k \in TrackIds, s \in MediaSessions, at \in Stages :
           f = [k |-> k, s |-> s, conn |-> conn, at |-> at, voice |-> voice]
    BY <2>0
  <2>2. \A a \in Stages : [f EXCEPT !.at = a] = [k |-> k, s |-> s, conn |-> conn, at |-> a, voice |-> voice]
    BY <2>1
  <2>3. [f EXCEPT !.voice = TRUE] = [k |-> k, s |-> s, conn |-> conn, at |-> at, voice |-> TRUE]
    <3>1. \A y : [f EXCEPT !.voice = y] = [k |-> k, s |-> s, conn |-> conn, at |-> at, voice |-> y]
      BY <2>1
    <3>. QED
      BY <3>1, Zenon
  <2>4. f.k = k /\ f.s = s /\ f.at = at
    BY <2>1
  <2>5. ASSUME NEW a \in Stages
        PROVE  LET v == [f EXCEPT !.at = a] IN v.k = f.k /\ v.s = f.s /\ v.at = a /\ IsForwarder(v)
    <3>1. PICK v : v = [f EXCEPT !.at = a]
      OBVIOUS
    <3>2. v = [k |-> k, s |-> s, conn |-> conn, at |-> a, voice |-> voice]
      BY <2>2, <3>1
    <3>3. IsForwarder(v)
      BY <3>2 DEF IsForwarder
    <3>4. v.k = f.k /\ v.s = f.s /\ v.at = a
      BY <2>4, <3>2
    <3>. QED
      BY <3>1, <3>3, <3>4
  <2>6. LET v == [f EXCEPT !.voice = TRUE]
        IN  v.k = f.k /\ v.s = f.s /\ v.at = f.at /\ f.at \in Stages /\ IsForwarder(v)
    <3>1. PICK v : v = [f EXCEPT !.voice = TRUE]
      OBVIOUS
    <3>2. v = [k |-> k, s |-> s, conn |-> conn, at |-> at, voice |-> TRUE]
      BY <2>3, <3>1
    <3>3. IsForwarder(v)
      BY <3>2 DEF IsForwarder
    <3>4. v.k = f.k /\ v.s = f.s /\ v.at = f.at
      BY <2>4, <3>2
    <3>. QED
      BY <2>4, <3>1, <3>3, <3>4
  <2>. QED
    BY <2>4, <2>5, <2>6
<1>4. ASSUME NEW t \in Tasks, NEW o, DropTracks(t, o) \/ DropSession(t, o) PROVE TracksInv'
  <2>1. /\ \A k \in TrackIds : tracks'[k] # None => tracks[k] # None
        /\ DOMAIN tracks' = TrackIds /\ forwarders' = forwarders
    BY <1>4 DEF DropTracks, DropSession, TracksType
  <2>2. /\ session_tracks' \in [MediaSessions -> SUBSET TrackIds]
        /\ \A s \in MediaSessions : session_tracks'[s] \subseteq session_tracks[s]
    BY <1>4 DEF DropTracks, DropSession, TracksType
  <2>. QED
    BY <2>1, <2>2 DEF TracksType, RegisteredBy, ListedBy
<1>5. ASSUME NEW k \in TrackIds, NEW s \in MediaSessions, NEW conn, on_track(k, s, conn) PROVE TracksInv'
  <2>. DEFINE v == Forwarder(k, s, conn, "register")
  <2>1. forwarders' = forwarders \cup {v} /\ UNCHANGED <<tracks, session_tracks>>
    BY <1>5 DEF on_track
  <2>2. IsForwarder(v)
    <3>1. v = [k |-> k, s |-> s, conn |-> conn, at |-> "register", voice |-> FALSE] /\ "register" \in Stages
      BY DEF Forwarder, Stages
    <3>. QED
      BY <3>1 DEF IsForwarder
  <2>. HIDE DEF v
  <2>3. \A g \in forwarders : g \in forwarders'
    BY <2>1
  <2>4. TracksType'
    BY <2>1, <2>2 DEF TracksType
  <2>. QED
    BY <2>1, <2>3, <2>4 DEF RegisteredBy, ListedBy
<1>6. ASSUME NEW f \in forwarders, register_track(f) PROVE TracksInv'
  <2>. DEFINE v == [f EXCEPT !.at = "list"]
  <2>1. /\ forwarders' = (forwarders \ {f}) \cup {v} /\ tracks' = [tracks EXCEPT ![f.k] = f.s]
        /\ session_tracks' = session_tracks /\ f.at = "register" /\ "list" \in Stages
    BY <1>6 DEF register_track, Moves, Stages
  <2>2. /\ v.k = f.k /\ v.s = f.s /\ v.at = "list" /\ f.k \in TrackIds /\ f.s \in MediaSessions
        /\ IsForwarder(v)
    BY <1>3, <2>1
  <2>. HIDE DEF v
  <2>3. /\ TracksType'
        /\ \A k \in TrackIds : RegisteredBy(k) => RegisteredBy(k)'
        /\ RegisteredBy(f.k)'
        /\ \A k \in TrackIds, s \in MediaSessions : ListedBy(k, s) /\ (k # f.k \/ s # f.s) => ListedBy(k, s)'
    BY <1>2, <2>1, <2>2 DEF TracksType
  <2>4. ListedBy(f.k, f.s) => ListedBy(f.k, f.s)'
    BY <2>1 DEF ListedBy
  <2>5. \A k \in TrackIds : k # f.k => tracks'[k] = tracks[k]
    BY <2>1 DEF TracksType
  <2>. QED
    BY <2>1, <2>2, <2>3, <2>4, <2>5 DEF TracksType
<1>7. ASSUME NEW f \in forwarders, ListTrack(f) PROVE TracksInv'
  <2>. DEFINE v == [f EXCEPT !.at = "forward"]
  <2>1. /\ forwarders' = (forwarders \ {f}) \cup {v} /\ session_tracks' = [session_tracks EXCEPT ![f.s] = @ \cup {f.k}]
        /\ tracks' = tracks /\ f.at = "list" /\ "forward" \in Stages
    BY <1>7 DEF ListTrack, Moves, Stages
  <2>2. /\ v.k = f.k /\ v.s = f.s /\ v.at = "forward" /\ f.k \in TrackIds /\ f.s \in MediaSessions
        /\ IsForwarder(v)
    BY <1>3, <2>1
  <2>. HIDE DEF v
  <2>3. /\ \A k \in TrackIds : RegisteredBy(k) => RegisteredBy(k)'
        /\ \A k \in TrackIds, s \in MediaSessions : ListedBy(k, s) => ListedBy(k, s)'
        /\ ListedBy(f.k, f.s)'
    BY <1>2, <2>1, <2>2
  <2>4. /\ session_tracks' \in [MediaSessions -> SUBSET TrackIds]
        /\ \A s \in MediaSessions : \A k \in session_tracks'[s] : k \in session_tracks[s] \/ (k = f.k /\ s = f.s)
    BY <2>1, <2>2 DEF TracksType
  <2>5. TracksType'
    BY <1>2, <2>1, <2>2, <2>4 DEF TracksType
  <2>6. \A s \in MediaSessions : \A k \in session_tracks[s] : k \in TrackIds
    BY DEF TracksType
  <2>. QED
    BY <2>1, <2>2, <2>3, <2>4, <2>5, <2>6
<1>8. ASSUME NEW f \in forwarders, forward_track(f) PROVE TracksInv'
  <2>. DEFINE v == [f EXCEPT !.voice = TRUE]
  <2>1. /\ forwarders' = (forwarders \ {f}) \cup {v} /\ UNCHANGED <<tracks, session_tracks>> /\ f.at = "forward"
    BY <1>8 DEF forward_track
  <2>2. /\ v.k = f.k /\ v.s = f.s /\ v.at = f.at /\ f.k \in TrackIds /\ f.s \in MediaSessions /\ f.at \in Stages
        /\ IsForwarder(v)
    BY <1>3
  <2>. HIDE DEF v
  <2>3. /\ TracksType'
        /\ \A k \in TrackIds : RegisteredBy(k) => RegisteredBy(k)'
        /\ \A k \in TrackIds, s \in MediaSessions : ListedBy(k, s) => ListedBy(k, s)'
    BY <1>2, <2>1, <2>2 DEF TracksType
  <2>4. \A s \in MediaSessions : \A k \in session_tracks[s] : k \in TrackIds
    BY DEF TracksType
  <2>. QED
    BY <2>1, <2>3, <2>4
<1>9. ASSUME NEW f \in forwarders, EndOfTrack(f) PROVE TracksInv'
  <2>. DEFINE v == [f EXCEPT !.at = "unlist"]
  <2>1. /\ forwarders' = (forwarders \ {f}) \cup {v} /\ tracks' = [tracks EXCEPT ![f.k] = None]
        /\ session_tracks' = session_tracks /\ f.at = "forward" /\ "unlist" \in Stages
    BY <1>9 DEF EndOfTrack, Moves, Stages
  <2>2. /\ v.k = f.k /\ v.s = f.s /\ v.at = "unlist" /\ f.k \in TrackIds /\ f.s \in MediaSessions
        /\ IsForwarder(v)
    BY <1>3, <2>1
  <2>. HIDE DEF v
  <2>3. /\ TracksType'
        /\ \A k \in TrackIds : RegisteredBy(k) /\ k # f.k => RegisteredBy(k)'
        /\ \A k \in TrackIds, s \in MediaSessions : ListedBy(k, s) => ListedBy(k, s)'
    BY <1>2, <2>1, <2>2 DEF TracksType
  <2>4. \A s \in MediaSessions : \A k \in session_tracks[s] : k \in TrackIds
    BY DEF TracksType
  <2>5. tracks'[f.k] = None /\ \A k \in TrackIds : k # f.k => tracks'[k] = tracks[k]
    BY <2>1, <2>2 DEF TracksType
  <2>. QED
    BY <2>1, <2>3, <2>4, <2>5
<1>10. ASSUME NEW f \in forwarders, unregister_track(f) PROVE TracksInv'
  <2>1. /\ forwarders' = forwarders \ {f} /\ session_tracks' = [session_tracks EXCEPT ![f.s] = @ \ {f.k}]
        /\ tracks' = tracks /\ f.at = "unlist"
    BY <1>10 DEF unregister_track
  <2>2. f.k \in TrackIds /\ f.s \in MediaSessions
    BY <1>3
  <2>3. /\ session_tracks' \in [MediaSessions -> SUBSET TrackIds]
        /\ \A s \in MediaSessions : \A k \in session_tracks'[s] : k \in session_tracks[s] /\ (k # f.k \/ s # f.s)
    BY <2>1, <2>2 DEF TracksType
  <2>4. TracksType'
    BY <2>1, <2>3 DEF TracksType
  <2>5. \A k : RegisteredBy(k) => RegisteredBy(k)'
    BY <2>1 DEF RegisteredBy
  <2>6. \A k, s : ListedBy(k, s) /\ (k # f.k \/ s # f.s) => ListedBy(k, s)'
    BY <2>1 DEF ListedBy
  <2>. QED
    BY <2>1, <2>3, <2>4, <2>5, <2>6
<1>11. ASSUME NEW t \in Tasks, SfuRequest(t) PROVE TracksInv'
  BY <1>1, <1>5, <1>11 DEF SfuRequest, Joins, Leaves, Offers, Sends, set_screen_sharing, SfuVars
<1>12. ASSUME NEW t \in Tasks, NEW o, SfuStep(t, o) PROVE TracksInv'
  BY <1>1, <1>4, <1>12
     DEF SfuStep, PresentParticipant, get_signaling_receiver, MissingParticipant, add_participant, register_channel,
         AddFails, remove_participant, CloseFails, remove_participant_tracks, ForgetSession, recreate_participant, handle_offer,
         set_remote_description, DescriptionFails, flush_pending_ice_candidates, FlushFails, handle_ice_candidate,
         QueueCandidate, SfuVars
<1>. QED
  BY <1>6, <1>7, <1>8, <1>9, <1>10, <1>11, <1>12 DEF SfuNext, ForwarderStep

\* A registered or listed track has a task that forwards it, for any number of sessions, connections and
\* tracks, whatever removals and new connections come between (sfu/mod.rs, forward_track).
THEOREM TracksAreForwardedAlways == WorkspaceSpec => []TracksAreForwarded
<1>1. WorkspaceInit => TracksInv
  BY TracksInvInit DEF WorkspaceInit
<1>2. TracksInv /\ [WorkspaceNext]_WorkspaceVars => TracksInv'
  <2>. SUFFICES ASSUME TracksInv, [WorkspaceNext]_WorkspaceVars PROVE TracksInv'
    OBVIOUS
  <2>1. CASE UNCHANGED SfuVars
    BY <2>1 DEF TracksInv, TracksType, RegisteredBy, ListedBy, SfuVars
  <2>2. CASE SfuNext
    BY <2>2, TracksInvNext
  <2>. QED
    BY <2>1, <2>2, AreaSteps
<1>3. TracksInv => TracksAreForwarded
  BY DEF TracksInv, TracksAreForwarded, RegisteredBy, ListedBy
<1>. QED
  BY <1>1, <1>2, <1>3, PTL DEF WorkspaceSpec

\* A candidate is under way in a request, the last statement of which will add or queue it; it waits in a
\* session's queue; or it was added.
Carrying(o) == o.do \in {"candidate", "queue"}
MediaStmt(o, d, n) ==
    /\ o.do \in {"offer", "describe", "flush"} => o.x.s \in MediaSessions
    /\ o.do = "flush" => o.x.conn \in d
    /\ Carrying(o) => o.x.c \in n
Lawful(list, d, n) == \E A : list \in Seq(A) /\ \A o \in A : MediaStmt(o, d, n)
Silent(list, d, n) == \E A : list \in Seq(A) /\ \A o \in A : MediaStmt(o, d, n) /\ ~Carrying(o)
LastCarries(list) == \A i \in 1..Len(list) : Carrying(list[i]) => i = Len(list)
Borne(list) == {o.x.c : o \in {p \in Elems(list) : Carrying(p)}}

MediaLists ==
    /\ \E S : task \in [Tasks -> Seq(S)] /\ \A o \in S : MediaStmt(o, described, sent)
    /\ \A t \in Tasks : LastCarries(task[t])

Pairs(D) == Candidates \X D
Fetched(list) == {list[i][1] : i \in 1..Len(list)}
DistinctIn(list) == \A i, j \in 1..Len(list) : list[i] = list[j] => i = j
FetchedOnce(list) == \A i, j \in 1..Len(list) : list[i][1] = list[j][1] => i = j

CandidateRows ==
    /\ sent \subseteq Candidates
    /\ pending_ice_candidates \in [MediaSessions -> Seq(Candidates)]
    /\ added \in Seq(Pairs(described))
    /\ FetchedOnce(added) /\ Fetched(added) \subseteq sent
    /\ \A s \in MediaSessions : /\ DistinctIn(pending_ice_candidates[s])
                                /\ Elems(pending_ice_candidates[s]) \subseteq sent \ Fetched(added)
    /\ \A r, s \in MediaSessions : r # s => Elems(pending_ice_candidates[r]) \cap Elems(pending_ice_candidates[s]) = {}
CandidatesBorne ==
    /\ \A t \in Tasks : Borne(task[t]) \cap Fetched(added) = {}
    /\ \A t \in Tasks, s \in MediaSessions : Borne(task[t]) \cap Elems(pending_ice_candidates[s]) = {}
    /\ \A t, u \in Tasks : t # u => Borne(task[t]) \cap Borne(task[u]) = {}
CandidateInv == CandidateRows /\ (area = "media" => MediaLists /\ CandidatesBorne)

\* A request's list is replaced by another.
LEMMA MediaListStep ==
    ASSUME MediaLists, NEW t \in Tasks, NEW list, Lawful(list, described', sent'), LastCarries(list),
           described \subseteq described', sent \subseteq sent', task' = [task EXCEPT ![t] = list]
    PROVE  /\ MediaLists'
           /\ task'[t] = list /\ \A u \in Tasks : u # t => task'[u] = task[u]
<1>0. PICK A : list \in Seq(A) /\ \A o \in A : MediaStmt(o, described', sent')
  BY DEF Lawful
<1>1. PICK S : task \in [Tasks -> Seq(S)] /\ \A o \in S : MediaStmt(o, described, sent)
  BY DEF MediaLists
<1>. DEFINE R == S \cup A
<1>2. \A o \in R : MediaStmt(o, described', sent')
  BY <1>0, <1>1 DEF MediaStmt
<1>3. task' \in [Tasks -> Seq(R)] /\ task'[t] = list /\ \A u \in Tasks : u # t => task'[u] = task[u]
  <2>1. \A q \in Seq(S) : q \in Seq(R)
    OBVIOUS
  <2>2. list \in Seq(R)
    BY <1>0
  <2>. QED
    BY <1>1, <2>1, <2>2
<1>. HIDE DEF R
<1>4. \A u \in Tasks : LastCarries(task'[u])
  BY <1>3 DEF MediaLists
<1>. QED
  BY <1>2, <1>3, <1>4 DEF MediaLists

LEMMA BorneFacts ==
    /\ Borne(<<>>) = {} /\ LastCarries(<<>>)
    /\ \A list : (\A o \in Elems(list) : ~Carrying(o)) => Borne(list) = {} /\ LastCarries(list)
    /\ \A o : Carrying(o) => Borne(<<o>>) = {o.x.c} /\ LastCarries(<<o>>)
    /\ \A o, p : ~Carrying(o) /\ Carrying(p) => Borne(<<o, p>>) = {p.x.c} /\ LastCarries(<<o, p>>)
<1>1. ASSUME NEW list, \A o \in Elems(list) : ~Carrying(o) PROVE Borne(list) = {} /\ LastCarries(list)
  BY <1>1 DEF Borne, LastCarries, Elems
<1>2. Borne(<<>>) = {} /\ LastCarries(<<>>)
  BY <1>1, ShortLists
<1>3. ASSUME NEW o, Carrying(o) PROVE Borne(<<o>>) = {o.x.c} /\ LastCarries(<<o>>)
  <2>1. Elems(<<o>>) = {o} /\ Len(<<o>>) = 1
    BY ShortLists
  <2>2. Borne(<<o>>) = {o.x.c}
    BY <1>3, <2>1 DEF Borne
  <2>. QED
    BY <2>1, <2>2 DEF LastCarries
<1>4. ASSUME NEW o, NEW p, ~Carrying(o), Carrying(p) PROVE Borne(<<o, p>>) = {p.x.c} /\ LastCarries(<<o, p>>)
  <2>1. Elems(<<o, p>>) = {o, p} /\ Len(<<o, p>>) = 2 /\ <<o, p>>[1] = o
    BY ShortLists
  <2>2. Borne(<<o, p>>) = {p.x.c}
    BY <1>4, <2>1 DEF Borne
  <2>3. \A i \in 1..2 : i = 1 \/ i = 2
    OBVIOUS
  <2>. QED
    BY <1>4, <2>1, <2>2, <2>3 DEF LastCarries
<1>. QED
  BY <1>1, <1>2, <1>3, <1>4

\* A request that goes on with statements that carry nothing, or is cut short, carries no more than before.
LEMMA SilentLists ==
    ASSUME MediaLists, NEW t \in Tasks, NEW more, Silent(more, described', sent'), sent' = sent, described \subseteq described',
           task' = [task EXCEPT ![t] = more] \/ (Busy(t) /\ Continue(t, more))
    PROVE  /\ MediaLists'
           /\ \A u \in Tasks : Borne(task'[u]) \subseteq Borne(task[u])
           /\ Busy(t) /\ Carrying(Head(task[t])) => Borne(task'[t]) = {}
<1>a. PICK A : more \in Seq(A) /\ \A o \in A : MediaStmt(o, described', sent') /\ ~Carrying(o)
  BY DEF Silent
<1>0. \A o \in Elems(more) : ~Carrying(o)
  BY <1>a DEF Elems
<1>1. CASE task' = [task EXCEPT ![t] = more]
  <2>1. Borne(more) = {} /\ LastCarries(more) /\ Lawful(more, described', sent')
    BY <1>a, <1>0, BorneFacts DEF Lawful
  <2>. QED
    BY <1>1, <2>1, MediaListStep
<1>2. CASE Busy(t) /\ Continue(t, more)
  <2>1. PICK S : task \in [Tasks -> Seq(S)] /\ \A o \in S : MediaStmt(o, described, sent)
    BY DEF MediaLists
  <2>. DEFINE R == S \cup A
              list == task[t]
              rest == Tail(list)
              next == more \o rest
  <2>2. \A o \in R : MediaStmt(o, described', sent')
    BY <1>a, <2>1 DEF MediaStmt
  <2>3. /\ list \in Seq(S) /\ list # <<>> /\ Len(list) \in Nat \ {0} /\ LastCarries(list)
        /\ rest \in Seq(S) /\ Len(rest) = Len(list) - 1 /\ \A i \in 1..Len(rest) : rest[i] = list[i + 1]
        /\ Head(list) = list[1]
    BY <1>2, <2>1 DEF Busy, MediaLists
  <2>4. more \in Seq(R) /\ rest \in Seq(R)
    BY <1>a, <2>3
  <2>. HIDE DEF R
  <2>5. /\ next \in Seq(R) /\ Len(next) = Len(more) + Len(rest) /\ Len(more) \in Nat
        /\ \A i \in 1..Len(next) : next[i] = IF i <= Len(more) THEN more[i] ELSE rest[i - Len(more)]
    BY <2>4
  <2>6. task' = [task EXCEPT ![t] = next]
    BY <1>2 DEF Continue
  <2>. HIDE DEF list, rest, next
  <2>7. ASSUME NEW i \in 1..Len(next), Carrying(next[i])
        PROVE  i = Len(next) /\ (\E j \in 1..Len(list) : next[i] = list[j]) /\ ~Carrying(Head(list))
    <3>1. ~(i <= Len(more))
      BY <1>0, <2>5, <2>7 DEF Elems
    <3>0. Len(rest) \in Nat /\ Len(more) \in Nat /\ Len(next) = Len(more) + Len(rest) /\ i \in 1..Len(next)
      BY <2>3, <2>5
    <3>7. i - Len(more) \in 1..Len(rest)
      BY <3>0, <3>1
    <3>2. i - Len(more) \in 1..Len(rest) /\ next[i] = rest[i - Len(more)]
      BY <2>5, <3>1, <3>7
    <3>3. PICK j \in 1..Len(rest) : j = i - Len(more) /\ next[i] = rest[j]
      BY <3>2
    <3>4. next[i] = list[j + 1] /\ j + 1 \in 1..Len(list)
      BY <2>3, <3>3
    <3>5. j + 1 = Len(list)
      BY <2>3, <2>7, <3>4 DEF LastCarries
    <3>6. 1 \in 1..Len(list) /\ 1 # Len(list)
      BY <2>3, <3>3, <3>5
    <3>. QED
      BY <2>3, <2>5, <3>3, <3>4, <3>5, <3>6 DEF LastCarries
  <2>8. LastCarries(next)
    BY <2>7 DEF LastCarries
  <2>9. Borne(next) \subseteq Borne(list) /\ (Carrying(Head(list)) => Borne(next) = {})
    <3>1. ASSUME NEW c \in Borne(next) PROVE c \in Borne(list) /\ ~Carrying(Head(list))
      <4>1. PICK o \in Elems(next) : Carrying(o) /\ c = o.x.c
        BY <3>1 DEF Borne
      <4>2. PICK i \in 1..Len(next) : o = next[i]
        BY <4>1 DEF Elems
      <4>3. ~Carrying(Head(list)) /\ o \in Elems(list)
        BY <2>7, <4>1, <4>2 DEF Elems
      <4>. QED
        BY <4>1, <4>3 DEF Borne
    <3>. QED
      BY <3>1
  <2>10. MediaLists' /\ task'[t] = next /\ \A u \in Tasks : u # t => task'[u] = task[u]
    <3>1. Lawful(next, described', sent')
      BY <2>2, <2>5 DEF Lawful
    <3>. QED
      BY <2>6, <2>8, <3>1, MediaListStep
  <2>. QED
    BY <2>9, <2>10 DEF list
<1>. QED
  BY <1>1, <1>2

LEMMA SilentShort ==
    /\ \A d, n : Silent(<<>>, d, n)
    /\ \A d, n, o : MediaStmt(o, d, n) /\ ~Carrying(o) => Silent(<<o>>, d, n)
    /\ \A d, n, o, p : MediaStmt(o, d, n) /\ ~Carrying(o) /\ MediaStmt(p, d, n) /\ ~Carrying(p) => Silent(<<o, p>>, d, n)
<1>1. ASSUME NEW d, NEW n PROVE Silent(<<>>, d, n)
  <2>1. PICK A : A = {}
    OBVIOUS
  <2>2. <<>> \in Seq(A) /\ \A o \in A : MediaStmt(o, d, n) /\ ~Carrying(o)
    BY <2>1
  <2>. QED
    BY <2>2 DEF Silent
<1>2. ASSUME NEW d, NEW n, NEW o, MediaStmt(o, d, n), ~Carrying(o) PROVE Silent(<<o>>, d, n)
  <2>1. PICK A : A = {o}
    OBVIOUS
  <2>2. <<o>> \in Seq(A) /\ \A q \in A : MediaStmt(q, d, n) /\ ~Carrying(q)
    BY <1>2, <2>1, ShortLists
  <2>. QED
    BY <2>2 DEF Silent
<1>3. ASSUME NEW d, NEW n, NEW o, NEW p, MediaStmt(o, d, n), ~Carrying(o), MediaStmt(p, d, n), ~Carrying(p)
      PROVE  Silent(<<o, p>>, d, n)
  <2>1. PICK A : A = {o, p}
    OBVIOUS
  <2>2. <<o, p>> \in Seq(A) /\ \A q \in A : MediaStmt(q, d, n) /\ ~Carrying(q)
    BY <1>3, <2>1, ShortLists
  <2>. QED
    BY <2>2 DEF Silent
<1>. QED
  BY <1>1, <1>2, <1>3

\* A step that adds nothing, takes whole queues away at most and bears no new candidate.
LEMMA QuietCandidates ==
    ASSUME CandidateRows, CandidatesBorne, sent' = sent, added' = added, described \subseteq described',
           pending_ice_candidates' \in [MediaSessions -> Seq(Candidates)],
           \A s \in MediaSessions : pending_ice_candidates'[s] \in {pending_ice_candidates[s], <<>>},
           \A u \in Tasks : Borne(task'[u]) \subseteq Borne(task[u])
    PROVE  CandidateRows' /\ CandidatesBorne'
<1>1. added' \in Seq(Pairs(described'))
  <2>1. Pairs(described) \subseteq Pairs(described')
    BY DEF Pairs
  <2>2. \A A, B : A \subseteq B => \A q \in Seq(A) : q \in Seq(B)
    OBVIOUS
  <2>. QED
    BY <2>1, <2>2 DEF CandidateRows
<1>2. \A s \in MediaSessions : /\ DistinctIn(pending_ice_candidates'[s])
                               /\ Elems(pending_ice_candidates'[s]) \subseteq Elems(pending_ice_candidates[s])
  <2>1. Elems(<<>>) = {} /\ DistinctIn(<<>>)
    BY ShortLists DEF DistinctIn
  <2>. QED
    BY <2>1 DEF CandidateRows
<1>. QED
  BY <1>1, <1>2 DEF CandidateRows, CandidatesBorne

\* A sequence with another at its end: its elements, and that they are distinct.
LEMMA Appended ==
    ASSUME NEW S, NEW list \in Seq(S), NEW x \in S
    PROVE  /\ Append(list, x) \in Seq(S)
           /\ Elems(Append(list, x)) = Elems(list) \cup {x}
           /\ DistinctIn(list) /\ x \notin Elems(list) => DistinctIn(Append(list, x))
<1>. DEFINE n == Len(list)
            q == Append(list, x)
<1>1. /\ q \in Seq(S) /\ n \in Nat /\ Len(q) = n + 1 /\ q[n + 1] = x
      /\ \A i \in 1..n : q[i] = list[i]
  OBVIOUS
<1>. HIDE DEF q
<1>2. ASSUME NEW y \in Elems(q) PROVE y \in Elems(list) \cup {x}
  <2>1. PICK i \in 1..n + 1 : y = q[i]
    BY <1>1, <1>2 DEF Elems
  <2>2. CASE i = n + 1
    BY <1>1, <2>1, <2>2
  <2>3. CASE i # n + 1
    <3>1. i \in 1..n /\ y = list[i]
      BY <1>1, <2>1, <2>3
    <3>. QED
      BY <3>1 DEF Elems
  <2>. QED
    BY <2>2, <2>3
<1>3. ASSUME NEW y \in Elems(list) PROVE y \in Elems(q)
  <2>1. PICK i \in 1..n : y = list[i]
    BY <1>3 DEF Elems
  <2>2. i \in 1..Len(q) /\ y = q[i]
    BY <1>1, <2>1
  <2>. QED
    BY <2>2 DEF Elems
<1>4. x \in Elems(q)
  <2>1. n + 1 \in 1..Len(q) /\ x = q[n + 1]
    BY <1>1
  <2>. QED
    BY <2>1 DEF Elems
<1>5. ASSUME DistinctIn(list), x \notin Elems(list) PROVE DistinctIn(q)
  <2>1. \A i \in 1..n : list[i] # x
    BY <1>5 DEF Elems
  <2>. QED
    BY <1>1, <1>5, <2>1 DEF DistinctIn
<1>. QED
  BY <1>1, <1>2, <1>3, <1>4, <1>5 DEF q

\* The first elements of a sequence.
LEMMA PrefixFacts ==
    ASSUME NEW S, NEW list \in Seq(S), NEW n \in 0..Len(list)
    PROVE  /\ SubSeq(list, 1, n) \in Seq(S)
           /\ Elems(SubSeq(list, 1, n)) \subseteq Elems(list)
           /\ DistinctIn(list) => DistinctIn(SubSeq(list, 1, n))
<1>. DEFINE q == SubSeq(list, 1, n)
<1>1. q \in Seq(S) /\ Len(q) = n /\ \A i \in 1..n : q[i] = list[i] /\ i \in 1..Len(list)
  OBVIOUS
<1>. HIDE DEF q
<1>. QED
  BY <1>1 DEF q, Elems, DistinctIn

\* Candidates that are none of those added before are added to one connection.
WithConn(cs, conn) == [i \in 1..Len(cs) |-> <<cs[i], conn>>]
LEMMA AddedFacts ==
    ASSUME NEW D, NEW list \in Seq(Pairs(D)), NEW cs \in Seq(Candidates), NEW conn \in D,
           FetchedOnce(list), DistinctIn(cs), Elems(cs) \cap Fetched(list) = {}
    PROVE  LET q == list \o WithConn(cs, conn)
           IN  /\ q \in Seq(Pairs(D)) /\ FetchedOnce(q)
               /\ Fetched(q) = Fetched(list) \cup Elems(cs)
<1>. DEFINE more == WithConn(cs, conn)
            q == list \o more
            n == Len(list)
            m == Len(cs)
<1>1. /\ more \in Seq(Pairs(D)) /\ Len(more) = m /\ m \in Nat /\ n \in Nat
      /\ \A i \in 1..m : more[i] = <<cs[i], conn>> /\ more[i][1] = cs[i]
  <2>1. m \in Nat /\ n \in Nat /\ \A i \in 1..m : cs[i] \in Candidates
    OBVIOUS
  <2>2. more \in [1..m -> Pairs(D)]
    BY <2>1 DEF WithConn, Pairs
  <2>3. more \in Seq(Pairs(D)) /\ Len(more) = m
    BY <2>1, <2>2
  <2>4. \A i \in 1..m : more[i] = <<cs[i], conn>>
    BY DEF WithConn
  <2>. QED
    BY <2>1, <2>3, <2>4
<1>. HIDE DEF more
<1>2. /\ q \in Seq(Pairs(D)) /\ Len(q) = n + m
      /\ \A i \in 1..n : q[i] = list[i]
      /\ \A i \in n + 1..n + m : q[i] = more[i - n] /\ i - n \in 1..m
  <2>1. q \in Seq(Pairs(D)) /\ Len(q) = n + m
    <3>1. \A S : \A r, u \in Seq(S) : r \o u \in Seq(S) /\ Len(r \o u) = Len(r) + Len(u)
      OBVIOUS
    <3>. QED
      BY <1>1, <3>1
  <2>2. \A i \in 1..n + m : q[i] = IF i <= n THEN list[i] ELSE more[i - n]
    BY <1>1
  <2>3. \A i \in 1..n : i \in 1..n + m /\ i <= n
    BY <1>1
  <2>4. \A i \in n + 1..n + m : i \in 1..n + m /\ ~(i <= n) /\ i - n \in 1..m
    BY <1>1
  <2>. QED
    BY <2>1, <2>2, <2>3, <2>4
<1>. HIDE DEF q
<1>3. \A i \in 1..n : list[i][1] \in Fetched(list)
  BY DEF Fetched
<1>4. \A i \in 1..m : cs[i] \in Elems(cs)
  BY DEF Elems
<1>5. \A i \in 1..Len(q) : i \in 1..n \/ i \in n + 1..n + m
  BY <1>1, <1>2
<1>6. /\ \A i \in 1..n : q[i][1] = list[i][1]
      /\ \A i \in n + 1..n + m : q[i][1] = cs[i - n] /\ i - n \in 1..m
  BY <1>1, <1>2
<1>7. FetchedOnce(q)
  <2>. SUFFICES ASSUME NEW i \in 1..Len(q), NEW j \in 1..Len(q), q[i][1] = q[j][1] PROVE i = j
    BY DEF FetchedOnce
  <2>1. CASE i \in 1..n /\ j \in 1..n
    BY <1>6, <2>1 DEF FetchedOnce
  <2>2. CASE i \in n + 1..n + m /\ j \in n + 1..n + m
    <3>1. i - n = j - n
      BY <1>6, <2>2 DEF DistinctIn
    <3>. QED
      BY <1>1, <2>2, <3>1
  <2>3. CASE (i \in 1..n /\ j \in n + 1..n + m) \/ (j \in 1..n /\ i \in n + 1..n + m)
    BY <1>3, <1>4, <1>6, <2>3
  <2>. QED
    BY <1>5, <2>1, <2>2, <2>3
<1>8. Fetched(q) = Fetched(list) \cup Elems(cs)
  <2>1. ASSUME NEW c \in Fetched(q) PROVE c \in Fetched(list) \cup Elems(cs)
    <3>1. PICK i \in 1..Len(q) : c = q[i][1]
      BY <2>1 DEF Fetched
    <3>. QED
      BY <1>3, <1>4, <1>5, <1>6, <3>1
  <2>2. ASSUME NEW c \in Fetched(list) PROVE c \in Fetched(q)
    <3>1. PICK i \in 1..n : c = list[i][1]
      BY <2>2 DEF Fetched
    <3>2. i \in 1..Len(q) /\ c = q[i][1]
      BY <1>1, <1>2, <1>6, <3>1
    <3>. QED
      BY <3>2 DEF Fetched
  <2>3. ASSUME NEW c \in Elems(cs) PROVE c \in Fetched(q)
    <3>1. PICK i \in 1..m : c = cs[i]
      BY <2>3 DEF Elems
    <3>2. n + i \in n + 1..n + m /\ (n + i) - n = i /\ n + i \in 1..Len(q)
      BY <1>1, <1>2, <3>1
    <3>3. c = q[n + i][1]
      BY <1>6, <3>1, <3>2
    <3>. QED
      BY <3>2, <3>3 DEF Fetched
  <2>. QED
    BY <2>1, <2>2, <2>3
<1>. QED
  BY <1>2, <1>7, <1>8 DEF q, more

LEMMA CandidateInvInit == RequestsInit /\ SfuInit => CandidateRows /\ MediaLists /\ CandidatesBorne
<1>. SUFFICES ASSUME RequestsInit, SfuInit PROVE CandidateRows /\ MediaLists /\ CandidatesBorne
  OBVIOUS
<1>1. /\ task = [t \in Tasks |-> <<>>] /\ sent = {} /\ added = <<>>
      /\ pending_ice_candidates = [s \in MediaSessions |-> <<>>]
  BY DEF RequestsInit, SfuInit
<1>2. /\ Elems(<<>>) = {} /\ Fetched(<<>>) = {} /\ Borne(<<>>) = {} /\ LastCarries(<<>>)
      /\ DistinctIn(<<>>) /\ FetchedOnce(<<>>) /\ \A S : <<>> \in Seq(S)
  BY ShortLists, BorneFacts DEF Fetched, DistinctIn, FetchedOnce
<1>3. CandidateRows
  BY <1>1, <1>2 DEF CandidateRows
<1>4. MediaLists
  <2>1. task \in [Tasks -> Seq({})]
    BY <1>1, <1>2
  <2>. QED
    BY <1>1, <1>2, <2>1 DEF MediaLists
<1>5. CandidatesBorne
  BY <1>1, <1>2 DEF CandidatesBorne
<1>. QED
  BY <1>3, <1>4, <1>5

LEMMA CandidateInvNext ==
    ASSUME CandidateRows, MediaLists, CandidatesBorne, SfuNext
    PROVE  CandidateRows' /\ MediaLists' /\ CandidatesBorne'
<1>. DEFINE Preserved == CandidateRows' /\ MediaLists' /\ CandidatesBorne'
            Untouched == UNCHANGED <<pending_ice_candidates, sent, added>>
<1>. HIDE DEF Preserved
<1>0. pending_ice_candidates \in [MediaSessions -> Seq(Candidates)]
  BY DEF CandidateRows
\* Statements that carry nothing.
<1>1. ASSUME NEW t \in Tasks, NEW more, Silent(more, described', sent'), sent' = sent, added' = added,
             described \subseteq described',
             task' = [task EXCEPT ![t] = more] \/ (Busy(t) /\ Continue(t, more)),
             \/ pending_ice_candidates' = pending_ice_candidates
             \/ \E s : pending_ice_candidates' = [pending_ice_candidates EXCEPT ![s] = <<>>]
      PROVE  Preserved
  <2>1. /\ pending_ice_candidates' \in [MediaSessions -> Seq(Candidates)]
        /\ \A s \in MediaSessions : pending_ice_candidates'[s] \in {pending_ice_candidates[s], <<>>}
    <3>1. CASE pending_ice_candidates' = pending_ice_candidates
      BY <1>0, <3>1
    <3>2. ASSUME NEW s, pending_ice_candidates' = [pending_ice_candidates EXCEPT ![s] = <<>>]
          PROVE  /\ pending_ice_candidates' \in [MediaSessions -> Seq(Candidates)]
                 /\ \A r \in MediaSessions : pending_ice_candidates'[r] \in {pending_ice_candidates[r], <<>>}
      <4>1. <<>> \in Seq(Candidates)
        OBVIOUS
      <4>2. pending_ice_candidates' \in [MediaSessions -> Seq(Candidates)]
        BY <1>0, <3>2, <4>1
      <4>3. \A r \in MediaSessions : pending_ice_candidates'[r] = IF r = s THEN <<>> ELSE pending_ice_candidates[r]
        BY <1>0, <3>2
      <4>. QED
        BY <4>2, <4>3
    <3>. QED
      BY <1>1, <3>1, <3>2
  <2>2. MediaLists' /\ \A u \in Tasks : Borne(task'[u]) \subseteq Borne(task[u])
    BY <1>1, SilentLists
  <2>3. CandidateRows' /\ CandidatesBorne'
    BY <1>1, <2>1, <2>2, QuietCandidates
  <2>. QED
    BY <2>2, <2>3 DEF Preserved
\* The lists that begin a request, and those that follow a statement.
<1>2. ASSUME NEW do \in {"add", "ensure", "ensure_receiver", "remove", "channel", "drop_tracks", "drop_ids", "drop_session",
                        "forget", "recreate"}, NEW x,
             NEW d, NEW n
      PROVE  MediaStmt(Stmt(do, x), d, n) /\ ~Carrying(Stmt(do, x))
  BY <1>2 DEF MediaStmt, Carrying, Stmt
<1>3. ASSUME NEW do \in {"offer", "describe", "flush"}, NEW x, x.s \in MediaSessions, NEW d, do = "flush" => x.conn \in d, NEW n
      PROVE  MediaStmt(Stmt(do, x), d, n) /\ ~Carrying(Stmt(do, x))
  BY <1>3 DEF MediaStmt, Carrying, Stmt
\* Nothing but the request changes: it goes on with one of these, or with nothing, or is cut short.
<1>4. ASSUME NEW t \in Tasks, Untouched, described \subseteq described',
             Interrupted(t) \/ GiveUp(t) \/ (Busy(t) /\ Continue(t, <<>>))
      PROVE  Preserved
  <2>1. task' = [task EXCEPT ![t] = <<>>] \/ (Busy(t) /\ Continue(t, <<>>))
    BY <1>4 DEF Interrupted, GiveUp
  <2>. QED
    BY <1>1, <1>4, <2>1, SilentShort
<1>5. ASSUME NEW t \in Tasks, NEW o, MediaStmt(o, described', sent), ~Carrying(o), Untouched, described \subseteq described',
             task' = [task EXCEPT ![t] = <<o>>] \/ (Busy(t) /\ Continue(t, <<o>>))
      PROVE  Preserved
  <2>1. Silent(<<o>>, described', sent')
    BY <1>5, SilentShort
  <2>. QED
    BY <1>1, <1>5, <2>1
<1>6. ASSUME NEW t \in Tasks, NEW o, MediaStmt(o, described', sent), ~Carrying(o),
             NEW p, MediaStmt(p, described', sent), ~Carrying(p), Untouched, described \subseteq described',
             task' = [task EXCEPT ![t] = <<o, p>>] \/ (Busy(t) /\ Continue(t, <<o, p>>))
      PROVE  Preserved
  <2>1. Silent(<<o, p>>, described', sent')
    BY <1>6, SilentShort
  <2>. QED
    BY <1>1, <1>6, <2>1
<1>7. ASSUME NEW t \in Tasks, NEW s \in MediaSessions, NEW c \in Candidates, Sends(t, s, c) PROVE Preserved
  <2>. DEFINE o == Stmt("ensure", On(s))
              p == Stmt("candidate", [s |-> s, c |-> c])
  <2>1. /\ c \notin sent /\ sent' = sent \cup {c} /\ Begin(t, <<o, p>>)
        /\ UNCHANGED <<described, pending_ice_candidates, added>>
    BY <1>7 DEF Sends
  <2>2. /\ MediaStmt(o, described', sent') /\ MediaStmt(p, described', sent')
        /\ ~Carrying(o) /\ Carrying(p) /\ p.x.c = c
    BY <2>1 DEF MediaStmt, Carrying, Stmt
  <2>. HIDE DEF o, p
  <2>3. /\ <<o, p>> \in Seq({o, p}) /\ Borne(<<o, p>>) = {c} /\ LastCarries(<<o, p>>)
        /\ task' = [task EXCEPT ![t] = <<o, p>>]
    BY <2>1, <2>2, ShortLists, BorneFacts DEF Begin
  <2>4. MediaLists' /\ task'[t] = <<o, p>> /\ \A u \in Tasks : u # t => task'[u] = task[u]
    <3>1. described \subseteq described' /\ sent \subseteq sent'
      BY <2>1
    <3>2. Lawful(<<o, p>>, described', sent')
      <4>1. PICK A : A = {o, p}
        OBVIOUS
      <4>2. <<o, p>> \in Seq(A) /\ \A q \in A : MediaStmt(q, described', sent')
        BY <2>2, <2>3, <4>1
      <4>. QED
        BY <4>2 DEF Lawful
    <3>. QED
      BY <2>3, <3>1, <3>2, MediaListStep
  <2>5. \A u \in Tasks : Borne(task[u]) \subseteq sent
    <3>1. PICK S : task \in [Tasks -> Seq(S)] /\ \A q \in S : MediaStmt(q, described, sent)
      BY DEF MediaLists
    <3>2. \A u \in Tasks : Elems(task[u]) \subseteq S
      BY <3>1 DEF Elems
    <3>. QED
      BY <3>1, <3>2 DEF Borne, MediaStmt
  <2>6. CandidateRows'
    BY <2>1 DEF CandidateRows
  <2>7. CandidatesBorne'
    <3>1. /\ Borne(task'[t]) = {c} /\ \A u \in Tasks : u # t => Borne(task'[u]) = Borne(task[u])
          /\ added' = added /\ pending_ice_candidates' = pending_ice_candidates
      BY <2>1, <2>3, <2>4
    <3>2. /\ c \notin Fetched(added) /\ \A s1 \in MediaSessions : c \notin Elems(pending_ice_candidates[s1])
          /\ \A u \in Tasks : c \notin Borne(task[u])
      BY <2>1, <2>5 DEF CandidateRows
    <3>3. \A u \in Tasks : Borne(task'[u]) \cap Fetched(added') = {}
      BY <3>1, <3>2 DEF CandidatesBorne
    <3>4. \A u \in Tasks, r \in MediaSessions : Borne(task'[u]) \cap Elems(pending_ice_candidates'[r]) = {}
      BY <3>1, <3>2 DEF CandidatesBorne
    <3>5. \A u, v \in Tasks : u # v => Borne(task'[u]) \cap Borne(task'[v]) = {}
      BY <3>1, <3>2 DEF CandidatesBorne
    <3>. QED
      BY <3>3, <3>4, <3>5 DEF CandidatesBorne
  <2>. QED
    BY <2>4, <2>6, <2>7 DEF Preserved
<1>8. ASSUME NEW t \in Tasks, SfuRequest(t) PROVE Preserved
  <2>1. ASSUME NEW s \in MediaSessions, NEW do \in {"add", "ensure"}, Joins(t, s, do) PROVE Preserved
    <3>1. Begin(t, <<Stmt(do, On(s))>>) /\ Untouched /\ described' = described
      BY <2>1 DEF Joins
    <3>2. MediaStmt(Stmt(do, On(s)), described', sent) /\ ~Carrying(Stmt(do, On(s)))
      BY <1>2
    <3>. QED
      BY <1>5, <3>1, <3>2 DEF Begin
  <2>2. ASSUME NEW s \in MediaSessions, Leaves(t, s) PROVE Preserved
    <3>1. Begin(t, <<Stmt("remove", On(s))>>) /\ Untouched /\ described' = described
      BY <2>2 DEF Leaves
    <3>2. MediaStmt(Stmt("remove", On(s)), described', sent) /\ ~Carrying(Stmt("remove", On(s)))
      BY <1>2
    <3>. QED
      BY <1>5, <3>1, <3>2 DEF Begin
  <2>3. ASSUME NEW s \in MediaSessions, NEW retry \in BOOLEAN, Offers(t, s, retry) PROVE Preserved
    <3>. DEFINE o == Stmt(IF retry THEN "ensure_receiver" ELSE "ensure", On(s))
                p == Stmt("offer", [s |-> s, retry |-> retry])
    <3>1. Begin(t, <<o, p>>) /\ Untouched /\ described' = described
      BY <2>3 DEF Offers, SfuVars
    <3>2. MediaStmt(o, described', sent) /\ ~Carrying(o)
      BY <1>2
    <3>3. MediaStmt(p, described', sent) /\ ~Carrying(p)
      BY <1>3
    <3>. HIDE DEF o, p
    <3>. QED
      BY <1>6, <3>1, <3>2, <3>3 DEF Begin
  <2>4. ASSUME Untouched, described' = described, task' = task PROVE Preserved
    <3>1. MediaLists'
      BY <2>4 DEF MediaLists
    <3>2. CandidateRows' /\ CandidatesBorne'
      BY <2>4, <1>0, QuietCandidates
    <3>. QED
      BY <3>1, <3>2 DEF Preserved
  <2>5. ASSUME NEW s \in MediaSessions, NEW on \in BOOLEAN, set_screen_sharing(s, on) PROVE Preserved
    BY <2>4, <2>5 DEF set_screen_sharing, Statement
  <2>6. ASSUME NEW k \in TrackIds, NEW s \in MediaSessions, NEW conn \in openConns, on_track(k, s, conn) PROVE Preserved
    BY <2>4, <2>6 DEF on_track, Statement
  <2>7. CASE Interrupted(t) /\ UNCHANGED SfuVars
    BY <1>4, <2>7 DEF SfuVars, Preserved
  <2>. QED
    BY <1>7, <1>8, <2>1, <2>2, <2>3, <2>5, <2>6, <2>7 DEF SfuRequest
<1>9. ASSUME NEW f \in forwarders, ForwarderStep(f) PROVE Preserved
  <2>1. Untouched /\ described' = described /\ task' = task
    BY <1>9 DEF ForwarderStep, register_track, ListTrack, forward_track, EndOfTrack, unregister_track, RequestVars
  <2>2. MediaLists'
    BY <2>1 DEF MediaLists
  <2>3. CandidateRows' /\ CandidatesBorne'
    BY <2>1, <1>0, QuietCandidates
  <2>. QED
    BY <2>2, <2>3 DEF Preserved
<1>10. ASSUME NEW t \in Tasks, Busy(t), SfuStep(t, Head(task[t])) PROVE Preserved
  <2>. DEFINE o == Head(task[t])
  <2>1. MediaStmt(o, described, sent) /\ o \in Elems(task[t])
    <3>1. PICK S : task \in [Tasks -> Seq(S)] /\ \A q \in S : MediaStmt(q, described, sent)
      BY DEF MediaLists
    <3>2. task[t] \in Seq(S) /\ task[t] # <<>>
      BY <1>10, <3>1 DEF Busy
    <3>3. o \in S /\ o = task[t][1] /\ 1 \in 1..Len(task[t])
      BY <3>2
    <3>. QED
      BY <3>1, <3>3 DEF Elems
  <2>. HIDE DEF o
  <2>2. CASE \/ PresentParticipant(t, o) \/ get_signaling_receiver(t, o) \/ register_channel(t, o)
             \/ AddFails(t, o) \/ CloseFails(t, o) \/ DropSession(t, o)
    <3>1. Untouched /\ described' = described /\ (Continue(t, <<>>) \/ Interrupted(t))
      BY <2>2 DEF PresentParticipant, get_signaling_receiver, register_channel, AddFails, CloseFails,
                  DropSession, SfuVars
    <3>. QED
      BY <1>4, <1>10, <3>1 DEF Preserved
  <2>19. CASE remove_participant_tracks(t, o)
    <3>1. PICK x : Continue(t, <<Stmt("drop_ids", x)>>)
      BY <2>19 DEF remove_participant_tracks
    <3>2. Untouched /\ described' = described
      BY <2>19 DEF remove_participant_tracks, SfuVars
    <3>3. MediaStmt(Stmt("drop_ids", x), described', sent) /\ ~Carrying(Stmt("drop_ids", x))
      BY <1>2
    <3>. QED
      BY <1>5, <1>10, <3>1, <3>2, <3>3
  <2>20. CASE DropTracks(t, o)
    <3>1. PICK x : Continue(t, <<Stmt("drop_session", x)>>)
      BY <2>20 DEF DropTracks
    <3>2. Untouched /\ described' = described
      BY <2>20 DEF DropTracks, SfuVars
    <3>3. MediaStmt(Stmt("drop_session", x), described', sent) /\ ~Carrying(Stmt("drop_session", x))
      BY <1>2
    <3>. QED
      BY <1>5, <1>10, <3>1, <3>2, <3>3
  <2>3. CASE MissingParticipant(t, o)
    <3>1. Untouched /\ described' = described /\ Continue(t, <<Stmt("add", o.x)>>)
      BY <2>3 DEF MissingParticipant, SfuVars
    <3>2. MediaStmt(Stmt("add", o.x), described', sent) /\ ~Carrying(Stmt("add", o.x))
      BY <1>2
    <3>. QED
      BY <1>5, <1>10, <3>1, <3>2
  <2>4. CASE add_participant(t, o)
    <3>1. PICK x : Continue(t, <<Stmt("channel", x)>>)
      BY <2>4 DEF add_participant
    <3>2. Untouched /\ described' = described
      BY <2>4 DEF add_participant
    <3>3. MediaStmt(Stmt("channel", x), described', sent) /\ ~Carrying(Stmt("channel", x))
      BY <1>2
    <3>. QED
      BY <1>5, <1>10, <3>1, <3>2, <3>3
  <2>5. CASE remove_participant(t, o)
    <3>1. PICK x : Continue(t, <<Stmt("drop_tracks", x), Stmt("forget", x)>>) \/ Continue(t, <<Stmt("forget", x)>>)
      BY <2>5 DEF remove_participant
    <3>2. Untouched /\ described' = described
      BY <2>5 DEF remove_participant
    <3>3. /\ MediaStmt(Stmt("drop_tracks", x), described', sent) /\ ~Carrying(Stmt("drop_tracks", x))
          /\ MediaStmt(Stmt("forget", x), described', sent) /\ ~Carrying(Stmt("forget", x))
      BY <1>2
    <3>. QED
      BY <1>5, <1>6, <1>10, <3>1, <3>2, <3>3
  <2>6. CASE ForgetSession(t, o)
    <3>1. /\ sent' = sent /\ added' = added /\ described' = described /\ Continue(t, <<>>)
          /\ pending_ice_candidates' = [pending_ice_candidates EXCEPT ![o.x.s] = <<>>]
      BY <2>6 DEF ForgetSession
    <3>. QED
      BY <1>1, <1>10, <3>1, SilentShort
  <2>7. CASE recreate_participant(t, o)
    <3>. DEFINE x == On(o.x.s)
                list == <<Stmt("drop_tracks", x), Stmt("forget", x), Stmt("add", x)>>
    <3>1. Untouched /\ described' = described /\ Continue(t, list)
      BY <2>7 DEF recreate_participant
    <3>. HIDE DEF x
    <3>2. PICK A : A = {Stmt("drop_tracks", x), Stmt("forget", x), Stmt("add", x)}
      OBVIOUS
    <3>3. list \in Seq(A) /\ \A q \in A : MediaStmt(q, described', sent) /\ ~Carrying(q)
      BY <1>2, <3>2
    <3>. HIDE DEF list
    <3>4. Silent(list, described', sent')
      BY <3>1, <3>3 DEF Silent
    <3>. QED
      BY <1>1, <1>10, <3>1, <3>4
  <2>8. ASSUME OfferFails(t, o), o.x.s \in MediaSessions, Untouched, described' = described PROVE Preserved
    <3>. DEFINE p == Stmt("recreate", On(o.x.s))
                q == Stmt("offer", [s |-> o.x.s, retry |-> FALSE])
    <3>1. task' = [task EXCEPT ![t] = <<p, q>>] \/ task' = [task EXCEPT ![t] = <<>>]
      BY <2>8 DEF OfferFails
    <3>2. MediaStmt(p, described', sent) /\ ~Carrying(p) /\ MediaStmt(q, described', sent) /\ ~Carrying(q)
      BY <1>2, <1>3, <2>8
    <3>. HIDE DEF p, q
    <3>3. Silent(<<>>, described', sent')
      BY SilentShort
    <3>4. CASE task' = [task EXCEPT ![t] = <<p, q>>]
      BY <1>6, <2>8, <3>2, <3>4
    <3>5. CASE task' = [task EXCEPT ![t] = <<>>]
      BY <1>1, <2>8, <3>3, <3>5
    <3>. QED
      BY <3>1, <3>4, <3>5
  <2>9. CASE handle_offer(t, o)
    <3>1. o.x.s \in MediaSessions /\ Untouched /\ described' = described
      BY <2>1, <2>9 DEF handle_offer, At, MediaStmt, SfuVars
    <3>2. CASE OfferFails(t, o)
      BY <2>8, <3>1, <3>2
    <3>3. ASSUME NEW r, NEW n, Continue(t, <<Stmt("describe", [s |-> o.x.s, retry |-> r, conn |-> n])>>) PROVE Preserved
      <4>. DEFINE p == Stmt("describe", [s |-> o.x.s, retry |-> r, conn |-> n])
      <4>1. MediaStmt(p, described', sent) /\ ~Carrying(p)
        BY <1>3, <3>1
      <4>. HIDE DEF p
      <4>. QED
        BY <1>5, <1>10, <3>1, <3>3, <4>1 DEF p
    <3>. QED
      BY <2>9, <3>2, <3>3 DEF handle_offer
  <2>10. CASE set_remote_description(t, o)
    <3>1. o.x.s \in MediaSessions /\ Untouched
      BY <2>1, <2>10 DEF set_remote_description, At, MediaStmt
    <3>2. CASE described' = described /\ OfferFails(t, o)
      BY <2>8, <3>1, <3>2
    <3>3. CASE described' = described \cup {o.x.conn} /\ Continue(t, <<Stmt("flush", o.x)>>)
      <4>1. MediaStmt(Stmt("flush", o.x), described', sent) /\ ~Carrying(Stmt("flush", o.x))
        BY <1>3, <3>1, <3>3
      <4>. QED
        BY <1>5, <1>10, <3>1, <3>3, <4>1
    <3>. QED
      BY <2>10, <3>2, <3>3 DEF set_remote_description
  <2>11. CASE DescriptionFails(t, o)
    BY <2>1, <2>8, <2>11 DEF DescriptionFails, At, MediaStmt, SfuVars
  <2>18. ASSUME NEW s \in MediaSessions, NEW cs \in Seq(Candidates), NEW conn \in described, DistinctIn(cs),
                Elems(cs) \subseteq Elems(pending_ice_candidates[s]), added' = added \o WithConn(cs, conn),
                pending_ice_candidates' = [pending_ice_candidates EXCEPT ![s] = <<>>],
                sent' = sent, described' = described, MediaLists', \A u \in Tasks : Borne(task'[u]) \subseteq Borne(task[u])
         PROVE  Preserved
    <3>1. Elems(cs) \cap Fetched(added) = {} /\ Elems(cs) \subseteq sent
      BY <2>18 DEF CandidateRows
    <3>2. added' \in Seq(Pairs(described)) /\ FetchedOnce(added') /\ Fetched(added') = Fetched(added) \cup Elems(cs)
      <4>1. added \in Seq(Pairs(described)) /\ FetchedOnce(added)
        BY DEF CandidateRows
      <4>. QED
        BY <2>18, <3>1, <4>1, AddedFacts
    <3>3. /\ pending_ice_candidates' \in [MediaSessions -> Seq(Candidates)] /\ pending_ice_candidates'[s] = <<>>
          /\ \A r \in MediaSessions : r # s => pending_ice_candidates'[r] = pending_ice_candidates[r]
      BY <1>0, <2>18
    <3>4. Elems(<<>>) = {} /\ DistinctIn(<<>>)
      BY ShortLists DEF DistinctIn
    <3>5. \A r \in MediaSessions : r # s => Elems(pending_ice_candidates[r]) \cap Elems(cs) = {}
      BY <2>18 DEF CandidateRows
    <3>6. \A u \in Tasks : Borne(task[u]) \cap Elems(cs) = {}
      BY <2>18 DEF CandidatesBorne
    <3>7. CandidateRows'
      BY <2>18, <3>1, <3>2, <3>3, <3>4, <3>5 DEF CandidateRows
    <3>8. CandidatesBorne'
      BY <2>18, <3>2, <3>3, <3>4, <3>6 DEF CandidatesBorne
    <3>. QED
      BY <2>18, <3>7, <3>8 DEF Preserved
  <2>12. CASE FlushFails(t, o)
    <3>. DEFINE p == Stmt("recreate", On(o.x.s))
                q == Stmt("offer", [s |-> o.x.s, retry |-> FALSE])
                list == pending_ice_candidates[o.x.s]
    <3>1. /\ o.x.s \in MediaSessions /\ o.x.conn \in described /\ sent' = sent /\ described' = described
          /\ pending_ice_candidates' = [pending_ice_candidates EXCEPT ![o.x.s] = <<>>]
          /\ task' = [task EXCEPT ![t] = <<p, q>>] \/ task' = [task EXCEPT ![t] = <<>>]
      BY <2>1, <2>12 DEF FlushFails, OfferFails, At, MediaStmt
    <3>2. MediaStmt(p, described', sent) /\ ~Carrying(p) /\ MediaStmt(q, described', sent) /\ ~Carrying(q)
      BY <1>2, <1>3, <3>1
    <3>6. PICK n \in 0..(Len(list) - 1) : added' = added \o WithConn(SubSeq(list, 1, n), o.x.conn)
      BY <2>12 DEF FlushFails, Added, WithConn
    <3>. HIDE DEF p, q
    <3>3. Silent(<<>>, described', sent') /\ Silent(<<p, q>>, described', sent')
      BY <3>1, <3>2, SilentShort
    <3>4. MediaLists' /\ \A u \in Tasks : Borne(task'[u]) \subseteq Borne(task[u])
      BY <3>1, <3>3, SilentLists
    <3>5. list \in Seq(Candidates) /\ DistinctIn(list)
      BY <3>1 DEF CandidateRows
    <3>. DEFINE cs == SubSeq(list, 1, n)
    <3>7. cs \in Seq(Candidates) /\ DistinctIn(cs) /\ Elems(cs) \subseteq Elems(list)
      <4>1. n \in 0..Len(list)
        BY <3>5, <3>6
      <4>. HIDE DEF list
      <4>. QED
        BY <3>5, <4>1, PrefixFacts
    <3>. HIDE DEF cs
    <3>. QED
      BY <2>18, <3>1, <3>4, <3>6, <3>7 DEF cs
  <2>13. CASE flush_pending_ice_candidates(t, o)
    <3>. DEFINE s == o.x.s
                cs == pending_ice_candidates[s]
    <3>1. /\ s \in MediaSessions /\ o.x.conn \in described /\ sent' = sent /\ described' = described
          /\ pending_ice_candidates' = [pending_ice_candidates EXCEPT ![s] = <<>>]
          /\ Continue(t, <<>>) /\ added' = added \o WithConn(cs, o.x.conn)
      BY <2>1, <2>13 DEF flush_pending_ice_candidates, At, MediaStmt, Added, WithConn
    <3>2. MediaLists' /\ \A u \in Tasks : Borne(task'[u]) \subseteq Borne(task[u])
      <4>1. Silent(<<>>, described', sent')
        BY SilentShort
      <4>. QED
        BY <1>10, <3>1, <4>1, SilentLists
    <3>3. cs \in Seq(Candidates) /\ DistinctIn(cs) /\ Elems(cs) \subseteq Elems(pending_ice_candidates[s])
      BY <3>1 DEF CandidateRows
    <3>. HIDE DEF s, cs
    <3>. QED
      BY <2>18, <3>1, <3>2, <3>3
  <2>14. ASSUME Carrying(o)
         PROVE  /\ o.x.c \in Candidates /\ o.x.c \in sent /\ o.x.c \in Borne(task[t]) /\ o.x.c \notin Fetched(added)
                /\ \A s \in MediaSessions : o.x.c \notin Elems(pending_ice_candidates[s])
                /\ \A u \in Tasks : u # t => o.x.c \notin Borne(task[u])
    <3>1. o.x.c \in Borne(task[t]) /\ o.x.c \in sent
      BY <2>1, <2>14 DEF Borne, MediaStmt
    <3>. QED
      BY <3>1 DEF CandidateRows, CandidatesBorne
  <2>15. ASSUME Carrying(o), Continue(t, <<>>), described' = described, sent' = sent
         PROVE  /\ MediaLists' /\ \A u \in Tasks : Borne(task'[u]) \subseteq Borne(task[u])
                /\ Borne(task'[t]) = {}
    <3>1. Silent(<<>>, described', sent')
      BY SilentShort
    <3>. QED
      BY <1>10, <2>15, <3>1, SilentLists DEF o
  <2>16. CASE handle_ice_candidate(t, o)
    <3>1. Carrying(o) /\ UNCHANGED <<described, pending_ice_candidates, sent>>
      BY <2>16 DEF handle_ice_candidate, At, Carrying
    <3>2. CASE GiveUp(t) /\ added' = added
      BY <1>4, <3>1, <3>2 DEF Preserved
    <3>3. ASSUME NEW conn \in described, Continue(t, <<>>), Added(<<o.x.c>>, conn) PROVE Preserved
      <4>1. PICK cs : cs = <<o.x.c>>
        OBVIOUS
      <4>2. cs \in Seq(Candidates) /\ Len(cs) = 1 /\ Elems(cs) = {o.x.c} /\ DistinctIn(cs)
        BY <2>14, <3>1, <4>1, ShortLists DEF DistinctIn
      <4>3. added' = added \o WithConn(cs, conn)
        BY <3>3, <4>1 DEF Added, WithConn
      <4>4. Elems(cs) \cap Fetched(added) = {}
        BY <2>14, <3>1, <4>2
      <4>5. added' \in Seq(Pairs(described)) /\ FetchedOnce(added') /\ Fetched(added') = Fetched(added) \cup {o.x.c}
        <5>1. added \in Seq(Pairs(described)) /\ FetchedOnce(added)
          BY DEF CandidateRows
        <5>2. added' \in Seq(Pairs(described)) /\ FetchedOnce(added') /\ Fetched(added') = Fetched(added) \cup Elems(cs)
          BY <4>2, <4>3, <4>4, <5>1, AddedFacts
        <5>. QED
          BY <4>2, <5>2
      <4>6. CandidateRows'
        BY <2>14, <3>1, <4>5 DEF CandidateRows
      <4>7. MediaLists' /\ (\A u \in Tasks : Borne(task'[u]) \subseteq Borne(task[u])) /\ Borne(task'[t]) = {}
        BY <2>15, <3>1, <3>3
      <4>8. CandidatesBorne'
        <5>1. \A u \in Tasks : o.x.c \notin Borne(task'[u])
          BY <2>14, <3>1, <4>7
        <5>2. \A u \in Tasks : Borne(task'[u]) \cap Fetched(added') = {}
          BY <4>5, <4>7, <5>1 DEF CandidatesBorne
        <5>3. \A u \in Tasks, r \in MediaSessions : Borne(task'[u]) \cap Elems(pending_ice_candidates'[r]) = {}
          BY <3>1, <4>7 DEF CandidatesBorne
        <5>4. \A u, v \in Tasks : u # v => Borne(task'[u]) \cap Borne(task'[v]) = {}
          BY <4>7 DEF CandidatesBorne
        <5>. QED
          BY <5>2, <5>3, <5>4 DEF CandidatesBorne
      <4>. QED
        BY <4>6, <4>7, <4>8 DEF Preserved
    <3>4. CASE Continue(t, <<Stmt("queue", o.x)>>) /\ added' = added
      <4>. DEFINE p == Stmt("queue", o.x)
      <4>1. MediaStmt(p, described', sent') /\ Carrying(p) /\ p.x.c = o.x.c
        BY <2>14, <3>1 DEF MediaStmt, Carrying, Stmt
      <4>. HIDE DEF p
      <4>2. <<p>> \in Seq({p}) /\ LastCarries(<<p>>) /\ Borne(<<p>>) = {o.x.c}
        BY <4>1, ShortLists, BorneFacts
      <4>3. task' = [task EXCEPT ![t] = <<p>>]
        <5>1. PICK S : task \in [Tasks -> Seq(S)]
          BY DEF MediaLists
        <5>2. task[t] \in Seq(S) /\ task[t] # <<>> /\ LastCarries(task[t]) /\ Carrying(task[t][1])
          BY <1>10, <3>1, <5>1 DEF Busy, MediaLists, o
        <5>3. Len(task[t]) = 1
          <6>1. 1 \in 1..Len(task[t])
            BY <5>2
          <6>. QED
            BY <5>2, <6>1 DEF LastCarries
        <5>4. Tail(task[t]) = <<>>
          BY <5>2, <5>3, OneLeft
        <5>5. <<p>> \o <<>> = <<p>>
          BY <4>2
        <5>. QED
          BY <3>4, <5>4, <5>5 DEF Continue, p
      <4>4. MediaLists' /\ task'[t] = <<p>> /\ \A u \in Tasks : u # t => task'[u] = task[u]
        <5>1. Lawful(<<p>>, described', sent')
          <6>1. PICK A : A = {p}
            OBVIOUS
          <6>2. <<p>> \in Seq(A) /\ \A q \in A : MediaStmt(q, described', sent')
            BY <4>1, <4>2, <6>1
          <6>. QED
            BY <6>2 DEF Lawful
        <5>. QED
          BY <3>1, <4>2, <4>3, <5>1, MediaListStep
      <4>5. \A u \in Tasks : Borne(task'[u]) \subseteq Borne(task[u])
        BY <2>14, <3>1, <4>2, <4>4
      <4>6. CandidateRows' /\ CandidatesBorne'
        BY <1>0, <3>1, <3>4, <4>5, QuietCandidates
      <4>. QED
        BY <4>4, <4>6 DEF Preserved
    <3>5. \/ GiveUp(t) /\ added' = added
          \/ \E conn \in described : Continue(t, <<>>) /\ Added(<<o.x.c>>, conn)
          \/ Continue(t, <<Stmt("queue", o.x)>>) /\ added' = added
      BY <2>16 DEF handle_ice_candidate
    <3>. QED
      BY <3>2, <3>3, <3>4, <3>5
  <2>17. CASE QueueCandidate(t, o)
    <3>. DEFINE s == o.x.s
                c == o.x.c
    <3>1. /\ Carrying(o) /\ UNCHANGED <<described, sent, added>> /\ Continue(t, <<>>)
          /\ pending_ice_candidates' = [pending_ice_candidates EXCEPT ![s] = Append(@, c)]
      BY <2>17 DEF QueueCandidate, At, Carrying
    <3>2. MediaLists' /\ (\A u \in Tasks : Borne(task'[u]) \subseteq Borne(task[u])) /\ Borne(task'[t]) = {}
      BY <2>15, <3>1
    <3>3. CASE s \notin MediaSessions
      <4>1. pending_ice_candidates' = pending_ice_candidates
        BY <1>0, <3>1, <3>3
      <4>2. CandidateRows' /\ CandidatesBorne'
        BY <1>0, <3>1, <3>2, <4>1, QuietCandidates
      <4>. QED
        BY <3>2, <4>2 DEF Preserved
    <3>4. CASE s \in MediaSessions
      <4>. DEFINE old == pending_ice_candidates[s]
                  new == Append(old, c)
      <4>1. /\ old \in Seq(Candidates) /\ DistinctIn(old) /\ c \notin Elems(old) /\ c \in Candidates
        BY <2>14, <3>1, <3>4 DEF CandidateRows
      <4>2. new \in Seq(Candidates) /\ Elems(new) = Elems(old) \cup {c} /\ DistinctIn(new)
        BY <4>1, Appended
      <4>. HIDE DEF new
      <4>3. /\ pending_ice_candidates' \in [MediaSessions -> Seq(Candidates)] /\ pending_ice_candidates'[s] = new
            /\ \A r \in MediaSessions : r # s => pending_ice_candidates'[r] = pending_ice_candidates[r]
        BY <1>0, <3>1, <3>4, <4>2 DEF new
      <4>4. /\ c \in sent /\ c \notin Fetched(added)
            /\ \A r \in MediaSessions : c \notin Elems(pending_ice_candidates[r])
            /\ \A u \in Tasks : u # t => c \notin Borne(task[u])
        BY <2>14, <3>1
      <4>. HIDE DEF s, c
      <4>5. CandidateRows'
        <5>1. \A r \in MediaSessions : /\ DistinctIn(pending_ice_candidates'[r])
                                       /\ Elems(pending_ice_candidates'[r]) \subseteq sent' \ Fetched(added')
          <6>1. ASSUME NEW r \in MediaSessions, r # s
                PROVE  DistinctIn(pending_ice_candidates'[r]) /\ Elems(pending_ice_candidates'[r]) \subseteq sent' \ Fetched(added')
            BY <3>1, <4>3, <6>1 DEF CandidateRows
          <6>2. DistinctIn(pending_ice_candidates'[s]) /\ Elems(pending_ice_candidates'[s]) \subseteq sent' \ Fetched(added')
            BY <3>1, <3>4, <4>2, <4>3, <4>4 DEF CandidateRows
          <6>. QED
            BY <6>1, <6>2
        <5>2. ASSUME NEW q \in MediaSessions, NEW r \in MediaSessions, q # r, NEW x,
                     x \in Elems(pending_ice_candidates'[q]), x \in Elems(pending_ice_candidates'[r])
              PROVE  FALSE
          <6>1. \A k \in MediaSessions : x \in Elems(pending_ice_candidates'[k]) =>
                   x \in Elems(pending_ice_candidates[k]) \/ (k = s /\ x = c)
            BY <3>4, <4>2, <4>3
          <6>2. ~(x \in Elems(pending_ice_candidates[q]) /\ x \in Elems(pending_ice_candidates[r]))
            BY <5>2 DEF CandidateRows
          <6>. QED
            BY <4>4, <5>2, <6>1, <6>2
        <5>. QED
          BY <3>1, <4>3, <5>1, <5>2 DEF CandidateRows
      <4>6. CandidatesBorne'
        <5>1. \A u \in Tasks : c \notin Borne(task'[u])
          BY <3>2, <4>4
        <5>2. \A u \in Tasks : Borne(task'[u]) \cap Fetched(added') = {}
          BY <3>1, <3>2 DEF CandidatesBorne
        <5>3. ASSUME NEW u \in Tasks, NEW r \in MediaSessions
              PROVE  Borne(task'[u]) \cap Elems(pending_ice_candidates'[r]) = {}
          <6>1. CASE r = s
            <7>1. Elems(pending_ice_candidates'[r]) = Elems(pending_ice_candidates[r]) \cup {c}
              BY <4>2, <4>3, <6>1
            <7>2. Borne(task[u]) \cap Elems(pending_ice_candidates[r]) = {}
              BY DEF CandidatesBorne
            <7>. QED
              BY <3>2, <5>1, <7>1, <7>2
          <6>2. CASE r # s
            BY <3>2, <4>3, <6>2 DEF CandidatesBorne
          <6>. QED
            BY <6>1, <6>2
        <5>4. \A u, v \in Tasks : u # v => Borne(task'[u]) \cap Borne(task'[v]) = {}
          BY <3>2 DEF CandidatesBorne
        <5>. QED
          BY <5>2, <5>3, <5>4 DEF CandidatesBorne
      <4>. QED
        BY <3>2, <4>5, <4>6 DEF Preserved
    <3>. QED
      BY <3>3, <3>4
  <2>. QED
    BY <1>10, <2>2, <2>3, <2>4, <2>5, <2>6, <2>7, <2>9, <2>10, <2>11, <2>12, <2>13, <2>16, <2>17, <2>19, <2>20 DEF SfuStep, o
<1>. QED
  BY <1>8, <1>9, <1>10 DEF SfuNext, Preserved

\* A candidate is added to at most one connection, once, and to one that has its description, for any
\* number of sessions, connections and requests at once (sfu/mod.rs, handle_ice_candidate and
\* flush_pending_ice_candidates).
THEOREM CandidatesAddedOnceAlways == WorkspaceSpec => []CandidatesAddedOnce
<1>1. WorkspaceInit => CandidateInv
  BY CandidateInvInit DEF WorkspaceInit, CandidateInv
<1>2. CandidateInv /\ [WorkspaceNext]_WorkspaceVars => CandidateInv'
  <2>. SUFFICES ASSUME CandidateInv, [WorkspaceNext]_WorkspaceVars PROVE CandidateInv'
    OBVIOUS
  <2>1. area' = area
    BY AreaSteps
  <2>2. CASE UNCHANGED SfuVars /\ (area # "media" \/ UNCHANGED RequestVars)
    <3>1. CandidateRows'
      BY <2>2 DEF CandidateInv, CandidateRows, SfuVars
    <3>2. area = "media" => MediaLists' /\ CandidatesBorne'
      BY <2>2 DEF CandidateInv, MediaLists, CandidatesBorne, SfuVars, RequestVars
    <3>. QED
      BY <2>1, <3>1, <3>2 DEF CandidateInv
  <2>3. CASE area = "media" /\ SfuNext
    BY <2>1, <2>3, CandidateInvNext DEF CandidateInv
  <2>. QED
    BY <2>2, <2>3, AreaSteps
<1>3. CandidateInv => CandidatesAddedOnce
  <2>. SUFFICES ASSUME CandidateInv PROVE CandidatesAddedOnce
    OBVIOUS
  <2>1. \A i \in 1..Len(added) : added[i] \in Pairs(described)
    BY DEF CandidateInv, CandidateRows
  <2>. QED
    BY <2>1 DEF CandidateInv, CandidateRows, FetchedOnce, CandidatesAddedOnce, Pairs
<1>. QED
  BY <1>1, <1>2, <1>3, PTL DEF WorkspaceSpec
-----------------------------------------------------------------------------
(* Webhooks, commands and bots. *)

\* What a statement is about, and the post that some of them make or look up webhooks for.
Work == [post : HookPosts \cup {None}, author : Authors \cup Bots \cup {None}, word : Words,
         about : InHooks \cup Bots \cup CommandCalls \cup {None}]
PostWorks == {w \in Work : w.post \in HookPosts /\ w.author \in Authors \cup Bots}
Postless == [do : {"run_command", "add_caller", "clear_call", "remove_call"}, x : {w \in Work : w.post = None}]
            \cup [do : {"insert_bot_user", "insert_bot"}, x : {w \in Work : w.post = None /\ w.about \in Bots}]

\* What is left of a request that makes a post, and what is left of any request.
Making(x) == {<<Stmt("poster", x)>>, <<Stmt("triggers", x)>>, CreatePost(x),
              <<Stmt("add_caller", x), Stmt("insert_post", x), Stmt("triggers", x)>>,
              <<Stmt("add_call", x), Stmt("add_caller", x), Stmt("insert_post", x), Stmt("triggers", x)>>}
HookList == Seq(Postless) \cup UNION {Making(x) : x \in PostWorks}
About(list, p) == \E i \in 1..Len(list) : list[i].x.post = p

\* Webhooks are looked up for a post that is there, and no two requests are about the same post.
HookLists ==
    /\ task \in [Tasks -> HookList]
    /\ \A t \in Tasks, x \in PostWorks : task[t] = <<Stmt("triggers", x)>> => hookPost[x.post] # None
    /\ \A t, u \in Tasks, p \in HookPosts : About(task[t], p) /\ About(task[u], p) => t = u
HookRows ==
    /\ inHook \in [InHooks -> Authors \cup {None}]
    /\ outHook \in [OutHooks -> OutHookRow \cup {None}]
    /\ botUser \subseteq Bots
    /\ hookPost \in [HookPosts -> HookPostRow \cup {None}]
    /\ callback \in [Callbacks -> CallbackRow \cup {None}]
    /\ heard \in [Callbacks -> Nat]

\* A call goes on only below the limit, and the service has heard of a post at most once for each attempt.
CallbackCounts ==
    \A c \in Callbacks : /\ callback[c] = None => heard[c] = 0
                         /\ callback[c] # None => /\ heard[c] <= callback[c].n
                                                  /\ callback[c].state = "trying" => callback[c].n < MaxAttempts
\* A post for which webhooks are called has been made, and all calls are of one hook and carry one token.
CalledPosts ==
    /\ \A c \in Callbacks : callback[c] # None => hookPost[c[1]] # None
    /\ \A c, d \in Callbacks : callback[c] # None /\ callback[d] # None /\ c[1] = d[1]
                                 => c[2] = d[2] /\ callback[c].token = callback[d].token
\* No request is about such a post any more.
CalledIsOver == \A c \in Callbacks : callback[c] # None => \A t \in Tasks : ~About(task[t], c[1])

HookInv == HookRows /\ CallbackCounts /\ CalledPosts /\ (area = "integrations" => HookLists /\ CalledIsOver)

LEMMA HookInvInit == RequestsInit /\ IntegrationsInit => HookRows /\ CallbackCounts /\ CalledPosts /\ HookLists /\ CalledIsOver
<1>. SUFFICES ASSUME RequestsInit, IntegrationsInit
              PROVE  HookRows /\ CallbackCounts /\ CalledPosts /\ HookLists /\ CalledIsOver
  OBVIOUS
<1>1. HookRows
  <2>1. [Entries -> Urls \ RefusedUrls] \subseteq UrlLists
    <3>1. MaxUrls \in 0..MaxUrls
      BY IntegrationsAssumption
    <3>2. [1..MaxUrls -> Urls] \subseteq UrlLists
      BY <3>1 DEF UrlLists
    <3>. QED
      BY <3>2 DEF Entries
  <2>2. [when : Whens, urls : [Entries -> Urls \ RefusedUrls], token : {0}] \subseteq OutHookRow
    BY <2>1 DEF OutHookRow
  <2>3. outHook \in [OutHooks -> OutHookRow \cup {None}]
    BY <2>2 DEF IntegrationsInit
  <2>. QED
    BY <2>3 DEF IntegrationsInit, HookRows
<1>2. CallbackCounts /\ CalledPosts /\ CalledIsOver
  BY DEF IntegrationsInit, CallbackCounts, CalledPosts, CalledIsOver
<1>3. <<>> \in HookList /\ \A p : ~About(<<>>, p)
  BY ShortLists DEF HookList, About
<1>4. \A x : <<>> # <<Stmt("triggers", x)>>
  BY ShortLists
<1>. QED
  BY <1>1, <1>2, <1>3, <1>4 DEF RequestsInit, HookLists

\* The parts of the lists that make a post.
LEMMA MakingParts ==
    ASSUME NEW x, NEW list \in Making(x)
    PROVE  /\ list # <<>>
           /\ \A p : About(list, p) <=> p = x.post
           /\ Head(list).x = x
           /\ Head(list).do \in {"poster", "triggers"} => Tail(list) = <<>>
           /\ Head(list).do \notin {"poster", "triggers"} => Tail(list) \in Making(x)
           /\ Head(list).do = "triggers" => list = <<Stmt("triggers", x)>>
           /\ Head(list).do \in {"poster", "triggers", "insert_post", "add_call", "add_caller"}
           /\ Tail(list) = <<Stmt("triggers", x)>> => Head(list).do = "insert_post"
<1>. DEFINE a == Stmt("poster", x)
            b == Stmt("triggers", x)
            c == Stmt("insert_post", x)
            d == Stmt("add_caller", x)
            e == Stmt("add_call", x)
<1>0. /\ a.do = "poster" /\ b.do = "triggers" /\ c.do = "insert_post" /\ d.do = "add_caller" /\ e.do = "add_call"
      /\ a.x = x /\ b.x = x /\ c.x = x /\ d.x = x /\ e.x = x
  BY DEF Stmt
<1>1. list = <<a>> \/ list = <<b>> \/ list = <<c, b>> \/ list = <<d, c, b>> \/ list = <<e, d, c, b>>
  BY DEF Making, CreatePost
<1>2. Making(x) = {<<a>>, <<b>>, <<c, b>>, <<d, c, b>>, <<e, d, c, b>>}
  BY DEF Making, CreatePost
<1>. HIDE DEF a, b, c, d, e
<1>3. CASE list = <<a>>
  <2>1. Len(list) = 1 /\ list[1] = a /\ Head(list) = a /\ Tail(list) = <<>> /\ list # <<>>
    BY <1>3
  <2>. QED
    BY <1>0, <2>1 DEF About, b
<1>4. CASE list = <<b>>
  <2>1. Len(list) = 1 /\ list[1] = b /\ Head(list) = b /\ Tail(list) = <<>> /\ list # <<>>
    BY <1>4
  <2>. QED
    BY <1>0, <1>4, <2>1 DEF About, b
<1>5. CASE list = <<c, b>>
  <2>1. Len(list) = 2 /\ list[1] = c /\ list[2] = b /\ Head(list) = c /\ Tail(list) = <<b>> /\ list # <<>>
    BY <1>5
  <2>. QED
    BY <1>0, <1>2, <2>1 DEF About
<1>6. CASE list = <<d, c, b>>
  <2>1. /\ Len(list) = 3 /\ list[1] = d /\ list[2] = c /\ list[3] = b /\ Head(list) = d /\ Tail(list) = <<c, b>>
        /\ list # <<>> /\ <<c, b>> # <<b>>
    BY <1>6
  <2>. QED
    BY <1>0, <1>2, <2>1 DEF About, b
<1>7. CASE list = <<e, d, c, b>>
  <2>1. /\ Len(list) = 4 /\ list[1] = e /\ list[2] = d /\ list[3] = c /\ list[4] = b /\ Head(list) = e
        /\ Tail(list) = <<d, c, b>> /\ list # <<>> /\ <<d, c, b>> # <<b>>
    BY <1>7
  <2>. QED
    BY <1>0, <1>2, <2>1 DEF About, b
<1>. QED
  BY <1>1, <1>3, <1>4, <1>5, <1>6, <1>7

\* The parts of the others.
LEMMA PostlessParts ==
    ASSUME NEW list \in Seq(Postless)
    PROVE  /\ \A p \in HookPosts : ~About(list, p)
           /\ \A x : list # <<Stmt("triggers", x)>>
           /\ list # <<>> => Head(list) \in Postless /\ Tail(list) \in Seq(Postless)
<1>1. \A i \in 1..Len(list) : list[i] \in Postless
  OBVIOUS
<1>2. \A o \in Postless : o.x.post = None /\ o.do # "triggers"
  BY DEF Postless
<1>3. \A x : list # <<Stmt("triggers", x)>>
  <2>. SUFFICES ASSUME NEW x, list = <<Stmt("triggers", x)>> PROVE FALSE
    OBVIOUS
  <2>1. Len(list) = 1 /\ list[1] = Stmt("triggers", x)
    OBVIOUS
  <2>. QED
    BY <1>1, <1>2, <2>1 DEF Stmt
<1>4. list # <<>> => Head(list) \in Postless /\ Tail(list) \in Seq(Postless)
  OBVIOUS
<1>. QED
  BY <1>1, <1>2, <1>3, <1>4, IntegrationsAssumption DEF About

\* A request goes on with another list, which is about no post that another request is about.
LEMMA HookListStep ==
    ASSUME HookLists, CalledPosts, CalledIsOver, NEW t \in Tasks, NEW new \in HookList,
           task' = [task EXCEPT ![t] = new],
           \A p \in HookPosts : hookPost[p] # None => hookPost'[p] # None,
           \A x \in PostWorks : new = <<Stmt("triggers", x)>> => hookPost'[x.post] # None,
           \A p \in HookPosts : About(new, p) => About(task[t], p) \/ p \in FreshPost,
           \A c \in Callbacks : callback'[c] # None => callback[c] # None
    PROVE  HookLists' /\ CalledIsOver'
<1>1. task' \in [Tasks -> HookList] /\ task'[t] = new /\ \A u \in Tasks : u # t => task'[u] = task[u]
  BY DEF HookLists
<1>2. \A u \in Tasks, p \in HookPosts : p \in FreshPost => ~About(task[u], p)
  BY DEF FreshPost, About
<1>3. \A u \in Tasks, p \in HookPosts : About(task'[u], p) => About(task[u], p) \/ (u = t /\ p \in FreshPost)
  BY <1>1
<1>4. ASSUME NEW u \in Tasks, NEW x \in PostWorks, task'[u] = <<Stmt("triggers", x)>> PROVE hookPost'[x.post] # None
  <2>1. x.post \in HookPosts
    BY DEF PostWorks
  <2>. QED
    BY <1>1, <1>4, <2>1 DEF HookLists
<1>5. \A u, v \in Tasks, p \in HookPosts : About(task'[u], p) /\ About(task'[v], p) => u = v
  BY <1>2, <1>3 DEF HookLists
<1>6. ASSUME NEW c \in Callbacks, callback'[c] # None, NEW u \in Tasks PROVE ~About(task'[u], c[1])
  <2>1. c[1] \in HookPosts /\ callback[c] # None /\ hookPost[c[1]] # None /\ ~About(task[u], c[1])
    BY <1>6 DEF Callbacks, CalledPosts, CalledIsOver
  <2>2. c[1] \notin FreshPost
    BY <2>1 DEF FreshPost
  <2>. QED
    BY <1>3, <2>1, <2>2
<1>. QED
  BY <1>1, <1>4, <1>5, <1>6 DEF HookLists, CalledIsOver

LEMMA HookListFacts ==
    /\ <<>> \in HookList /\ \A p : ~About(<<>>, p)
    /\ \A x : <<>> # <<Stmt("triggers", x)>>
    /\ \A list \in HookList : <<>> \o list = list /\ list \o <<>> = list
<1>1. <<>> \in HookList /\ \A p : ~About(<<>>, p)
  BY ShortLists DEF HookList, About
<1>2. \A x : <<>> # <<Stmt("triggers", x)>>
  BY ShortLists
<1>3. ASSUME NEW list \in HookList PROVE \E S : list \in Seq(S)
  <2>1. CASE list \in Seq(Postless)
    BY <2>1
  <2>2. ASSUME NEW x, list \in Making(x) PROVE \E S : list \in Seq(S)
    <3>1. PICK S : S = {Stmt("poster", x), Stmt("triggers", x), Stmt("insert_post", x), Stmt("add_caller", x), Stmt("add_call", x)}
      OBVIOUS
    <3>2. /\ Stmt("poster", x) \in S /\ Stmt("triggers", x) \in S /\ Stmt("insert_post", x) \in S
          /\ Stmt("add_caller", x) \in S /\ Stmt("add_call", x) \in S
      BY <3>1
    <3>3. \A a, b, c, d \in S : <<a, b, c, d>> \in Seq(S) /\ <<a, b, c>> \in Seq(S) /\ <<a, b>> \in Seq(S) /\ <<a>> \in Seq(S)
      OBVIOUS
    <3>4. list \in Seq(S)
      BY <2>2, <3>2, <3>3 DEF Making, CreatePost
    <3>. QED
      BY <3>4
  <2>. QED
    BY <2>1, <2>2 DEF HookList
<1>4. \A S : \A list \in Seq(S) : <<>> \o list = list /\ list \o <<>> = list
  OBVIOUS
<1>. QED
  BY <1>1, <1>2, <1>3, <1>4

\* A statement is done and the rest follows, or the request stops.
LEMMA HookGoesOn ==
    ASSUME HookLists, CalledPosts, CalledIsOver, NEW t \in Tasks, Busy(t),
           Continue(t, <<>>) \/ GiveUp(t) \/ Interrupted(t),
           \A p \in HookPosts : hookPost[p] # None => hookPost'[p] # None,
           Head(task[t]).do = "insert_post" /\ Continue(t, <<>>) => hookPost'[Head(task[t]).x.post] # None,
           \A c \in Callbacks : callback'[c] # None => callback[c] # None
    PROVE  HookLists' /\ CalledIsOver'
<1>1. task[t] \in HookList /\ task[t] # <<>>
  BY DEF HookLists, Busy
<1>2. CASE task' = [task EXCEPT ![t] = <<>>]
  BY <1>2, HookListFacts, HookListStep
<1>3. CASE Continue(t, <<>>)
  <2>. DEFINE new == Tail(task[t])
  <2>1. /\ new \in HookList /\ \A p \in HookPosts : About(new, p) => About(task[t], p)
        /\ \A x \in PostWorks : new = <<Stmt("triggers", x)>> => hookPost'[x.post] # None
    <3>1. CASE task[t] \in Seq(Postless)
      BY <1>1, <3>1, PostlessParts DEF HookList
    <3>2. ASSUME NEW x \in PostWorks, task[t] \in Making(x)
          PROVE  /\ new \in HookList /\ \A p \in HookPosts : About(new, p) => About(task[t], p)
                 /\ \A y \in PostWorks : new = <<Stmt("triggers", y)>> => hookPost'[y.post] # None
      <4>1. CASE new = <<>>
        BY <4>1, HookListFacts
      <4>2. CASE new \in Making(x)
        <5>1. \A p \in HookPosts : About(new, p) => About(task[t], p)
          <6>1. \A p : About(task[t], p) <=> p = x.post
            BY <3>2, MakingParts
          <6>2. \A p : About(new, p) <=> p = x.post
            <7>. HIDE DEF new
            <7>. QED
              BY <4>2, MakingParts
          <6>. QED
            BY <6>1, <6>2
        <5>3. new \in HookList
          <6>. HIDE DEF new
          <6>. QED
            BY <4>2 DEF HookList
        <5>2. ASSUME NEW y \in PostWorks, new = <<Stmt("triggers", y)>> PROVE hookPost'[y.post] # None
          <6>1. x = y
            <7>. HIDE DEF new
            <7>1. Head(new).x = x
              BY <4>2, MakingParts
            <7>2. \A o : Head(<<o>>) = o
              OBVIOUS
            <7>3. Head(new) = Stmt("triggers", y)
              BY <5>2, <7>2
            <7>. QED
              BY <7>1, <7>3 DEF Stmt
          <6>2. Head(task[t]).do = "insert_post" /\ Head(task[t]).x = x
            BY <3>2, <5>2, <6>1, MakingParts
          <6>. QED
            BY <1>3, <6>1, <6>2
        <5>. QED
          BY <5>1, <5>2, <5>3
      <4>. QED
        BY <3>2, <4>1, <4>2, MakingParts
    <3>. QED
      BY <1>1, <3>1, <3>2 DEF HookList
  <2>2. task' = [task EXCEPT ![t] = new]
    BY <1>3, <2>1, HookListFacts DEF Continue
  <2>. HIDE DEF new
  <2>. QED
    BY <2>1, <2>2, HookListStep
<1>. QED
  BY <1>2, <1>3 DEF GiveUp, Interrupted

\* What the statement at the head of a list can be.
LEMMA HookHeads ==
    ASSUME HookLists, NEW t \in Tasks, Busy(t)
    PROVE  LET o == Head(task[t])
           IN  /\ o.do \in {"poster", "triggers", "insert_post"} => /\ o.x \in PostWorks /\ task[t] \in Making(o.x)
                                                                    /\ About(task[t], o.x.post)
               /\ o.do = "insert_bot_user" => o.x.about \in Bots
<1>. DEFINE o == Head(task[t])
<1>1. task[t] \in HookList /\ task[t] # <<>>
  BY DEF HookLists, Busy
<1>2. CASE task[t] \in Seq(Postless)
  BY <1>1, <1>2, PostlessParts DEF Postless
<1>3. ASSUME NEW x \in PostWorks, task[t] \in Making(x) PROVE o.x = x /\ o.do # "insert_bot_user" /\ About(task[t], x.post)
  BY <1>3, MakingParts
<1>. QED
  BY <1>1, <1>2, <1>3 DEF HookList

\* What makes the calls of webhooks right survives every step of the area.
LEMMA HookInvNext ==
    ASSUME HookRows, CallbackCounts, CalledPosts, HookLists, CalledIsOver, IntegrationsNext
    PROVE  HookRows' /\ CallbackCounts' /\ CalledPosts' /\ HookLists' /\ CalledIsOver'
<1>. DEFINE Preserved == HookRows' /\ CallbackCounts' /\ CalledPosts' /\ HookLists' /\ CalledIsOver'
            Grows == \A p \in HookPosts : hookPost[p] # None => hookPost'[p] # None
<1>1. /\ UNCHANGED <<callback, heard>> /\ Grows => CallbackCounts' /\ CalledPosts'
      /\ UNCHANGED hookPost => Grows
  BY DEF CallbackCounts, CalledPosts, Callbacks
<1>2. task' = task /\ Grows /\ (\A c \in Callbacks : callback'[c] # None => callback[c] # None) => HookLists' /\ CalledIsOver'
  BY DEF HookLists, CalledIsOver, PostWorks
<1>3. UNCHANGED IntegrationVars => HookRows' /\ CallbackCounts' /\ CalledPosts'
  BY <1>1 DEF IntegrationVars, HookRows
<1>4. ASSUME NEW t \in Tasks, NEW todo \in HookList, task' = [task EXCEPT ![t] = todo], UNCHANGED IntegrationVars,
             \A x \in PostWorks : todo # <<Stmt("triggers", x)>>,
             \A p \in HookPosts : About(todo, p) => About(task[t], p) \/ p \in FreshPost
      PROVE  Preserved
  <2>1. Grows /\ \A c \in Callbacks : callback'[c] # None => callback[c] # None
    BY <1>4 DEF IntegrationVars
  <2>2. HookLists' /\ CalledIsOver'
    BY <1>4, <2>1, HookListStep
  <2>. QED
    BY <1>3, <1>4, <2>2
<1>5. ASSUME NEW t \in Tasks, NEW x \in PostWorks, NEW todo \in Making(x), Head(todo).do # "triggers",
             task' = [task EXCEPT ![t] = todo], UNCHANGED IntegrationVars, About(task[t], x.post) \/ x.post \in FreshPost
      PROVE  Preserved
  <2>1. todo \in HookList
    BY DEF HookList
  <2>2. \A p \in HookPosts : About(todo, p) => About(task[t], p) \/ p \in FreshPost
    BY <1>5, MakingParts
  <2>3. \A y : todo # <<Stmt("triggers", y)>>
    <3>1. \A o : Head(<<o>>) = o
      OBVIOUS
    <3>. QED
      BY <1>5, <3>1 DEF Stmt
  <2>. QED
    BY <1>4, <1>5, <2>1, <2>2, <2>3
<1>6. ASSUME NEW t \in Tasks, NEW todo \in Seq(Postless), task' = [task EXCEPT ![t] = todo], UNCHANGED IntegrationVars
      PROVE  Preserved
  <2>1. todo \in HookList /\ \A x : todo # <<Stmt("triggers", x)>>
    BY PostlessParts DEF HookList
  <2>2. \A p \in HookPosts : ~About(todo, p)
    BY PostlessParts
  <2>. QED
    BY <1>4, <1>6, <2>1, <2>2
<1>7. ASSUME UNCHANGED <<task, hookPost, callback, heard>>, inHook' \in [InHooks -> Authors \cup {None}],
             outHook' \in [OutHooks -> OutHookRow \cup {None}], botUser' \subseteq Bots
      PROVE  Preserved
  <2>1. HookRows'
    BY <1>7 DEF HookRows
  <2>2. Grows /\ \A c \in Callbacks : callback'[c] # None => callback[c] # None
    BY <1>7
  <2>. QED
    BY <1>1, <1>2, <1>7, <2>1, <2>2
<1>8. /\ \A p \in HookPosts, word \in Words, u \in Authors : [PostWork(p, word) EXCEPT !.author = u] \in PostWorks
      /\ \A p \in HookPosts, word \in Words, u \in Authors, h \in InHooks \cup CommandCalls :
            /\ [PostWork(p, word) EXCEPT !.author = u, !.about = h] \in PostWorks
            /\ [PostWork(p, word) EXCEPT !.about = h, !.author = u] \in PostWorks
  BY DEF PostWork, PostWorks, Work
<1>9. \A x : /\ CreatePost(x) \in Making(x) /\ Head(CreatePost(x)).do = "insert_post"
             /\ <<Stmt("poster", x)>> \in Making(x) /\ Head(<<Stmt("poster", x)>>).do = "poster"
  BY DEF Making, CreatePost, Stmt
<1>10. ASSUME NEW t \in Tasks, NEW u \in Authors, NEW word \in Words, create_post(t, u, word) PROVE Preserved
  <2>1. PICK p \in FreshPost : Begin(t, CreatePost([PostWork(p, word) EXCEPT !.author = u]))
    BY <1>10 DEF create_post
  <2>2. PICK x : x = [PostWork(p, word) EXCEPT !.author = u]
    OBVIOUS
  <2>3. p \in HookPosts
    BY DEF FreshPost
  <2>4. x \in PostWorks /\ x.post = p
    BY <1>8, <2>2, <2>3 DEF PostWork
  <2>5. task' = [task EXCEPT ![t] = CreatePost(x)] /\ UNCHANGED IntegrationVars
    BY <1>10, <2>1, <2>2 DEF create_post, Begin
  <2>. QED
    BY <1>5, <1>9, <2>4, <2>5
<1>11. ASSUME NEW t \in Tasks, NEW h \in InHooks, NEW word \in Words,
              execute_incoming_webhook_v1(h, word) \/ execute_incoming_webhook(t, h, word)
       PROVE  Preserved
  <2>1. inHook[h] \in Authors
    BY <1>11 DEF execute_incoming_webhook_v1, execute_incoming_webhook, HookRows
  <2>2. CASE execute_incoming_webhook_v1(h, word)
    <3>1. PICK p \in HookPosts : hookPost' = [hookPost EXCEPT ![p] = [author |-> inHook[h], word |-> word]]
      BY <2>2 DEF execute_incoming_webhook_v1, FreshPost
    <3>2. UNCHANGED <<inHook, outHook, botUser, callback, heard, task>>
      BY <2>2 DEF execute_incoming_webhook_v1, Statement
    <3>3. [author |-> inHook[h], word |-> word] \in HookPostRow
      BY <2>1 DEF HookPostRow
    <3>4. HookRows' /\ Grows
      BY <3>1, <3>2, <3>3, IntegrationsAssumption DEF HookRows
    <3>. QED
      BY <1>1, <1>2, <3>2, <3>4
  <2>3. CASE execute_incoming_webhook(t, h, word)
    <3>1. PICK p \in FreshPost : Begin(t, <<Stmt("poster", [PostWork(p, word) EXCEPT !.about = h, !.author = inHook[h]])>>)
      BY <2>3 DEF execute_incoming_webhook
    <3>2. PICK x : x = [PostWork(p, word) EXCEPT !.about = h, !.author = inHook[h]]
      OBVIOUS
    <3>3. p \in HookPosts
      BY DEF FreshPost
    <3>4. x \in PostWorks /\ x.post = p
      BY <1>8, <2>1, <3>2, <3>3 DEF PostWork
    <3>5. task' = [task EXCEPT ![t] = <<Stmt("poster", x)>>] /\ UNCHANGED IntegrationVars
      BY <2>3, <3>1, <3>2 DEF execute_incoming_webhook, Begin
    <3>. QED
      BY <1>5, <1>9, <3>4, <3>5
  <2>. QED
    BY <1>11, <2>2, <2>3
<1>12. ASSUME NEW t \in Tasks, HookRequest(t) PROVE Preserved
  <2>1. ASSUME NEW h \in InHooks, NEW u \in Authors, NEW v4 \in BOOLEAN, create_incoming_webhook(u, h, v4) PROVE Preserved
    BY <1>7, <2>1 DEF create_incoming_webhook, Statement, HookRows
  <2>2. ASSUME NEW h \in InHooks, delete_incoming_webhook(h) PROVE Preserved
    BY <1>7, <2>2 DEF delete_incoming_webhook, Statement, HookRows
  <2>3. ASSUME NEW h \in OutHooks, NEW r \in OutHookRow \cup {None}, SetOutHook(h, r) PROVE Preserved
    BY <1>7, <2>3 DEF SetOutHook, Statement, HookRows
  <2>4. ASSUME NEW h \in OutHooks, NEW when \in Whens, NEW urls \in UrlLists,
               create_outgoing_webhook(h, when, urls) \/ create_outgoing_hook(h, urls)
        PROVE  Preserved
    <3>1. \A w \in Whens : [when |-> w, urls |-> urls, token |-> 0] \in OutHookRow
      BY DEF OutHookRow
    <3>2. "first_word" \in Whens
      BY DEF Whens
    <3>. QED
      BY <2>3, <2>4, <3>1, <3>2 DEF create_outgoing_webhook, create_outgoing_hook
  <2>5. ASSUME NEW h \in OutHooks, delete_outgoing_webhook(h) \/ regen_outgoing_hook_token(h) PROVE Preserved
    <3>1. outHook[h] # None => [outHook[h] EXCEPT !.token = @ + 1] \in OutHookRow
      BY DEF HookRows, OutHookRow
    <3>. QED
      BY <2>3, <2>5, <3>1 DEF delete_outgoing_webhook, regen_outgoing_hook_token
  <2>6. ASSUME NEW h \in OutHooks, NEW urls \in UrlLists, update_outgoing_hook(h, urls) PROVE Preserved
    <3>1. outHook[h] # None => [outHook[h] EXCEPT !.urls = urls] \in OutHookRow
      BY DEF HookRows, OutHookRow
    <3>. QED
      BY <2>3, <2>6, <3>1 DEF update_outgoing_hook
  <2>7. \A h \in OutHooks, urls \in UrlLists : create_outgoing_hook(h, urls) => Preserved
    BY <2>4 DEF Whens
  <2>. HIDE DEF Preserved
  <2>. QED
    BY <1>10, <1>11, <1>12, <2>1, <2>2, <2>4, <2>5, <2>6, <2>7 DEF HookRequest
<1>13. ASSUME NEW t \in Tasks, NEW u \in Authors, slash_call(t, u) PROVE Preserved
  <2>1. UNCHANGED IntegrationVars
    BY <1>13 DEF slash_call
  <2>2. ASSUME NEW c \in CommandCalls, NEW x, x = [PostWork(None, "nowhere") EXCEPT !.author = u, !.about = c],
               Begin(t, <<Stmt("add_caller", x)>>)
        PROVE  Preserved
    <3>1. Stmt("add_caller", x) \in Postless
      BY <2>2 DEF Postless, Stmt, PostWork, Work, Words
    <3>2. <<Stmt("add_caller", x)>> \in Seq(Postless)
      BY <3>1, ShortLists
    <3>. QED
      BY <1>6, <2>1, <2>2, <3>2 DEF Begin
  <2>3. ASSUME NEW c \in CommandCalls, NEW p \in FreshPost, NEW x, x = [PostWork(p, "nowhere") EXCEPT !.author = u, !.about = c],
               Begin(t, <<Stmt("add_call", x), Stmt("add_caller", x)>> \o CreatePost(x))
        PROVE  Preserved
    <3>1. p \in HookPosts /\ "nowhere" \in Words
      BY DEF FreshPost, Words
    <3>2. x \in PostWorks /\ x.post = p
      BY <1>8, <2>3, <3>1 DEF PostWork
    <3>3. PICK todo : todo = <<Stmt("add_call", x), Stmt("add_caller", x), Stmt("insert_post", x), Stmt("triggers", x)>>
      OBVIOUS
    <3>4. Head(todo) = Stmt("add_call", x)
      BY <3>3
    <3>5. task' = [task EXCEPT ![t] = todo]
      <4>1. PICK r, q : r = <<Stmt("add_call", x), Stmt("add_caller", x)>> /\ q = CreatePost(x)
        OBVIOUS
      <4>2. PICK S : S = {Stmt("add_call", x), Stmt("add_caller", x), Stmt("insert_post", x), Stmt("triggers", x)}
        OBVIOUS
      <4>3. /\ r \in Seq(S) /\ Len(r) = 2 /\ r[1] = Stmt("add_call", x) /\ r[2] = Stmt("add_caller", x)
            /\ q \in Seq(S) /\ Len(q) = 2 /\ q[1] = Stmt("insert_post", x) /\ q[2] = Stmt("triggers", x)
            /\ todo \in Seq(S) /\ Len(todo) = 4 /\ todo[1] = r[1] /\ todo[2] = r[2] /\ todo[3] = q[1] /\ todo[4] = q[2]
        BY <3>3, <4>1, <4>2 DEF CreatePost
      <4>4. PICK both : both = r \o q
        OBVIOUS
      <4>5. /\ both \in Seq(S) /\ Len(both) = Len(r) + Len(q)
            /\ \A i \in 1..Len(r) + Len(q) : both[i] = IF i <= Len(r) THEN r[i] ELSE q[i - Len(r)]
        BY <4>3, <4>4, JoinedPlaces, Zenon
      <4>6. both = todo
        <5>1. Len(both) = Len(todo) /\ \A i \in 1..Len(both) : both[i] = todo[i]
          BY <4>3, <4>5
        <5>. QED
          BY <4>3, <4>5, <5>1, SameList
      <4>. QED
        BY <2>3, <4>1, <4>4, <4>6 DEF Begin
    <3>6. todo \in Making(x) /\ Head(todo).do = "add_call"
      BY <3>3, <3>4 DEF Making, Stmt
    <3>. QED
      BY <1>5, <2>1, <3>2, <3>5, <3>6
  <2>4. CASE OpenCalls # {}
    <3>1. PICK c \in OpenCalls : Begin(t, <<Stmt("add_caller", [PostWork(None, "nowhere") EXCEPT !.author = u, !.about = c])>>)
      BY <1>13, <2>4 DEF slash_call
    <3>2. c \in CommandCalls
      BY DEF OpenCalls
    <3>. QED
      BY <2>2, <3>1, <3>2
  <2>5. CASE OpenCalls = {}
    <3>. DEFINE by(c, p) == [PostWork(p, "nowhere") EXCEPT !.author = u, !.about = c]
    <3>1. PICK c \in FreshCall, p \in FreshPost :
             Begin(t, <<Stmt("add_call", by(c, p)), Stmt("add_caller", by(c, p))>> \o CreatePost(by(c, p)))
      BY <1>13, <2>5 DEF slash_call
    <3>2. c \in CommandCalls
      BY DEF FreshCall
    <3>. QED
      BY <2>3, <3>1, <3>2
  <2>. QED
    BY <2>4, <2>5
<1>14. ASSUME NEW t \in Tasks, CommandRequest(t) PROVE Preserved
  <2>1. ASSUME NEW u \in Authors, create_slash_command(u) \/ slash_join(u) \/ slash_leave(u) PROVE Preserved
    BY <1>7, <2>1 DEF create_slash_command, slash_join, slash_leave, Statement, HookRows
  <2>2. ASSUME delete_slash_command PROVE Preserved
    BY <1>7, <2>2 DEF delete_slash_command, Statement, HookRows
  <2>3. ASSUME NEW u \in Authors, NEW word \in Words, slash_me(t, u, word) PROVE Preserved
    BY <1>10, <2>3 DEF slash_me
  <2>4. ASSUME slash_custom(t) PROVE Preserved
    <3>1. Stmt("run_command", PostWork(None, "nowhere")) \in Postless
      BY DEF Postless, Stmt, PostWork, Work, Words
    <3>2. <<Stmt("run_command", PostWork(None, "nowhere"))>> \in Seq(Postless)
      BY <3>1, ShortLists
    <3>. QED
      BY <1>6, <2>4, <3>2 DEF slash_custom, Begin
  <2>5. ASSUME slash_call_end(t) PROVE Preserved
    <3>1. PICK c \in OpenCalls : LET x == [PostWork(None, "nowhere") EXCEPT !.about = c]
                                 IN  Begin(t, <<Stmt("clear_call", x), Stmt("remove_call", x)>>)
      BY <2>5 DEF slash_call_end
    <3>2. PICK x : x = [PostWork(None, "nowhere") EXCEPT !.about = c]
      OBVIOUS
    <3>3. c \in CommandCalls
      BY DEF OpenCalls
    <3>4. Stmt("clear_call", x) \in Postless /\ Stmt("remove_call", x) \in Postless
      BY <3>2, <3>3 DEF Postless, Stmt, PostWork, Work, Words
    <3>5. <<Stmt("clear_call", x), Stmt("remove_call", x)>> \in Seq(Postless)
      BY <3>4, ShortLists
    <3>. QED
      BY <1>6, <2>5, <3>1, <3>2, <3>5 DEF slash_call_end, Begin
  <2>. HIDE DEF Preserved
  <2>. QED
    BY <1>13, <1>14, <2>1, <2>2, <2>3, <2>4, <2>5 DEF CommandRequest
<1>15. ASSUME NEW t \in Tasks, BotRequest(t) PROVE Preserved
  <2>1. ASSUME NEW b \in Bots, NEW u \in Authors, create_bot(t, u, b) PROVE Preserved
    <3>1. PICK x : x = [PostWork(None, "nowhere") EXCEPT !.author = u, !.about = b]
      OBVIOUS
    <3>2. Stmt("insert_bot_user", x) \in Postless /\ Stmt("insert_bot", x) \in Postless
      BY <3>1 DEF Postless, Stmt, PostWork, Work, Words
    <3>3. <<Stmt("insert_bot_user", x), Stmt("insert_bot", x)>> \in Seq(Postless)
      BY <3>2, ShortLists
    <3>. QED
      BY <1>6, <2>1, <3>1, <3>3 DEF create_bot, Begin
  <2>2. ASSUME NEW b \in Bots, delete_bot(b) \/ \E k \in BotTokens : create_bot_token(b, k) \/ revoke_bot_token(b, k)
        PROVE  Preserved
    BY <1>7, <2>2 DEF delete_bot, create_bot_token, revoke_bot_token, Statement, HookRows
  <2>. HIDE DEF Preserved
  <2>. QED
    BY <1>15, <2>1, <2>2 DEF BotRequest
<1>16. ASSUME NEW t \in Tasks, Interrupted(t), UNCHANGED IntegrationVars PROVE Preserved
  <2>1. <<>> \in Seq(Postless)
    OBVIOUS
  <2>. QED
    BY <1>6, <1>16, <2>1 DEF Interrupted
<1>17. ASSUME NEW c \in Callbacks, Trying(c), NEW state \in {"trying", "answered", "failed"}, NEW got \in 0..1,
              Outcome(c, state, got), state = "trying" => callback[c].n + 1 < MaxAttempts, UNCHANGED task
       PROVE  Preserved
  <2>1. callback[c] \in CallbackRow /\ callback[c].n \in Nat /\ callback[c].n < MaxAttempts /\ heard[c] <= callback[c].n
    BY <1>17 DEF Trying, HookRows, CallbackCounts, CallbackRow
  <2>2. PICK r : r = [callback[c] EXCEPT !.n = @ + 1, !.state = state]
    OBVIOUS
  <2>3. r \in CallbackRow /\ r.n = callback[c].n + 1 /\ r.state = state /\ r # None /\ r.token = callback[c].token
    <3>1. PICK n \in 0..MaxAttempts : n = callback[c].n + 1
      BY <2>1 DEF MaxAttempts
    <3>2. r = [callback[c] EXCEPT !.n = n, !.state = state]
      BY <2>2, <3>1
    <3>3. r \in CallbackRow /\ r.n = n /\ r.state = state /\ r.token = callback[c].token
      BY <2>1, <3>2 DEF CallbackRow
    <3>. QED
      BY <3>1, <3>3, IntegrationsAssumption
  <2>4. callback' = [callback EXCEPT ![c] = r] /\ callback' \in [Callbacks -> CallbackRow \cup {None}]
    BY <1>17, <2>2, <2>3 DEF Outcome, HookRows
  <2>5. heard' \in [Callbacks -> Nat] /\ heard'[c] = heard[c] + got /\ \A d \in Callbacks : d # c => heard'[d] = heard[d]
    BY <1>17 DEF Outcome, HookRows
  <2>6. callback'[c] = r /\ \A d \in Callbacks : d # c => callback'[d] = callback[d]
    BY <2>4 DEF HookRows
  <2>7. UNCHANGED <<inHook, outHook, botUser, hookPost>>
    BY <1>17 DEF Outcome
  <2>8. HookRows'
    BY <2>4, <2>5, <2>7 DEF HookRows
  <2>9. CallbackCounts'
    <3>1. ASSUME NEW d \in Callbacks, d # c
          PROVE  /\ callback'[d] = None => heard'[d] = 0
                 /\ callback'[d] # None => /\ heard'[d] <= callback'[d].n
                                           /\ callback'[d].state = "trying" => callback'[d].n < MaxAttempts
      BY <2>5, <2>6, <3>1 DEF CallbackCounts
    <3>2. heard'[c] <= callback'[c].n /\ (callback'[c].state = "trying" => callback'[c].n < MaxAttempts) /\ callback'[c] # None
      BY <1>17, <2>1, <2>3, <2>5, <2>6 DEF HookRows
    <3>. QED
      BY <3>1, <3>2 DEF CallbackCounts
  <2>10. \A d \in Callbacks : callback'[d] # None => callback[d] # None /\ callback'[d].token = callback[d].token
    BY <1>17, <2>3, <2>6 DEF Trying
  <2>11. CalledPosts'
    BY <2>7, <2>10 DEF CalledPosts
  <2>. QED
    BY <1>2, <1>17, <2>7, <2>8, <2>9, <2>10, <2>11
<1>18. ASSUME NEW c \in Callbacks, CallbackAnswered(c) \/ \E got \in 0..1 : CallbackFails(c, got) PROVE Preserved
  <2>1. CASE CallbackAnswered(c)
    BY <1>17, <2>1 DEF CallbackAnswered, RequestVars
  <2>2. ASSUME NEW got \in 0..1, CallbackFails(c, got) PROVE Preserved
    <3>1. PICK state : state = IF callback[c].n + 1 < MaxAttempts THEN "trying" ELSE "failed"
      OBVIOUS
    <3>2. Outcome(c, state, got) /\ Trying(c) /\ UNCHANGED task
      BY <2>2, <3>1 DEF CallbackFails, Statement
    <3>3. state \in {"trying", "answered", "failed"} /\ (state = "trying" => callback[c].n + 1 < MaxAttempts)
      BY <3>1
    <3>. QED
      BY <1>17, <3>2, <3>3
  <2>. QED
    BY <1>18, <2>1, <2>2
<1>19. ASSUME NEW t \in Tasks, Busy(t), NEW o, o = Head(task[t]), IntegrationStep(t, o) PROVE Preserved
  <2>1. ASSUME UNCHANGED <<inHook, outHook, hookPost, callback, heard>>, botUser' \subseteq Bots, o.do # "insert_post",
               Continue(t, <<>>) \/ GiveUp(t)
        PROVE  Preserved
    <3>1. HookRows'
      BY <2>1 DEF HookRows
    <3>2. Grows /\ \A c \in Callbacks : callback'[c] # None => callback[c] # None
      BY <2>1
    <3>3. HookLists' /\ CalledIsOver'
      BY <1>19, <2>1, <3>2, HookGoesOn
    <3>. QED
      BY <1>1, <2>1, <3>1, <3>2, <3>3
  <2>2. CASE InsertPost(t, o)
    <3>1. o.x \in PostWorks /\ o.do = "insert_post"
      BY <1>19, <2>2, HookHeads DEF InsertPost
    <3>2. /\ UNCHANGED <<inHook, outHook, botUser, callback, heard>>
          /\ \/ GiveUp(t) /\ UNCHANGED hookPost
             \/ /\ hookPost' = [hookPost EXCEPT ![o.x.post] = [author |-> o.x.author, word |-> o.x.word]]
                /\ Continue(t, <<>>)
      BY <2>2 DEF InsertPost
    <3>3. [author |-> o.x.author, word |-> o.x.word] \in HookPostRow /\ o.x.post \in HookPosts
      BY <3>1 DEF HookPostRow, PostWorks, Work
    <3>4. CASE GiveUp(t) /\ UNCHANGED hookPost
      <4>1. <<>> \in Seq(Postless)
        OBVIOUS
      <4>2. UNCHANGED IntegrationVars
        BY <2>2, <3>2, <3>4 DEF InsertPost, IntegrationVars
      <4>. QED
        BY <1>6, <3>4, <4>1, <4>2 DEF GiveUp
    <3>5. CASE /\ hookPost' = [hookPost EXCEPT ![o.x.post] = [author |-> o.x.author, word |-> o.x.word]]
               /\ Continue(t, <<>>)
      <4>1. HookRows' /\ Grows /\ hookPost'[o.x.post] # None
        BY <3>2, <3>3, <3>5, IntegrationsAssumption DEF HookRows
      <4>2. \A c \in Callbacks : callback'[c] # None => callback[c] # None
        BY <3>2
      <4>3. HookLists' /\ CalledIsOver'
        BY <1>19, <3>5, <4>1, <4>2, HookGoesOn
      <4>. QED
        BY <1>1, <3>2, <4>1, <4>3
    <3>. QED
      BY <3>2, <3>4, <3>5
  <2>3. CASE check_outgoing_triggers(t, o)
    <3>. DEFINE p == o.x.post
    <3>1. /\ o.x \in PostWorks /\ task[t] \in Making(o.x) /\ o.do = "triggers" /\ About(task[t], p) /\ Continue(t, <<>>)
          /\ UNCHANGED <<inHook, outHook, botUser, hookPost, heard>>
      BY <1>19, <2>3, HookHeads DEF check_outgoing_triggers
    <3>2. p \in HookPosts /\ hookPost[p] # None
      <4>1. task[t] = <<Stmt("triggers", o.x)>>
        BY <1>19, <3>1, MakingParts
      <4>. QED
        BY <3>1, <4>1 DEF HookLists, PostWorks
    <3>3. task' = [task EXCEPT ![t] = <<>>]
      <4>1. Tail(task[t]) = <<>>
        BY <1>19, <3>1, MakingParts
      <4>2. <<>> \o <<>> = <<>>
        BY HookListFacts
      <4>. QED
        BY <3>1, <4>1, <4>2 DEF Continue
    <3>4. \A u \in Tasks : ~About(task'[u], p)
      <4>1. \A u \in Tasks : u # t => task'[u] = task[u] /\ ~About(task[u], p)
        BY <3>1, <3>2, <3>3 DEF HookLists
      <4>2. task'[t] = <<>>
        BY <3>3 DEF HookLists
      <4>. QED
        BY <4>1, <4>2, HookListFacts
    <3>5. \A c \in Callbacks : callback[c] # None => c[1] # p
      BY <3>1 DEF CalledIsOver
    <3>6. CASE UNCHANGED callback
      <4>1. UNCHANGED IntegrationVars
        BY <2>3, <3>6 DEF check_outgoing_triggers, IntegrationVars
      <4>2. <<>> \in Seq(Postless)
        OBVIOUS
      <4>. QED
        BY <1>6, <3>3, <4>1, <4>2
    <3>7. ASSUME NEW h \in Matching(o.x.word), Spawn(p, {h}) PROVE Preserved
      <4>. DEFINE Called(c) == /\ c[1] = p /\ c[2] = h
                               /\ c[3] \in DOMAIN outHook[h].urls /\ outHook[h].urls[c[3]] \notin RefusedUrls
                  r == [n |-> 0, state |-> "trying", token |-> outHook[h].token]
      <4>1. /\ callback' = [c \in Callbacks |->
                              IF /\ c[1] = p /\ c[2] \in {h}
                                 /\ c[3] \in DOMAIN outHook[c[2]].urls /\ outHook[c[2]].urls[c[3]] \notin RefusedUrls
                              THEN [n |-> 0, state |-> "trying", token |-> outHook[c[2]].token] ELSE callback[c]]
        BY <3>7 DEF Spawn
      <4>2. \A c \in Callbacks : callback'[c] = IF Called(c) THEN r ELSE callback[c]
        BY <4>1
      <4>3. r \in CallbackRow /\ r.n = 0 /\ r # None
        <5>1. outHook[h] \in OutHookRow
          BY DEF Matching, HookRows
        <5>2. r \in CallbackRow
          BY <5>1 DEF CallbackRow, OutHookRow, MaxAttempts
        <5>. QED
          BY <5>2, IntegrationsAssumption
      <4>. HIDE DEF r
      <4>4. HookRows'
        <5>1. \A c \in Callbacks : callback'[c] \in CallbackRow \cup {None}
          BY <4>2, <4>3 DEF HookRows
        <5>2. callback' \in [Callbacks -> CallbackRow \cup {None}]
          BY <4>1, <5>1
        <5>. QED
          BY <3>1, <5>2 DEF HookRows
      <4>5. CallbackCounts'
        <5>1. ASSUME NEW c \in Callbacks
              PROVE  /\ callback'[c] = None => heard'[c] = 0
                     /\ callback'[c] # None => /\ heard'[c] <= callback'[c].n
                                               /\ callback'[c].state = "trying" => callback'[c].n < MaxAttempts
          <6>1. heard'[c] = heard[c]
            BY <3>1
          <6>2. CASE Called(c)
            <7>1. heard[c] = 0 /\ callback'[c] = r
              BY <3>5, <4>2, <6>2 DEF CallbackCounts
            <7>. QED
              BY <4>3, <6>1, <7>1 DEF MaxAttempts
          <6>3. CASE ~Called(c)
            BY <4>2, <6>1, <6>3 DEF CallbackCounts
          <6>. QED
            BY <6>2, <6>3
        <5>. QED
          BY <5>1 DEF CallbackCounts
      <4>6. ASSUME NEW c \in Callbacks, callback'[c] # None
            PROVE  \/ c[1] = p /\ c[2] = h /\ callback'[c] = r
                   \/ c[1] # p /\ callback[c] # None /\ callback'[c] = callback[c]
        <5>1. callback'[c] = IF Called(c) THEN r ELSE callback[c]
          BY <4>2
        <5>2. Called(c) => c[1] = p /\ c[2] = h
          OBVIOUS
        <5>. HIDE DEF Called
        <5>. QED
          BY <3>5, <4>6, <5>1, <5>2
      <4>7. CalledPosts'
        BY <3>1, <3>2, <4>6 DEF CalledPosts
      <4>8. ASSUME NEW c \in Callbacks, callback'[c] # None, NEW u \in Tasks PROVE ~About(task'[u], c[1])
        <5>1. CASE c[1] = p
          BY <3>4, <5>1
        <5>2. CASE callback[c] # None
          <6>1. ~About(task[u], c[1]) /\ (task'[u] = task[u] \/ task'[u] = <<>>)
            BY <3>3, <5>2 DEF CalledIsOver, HookLists
          <6>. QED
            BY <6>1, HookListFacts
        <5>. QED
          BY <4>6, <4>8, <5>1, <5>2
      <4>9. HookLists'
        <5>1. task' \in [Tasks -> HookList] /\ \A u \in Tasks : task'[u] = task[u] \/ task'[u] = <<>>
          BY <3>3, HookListFacts DEF HookLists
        <5>2. \A u, v \in Tasks, q \in HookPosts : About(task'[u], q) /\ About(task'[v], q) => u = v
          BY <5>1, HookListFacts DEF HookLists
        <5>3. \A u \in Tasks, x \in PostWorks : task'[u] = <<Stmt("triggers", x)>> => hookPost'[x.post] # None
          BY <3>1, <5>1, HookListFacts DEF HookLists
        <5>. QED
          BY <5>1, <5>2, <5>3 DEF HookLists
      <4>. QED
        BY <4>4, <4>5, <4>7, <4>8, <4>9 DEF CalledIsOver
    <3>. QED
      BY <2>3, <3>6, <3>7 DEF check_outgoing_triggers
  <2>4. CASE ChoosePoster(t, o)
    <3>1. o.x \in PostWorks /\ task[t] \in Making(o.x) /\ o.do = "poster" /\ About(task[t], o.x.post) /\ UNCHANGED IntegrationVars
      BY <1>19, <2>4, HookHeads DEF ChoosePoster
    <3>2. PICK u \in Authors \cup Bots : Continue(t, CreatePost([o.x EXCEPT !.author = u]))
      BY <2>4, <3>1 DEF ChoosePoster, HookRows, PostWorks
    <3>3. PICK x : x = [o.x EXCEPT !.author = u]
      OBVIOUS
    <3>4. x \in PostWorks /\ x.post = o.x.post
      BY <3>1, <3>3 DEF PostWorks, Work
    <3>5. Tail(task[t]) = <<>>
      BY <1>19, <3>1, MakingParts
    <3>6. CreatePost(x) \o <<>> = CreatePost(x)
      BY <1>9, <3>4, HookListFacts DEF HookList
    <3>7. task' = [task EXCEPT ![t] = CreatePost(x)]
      BY <3>2, <3>3, <3>5, <3>6 DEF Continue
    <3>. QED
      BY <1>5, <1>9, <3>1, <3>4, <3>7
  <2>5. CASE RunCommand(t, o) \/ AddCall(t, o) \/ AddCaller(t, o) \/ ClearCall(t, o) \/ RemoveCall(t, o) \/ InsertBot(t, o)
    BY <2>1, <2>5
       DEF RunCommand, AddCall, AddCaller, ClearCall, RemoveCall, InsertBot, SetCall, IntegrationVars, HookRows
  <2>6. CASE InsertBotUser(t, o)
    <3>1. o.x.about \in Bots
      BY <1>19, <2>6, HookHeads DEF InsertBotUser
    <3>. QED
      BY <2>1, <2>6, <3>1 DEF InsertBotUser, HookRows
  <2>. HIDE DEF Preserved
  <2>. QED
    BY <1>19, <2>2, <2>3, <2>4, <2>5, <2>6 DEF IntegrationStep
<1>. HIDE DEF Preserved
<1>20. Preserved
  BY <1>12, <1>14, <1>15, <1>16, <1>18, <1>19 DEF IntegrationsNext
<1>. QED
  BY <1>20 DEF Preserved

\* The calls for a post are of one hook of those that match and carry one token, and no service hears of a
\* post that is not there, for any number of hooks, posts, URLs with repetitions, bots and requests at
\* once, whatever is done to the hooks meanwhile (services/webhooks.rs, check_outgoing_triggers).
THEOREM OneHookPerMessageAlways == WorkspaceSpec => []OneHookPerMessage
<1>1. WorkspaceInit => HookInv
  BY HookInvInit DEF WorkspaceInit, HookInv
<1>2. HookInv /\ [WorkspaceNext]_WorkspaceVars => HookInv'
  <2>. SUFFICES ASSUME HookInv, [WorkspaceNext]_WorkspaceVars PROVE HookInv'
    OBVIOUS
  <2>1. area' = area
    BY AreaSteps
  <2>2. CASE UNCHANGED IntegrationVars /\ (area # "integrations" \/ UNCHANGED RequestVars)
    <3>1. HookRows' /\ CallbackCounts' /\ CalledPosts'
      BY <2>2 DEF HookInv, HookRows, CallbackCounts, CalledPosts, IntegrationVars
    <3>2. area = "integrations" => HookLists' /\ CalledIsOver'
      BY <2>2 DEF HookInv, HookLists, CalledIsOver, IntegrationVars, RequestVars
    <3>. QED
      BY <2>1, <3>1, <3>2 DEF HookInv
  <2>3. CASE area = "integrations" /\ IntegrationsNext
    BY <2>1, <2>3, HookInvNext DEF HookInv
  <2>. QED
    BY <2>2, <2>3, AreaSteps
<1>3. HookInv => OneHookPerMessage
  <2>. SUFFICES ASSUME HookInv PROVE OneHookPerMessage
    OBVIOUS
  <2>1. ASSUME NEW c \in Callbacks, heard[c] > 0 PROVE hookPost[c[1]] # None
    BY <2>1 DEF HookInv, CallbackCounts, CalledPosts
  <2>. QED
    BY <2>1 DEF HookInv, CalledPosts, OneHookPerMessage
<1>. QED
  BY <1>1, <1>2, <1>3, PTL DEF WorkspaceSpec

-----------------------------------------------------------------------------
(* Mail templates. *)

Inserts(o) == o.do = "insert_version"
NoInserts(list) == (\E S : list \in Seq(S)) /\ \A o \in Elems(list) : ~Inserts(o)

\* Families and versions are told by identifiers that are never used again, and a version goes with
\* its family.
MailRows ==
    /\ email_template_families \subseteq Families \cap used
    /\ email_template_versions \in [Versions -> VersionRow \cup {None}]
    /\ \A v \in Versions : email_template_versions[v] # None =>
          v \in used /\ email_template_versions[v].family \in email_template_families
    /\ \A pair \in publishedOnce : pair[1] \in used

\* A version about to be inserted is a draft, the only statement of its request, and not there yet.
Inserting(o) == o.x.v \in Versions \cap used /\ email_template_versions[o.x.v] = None
                /\ o.x.row \in VersionRow /\ o.x.row.status = "draft"
MailLists ==
    /\ \E S : task \in [Tasks -> Seq(S)]
    /\ \A t \in Tasks : \A o \in Todo(t) : Inserts(o) => Inserting(o) /\ task[t] = <<o>>
    /\ \A t, u \in Tasks : \A o \in Todo(t), q \in Todo(u) : Inserts(o) /\ Inserts(q) /\ o.x.v = q.x.v => t = u

MailInv == MailRows /\ TemplateStaysAvailable /\ (area = "mail" => MailLists)

LEMMA MailInvInit == RequestsInit /\ EmailAdminInit => MailRows /\ TemplateStaysAvailable /\ MailLists
<1>. SUFFICES ASSUME RequestsInit, EmailAdminInit PROVE MailRows /\ TemplateStaysAvailable /\ MailLists
  OBVIOUS
<1>1. MailRows /\ TemplateStaysAvailable
  BY DEF EmailAdminInit, MailRows, TemplateStaysAvailable
<1>2. task \in [Tasks -> Seq({})] /\ \A t \in Tasks : Todo(t) = {}
  BY ShortLists DEF RequestsInit, Todo
<1>. QED
  BY <1>1, <1>2 DEF MailLists

\* The short lists without an insertion.
LEMMA NoInsertsFacts ==
    /\ NoInserts(<<>>)
    /\ \A o : ~Inserts(o) => NoInserts(<<o>>)
    /\ \A r, q : NoInserts(r) /\ NoInserts(q) => NoInserts(r \o q)
    /\ \A o, p : ~Inserts(o) /\ ~Inserts(p) => NoInserts(<<o, p>>)
<1>1. NoInserts(<<>>)
  BY ShortLists DEF NoInserts
<1>2. ASSUME NEW o, ~Inserts(o) PROVE NoInserts(<<o>>)
  <2>1. <<o>> \in Seq({o}) /\ Elems(<<o>>) = {o}
    BY ShortLists
  <2>. QED
    BY <1>2, <2>1 DEF NoInserts
<1>3. ASSUME NEW r, NEW q, NoInserts(r), NoInserts(q) PROVE NoInserts(r \o q)
  <2>1. PICK S, T : r \in Seq(S) /\ q \in Seq(T)
    BY <1>3 DEF NoInserts
  <2>2. PICK A : A = S \cup T
    OBVIOUS
  <2>3. r \in Seq(A) /\ q \in Seq(A)
    <3>1. \A B, C : B \subseteq C => \A l \in Seq(B) : l \in Seq(C)
      OBVIOUS
    <3>. QED
      BY <2>1, <2>2, <3>1
  <2>4. r \o q \in Seq(A) /\ Elems(r \o q) = Elems(r) \cup Elems(q)
    BY <2>3, Joined
  <2>. QED
    BY <1>3, <2>4 DEF NoInserts
<1>4. ASSUME NEW o, NEW p, ~Inserts(o), ~Inserts(p) PROVE NoInserts(<<o, p>>)
  <2>1. PICK A : A = {o, p}
    OBVIOUS
  <2>2. <<o, p>> \in Seq(A) /\ Elems(<<o, p>>) = A
    BY <2>1, ShortLists
  <2>. QED
    BY <1>4, <2>1, <2>2 DEF NoInserts
<1>. QED
  BY <1>1, <1>2, <1>3, <1>4

\* A request goes on with statements that insert no version.
LEMMA MailListStep ==
    ASSUME MailLists, NEW t \in Tasks, NEW new, NoInserts(new), task' = [task EXCEPT ![t] = new],
           used \subseteq used', \A v \in Versions : email_template_versions[v] = None => email_template_versions'[v] = None
    PROVE  MailLists'
<1>1. PICK S : task \in [Tasks -> Seq(S)]
  BY DEF MailLists
<1>2. PICK T : new \in Seq(T)
  BY DEF NoInserts
<1>3. PICK A : A = S \cup T
  OBVIOUS
<1>4. task' \in [Tasks -> Seq(A)] /\ task'[t] = new /\ \A u \in Tasks : u # t => task'[u] = task[u]
  <2>1. \A B, C : B \subseteq C => \A l \in Seq(B) : l \in Seq(C)
    OBVIOUS
  <2>2. new \in Seq(A) /\ \A u \in Tasks : task[u] \in Seq(A)
    BY <1>1, <1>2, <1>3, <2>1
  <2>. QED
    BY <1>1, <2>2
<1>5. \A u \in Tasks : Todo(u)' = IF u = t THEN Elems(new) ELSE Todo(u)
  BY <1>4 DEF Todo, Elems
<1>6. \A u \in Tasks : \A o \in Todo(u)' : Inserts(o) => u # t /\ o \in Todo(u) /\ task'[u] = task[u]
  BY <1>4, <1>5 DEF NoInserts
<1>7. ASSUME NEW u \in Tasks, NEW o \in Todo(u)', Inserts(o) PROVE Inserting(o)' /\ task'[u] = <<o>>
  BY <1>6, <1>7 DEF MailLists, Inserting
<1>8. ASSUME NEW u \in Tasks, NEW w \in Tasks, NEW o \in Todo(u)', NEW q \in Todo(w)', Inserts(o), Inserts(q), o.x.v = q.x.v
      PROVE  u = w
  BY <1>6, <1>8 DEF MailLists
<1>. QED
  BY <1>4, <1>7, <1>8 DEF MailLists

\* A statement is done and the rest follows, or the request stops.
LEMMA MailGoesOn ==
    ASSUME MailLists, NEW t \in Tasks, Busy(t), Continue(t, <<>>) \/ GiveUp(t) \/ Interrupted(t)
    PROVE  \E new : NoInserts(new) /\ task' = [task EXCEPT ![t] = new]
<1>1. CASE task' = [task EXCEPT ![t] = <<>>]
  BY <1>1, NoInsertsFacts
<1>2. CASE Continue(t, <<>>)
  <2>1. PICK S : task \in [Tasks -> Seq(S)]
    BY DEF MailLists
  <2>2. task[t] \in Seq(S) /\ task[t] # <<>> /\ Tail(task[t]) \in Seq(S) /\ <<>> \o Tail(task[t]) = Tail(task[t])
    BY <2>1 DEF Busy
  <2>3. Todo(t) = {Head(task[t])} \cup Elems(Tail(task[t]))
    <3>1. <<>> \in Seq(S)
      OBVIOUS
    <3>. QED
      BY <2>1, <3>1, TaskLists
  <2>4. ASSUME NEW o \in Elems(Tail(task[t])), Inserts(o) PROVE FALSE
    <3>1. task[t] = <<o>>
      BY <2>3, <2>4 DEF MailLists
    <3>2. Tail(task[t]) = <<>>
      BY <3>1
    <3>. QED
      BY <2>4, <3>2, ShortLists
  <2>5. NoInserts(Tail(task[t]))
    BY <2>2, <2>4 DEF NoInserts
  <2>6. task' = [task EXCEPT ![t] = Tail(task[t])]
    BY <1>2, <2>2 DEF Continue
  <2>. QED
    BY <2>5, <2>6
<1>. QED
  BY <1>1, <1>2 DEF GiveUp, Interrupted

\* What keeps a template available survives every step of the area.
LEMMA MailInvNext ==
    ASSUME MailRows, TemplateStaysAvailable, MailLists, EmailAdminNext
    PROVE  MailRows' /\ TemplateStaysAvailable' /\ MailLists'
<1>. DEFINE Preserved == MailRows' /\ TemplateStaysAvailable' /\ MailLists'
            Untouched == UNCHANGED <<email_template_families, email_template_versions, publishedOnce>> /\ used \subseteq used'
<1>1. Untouched => MailRows' /\ TemplateStaysAvailable'
  <2>. SUFFICES ASSUME Untouched PROVE MailRows' /\ TemplateStaysAvailable'
    OBVIOUS
  <2>1. MailRows'
    BY DEF MailRows
  <2>2. TemplateStaysAvailable'
    BY DEF TemplateStaysAvailable, Published, Of, Rows
  <2>. QED
    BY <2>1, <2>2
<1>2. ASSUME NEW t \in Tasks, NEW new, NoInserts(new), task' = [task EXCEPT ![t] = new], Untouched PROVE Preserved
  BY <1>1, <1>2, MailListStep
<1>3. task' = task /\ used \subseteq used'
      /\ (\A v \in Versions : email_template_versions[v] = None => email_template_versions'[v] = None) => MailLists'
  BY DEF MailLists, Todo, Inserting
<1>4. task' = task /\ Untouched => Preserved
  BY <1>1, <1>3
<1>5. UNCHANGED EmailAdminVars => Untouched
  BY DEF EmailAdminVars
<1>6. ASSUME NEW t \in Tasks, ProviderRequest(t) PROVE Preserved
  <2>1. ASSUME NEW p \in Providers, NEW r, create_provider(t, p, r) PROVE Preserved
    <3>. DEFINE o == Stmt("clear_defaults", {"site"})
                q == Stmt("insert_provider", [p |-> p, row |-> r])
    <3>1. Untouched /\ task' = [task EXCEPT ![t] = (IF r.is_default THEN <<o>> ELSE <<>>) \o <<q>>]
      BY <2>1 DEF create_provider, Begin
    <3>2. ~Inserts(o) /\ ~Inserts(q)
      BY DEF Inserts, Stmt
    <3>. HIDE DEF o, q
    <3>3. PICK first : first = IF r.is_default THEN <<o>> ELSE <<>>
      OBVIOUS
    <3>4. NoInserts(first) /\ NoInserts(<<q>>)
      BY <3>2, <3>3, NoInsertsFacts
    <3>5. NoInserts(first \o <<q>>)
      BY <3>4, NoInsertsFacts
    <3>. QED
      BY <1>2, <3>1, <3>3, <3>5
  <2>2. ASSUME NEW p \in Providers, NEW e \in BOOLEAN, NEW d \in BOOLEAN, update_provider(t, p, e, d) PROVE Preserved
    <3>1. PICK o, q : /\ o = Stmt("clear_defaults", {mail_provider_settings[p].tenant} \ {"site"})
                      /\ q = Stmt("update_provider", [p |-> p, enabled |-> e, is_default |-> d])
      OBVIOUS
    <3>2. PICK first : first = IF d /\ ~mail_provider_settings[p].is_default THEN <<o>> ELSE <<>>
      OBVIOUS
    <3>3. task' = [task EXCEPT ![t] = first \o <<q>>]
      BY <2>2, <3>1, <3>2 DEF update_provider, Begin
    <3>4. ~Inserts(o) /\ ~Inserts(q)
      BY <3>1 DEF Inserts, Stmt
    <3>5. NoInserts(first) /\ NoInserts(<<q>>)
      BY <3>2, <3>4, NoInsertsFacts
    <3>6. NoInserts(first \o <<q>>) /\ Untouched
      BY <1>5, <2>2, <3>5, NoInsertsFacts DEF update_provider
    <3>. QED
      BY <1>2, <3>3, <3>6
  <2>3. ASSUME NEW p \in Providers, set_default_provider(t, p) PROVE Preserved
    <3>1. PICK o, q : /\ o = Stmt("clear_defaults", {mail_provider_settings[p].tenant})
                      /\ q = Stmt("update_provider", [p |-> p, enabled |-> mail_provider_settings[p].enabled, is_default |-> TRUE])
      OBVIOUS
    <3>2. task' = [task EXCEPT ![t] = <<o, q>>] /\ Untouched
      BY <1>5, <2>3, <3>1 DEF set_default_provider, Begin
    <3>3. ~Inserts(o) /\ ~Inserts(q)
      BY <3>1 DEF Inserts, Stmt
    <3>4. NoInserts(<<o, q>>)
      BY <3>3, NoInsertsFacts
    <3>. QED
      BY <1>2, <3>2, <3>4
  <2>4. ASSUME NEW p \in Providers, delete_provider(p) PROVE Preserved
    BY <1>4, <2>4 DEF delete_provider, Statement
  <2>. HIDE DEF Preserved
  <2>. QED
    BY <1>6, <2>1, <2>2, <2>3, <2>4 DEF ProviderRequest
<1>7. ASSUME NEW t \in Tasks, PrefsRequest(t) PROVE Preserved
  <2>1. ASSUME NEW then, NoInserts(then), get_user_prefs(t, then) PROVE Preserved
    <3>1. PICK o, first : o = Stmt("insert_prefs", None) /\ first = IF user_notification_prefs = None THEN <<o>> ELSE <<>>
      OBVIOUS
    <3>2. task' = [task EXCEPT ![t] = first \o then] /\ Untouched
      BY <1>5, <2>1, <3>1 DEF get_user_prefs, Begin
    <3>3. ~Inserts(o)
      BY <3>1 DEF Inserts, Stmt
    <3>4. NoInserts(first)
      BY <3>1, <3>3, NoInsertsFacts
    <3>5. NoInserts(first \o then)
      BY <2>1, <3>4, NoInsertsFacts
    <3>. QED
      BY <1>2, <3>2, <3>5
  <2>2. \A value : ~Inserts(Stmt("update_prefs", value))
    BY DEF Inserts, Stmt
  <2>3. NoInserts(<<>>) /\ \A value : NoInserts(<<Stmt("update_prefs", value)>>)
    BY <2>2, NoInsertsFacts
  <2>. HIDE DEF Preserved
  <2>. QED
    BY <1>7, <2>1, <2>3 DEF PrefsRequest, update_user_prefs
<1>8. ASSUME NEW f \in Families, create_template_family(f) PROVE Preserved
  <2>1. /\ f \notin used /\ used' = used \cup {f} /\ email_template_families' = email_template_families \cup {f}
        /\ UNCHANGED <<email_template_versions, publishedOnce, task>>
    BY <1>8 DEF create_template_family, Statement
  <2>2. MailRows' /\ MailLists'
    BY <1>3, <2>1 DEF MailRows
  <2>3. TemplateStaysAvailable'
    <3>1. \A pair \in publishedOnce : pair[1] # f
      BY <2>1 DEF MailRows
    <3>2. \A g, l : Published(g, l)' = Published(g, l)
      BY <2>1 DEF Published, Of, Rows
    <3>. QED
      BY <2>1, <3>1, <3>2 DEF TemplateStaysAvailable
  <2>. QED
    BY <2>2, <2>3
<1>9. ASSUME NEW f \in Families, delete_template_family(f) PROVE Preserved
  <2>1. /\ email_template_families' = email_template_families \ {f}
        /\ email_template_versions' =
              [v \in Versions |-> IF email_template_versions[v] = None THEN None
                                  ELSE IF email_template_versions[v].family = f THEN None ELSE email_template_versions[v]]
        /\ UNCHANGED <<used, publishedOnce, task>>
    BY <1>9 DEF delete_template_family, Statement
  <2>2. \A v \in Versions : \/ email_template_versions'[v] = None /\ (email_template_versions[v] # None => email_template_versions[v].family = f)
                            \/ /\ email_template_versions'[v] = email_template_versions[v]
                               /\ email_template_versions[v].family # f
    BY <2>1
  <2>3. email_template_versions' \in [Versions -> VersionRow \cup {None}]
    <3>1. \A v \in Versions : email_template_versions'[v] \in VersionRow \cup {None}
      BY <2>2 DEF MailRows
    <3>. QED
      BY <2>1, <3>1
  <2>4. MailRows' /\ MailLists'
    BY <1>3, <2>1, <2>2, <2>3 DEF MailRows
  <2>5. TemplateStaysAvailable'
    <3>1. ASSUME NEW pair \in publishedOnce, pair[1] \in email_template_families', NEW v \in Published(pair[1], pair[2])
          PROVE  v \in Published(pair[1], pair[2])'
      <4>1. /\ v \in Versions /\ email_template_versions[v] # None /\ email_template_versions[v].family = pair[1]
            /\ email_template_versions[v].locale = pair[2] /\ email_template_versions[v].status = "published"
        BY DEF Published, Of, Rows, MailRows
      <4>2. email_template_versions'[v] = email_template_versions[v]
        BY <2>1, <2>2, <3>1, <4>1
      <4>. QED
        BY <2>3, <4>1, <4>2 DEF Published, Of, Rows
    <3>. QED
      BY <2>1, <3>1 DEF TemplateStaysAvailable
  <2>. QED
    BY <2>4, <2>5
<1>10. ASSUME NEW v \in Versions, NEW r \in VersionRow, email_template_versions' = [email_template_versions EXCEPT ![v] = r],
              used \subseteq used', v \in used, r.family \in email_template_families,
              UNCHANGED email_template_families,
              \/ email_template_versions[v] = None
              \/ /\ r.family = email_template_versions[v].family /\ r.locale = email_template_versions[v].locale
                 /\ r.status \in {email_template_versions[v].status, "published"},
              \/ publishedOnce' = publishedOnce
              \/ publishedOnce' = publishedOnce \cup {<<r.family, r.locale>>} /\ r.status = "published"
       PROVE  MailRows' /\ TemplateStaysAvailable'
  <2>1. /\ email_template_versions' \in [Versions -> VersionRow \cup {None}] /\ email_template_versions'[v] = r /\ r # None
        /\ \A w \in Versions : w # v => email_template_versions'[w] = email_template_versions[w]
    BY <1>10, EmailAdminAssumption DEF MailRows
  <2>2. \A pair \in publishedOnce' : pair \in publishedOnce \/ pair = <<r.family, r.locale>>
    BY <1>10
  <2>3. \A pair \in publishedOnce' : pair[1] \in used
    BY <1>10, <2>2 DEF MailRows
  <2>4. MailRows'
    BY <1>10, <2>1, <2>3 DEF MailRows
  <2>5. ASSUME NEW pair \in publishedOnce', pair[1] \in email_template_families' PROVE Published(pair[1], pair[2])' # {}
    <3>1. \A w : w \in Published(pair[1], pair[2])' <=>
             /\ w \in Versions /\ email_template_versions'[w] # None /\ email_template_versions'[w].family = pair[1]
             /\ email_template_versions'[w].locale = pair[2] /\ email_template_versions'[w].status = "published"
      BY <2>1 DEF Published, Of, Rows
    <3>2. CASE pair \in publishedOnce
      <4>1. PICK w : w \in Published(pair[1], pair[2])
        BY <1>10, <2>5, <3>2 DEF TemplateStaysAvailable
      <4>2. /\ w \in Versions /\ email_template_versions[w] # None /\ email_template_versions[w].family = pair[1]
            /\ email_template_versions[w].locale = pair[2] /\ email_template_versions[w].status = "published"
        BY <4>1 DEF Published, Of, Rows, MailRows
      <4>3. w \in Published(pair[1], pair[2])'
        BY <1>10, <2>1, <3>1, <4>2
      <4>. QED
        BY <4>3
    <3>3. CASE pair = <<r.family, r.locale>> /\ pair \notin publishedOnce
      <4>1. r.status = "published" /\ pair[1] = r.family /\ pair[2] = r.locale
        BY <1>10, <3>3
      <4>2. v \in Published(pair[1], pair[2])'
        BY <2>1, <3>1, <4>1
      <4>. QED
        BY <4>2
    <3>. QED
      BY <2>2, <3>2, <3>3
  <2>. QED
    BY <2>4, <2>5 DEF TemplateStaysAvailable
<1>11. ASSUME NEW v \in Versions, publish_template_version(v) PROVE Preserved
  <2>. DEFINE old == email_template_versions[v]
  <2>1. PICK r : r = [old EXCEPT !.status = "published"]
    OBVIOUS
  <2>2. old # None /\ old \in VersionRow
    BY <1>11 DEF publish_template_version, Rows, MailRows
  <2>3. r \in VersionRow /\ r.family = old.family /\ r.locale = old.locale /\ r.status = "published"
    BY <2>1, <2>2 DEF VersionRow
  <2>4. /\ email_template_versions' = [email_template_versions EXCEPT ![v] = r]
        /\ publishedOnce' = publishedOnce \cup {<<old.family, old.locale>>}
        /\ UNCHANGED <<email_template_families, used, task>>
    BY <1>11, <2>1 DEF publish_template_version, Statement
  <2>5. v \in used /\ r.family \in email_template_families
    BY <2>2, <2>3 DEF MailRows
  <2>6. MailRows' /\ TemplateStaysAvailable'
    BY <1>10, <2>3, <2>4, <2>5
  <2>7. \A w \in Versions : email_template_versions[w] = None => email_template_versions'[w] = None
    BY <2>2, <2>4 DEF MailRows
  <2>. QED
    BY <1>3, <2>4, <2>6, <2>7
<1>12. ASSUME NEW t \in Tasks, NEW v \in Versions, NEW f \in email_template_families, NEW l \in Locales,
              create_template_version(t, v, f, l)
       PROVE  Preserved
  <2>1. PICK r : r = [family |-> f, locale |-> l, number |-> NextNumber(f, l), status |-> "draft", edited |-> FALSE]
    OBVIOUS
  <2>2. PICK o : o = Stmt("insert_version", [v |-> v, row |-> r])
    OBVIOUS
  <2>3. v \notin used /\ used' = used \cup {v} /\ task' = [task EXCEPT ![t] = <<o>>]
    BY <1>12, <2>1, <2>2 DEF create_template_version, Begin
  <2>4. Untouched
    BY <1>12 DEF create_template_version
  <2>5. r \in VersionRow /\ r.status = "draft"
    <3>1. Of(f, l) \subseteq Versions
      BY DEF Of, Rows, MailRows
    <3>2. Cardinality(Of(f, l)) \in Nat
      BY <3>1, EmailAdminAssumption, FS_Subset, FS_CardinalityType
    <3>. QED
      BY <2>1, <3>2 DEF VersionRow, NextNumber, MailRows
  <2>6. Inserts(o) /\ o.x.v = v /\ o.x.row = r /\ email_template_versions[v] = None
    BY <2>2, <2>3 DEF Inserts, Stmt, MailRows
  <2>7. PICK S : task \in [Tasks -> Seq(S)]
    BY DEF MailLists
  <2>8. PICK A : A = S \cup {o}
    OBVIOUS
  <2>9. task' \in [Tasks -> Seq(A)] /\ task'[t] = <<o>> /\ \A u \in Tasks : u # t => task'[u] = task[u]
    <3>1. \A B, C : B \subseteq C => \A k \in Seq(B) : k \in Seq(C)
      OBVIOUS
    <3>2. <<o>> \in Seq(A) /\ \A u \in Tasks : task[u] \in Seq(A)
      BY <2>7, <2>8, <3>1
    <3>. QED
      BY <2>3, <2>7, <3>2
  <2>10. \A u \in Tasks : Todo(u)' = IF u = t THEN {o} ELSE Todo(u)
    <3>1. \A u \in Tasks : Todo(u)' = Elems(task'[u])
      BY DEF Todo, Elems
    <3>. QED
      BY <2>9, <3>1, ShortLists DEF Todo
  <2>11. ASSUME NEW u \in Tasks, NEW q \in Todo(u)', Inserts(q)
         PROVE  Inserting(q)' /\ task'[u] = <<q>> /\ (u # t => q.x.v # v)
    <3>1. CASE u = t
      BY <2>3, <2>4, <2>5, <2>6, <2>9, <2>10, <3>1 DEF Inserting
    <3>2. CASE u # t
      <4>1. q \in Todo(u) /\ Inserting(q) /\ task'[u] = <<q>>
        BY <2>9, <2>10, <2>11, <3>2 DEF MailLists
      <4>. QED
        BY <2>3, <2>4, <4>1 DEF Inserting
    <3>. QED
      BY <3>1, <3>2
  <2>12. ASSUME NEW u \in Tasks, NEW w \in Tasks, NEW q \in Todo(u)', NEW k \in Todo(w)', Inserts(q), Inserts(k), q.x.v = k.x.v
         PROVE  u = w
    <3>1. \A x \in Tasks : x # t => Todo(x)' = Todo(x)
      BY <2>10
    <3>2. CASE u # t /\ w # t
      BY <2>12, <3>1, <3>2 DEF MailLists
    <3>3. CASE u = t /\ w # t
      <4>1. q.x.v = v /\ k.x.v # v
        BY <2>6, <2>10, <2>11, <2>12, <3>3
      <4>. QED
        BY <2>12, <4>1
    <3>4. CASE u # t /\ w = t
      <4>1. k.x.v = v /\ q.x.v # v
        BY <2>6, <2>10, <2>11, <2>12, <3>4
      <4>. QED
        BY <2>12, <4>1
    <3>. QED
      BY <3>2, <3>3, <3>4
  <2>13. MailLists'
    BY <2>9, <2>11, <2>12 DEF MailLists
  <2>. QED
    BY <1>1, <2>4, <2>13
<1>13. ASSUME NEW t \in Tasks, TemplateRequest(t) PROVE Preserved
  <2>1. ASSUME NEW e, NEW f, update_workflow(e, f) PROVE Preserved
    BY <1>4, <2>1 DEF update_workflow, Statement
  <2>2. ASSUME NEW v, send_preview_email(v) PROVE Preserved
    BY <1>4, <2>2 DEF send_preview_email, Statement
  <2>3. ASSUME NEW v, update_template_version(t, v) PROVE Preserved
    <3>1. ~Inserts(Stmt("update_version", v))
      BY DEF Inserts, Stmt
    <3>2. NoInserts(<<Stmt("update_version", v)>>)
      BY <3>1, NoInsertsFacts
    <3>. QED
      BY <1>2, <1>5, <2>3, <3>2 DEF update_template_version, Begin
  <2>4. ASSUME NEW l, send_test_email(t, l) PROVE Preserved
    <3>1. PICK o : o = Stmt("read_template", [family |-> notification_workflows.family, locale |-> l])
      OBVIOUS
    <3>2. ~Inserts(o)
      BY <3>1 DEF Inserts, Stmt
    <3>3. NoInserts(<<o>>)
      BY <3>2, NoInsertsFacts
    <3>. QED
      BY <1>2, <1>5, <2>4, <3>1, <3>3 DEF send_test_email, Begin
  <2>. HIDE DEF Preserved
  <2>. QED
    BY <1>8, <1>9, <1>11, <1>12, <1>13, <2>1, <2>2, <2>3, <2>4 DEF TemplateRequest
<1>14. ASSUME NEW t \in Tasks, Interrupted(t), UNCHANGED EmailAdminVars PROVE Preserved
  BY <1>2, <1>5, <1>14, NoInsertsFacts DEF Interrupted
<1>15. ASSUME NEW t \in Tasks, Busy(t), NEW o, o = Head(task[t]), EmailAdminStep(t, o) PROVE Preserved
  <2>1. ASSUME Continue(t, <<>>) \/ GiveUp(t), Untouched PROVE Preserved
    BY <1>2, <1>15, <2>1, MailGoesOn
  <2>2. ASSUME NEW table, WriteProviders(t, table) PROVE Preserved
    BY <2>1, <2>2 DEF WriteProviders
  <2>3. CASE ClearDefaults(t, o) \/ InsertProvider(t, o) \/ UpdateProvider(t, o)
    BY <1>5, <2>1, <2>2, <2>3 DEF ClearDefaults, InsertProvider, UpdateProvider
  <2>4. CASE InsertPrefs(t, o) \/ UpdatePrefs(t, o)
    BY <2>1, <2>4 DEF InsertPrefs, UpdatePrefs
  <2>5. CASE get_template_for_workflow(t, o)
    <3>1. Untouched
      BY <2>5 DEF get_template_for_workflow
    <3>2. Continue(t, <<>>) \/ GiveUp(t)
      BY <2>5 DEF get_template_for_workflow
    <3>. QED
      BY <2>1, <3>1, <3>2
  <2>6. CASE UpdateVersion(t, o)
    <3>1. UNCHANGED <<email_template_families, used, publishedOnce>>
      BY <2>6 DEF UpdateVersion
    <3>2. CASE UNCHANGED email_template_versions
      BY <2>1, <2>6, <3>1, <3>2 DEF UpdateVersion
    <3>3. CASE /\ o.x \in Versions /\ email_template_versions[o.x] # None /\ Continue(t, <<>>)
               /\ email_template_versions' = [email_template_versions EXCEPT ![o.x].edited = TRUE]
      <4>1. PICK v \in Versions : v = o.x
        BY <3>3
      <4>2. email_template_versions[v] \in VersionRow /\ email_template_versions[v] # None
        BY <3>3, <4>1 DEF MailRows
      <4>3. PICK r : r = [email_template_versions[v] EXCEPT !.edited = TRUE]
        OBVIOUS
      <4>4. /\ r \in VersionRow /\ r.family = email_template_versions[v].family /\ r.locale = email_template_versions[v].locale
            /\ r.status = email_template_versions[v].status
        BY <4>2, <4>3 DEF VersionRow
      <4>5. email_template_versions' = [email_template_versions EXCEPT ![v] = r]
        BY <3>3, <4>1, <4>3
      <4>6. MailRows' /\ TemplateStaysAvailable'
        <5>1. v \in used /\ r.family \in email_template_families
          BY <4>2, <4>4 DEF MailRows
        <5>. QED
          BY <1>10, <3>1, <4>4, <4>5, <5>1
      <4>7. \A w \in Versions : email_template_versions[w] = None => email_template_versions'[w] = None
        BY <4>2, <4>5 DEF MailRows
      <4>8. PICK new : NoInserts(new) /\ task' = [task EXCEPT ![t] = new]
        BY <1>15, <3>3, MailGoesOn
      <4>9. MailLists'
        BY <3>1, <4>7, <4>8, MailListStep
      <4>. QED
        BY <4>6, <4>9
    <3>4. CASE /\ o.x \notin Versions /\ Continue(t, <<>>)
               /\ email_template_versions' = [email_template_versions EXCEPT ![o.x].edited = TRUE]
      <4>1. UNCHANGED email_template_versions
        BY <3>4 DEF MailRows
      <4>. QED
        BY <2>1, <3>1, <3>4, <4>1
    <3>. QED
      BY <2>6, <3>2, <3>3, <3>4 DEF UpdateVersion
  <2>7. CASE InsertVersion(t, o)
    <3>1. UNCHANGED <<email_template_families, used, publishedOnce>> /\ Inserts(o)
      BY <2>7 DEF InsertVersion, Inserts
    <3>2. CASE UNCHANGED email_template_versions
      BY <2>1, <2>7, <3>1, <3>2 DEF InsertVersion
    <3>3. CASE /\ email_template_versions' = [email_template_versions EXCEPT ![o.x.v] = o.x.row] /\ Continue(t, <<>>)
               /\ o.x.row.family \in email_template_families
      <4>1. o \in Todo(t)
        <5>1. PICK S : task \in [Tasks -> Seq(S)]
          BY DEF MailLists
        <5>2. <<>> \in Seq(S)
          OBVIOUS
        <5>. QED
          BY <1>15, <5>1, <5>2, TaskLists
      <4>2. Inserting(o) /\ task[t] = <<o>>
        BY <3>1, <4>1 DEF MailLists
      <4>3. MailRows' /\ TemplateStaysAvailable'
        <5>1. PICK v \in Versions, r \in VersionRow : v = o.x.v /\ r = o.x.row
          BY <4>2 DEF Inserting
        <5>2. email_template_versions[v] = None /\ v \in used
          BY <4>2, <5>1 DEF Inserting
        <5>. QED
          BY <1>10, <3>1, <3>3, <5>1, <5>2
      <4>4. task' = [task EXCEPT ![t] = <<>>]
        <5>1. Tail(task[t]) = <<>>
          BY <4>2
        <5>2. <<>> \o <<>> = <<>>
          BY ShortLists
        <5>. QED
          BY <3>3, <5>1, <5>2 DEF Continue
      <4>5. \A u \in Tasks : task'[u] = IF u = t THEN <<>> ELSE task[u]
        BY <4>4 DEF MailLists
      <4>6. \A u \in Tasks : Todo(u)' = IF u = t THEN {} ELSE Todo(u)
        <5>1. \A u \in Tasks : Todo(u)' = Elems(task'[u])
          BY DEF Todo, Elems
        <5>. QED
          BY <4>5, <5>1, ShortLists DEF Todo
      <4>7. \E S : task' \in [Tasks -> Seq(S)]
        BY <4>4 DEF MailLists
      <4>8. ASSUME NEW u \in Tasks, NEW q \in Todo(u)', Inserts(q) PROVE Inserting(q)' /\ task'[u] = <<q>>
        <5>1. u # t /\ q \in Todo(u) /\ task'[u] = task[u]
          BY <4>5, <4>6
        <5>2. q.x.v # o.x.v /\ Inserting(q) /\ task[u] = <<q>>
          BY <3>1, <4>1, <4>8, <5>1 DEF MailLists
        <5>. QED
          BY <3>1, <3>3, <5>1, <5>2 DEF Inserting, MailRows
      <4>9. \A u, w \in Tasks : \A q \in Todo(u)', k \in Todo(w)' : Inserts(q) /\ Inserts(k) /\ q.x.v = k.x.v => u = w
        <5>1. \A u \in Tasks : Todo(u)' \subseteq Todo(u)
          BY <4>6
        <5>. QED
          BY <5>1 DEF MailLists
      <4>10. MailLists'
        BY <4>7, <4>8, <4>9 DEF MailLists
      <4>. QED
        BY <4>3, <4>10
    <3>. QED
      BY <2>7, <3>2, <3>3 DEF InsertVersion
  <2>. HIDE DEF Preserved
  <2>. QED
    BY <1>15, <2>3, <2>4, <2>5, <2>6, <2>7 DEF EmailAdminStep
<1>. HIDE DEF Preserved
<1>16. Preserved
  BY <1>6, <1>7, <1>13, <1>14, <1>15 DEF EmailAdminNext
<1>. QED
  BY <1>16 DEF Preserved

\* A family and locale that once had a published version has one as long as the family is there, for any
\* number of families, versions, locales and requests at once (admin_email.rs, publish_template_version).
THEOREM TemplateStaysAvailableAlways == WorkspaceSpec => []TemplateStaysAvailable
<1>1. WorkspaceInit => MailInv
  BY MailInvInit DEF WorkspaceInit, MailInv
<1>2. MailInv /\ [WorkspaceNext]_WorkspaceVars => MailInv'
  <2>. SUFFICES ASSUME MailInv, [WorkspaceNext]_WorkspaceVars PROVE MailInv'
    OBVIOUS
  <2>1. area' = area
    BY AreaSteps
  <2>2. CASE UNCHANGED EmailAdminVars /\ (area # "mail" \/ UNCHANGED RequestVars)
    <3>1. MailRows'
      BY <2>2 DEF MailInv, MailRows, EmailAdminVars
    <3>2. TemplateStaysAvailable'
      BY <2>2 DEF MailInv, TemplateStaysAvailable, Published, Of, Rows, EmailAdminVars
    <3>3. area = "mail" => MailLists'
      BY <2>2 DEF MailInv, MailLists, Todo, Inserting, EmailAdminVars, RequestVars
    <3>. QED
      BY <2>1, <3>1, <3>2, <3>3 DEF MailInv
  <2>3. CASE area = "mail" /\ EmailAdminNext
    BY <2>1, <2>3, MailInvNext DEF MailInv
  <2>. QED
    BY <2>2, <2>3, AreaSteps
<1>3. MailInv => TemplateStaysAvailable
  BY DEF MailInv
<1>. QED
  BY <1>1, <1>2, <1>3, PTL DEF WorkspaceSpec

-----------------------------------------------------------------------------
(* Files. *)

\* The object that a statement stores, and the one that the row it writes names.  Rows of files that
\* somebody began to delete do not count.
Gives(o) == IF o.do = "put" THEN {Key("file", o.x)} ELSE IF o.do = "put_emoji" THEN {Key("emoji", o.x.e)}
            ELSE IF o.do = "put_avatar" THEN {Key("avatar", None)} ELSE {}
Needs(o, gone) == IF o.do = "insert_file" THEN IF o.x \in gone THEN {} ELSE {Key("file", o.x)}
                  ELSE IF o.do = "insert_emoji" THEN {Key("emoji", o.x.e)}
                  ELSE IF o.do = "set_avatar" THEN {Key("avatar", None)} ELSE {}

\* A request stores an object before it writes the row, and deletes only what it began to delete.
Ready(list, keys, gone) ==
    \A i \in 1..Len(list) :
        /\ list[i].do = "delete_object" => list[i].x \in gone
        /\ \A k \in Needs(list[i], gone) : k \in keys \/ \E j \in 1..i - 1 : k \in Gives(list[j])
\* No object disappears but those of files that somebody began to delete.
More(keys, gone, keys2, gone2) ==
    gone \subseteq gone2 /\ \A k \in keys : k \in keys2 \/ \E x \in gone2 : k = Key("file", x)

FileRow == [thumb : BOOLEAN, old : BOOLEAN]
FileRows ==
    /\ file \in [Files -> FileRow \cup {None}]
    /\ emoji = [e \in Emojis |-> emoji[e]] /\ \A e \in Emojis : emoji[e] # None => "live" \in DOMAIN emoji[e]
FileLists ==
    /\ \E S : task \in [Tasks -> Seq(S)]
    /\ \A t \in Tasks : Ready(task[t], DOMAIN object, leaving)
FileInv == FileRows /\ RowsHaveObjects /\ (area = "files" => FileLists)

LEMMA ReadyMore ==
    ASSUME NEW list, NEW keys, NEW gone, NEW keys2, NEW gone2, Ready(list, keys, gone), More(keys, gone, keys2, gone2)
    PROVE  Ready(list, keys2, gone2)
<1>1. \A o : \A k \in Needs(o, gone2) : k \in Needs(o, gone) /\ \A x \in gone2 : k # Key("file", x)
  BY DEF Needs, Key, More
<1>. QED
  BY <1>1 DEF Ready, More

LEMMA ReadyTail ==
    ASSUME NEW S, NEW list \in Seq(S), list # <<>>, NEW keys, NEW gone, NEW keys2, NEW gone2,
           Ready(list, keys, gone), More(keys \cup Gives(Head(list)), gone, keys2, gone2)
    PROVE  Ready(Tail(list), keys2, gone2)
<1>. DEFINE rest == Tail(list)
            mid == keys \cup Gives(Head(list))
<1>1. /\ Len(list) \in Nat /\ Len(list) > 0 /\ Len(rest) = Len(list) - 1
      /\ \A i \in 1..Len(list) - 1 : rest[i] = list[i + 1]
      /\ Head(list) = list[1]
  OBVIOUS
<1>. HIDE DEF rest
<1>2. Ready(rest, mid, gone)
  <2>. SUFFICES ASSUME NEW i \in 1..Len(rest)
                PROVE  /\ rest[i].do = "delete_object" => rest[i].x \in gone
                       /\ \A k \in Needs(rest[i], gone) : k \in mid \/ \E j \in 1..i - 1 : k \in Gives(rest[j])
    BY DEF Ready
  <2>1. i + 1 \in 1..Len(list) /\ rest[i] = list[i + 1]
    BY <1>1
  <2>2. rest[i].do = "delete_object" => rest[i].x \in gone
    BY <2>1 DEF Ready
  <2>3. ASSUME NEW k \in Needs(rest[i], gone), k \notin mid PROVE \E j \in 1..i - 1 : k \in Gives(rest[j])
    <3>1. PICK j \in 1..i : k \in Gives(list[j])
      <4>1. k \in keys \/ \E j \in 1..(i + 1) - 1 : k \in Gives(list[j])
        BY <2>1 DEF Ready
      <4>. QED
        BY <2>3, <4>1
    <3>2. j # 1
      BY <1>1, <2>3, <3>1
    <3>3. j - 1 \in 1..i - 1 /\ rest[j - 1] = list[j]
      BY <1>1, <3>1, <3>2
    <3>. QED
      BY <3>1, <3>3
  <2>. QED
    BY <2>2, <2>3
<1>. HIDE DEF mid
<1>3. Ready(rest, keys2, gone2)
  BY <1>2, ReadyMore DEF mid
<1>. QED
  BY <1>3 DEF rest

\* The lists that requests begin with.
LEMMA ReadyLists ==
    ASSUME NEW keys, NEW gone
    PROVE  /\ Ready(<<>>, keys, gone)
           /\ \A o : Needs(o, gone) \subseteq keys /\ o.do # "delete_object" => Ready(<<o>>, keys, gone)
           /\ \A o, p : /\ o.do = "delete_object" => o.x \in gone
                        /\ Needs(o, gone) = {} /\ Needs(p, gone) \subseteq Gives(o) /\ p.do # "delete_object"
                        => Ready(<<o, p>>, keys, gone)
           /\ \A o, p, q, r :
                 /\ \A s \in {o, p, q, r} : s.do # "delete_object"
                 /\ Needs(o, gone) = {} /\ Needs(p, gone) \subseteq keys \cup Gives(o)
                 /\ Needs(q, gone) \subseteq keys \cup Gives(o) /\ Needs(r, gone) \subseteq keys \cup Gives(o)
                 => Ready(<<o, p, q, r>>, keys, gone)
<1>1. Ready(<<>>, keys, gone)
  BY DEF Ready
<1>2. ASSUME NEW o, Needs(o, gone) \subseteq keys, o.do # "delete_object" PROVE Ready(<<o>>, keys, gone)
  BY <1>2 DEF Ready
<1>3. ASSUME NEW o, NEW p, o.do = "delete_object" => o.x \in gone,
             Needs(o, gone) = {}, Needs(p, gone) \subseteq Gives(o), p.do # "delete_object"
      PROVE  Ready(<<o, p>>, keys, gone)
  <2>1. PICK list : list = <<o, p>>
    OBVIOUS
  <2>2. Len(list) = 2 /\ list[1] = o /\ list[2] = p
    BY <2>1
  <2>3. \A i \in 1..Len(list) : i = 1 \/ (i = 2 /\ 1 \in 1..i - 1)
    BY <2>2
  <2>4. Ready(list, keys, gone)
    BY <1>3, <2>2, <2>3 DEF Ready
  <2>. QED
    BY <2>1, <2>4
<1>4. ASSUME NEW o, NEW p, NEW q, NEW r, \A s \in {o, p, q, r} : s.do # "delete_object",
             Needs(o, gone) = {}, Needs(p, gone) \subseteq keys \cup Gives(o),
             Needs(q, gone) \subseteq keys \cup Gives(o), Needs(r, gone) \subseteq keys \cup Gives(o)
      PROVE  Ready(<<o, p, q, r>>, keys, gone)
  <2>1. PICK list : list = <<o, p, q, r>>
    OBVIOUS
  <2>2. Len(list) = 4 /\ list[1] = o /\ list[2] = p /\ list[3] = q /\ list[4] = r
    BY <2>1
  <2>3. \A i \in 1..Len(list) : i = 1 \/ (i \in {2, 3, 4} /\ 1 \in 1..i - 1)
    BY <2>2
  <2>4. Ready(list, keys, gone)
    BY <1>4, <2>2, <2>3 DEF Ready
  <2>. QED
    BY <2>1, <2>4
<1>. QED
  BY <1>1, <1>2, <1>3, <1>4

LEMMA FileInvInit == RequestsInit /\ FileStoreInit => FileRows /\ RowsHaveObjects /\ FileLists
<1>. SUFFICES ASSUME RequestsInit, FileStoreInit PROVE FileRows /\ RowsHaveObjects /\ FileLists
  OBVIOUS
<1>1. FileRows
  BY DEF FileStoreInit, FileRows
<1>2. RowsHaveObjects
  BY DEF FileStoreInit, RowsHaveObjects, FileExists, get_user_image
<1>3. FileLists
  <2>1. task \in [Tasks -> Seq({})] /\ \A t \in Tasks : task[t] = <<>>
    BY DEF RequestsInit
  <2>. QED
    BY <2>1, ReadyLists DEF FileLists
<1>. QED
  BY <1>1, <1>2, <1>3

\* A request goes on with another list.
LEMMA FileListStep ==
    ASSUME FileLists, NEW t \in Tasks, NEW T, NEW new \in Seq(T), task' = [task EXCEPT ![t] = new],
           Ready(new, DOMAIN object', leaving'), More(DOMAIN object, leaving, DOMAIN object', leaving')
    PROVE  FileLists'
<1>1. PICK S : task \in [Tasks -> Seq(S)]
  BY DEF FileLists
<1>2. PICK A : A = S \cup T
  OBVIOUS
<1>3. task' \in [Tasks -> Seq(A)] /\ task'[t] = new /\ \A u \in Tasks : u # t => task'[u] = task[u]
  <2>1. \A B, C : B \subseteq C => \A k \in Seq(B) : k \in Seq(C)
    OBVIOUS
  <2>2. new \in Seq(A) /\ \A u \in Tasks : task[u] \in Seq(A)
    BY <1>1, <1>2, <2>1
  <2>. QED
    BY <1>1, <2>2
<1>4. ASSUME NEW u \in Tasks PROVE Ready(task'[u], DOMAIN object', leaving')
  <2>1. CASE u = t
    BY <1>3, <2>1
  <2>2. CASE u # t
    <3>1. Ready(task[u], DOMAIN object, leaving) /\ task'[u] = task[u]
      BY <1>3, <2>2 DEF FileLists
    <3>2. \A list : Ready(list, DOMAIN object, leaving) => Ready(list, DOMAIN object', leaving')
      BY ReadyMore
    <3>. QED
      BY <3>1, <3>2
  <2>. QED
    BY <2>1, <2>2
<1>. QED
  BY <1>3, <1>4 DEF FileLists

\* A statement is done and the rest follows, or the request stops.
LEMMA FileGoesOn ==
    ASSUME FileLists, NEW t \in Tasks, Busy(t), Continue(t, <<>>) \/ GiveUp(t) \/ Interrupted(t),
           More(DOMAIN object, leaving, DOMAIN object', leaving'),
           Continue(t, <<>>) => \A k \in Gives(Head(task[t])) : k \in DOMAIN object'
    PROVE  FileLists'
<1>1. CASE task' = [task EXCEPT ![t] = <<>>]
  <2>1. <<>> \in Seq({}) /\ Ready(<<>>, DOMAIN object', leaving')
    BY ReadyLists
  <2>. QED
    BY <1>1, <2>1, FileListStep
<1>2. CASE Continue(t, <<>>)
  <2>1. PICK S : task \in [Tasks -> Seq(S)]
    BY DEF FileLists
  <2>2. task[t] \in Seq(S) /\ task[t] # <<>> /\ Tail(task[t]) \in Seq(S) /\ <<>> \o Tail(task[t]) = Tail(task[t])
    BY <2>1 DEF Busy
  <2>3. task' = [task EXCEPT ![t] = Tail(task[t])]
    BY <1>2, <2>2 DEF Continue
  <2>4. More(DOMAIN object \cup Gives(Head(task[t])), leaving, DOMAIN object', leaving')
    BY <1>2 DEF More
  <2>5. Ready(task[t], DOMAIN object, leaving)
    BY DEF FileLists
  <2>6. Ready(Tail(task[t]), DOMAIN object', leaving')
    BY <2>2, <2>4, <2>5, ReadyTail
  <2>. QED
    BY <2>2, <2>3, <2>6, FileListStep
<1>. QED
  BY <1>1, <1>2 DEF GiveUp, Interrupted

LEMMA ReadyJoined ==
    ASSUME NEW S, NEW r \in Seq(S), NEW q \in Seq(S), NEW keys, NEW gone, Ready(r, keys, gone), Ready(q, keys, gone)
    PROVE  Ready(r \o q, keys, gone)
<1>. DEFINE both == r \o q
<1>1. /\ Len(both) = Len(r) + Len(q) /\ Len(r) \in Nat /\ Len(q) \in Nat
      /\ \A i \in 1..Len(r) : both[i] = r[i]
      /\ \A i \in 1..Len(q) : both[Len(r) + i] = q[i]
  OBVIOUS
<1>. HIDE DEF both
<1>2. ASSUME NEW i \in 1..Len(both)
      PROVE  /\ both[i].do = "delete_object" => both[i].x \in gone
             /\ \A k \in Needs(both[i], gone) : k \in keys \/ \E j \in 1..i - 1 : k \in Gives(both[j])
  <2>1. CASE i <= Len(r)
    <3>1. i \in 1..Len(r) /\ \A j \in 1..i : both[j] = r[j]
      BY <1>1, <2>1
    <3>. QED
      BY <3>1 DEF Ready
  <2>2. CASE i > Len(r)
    <3>0. i - Len(r) \in 1..Len(q)
      BY <1>1, <2>2
    <3>1. PICK n \in 1..Len(q) : n = i - Len(r)
      BY <3>0
    <3>2. both[i] = q[n]
      BY <1>1, <3>1
    <3>3. \A j \in 1..n - 1 : Len(r) + j \in 1..i - 1 /\ both[Len(r) + j] = q[j]
      BY <1>1, <3>1
    <3>. QED
      BY <3>2, <3>3 DEF Ready
  <2>. QED
    BY <1>1, <2>1, <2>2
<1>3. Ready(both, keys, gone)
  BY <1>2 DEF Ready
<1>. QED
  BY <1>3 DEF both

\* A statement is done, and others come before the rest.
LEMMA FileGoesOnWith ==
    ASSUME FileLists, NEW t \in Tasks, Busy(t), NEW T, NEW more \in Seq(T), Continue(t, more),
           More(DOMAIN object, leaving, DOMAIN object', leaving'), Gives(Head(task[t])) = {},
           Ready(more, DOMAIN object', leaving')
    PROVE  FileLists'
<1>1. PICK S : task \in [Tasks -> Seq(S)]
  BY DEF FileLists
<1>2. PICK A : A = S \cup T
  OBVIOUS
<1>3. task[t] \in Seq(S) /\ task[t] # <<>> /\ Tail(task[t]) \in Seq(S)
  BY <1>1 DEF Busy
<1>4. more \in Seq(A) /\ Tail(task[t]) \in Seq(A)
  <2>1. \A B, C : B \subseteq C => \A k \in Seq(B) : k \in Seq(C)
    OBVIOUS
  <2>. QED
    BY <1>2, <1>3, <2>1
<1>5. PICK new : new = more \o Tail(task[t])
  OBVIOUS
<1>6. new \in Seq(A) /\ task' = [task EXCEPT ![t] = new]
  BY <1>4, <1>5, Joined DEF Continue
<1>7. Ready(Tail(task[t]), DOMAIN object', leaving')
  <2>1. More(DOMAIN object \cup Gives(Head(task[t])), leaving, DOMAIN object', leaving')
    BY DEF More
  <2>2. Ready(task[t], DOMAIN object, leaving)
    BY DEF FileLists
  <2>. QED
    BY <1>3, <2>1, <2>2, ReadyTail
<1>8. Ready(new, DOMAIN object', leaving')
  <2>1. \A keys, gone : Ready(more, keys, gone) /\ Ready(Tail(task[t]), keys, gone) => Ready(more \o Tail(task[t]), keys, gone)
    BY <1>4, ReadyJoined
  <2>. QED
    BY <1>5, <1>7, <2>1
<1>. QED
  BY <1>6, <1>8, FileListStep

\* What keeps the rows readable survives every step of the area.
LEMMA FileInvNext ==
    ASSUME FileRows, RowsHaveObjects, FileLists, FileStoreNext
    PROVE  FileRows' /\ RowsHaveObjects' /\ FileLists'
<1>. DEFINE Preserved == FileRows' /\ RowsHaveObjects' /\ FileLists'
            Grows == More(DOMAIN object, leaving, DOMAIN object', leaving')
<1>1. /\ UNCHANGED <<object, leaving>> => Grows
      /\ \A k : S3_upload(k, None) \/ (\E d : S3_upload(k, d)) => DOMAIN object' = DOMAIN object \cup {k}
  BY DEF More, S3_upload
<1>2. ASSUME Grows, UNCHANGED <<file, emoji, avatar>> PROVE FileRows' /\ RowsHaveObjects'
  <2>1. \A x, y : Key("thumb", x) # Key("file", y) /\ Key("emoji", x) # Key("file", y) /\ Key("avatar", x) # Key("file", y)
    BY DEF Key
  <2>2. \A x, y : Key("file", x) = Key("file", y) => x = y
    BY DEF Key
  <2>3. FileRows'
    BY <1>2 DEF FileRows
  <2>4. ASSUME NEW f \in Files \ leaving', FileExists(f)' PROVE get_file(f)' /\ get_thumbnail(f)'
    <3>1. f \in Files \ leaving /\ FileExists(f)
      BY <1>2, <2>4 DEF More, FileExists
    <3>2. Key("file", f) \in DOMAIN object /\ (file[f].thumb => Key("thumb", f) \in DOMAIN object)
      BY <3>1 DEF RowsHaveObjects, get_file, get_thumbnail, Stored
    <3>3. Key("file", f) \in DOMAIN object'
      BY <1>2, <2>2, <2>4, <3>2 DEF More
    <3>4. file[f].thumb => Key("thumb", f) \in DOMAIN object'
      BY <1>2, <2>1, <3>2 DEF More
    <3>. QED
      BY <1>2, <3>3, <3>4 DEF get_file, get_thumbnail, Stored
  <2>5. ASSUME NEW e \in Emojis, emoji'[e] # None PROVE get_emoji_image(e)'
    BY <1>2, <2>1, <2>5 DEF More, RowsHaveObjects, get_emoji_image, Stored
  <2>6. get_user_image'
    BY <1>2, <2>1 DEF More, RowsHaveObjects, get_user_image, Stored
  <2>. QED
    BY <2>3, <2>4, <2>5, <2>6 DEF RowsHaveObjects
<1>3. task' = task /\ UNCHANGED <<object, leaving>> => FileLists'
  BY DEF FileLists
<1>4. ASSUME UNCHANGED <<task, object, leaving, file, emoji, avatar>> PROVE Preserved
  BY <1>1, <1>2, <1>3, <1>4
<1>5. ASSUME NEW t \in Tasks, NEW T, NEW new \in Seq(T), task' = [task EXCEPT ![t] = new],
             Ready(new, DOMAIN object', leaving'), Grows, UNCHANGED <<file, emoji, avatar>>
      PROVE  Preserved
  BY <1>2, <1>5, FileListStep
<1>6. \A x : /\ \A a \in {"put", "put_emoji", "put_avatar", "thumb", "preview", "set_thumb", "delete_file", "append", "complete",
                          "forget_upload", "delete_object"} :
                   \A gone : Needs(Stmt(a, x), gone) = {}
             /\ \A gone : /\ Needs(Stmt("insert_file", x), gone) \subseteq {Key("file", x)}
                          /\ Needs(Stmt("insert_emoji", x), gone) = {Key("emoji", x.e)}
                          /\ Needs(Stmt("set_avatar", x), gone) = {Key("avatar", None)}
             /\ Gives(Stmt("put", x)) = {Key("file", x)} /\ Gives(Stmt("put_emoji", x)) = {Key("emoji", x.e)}
             /\ Gives(Stmt("put_avatar", x)) = {Key("avatar", None)}
             /\ \A a : Stmt(a, x).do = a /\ Stmt(a, x).x = x
  BY DEF Needs, Gives, Stmt
<1>7. /\ \A o : <<o>> \in Seq({o})
      /\ \A o, p : <<o, p>> \in Seq({o, p})
      /\ \A o, p, q, r : <<o, p, q, r>> \in Seq({o, p, q, r})
  OBVIOUS
<1>8. ASSUME NEW t \in Tasks, upload_file(t) \/ upload_file_v4(t) PROVE Preserved
  <2>1. PICK f : \/ Begin(t, StoreThenInsert(f))
                 \/ Begin(t, <<Stmt("put", f), Stmt("insert_file", f), Stmt("thumb", f), Stmt("set_thumb", f)>>)
    BY <1>8 DEF upload_file, upload_file_v4
  <2>2. PICK o, p, q, r, k : /\ o = Stmt("put", f) /\ p = Stmt("thumb", f) /\ q = Stmt("preview", f)
                             /\ r = Stmt("insert_file", f) /\ k = Stmt("set_thumb", f)
    OBVIOUS
  <2>3. UNCHANGED <<object, leaving, file, emoji, avatar>> /\ Grows
    BY <1>1, <1>8 DEF upload_file, upload_file_v4, FileVars
  <2>4. \A s \in {o, p, q, r, k} : s.do # "delete_object"
    BY <1>6, <2>2
  <2>5. /\ Needs(o, leaving') = {} /\ Needs(p, leaving') = {} /\ Needs(q, leaving') = {} /\ Needs(k, leaving') = {}
        /\ Needs(r, leaving') \subseteq Gives(o)
    BY <1>6, <2>2
  <2>6. Ready(<<o, p, q, r>>, DOMAIN object', leaving') /\ Ready(<<o, r, p, k>>, DOMAIN object', leaving')
    BY <2>4, <2>5, ReadyLists
  <2>7. task' = [task EXCEPT ![t] = <<o, p, q, r>>] \/ task' = [task EXCEPT ![t] = <<o, r, p, k>>]
    BY <2>1, <2>2 DEF Begin, StoreThenInsert
  <2>. QED
    BY <1>5, <1>7, <2>3, <2>6, <2>7
<1>9. ASSUME NEW t \in Tasks, upload_user_image(t) PROVE Preserved
  <2>1. PICK o, p : o = Stmt("put_avatar", None) /\ p = Stmt("set_avatar", None)
    OBVIOUS
  <2>2. UNCHANGED <<object, leaving, file, emoji, avatar>> /\ Grows /\ task' = [task EXCEPT ![t] = <<o, p>>]
    BY <1>1, <1>9, <2>1 DEF upload_user_image, FileVars, Begin
  <2>3. o.do # "delete_object" /\ p.do # "delete_object" /\ Needs(o, leaving') = {} /\ Needs(p, leaving') \subseteq Gives(o)
    BY <1>6, <2>1
  <2>4. Ready(<<o, p>>, DOMAIN object', leaving')
    BY <2>3, ReadyLists
  <2>. QED
    BY <1>5, <1>7, <2>2, <2>4
<1>10. ASSUME NEW t \in Tasks, NEW n, create_emoji(t, n) PROVE Preserved
  <2>1. PICK e : Begin(t, <<Stmt("put_emoji", [e |-> e, n |-> n]), Stmt("insert_emoji", [e |-> e, n |-> n])>>)
    BY <1>10 DEF create_emoji
  <2>2. PICK o, p : o = Stmt("put_emoji", [e |-> e, n |-> n]) /\ p = Stmt("insert_emoji", [e |-> e, n |-> n])
    OBVIOUS
  <2>3. UNCHANGED <<object, leaving, file, emoji, avatar>> /\ Grows /\ task' = [task EXCEPT ![t] = <<o, p>>]
    BY <1>1, <1>10, <2>1, <2>2 DEF create_emoji, FileVars, Begin
  <2>4. o.do # "delete_object" /\ p.do # "delete_object" /\ Needs(o, leaving') = {} /\ Needs(p, leaving') \subseteq Gives(o)
    BY <1>6, <2>2
  <2>5. Ready(<<o, p>>, DOMAIN object', leaving')
    BY <2>4, ReadyLists
  <2>. QED
    BY <1>5, <1>7, <2>3, <2>5
<1>11. ASSUME NEW t \in Tasks, NEW f \in Files, delete_file(t, f) PROVE Preserved
  <2>1. PICK o, p : o = Stmt("delete_object", f) /\ p = Stmt("delete_file", f)
    OBVIOUS
  <2>2. /\ UNCHANGED <<object, file, emoji, avatar>> /\ leaving' = leaving \cup {f}
        /\ task' = [task EXCEPT ![t] = <<o, p>>]
    BY <1>11, <2>1 DEF delete_file, Begin
  <2>3. Grows
    BY <2>2 DEF More
  <2>4. o.x \in leaving' /\ p.do # "delete_object" /\ Needs(o, leaving') = {} /\ Needs(p, leaving') = {}
    BY <1>6, <2>1, <2>2
  <2>5. Ready(<<o, p>>, DOMAIN object', leaving')
    BY <2>4, ReadyLists
  <2>. QED
    BY <1>5, <1>7, <2>2, <2>3, <2>5
<1>12. ASSUME NEW t \in Tasks, NEW u, upload_data(t, u) PROVE Preserved
  <2>1. PICK x : Begin(t, <<Stmt("append", x)>>)
    BY <1>12 DEF upload_data
  <2>2. UNCHANGED <<object, leaving, file, emoji, avatar>> /\ Grows
    BY <1>1, <1>12 DEF upload_data
  <2>3. PICK o : o = Stmt("append", x)
    OBVIOUS
  <2>4. task' = [task EXCEPT ![t] = <<o>>] /\ Needs(o, leaving') = {} /\ o.do # "delete_object"
    BY <1>6, <2>1, <2>3 DEF Begin
  <2>5. Ready(<<o>>, DOMAIN object', leaving')
    BY <2>4, ReadyLists
  <2>. QED
    BY <1>5, <1>7, <2>2, <2>4, <2>5
<1>13. ASSUME NEW t \in Tasks, FileRequest(t) PROVE Preserved
  <2>1. ASSUME NEW f \in Files, FileAges(f) PROVE Preserved
    <3>1. FileExists(f) /\ file' = [file EXCEPT ![f].old = TRUE] /\ UNCHANGED <<task, object, leaving, emoji, avatar>>
      BY <2>1 DEF FileAges, Statement
    <3>2. file[f] \in FileRow
      BY <3>1 DEF FileExists, FileRows
    <3>3. PICK r : r = [file[f] EXCEPT !.old = TRUE]
      OBVIOUS
    <3>4. r \in FileRow /\ r.thumb = file[f].thumb
      BY <3>2, <3>3 DEF FileRow
    <3>5. /\ file' \in [Files -> FileRow \cup {None}] /\ file'[f] = r
          /\ \A g \in Files : g # f => file'[g] = file[g]
      BY <3>1, <3>3, <3>4 DEF FileRows
    <3>6. FileRows'
      BY <3>1, <3>5 DEF FileRows
    <3>7. ASSUME NEW g \in Files \ leaving', FileExists(g)' PROVE get_file(g)' /\ get_thumbnail(g)'
      <4>1. FileExists(g) /\ file'[g].thumb = file[g].thumb
        BY <3>1, <3>4, <3>5, <3>7 DEF FileExists
      <4>. QED
        BY <3>1, <4>1 DEF RowsHaveObjects, get_file, get_thumbnail, Stored
    <3>8. RowsHaveObjects'
      BY <3>1, <3>7 DEF RowsHaveObjects, get_emoji_image, get_user_image, Stored
    <3>. QED
      BY <1>3, <3>1, <3>6, <3>8
  <2>2. ASSUME NEW u, create_upload(u) \/ get_upload(u) \/ UploadExpires(u) PROVE Preserved
    BY <1>4, <2>2 DEF create_upload, get_upload, UploadExpires, Statement
  <2>3. ASSUME NEW m, MessageAges(m) PROVE Preserved
    BY <1>4, <2>3 DEF MessageAges, Statement
  <2>4. ASSUME NEW messages, NEW files, run_retention_cleanup(messages, files) PROVE Preserved
    BY <1>4, <2>4 DEF run_retention_cleanup, Statement
  <2>5. ASSUME NEW e \in Emojis, delete_emoji(e) PROVE Preserved
    <3>1. emoji[e] # None /\ emoji' = [emoji EXCEPT ![e].live = FALSE] /\ UNCHANGED <<task, object, leaving, file, avatar>>
      BY <2>5 DEF delete_emoji, Statement
    <3>2. "live" \in DOMAIN emoji[e]
      BY <3>1 DEF FileRows
    <3>3. PICK r : r = [emoji[e] EXCEPT !.live = FALSE]
      OBVIOUS
    <3>4. "live" \in DOMAIN r /\ r.live = FALSE
      BY <3>2, <3>3
    <3>5. /\ emoji' = [d \in Emojis |-> emoji'[d]] /\ emoji'[e] = r
          /\ \A d \in Emojis : d # e => emoji'[d] = emoji[d]
      BY <3>1, <3>3, <3>4 DEF FileRows
    <3>6. FileRows'
      BY <3>1, <3>4, <3>5 DEF FileRows
    <3>7. ASSUME NEW d \in Emojis, emoji'[d] # None PROVE get_emoji_image(d)'
      BY <3>1, <3>4, <3>5, <3>7 DEF RowsHaveObjects, get_emoji_image, Stored
    <3>8. RowsHaveObjects'
      BY <3>1, <3>7 DEF RowsHaveObjects, FileExists, get_file, get_thumbnail, get_user_image, Stored
    <3>. QED
      BY <1>3, <3>1, <3>6, <3>8
  <2>. HIDE DEF Preserved
  <2>. QED
    BY <1>8, <1>9, <1>10, <1>11, <1>12, <1>13, <2>1, <2>2, <2>3, <2>4, <2>5 DEF FileRequest
<1>14. ASSUME NEW t \in Tasks, Interrupted(t), UNCHANGED FileVars PROVE Preserved
  <2>1. <<>> \in Seq({}) /\ Ready(<<>>, DOMAIN object', leaving')
    BY ReadyLists
  <2>. QED
    BY <1>1, <1>5, <1>14, <2>1 DEF Interrupted, FileVars
<1>15. ASSUME NEW t \in Tasks, Busy(t), NEW o, o = Head(task[t]), FileStep(t, o) PROVE Preserved
  <2>1. /\ o.do = "delete_object" => o.x \in leaving
        /\ \A k \in Needs(o, leaving) : k \in DOMAIN object
    <3>1. PICK S : task \in [Tasks -> Seq(S)]
      BY DEF FileLists
    <3>2. task[t] \in Seq(S) /\ 1 \in 1..Len(task[t]) /\ o = task[t][1] /\ Ready(task[t], DOMAIN object, leaving)
      BY <1>15, <3>1 DEF Busy, FileLists
    <3>3. ~\E j \in 1..1 - 1 : TRUE
      OBVIOUS
    <3>. QED
      BY <3>2, <3>3 DEF Ready
  <2>2. ASSUME Continue(t, <<>>) \/ GiveUp(t), Grows, UNCHANGED <<file, emoji, avatar>>,
               Continue(t, <<>>) => \A k \in Gives(o) : k \in DOMAIN object'
        PROVE  Preserved
    BY <1>2, <1>15, <2>2, FileGoesOn
  <2>3. ASSUME NEW k, DOMAIN object' = DOMAIN object \cup {k}, UNCHANGED leaving PROVE Grows
    BY <2>3 DEF More
  <2>4. CASE PutObject(t, o)
    <3>1. DOMAIN object' = DOMAIN object \cup {Key("file", o.x)} /\ UNCHANGED <<leaving, file, emoji, avatar>> /\ Continue(t, <<>>)
      BY <1>1, <2>4 DEF PutObject
    <3>2. Gives(o) = {Key("file", o.x)}
      BY <2>4 DEF PutObject, Gives
    <3>. QED
      BY <2>2, <2>3, <3>1, <3>2
  <2>5. CASE PutEmoji(t, o)
    <3>1. DOMAIN object' = DOMAIN object \cup {Key("emoji", o.x.e)} /\ UNCHANGED <<leaving, file, emoji, avatar>> /\ Continue(t, <<>>)
      BY <1>1, <2>5 DEF PutEmoji
    <3>2. Gives(o) = {Key("emoji", o.x.e)}
      BY <2>5 DEF PutEmoji, Gives
    <3>. QED
      BY <2>2, <2>3, <3>1, <3>2
  <2>6. CASE PutAvatar(t, o)
    <3>1. DOMAIN object' = DOMAIN object \cup {Key("avatar", None)} /\ UNCHANGED <<leaving, file, emoji, avatar>> /\ Continue(t, <<>>)
      BY <1>1, <2>6 DEF PutAvatar
    <3>2. Gives(o) = {Key("avatar", None)}
      BY <2>6 DEF PutAvatar, Gives
    <3>. QED
      BY <2>2, <2>3, <3>1, <3>2
  <2>7. CASE PutThumbnail(t, o) \/ PutPreview(t, o)
    <3>1. \/ \E k : DOMAIN object' = DOMAIN object \cup {k}
          \/ UNCHANGED object
      BY <1>1, <2>7 DEF PutThumbnail, PutPreview
    <3>2. UNCHANGED <<leaving, file, emoji, avatar>> /\ Continue(t, <<>>) /\ Gives(o) = {}
      BY <2>7 DEF PutThumbnail, PutPreview, Gives
    <3>. QED
      BY <1>1, <2>2, <2>3, <3>1, <3>2
  <2>8. CASE DeleteObject(t, o)
    <3>1. /\ DOMAIN object' = DOMAIN object \ {Key("file", o.x)} /\ UNCHANGED <<leaving, file, emoji, avatar>> /\ Continue(t, <<>>)
          /\ o.do = "delete_object"
      BY <2>8 DEF DeleteObject, S3_delete
    <3>2. Grows /\ Gives(o) = {}
      BY <2>1, <3>1 DEF More, Gives
    <3>. QED
      BY <2>2, <3>1, <3>2
  <2>9. CASE AppendData(t, o)
    <3>1. UNCHANGED <<object, leaving, file, emoji, avatar>> /\ o.do = "append" /\ Grows
      BY <1>1, <2>9 DEF AppendData
    <3>2. PICK p : p = Stmt("complete", [u |-> o.x.u])
      OBVIOUS
    <3>3. Continue(t, <<>>) \/ GiveUp(t) \/ Continue(t, <<p>>)
      BY <2>9, <3>2 DEF AppendData
    <3>4. CASE Continue(t, <<p>>)
      <4>1. p.do # "delete_object" /\ Needs(p, leaving') = {} /\ Gives(o) = {}
        BY <1>6, <3>1, <3>2 DEF Gives
      <4>2. Ready(<<p>>, DOMAIN object', leaving')
        BY <4>1, ReadyLists
      <4>3. FileLists'
        BY <1>7, <1>15, <3>1, <3>4, <4>1, <4>2, FileGoesOnWith
      <4>. QED
        BY <1>2, <3>1, <4>3
    <3>5. Gives(o) = {}
      BY <3>1 DEF Gives
    <3>. QED
      BY <2>2, <3>1, <3>3, <3>4, <3>5
  <2>10. CASE CompleteUpload(t, o)
    <3>1. UNCHANGED <<leaving, file, emoji, avatar>> /\ o.do = "complete" /\ Gives(o) = {}
      BY <2>10 DEF CompleteUpload, Gives
    <3>2. CASE GiveUp(t) /\ UNCHANGED object
      BY <1>1, <2>2, <3>1, <3>2
    <3>3. ASSUME NEW f, NEW d, S3_upload(Key("file", f), d),
                 Continue(t, Tail(StoreThenInsert(f)) \o <<Stmt("forget_upload", [u |-> o.x.u])>>)
          PROVE  Preserved
      <4>1. DOMAIN object' = DOMAIN object \cup {Key("file", f)} /\ Grows
        BY <1>1, <2>3, <3>1, <3>3
      <4>2. PICK p, q, r, k : /\ p = Stmt("thumb", f) /\ q = Stmt("preview", f) /\ r = Stmt("insert_file", f)
                              /\ k = Stmt("forget_upload", [u |-> o.x.u])
        OBVIOUS
      <4>3. /\ \A s \in {p, q, r, k} : s.do # "delete_object"
            /\ Needs(p, leaving') = {} /\ Needs(q, leaving') = {} /\ Needs(k, leaving') = {}
            /\ Needs(r, leaving') \subseteq DOMAIN object'
        BY <1>6, <4>1, <4>2
      <4>4. Ready(<<p, q, r, k>>, DOMAIN object', leaving')
        BY <4>3, ReadyLists
      <4>5. PICK new : new = <<p, q, r, k>>
        OBVIOUS
      <4>6. Tail(StoreThenInsert(f)) \o <<k>> = new
        <5>1. PICK A, a, b : A = {p, q, r, k} /\ a = Tail(StoreThenInsert(f)) /\ b = <<k>>
          OBVIOUS
        <5>2. /\ a \in Seq(A) /\ Len(a) = 3 /\ a[1] = p /\ a[2] = q /\ a[3] = r /\ b \in Seq(A) /\ Len(b) = 1 /\ b[1] = k
              /\ new \in Seq(A) /\ Len(new) = 4 /\ new[1] = p /\ new[2] = q /\ new[3] = r /\ new[4] = k
          BY <4>2, <4>5, <5>1 DEF StoreThenInsert
        <5>3. PICK both : both = a \o b
          OBVIOUS
        <5>4. both \in Seq(A) /\ Len(both) = 4 /\ both[1] = p /\ both[2] = q /\ both[3] = r /\ both[4] = k
          <6>1. /\ both \in Seq(A) /\ Len(both) = Len(a) + Len(b)
                /\ \A i \in 1..Len(a) + Len(b) : both[i] = IF i <= Len(a) THEN a[i] ELSE b[i - Len(a)]
            BY <5>2, <5>3, JoinedPlaces, Zenon
          <6>2. /\ both \in Seq(A) /\ Len(both) = 4
                /\ \A i \in 1..4 : both[i] = IF i <= 3 THEN a[i] ELSE b[i - 3]
            BY <5>2, <6>1
          <6>. QED
            BY <5>2, <6>2
        <5>5. Len(both) = Len(new) /\ \A i \in 1..Len(both) : both[i] = new[i]
          BY <5>2, <5>4
        <5>. QED
          BY <5>1, <5>2, <5>3, <5>4, <5>5, SameList
      <4>7. FileLists'
        <5>1. new \in Seq({p, q, r, k}) /\ Gives(Head(task[t])) = {}
          BY <1>7, <1>15, <3>1, <4>5
        <5>3. Continue(t, new)
          BY <3>3, <4>2, <4>6
        <5>2. Ready(new, DOMAIN object', leaving')
          BY <4>4, <4>5
        <5>. QED
          BY <1>15, <4>1, <5>1, <5>2, <5>3, FileGoesOnWith
      <4>. QED
        BY <1>2, <3>1, <4>1, <4>7
    <3>. QED
      BY <2>10, <3>2, <3>3 DEF CompleteUpload
  <2>11. CASE ForgetUpload(t, o)
    BY <1>1, <2>2, <2>11 DEF ForgetUpload, Gives
  <2>12. ASSUME Continue(t, <<>>), UNCHANGED <<object, leaving>>, Gives(o) = {} PROVE FileLists'
    BY <1>1, <1>15, <2>12, FileGoesOn
  <2>13. CASE SetAvatar(t, o)
    <3>1. UNCHANGED <<object, leaving, file, emoji>> /\ avatar' = TRUE /\ Continue(t, <<>>) /\ Gives(o) = {}
      BY <2>13 DEF SetAvatar, Gives
    <3>2. Key("avatar", None) \in DOMAIN object
      BY <2>1, <2>13 DEF SetAvatar, Needs
    <3>3. FileRows' /\ RowsHaveObjects'
      BY <3>1, <3>2
         DEF FileRows, RowsHaveObjects, FileExists, get_file, get_thumbnail, get_emoji_image, get_user_image, Stored
    <3>. QED
      BY <2>12, <3>1, <3>3
  <2>14. CASE InsertEmoji(t, o)
    <3>1. UNCHANGED <<object, leaving, file, avatar>> /\ o.do = "insert_emoji" /\ Gives(o) = {}
      BY <2>14 DEF InsertEmoji, Gives
    <3>2. CASE GiveUp(t) /\ UNCHANGED emoji
      BY <1>1, <2>2, <3>1, <3>2
    <3>3. CASE emoji' = [emoji EXCEPT ![o.x.e] = [name |-> o.x.n, live |-> TRUE]] /\ Continue(t, <<>>)
      <4>1. Key("emoji", o.x.e) \in DOMAIN object
        BY <2>1, <3>1 DEF Needs
      <4>2. \A e \in Emojis : e # o.x.e => emoji'[e] = emoji[e]
        BY <3>3 DEF FileRows
      <4>3. RowsHaveObjects'
        <5>1. ASSUME NEW e \in Emojis, emoji'[e] # None PROVE get_emoji_image(e)'
          BY <3>1, <4>1, <4>2, <5>1 DEF RowsHaveObjects, get_emoji_image, Stored
        <5>. QED
          BY <3>1, <5>1 DEF RowsHaveObjects, FileExists, get_file, get_thumbnail, get_user_image, Stored
      <4>4. FileRows'
        <5>1. emoji' = [e \in Emojis |-> emoji'[e]]
          BY <3>3 DEF FileRows
        <5>2. o.x.e \in Emojis => "live" \in DOMAIN emoji'[o.x.e]
          BY <3>3 DEF FileRows
        <5>. QED
          BY <3>1, <4>2, <5>1, <5>2 DEF FileRows
      <4>. QED
        BY <2>12, <3>1, <3>3, <4>3, <4>4
    <3>. QED
      BY <2>14, <3>2, <3>3 DEF InsertEmoji
  <2>15. ASSUME NEW f, NEW r \in FileRow \cup {None}, file' = [file EXCEPT ![f] = r],
                r # None => /\ r.thumb => Key("thumb", f) \in DOMAIN object
                            /\ f \in leaving \/ Key("file", f) \in DOMAIN object,
                UNCHANGED <<object, leaving, emoji, avatar>>
         PROVE  FileRows' /\ RowsHaveObjects'
    <3>1. FileRows'
      BY <2>15 DEF FileRows
    <3>2. \A g \in Files : file'[g] = IF g = f THEN r ELSE file[g]
      BY <2>15 DEF FileRows
    <3>3. ASSUME NEW g \in Files \ leaving', FileExists(g)' PROVE get_file(g)' /\ get_thumbnail(g)'
      <4>1. CASE g # f
        BY <2>15, <3>2, <3>3, <4>1 DEF RowsHaveObjects, FileExists, get_file, get_thumbnail, Stored
      <4>2. CASE g = f
        <5>1. file'[f] = r /\ r # None /\ f \notin leaving
          BY <2>15, <3>2, <3>3, <4>2 DEF FileExists
        <5>. QED
          BY <2>15, <4>2, <5>1 DEF get_file, get_thumbnail, Stored
      <4>. QED
        BY <4>1, <4>2
    <3>4. RowsHaveObjects'
      BY <2>15, <3>3 DEF RowsHaveObjects, get_emoji_image, get_user_image, Stored
    <3>. QED
      BY <3>1, <3>4
  <2>16. CASE DeleteFile(t, o)
    BY <2>12, <2>15, <2>16 DEF DeleteFile, Gives
  <2>17. CASE InsertFile(t, o)
    <3>1. PICK r : r = [thumb |-> Stored(Key("thumb", o.x)), old |-> FALSE]
      OBVIOUS
    <3>2. /\ UNCHANGED <<object, leaving, emoji, avatar>> /\ file' = [file EXCEPT ![o.x] = r] /\ Continue(t, <<>>)
          /\ Gives(o) = {} /\ o.do = "insert_file"
      BY <2>17, <3>1 DEF InsertFile, Gives
    <3>3. r \in FileRow /\ (r.thumb => Key("thumb", o.x) \in DOMAIN object)
      <4>1. PICK b \in BOOLEAN : b <=> Stored(Key("thumb", o.x))
        OBVIOUS
      <4>2. b = Stored(Key("thumb", o.x))
        BY <4>1, Zenon DEF Stored
      <4>3. r = [thumb |-> b, old |-> FALSE]
        BY <3>1, <4>2
      <4>4. r \in FileRow /\ r.thumb = b
        BY <4>3 DEF FileRow
      <4>. QED
        BY <4>1, <4>4 DEF Stored
    <3>4. o.x \in leaving \/ Key("file", o.x) \in DOMAIN object
      BY <2>1, <3>2 DEF Needs
    <3>. QED
      BY <2>12, <2>15, <3>2, <3>3, <3>4
  <2>18. CASE SetThumbnail(t, o)
    <3>1. UNCHANGED <<object, leaving, emoji, avatar>> /\ Continue(t, <<>>) /\ Gives(o) = {}
      BY <2>18 DEF SetThumbnail, Gives
    <3>2. CASE file' = file
      BY <1>1, <1>2, <2>12, <3>1, <3>2
    <3>3. CASE o.x \in Files /\ FileExists(o.x) /\ file' = [file EXCEPT ![o.x].thumb = Stored(Key("thumb", o.x))]
      <4>1. file[o.x] \in FileRow
        BY <3>3 DEF FileExists, FileRows
      <4>2. PICK b \in BOOLEAN : b = Stored(Key("thumb", o.x))
        <5>1. PICK b \in BOOLEAN : b <=> Stored(Key("thumb", o.x))
          OBVIOUS
        <5>2. b = Stored(Key("thumb", o.x))
          BY <5>1, Zenon DEF Stored
        <5>. QED
          BY <5>2
      <4>3. PICK r : r = [file[o.x] EXCEPT !.thumb = b]
        OBVIOUS
      <4>4. r \in FileRow /\ r.thumb = b
        BY <4>1, <4>2, <4>3 DEF FileRow
      <4>5. file' = [file EXCEPT ![o.x] = r]
        BY <3>3, <4>2, <4>3
      <4>6. o.x \in leaving \/ Key("file", o.x) \in DOMAIN object
        BY <3>3 DEF RowsHaveObjects, get_file, Stored
      <4>7. r.thumb => Key("thumb", o.x) \in DOMAIN object
        BY <4>2, <4>4 DEF Stored
      <4>. QED
        BY <2>12, <2>15, <3>1, <4>4, <4>5, <4>6, <4>7
    <3>4. o.x \notin Files => file' = file
      BY <2>18 DEF SetThumbnail, FileRows
    <3>. QED
      BY <2>18, <3>2, <3>3, <3>4 DEF SetThumbnail
  <2>. HIDE DEF Preserved
  <2>. QED
    BY <1>15, <2>4, <2>5, <2>6, <2>7, <2>8, <2>9, <2>10, <2>11, <2>13, <2>14, <2>16, <2>17, <2>18 DEF FileStep
<1>. HIDE DEF Preserved
<1>16. Preserved
  BY <1>13, <1>14, <1>15 DEF FileStoreNext
<1>. QED
  BY <1>16 DEF Preserved

\* A file nobody began to delete, an emoji and an avatar can be read whenever their row says so, for any
\* number of files, emoji and requests at once, wherever a request stops between S3 and the database
\* (api/files.rs, api/v4/files.rs, api/v4/uploads.rs, api/v4/emoji.rs, api/v4/users/media.rs).
THEOREM RowsHaveObjectsAlways == WorkspaceSpec => []RowsHaveObjects
<1>1. WorkspaceInit => FileInv
  BY FileInvInit DEF WorkspaceInit, FileInv
<1>2. FileInv /\ [WorkspaceNext]_WorkspaceVars => FileInv'
  <2>. SUFFICES ASSUME FileInv, [WorkspaceNext]_WorkspaceVars PROVE FileInv'
    OBVIOUS
  <2>1. area' = area
    BY AreaSteps
  <2>2. CASE UNCHANGED FileVars /\ (area # "files" \/ UNCHANGED RequestVars)
    <3>1. FileRows'
      BY <2>2 DEF FileInv, FileRows, FileVars
    <3>2. RowsHaveObjects'
      BY <2>2 DEF FileInv, RowsHaveObjects, FileExists, get_file, get_thumbnail, get_emoji_image, get_user_image, Stored, FileVars
    <3>3. area = "files" => FileLists'
      BY <2>2 DEF FileInv, FileLists, FileVars, RequestVars
    <3>. QED
      BY <2>1, <3>1, <3>2, <3>3 DEF FileInv
  <2>3. CASE area = "files" /\ FileStoreNext
    BY <2>1, <2>3, FileInvNext DEF FileInv
  <2>. QED
    BY <2>2, <2>3, AreaSteps
<1>3. FileInv => RowsHaveObjects
  BY DEF FileInv
<1>. QED
  BY <1>1, <1>2, <1>3, PTL DEF WorkspaceSpec

\* The first chunks of a file, the statements about an upload, and what they have read of it.
Chunks(n) == [i \in 1..n |-> i]
NextChunk(n) == IF n < UploadSize THEN <<n + 1>> ELSE <<>>
Handles(o, u) == o.do \in {"append", "complete", "forget_upload"} /\ o.x.u = u
Handling(list, u) == \E o \in Elems(list) : Handles(o, u)
UploadRow == [offset : Nat, data : Seq(Nat), expired : BOOLEAN]
AppendArg == [u : Uploads, offset : Nat, body : Seq(Nat)]

\* An upload that had one request at a time has its first chunks, and its sender knows how many.
UploadRows ==
    /\ upload \in [Uploads -> UploadRow \cup {None}]
    /\ client \in [Uploads -> Nat \cup {None}]
    /\ \A u \in Uploads \ overlapped : upload[u] # None =>
          /\ upload[u].offset <= UploadSize /\ upload[u].data = Chunks(upload[u].offset)
          /\ client[u] # None => client[u] = upload[u].offset
\* Its request sends the chunk that comes next, or completes a whole file, and what was read is still so.
UploadStmt(o, up, lapped) ==
    /\ o.do = "append" => /\ o.x \in AppendArg
                          /\ o.x.u \notin lapped /\ up[o.x.u] # None =>
                                o.x.offset = up[o.x.u].offset /\ o.x.body = NextChunk(o.x.offset)
    /\ o.do = "complete" => o.x.u \in Uploads /\ (o.x.u \notin lapped /\ up[o.x.u] # None => up[o.x.u].data = Whole)
Lone(list) == \A o \in Elems(list) : o.do \in {"append", "complete"} => list = <<o>>
\* Such a request is the only one, and there is none while the sender knows how far the server is.
UploadLists ==
    /\ \E S : task \in [Tasks -> Seq(S)]
    /\ \A t \in Tasks : Lone(task[t]) /\ \A o \in Elems(task[t]) : UploadStmt(o, upload, overlapped)
    /\ \A u \in Uploads \ overlapped, t, v \in Tasks : Handling(task[t], u) /\ Handling(task[v], u) => t = v
    /\ \A u \in Uploads \ overlapped : client[u] # None => \A t \in Tasks : ~Handling(task[t], u)

UploadInv == UploadRows /\ UploadIsExact /\ (area = "files" => UploadLists)

LEMMA UploadInvInit == RequestsInit /\ FileStoreInit => UploadRows /\ UploadIsExact /\ UploadLists
<1>. SUFFICES ASSUME RequestsInit, FileStoreInit PROVE UploadRows /\ UploadIsExact /\ UploadLists
  OBVIOUS
<1>1. PICK begun \in SUBSET Uploads : /\ upload = [u \in Uploads |-> IF u \in begun THEN NewUpload ELSE None]
                                      /\ client = [u \in Uploads |-> IF u \in begun THEN 0 ELSE None]
  BY DEF FileStoreInit
<1>2. NewUpload \in UploadRow /\ NewUpload.offset = 0 /\ NewUpload.data = <<>>
  BY DEF NewUpload, UploadRow
<1>3. Chunks(0) = <<>>
  BY DEF Chunks
<1>4. UploadRows
  <2>1. upload \in [Uploads -> UploadRow \cup {None}] /\ client \in [Uploads -> Nat \cup {None}]
    BY <1>1, <1>2
  <2>2. \A u \in Uploads : upload[u] # None => upload[u] = NewUpload /\ (client[u] = 0 \/ client[u] = None)
    BY <1>1
  <2>. QED
    BY <1>2, <1>3, <2>1, <2>2, FileStoreAssumption DEF UploadRows
<1>5. UploadIsExact
  BY DEF FileStoreInit, UploadIsExact
<1>6. task \in [Tasks -> Seq({})] /\ \A t \in Tasks : task[t] = <<>>
  BY DEF RequestsInit
<1>7. UploadLists
  <2>1. \A t \in Tasks : Elems(task[t]) = {}
    BY <1>6, ShortLists
  <2>. QED
    BY <1>6, <2>1 DEF UploadLists, Lone, Handling
<1>. QED
  BY <1>4, <1>5, <1>7

\* A request goes on with another list.
LEMMA UploadListStep ==
    ASSUME UploadLists, NEW t \in Tasks, NEW T, NEW new \in Seq(T), task' = [task EXCEPT ![t] = new],
           Lone(new), \A o \in Elems(new) : UploadStmt(o, upload', overlapped'),
           \A v \in Tasks : v # t => \A o \in Elems(task[v]) : UploadStmt(o, upload', overlapped'),
           overlapped \subseteq overlapped',
           \A u \in Uploads \ overlapped' : Handling(new, u) => Handling(task[t], u) \/ \A v \in Tasks : ~Handling(task[v], u),
           \A u \in Uploads \ overlapped' : client'[u] # None =>
               ~Handling(new, u) /\ \A v \in Tasks : v # t => ~Handling(task[v], u)
    PROVE  UploadLists'
<1>1. PICK S : task \in [Tasks -> Seq(S)]
  BY DEF UploadLists
<1>2. PICK A : A = S \cup T
  OBVIOUS
<1>3. task' \in [Tasks -> Seq(A)] /\ task'[t] = new /\ \A v \in Tasks : v # t => task'[v] = task[v]
  <2>1. \A B, C : B \subseteq C => \A k \in Seq(B) : k \in Seq(C)
    OBVIOUS
  <2>2. new \in Seq(A) /\ \A v \in Tasks : task[v] \in Seq(A)
    BY <1>1, <1>2, <2>1
  <2>. QED
    BY <1>1, <2>2
<1>4. \A v \in Tasks : Lone(task'[v]) /\ \A o \in Elems(task'[v]) : UploadStmt(o, upload', overlapped')
  BY <1>3 DEF UploadLists
<1>5. ASSUME NEW u \in Uploads \ overlapped', NEW v \in Tasks, NEW w \in Tasks, Handling(task'[v], u), Handling(task'[w], u)
      PROVE  v = w
  <2>1. u \in Uploads \ overlapped
    OBVIOUS
  <2>2. \A k \in Tasks : Handling(task'[k], u) => Handling(task[k], u) \/ (k = t /\ \A m \in Tasks : ~Handling(task[m], u))
    BY <1>3
  <2>. QED
    BY <1>5, <2>1, <2>2 DEF UploadLists
<1>6. ASSUME NEW u \in Uploads \ overlapped', client'[u] # None, NEW v \in Tasks PROVE ~Handling(task'[v], u)
  BY <1>3, <1>6
<1>. QED
  BY <1>3, <1>4, <1>5, <1>6 DEF UploadLists

\* A request that goes on without a new statement about an upload, while no upload changes.
LEMMA UploadGoesOn ==
    ASSUME UploadLists, NEW t \in Tasks, UNCHANGED <<upload, client, overlapped>>, NEW T, NEW new \in Seq(T),
           task' = [task EXCEPT ![t] = new],
           \/ Busy(t) /\ new = Tail(task[t])
           \/ \A o \in Elems(new) : o.do \notin {"append", "complete", "forget_upload"}
    PROVE  UploadLists'
<1>1. ASSUME Busy(t), new = Tail(task[t]) PROVE Elems(new) \subseteq Elems(task[t]) /\ Lone(new)
  <2>1. PICK S : task \in [Tasks -> Seq(S)]
    BY DEF UploadLists
  <2>2. Todo(t) = {Head(task[t])} \cup Elems(Tail(task[t]))
    <3>1. <<>> \in Seq(S)
      OBVIOUS
    <3>. QED
      BY <1>1, <2>1, <3>1, TaskLists
  <2>3. ASSUME NEW o \in Elems(new), o.do \in {"append", "complete"} PROVE FALSE
    <3>1. task[t] = <<o>>
      BY <1>1, <2>2, <2>3 DEF UploadLists, Lone, Todo
    <3>2. Tail(task[t]) = <<>>
      BY <3>1
    <3>. QED
      BY <1>1, <2>3, <3>2, ShortLists
  <2>. QED
    BY <1>1, <2>2, <2>3 DEF Lone, Todo
<1>2. Lone(new) /\ (\A o \in Elems(new) : UploadStmt(o, upload', overlapped')) /\ \A u : Handling(new, u) => Handling(task[t], u)
  <2>1. CASE Busy(t) /\ new = Tail(task[t])
    BY <1>1, <2>1 DEF UploadLists, Handling
  <2>2. CASE \A o \in Elems(new) : o.do \notin {"append", "complete", "forget_upload"}
    BY <2>2 DEF Lone, Handling, Handles, UploadStmt
  <2>. QED
    BY <2>1, <2>2
<1>3. \A u \in Uploads \ overlapped' : client'[u] # None => \A v \in Tasks : ~Handling(task[v], u)
  BY DEF UploadLists
<1>4. \A v \in Tasks : v # t => \A o \in Elems(task[v]) : UploadStmt(o, upload', overlapped')
  BY DEF UploadLists
<1>. QED
  BY <1>2, <1>3, <1>4, UploadListStep

\* A statement is done and the rest follows, or the request stops.
LEMMA UploadStops ==
    ASSUME UploadLists, NEW t \in Tasks, Busy(t), Continue(t, <<>>) \/ GiveUp(t) \/ Interrupted(t),
           UNCHANGED <<upload, client, overlapped>>
    PROVE  UploadLists'
<1>1. CASE task' = [task EXCEPT ![t] = <<>>]
  <2>1. <<>> \in Seq({}) /\ Elems(<<>>) = {}
    BY ShortLists
  <2>. QED
    BY <1>1, <2>1, UploadGoesOn
<1>2. CASE Continue(t, <<>>)
  <2>1. PICK S : task \in [Tasks -> Seq(S)]
    BY DEF UploadLists
  <2>2. Tail(task[t]) \in Seq(S) /\ <<>> \o Tail(task[t]) = Tail(task[t])
    BY <2>1 DEF Busy
  <2>3. task' = [task EXCEPT ![t] = Tail(task[t])]
    BY <1>2, <2>2 DEF Continue
  <2>. QED
    BY <2>2, <2>3, UploadGoesOn
<1>. QED
  BY <1>1, <1>2 DEF GiveUp, Interrupted

\* The chunk after the first n makes them the first n + 1.
LEMMA NextChunks ==
    ASSUME NEW n \in Nat, n <= UploadSize
    PROVE  /\ Chunks(n) \in Seq(Nat) /\ NextChunk(n) \in Seq(Nat)
           /\ n + Len(NextChunk(n)) \in Nat /\ n + Len(NextChunk(n)) <= UploadSize
           /\ Chunks(n) \o NextChunk(n) = Chunks(n + Len(NextChunk(n)))
           /\ n + Len(NextChunk(n)) >= UploadSize => Chunks(n + Len(NextChunk(n))) = Whole
<1>0. UploadSize \in Nat
  BY FileStoreAssumption
<1>1. Chunks(n) \in Seq(Nat) /\ Len(Chunks(n)) = n /\ \A i \in 1..n : Chunks(n)[i] = i
  BY DEF Chunks
<1>2. CASE n < UploadSize
  <2>1. NextChunk(n) = <<n + 1>>
    BY <1>2 DEF NextChunk
  <2>2. PICK a, b, c : a = Chunks(n) /\ b = <<n + 1>> /\ c = Chunks(n + 1)
    OBVIOUS
  <2>3. b \in Seq(Nat) /\ Len(b) = 1 /\ b[1] = n + 1
    BY <2>2
  <2>4. c \in Seq(Nat) /\ Len(c) = n + 1 /\ \A i \in 1..n + 1 : c[i] = i
    BY <2>2 DEF Chunks
  <2>5. PICK d : d = a \o b
    OBVIOUS
  <2>6. a \in Seq(Nat) /\ Len(a) = n /\ \A i \in 1..n : a[i] = i
    BY <1>1, <2>2
  <2>7. /\ d \in Seq(Nat) /\ Len(d) = Len(a) + Len(b)
        /\ \A i \in 1..Len(a) + Len(b) : d[i] = IF i <= Len(a) THEN a[i] ELSE b[i - Len(a)]
    BY <2>3, <2>5, <2>6, JoinedPlaces, Zenon
  <2>8. \A i \in 1..n + 1 : d[i] = i
    BY <2>3, <2>6, <2>7
  <2>9. d = c
    <3>1. Len(d) = Len(c) /\ \A i \in 1..Len(d) : d[i] = c[i]
      BY <2>3, <2>4, <2>6, <2>7, <2>8
    <3>. QED
      BY <2>4, <2>7, <3>1, SameList
  <2>10. Len(<<n + 1>>) = 1 /\ <<n + 1>> \in Seq(Nat)
    OBVIOUS
  <2>11. n + 1 >= UploadSize => n + 1 = UploadSize
    BY <1>0, <1>2
  <2>12. n + 1 = UploadSize => Chunks(n + 1) = Whole
    BY DEF Chunks, Whole
  <2>. QED
    BY <1>0, <1>1, <1>2, <2>1, <2>2, <2>5, <2>9, <2>10, <2>11, <2>12
<1>3. CASE ~(n < UploadSize)
  <2>1. n = UploadSize /\ NextChunk(n) = <<>> /\ Len(<<>>) = 0 /\ <<>> \in Seq(Nat)
    BY <1>0, <1>3 DEF NextChunk
  <2>2. Chunks(n) \o <<>> = Chunks(n)
    BY <1>1
  <2>3. n = UploadSize => Chunks(n) = Whole
    BY DEF Chunks, Whole
  <2>4. n + 0 = n
    OBVIOUS
  <2>. QED
    BY <1>0, <1>1, <2>1, <2>2, <2>3, <2>4
<1>. QED
  BY <1>2, <1>3

\* What keeps uploads exact survives every step of the area.
LEMMA UploadInvNext ==
    ASSUME UploadRows, UploadIsExact, UploadLists, FileStoreNext
    PROVE  UploadRows' /\ UploadIsExact' /\ UploadLists'
<1>. DEFINE Preserved == UploadRows' /\ UploadIsExact' /\ UploadLists'
            Resting == UNCHANGED <<upload, client, overlapped>>
            UploadOps == {"append", "complete", "forget_upload"}
<1>1. \A u : Uploading(u) <=> \E t \in Tasks : Handling(task[t], u)
  BY DEF Uploading, Handling, Handles, Elems
<1>2. ASSUME overlapped \subseteq overlapped', object' = object \/ \E k : S3_delete(k) PROVE UploadIsExact'
  <2>1. \A k \in DOMAIN object' : k \in DOMAIN object /\ object'[k] = object[k]
    BY <1>2 DEF S3_delete
  <2>. QED
    BY <1>2, <2>1 DEF UploadIsExact
<1>3. ASSUME NEW k, NEW d, S3_upload(k, d), overlapped \subseteq overlapped',
             k[1] = "file" /\ d.from \notin overlapped' => d.data = Whole
      PROVE  UploadIsExact'
  <2>1. ASSUME NEW x \in DOMAIN object', x[1] = "file", object'[x].from \notin overlapped' PROVE object'[x].data = Whole
    <3>1. (x = k /\ object'[x] = d) \/ (x \in DOMAIN object /\ object'[x] = object[x])
      BY <1>3, <2>1 DEF S3_upload
    <3>. QED
      BY <1>3, <2>1, <3>1 DEF UploadIsExact
  <2>. QED
    BY <2>1 DEF UploadIsExact
<1>4. Resting => UploadRows' /\ (task' = task => UploadLists')
  BY DEF UploadRows, UploadLists
<1>5. ASSUME Resting, UNCHANGED <<task, object>> PROVE Preserved
  BY <1>2, <1>4, <1>5
<1>6. ASSUME Resting, UNCHANGED object, NEW t \in Tasks, NEW T, NEW new \in Seq(T), task' = [task EXCEPT ![t] = new],
             \A o \in Elems(new) : o.do \notin UploadOps
      PROVE  Preserved
  BY <1>2, <1>4, <1>6, UploadGoesOn
<1>7. /\ \A o : <<o>> \in Seq({o}) /\ Elems(<<o>>) = {o}
      /\ \A o, p : <<o, p>> \in Seq({o, p}) /\ Elems(<<o, p>>) = {o, p}
      /\ \A o, p, q, r : <<o, p, q, r>> \in Seq({o, p, q, r}) /\ Elems(<<o, p, q, r>>) = {o, p, q, r}
  BY DEF Elems
<1>8. \A a, x : Stmt(a, x).do = a /\ Stmt(a, x).x = x
  BY DEF Stmt
<1>9. ASSUME NEW t \in Tasks, upload_file(t) \/ upload_file_v4(t) PROVE Preserved
  <2>1. PICK f : \/ Begin(t, StoreThenInsert(f))
                 \/ Begin(t, <<Stmt("put", f), Stmt("insert_file", f), Stmt("thumb", f), Stmt("set_thumb", f)>>)
    BY <1>9 DEF upload_file, upload_file_v4
  <2>2. PICK o, p, q, r, k : /\ o = Stmt("put", f) /\ p = Stmt("thumb", f) /\ q = Stmt("preview", f)
                             /\ r = Stmt("insert_file", f) /\ k = Stmt("set_thumb", f)
    OBVIOUS
  <2>3. Resting /\ UNCHANGED object
    BY <1>9 DEF upload_file, upload_file_v4, FileVars
  <2>4. \A s \in {o, p, q, r, k} : s.do \notin UploadOps
    BY <1>8, <2>2
  <2>5. PICK new : /\ new = <<o, p, q, r>> \/ new = <<o, r, p, k>>
                   /\ task' = [task EXCEPT ![t] = new]
    BY <2>1, <2>2 DEF Begin, StoreThenInsert
  <2>6. PICK T : new \in Seq(T) /\ Elems(new) \subseteq {o, p, q, r, k}
    <3>1. CASE new = <<o, p, q, r>>
      <4>1. new \in Seq({o, p, q, r}) /\ Elems(new) = {o, p, q, r}
        BY <1>7, <3>1
      <4>. QED
        BY <4>1
    <3>2. CASE new = <<o, r, p, k>>
      <4>1. new \in Seq({o, r, p, k}) /\ Elems(new) = {o, r, p, k}
        BY <1>7, <3>2
      <4>. QED
        BY <4>1
    <3>. QED
      BY <2>5, <3>1, <3>2
  <2>. HIDE DEF Preserved, Resting, UploadOps
  <2>. QED
    BY <1>6, <2>3, <2>4, <2>5, <2>6
<1>10. ASSUME NEW t \in Tasks, NEW n, NEW f, upload_user_image(t) \/ create_emoji(t, n) \/ delete_file(t, f) PROVE Preserved
  <2>1. PICK e : \/ Begin(t, <<Stmt("put_avatar", None), Stmt("set_avatar", None)>>)
                 \/ Begin(t, <<Stmt("put_emoji", [e |-> e, n |-> n]), Stmt("insert_emoji", [e |-> e, n |-> n])>>)
                 \/ Begin(t, <<Stmt("delete_object", f), Stmt("delete_file", f)>>)
    BY <1>10 DEF upload_user_image, create_emoji, delete_file
  <2>2. PICK a \in {"put_avatar", "put_emoji", "delete_object"}, b \in {"set_avatar", "insert_emoji", "delete_file"} :
           \E x : Begin(t, <<Stmt(a, x), Stmt(b, x)>>)
    BY <2>1
  <2>5. PICK x : Begin(t, <<Stmt(a, x), Stmt(b, x)>>)
    BY <2>2
  <2>6. PICK o, p, new : o = Stmt(a, x) /\ p = Stmt(b, x) /\ new = <<o, p>>
    OBVIOUS
  <2>3. Resting /\ UNCHANGED object
    BY <1>10 DEF upload_user_image, create_emoji, delete_file, FileVars
  <2>4. task' = [task EXCEPT ![t] = new] /\ \A s \in {o, p} : s.do \notin UploadOps
    <3>1. o.do = a /\ p.do = b
      BY <1>8, <2>6
    <3>2. a \notin UploadOps /\ b \notin UploadOps
      BY <2>2
    <3>. QED
      BY <2>5, <2>6, <3>1, <3>2 DEF Begin
  <2>7. new \in Seq({o, p}) /\ Elems(new) = {o, p}
    BY <1>7, <2>6
  <2>. HIDE DEF Preserved, Resting, UploadOps
  <2>. QED
    BY <1>6, <2>3, <2>4, <2>7
<1>11. ASSUME NEW u, u \in Uploads, overlapped \subseteq overlapped',
              upload' \in [Uploads -> UploadRow \cup {None}], client' \in [Uploads -> Nat \cup {None}],
              \A w \in Uploads : w # u => upload'[w] = upload[w] /\ client'[w] = client[w],
              u \notin overlapped' /\ upload'[u] # None =>
                 /\ upload'[u].offset <= UploadSize /\ upload'[u].data = Chunks(upload'[u].offset)
                 /\ client'[u] # None => client'[u] = upload'[u].offset
       PROVE  UploadRows'
  <2>1. ASSUME NEW w \in Uploads \ overlapped', upload'[w] # None
        PROVE  /\ upload'[w].offset <= UploadSize /\ upload'[w].data = Chunks(upload'[w].offset)
               /\ client'[w] # None => client'[w] = upload'[w].offset
    BY <1>11, <2>1 DEF UploadRows
  <2>. QED
    BY <1>11, <2>1 DEF UploadRows
\* Nobody works on an upload that changes by itself, or the request in its way counts as overlapping.
<1>12. ASSUME NEW u, u \in Uploads, task' = task, overlapped \subseteq overlapped',
              \A w \in Uploads : w # u => upload'[w] = upload[w] /\ client'[w] = client[w],
              u \in overlapped' \/ \A t \in Tasks : ~Handling(task[t], u)
       PROVE  UploadLists'
  <2>1. ASSUME NEW t \in Tasks, NEW o \in Elems(task[t]) PROVE UploadStmt(o, upload', overlapped')
    <3>1. UploadStmt(o, upload, overlapped)
      BY DEF UploadLists
    <3>2. o.do \in {"append", "complete"} /\ o.x.u = u => u \in overlapped'
      BY <1>12, <2>1 DEF Handling, Handles
    <3>3. o.do = "append" => o.x.u \in Uploads
      BY <3>1 DEF UploadStmt, AppendArg
    <3>4. o.do = "append" =>
             /\ o.x \in AppendArg
             /\ o.x.u \notin overlapped' /\ upload'[o.x.u] # None =>
                   o.x.offset = upload'[o.x.u].offset /\ o.x.body = NextChunk(o.x.offset)
      BY <1>12, <3>1, <3>2, <3>3 DEF UploadStmt
    <3>5. o.do = "complete" =>
             o.x.u \in Uploads /\ (o.x.u \notin overlapped' /\ upload'[o.x.u] # None => upload'[o.x.u].data = Whole)
      BY <1>12, <3>1, <3>2 DEF UploadStmt
    <3>. QED
      BY <3>4, <3>5 DEF UploadStmt
  <2>2. ASSUME NEW w \in Uploads \ overlapped', client'[w] # None, NEW t \in Tasks PROVE ~Handling(task'[t], w)
    BY <1>12, <2>2 DEF UploadLists
  <2>. QED
    BY <1>12, <2>1, <2>2 DEF UploadLists
<1>13. ASSUME NEW u \in Uploads, create_upload(u) PROVE Preserved
  <2>1. /\ ~Uploading(u) /\ UNCHANGED <<object, overlapped, task>>
        /\ upload' = [upload EXCEPT ![u] = NewUpload] /\ client' = [client EXCEPT ![u] = 0]
    BY <1>13 DEF create_upload, Statement
  <2>2. NewUpload \in UploadRow /\ NewUpload.offset = 0 /\ NewUpload.data = Chunks(0) /\ 0 <= UploadSize
    <3>1. Chunks(0) = <<>> /\ UploadSize \in Nat
      BY FileStoreAssumption DEF Chunks
    <3>. QED
      BY <3>1 DEF NewUpload, UploadRow
  <2>3. /\ upload' \in [Uploads -> UploadRow \cup {None}] /\ client' \in [Uploads -> Nat \cup {None}]
        /\ upload'[u] = NewUpload /\ client'[u] = 0
        /\ \A w \in Uploads : w # u => upload'[w] = upload[w] /\ client'[w] = client[w]
    BY <2>1, <2>2 DEF UploadRows
  <2>4. UploadRows'
    BY <1>11, <2>1, <2>2, <2>3
  <2>5. UploadLists'
    BY <1>1, <1>12, <2>1, <2>3
  <2>. QED
    BY <1>2, <2>1, <2>4, <2>5
<1>14. ASSUME NEW u \in Uploads, get_upload(u) PROVE Preserved
  <2>1. /\ upload[u] # None /\ UNCHANGED <<object, upload, task>> /\ client' = [client EXCEPT ![u] = upload[u].offset]
        /\ overlapped' = IF Uploading(u) THEN overlapped \cup {u} ELSE overlapped
    BY <1>14 DEF get_upload, Statement, Overlap, UploadLive, UploadExists
  <2>2. upload[u] \in UploadRow
    BY <2>1 DEF UploadRows
  <2>3. upload[u].offset \in Nat
    BY <2>2 DEF UploadRow
  <2>4. overlapped \subseteq overlapped' /\ (u \in overlapped' \/ \A t \in Tasks : ~Handling(task[t], u))
    BY <1>1, <2>1
  <2>5. u \notin overlapped' => upload[u].offset <= UploadSize /\ upload[u].data = Chunks(upload[u].offset)
    BY <2>1, <2>4 DEF UploadRows
  <2>6. /\ upload' \in [Uploads -> UploadRow \cup {None}] /\ client' \in [Uploads -> Nat \cup {None}]
        /\ upload'[u] = upload[u] /\ client'[u] = upload[u].offset
        /\ \A w \in Uploads : w # u => upload'[w] = upload[w] /\ client'[w] = client[w]
    BY <2>1, <2>3 DEF UploadRows
  <2>7. UploadRows'
    BY <1>11, <2>4, <2>5, <2>6
  <2>8. UploadLists'
    BY <1>12, <2>1, <2>4, <2>6
  <2>. QED
    BY <1>2, <2>1, <2>4, <2>7, <2>8
<1>15. ASSUME NEW u \in Uploads, UploadExpires(u) PROVE Preserved
  <2>1. upload[u] # None /\ UNCHANGED <<object, client, overlapped, task>> /\ upload' = [upload EXCEPT ![u].expired = TRUE]
    BY <1>15 DEF UploadExpires, Statement, UploadLive, UploadExists
  <2>2. PICK r : r = [upload[u] EXCEPT !.expired = TRUE]
    OBVIOUS
  <2>3. upload[u] \in UploadRow /\ r \in UploadRow /\ r.offset = upload[u].offset /\ r.data = upload[u].data
    BY <2>1, <2>2 DEF UploadRows, UploadRow
  <2>4. /\ upload' \in [Uploads -> UploadRow \cup {None}] /\ client' \in [Uploads -> Nat \cup {None}]
        /\ upload'[u] = r /\ \A w \in Uploads : w # u => upload'[w] = upload[w] /\ client'[w] = client[w]
    BY <2>1, <2>2, <2>3 DEF UploadRows
  <2>5. u \notin overlapped => /\ r.offset <= UploadSize /\ r.data = Chunks(r.offset)
                               /\ client[u] # None => client[u] = r.offset
    BY <2>1, <2>3 DEF UploadRows
  <2>6. UploadRows'
    BY <1>11, <2>1, <2>4, <2>5
  <2>7. ASSUME NEW t \in Tasks, NEW o \in Elems(task[t]) PROVE UploadStmt(o, upload', overlapped')
    <3>1. UploadStmt(o, upload, overlapped)
      BY DEF UploadLists
    <3>2. \A w \in Uploads : /\ upload'[w] # None => upload[w] # None
                             /\ upload'[w].offset = upload[w].offset /\ upload'[w].data = upload[w].data
      BY <2>1, <2>3, <2>4
    <3>3. o.do = "append" => o.x.u \in Uploads
      BY <3>1 DEF UploadStmt, AppendArg
    <3>. QED
      BY <2>1, <3>1, <3>2, <3>3 DEF UploadStmt
  <2>8. UploadLists'
    BY <2>1, <2>7 DEF UploadLists
  <2>. QED
    BY <1>2, <2>1, <2>6, <2>8
<1>16. ASSUME NEW t \in Tasks, NEW u \in Uploads, upload_data(t, u) PROVE Preserved
  <2>0. PICK known : known = IF client[u] = None THEN upload[u].offset ELSE client[u]
    OBVIOUS
  <2>1. PICK x : x = [u |-> u, offset |-> upload[u].offset, body |-> NextChunk(known)]
    OBVIOUS
  <2>2. PICK o : o = Stmt("append", x)
    OBVIOUS
  <2>3. /\ upload[u] # None /\ (client[u] # None \/ Uploading(u))
        /\ UNCHANGED <<object, upload>> /\ client' = [client EXCEPT ![u] = None]
        /\ overlapped' = IF Uploading(u) THEN overlapped \cup {u} ELSE overlapped
    BY <1>16 DEF upload_data, Overlap, UploadLive, UploadExists
  <2>4. task' = [task EXCEPT ![t] = <<o>>]
    BY <1>16, <2>0, <2>1, <2>2 DEF upload_data, Begin, NextChunk
  <2>5. /\ upload[u] \in UploadRow /\ upload' \in [Uploads -> UploadRow \cup {None}] /\ client' \in [Uploads -> Nat \cup {None}]
        /\ client'[u] = None /\ \A w \in Uploads : w # u => upload'[w] = upload[w] /\ client'[w] = client[w]
    BY <2>3 DEF UploadRows
  <2>6. overlapped \subseteq overlapped' /\ (u \in overlapped' \/ \A v \in Tasks : ~Handling(task[v], u))
    BY <1>1, <2>3
  <2>7. u \notin overlapped' => /\ upload[u].offset <= UploadSize /\ upload[u].data = Chunks(upload[u].offset)
                                /\ known = upload[u].offset
    BY <2>0, <2>3, <2>6 DEF UploadRows
  <2>8. UploadRows'
    BY <1>11, <2>3, <2>5, <2>6, <2>7
  <2>9. o.do = "append" /\ o.x = x /\ x.u = u /\ x.offset = upload[u].offset /\ x.body = NextChunk(known)
    BY <1>8, <2>1, <2>2
  <2>10. x \in AppendArg
    <3>1. upload[u].offset \in Nat /\ known \in Nat
      BY <2>0, <2>5 DEF UploadRow, UploadRows
    <3>2. NextChunk(known) \in Seq(Nat)
      BY <3>1 DEF NextChunk
    <3>. QED
      BY <2>1, <3>1, <3>2 DEF AppendArg
  <2>11. UploadStmt(o, upload', overlapped')
    BY <2>3, <2>7, <2>9, <2>10 DEF UploadStmt
  <2>12. \A v \in Tasks : \A s \in Elems(task[v]) : UploadStmt(s, upload', overlapped')
    BY <2>3, <2>6 DEF UploadLists, UploadStmt
  <2>13. Lone(<<o>>) /\ <<o>> \in Seq({o}) /\ Elems(<<o>>) = {o} /\ \A w : Handling(<<o>>, w) => w = u
    BY <1>7, <2>9 DEF Lone, Handling, Handles
  <2>14. \A w \in Uploads \ overlapped' : client'[w] # None => w # u /\ \A v \in Tasks : ~Handling(task[v], w)
    BY <2>5, <2>6 DEF UploadLists
  <2>15. PICK new : new = <<o>>
    OBVIOUS
  <2>16. UploadLists'
    <3>1. new \in Seq({o}) /\ Lone(new) /\ (\A s \in Elems(new) : UploadStmt(s, upload', overlapped'))
      BY <2>11, <2>13, <2>15
    <3>2. \A w : Handling(new, w) => w = u
      BY <2>13, <2>15
    <3>3. \A w \in Uploads \ overlapped' : Handling(new, w) => \A v \in Tasks : ~Handling(task[v], w)
      BY <2>6, <3>2
    <3>4. \A w \in Uploads \ overlapped' : client'[w] # None => ~Handling(new, w) /\ \A v \in Tasks : v # t => ~Handling(task[v], w)
      BY <2>14, <3>2
    <3>. QED
      BY <2>4, <2>6, <2>12, <2>15, <3>1, <3>3, <3>4, UploadListStep
  <2>. QED
    BY <1>2, <2>3, <2>6, <2>8, <2>16
<1>17. ASSUME NEW t \in Tasks, FileRequest(t) PROVE Preserved
  <2>1. ASSUME NEW f, FileAges(f) PROVE Preserved
    BY <1>5, <2>1 DEF FileAges, Statement
  <2>2. ASSUME NEW e, delete_emoji(e) PROVE Preserved
    BY <1>5, <2>2 DEF delete_emoji, Statement
  <2>3. ASSUME NEW m, MessageAges(m) PROVE Preserved
    BY <1>5, <2>3 DEF MessageAges, Statement
  <2>4. ASSUME NEW messages, NEW files, run_retention_cleanup(messages, files) PROVE Preserved
    BY <1>5, <2>4 DEF run_retention_cleanup, Statement
  <2>. HIDE DEF Preserved
  <2>. QED
    BY <1>9, <1>10, <1>13, <1>14, <1>15, <1>16, <1>17, <2>1, <2>2, <2>3, <2>4 DEF FileRequest
<1>18. ASSUME NEW t \in Tasks, Busy(t), Continue(t, <<>>) \/ GiveUp(t) \/ Interrupted(t), Resting, UploadIsExact' PROVE Preserved
  BY <1>4, <1>18, UploadStops
<1>19. ASSUME NEW t \in Tasks, Interrupted(t), UNCHANGED FileVars PROVE Preserved
  <2>1. Busy(t) /\ Resting /\ object' = object
    BY <1>19 DEF Interrupted, FileVars
  <2>2. UploadIsExact'
    BY <1>2, <2>1
  <2>. QED
    BY <1>18, <1>19, <2>1, <2>2
<1>20. ASSUME NEW t \in Tasks, Busy(t), NEW o, o = Head(task[t]), FileStep(t, o) PROVE Preserved
  <2>1. /\ o \in Elems(task[t]) /\ UploadStmt(o, upload, overlapped)
        /\ o.do \in {"append", "complete"} => task[t] = <<o>> /\ Tail(task[t]) = <<>>
    <3>1. PICK S : task \in [Tasks -> Seq(S)]
      BY DEF UploadLists
    <3>2. <<>> \in Seq(S)
      OBVIOUS
    <3>3. o \in Elems(task[t])
      BY <1>20, <3>1, <3>2, TaskLists DEF Todo
    <3>4. Lone(task[t]) /\ UploadStmt(o, upload, overlapped)
      BY <3>3 DEF UploadLists
    <3>5. Tail(<<o>>) = <<>>
      OBVIOUS
    <3>. QED
      BY <3>3, <3>4, <3>5 DEF Lone
  <2>2. CASE PutThumbnail(t, o) \/ PutPreview(t, o) \/ PutEmoji(t, o) \/ PutAvatar(t, o)
    <3>1. Resting /\ Continue(t, <<>>)
      BY <2>2 DEF PutThumbnail, PutPreview, PutEmoji, PutAvatar
    <3>2. PICK kind \in {"thumb", "preview", "emoji", "avatar"} : (\E x : S3_upload(Key(kind, x), None)) \/ object' = object
      BY <2>2 DEF PutThumbnail, PutPreview, PutEmoji, PutAvatar
    <3>3. ASSUME NEW x, S3_upload(Key(kind, x), None) PROVE UploadIsExact'
      <4>1. PICK k : k = Key(kind, x)
        OBVIOUS
      <4>2. k[1] # "file"
        BY <4>1 DEF Key
      <4>3. S3_upload(k, None)
        BY <3>3, <4>1
      <4>. QED
        BY <1>3, <3>1, <4>2, <4>3
    <3>4. object' = object => UploadIsExact'
      BY <1>2, <3>1
    <3>. QED
      BY <1>18, <1>20, <3>1, <3>2, <3>3, <3>4
  <2>3. CASE PutObject(t, o)
    <3>1. PICK d, k : d = [from |-> None, data |-> Whole] /\ k = Key("file", o.x)
      OBVIOUS
    <3>2. Resting /\ Continue(t, <<>>) /\ S3_upload(k, d) /\ d.data = Whole
      BY <2>3, <3>1 DEF PutObject
    <3>3. UploadIsExact'
      BY <1>3, <3>2
    <3>. QED
      BY <1>18, <1>20, <3>2, <3>3
  <2>4. CASE InsertFile(t, o) \/ SetThumbnail(t, o) \/ DeleteObject(t, o) \/ DeleteFile(t, o) \/ SetAvatar(t, o) \/ InsertEmoji(t, o)
    <3>1. /\ Resting /\ (Continue(t, <<>>) \/ GiveUp(t))
          /\ object' = object \/ \E k : S3_delete(k)
      BY <2>4 DEF InsertFile, SetThumbnail, DeleteObject, DeleteFile, SetAvatar, InsertEmoji
    <3>2. UploadIsExact'
      BY <1>2, <3>1
    <3>. QED
      BY <1>18, <1>20, <3>1, <3>2
  <2>5. CASE CompleteUpload(t, o)
    <3>1. o.do = "complete" /\ Resting
      BY <2>5 DEF CompleteUpload
    <3>2. CASE GiveUp(t) /\ object' = object
      <4>1. UploadIsExact'
        BY <1>2, <3>1, <3>2
      <4>. QED
        BY <1>18, <1>20, <3>1, <3>2, <4>1
    <3>3. ASSUME NEW f, UploadExists(o.x.u), S3_upload(Key("file", f), [from |-> o.x.u, data |-> upload[o.x.u].data]),
                 Continue(t, Tail(StoreThenInsert(f)) \o <<Stmt("forget_upload", [u |-> o.x.u])>>)
          PROVE  Preserved
      <4>1. PICK d, key : d = [from |-> o.x.u, data |-> upload[o.x.u].data] /\ key = Key("file", f)
        OBVIOUS
      <4>2. S3_upload(key, d) /\ d.from = o.x.u /\ d.data = upload[o.x.u].data
        BY <3>3, <4>1
      <4>3. d.from \notin overlapped => d.data = Whole
        BY <2>1, <3>1, <3>3, <4>2 DEF UploadStmt, UploadExists
      <4>4. UploadIsExact'
        BY <1>3, <3>1, <4>2, <4>3
      <4>5. PICK p, q, r, k : /\ p = Stmt("thumb", f) /\ q = Stmt("preview", f) /\ r = Stmt("insert_file", f)
                              /\ k = Stmt("forget_upload", [u |-> o.x.u])
        OBVIOUS
      <4>6. PICK A, a, b : A = {p, q, r, k} /\ a = Tail(StoreThenInsert(f)) /\ b = <<k>>
        OBVIOUS
      <4>7. a \in Seq(A) /\ b \in Seq(A)
        BY <4>5, <4>6 DEF StoreThenInsert
      <4>8. PICK new : new = a \o b
        OBVIOUS
      <4>9. new \in Seq(A) /\ Elems(new) \subseteq A
        <5>1. \A x \in Seq(A) : Elems(x) \subseteq A
          BY DEF Elems
        <5>. QED
          BY <4>7, <4>8, <5>1, JoinedPlaces
      <4>10. task' = [task EXCEPT ![t] = new]
        <5>1. Continue(t, new)
          BY <3>3, <4>5, <4>6, <4>8
        <5>2. new \o <<>> = new
          BY <4>9
        <5>. QED
          BY <2>1, <3>1, <5>1, <5>2 DEF Continue
      <4>11. /\ \A s \in A : s.do \notin {"append", "complete"}
             /\ \A s \in A : s.do = "forget_upload" => s.x.u = o.x.u
        BY <1>8, <4>5, <4>6
      <4>12. Lone(new) /\ (\A s \in Elems(new) : UploadStmt(s, upload', overlapped')) /\ \A w : Handling(new, w) => w = o.x.u
        BY <4>9, <4>11 DEF Lone, UploadStmt, Handling, Handles
      <4>13. Handling(task[t], o.x.u)
        BY <2>1, <3>1 DEF Handling, Handles
      <4>14. \A w : Handling(new, w) => Handling(task[t], w)
        BY <4>12, <4>13
      <4>15. \A w \in Uploads \ overlapped' : client'[w] # None => \A v \in Tasks : ~Handling(task[v], w)
        BY <3>1 DEF UploadLists
      <4>16. \A w \in Uploads \ overlapped' : client'[w] # None => ~Handling(new, w)
        BY <4>14, <4>15
      <4>17. \A v \in Tasks : \A s \in Elems(task[v]) : UploadStmt(s, upload', overlapped')
        BY <3>1 DEF UploadLists
      <4>18. UploadLists'
        BY <3>1, <4>9, <4>10, <4>12, <4>14, <4>15, <4>16, <4>17, UploadListStep
      <4>. QED
        BY <1>4, <3>1, <4>4, <4>18
    <3>. QED
      BY <2>5, <3>2, <3>3 DEF CompleteUpload
  <2>6. CASE ForgetUpload(t, o)
    <3>1. /\ o.do = "forget_upload" /\ Continue(t, <<>>) /\ upload' = [upload EXCEPT ![o.x.u] = None]
          /\ UNCHANGED <<object, client, overlapped>>
      BY <2>6 DEF ForgetUpload
    <3>2. upload' \in [Uploads -> UploadRow \cup {None}] /\ \A w \in Uploads : upload'[w] = None \/ upload'[w] = upload[w]
      BY <3>1 DEF UploadRows
    <3>3. UploadRows'
      BY <3>1, <3>2 DEF UploadRows
    <3>4. PICK S : task \in [Tasks -> Seq(S)]
      BY DEF UploadLists
    <3>5. PICK new : new = Tail(task[t])
      OBVIOUS
    <3>6. new \in Seq(S) /\ task' = [task EXCEPT ![t] = new] /\ Elems(new) \subseteq Elems(task[t])
      <4>1. new \in Seq(S) /\ <<>> \o new = new /\ <<>> \in Seq(S)
        BY <1>20, <3>4, <3>5 DEF Busy
      <4>2. Elems(new) \subseteq Elems(task[t])
        <5>1. Todo(t) = {Head(task[t])} \cup Elems(Tail(task[t]))
          BY <1>20, <3>4, <4>1, TaskLists
        <5>. QED
          BY <3>5, <5>1 DEF Todo
      <4>. QED
        BY <3>1, <3>5, <4>1, <4>2 DEF Continue
    <3>7. Lone(new)
      <4>1. ASSUME NEW s \in Elems(new), s.do \in {"append", "complete"} PROVE FALSE
        <5>1. task[t] = <<s>>
          BY <3>6, <4>1 DEF UploadLists, Lone
        <5>2. s = o
          BY <1>20, <5>1
        <5>. QED
          BY <3>1, <4>1, <5>2
      <4>. QED
        BY <4>1 DEF Lone
    <3>8. \A v \in Tasks : \A s \in Elems(task[v]) : UploadStmt(s, upload', overlapped')
      <4>1. ASSUME NEW v \in Tasks, NEW s \in Elems(task[v]) PROVE UploadStmt(s, upload', overlapped')
        <5>1. UploadStmt(s, upload, overlapped)
          BY DEF UploadLists
        <5>2. s.do = "append" => s.x.u \in Uploads
          BY <5>1 DEF UploadStmt, AppendArg
        <5>. QED
          BY <3>1, <3>2, <5>1, <5>2 DEF UploadStmt
      <4>. QED
        BY <4>1
    <3>9. \A w : Handling(new, w) => Handling(task[t], w)
      BY <3>6 DEF Handling
    <3>10. \A w \in Uploads \ overlapped' : client'[w] # None => \A v \in Tasks : ~Handling(task[v], w)
      BY <3>1 DEF UploadLists
    <3>11. UploadLists'
      BY <3>1, <3>6, <3>7, <3>8, <3>9, <3>10, UploadListStep
    <3>. QED
      BY <1>2, <3>1, <3>3, <3>11
  <2>7. CASE AppendData(t, o)
    <3>1. o.do = "append" /\ UNCHANGED <<object, overlapped>>
      BY <2>7 DEF AppendData
    <3>2. UploadIsExact'
      BY <1>2, <3>1
    <3>3. CASE UNCHANGED <<upload, client>> /\ (GiveUp(t) \/ Continue(t, <<>>))
      BY <1>18, <1>20, <3>1, <3>2, <3>3
    <3>4. PICK u, n : u = o.x.u /\ n = o.x.offset + Len(o.x.body)
      OBVIOUS
    <3>5. CASE /\ upload[u] # None
               /\ upload' = [upload EXCEPT ![u].offset = n, ![u].data = @ \o o.x.body]
               /\ \/ n >= UploadSize /\ Continue(t, <<Stmt("complete", [u |-> u])>>) /\ UNCHANGED client
                  \/ Continue(t, <<>>) /\ client' = [client EXCEPT ![u] = n]
      <4>1. /\ u \in Uploads /\ o.x.offset \in Nat /\ o.x.body \in Seq(Nat) /\ n \in Nat
            /\ u \notin overlapped => o.x.offset = upload[u].offset /\ o.x.body = NextChunk(o.x.offset)
        <5>1. o.x \in AppendArg /\ (u \notin overlapped => o.x.offset = upload[u].offset /\ o.x.body = NextChunk(o.x.offset))
          BY <2>1, <3>1, <3>4, <3>5 DEF UploadStmt
        <5>2. u \in Uploads /\ o.x.offset \in Nat /\ o.x.body \in Seq(Nat)
          BY <3>4, <5>1 DEF AppendArg
        <5>. QED
          BY <3>4, <5>1, <5>2
      <4>2. PICK r : r = [upload[u] EXCEPT !.offset = n, !.data = upload[u].data \o o.x.body]
        OBVIOUS
      <4>3. upload[u] \in UploadRow /\ r \in UploadRow /\ r.offset = n /\ r.data = upload[u].data \o o.x.body
        <5>1. upload[u] \in UploadRow
          BY <3>5, <4>1 DEF UploadRows
        <5>2. upload[u].data \o o.x.body \in Seq(Nat)
          BY <4>1, <5>1 DEF UploadRow
        <5>. QED
          BY <4>1, <4>2, <5>1, <5>2 DEF UploadRow
      <4>4. /\ upload' \in [Uploads -> UploadRow \cup {None}] /\ client' \in [Uploads -> Nat \cup {None}] /\ upload'[u] = r
            /\ \A w \in Uploads : w # u => upload'[w] = upload[w] /\ client'[w] = client[w]
        <5>1. PICK b, d : b = o.x.body /\ d = upload[u].data \o b
          OBVIOUS
        <5>2. upload = [w \in Uploads |-> upload[w]] /\ u \in Uploads
          BY <4>1 DEF UploadRows
        <5>3. upload' = [upload EXCEPT ![u].offset = n, ![u].data = @ \o b]
          BY <3>5, <5>1
        <5>4. DOMAIN upload' = Uploads /\ (\A w \in Uploads : w # u => upload'[w] = upload[w])
          BY <5>2, <5>3
        <5>5. upload'[u] = [upload[u] EXCEPT !.offset = n, !.data = @ \o b]
          BY <5>2, <5>3
        <5>6. upload'[u] = r
          BY <4>2, <4>3, <5>1, <5>5 DEF UploadRow
        <5>7. upload' \in [Uploads -> UploadRow \cup {None}]
          <6>1. upload' = [w \in Uploads |-> upload'[w]]
            BY <5>2, <5>3
          <6>2. \A w \in Uploads : upload'[w] \in UploadRow \cup {None}
            BY <4>3, <5>4, <5>6 DEF UploadRows
          <6>. QED
            BY <6>1, <6>2
        <5>8. client' \in [Uploads -> Nat \cup {None}] /\ \A w \in Uploads : w # u => client'[w] = client[w]
          BY <3>5, <4>1 DEF UploadRows
        <5>. QED
          BY <5>4, <5>6, <5>7, <5>8
      <4>5. Handling(task[t], u)
        BY <2>1, <3>1, <3>4 DEF Handling, Handles
      <4>6. u \notin overlapped => client[u] = None /\ \A v \in Tasks : v # t => ~Handling(task[v], u)
        BY <4>1, <4>5 DEF UploadLists
      <4>7. u \notin overlapped => n <= UploadSize /\ r.data = Chunks(n) /\ (n >= UploadSize => r.data = Whole)
        <5>1. ASSUME u \notin overlapped PROVE n <= UploadSize /\ r.data = Chunks(n) /\ (n >= UploadSize => r.data = Whole)
          <6>1. PICK m \in Nat : m = upload[u].offset
            BY <4>3 DEF UploadRow
          <6>2. m <= UploadSize /\ upload[u].data = Chunks(m)
            BY <3>5, <4>1, <5>1, <6>1 DEF UploadRows
          <6>3. n = m + Len(NextChunk(m)) /\ r.data = Chunks(m) \o NextChunk(m)
            BY <3>4, <4>1, <4>3, <5>1, <6>1, <6>2
          <6>. QED
            BY <6>2, <6>3, NextChunks
        <5>. QED
          BY <5>1
      <4>8. PICK k : k = Stmt("complete", [u |-> u])
        OBVIOUS
      <4>9. k.do = "complete" /\ k.x.u = u
        BY <1>8, <4>8
      <4>10. PICK new : /\ task' = [task EXCEPT ![t] = new]
                        /\ \/ new = <<k>> /\ n >= UploadSize /\ client' = client
                           \/ new = <<>> /\ client'[u] = n
        <5>1. Tail(task[t]) = <<>> /\ <<k>> \o <<>> = <<k>> /\ <<>> \o <<>> = <<>>
          BY <2>1, <3>1
        <5>2. client' = [client EXCEPT ![u] = n] => client'[u] = n
          BY <4>1 DEF UploadRows
        <5>. QED
          BY <3>5, <4>8, <5>1, <5>2 DEF Continue
      <4>11. UploadRows'
        BY <1>11, <3>1, <4>1, <4>3, <4>4, <4>6, <4>7, <4>10
      <4>12. new \in Seq({k}) /\ Elems(new) \subseteq {k} /\ (Elems(new) # {} => new = <<k>>)
        BY <4>10, ShortLists
      <4>13. Lone(new) /\ (\A s \in Elems(new) : UploadStmt(s, upload', overlapped')) /\ \A w : Handling(new, w) => w = u /\ new = <<k>>
        <5>1. new = <<k>> => UploadStmt(k, upload', overlapped')
          <6>1. <<k>> # <<>>
            OBVIOUS
          <6>. QED
            BY <3>1, <4>1, <4>4, <4>7, <4>9, <4>10, <6>1 DEF UploadStmt
        <5>. QED
          BY <4>9, <4>12, <5>1 DEF Lone, Handling, Handles
      <4>14. ASSUME NEW v \in Tasks, v # t, NEW s \in Elems(task[v]) PROVE UploadStmt(s, upload', overlapped')
        <5>1. UploadStmt(s, upload, overlapped)
          BY DEF UploadLists
        <5>2. s.do \in {"append", "complete"} /\ s.x.u = u => u \in overlapped
          BY <4>6, <4>14 DEF Handling, Handles
        <5>3. s.do = "append" => s.x.u \in Uploads
          BY <5>1 DEF UploadStmt, AppendArg
        <5>4. s.do = "append" =>
                 /\ s.x \in AppendArg
                 /\ s.x.u \notin overlapped' /\ upload'[s.x.u] # None =>
                       s.x.offset = upload'[s.x.u].offset /\ s.x.body = NextChunk(s.x.offset)
          BY <3>1, <4>4, <5>1, <5>2, <5>3 DEF UploadStmt
        <5>5. s.do = "complete" =>
                 s.x.u \in Uploads /\ (s.x.u \notin overlapped' /\ upload'[s.x.u] # None => upload'[s.x.u].data = Whole)
          BY <3>1, <4>4, <5>1, <5>2 DEF UploadStmt
        <5>. QED
          BY <5>4, <5>5 DEF UploadStmt
      <4>15. \A w : Handling(new, w) => Handling(task[t], w)
        BY <4>5, <4>13
      <4>16. ASSUME NEW w \in Uploads \ overlapped', client'[w] # None
             PROVE  ~Handling(new, w) /\ \A v \in Tasks : v # t => ~Handling(task[v], w)
        <5>1. CASE w # u
          <6>1. client[w] # None /\ w \in Uploads \ overlapped
            BY <3>1, <4>4, <4>16, <5>1
          <6>. QED
            BY <4>13, <5>1, <6>1 DEF UploadLists
        <5>2. CASE w = u
          <6>1. u \notin overlapped /\ client[u] = None /\ <<k>> # <<>>
            BY <3>1, <4>6, <5>2
          <6>2. new = <<>>
            BY <4>10, <4>16, <5>2, <6>1
          <6>. QED
            BY <4>6, <4>13, <5>2, <6>1, <6>2
        <5>. QED
          BY <5>1, <5>2
      <4>17. UploadLists'
        BY <3>1, <4>10, <4>12, <4>13, <4>14, <4>15, <4>16, UploadListStep
      <4>. QED
        BY <3>2, <4>11, <4>17
    <3>. QED
      BY <2>7, <3>3, <3>4, <3>5 DEF AppendData, UploadExists
  <2>. HIDE DEF Preserved
  <2>. QED
    BY <1>20, <2>2, <2>3, <2>4, <2>5, <2>6, <2>7 DEF FileStep
<1>. HIDE DEF Preserved
<1>21. Preserved
  BY <1>17, <1>19, <1>20 DEF FileStoreNext
<1>. QED
  BY <1>21 DEF Preserved

\* What a resumable upload stores is the file, each chunk once and in its place, for any number of uploads,
\* chunks and requests cut short, as long as a session had one request at a time (uploads.rs, upload_data).
THEOREM UploadIsExactAlways == WorkspaceSpec => []UploadIsExact
<1>1. WorkspaceInit => UploadInv
  BY UploadInvInit DEF WorkspaceInit, UploadInv
<1>2. UploadInv /\ [WorkspaceNext]_WorkspaceVars => UploadInv'
  <2>. SUFFICES ASSUME UploadInv, [WorkspaceNext]_WorkspaceVars PROVE UploadInv'
    OBVIOUS
  <2>1. area' = area
    BY AreaSteps
  <2>2. CASE UNCHANGED FileVars /\ (area # "files" \/ UNCHANGED RequestVars)
    <3>1. UploadRows' /\ UploadIsExact'
      BY <2>2 DEF UploadInv, UploadRows, UploadIsExact, FileVars
    <3>2. area = "files" => UploadLists'
      BY <2>2 DEF UploadInv, UploadLists, FileVars, RequestVars
    <3>. QED
      BY <2>1, <3>1, <3>2 DEF UploadInv
  <2>3. CASE area = "files" /\ FileStoreNext
    BY <2>1, <2>3, UploadInvNext DEF UploadInv
  <2>. QED
    BY <2>2, <2>3, AreaSteps
<1>3. UploadInv => UploadIsExact
  BY DEF UploadInv
<1>. QED
  BY <1>1, <1>2, <1>3, PTL DEF WorkspaceSpec

-----------------------------------------------------------------------------
(* The sidebar. *)

\* A set of numbers has a least element.
LEMMA LeastIsThere == ASSUME NEW I \in SUBSET Nat, I # {} PROVE Min(I) \in I
<1>1. PICK R : R = OpToRel(<, Nat)
  OBVIOUS
<1>2. IsWellFoundedOn(R, Nat)
  BY <1>1, NatLessThanWellFounded
<1>3. PICK x \in I : \A y \in I : ~(<<y, x>> \in R)
  BY <1>2, WFMin
<1>4. \A y \in I : x <= y
  <2>1. \A y \in I : y < x => <<y, x>> \in R
    BY <1>1 DEF OpToRel
  <2>2. x \in Nat /\ \A y \in I : y \in Nat
    OBVIOUS
  <2>3. \A y \in I : ~(y < x)
    BY <1>3, <2>1
  <2>. QED
    BY <2>2, <2>3
<1>. QED
  BY <1>3, <1>4 DEF Min

\* The category that orphaned channels go to is one of the answer.
LEMMA IndexIsThere ==
    ASSUME NEW S, NEW order \in Seq(S), NEW kind, NEW otherwise \in 1..Len(order)
    PROVE  category_index_by_type_or_name(order, kind, otherwise) \in 1..Len(order)
<1>1. PICK I : I = {i \in 1..Len(order) : cat[order[i]].kind = kind}
  OBVIOUS
<1>2. PICK n : n = IF I # {} THEN Min(I) ELSE 0
  OBVIOUS
<1>3. n = 0 \/ n \in 1..Len(order)
  <2>1. I \in SUBSET Nat /\ I \subseteq 1..Len(order)
    BY <1>1
  <2>. QED
    BY <1>2, <2>1, LeastIsThere
<1>4. category_index_by_type_or_name(order, kind, otherwise) = IF n = 0 THEN otherwise ELSE n
  BY <1>1, <1>2 DEF category_index_by_type_or_name, SelectInSeq
<1>. QED
  BY <1>3, <1>4

\* A reader has at least one category and, category by category, their mappings.
Reader(x) == x.order \in Seq(Categories) /\ x.order # <<>> /\ x.got \in Seq(SUBSET SidebarChannels)
SidebarStmt(o) == /\ o.do = "mappings" => Reader(o.x) /\ Len(o.x.got) < Len(o.x.order)
                  /\ o.do = "candidates" => Reader(o.x) /\ Len(o.x.got) = Len(o.x.order)
SidebarLists == \E S : task \in [Tasks -> Seq(S)] /\ \A o \in S : SidebarStmt(o)
SidebarInv == joined \subseteq SidebarChannels /\ SidebarShowsAll /\ (area = "sidebar" => SidebarLists)

\* A request begins, goes on or ends.
LEMMA SidebarGoesOn ==
    ASSUME SidebarLists, NEW t \in Tasks, NEW T, NEW more \in Seq(T), \A o \in T : SidebarStmt(o),
           Begin(t, more) \/ (Busy(t) /\ Continue(t, more)) \/ GiveUp(t) \/ Interrupted(t)
    PROVE  SidebarLists'
<1>1. PICK S : task \in [Tasks -> Seq(S)] /\ \A o \in S : SidebarStmt(o)
  BY DEF SidebarLists
<1>2. PICK A : A = S \cup T
  OBVIOUS
<1>3. task \in [Tasks -> Seq(A)] /\ more \in Seq(A)
  <2>1. \A B, C : B \subseteq C => \A k \in Seq(B) : k \in Seq(C)
    OBVIOUS
  <2>. QED
    BY <1>1, <1>2, <2>1
<1>4. task' \in [Tasks -> Seq(A)]
  BY <1>3, TaskLists
<1>5. \A o \in A : SidebarStmt(o)
  BY <1>1, <1>2
<1>6. (\A o \in A : SidebarStmt(o)) => (\A o \in A : SidebarStmt(o)')
  BY DEF SidebarStmt, Reader, SidebarChannels
<1>. QED
  BY <1>4, <1>5, <1>6 DEF SidebarLists

\* The answer shows every channel of the user.
LEMMA AnswerShowsAll ==
    ASSUME joined \subseteq SidebarChannels, NEW x, Reader(x), Len(x.got) = Len(x.order),
           AnswerWith(backfill_orphaned_channels(x.order, x.got, UNION Range(x.got)))
    PROVE  SidebarShowsAll'
<1>1. PICK order, got, n : order = x.order /\ got = x.got /\ n = Len(x.order)
  OBVIOUS
<1>2. /\ order \in Seq(Categories) /\ n \in Nat \ {0} /\ DOMAIN order = 1..n /\ Len(order) = n
      /\ got \in Seq(SUBSET SidebarChannels) /\ DOMAIN got = 1..n
  BY <1>1 DEF Reader
<1>3. PICK c, d : /\ c = category_index_by_type_or_name(order, "channels", 1)
                  /\ d = category_index_by_type_or_name(order, "direct_messages", c)
  OBVIOUS
<1>4. c \in 1..n /\ d \in 1..n
  <2>1. 1 \in 1..Len(order)
    BY <1>2
  <2>2. c \in 1..Len(order)
    BY <1>2, <1>3, <2>1, IndexIsThere
  <2>. QED
    BY <1>2, <1>3, <2>2, IndexIsThere
<1>5. PICK assigned, shown : assigned = UNION Range(got) /\ shown = backfill_orphaned_channels(order, got, assigned)
  OBVIOUS
<1>6. /\ DOMAIN shown = 1..n /\ \A i \in 1..n : got[i] \subseteq shown[i]
      /\ (joined \cap Streams) \ assigned \subseteq shown[c] /\ (joined \cap Directs) \ assigned \subseteq shown[d]
  <2>1. shown = [i \in 1..n |-> got[i] \cup (IF i = c THEN (joined \cap Streams) \ assigned ELSE {})
                                       \cup (IF i = d THEN (joined \cap Directs) \ assigned ELSE {})]
    BY <1>2, <1>3, <1>5 DEF backfill_orphaned_channels, get_sidebar_candidate_channels
  <2>. QED
    BY <1>4, <2>1
<1>7. ASSUME NEW ch \in joined PROVE \E i \in 1..n : ch \in shown[i]
  <2>1. CASE ch \in assigned
    <3>1. PICK i \in 1..n : ch \in got[i]
      BY <1>2, <1>5, <2>1 DEF Range
    <3>. QED
      BY <1>6, <3>1
  <2>2. CASE ch \notin assigned
    <3>1. ch \in Streams \/ ch \in Directs
      BY DEF SidebarChannels
    <3>. QED
      BY <1>4, <1>6, <2>2, <3>1
  <2>. QED
    BY <2>1, <2>2
<1>8. sidebar' = [shows |-> UNION Range(shown), candidates |-> joined]
  BY <1>1, <1>5 DEF AnswerWith
<1>9. joined \subseteq UNION Range(shown)
  BY <1>6, <1>7 DEF Range
<1>. QED
  BY <1>8, <1>9 DEF SidebarShowsAll

\* What keeps the sidebar whole survives every step of the area.
LEMMA SidebarInvNext ==
    ASSUME joined \subseteq SidebarChannels, SidebarShowsAll, SidebarLists, SidebarNext
    PROVE  joined' \subseteq SidebarChannels /\ SidebarShowsAll' /\ SidebarLists'
<1>. DEFINE Preserved == joined' \subseteq SidebarChannels /\ SidebarShowsAll' /\ SidebarLists'
            Resting == UNCHANGED <<joined, sidebar>>
<1>1. Resting => joined' \subseteq SidebarChannels /\ SidebarShowsAll'
  BY DEF SidebarShowsAll
<1>2. task' = task => SidebarLists'
  BY DEF SidebarLists
<1>3. \A a, x : Stmt(a, x).do = a /\ Stmt(a, x).x = x
  BY DEF Stmt
<1>4. \A a, x : a \notin {"mappings", "candidates"} => SidebarStmt(Stmt(a, x))
  BY <1>3 DEF SidebarStmt
<1>5. /\ <<>> \in Seq({})
      /\ \A o : <<o>> \in Seq({o})
      /\ \A o, p : <<o, p>> \in Seq({o, p})
  OBVIOUS
<1>6. ASSUME NEW t \in Tasks, (Busy(t) /\ Continue(t, <<>>)) \/ GiveUp(t) \/ Interrupted(t) PROVE SidebarLists'
  <2>1. PICK T, more : T = {} /\ more = <<>>
    OBVIOUS
  <2>2. more \in Seq(T) /\ \A o \in T : SidebarStmt(o)
    BY <1>5, <2>1
  <2>3. (Busy(t) /\ Continue(t, more)) \/ GiveUp(t) \/ Interrupted(t)
    BY <1>6, <2>1
  <2>. QED
    BY <2>2, <2>3, SidebarGoesOn
<1>7. ASSUME NEW t \in Tasks, NEW o, SidebarStmt(o), Begin(t, <<o>>) \/ (Busy(t) /\ Continue(t, <<o>>)) PROVE SidebarLists'
  <2>1. PICK T, more : T = {o} /\ more = <<o>>
    OBVIOUS
  <2>2. more \in Seq(T) /\ \A s \in T : SidebarStmt(s)
    BY <1>5, <1>7, <2>1
  <2>3. Begin(t, more) \/ (Busy(t) /\ Continue(t, more))
    BY <1>7, <2>1
  <2>. QED
    BY <2>2, <2>3, SidebarGoesOn
<1>8. ASSUME NEW t \in Tasks, get_categories_internal(t) PROVE Preserved
  <2>1. joined' = joined
    BY <1>8 DEF get_categories_internal
  <2>2. CASE get_default_categories /\ Statement
    <3>1. sidebar' = [shows |-> UNION Range(<<joined>>), candidates |-> joined] /\ task' = task
      BY <2>2 DEF get_default_categories, get_sidebar_candidate_channels, AnswerWith, Statement
    <3>2. UNION Range(<<joined>>) = joined
      BY DEF Range
    <3>. QED
      BY <1>2, <2>1, <3>1, <3>2 DEF SidebarShowsAll
  <2>3. ASSUME LiveCategories # {}, NEW order \in sort_category_rows(LiveCategories),
               Begin(t, <<Stmt("mappings", [order |-> order, got |-> <<>>])>>), UNCHANGED sidebar
        PROVE  Preserved
    <3>1. LiveCategories \subseteq Categories /\ IsFiniteSet(LiveCategories)
      BY SidebarAssumption, FS_Subset DEF LiveCategories
    <3>2. PICK n \in Nat \ {0} : n = Cardinality(LiveCategories)
      BY <2>3, <3>1, FS_CardinalityType, FS_EmptySet
    <3>3. order \in [1..n -> LiveCategories]
      BY <2>3, <3>2 DEF sort_category_rows, SetToSeqs
    <3>4. order \in Seq(Categories) /\ order # <<>> /\ Len(order) = n
      BY <3>1, <3>3
    <3>5. PICK x, o : x = [order |-> order, got |-> <<>>] /\ o = Stmt("mappings", x)
      OBVIOUS
    <3>6. Reader(x) /\ Len(x.got) = 0 /\ Len(x.order) = n
      BY <3>4, <3>5 DEF Reader
    <3>7. SidebarStmt(o) /\ Begin(t, <<o>>)
      BY <1>3, <2>3, <3>5, <3>6 DEF SidebarStmt
    <3>. QED
      BY <1>1, <1>7, <2>1, <2>3, <3>7
  <2>. QED
    BY <1>8, <2>2, <2>3 DEF get_categories_internal
<1>9. ASSUME NEW t \in Tasks, NEW kind, create_category_internal(t, kind) PROVE Preserved
  <2>1. PICK x : Begin(t, <<Stmt("insert_category", x)>>) /\ Resting
    BY <1>9 DEF create_category_internal, SidebarVars
  <2>. QED
    BY <1>1, <1>4, <1>7, <2>1
<1>10. ASSUME NEW t \in Tasks, NEW c, delete_category(t, c) \/ \E chans : update_category(t, c, chans) PROVE Preserved
  <2>1. PICK a \in {"clear", "move"}, b \in {"soft_delete", "place"} : \E x, y : Begin(t, <<Stmt(a, x), Stmt(b, y)>>)
    BY <1>10 DEF delete_category, update_category
  <2>2. PICK o, p : Begin(t, <<o, p>>) /\ SidebarStmt(o) /\ SidebarStmt(p)
    BY <1>4, <2>1
  <2>3. Resting
    BY <1>10 DEF delete_category, update_category, SidebarVars
  <2>4. PICK T, more : T = {o, p} /\ more = <<o, p>>
    OBVIOUS
  <2>6. more \in Seq(T) /\ (\A s \in T : SidebarStmt(s)) /\ Begin(t, more)
    BY <1>5, <2>2, <2>4
  <2>5. SidebarLists'
    BY <2>6, SidebarGoesOn
  <2>. QED
    BY <1>1, <2>3, <2>5
<1>11. ASSUME NEW f, update_categories_internal(f) \/ update_category_order_internal(f) PROVE Preserved
  <2>1. Resting /\ task' = task
    BY <1>11 DEF update_categories_internal, update_category_order_internal, Statement
  <2>. QED
    BY <1>1, <1>2, <2>1
<1>12. ASSUME NEW ch \in SidebarChannels, MembershipChanges(ch) PROVE Preserved
  <2>1. joined' \subseteq joined \cup {ch} /\ sidebar' = sidebar /\ task' = task
    BY <1>12 DEF MembershipChanges, Statement
  <2>. QED
    BY <1>2, <2>1 DEF SidebarShowsAll
<1>13. ASSUME NEW t \in Tasks, Interrupted(t), UNCHANGED SidebarVars PROVE Preserved
  BY <1>1, <1>6, <1>13 DEF SidebarVars
<1>14. ASSUME NEW t \in Tasks, Busy(t), NEW o, o = Head(task[t]), SidebarStep(t, o) PROVE Preserved
  <2>1. SidebarStmt(o)
    <3>1. PICK S : task \in [Tasks -> Seq(S)] /\ \A q \in S : SidebarStmt(q)
      BY DEF SidebarLists
    <3>. QED
      BY <1>14, <3>1 DEF Busy
  <2>2. CASE ReadMappings(t, o)
    <3>1. PICK x, got : x = o.x /\ got = Append(o.x.got, Placed(o.x.order[Len(o.x.got) + 1]))
      OBVIOUS
    <3>2. PICK y, a : y = [x EXCEPT !.got = got] /\ a = IF Len(got) = Len(x.order) THEN "candidates" ELSE "mappings"
      OBVIOUS
    <3>3. /\ o.do = "mappings" /\ Resting /\ Continue(t, <<Stmt(a, y)>>)
      BY <2>2, <3>1, <3>2 DEF ReadMappings, SidebarVars
    <3>4. /\ x.order \in Seq(Categories) /\ x.order # <<>>
          /\ x.got \in Seq(SUBSET SidebarChannels) /\ Len(x.got) < Len(x.order)
      BY <2>1, <3>1, <3>3 DEF SidebarStmt, Reader
    <3>5. got \in Seq(SUBSET SidebarChannels) /\ Len(got) = Len(x.got) + 1
      <4>1. PICK m : m = Placed(x.order[Len(x.got) + 1])
        OBVIOUS
      <4>2. m \in SUBSET SidebarChannels
        BY <4>1 DEF Placed
      <4>3. got = Append(x.got, m)
        BY <3>1, <4>1
      <4>. QED
        BY <3>4, <4>2, <4>3
    <3>6. y.order = x.order /\ y.got = got
      BY <3>2, <3>4
    <3>7. SidebarStmt(Stmt(a, y))
      <4>1. Reader(y)
        BY <3>4, <3>5, <3>6 DEF Reader
      <4>2. a = "mappings" => Len(y.got) < Len(y.order)
        BY <3>2, <3>4, <3>5, <3>6
      <4>3. a = "candidates" => Len(y.got) = Len(y.order)
        BY <3>2, <3>6
      <4>. QED
        BY <1>3, <4>1, <4>2, <4>3 DEF SidebarStmt
    <3>. QED
      BY <1>1, <1>7, <1>14, <3>3, <3>7
  <2>3. CASE AnswerCategories(t, o)
    <3>1. /\ o.do = "candidates" /\ joined' = joined /\ Continue(t, <<>>)
          /\ AnswerWith(backfill_orphaned_channels(o.x.order, o.x.got, UNION Range(o.x.got)))
      BY <2>3 DEF AnswerCategories
    <3>2. Reader(o.x) /\ Len(o.x.got) = Len(o.x.order)
      BY <2>1, <3>1 DEF SidebarStmt
    <3>3. SidebarShowsAll'
      BY <3>1, <3>2, AnswerShowsAll
    <3>. QED
      BY <1>6, <1>14, <3>1, <3>3
  <2>4. CASE InsertCategory(t, o) \/ ClearCategory(t, o) \/ SoftDelete(t, o) \/ MoveMappings(t, o)
    <3>1. Resting /\ (Continue(t, <<>>) \/ GiveUp(t))
      BY <2>4 DEF InsertCategory, ClearCategory, SoftDelete, MoveMappings
    <3>. QED
      BY <1>1, <1>6, <1>14, <3>1
  <2>5. CASE PlaceChannel(t, o)
    <3>1. Resting /\ (Continue(t, <<>>) \/ GiveUp(t) \/ \E x : Continue(t, <<Stmt("place", x)>>))
      BY <2>5 DEF PlaceChannel
    <3>. QED
      BY <1>1, <1>4, <1>6, <1>7, <1>14, <3>1
  <2>. HIDE DEF Preserved
  <2>. QED
    BY <1>14, <2>2, <2>3, <2>4, <2>5 DEF SidebarStep
<1>. HIDE DEF Preserved
<1>15. ASSUME NEW t \in Tasks, SidebarRequest(t) PROVE Preserved
  BY <1>8, <1>9, <1>10, <1>11, <1>12, <1>15 DEF SidebarRequest
<1>16. Preserved
  BY <1>13, <1>14, <1>15 DEF SidebarNext
<1>. QED
  BY <1>16 DEF Preserved

\* The sidebar shows every channel of the user, for any number of categories and channels, whatever the
\* user's other devices do between its reads (user_sidebar_categories.rs, get_categories_internal).
THEOREM SidebarShowsAllAlways == WorkspaceSpec => []SidebarShowsAll
<1>1. WorkspaceInit => SidebarInv
  <2>. SUFFICES ASSUME RequestsInit, SidebarInit PROVE SidebarInv
    BY DEF WorkspaceInit
  <2>1. task \in [Tasks -> Seq({})] /\ \A o \in {} : SidebarStmt(o)
    BY DEF RequestsInit
  <2>. QED
    BY <2>1 DEF SidebarInit, SidebarInv, SidebarLists, SidebarShowsAll, NoSidebar
<1>2. SidebarInv /\ [WorkspaceNext]_WorkspaceVars => SidebarInv'
  <2>. SUFFICES ASSUME SidebarInv, [WorkspaceNext]_WorkspaceVars PROVE SidebarInv'
    OBVIOUS
  <2>1. area' = area
    BY AreaSteps
  <2>2. CASE UNCHANGED SidebarVars /\ (area # "sidebar" \/ UNCHANGED RequestVars)
    BY <2>1, <2>2 DEF SidebarInv, SidebarShowsAll, SidebarLists, SidebarVars, RequestVars
  <2>3. CASE area = "sidebar" /\ SidebarNext
    BY <2>1, <2>3, SidebarInvNext DEF SidebarInv
  <2>. QED
    BY <2>2, <2>3, AreaSteps
<1>3. SidebarInv => SidebarShowsAll
  BY DEF SidebarInv
<1>. QED
  BY <1>1, <1>2, <1>3, PTL DEF WorkspaceSpec

=============================================================================
