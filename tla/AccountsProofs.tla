--------------------------- MODULE AccountsProofs ---------------------------
(***************************************************************************)
(* Proofs about Accounts for any number of people, tokens, codes and       *)
(* concurrent requests: exchange codes implement SingleUse, passwordless   *)
(* registrations stay inactive until setup, and a spent verification token *)
(* has verified.                                                           *)
(***************************************************************************)
EXTENDS Accounts, TLAPS

(***************************************************************************)
(* What a task may have to do.  An account that is inserted without        *)
(* password and identity is not active.                                    *)
(***************************************************************************)
InsertRow == {r \in UserRow : Accepted(r) /\ (r.pw \/ r.sso \/ ~r.active)}
Grant == [oidc : BOOLEAN, admin : BOOLEAN, mobile : BOOLEAN, provisions : BOOLEAN]

Instruction ==
    [do : {"token", "setup", "login", "verified", "find", "delete", "wipe"}, p : People, x : {None}]
    \cup [do : {"insert"}, p : People, x : InsertRow]
    \cup [do : {"mail"}, p : People, x : Nat \ {0}]
    \cup [do : {"reset"}, p : People, x : ResetRow]
    \cup [do : {"reset_mail", "set"}, p : People, x : Resets]
    \cup [do : {"forget"}, p : People, x : States]
    \cup [do : {"provider"}, p : People, x : [s : States, mobile : BOOLEAN]]
    \cup [do : {"account", "link"}, p : People, x : Grant]
    \cup [do : {"code"}, p : People, x : [admin : BOOLEAN, challenge : BOOLEAN]]

\* A verification in its two statements; every other list goes without the first of them.
Verification(p, n) == <<Op("use", p, n), Op("verified", p, None)>>
Queue(list) == list \in Seq(Instruction) \/ \E p \in People, n \in Nat \ {0} : list = Verification(p, n)

\* A token that is going to be mailed or used has its row.
Backed(list, rows) == \A i \in 1 .. Len(list) : list[i].do \in {"reset_mail", "set"} => rows[list[i].x] # None

TasksInv ==
    /\ DOMAIN task = Tasks
    /\ \A t \in Tasks : Queue(task[t]) /\ Backed(task[t], reset)

UsersInv ==
    /\ user \in [People -> UserRow \cup {None}]
    /\ former \subseteq People /\ waiting \subseteq People /\ activated \subseteq People
    /\ \A p \in former : user[p] = None
    /\ \A p \in waiting : Exists(p) \/ p \in former
    /\ \A p \in People : Exists(p) =>
          /\ Accepted(user[p])
          /\ user[p].pw \/ user[p].sso \/ p \in waiting
          /\ p \in waiting /\ user[p].active => user[p].pw \/ p \in activated

TokensInv ==
    /\ reset \in [Resets -> ResetRow \cup {None}]
    /\ verify \in [People -> [n : Nat, used : BOOLEAN, mailed : BOOLEAN]]
    /\ \A p \in People : (verify[p].mailed \/ verify[p].used => verify[p].n > 0) /\ (verify[p].n > 0 => Exists(p))
    /\ provider \in ProviderRow \cup {None}

\* As long as nothing has failed, a token that was used has verified or its request is about to.
Pending(p) == \E t \in Tasks : task[t] = <<Op("verified", p, None)>>
SpentInv ==
    /\ faults \in Nat
    /\ faults = 0 => \A p \in People : verify[p].used => user[p].verified \/ p \in waiting \/ Pending(p)

CodesInv ==
    /\ code \in [Codes -> CodeRow \cup {None}]
    /\ \A c \in Codes : code[c] # None => c \in seen

AccountsInv == TasksInv /\ UsersInv /\ TokensInv /\ SpentInv /\ CodesInv

(***************************************************************************)
(* What a step does to accounts, to tokens and to the requests that are    *)
(* about to verify an account.                                             *)
(***************************************************************************)
UserMoves(p) ==
    \/ user'[p] = user[p]
    \/ \* a row is updated
       /\ Exists(p) /\ user'[p] \in UserRow /\ Accepted(user'[p])
       /\ (user[p].pw => user'[p].pw) /\ (user[p].sso => user'[p].sso) /\ (user[p].verified => user'[p].verified)
       /\ user'[p].active => user[p].active \/ user'[p].pw \/ p \in activated'
    \/ \* a row is inserted
       /\ ~Exists(p) /\ p \notin former /\ user'[p] \in InsertRow
       /\ p \in waiting' <=> ~user'[p].pw /\ ~user'[p].sso
    \/ \* a row is wiped
       user'[p] = None /\ p \in former' /\ verify'[p] = NoToken

PersonsMove ==
    /\ user' \in [People -> UserRow \cup {None}]
    /\ \A p \in People : UserMoves(p)
    /\ former \subseteq former' /\ former' \subseteq People /\ \A p \in former' \ former : user'[p] = None
    /\ waiting \subseteq waiting' /\ waiting' \subseteq People /\ \A p \in waiting' \ waiting : ~Exists(p) /\ user'[p] # None
    /\ activated \subseteq activated' /\ activated' \subseteq People

VerifyMoves(p) ==
    \/ verify'[p] = verify[p]
    \/ \* a token takes the place of another
       Exists(p) /\ user'[p] = user[p] /\ verify'[p] = [n |-> verify[p].n + 1, used |-> FALSE, mailed |-> FALSE]
    \/ \* it is mailed
       verify[p].n > 0 /\ verify'[p] = [verify[p] EXCEPT !.mailed = TRUE]
    \/ \* it is used
       verify[p].n > 0 /\ verify'[p] = [verify[p] EXCEPT !.used = TRUE] /\ Pending(p)'
    \/ verify'[p] = NoToken

ResetsKept == \A r \in Resets : reset[r] # None => reset'[r] # None

TokensMove ==
    /\ reset' \in [Resets -> ResetRow \cup {None}] /\ ResetsKept
    /\ verify' \in [People -> [n : Nat, used : BOOLEAN, mailed : BOOLEAN]] /\ \A p \in People : VerifyMoves(p)
    /\ provider' \in ProviderRow \cup {None}

Settled(p) == Exists(p) => user[p].verified \/ p \in waiting
PendingMoves == \A p \in People : Pending(p) => Pending(p)' \/ faults' # 0 \/ Settled(p)'

Effects == TasksInv' /\ PersonsMove /\ TokensMove /\ PendingMoves /\ CodesInv' /\ faults' \in {faults, faults + 1}

LEMMA EffectsKeep == ASSUME AccountsInv, Effects PROVE AccountsInv'
<1>. USE DEF AccountsInv, Effects
<1>1. UsersInv'
  <2>. USE DEF PersonsMove
  <2>1. \A p \in former' : user'[p] = None
    <3>. SUFFICES ASSUME NEW p \in former' PROVE user'[p] = None
      OBVIOUS
    <3>1. CASE p \in former
      BY <3>1 DEF UsersInv, UserMoves, Exists
    <3>. QED
      BY <3>1
  <2>2. \A p \in waiting' : user'[p] # None \/ p \in former'
    <3>. SUFFICES ASSUME NEW p \in waiting' PROVE user'[p] # None \/ p \in former'
      OBVIOUS
    <3>1. CASE p \in waiting
      BY <3>1, AccountsAssumption DEF UsersInv, UserMoves, Exists
    <3>. QED
      BY <3>1
  <2>3. ASSUME NEW p \in People, user'[p] # None
        PROVE  /\ Accepted(user'[p])
               /\ user'[p].pw \/ user'[p].sso \/ p \in waiting'
               /\ p \in waiting' /\ user'[p].active => user'[p].pw \/ p \in activated'
    <3>1. CASE user'[p] = user[p]
      BY <2>3, <3>1 DEF UsersInv, Exists
    <3>2. CASE Exists(p) /\ user'[p] \in UserRow /\ user'[p] # user[p]
      BY <2>3, <3>2, AccountsAssumption DEF UsersInv, UserMoves
    <3>3. CASE ~Exists(p) /\ user'[p] \in InsertRow
      BY <2>3, <3>3 DEF UserMoves, InsertRow, Exists
    <3>. QED
      BY <2>3, <3>1, <3>2, <3>3 DEF UserMoves
  <2>. QED
    BY <2>1, <2>2, <2>3 DEF UsersInv, Exists
<1>2. TokensInv'
  <2>. USE DEF TokensMove
  <2>1. ASSUME NEW p \in People
        PROVE  /\ verify'[p].mailed \/ verify'[p].used => verify'[p].n > 0
               /\ verify'[p].n > 0 => user'[p] # None
    <3>1. /\ verify[p] \in [n : Nat, used : BOOLEAN, mailed : BOOLEAN]
          /\ verify[p].mailed \/ verify[p].used => verify[p].n > 0
          /\ verify[p].n > 0 => user[p] # None
          /\ UserMoves(p) /\ VerifyMoves(p)
      BY DEF TokensInv, PersonsMove, Exists
    <3>2. user[p] # None /\ user'[p] = None => verify'[p] = NoToken
      BY <3>1, AccountsAssumption DEF UserMoves, InsertRow
    <3>3. NoToken \in [n : Nat, used : BOOLEAN, mailed : BOOLEAN] /\ NoToken.n = 0 /\ ~NoToken.used /\ ~NoToken.mailed
      BY DEF NoToken
    <3>4. CASE verify'[p] = NoToken
      BY <3>3, <3>4
    <3>5. CASE verify'[p] = verify[p]
      BY <3>1, <3>2, <3>3, <3>5
    <3>6. CASE Exists(p) /\ user'[p] = user[p] /\ verify'[p] = [n |-> verify[p].n + 1, used |-> FALSE, mailed |-> FALSE]
      BY <3>1, <3>6 DEF Exists
    <3>7. CASE verify[p].n > 0 /\ verify'[p] = [verify[p] EXCEPT !.mailed = TRUE]
      BY <3>1, <3>2, <3>3, <3>7
    <3>8. CASE verify[p].n > 0 /\ verify'[p] = [verify[p] EXCEPT !.used = TRUE]
      BY <3>1, <3>2, <3>3, <3>8
    <3>. QED
      BY <3>1, <3>4, <3>5, <3>6, <3>7, <3>8 DEF VerifyMoves
  <2>. QED
    BY <2>1 DEF TokensInv, Exists
<1>3. SpentInv'
  <2>0. faults \in Nat /\ faults' \in Nat /\ (faults' = 0 => faults = 0)
    BY DEF SpentInv
  <2>. SUFFICES ASSUME faults' = 0, NEW p \in People, verify'[p].used
                PROVE  user'[p].verified \/ p \in waiting' \/ Pending(p)'
    BY <2>0 DEF SpentInv
  <2>1. user'[p] # None /\ UserMoves(p) /\ VerifyMoves(p) /\ waiting \subseteq waiting'
    BY <1>2 DEF TokensInv, Exists, PersonsMove, TokensMove
  <2>2. CASE ~verify[p].used
    BY <2>1, <2>2 DEF VerifyMoves, NoToken, TokensInv
  <2>3. CASE verify[p].used
    <3>1. faults = 0
      BY <2>0
    <3>2. user[p].verified \/ p \in waiting \/ Pending(p)
      BY <2>3, <3>1 DEF SpentInv
    <3>3. user[p].verified => user'[p].verified
      BY <2>1, <2>3 DEF UserMoves, TokensInv
    <3>4. Pending(p) => Pending(p)' \/ user'[p].verified \/ p \in waiting'
      BY <2>1 DEF PendingMoves, Settled, Exists
    <3>. QED
      BY <2>1, <3>2, <3>3, <3>4
  <2>. QED
    BY <2>2, <2>3
<1>. QED
  BY <1>1, <1>2, <1>3
\* A step that leaves a part alone.
LEMMA SamePersons == ASSUME AccountsInv, UNCHANGED Persons PROVE PersonsMove
BY DEF AccountsInv, UsersInv, Persons, PersonsMove, UserMoves

LEMMA SameTokens == ASSUME AccountsInv, UNCHANGED Tokens, UNCHANGED provider PROVE TokensMove
BY DEF AccountsInv, TokensInv, Tokens, TokensMove, VerifyMoves, ResetsKept

LEMMA SameCodes == ASSUME AccountsInv, UNCHANGED <<code, seen>> PROVE CodesInv'
BY DEF AccountsInv, CodesInv

\* The fields of an instruction.
LEMMA InstructionTypes ==
    ASSUME NEW o \in Instruction
    PROVE  /\ o.p \in People /\ o.do # "use"
           /\ o.do = "insert" => o.x \in InsertRow
           /\ o.do = "mail" => o.x \in Nat \ {0}
           /\ o.do = "reset" => o.x \in ResetRow
           /\ o.do \in {"reset_mail", "set"} => o.x \in Resets
           /\ o.do = "provider" => o.x \in [s : States, mobile : BOOLEAN]
           /\ o.do \in {"account", "link"} => o.x \in Grant
           /\ o.do = "code" => o.x \in [admin : BOOLEAN, challenge : BOOLEAN]
BY DEF Instruction

\* A list and what is left of it after its head.
Headed(list) ==
    /\ Tail(list) \in Seq(Instruction)
    /\ Head(list).do # "use" => Head(list) \in Instruction
    /\ Head(list).do = "use" => /\ Head(list).p \in People /\ Head(list).x \in Nat \ {0}
                                /\ Tail(list) = <<Op("verified", Head(list).p, None)>>
    /\ Len(list) \in Nat /\ Len(list) > 0 /\ Head(list) = list[1]
    /\ \A i \in 1 .. Len(Tail(list)) : i + 1 \in 1 .. Len(list) /\ Tail(list)[i] = list[i + 1]
    /\ Head(list).do # "verified" => \A p \in People : list # <<Op("verified", p, None)>>

LEMMA QueueFacts == ASSUME NEW list, Queue(list), list # <<>> PROVE Headed(list)
<1>1. CASE list \in Seq(Instruction)
  <2>1. Head(list) \in Instruction /\ Head(list) = list[1] /\ Tail(list) \in Seq(Instruction)
    BY <1>1
  <2>2. Head(list).do # "use"
    BY <2>1, InstructionTypes
  <2>3. Len(list) \in Nat /\ Len(list) > 0 /\ \A i \in 1 .. Len(Tail(list)) : i + 1 \in 1 .. Len(list) /\ Tail(list)[i] = list[i + 1]
    BY <1>1
  <2>4. ASSUME NEW p \in People, list = <<Op("verified", p, None)>> PROVE Head(list).do = "verified"
    BY <2>4 DEF Op
  <2>. QED
    BY <2>1, <2>2, <2>3, <2>4 DEF Headed
<1>2. ASSUME NEW p \in People, NEW n \in Nat \ {0}, list = Verification(p, n) PROVE Headed(list)
  <2>. DEFINE a == Op("use", p, n)
              b == Op("verified", p, None)
  <2>1. a.do = "use" /\ a.p = p /\ a.x = n /\ b \in Instruction
    BY DEF Op, Instruction
  <2>2. list = <<a, b>>
    BY <1>2 DEF Verification
  <2>3. <<b>> = <<Op("verified", a.p, None)>>
    BY <2>1
  <2>. HIDE DEF a, b
  <2>4. Head(list) = a /\ Tail(list) = <<b>> /\ Len(list) = 2 /\ list[1] = a /\ list[2] = b /\ Len(<<b>>) = 1 /\ <<b>>[1] = b
    BY <2>2
  <2>5. <<b>> \in Seq(Instruction)
    BY <2>1
  <2>6. \A q : list # <<q>>
    BY <2>4
  <2>7. \A i \in 1 .. Len(Tail(list)) : i + 1 \in 1 .. Len(list) /\ Tail(list)[i] = list[i + 1]
    BY <2>4
  <2>8. Tail(list) = <<Op("verified", Head(list).p, None)>>
    BY <2>3, <2>4
  <2>9. Tail(list) \in Seq(Instruction) /\ Head(list).do = "use" /\ Head(list).p \in People /\ Head(list).x \in Nat \ {0}
    BY <2>1, <2>4, <2>5
  <2>10. Len(list) \in Nat /\ Len(list) > 0 /\ Head(list) = list[1]
    BY <2>4
  <2>11. \A q \in People : list # <<Op("verified", q, None)>>
    BY <2>6
  <2>. QED
    BY <2>7, <2>8, <2>9, <2>10, <2>11, Zenon DEF Headed
<1>. QED
  BY <1>1, <1>2 DEF Queue

\* Reset tokens stay, so what a list names stays backed.
LEMMA BackedStays == ASSUME NEW list, Queue(list), Backed(list, reset), ResetsKept PROVE Backed(list, reset')
<1>1. ASSUME NEW i \in 1 .. Len(list), list[i].do \in {"reset_mail", "set"} PROVE list[i].x \in Resets
  <2>1. CASE list \in Seq(Instruction)
    BY <1>1, <2>1, InstructionTypes
  <2>2. ASSUME NEW p \in People, NEW n \in Nat \ {0}, list = Verification(p, n) PROVE FALSE
    BY <1>1, <2>2 DEF Verification, Op
  <2>. QED
    BY <2>1, <2>2 DEF Queue
<1>. QED
  BY <1>1 DEF Backed, ResetsKept

\* One task gets another list.
LEMMA TaskGoesOn ==
    ASSUME AccountsInv, NEW t \in Tasks, NEW list, task' = [task EXCEPT ![t] = list],
           Queue(list), Backed(list, reset'), ResetsKept,
           \A p \in People : task[t] = <<Op("verified", p, None)>> => faults' # 0 \/ Settled(p)'
    PROVE  TasksInv' /\ PendingMoves
<1>1. /\ DOMAIN task' = Tasks /\ task'[t] = list
      /\ \A u \in Tasks \ {t} : task'[u] = task[u]
  BY DEF AccountsInv, TasksInv
<1>2. \A u \in Tasks : Queue(task[u]) /\ Backed(task[u], reset')
  BY BackedStays DEF AccountsInv, TasksInv
<1>3. TasksInv'
  <2>1. ASSUME NEW u \in Tasks PROVE Queue(task'[u]) /\ Backed(task'[u], reset')
    BY <1>1, <1>2
  <2>. QED
    BY <1>1, <2>1 DEF TasksInv, Queue, Backed
<1>4. PendingMoves
  BY <1>1 DEF PendingMoves, Pending
<1>. QED
  BY <1>3, <1>4

\* The instruction at the head of a list is done; others may come before the rest.
LEMMA ContinueOn ==
    ASSUME AccountsInv, NEW t \in Tasks, Busy(t), NEW more \in Seq(Instruction), Backed(more, reset'), ResetsKept,
           Continue(t, more), NEW q, q = Head(task[t]).p, Head(task[t]).do = "verified" => Settled(q)'
    PROVE  TasksInv' /\ PendingMoves /\ faults' \in {faults, faults + 1} /\ task' = [task EXCEPT ![t] = more \o Tail(task[t])]
<1>. DEFINE rest == Tail(task[t])
            list == more \o rest
<1>1. Queue(task[t]) /\ Backed(task[t], reset) /\ task[t] # <<>> /\ Headed(task[t])
  BY QueueFacts DEF AccountsInv, TasksInv, Busy
<1>2. task' = [task EXCEPT ![t] = list] /\ faults' = faults
  BY DEF Continue
<1>3. rest \in Seq(Instruction) /\ list \in Seq(Instruction)
  BY <1>1 DEF Headed
<1>4. Backed(task[t], reset) /\ ResetsKept => \A i \in 1 .. Len(task[t]) : task[t][i].do \in {"reset_mail", "set"} => reset'[task[t][i].x] # None
  BY <1>1, BackedStays DEF Backed
<1>5. \A i \in 1 .. Len(rest) : rest[i].do \in {"reset_mail", "set"} => reset'[rest[i].x] # None
  BY <1>1, <1>4 DEF Headed
<1>6. \A i \in 1 .. Len(more) : more[i].do \in {"reset_mail", "set"} => reset'[more[i].x] # None
  BY DEF Backed
<1>7. \A p \in People : task[t] = <<Op("verified", p, None)>> => Head(task[t]).do = "verified" /\ Head(task[t]).p = p
  BY DEF Op
<1>. HIDE DEF rest
<1>8. \A i \in 1 .. Len(list) : \/ i \in 1 .. Len(more) /\ list[i] = more[i]
                                \/ i - Len(more) \in 1 .. Len(rest) /\ list[i] = rest[i - Len(more)]
  BY <1>3
<1>. HIDE DEF list
<1>9. \A i \in 1 .. Len(list) : list[i].do \in {"reset_mail", "set"} => reset'[list[i].x] # None
  BY <1>5, <1>6, <1>8
<1>10. Backed(list, reset') /\ Queue(list)
  BY <1>3, <1>9 DEF Backed, Queue
<1>11. TasksInv' /\ PendingMoves
  BY <1>2, <1>7, <1>10, TaskGoesOn
<1>. QED
  BY <1>2, <1>11 DEF list, rest

LEMMA GiveUpOn ==
    ASSUME AccountsInv, NEW t \in Tasks, Busy(t), ResetsKept, GiveUp(t), Head(task[t]).do # "verified"
    PROVE  TasksInv' /\ PendingMoves /\ faults' \in {faults, faults + 1}
<1>1. Queue(<<>>) /\ Backed(<<>>, reset')
  BY DEF Queue, Backed
<1>2. \A p \in People : task[t] # <<Op("verified", p, None)>>
  BY DEF Op
<1>. QED
  BY <1>1, <1>2, TaskGoesOn DEF GiveUp

\* A request begins.
LEMMA BeginOn ==
    ASSUME AccountsInv, NEW t \in Tasks, NEW todo, Begin(t, todo), Queue(todo), Backed(todo, reset),
           UNCHANGED Persons, UNCHANGED Tokens, UNCHANGED provider, UNCHANGED Coded
    PROVE  Effects
<1>1. PersonsMove /\ TokensMove /\ CodesInv'
  BY SamePersons, SameTokens, SameCodes DEF Coded
<1>2. ResetsKept
  BY <1>1 DEF TokensMove
<1>3. task[t] = <<>> /\ task' = [task EXCEPT ![t] = todo] /\ faults' = faults
  BY DEF Begin, Busy
<1>4. \A p \in People : task[t] # <<Op("verified", p, None)>>
  BY <1>3
<1>5. Backed(todo, reset')
  BY <1>2, BackedStays
<1>6. TasksInv' /\ PendingMoves
  BY <1>2, <1>3, <1>4, <1>5, TaskGoesOn
<1>. QED
  BY <1>1, <1>3, <1>6 DEF Effects

\* A step that leaves the tasks alone.
LEMMA TasksStay ==
    ASSUME AccountsInv, task' = task, ResetsKept
    PROVE  TasksInv' /\ PendingMoves
<1>1. \A t \in Tasks : Queue(task[t]) /\ Backed(task[t], reset')
  BY BackedStays DEF AccountsInv, TasksInv
<1>2. TasksInv'
  BY <1>1 DEF AccountsInv, TasksInv, Queue, Backed
<1>3. PendingMoves
  BY DEF PendingMoves, Pending
<1>. QED
  BY <1>2, <1>3

\* A row of users is updated.
LEMMA UserUpdated ==
    ASSUME AccountsInv, NEW p \in People, Exists(p), NEW row \in UserRow, SetUser(p, row),
           user[p].pw => row.pw, user[p].sso => row.sso, user[p].verified => row.verified,
           row.active => user[p].active \/ row.pw \/ p \in activated',
           former' = former, waiting' = waiting, activated \subseteq activated', activated' \subseteq People
    PROVE  PersonsMove
<1>1. user \in [People -> UserRow \cup {None}] /\ former \subseteq People /\ waiting \subseteq People
  BY DEF AccountsInv, UsersInv
<1>2. user' \in [People -> UserRow \cup {None}] /\ user'[p] = row /\ Accepted(row) /\ \A q \in People \ {p} : user'[q] = user[q]
  BY <1>1 DEF SetUser
<1>3. \A q \in People : UserMoves(q)
  BY <1>2 DEF UserMoves
<1>. QED
  BY <1>1, <1>2, <1>3 DEF PersonsMove

(***************************************************************************)
(* The steps of tasks.                                                     *)
(***************************************************************************)
LEMMA HeadFacts ==
    ASSUME AccountsInv, NEW t \in Tasks, Busy(t), NEW o, o = Head(task[t])
    PROVE  /\ o.p \in People
           /\ o.do # "use" => o \in Instruction
           /\ o.do = "use" => o.x \in Nat \ {0} /\ Tail(task[t]) = <<Op("verified", o.p, None)>>
           /\ o.do \in {"reset_mail", "set"} => o.x \in Resets /\ reset[o.x] # None
<1>1. Queue(task[t]) /\ Backed(task[t], reset) /\ Headed(task[t])
  BY QueueFacts DEF AccountsInv, TasksInv, Busy
<1>2. o = task[t][1] /\ 1 \in 1 .. Len(task[t])
  BY <1>1 DEF Headed
<1>3. o.do \in {"reset_mail", "set"} => reset[o.x] # None
  BY <1>1, <1>2 DEF Backed
<1>. QED
  BY <1>1, <1>3, InstructionTypes DEF Headed

\* What a task's step has to show.
LEMMA GoesOn ==
    ASSUME AccountsInv, NEW t \in Tasks, Busy(t), NEW o, o = Head(task[t]), PersonsMove, TokensMove, CodesInv',
           NEW more \in Seq(Instruction), Backed(more, reset'), Continue(t, more), o.do = "verified" => Settled(o.p)'
    PROVE  Effects
<1>1. PICK q : q = o.p
  OBVIOUS
<1>2. TasksInv' /\ PendingMoves /\ faults' \in {faults, faults + 1}
  BY <1>1, ContinueOn DEF TokensMove
<1>. QED
  BY <1>2 DEF Effects

LEMMA Ends ==
    ASSUME AccountsInv, NEW t \in Tasks, Busy(t), NEW o, o = Head(task[t]), PersonsMove, TokensMove, CodesInv',
           GiveUp(t), o.do # "verified"
    PROVE  Effects
BY GiveUpOn DEF TokensMove, Effects

\* A list of no more than one instruction, with no reset token in it.
LEMMA NoMore == <<>> \in Seq(Instruction) /\ Backed(<<>>, reset')
BY DEF Backed

LEMMA OneMore ==
    ASSUME NEW i \in Instruction, i.do \notin {"reset_mail", "set"} \/ reset'[i.x] # None
    PROVE  <<i>> \in Seq(Instruction) /\ Backed(<<i>>, reset')
BY DEF Backed

LEMMA InsertUserStep ==
    ASSUME AccountsInv, NEW t \in Tasks, Busy(t), NEW o, o = Head(task[t]), InsertUser(t, o)
    PROVE  Effects
<1>1. o \in Instruction /\ o.p \in People /\ o.x \in InsertRow /\ o.do = "insert"
  BY HeadFacts, InstructionTypes DEF InsertUser
<1>2. TokensMove /\ CodesInv'
  BY SameTokens, SameCodes DEF InsertUser, Coded
<1>3. CASE Exists(o.p) \/ o.p \in former
  <2>1. GiveUp(t) /\ PersonsMove
    BY <1>3, SamePersons DEF InsertUser
  <2>. QED
    BY <1>1, <1>2, <2>1, Ends
<1>4. CASE ~(Exists(o.p) \/ o.p \in former)
  <2>1. /\ user' = [user EXCEPT ![o.p] = o.x] /\ former' = former /\ activated' = activated
        /\ waiting' = (IF o.x.pw \/ o.x.sso THEN waiting ELSE waiting \cup {o.p})
        /\ Continue(t, <<>>)
    BY <1>4 DEF InsertUser, SetUser
  <2>2. user \in [People -> UserRow \cup {None}] /\ o.p \notin waiting /\ o.x \in UserRow /\ o.x # None
    BY <1>1, <1>4, AccountsAssumption DEF AccountsInv, UsersInv, InsertRow
  <2>3. /\ user' \in [People -> UserRow \cup {None}] /\ user'[o.p] = o.x
        /\ \A p \in People \ {o.p} : user'[p] = user[p]
    BY <1>1, <2>1, <2>2
  <2>4. \A p \in People : UserMoves(p)
    BY <1>1, <1>4, <2>1, <2>2, <2>3 DEF UserMoves
  <2>5. PersonsMove
    BY <1>1, <1>4, <2>1, <2>2, <2>3, <2>4 DEF PersonsMove, AccountsInv, UsersInv
  <2>. QED
    BY <1>1, <1>2, <2>1, <2>5, GoesOn, NoMore
<1>. QED
  BY <1>3, <1>4

\* A person's verification token changes as VerifyMoves says.
LEMMA VerifyUpdated ==
    ASSUME AccountsInv, NEW p \in People, NEW row \in [n : Nat, used : BOOLEAN, mailed : BOOLEAN],
           verify' = [verify EXCEPT ![p] = row], verify'[p] = row => VerifyMoves(p), UNCHANGED <<reset, provider>>
    PROVE  TokensMove
<1>1. /\ verify' \in [People -> [n : Nat, used : BOOLEAN, mailed : BOOLEAN]] /\ verify'[p] = row
      /\ \A q \in People \ {p} : verify'[q] = verify[q]
  BY DEF AccountsInv, TokensInv
<1>2. \A q \in People : VerifyMoves(q)
  BY <1>1 DEF VerifyMoves
<1>. QED
  BY <1>1, <1>2 DEF TokensMove, ResetsKept, AccountsInv, TokensInv

LEMMA TokenStep ==
    ASSUME AccountsInv, NEW t \in Tasks, Busy(t), NEW o, o = Head(task[t]), create_verification_token(t, o)
    PROVE  Effects
<1>1. o \in Instruction /\ o.p \in People /\ o.do = "token"
  BY HeadFacts DEF create_verification_token
<1>2. PersonsMove /\ CodesInv' /\ user' = user /\ reset' = reset /\ provider' = provider
  BY SamePersons, SameCodes DEF create_verification_token, Coded, Persons
<1>3. CASE ~Exists(o.p)
  <2>1. GiveUp(t) /\ UNCHANGED Tokens
    BY <1>2, <1>3 DEF create_verification_token, Tokens
  <2>. QED
    BY <1>1, <1>2, <2>1, SameTokens, Ends
<1>4. CASE Exists(o.p)
  <2>1. verify[o.p] \in [n : Nat, used : BOOLEAN, mailed : BOOLEAN]
    BY <1>1 DEF AccountsInv, TokensInv
  <2>2. PICK n : n = verify[o.p].n + 1
    OBVIOUS
  <2>3. n \in Nat \ {0}
    BY <2>1, <2>2
  <2>4. PICK row : row = [n |-> n, used |-> FALSE, mailed |-> FALSE]
    OBVIOUS
  <2>5. row \in [n : Nat, used : BOOLEAN, mailed : BOOLEAN]
    BY <2>3, <2>4
  <2>6. verify' = [verify EXCEPT ![o.p] = row] /\ Continue(t, <<Op("mail", o.p, n)>>)
    BY <1>4, <2>2, <2>4 DEF create_verification_token, NoToken
  <2>7. verify'[o.p] = row => VerifyMoves(o.p)
    BY <1>2, <1>4, <2>2, <2>4 DEF VerifyMoves
  <2>8. TokensMove
    BY <1>1, <1>2, <2>5, <2>6, <2>7, VerifyUpdated
  <2>9. Op("mail", o.p, n) \in Instruction /\ Op("mail", o.p, n).do = "mail"
    BY <1>1, <2>3 DEF Op, Instruction
  <2>10. <<Op("mail", o.p, n)>> \in Seq(Instruction) /\ Backed(<<Op("mail", o.p, n)>>, reset')
    BY <2>9, OneMore
  <2>. QED
    BY <1>1, <1>2, <2>6, <2>8, <2>10, GoesOn
<1>. QED
  BY <1>3, <1>4

LEMMA MailTokenStep ==
    ASSUME AccountsInv, NEW t \in Tasks, Busy(t), NEW o, o = Head(task[t]), MailToken(t, o)
    PROVE  Effects
<1>1. o \in Instruction /\ o.p \in People /\ o.do = "mail" /\ o.x \in Nat \ {0}
  BY HeadFacts, InstructionTypes DEF MailToken
<1>2. PersonsMove /\ CodesInv' /\ reset' = reset /\ provider' = provider /\ Continue(t, <<>>)
  BY SamePersons, SameCodes DEF MailToken, Coded
<1>3. verify[o.p] \in [n : Nat, used : BOOLEAN, mailed : BOOLEAN]
  BY <1>1 DEF AccountsInv, TokensInv
<1>4. PICK row : row = [verify[o.p] EXCEPT !.mailed = @ \/ verify[o.p].n = o.x]
  OBVIOUS
<1>5. verify' = [verify EXCEPT ![o.p] = row]
  BY <1>1, <1>4 DEF MailToken, AccountsInv, TokensInv
<1>6. row \in [n : Nat, used : BOOLEAN, mailed : BOOLEAN]
  BY <1>3, <1>4
<1>7. CASE verify[o.p].n = o.x
  <2>1. row = [verify[o.p] EXCEPT !.mailed = TRUE] /\ verify[o.p].n > 0
    <3>1. verify[o.p].n > 0
      BY <1>1, <1>3, <1>7
    <3>2. (verify[o.p].mailed \/ verify[o.p].n = o.x) = TRUE
      BY <1>7
    <3>. QED
      BY <1>3, <1>4, <3>1, <3>2
  <2>. QED
    BY <1>1, <1>2, <1>5, <1>6, <2>1, VerifyUpdated, GoesOn, NoMore DEF VerifyMoves
<1>8. CASE verify[o.p].n # o.x
  <2>1. row = verify[o.p]
    BY <1>3, <1>4, <1>8
  <2>. QED
    BY <1>1, <1>2, <1>5, <1>6, <2>1, VerifyUpdated, GoesOn, NoMore DEF VerifyMoves
<1>. QED
  BY <1>7, <1>8

LEMMA MarkUsedStep ==
    ASSUME AccountsInv, NEW t \in Tasks, Busy(t), NEW o, o = Head(task[t]), MarkUsed(t, o)
    PROVE  Effects
<1>1. o.p \in People /\ o.do = "use" /\ o.x \in Nat \ {0} /\ Tail(task[t]) = <<Op("verified", o.p, None)>>
  BY HeadFacts DEF MarkUsed
<1>2. PersonsMove /\ CodesInv' /\ reset' = reset /\ provider' = provider /\ Continue(t, <<>>)
  BY SamePersons, SameCodes DEF MarkUsed, Coded
<1>3. verify[o.p] \in [n : Nat, used : BOOLEAN, mailed : BOOLEAN]
  BY <1>1 DEF AccountsInv, TokensInv
<1>4. PICK row : row = [verify[o.p] EXCEPT !.used = @ \/ verify[o.p].n = o.x]
  OBVIOUS
<1>5. verify' = [verify EXCEPT ![o.p] = row]
  BY <1>1, <1>4 DEF MarkUsed, AccountsInv, TokensInv
<1>6. row \in [n : Nat, used : BOOLEAN, mailed : BOOLEAN]
  BY <1>3, <1>4
<1>7. task'[t] = <<Op("verified", o.p, None)>>
  <2>1. Op("verified", o.p, None) \in Instruction
    BY <1>1 DEF Op, Instruction
  <2>2. <<>> \o Tail(task[t]) = <<Op("verified", o.p, None)>>
    BY <1>1, <2>1
  <2>. QED
    BY <1>2, <2>2 DEF Continue, AccountsInv, TasksInv
<1>8. PICK p : p = o.p
  OBVIOUS
<1>9. Pending(p)'
  BY <1>7, <1>8 DEF Pending
<1>10. CASE verify[p].n = o.x
  <2>1. row = [verify[p] EXCEPT !.used = TRUE] /\ verify[p].n > 0
    <3>1. verify[p].n > 0
      BY <1>1, <1>3, <1>8, <1>10
    <3>2. (verify[p].used \/ verify[p].n = o.x) = TRUE
      BY <1>10
    <3>. QED
      BY <1>3, <1>4, <1>8, <3>1, <3>2
  <2>2. verify'[p] = row => VerifyMoves(p)
    BY <1>9, <2>1 DEF VerifyMoves
  <2>. QED
    BY <1>1, <1>2, <1>5, <1>6, <1>8, <2>2, VerifyUpdated, GoesOn, NoMore
<1>11. CASE verify[p].n # o.x
  <2>1. row = verify[p]
    BY <1>3, <1>4, <1>8, <1>11
  <2>2. verify'[p] = row => VerifyMoves(p)
    BY <2>1 DEF VerifyMoves
  <2>. QED
    BY <1>1, <1>2, <1>5, <1>6, <1>8, <2>2, VerifyUpdated, GoesOn, NoMore
<1>. QED
  BY <1>10, <1>11

\* Steps that touch neither accounts, tokens nor codes.
LEMMA PlainSteps ==
    ASSUME AccountsInv, NEW t \in Tasks, Busy(t), NEW o, o = Head(task[t]),
           \/ FirstLogin(t, o) \/ FindForReset(t, o) \/ CheckSetup(t, o) \/ ForgetState(t, o)
           \/ AskProvider(t, o) \/ find_or_create_user(t, o)
    PROVE  Effects
<1>. USE DEF Coded
<1>1. PersonsMove /\ TokensMove /\ CodesInv' /\ reset' = reset
  <2>1. UNCHANGED Persons /\ UNCHANGED Tokens /\ provider' = provider /\ UNCHANGED Coded
    BY DEF FirstLogin, FindForReset, CheckSetup, ForgetState, AskProvider, find_or_create_user
  <2>. QED
    BY <2>1, SamePersons, SameTokens, SameCodes DEF Tokens
<1>2. o \in Instruction /\ o.p \in People /\ o.do # "verified"
  BY HeadFacts DEF FirstLogin, FindForReset, CheckSetup, ForgetState, AskProvider, find_or_create_user
<1>3. CASE GiveUp(t)
  BY <1>1, <1>2, <1>3, Ends
<1>4. CASE Continue(t, <<>>)
  BY <1>1, <1>2, <1>4, GoesOn, NoMore
<1>5. ASSUME NEW do, NEW x, Continue(t, <<Op(do, o.p, x)>>), Op(do, o.p, x) \in Instruction, do \notin {"reset_mail", "set"}
      PROVE  Effects
  <2>1. <<Op(do, o.p, x)>> \in Seq(Instruction) /\ Backed(<<Op(do, o.p, x)>>, reset')
    BY <1>5, OneMore DEF Op
  <2>. QED
    BY <1>1, <1>2, <1>5, <2>1, GoesOn
<1>6. CASE FindForReset(t, o)
  <2>1. Reset(o.p, IF Active(o.p) THEN o.p ELSE None, FALSE) \in ResetRow
    BY <1>2 DEF Reset, ResetRow
  <2>2. PICK row \in ResetRow : row = Reset(o.p, IF Active(o.p) THEN o.p ELSE None, FALSE)
    BY <2>1
  <2>3. Op("reset", o.p, row) \in Instruction
    BY <1>2 DEF Op, Instruction
  <2>4. Continue(t, <<Op("reset", o.p, row)>>)
    BY <1>6, <2>2 DEF FindForReset
  <2>. QED
    BY <1>5, <2>3, <2>4
<1>7. CASE CheckSetup(t, o)
  <2>1. Reset(o.p, o.p, TRUE) \in ResetRow
    BY <1>2 DEF Reset, ResetRow
  <2>2. PICK row \in ResetRow : row = Reset(o.p, o.p, TRUE)
    BY <2>1
  <2>3. Op("reset", o.p, row) \in Instruction
    BY <1>2 DEF Op, Instruction
  <2>4. GiveUp(t) \/ Continue(t, <<Op("reset", o.p, row)>>)
    BY <1>7, <2>2 DEF CheckSetup
  <2>. QED
    BY <1>3, <1>5, <2>3, <2>4
<1>8. CASE AskProvider(t, o)
  <2>1. o.x \in [s : States, mobile : BOOLEAN]
    BY <1>2, <1>8, InstructionTypes DEF AskProvider
  <2>2. CASE GiveUp(t)
    BY <1>3, <2>2
  <2>3. CASE ~GiveUp(t)
    <3>1. provider # None /\ provider \in ProviderRow
      BY <1>8, <2>3 DEF AskProvider, AccountsInv, TokensInv
    <3>2. PICK admin \in BOOLEAN : Continue(t, <<Op("account", o.p, [oidc |-> provider.oidc, admin |-> admin, mobile |-> o.x.mobile,
                                                    provisions |-> provider.provisions])>>)
      BY <1>8, <2>3 DEF AskProvider
    <3>3. [oidc |-> provider.oidc, admin |-> admin, mobile |-> o.x.mobile, provisions |-> provider.provisions] \in Grant
      BY <2>1, <3>1 DEF Grant, ProviderRow
    <3>4. PICK g \in Grant : g = [oidc |-> provider.oidc, admin |-> admin, mobile |-> o.x.mobile, provisions |-> provider.provisions]
      BY <3>3
    <3>5. Op("account", o.p, g) \in Instruction
      BY <1>2 DEF Op, Instruction
    <3>. QED
      BY <1>5, <3>2, <3>4, <3>5
  <2>. QED
    BY <2>2, <2>3
<1>9. CASE find_or_create_user(t, o)
  <2>1. o.x \in Grant
    BY <1>2, <1>9, InstructionTypes DEF find_or_create_user
  <2>2. Op("link", o.p, o.x) \in Instruction
    BY <1>2, <2>1 DEF Op, Instruction
  <2>3. NewUser(TRUE, o.x.admin, FALSE, TRUE) \in InsertRow
    BY <2>1 DEF NewUser, InsertRow, UserRow, Accepted, Grant
  <2>4. PICK a : a = Op("insert", o.p, NewUser(TRUE, o.x.admin, FALSE, TRUE))
    OBVIOUS
  <2>5. PICK b : b = Op("code", o.p, [admin |-> o.x.admin, challenge |-> o.x.mobile])
    OBVIOUS
  <2>6. a \in Instruction /\ b \in Instruction /\ a.do = "insert" /\ b.do = "code"
    BY <1>2, <2>1, <2>3, <2>4, <2>5 DEF Op, Instruction, Grant
  <2>7. PICK list : list = <<a>> \o <<b>>
    OBVIOUS
  <2>8. list \in Seq(Instruction) /\ Len(list) = 2 /\ list[1] = a /\ list[2] = b
    BY <2>6, <2>7
  <2>9. Backed(list, reset')
    BY <2>6, <2>8 DEF Backed
  <2>10. CASE Continue(t, list)
    BY <1>1, <1>2, <2>8, <2>9, <2>10, GoesOn
  <2>11. Continue(t, <<Op("link", o.p, o.x)>>) \/ GiveUp(t) \/ Continue(t, list)
    BY <1>9, <2>4, <2>5, <2>7 DEF find_or_create_user, ThenCode
  <2>. QED
    BY <1>3, <1>5, <2>2, <2>10, <2>11
<1>10. CASE FirstLogin(t, o) \/ ForgetState(t, o)
  BY <1>4, <1>10 DEF FirstLogin, ForgetState
<1>. QED
  BY <1>6, <1>7, <1>8, <1>9, <1>10

LEMMA MarkVerifiedStep ==
    ASSUME AccountsInv, NEW t \in Tasks, Busy(t), NEW o, o = Head(task[t]), MarkVerified(t, o)
    PROVE  Effects
<1>1. o.p \in People /\ o.do = "verified"
  BY HeadFacts DEF MarkVerified
<1>2. TokensMove /\ CodesInv' /\ Continue(t, <<>>) /\ former' = former /\ waiting' = waiting /\ activated' = activated
  BY SameTokens, SameCodes DEF MarkVerified, Coded
<1>3. PICK p \in People : p = o.p
  BY <1>1
<1>4. CASE ~Exists(p)
  <2>1. user' = user
    BY <1>3, <1>4 DEF MarkVerified
  <2>2. PersonsMove /\ Settled(p)'
    BY <1>2, <1>4, <2>1, SamePersons DEF Persons, Settled, Exists
  <2>. QED
    BY <1>1, <1>2, <1>3, <2>2, GoesOn, NoMore
<1>5. CASE Exists(p)
  <2>1. user \in [People -> UserRow \cup {None}] /\ user[p] \in UserRow /\ activated \subseteq People
    BY <1>5 DEF AccountsInv, UsersInv, Exists
  <2>2. PICK row : row = [user[p] EXCEPT !.verified = user[p].verified \/ user[p].pw \/ user[p].sso]
    OBVIOUS
  <2>3. SetUser(p, row)
    BY <1>3, <1>5, <2>2 DEF MarkVerified
  <2>4. row \in UserRow /\ row.pw = user[p].pw /\ row.sso = user[p].sso /\ row.active = user[p].active
    BY <2>1, <2>2 DEF UserRow
  <2>5. row.verified = (user[p].verified \/ user[p].pw \/ user[p].sso)
    BY <2>1, <2>2 DEF UserRow
  <2>6. PersonsMove
    BY <1>2, <1>5, <2>1, <2>3, <2>4, <2>5, UserUpdated
  <2>7. user'[p] = row
    BY <2>1, <2>3 DEF SetUser
  <2>8. Settled(p)'
    BY <1>2, <1>5, <2>5, <2>7 DEF Settled, AccountsInv, UsersInv
  <2>. QED
    BY <1>1, <1>2, <1>3, <2>6, <2>8, GoesOn, NoMore
<1>. QED
  BY <1>4, <1>5

\* A row of password_reset_tokens changes.
LEMMA ResetUpdated ==
    ASSUME AccountsInv, NEW r \in Resets, NEW row \in ResetRow, reset' = [reset EXCEPT ![r] = row], UNCHANGED <<verify, provider>>
    PROVE  TokensMove /\ reset'[r] # None
<1>1. /\ reset' \in [Resets -> ResetRow \cup {None}] /\ reset'[r] = row
      /\ \A s \in Resets \ {r} : reset'[s] = reset[s]
  BY DEF AccountsInv, TokensInv
<1>2. reset'[r] # None
  BY <1>1, AccountsAssumption
<1>. QED
  BY <1>1, <1>2 DEF TokensMove, ResetsKept, AccountsInv, TokensInv, VerifyMoves

LEMMA InsertResetStep ==
    ASSUME AccountsInv, NEW t \in Tasks, Busy(t), NEW o, o = Head(task[t]), InsertReset(t, o)
    PROVE  Effects
<1>1. o \in Instruction /\ o.p \in People /\ o.do = "reset" /\ o.x \in ResetRow
  BY HeadFacts, InstructionTypes DEF InsertReset
<1>2. PersonsMove /\ CodesInv' /\ verify' = verify /\ provider' = provider
  BY SamePersons, SameCodes DEF InsertReset, Coded
<1>3. CASE GiveUp(t) /\ reset' = reset
  <2>1. TokensMove
    BY <1>2, <1>3, SameTokens DEF Tokens
  <2>. QED
    BY <1>1, <1>2, <1>3, <2>1, Ends
<1>4. ASSUME NEW r \in Resets, reset' = [reset EXCEPT ![r] = o.x],
             Continue(t, IF o.x.who = None THEN <<>> ELSE <<Op("reset_mail", o.p, r)>>)
      PROVE  Effects
  <2>1. TokensMove /\ reset'[r] # None
    BY <1>1, <1>2, <1>4, ResetUpdated
  <2>2. PICK i : i = Op("reset_mail", o.p, r)
    OBVIOUS
  <2>3. i \in Instruction /\ i.x = r
    BY <1>1, <2>2 DEF Op, Instruction
  <2>4. <<i>> \in Seq(Instruction) /\ Backed(<<i>>, reset')
    BY <2>1, <2>3, OneMore
  <2>5. Continue(t, <<>>) \/ Continue(t, <<i>>)
    BY <1>4, <2>2
  <2>. QED
    BY <1>1, <1>2, <2>1, <2>4, <2>5, GoesOn, NoMore
<1>. QED
  BY <1>3, <1>4 DEF InsertReset

LEMMA MailResetStep ==
    ASSUME AccountsInv, NEW t \in Tasks, Busy(t), NEW o, o = Head(task[t]), MailReset(t, o)
    PROVE  Effects
<1>1. o \in Instruction /\ o.do = "reset_mail" /\ o.x \in Resets /\ reset[o.x] # None
  BY HeadFacts DEF MailReset
<1>2. PersonsMove /\ CodesInv' /\ verify' = verify /\ provider' = provider /\ Continue(t, <<>>)
  BY SamePersons, SameCodes DEF MailReset, Coded
<1>3. PICK row : row = [reset[o.x] EXCEPT !.mailed = TRUE]
  OBVIOUS
<1>4. row \in ResetRow /\ reset' = [reset EXCEPT ![o.x] = row]
  BY <1>1, <1>3 DEF MailReset, ResetRow, AccountsInv, TokensInv
<1>5. TokensMove
  BY <1>1, <1>2, <1>4, ResetUpdated
<1>. QED
  BY <1>1, <1>2, <1>5, GoesOn, NoMore

LEMMA ResetTransactionStep ==
    ASSUME AccountsInv, NEW t \in Tasks, Busy(t), NEW o, o = Head(task[t]), ResetTransaction(t, o)
    PROVE  Effects
<1>1. o \in Instruction /\ o.do = "set" /\ o.p \in People /\ o.x \in Resets /\ reset[o.x] # None
  BY HeadFacts DEF ResetTransaction
<1>2. /\ CodesInv' /\ verify' = verify /\ provider' = provider /\ Continue(t, <<>>)
      /\ former' = former /\ waiting' = waiting /\ activated' = activated
  BY SameCodes DEF ResetTransaction, Coded
<1>3. PICK row : row = [reset[o.x] EXCEPT !.used = TRUE]
  OBVIOUS
<1>4. row \in ResetRow /\ reset' = [reset EXCEPT ![o.x] = row] /\ reset[o.x].setup \in BOOLEAN
  BY <1>1, <1>3 DEF ResetTransaction, ResetRow, AccountsInv, TokensInv
<1>5. TokensMove
  BY <1>1, <1>2, <1>4, ResetUpdated
<1>6. PersonsMove
  <2>1. CASE ~Exists(o.p)
    BY <1>2, <2>1, SamePersons DEF ResetTransaction, Persons
  <2>2. CASE Exists(o.p)
    <3>1. user[o.p] \in UserRow /\ activated \subseteq People
      BY <1>1, <2>2 DEF AccountsInv, UsersInv, Exists
    <3>2. PICK new : new = [user[o.p] EXCEPT !.pw = TRUE, !.verified = TRUE, !.active = @ \/ reset[o.x].setup]
      OBVIOUS
    <3>3. new \in UserRow /\ new.pw /\ new.verified /\ new.sso = user[o.p].sso
      BY <1>4, <3>1, <3>2 DEF UserRow
    <3>4. SetUser(o.p, new)
      BY <2>2, <3>2 DEF ResetTransaction
    <3>. QED
      BY <1>1, <1>2, <2>2, <3>1, <3>3, <3>4, UserUpdated
  <2>. QED
    BY <2>1, <2>2
<1>. QED
  BY <1>1, <1>2, <1>5, <1>6, GoesOn, NoMore

LEMMA LinkAccountStep ==
    ASSUME AccountsInv, NEW t \in Tasks, Busy(t), NEW o, o = Head(task[t]), LinkAccount(t, o)
    PROVE  Effects
<1>1. o \in Instruction /\ o.do = "link" /\ o.p \in People /\ o.x \in Grant
  BY HeadFacts, InstructionTypes DEF LinkAccount
<1>2. TokensMove /\ CodesInv' /\ former' = former /\ waiting' = waiting /\ activated' = activated
  BY SameTokens, SameCodes DEF LinkAccount, Coded
<1>3. CASE ~Exists(o.p)
  <2>1. GiveUp(t) /\ PersonsMove
    BY <1>2, <1>3, SamePersons DEF LinkAccount, Persons
  <2>. QED
    BY <1>1, <1>2, <2>1, Ends
<1>4. CASE Exists(o.p)
  <2>1. user[o.p] \in UserRow /\ activated \subseteq People
    BY <1>1, <1>4 DEF AccountsInv, UsersInv, Exists
  <2>2. PICK admin : admin = IF o.x.oidc THEN o.x.admin ELSE user[o.p].admin
    OBVIOUS
  <2>3. admin \in BOOLEAN
    BY <1>1, <2>1, <2>2 DEF UserRow, Grant
  <2>4. PICK row : row = [user[o.p] EXCEPT !.sso = TRUE, !.admin = admin]
    OBVIOUS
  <2>5. /\ row \in UserRow /\ row.sso /\ row.pw = user[o.p].pw /\ row.verified = user[o.p].verified
        /\ row.active = user[o.p].active
    BY <2>1, <2>3, <2>4 DEF UserRow
  <2>6. SetUser(o.p, row) /\ Continue(t, ThenCode(o.p, admin, o.x.mobile))
    BY <1>4, <2>2, <2>4 DEF LinkAccount
  <2>7. PersonsMove
    BY <1>1, <1>2, <1>4, <2>1, <2>5, <2>6, UserUpdated
  <2>8. PICK i : i = Op("code", o.p, [admin |-> admin, challenge |-> o.x.mobile])
    OBVIOUS
  <2>9. i \in Instruction /\ i.do = "code" /\ ThenCode(o.p, admin, o.x.mobile) = <<i>>
    BY <1>1, <2>3, <2>8 DEF Op, Instruction, Grant, ThenCode
  <2>10. <<i>> \in Seq(Instruction) /\ Backed(<<i>>, reset')
    BY <2>9, OneMore
  <2>. QED
    BY <1>1, <1>2, <2>6, <2>7, <2>9, <2>10, GoesOn
<1>. QED
  BY <1>3, <1>4

LEMMA CodeStep ==
    ASSUME AccountsInv, NEW t \in Tasks, Busy(t), NEW o, o = Head(task[t]), create_exchange_code_with_sso(t, o)
    PROVE  Effects
<1>1. o \in Instruction /\ o.do = "code" /\ o.p \in People /\ o.x \in [admin : BOOLEAN, challenge : BOOLEAN]
  BY HeadFacts, InstructionTypes DEF create_exchange_code_with_sso
<1>2. PersonsMove /\ TokensMove /\ Continue(t, <<>>)
  BY SamePersons, SameTokens DEF create_exchange_code_with_sso
<1>3. PICK c \in Codes \ seen :
         /\ code' = [code EXCEPT ![c] = [who |-> o.p, admin |-> o.x.admin, challenge |-> o.x.challenge]]
         /\ seen' = seen \cup {c}
  BY DEF create_exchange_code_with_sso
<1>4. [who |-> o.p, admin |-> o.x.admin, challenge |-> o.x.challenge] \in CodeRow
  BY <1>1 DEF CodeRow
<1>5. CodesInv'
  BY <1>3, <1>4 DEF AccountsInv, CodesInv
<1>. QED
  BY <1>1, <1>2, <1>5, GoesOn, NoMore

LEMMA DeleteUserStep ==
    ASSUME AccountsInv, NEW t \in Tasks, Busy(t), NEW o, o = Head(task[t]), DeleteUser(t, o)
    PROVE  Effects
<1>1. o \in Instruction /\ o.do = "delete" /\ o.p \in People
  BY HeadFacts DEF DeleteUser
<1>2. TokensMove /\ CodesInv' /\ former' = former /\ waiting' = waiting /\ activated' = activated
  BY SameTokens, SameCodes DEF DeleteUser, Coded
<1>3. CASE ~Live(o.p)
  <2>1. GiveUp(t) /\ PersonsMove
    BY <1>2, <1>3, SamePersons DEF DeleteUser, Persons
  <2>. QED
    BY <1>1, <1>2, <2>1, Ends
<1>4. CASE Live(o.p)
  <2>1. Exists(o.p)
    BY <1>4 DEF Live
  <2>2. user[o.p] \in UserRow /\ activated \subseteq People
    BY <1>1, <2>1 DEF AccountsInv, UsersInv, Exists
  <2>3. PICK row : row = [user[o.p] EXCEPT !.active = FALSE, !.deleted = TRUE]
    OBVIOUS
  <2>4. /\ row \in UserRow /\ row.pw = user[o.p].pw /\ row.verified = user[o.p].verified
        /\ row.sso = user[o.p].sso /\ ~row.active
    BY <2>2, <2>3 DEF UserRow
  <2>5. SetUser(o.p, row) /\ Continue(t, <<>>)
    BY <1>4, <2>3 DEF DeleteUser
  <2>6. PersonsMove
    BY <1>1, <1>2, <2>1, <2>2, <2>4, <2>5, UserUpdated
  <2>. QED
    BY <1>1, <1>2, <2>5, <2>6, GoesOn, NoMore
<1>. QED
  BY <1>3, <1>4

LEMMA WipeUserStep ==
    ASSUME AccountsInv, NEW t \in Tasks, Busy(t), NEW o, o = Head(task[t]), WipeUser(t, o)
    PROVE  Effects
<1>1. o \in Instruction /\ o.do = "wipe" /\ o.p \in People
  BY HeadFacts DEF WipeUser
<1>2. CodesInv' /\ Continue(t, <<>>) /\ waiting' = waiting /\ activated' = activated /\ provider' = provider
  BY SameCodes DEF WipeUser, Coded
<1>3. /\ user \in [People -> UserRow \cup {None}] /\ former \subseteq People /\ waiting \subseteq People /\ activated \subseteq People
      /\ reset \in [Resets -> ResetRow \cup {None}] /\ provider \in ProviderRow \cup {None}
      /\ verify \in [People -> [n : Nat, used : BOOLEAN, mailed : BOOLEAN]]
  BY DEF AccountsInv, UsersInv, TokensInv
<1>4. NoToken \in [n : Nat, used : BOOLEAN, mailed : BOOLEAN]
  BY DEF NoToken
<1>5. /\ user' \in [People -> UserRow \cup {None}] /\ user'[o.p] = None /\ \A p \in People \ {o.p} : user'[p] = user[p]
      /\ verify' \in [People -> [n : Nat, used : BOOLEAN, mailed : BOOLEAN]] /\ verify'[o.p] = NoToken
      /\ \A p \in People \ {o.p} : verify'[p] = verify[p]
      /\ former' = former \cup {o.p}
  BY <1>1, <1>3, <1>4 DEF WipeUser
<1>6. PersonsMove
  <2>1. \A p \in People : UserMoves(p)
    BY <1>1, <1>5 DEF UserMoves
  <2>. QED
    BY <1>1, <1>2, <1>3, <1>5, <2>1 DEF PersonsMove
<1>7. ASSUME NEW r \in Resets PROVE reset'[r] \in ResetRow \cup {None} /\ (reset[r] # None => reset'[r] # None)
  <2>1. reset'[r] = IF reset[r] = None THEN None
                    ELSE IF reset[r].who = o.p THEN [reset[r] EXCEPT !.who = None, !.old = TRUE] ELSE reset[r]
    BY DEF WipeUser
  <2>2. CASE reset[r] = None
    BY <2>1, <2>2
  <2>3. CASE reset[r] # None
    <3>1. reset[r] \in ResetRow
      BY <1>3, <2>3
    <3>2. [reset[r] EXCEPT !.who = None, !.old = TRUE] \in ResetRow
      BY <3>1 DEF ResetRow
    <3>3. reset'[r] \in ResetRow
      BY <2>1, <2>3, <3>1, <3>2
    <3>. QED
      BY <3>3, AccountsAssumption
  <2>. QED
    BY <2>2, <2>3
<1>8. reset' \in [Resets -> ResetRow \cup {None}]
  <2>1. DOMAIN reset' = Resets /\ reset' = [r \in Resets |-> reset'[r]]
    BY DEF WipeUser
  <2>. QED
    BY <1>7, <2>1
<1>9. TokensMove
  <2>1. \A p \in People : VerifyMoves(p)
    BY <1>5 DEF VerifyMoves
  <2>. QED
    BY <1>2, <1>3, <1>5, <1>7, <1>8, <2>1 DEF TokensMove, ResetsKept
<1>. QED
  BY <1>1, <1>2, <1>6, <1>9, GoesOn, NoMore

\* Every step of a task.
LEMMA TaskSteps == ASSUME AccountsInv, NEW t \in Tasks, TaskStep(t) PROVE Effects
<1>1. PICK o : o = Head(task[t])
  OBVIOUS
<1>2. Busy(t)
  BY DEF TaskStep
<1>3. \/ InsertUser(t, o) \/ create_verification_token(t, o) \/ MailToken(t, o) \/ FirstLogin(t, o)
      \/ MarkUsed(t, o) \/ MarkVerified(t, o)
      \/ FindForReset(t, o) \/ CheckSetup(t, o) \/ InsertReset(t, o) \/ MailReset(t, o) \/ ResetTransaction(t, o)
      \/ ForgetState(t, o) \/ AskProvider(t, o) \/ find_or_create_user(t, o) \/ LinkAccount(t, o)
      \/ create_exchange_code_with_sso(t, o)
      \/ DeleteUser(t, o) \/ WipeUser(t, o)
  BY <1>1, Zenon DEF TaskStep
<1>. QED
  BY <1>1, <1>2, <1>3, InsertUserStep, TokenStep, MailTokenStep, MarkUsedStep, MarkVerifiedStep, PlainSteps, InsertResetStep,
     MailResetStep, ResetTransactionStep, LinkAccountStep, CodeStep, DeleteUserStep, WipeUserStep, Zenon

(***************************************************************************)
(* Requests.                                                               *)
(***************************************************************************)
\* Instructions that name no reset token.
Quiet == {i \in Instruction : i.do \notin {"reset_mail", "set"}}

LEMMA QuietLists == ASSUME NEW list \in Seq(Quiet) PROVE Queue(list) /\ Backed(list, reset)
<1>1. \A i \in 1 .. Len(list) : list[i] \in Quiet
  OBVIOUS
<1>2. list \in Seq(Instruction)
  BY <1>1 DEF Quiet
<1>3. Backed(list, reset)
  BY <1>1 DEF Backed, Quiet
<1>. QED
  BY <1>2, <1>3 DEF Queue

LEMMA RegisterStep ==
    ASSUME AccountsInv, NEW t \in Tasks, NEW p \in People, NEW haspw \in BOOLEAN, NEW site_url \in BOOLEAN,
           register(t, p, haspw, site_url)
    PROVE  Effects
<1>1. NewUser(haspw, FALSE, haspw, FALSE) \in InsertRow
  BY DEF NewUser, InsertRow, UserRow, Accepted
<1>2. PICK row \in InsertRow : row = NewUser(haspw, FALSE, haspw, FALSE)
  BY <1>1
<1>3. Op("insert", p, row) \in Quiet /\ \A do \in {"token", "setup", "login"} : Op(do, p, None) \in Quiet
  BY DEF Op, Instruction, Quiet
<1>4. \A i \in Quiet : <<i>> \in Seq(Quiet)
  OBVIOUS
<1>. DEFINE mails == IF ~site_url THEN <<>> ELSE IF haspw THEN send_verification_email(p) ELSE send_password_setup_email(p)
            last == IF haspw THEN <<Op("login", p, None)>> ELSE <<>>
<1>5. <<Op("insert", p, row)>> \in Seq(Quiet) /\ mails \in Seq(Quiet) /\ last \in Seq(Quiet)
  <2>1. send_verification_email(p) \in Seq(Quiet) /\ send_password_setup_email(p) \in Seq(Quiet)
    BY <1>3, <1>4 DEF send_verification_email, send_password_setup_email
  <2>2. <<>> \in Seq(Quiet) /\ <<Op("login", p, None)>> \in Seq(Quiet)
    BY <1>3, <1>4
  <2>. QED
    BY <1>3, <1>4, <2>1, <2>2
<1>6. PICK a \in Seq(Quiet), b \in Seq(Quiet), c \in Seq(Quiet) : a = <<Op("insert", p, row)>> /\ b = mails /\ c = last
  BY <1>5, Zenon
<1>7. Begin(t, a \o (b \o c))
  BY <1>2, <1>6 DEF register, AfterRegistration
<1>8. a \o (b \o c) \in Seq(Quiet)
  OBVIOUS
<1>9. UNCHANGED Persons /\ UNCHANGED Tokens /\ provider' = provider /\ UNCHANGED Coded
  BY DEF register
<1>. QED
  BY <1>7, <1>8, <1>9, QuietLists, BeginOn

\* Requests that become a task.
LEMMA RequestSteps ==
    ASSUME AccountsInv, NEW t \in Tasks, NEW p \in People,
           \/ resend_verification(t, p) \/ verify_token(t, p) \/ request_password_reset(t, p)
           \/ \E r \in Resets : reset_password(t, r)
           \/ \E s \in States : oauth_callback(t, s, p)
           \/ \E a \in People : delete_admin_user(t, a, p) \/ wipe_user(t, a, p)
    PROVE  Effects
<1>1. UNCHANGED Persons /\ UNCHANGED Tokens /\ provider' = provider /\ UNCHANGED Coded
  BY DEF resend_verification, verify_token, request_password_reset, reset_password, oauth_callback, delete_admin_user, wipe_user
<1>2. ASSUME NEW list \in Seq(Quiet), Begin(t, list) PROVE Effects
  BY <1>1, <1>2, QuietLists, BeginOn
<1>3. ASSUME NEW do \in {"token", "find", "delete", "wipe"}, Begin(t, <<Op(do, p, None)>>) PROVE Effects
  <2>1. Op(do, p, None) \in Quiet
    BY <1>3 DEF Op, Instruction, Quiet
  <2>2. <<Op(do, p, None)>> \in Seq(Quiet)
    BY <2>1
  <2>. QED
    BY <1>2, <1>3, <2>2
<1>4. CASE resend_verification(t, p)
  BY <1>3, <1>4 DEF resend_verification, send_verification_email
<1>5. CASE request_password_reset(t, p)
  BY <1>3, <1>5 DEF request_password_reset
<1>6. CASE \E a \in People : delete_admin_user(t, a, p) \/ wipe_user(t, a, p)
  BY <1>3, <1>6 DEF delete_admin_user, wipe_user
<1>7. CASE verify_token(t, p)
  <2>1. verify[p].n \in Nat \ {0}
    BY <1>7 DEF verify_token, AccountsInv, TokensInv
  <2>2. PICK n \in Nat \ {0} : n = verify[p].n
    BY <2>1
  <2>3. Begin(t, Verification(p, n))
    BY <1>7, <2>2 DEF verify_token, Verification
  <2>4. Queue(Verification(p, n)) /\ Backed(Verification(p, n), reset)
    BY DEF Queue, Backed, Verification, Op
  <2>. QED
    BY <1>1, <2>3, <2>4, BeginOn
<1>8. ASSUME NEW r \in Resets, reset_password(t, r) PROVE Effects
  <2>1. reset[r] # None /\ reset[r].who \in People
    BY <1>8 DEF reset_password, AccountsInv, TokensInv, ResetRow
  <2>2. PICK i : i = Op("set", reset[r].who, r)
    OBVIOUS
  <2>3. i \in Instruction /\ i.x = r
    BY <2>1, <2>2 DEF Op, Instruction
  <2>4. Begin(t, <<i>>)
    BY <1>8, <2>2 DEF reset_password
  <2>5. Queue(<<i>>) /\ Backed(<<i>>, reset)
    BY <2>1, <2>3 DEF Queue, Backed
  <2>. QED
    BY <1>1, <2>4, <2>5, BeginOn
<1>9. ASSUME NEW s \in States, oauth_callback(t, s, p) PROVE Effects
  <2>1. PICK a : a = Op("forget", p, s)
    OBVIOUS
  <2>2. PICK b : b = Op("provider", p, [s |-> s, mobile |-> ostate[s] = "mobile"])
    OBVIOUS
  <2>3. a \in Quiet /\ b \in Quiet
    BY <2>1, <2>2 DEF Op, Instruction, Quiet
  <2>4. <<a, b>> \in Seq(Quiet)
    BY <2>3
  <2>5. Begin(t, <<a, b>>)
    BY <1>9, <2>1, <2>2 DEF oauth_callback
  <2>. QED
    BY <1>2, <2>4, <2>5
<1>. QED
  BY <1>4, <1>5, <1>6, <1>7, <1>8, <1>9

\* A request of one statement, or time that passes: the tasks go on as they were.
LEMMA TasksUntouched ==
    ASSUME AccountsInv, task' = task, faults' \in {faults, faults + 1}, PersonsMove, TokensMove, CodesInv'
    PROVE  Effects
BY TasksStay DEF Effects, TokensMove

LEMMA CodeGone ==
    ASSUME AccountsInv, NEW c \in Codes, code' = [code EXCEPT ![c] = None], seen' = seen
    PROVE  CodesInv'
BY DEF AccountsInv, CodesInv

LEMMA StatementSteps ==
    ASSUME AccountsInv, NEW p \in People,
           \/ login(p)
           \/ \E s \in States, kind \in {"web", "mobile"} : oauth_login(s, kind)
           \/ \E c \in Codes : exchange_token(c) \/ \E fits \in BOOLEAN : login_sso_code_exchange(c, fits)
           \/ ProviderRequest(p)
    PROVE  Effects
<1>1. task' = task /\ faults' = faults /\ UNCHANGED Persons /\ UNCHANGED Tokens
  BY DEF login, oauth_login, exchange_token, login_sso_code_exchange, ProviderRequest, delete_sso_config, create_sso_config,
         update_sso_config, SetProvider, Statement
<1>2. CodesInv'
  <2>1. UNCHANGED <<code, seen>> \/ \E c \in Codes : code' = [code EXCEPT ![c] = None] /\ seen' = seen
    BY DEF login, oauth_login, exchange_token, login_sso_code_exchange, ProviderRequest, delete_sso_config, create_sso_config,
           update_sso_config, SetProvider, exchange_code_internal, Coded
  <2>. QED
    BY <2>1, SameCodes, CodeGone
<1>3. provider' \in ProviderRow \cup {None}
  <2>1. provider \in ProviderRow \cup {None}
    BY DEF AccountsInv, TokensInv
  <2>. QED
    BY <2>1 DEF login, oauth_login, exchange_token, login_sso_code_exchange, ProviderRequest, delete_sso_config, create_sso_config,
           update_sso_config, SetProvider
<1>4. TokensMove
  BY <1>1, <1>3 DEF TokensMove, Tokens, ResetsKept, VerifyMoves, AccountsInv, TokensInv
<1>. QED
  BY <1>1, <1>2, <1>4, SamePersons, TasksUntouched

\* Changes of an account in one statement.
LEMMA UpdateSteps ==
    ASSUME AccountsInv, NEW p \in People,
           \/ \E active \in BOOLEAN : SetActive(p, active)
           \/ \E admin \in BOOLEAN : SetAdmin(p, admin)
           \/ SetPassword(p)
           \/ \E a \in People, admin \in BOOLEAN : create_admin_user(a, p, admin)
    PROVE  Effects
<1>. USE DEF UpdateUser
<1>1. task' = task /\ faults' = faults /\ former' = former /\ waiting' = waiting /\ TokensMove /\ CodesInv'
  <2>1. /\ task' = task /\ faults' = faults /\ former' = former /\ waiting' = waiting
        /\ UNCHANGED Tokens /\ provider' = provider /\ UNCHANGED Coded
    BY DEF SetActive, SetAdmin, SetPassword, create_admin_user, Statement
  <2>. QED
    BY <2>1, SameTokens, SameCodes DEF Coded
<1>2. /\ activated \subseteq People /\ user \in [People -> UserRow \cup {None}]
      /\ former \subseteq People /\ waiting \subseteq People
  BY DEF AccountsInv, UsersInv
<1>3. ASSUME NEW active \in BOOLEAN, SetActive(p, active) PROVE PersonsMove
  <2>1. Exists(p) /\ user[p] \in UserRow
    BY <1>2, <1>3 DEF SetActive, Exists
  <2>2. PICK row : row = [user[p] EXCEPT !.active = active]
    OBVIOUS
  <2>3. /\ row \in UserRow /\ row.pw = user[p].pw /\ row.sso = user[p].sso
        /\ row.verified = user[p].verified /\ row.active = active
    BY <2>1, <2>2 DEF UserRow
  <2>4. SetUser(p, row) /\ activated' = (IF active THEN activated \cup {p} ELSE activated)
    BY <1>3, <2>2 DEF SetActive
  <2>. QED
    BY <1>1, <1>2, <2>1, <2>3, <2>4, UserUpdated
<1>4. ASSUME NEW admin \in BOOLEAN, SetAdmin(p, admin) PROVE PersonsMove
  <2>1. Exists(p) /\ user[p] \in UserRow /\ activated' = activated
    BY <1>2, <1>4 DEF SetAdmin, Exists
  <2>2. PICK row : row = [user[p] EXCEPT !.admin = admin]
    OBVIOUS
  <2>3. /\ row \in UserRow /\ row.pw = user[p].pw /\ row.sso = user[p].sso
        /\ row.verified = user[p].verified /\ row.active = user[p].active
    BY <2>1, <2>2 DEF UserRow
  <2>4. SetUser(p, row)
    BY <1>4, <2>2 DEF SetAdmin
  <2>. QED
    BY <1>1, <1>2, <2>1, <2>3, <2>4, UserUpdated
<1>5. CASE SetPassword(p)
  <2>1. Exists(p) /\ user[p] \in UserRow /\ activated' = activated
    BY <1>2, <1>5 DEF SetPassword, Exists
  <2>2. PICK row : row = [user[p] EXCEPT !.pw = TRUE]
    OBVIOUS
  <2>3. /\ row \in UserRow /\ row.pw /\ row.sso = user[p].sso
        /\ row.verified = user[p].verified /\ row.active = user[p].active
    BY <2>1, <2>2 DEF UserRow
  <2>4. SetUser(p, row)
    BY <1>5, <2>2 DEF SetPassword
  <2>5. PersonsMove
    BY <1>1, <1>2, <2>1, <2>3, <2>4, UserUpdated
  <2>. QED
    BY <1>1, <2>5, TasksUntouched
<1>6. ASSUME NEW a \in People, NEW admin \in BOOLEAN, create_admin_user(a, p, admin) PROVE PersonsMove
  <2>1. ~Exists(p) /\ p \notin former /\ p \notin waiting /\ activated' = activated
    BY <1>6 DEF create_admin_user, AccountsInv, UsersInv
  <2>2. PICK row : row = NewUser(TRUE, admin, TRUE, FALSE)
    OBVIOUS
  <2>3. row \in InsertRow /\ row \in UserRow /\ row.pw
    BY <2>2 DEF NewUser, InsertRow, UserRow, Accepted
  <2>4. user' = [user EXCEPT ![p] = row]
    BY <1>6, <2>2 DEF create_admin_user, SetUser
  <2>5. user' \in [People -> UserRow \cup {None}] /\ user'[p] = row /\ \A q \in People \ {p} : user'[q] = user[q]
    BY <1>2, <2>3, <2>4
  <2>6. \A q \in People : UserMoves(q)
    BY <1>1, <2>1, <2>3, <2>5 DEF UserMoves
  <2>. QED
    BY <1>1, <1>2, <2>1, <2>5, <2>6 DEF PersonsMove
<1>. QED
  BY <1>1, <1>3, <1>4, <1>5, <1>6, TasksUntouched

LEMMA VisitorSteps == ASSUME AccountsInv, NEW t \in Tasks, NEW p \in People, Visitor(t, p) PROVE Effects
<1>1. CASE \E haspw, site_url \in BOOLEAN : register(t, p, haspw, site_url)
  BY <1>1, RegisterStep
<1>2. CASE \/ resend_verification(t, p) \/ verify_token(t, p) \/ request_password_reset(t, p)
           \/ \E r \in Resets : reset_password(t, r)
           \/ \E s \in States : oauth_callback(t, s, p)
  BY <1>2, RequestSteps
<1>3. CASE \/ login(p)
           \/ \E s \in States, kind \in {"web", "mobile"} : oauth_login(s, kind)
           \/ \E c \in Codes : exchange_token(c) \/ \E fits \in BOOLEAN : login_sso_code_exchange(c, fits)
  BY <1>3, StatementSteps
<1>4. CASE change_password(p)
  BY <1>4, UpdateSteps DEF change_password
<1>. QED
  BY <1>1, <1>2, <1>3, <1>4 DEF Visitor, v4_login, v4_send_email_verification, verify_email, v4_verify_email

LEMMA AdministratorSteps ==
    ASSUME AccountsInv, NEW t \in Tasks, NEW a \in People, NEW p \in People, Administrator(t, a, p)
    PROVE  Effects
<1>1. CASE delete_admin_user(t, a, p) \/ wipe_user(t, a, p)
  BY <1>1, RequestSteps
<1>2. CASE \E x \in BOOLEAN : SetActive(p, x) \/ SetAdmin(p, x) \/ create_admin_user(a, p, x)
  BY <1>2, UpdateSteps
<1>3. CASE SetPassword(p)
  BY <1>3, UpdateSteps
<1>. QED
  BY <1>1, <1>2, <1>3 DEF Administrator, update_admin_user, update_user_roles, update_user_active, promote_user, demote_user,
     deactivate_user, reactivate_user, update_user_password

(***************************************************************************)
(* Time and faults.                                                        *)
(***************************************************************************)
LEMMA TimeSteps == ASSUME AccountsInv, Time PROVE Effects
<1>1. task' = task /\ faults' = faults + 1 /\ PersonsMove
  <2>1. task' = task /\ faults' = faults + 1 /\ UNCHANGED Persons
    BY DEF Time, ResetExpires, CodeExpires, StateExpires, SessionExpires, Fault
  <2>. QED
    BY <2>1, SamePersons
<1>2. ASSUME NEW r \in Resets, ResetExpires(r) PROVE Effects
  <2>1. reset[r] \in ResetRow
    BY <1>2 DEF ResetExpires, AccountsInv, TokensInv
  <2>2. PICK row : row = [reset[r] EXCEPT !.old = TRUE]
    OBVIOUS
  <2>3. row \in ResetRow /\ reset' = [reset EXCEPT ![r] = row] /\ UNCHANGED <<verify, provider>> /\ UNCHANGED Coded
    BY <1>2, <2>1, <2>2 DEF ResetExpires, ResetRow, AccountsInv, TokensInv
  <2>. QED
    BY <1>1, <2>3, ResetUpdated, SameCodes, TasksUntouched DEF Coded
<1>3. CASE ~\E r \in Resets : ResetExpires(r)
  <2>1. /\ UNCHANGED Tokens /\ provider' = provider
        /\ UNCHANGED <<code, seen>> \/ \E c \in Codes : code' = [code EXCEPT ![c] = None] /\ seen' = seen
    BY <1>3 DEF Time, CodeExpires, StateExpires, SessionExpires, Coded
  <2>. QED
    BY <1>1, <2>1, SameTokens, SameCodes, CodeGone, TasksUntouched
<1>. QED
  BY <1>2, <1>3

LEMMA FailureSteps == ASSUME AccountsInv, Crash \/ \E t \in Tasks : Fails(t) PROVE Effects
<1>1. faults \in Nat /\ faults' = faults + 1 /\ UNCHANGED Persons /\ UNCHANGED Tokens /\ provider' = provider /\ UNCHANGED Coded
  BY DEF AccountsInv, SpentInv, Crash, Fails, Fault
<1>2. PersonsMove /\ TokensMove /\ CodesInv' /\ ResetsKept /\ faults' # 0
  BY <1>1, SamePersons, SameTokens, SameCodes DEF Coded, TokensMove
<1>3. CASE Crash
  <2>1. Queue(<<>>) /\ Backed(<<>>, reset')
    BY NoMore DEF Queue
  <2>2. DOMAIN task' = Tasks /\ \A t \in Tasks : task'[t] = <<>>
    BY <1>3 DEF Crash
  <2>3. \A t \in Tasks : Queue(task'[t]) /\ Backed(task'[t], reset')
    BY <2>1, <2>2
  <2>4. TasksInv'
    BY <2>2, <2>3 DEF TasksInv, Queue, Backed
  <2>5. PendingMoves
    BY <1>2 DEF PendingMoves
  <2>. QED
    BY <1>1, <1>2, <2>4, <2>5 DEF Effects
<1>4. ASSUME NEW t \in Tasks, Fails(t) PROVE Effects
  <2>1. PICK list : list = IF Head(task[t]).do \in {"mail", "token"} THEN Tail(task[t]) ELSE <<>>
    OBVIOUS
  <2>2. task' = [task EXCEPT ![t] = list] /\ Busy(t)
    BY <1>4, <2>1 DEF Fails
  <2>3. Queue(task[t]) /\ Backed(task[t], reset) /\ Headed(task[t])
    BY <2>2, QueueFacts DEF AccountsInv, TasksInv, Busy
  <2>4. Queue(list) /\ Backed(list, reset)
    <3>1. Queue(<<>>) /\ Backed(<<>>, reset)
      BY DEF Queue, Backed
    <3>2. Queue(Tail(task[t])) /\ Backed(Tail(task[t]), reset)
      BY <2>3 DEF Queue, Headed, Backed
    <3>. QED
      BY <2>1, <3>1, <3>2
  <2>5. Backed(list, reset')
    BY <1>2, <2>4, BackedStays
  <2>6. TasksInv' /\ PendingMoves
    BY <1>2, <2>2, <2>4, <2>5, TaskGoesOn
  <2>. QED
    BY <1>1, <1>2, <2>6 DEF Effects
<1>. QED
  BY <1>3, <1>4

LEMMA StepEffects == ASSUME AccountsInv, Next PROVE Effects
BY StatementSteps, VisitorSteps, AdministratorSteps, TimeSteps, FailureSteps, TaskSteps DEF Next

LEMMA StutterEffects == ASSUME AccountsInv, UNCHANGED AccountVars PROVE Effects
<1>1. UNCHANGED Persons /\ UNCHANGED Tokens /\ provider' = provider /\ UNCHANGED Coded /\ task' = task /\ faults' = faults
  BY DEF AccountVars
<1>. QED
  BY <1>1, SamePersons, SameTokens, SameCodes, TasksUntouched DEF Coded

LEMMA InitInv == AccountsInit => AccountsInv
<1>. SUFFICES ASSUME AccountsInit PROVE AccountsInv
  OBVIOUS
<1>. USE DEF AccountsInit
<1>1. TasksInv
  BY DEF TasksInv, Queue, Backed
<1>2. ASSUME NEW p \in Admins
      PROVE  p \in People /\ user[p] = [active |-> TRUE, deleted |-> FALSE, admin |-> TRUE, pw |-> TRUE, verified |-> TRUE, sso |-> FALSE]
  BY AccountsAssumption DEF NewUser
<1>3. \A p \in Admins : p \in People /\ user[p] \in UserRow /\ user[p].pw
  BY <1>2 DEF UserRow
<1>4. \A p \in People \ Admins : user[p] = None
  OBVIOUS
<1>5. user \in [People -> UserRow \cup {None}]
  BY <1>3, <1>4
<1>6. UsersInv
  BY <1>3, <1>4, <1>5 DEF UsersInv, Exists, Accepted
<1>7. \A p \in People : verify[p] = NoToken /\ verify[p].n = 0 /\ ~verify[p].used /\ ~verify[p].mailed
  BY DEF NoToken
<1>8. TokensInv
  <2>1. NoToken \in [n : Nat, used : BOOLEAN, mailed : BOOLEAN]
    BY DEF NoToken
  <2>2. verify \in [People -> [n : Nat, used : BOOLEAN, mailed : BOOLEAN]] /\ reset \in [Resets -> ResetRow \cup {None}]
    BY <2>1
  <2>3. provider \in ProviderRow \cup {None}
    <3>1. [oidc |-> TRUE, active |-> TRUE, provisions |-> TRUE] \in ProviderRow
      BY DEF ProviderRow
    <3>2. provider \in {None, [oidc |-> TRUE, active |-> TRUE, provisions |-> TRUE]}
      BY Zenon
    <3>. QED
      BY <3>1, <3>2, Zenon
  <2>. QED
    BY <1>7, <2>2, <2>3 DEF TokensInv
<1>9. SpentInv /\ CodesInv
  BY <1>7 DEF SpentInv, CodesInv
<1>. QED
  BY <1>1, <1>6, <1>8, <1>9 DEF AccountsInv

\* What every reachable state of the accounts satisfies: rows and lists of instructions are well
\* formed, accepted by the trigger and backed by the tokens they name.
THEOREM AccountsInvariant == AccountsSpec => []AccountsInv
<1>1. AccountsInv /\ [Next]_AccountVars => AccountsInv'
  BY StepEffects, StutterEffects, EffectsKeep
<1>. QED
  BY InitInv, <1>1, PTL DEF AccountsSpec

\* However requests interleave, fail or are cut short by a crash, a person who registered without a
\* password is active only with a password or an administrator's word (auth.rs).
THEOREM InactiveUntilSetUpAlways == AccountsSpec => []InactiveUntilSetUp
<1>1. AccountsInv => InactiveUntilSetUp
  BY DEF AccountsInv, UsersInv, InactiveUntilSetUp, Active, Live, Exists
<1>. QED
  BY <1>1, AccountsInvariant, PTL

\* Without a failure, a verification token that was used has verified its account, or the trigger
\* refused it (email_verification.rs, verify_token).
THEOREM SpentIsVerifiedAlways == AccountsSpec => []SpentIsVerified
<1>1. ASSUME AccountsInv, NEW p \in People, Pending(p) PROVE Doing({"use", "verified"})
  <2>1. PICK t \in Tasks : task[t] = <<Op("verified", p, None)>>
    BY <1>1 DEF Pending
  <2>2. 1 \in 1 .. Len(task[t]) /\ task[t][1].do = "verified"
    BY <2>1 DEF Op
  <2>. QED
    BY <2>2 DEF Doing
<1>2. AccountsInv => SpentIsVerified
  BY <1>1 DEF AccountsInv, SpentInv, SpentIsVerified
<1>. QED
  BY <1>2, AccountsInvariant, PTL

(***************************************************************************)
(* Exchange codes implement SingleUse.                                     *)
(***************************************************************************)
\* What a step does to the codes.
Issued(c) == c \notin seen /\ code'[c] # None /\ seen' = seen \cup {c} /\ granted' = granted
Ended(c) ==
    /\ code[c] # None /\ code'[c] = None /\ seen' = seen
    /\ granted' = granted \/ granted' = [granted EXCEPT ![c] = @ + 1]
CodesMove ==
    \/ UNCHANGED Coded
    \/ \E c \in Codes : (Issued(c) \/ Ended(c)) /\ \A d \in Codes \ {c} : code'[d] = code[d]

LEMMA CodeGoes ==
    ASSUME AccountsInv, NEW c \in Codes, code[c] # None, code' = [code EXCEPT ![c] = None], seen' = seen,
           granted' = granted \/ granted' = [granted EXCEPT ![c] = @ + 1]
    PROVE  CodesMove
BY DEF AccountsInv, CodesInv, CodesMove, Ended

LEMMA CodesMoves == ASSUME AccountsInv, Next PROVE CodesMove
<1>1. ASSUME NEW t \in Tasks, TaskStep(t) PROVE CodesMove
  <2>1. PICK o : o = Head(task[t])
    OBVIOUS
  <2>2. UNCHANGED Coded \/ create_exchange_code_with_sso(t, o)
    BY <1>1, <2>1 DEF TaskStep, InsertUser, create_verification_token, MailToken, FirstLogin, MarkUsed, MarkVerified, FindForReset,
       CheckSetup, InsertReset, MailReset, ResetTransaction, ForgetState, AskProvider, find_or_create_user, LinkAccount,
       DeleteUser, WipeUser
  <2>3. CASE create_exchange_code_with_sso(t, o)
    <3>1. o.p \in People /\ o.x \in [admin : BOOLEAN, challenge : BOOLEAN]
      BY <1>1, <2>1, <2>3, HeadFacts, InstructionTypes DEF TaskStep, create_exchange_code_with_sso
    <3>2. PICK row : row = [who |-> o.p, admin |-> o.x.admin, challenge |-> o.x.challenge]
      OBVIOUS
    <3>3. row \in CodeRow /\ row # None
      BY <3>1, <3>2, AccountsAssumption DEF CodeRow
    <3>4. PICK c \in Codes \ seen : code' = [code EXCEPT ![c] = row] /\ seen' = seen \cup {c} /\ granted' = granted
      BY <2>3, <3>2 DEF create_exchange_code_with_sso
    <3>5. Issued(c) /\ \A d \in Codes \ {c} : code'[d] = code[d]
      BY <3>3, <3>4 DEF Issued, AccountsInv, CodesInv
    <3>. QED
      BY <3>5 DEF CodesMove
  <2>. QED
    BY <2>2, <2>3 DEF CodesMove
<1>2. ASSUME NEW c \in Codes, exchange_token(c) \/ \E fits \in BOOLEAN : login_sso_code_exchange(c, fits) PROVE CodesMove
  BY <1>2, CodeGoes DEF exchange_token, login_sso_code_exchange, exchange_code_internal
<1>3. ASSUME NEW c \in Codes, CodeExpires(c) PROVE CodesMove
  BY <1>3, CodeGoes DEF CodeExpires
<1>4. ASSUME NEW t \in Tasks, NEW p \in People, Visitor(t, p) PROVE CodesMove
  <2>1. UNCHANGED Coded \/ \E c \in Codes : exchange_token(c) \/ \E fits \in BOOLEAN : login_sso_code_exchange(c, fits)
    BY <1>4 DEF Visitor, register, login, v4_login, resend_verification, v4_send_email_verification, verify_email, v4_verify_email,
       verify_token, request_password_reset, reset_password, oauth_callback, oauth_login, change_password, SetPassword, UpdateUser
  <2>. QED
    BY <1>2, <2>1 DEF CodesMove
<1>5. ASSUME NEW t \in Tasks, NEW p \in People, NEW a \in People, Administrator(t, a, p) PROVE UNCHANGED Coded
  BY <1>5 DEF Administrator, create_admin_user, update_admin_user, update_user_roles, update_user_active, promote_user, demote_user,
     deactivate_user, reactivate_user, update_user_password, delete_admin_user, wipe_user, SetActive, SetAdmin, SetPassword, UpdateUser
<1>6. ASSUME NEW a \in People, ProviderRequest(a) PROVE UNCHANGED Coded
  BY <1>6 DEF ProviderRequest, delete_sso_config, create_sso_config, update_sso_config, SetProvider
<1>7. CASE Time
  <2>1. UNCHANGED Coded \/ \E c \in Codes : CodeExpires(c)
    BY <1>7 DEF Time, ResetExpires, StateExpires, SessionExpires
  <2>. QED
    BY <1>3, <2>1 DEF CodesMove
<1>8. Crash \/ (\E t \in Tasks : Fails(t)) => UNCHANGED Coded
  BY DEF Crash, Fails
<1>. QED
  BY <1>1, <1>4, <1>5, <1>6, <1>7, <1>8 DEF Next, CodesMove

\* Exchange codes implement the abstract single-use secret: whatever is presented, expires or is issued
\* in between, a code goes from new to live to spent and grants a session on the way out at most once
\* (oauth_token_exchange.rs, exchange_code_internal).
THEOREM CodesAreSingleUseAlways == AccountsSpec => CodesAreSingleUse
<1>. USE DEF CodePhase
<1>1. AccountsInit => Exchange!Init
  BY DEF AccountsInit, Exchange!Init
<1>2. AccountsInv /\ [Next]_AccountVars => [Exchange!Next]_<<CodePhase, granted>>
  <2>. SUFFICES ASSUME AccountsInv, Next \/ UNCHANGED AccountVars PROVE Exchange!Next \/ UNCHANGED <<CodePhase, granted>>
    OBVIOUS
  <2>1. CodesMove
    BY CodesMoves DEF CodesMove, AccountVars
  <2>2. CASE UNCHANGED Coded
    BY <2>2 DEF Coded
  <2>3. ASSUME NEW c \in Codes, Issued(c), \A d \in Codes \ {c} : code'[d] = code[d] PROVE Exchange!Next
    <3>1. CodePhase[c] = "new" /\ CodePhase' = [CodePhase EXCEPT ![c] = "live"]
      BY <2>3 DEF Issued, AccountsInv, CodesInv
    <3>. QED
      BY <2>3, <3>1 DEF Exchange!Next, Exchange!Issue, Issued
  <2>4. ASSUME NEW c \in Codes, Ended(c), \A d \in Codes \ {c} : code'[d] = code[d] PROVE Exchange!Next
    <3>1. CodePhase[c] = "live" /\ CodePhase' = [CodePhase EXCEPT ![c] = "spent"]
      BY <2>4 DEF Ended, AccountsInv, CodesInv
    <3>. QED
      BY <2>4, <3>1 DEF Exchange!Next, Exchange!Redeem, Exchange!Discard, Ended
  <2>. QED
    BY <2>1, <2>2, <2>3, <2>4 DEF CodesMove
<1>. QED
  BY <1>1, <1>2, AccountsInvariant, PTL DEF AccountsSpec, CodesAreSingleUse, Exchange!Spec

\* The abstract secret keeps its promise: however issuing, redeeming and expiry of the codes
\* interleave, no code grants twice and none grants before it is spent.
THEOREM SingleUseGrants == CodesAreSingleUse => []Exchange!AtMostOnce
<1>1. Exchange!Init => Exchange!AtMostOnce
  BY DEF Exchange!Init, Exchange!AtMostOnce
<1>2. ASSUME Exchange!AtMostOnce, [Exchange!Next]_<<CodePhase, granted>> PROVE Exchange!AtMostOnce'
  <2>. USE <1>2 DEF Exchange!AtMostOnce
  <2>1. ASSUME NEW i \in Codes, Exchange!Issue(i) PROVE Exchange!AtMostOnce'
    BY <2>1 DEF Exchange!Issue
  <2>2. ASSUME NEW i \in Codes, Exchange!Redeem(i) PROVE Exchange!AtMostOnce'
    BY <2>2 DEF Exchange!Redeem
  <2>3. ASSUME NEW i \in Codes, Exchange!Discard(i) PROVE Exchange!AtMostOnce'
    BY <2>3 DEF Exchange!Discard
  <2>. QED
    BY <2>1, <2>2, <2>3 DEF Exchange!Next
<1>. QED
  BY <1>1, <1>2, PTL DEF CodesAreSingleUse, Exchange!Spec

\* So no code grants two sessions, and none that is still live has granted one.
THEOREM CodesGrantOnce == AccountsSpec => []Exchange!AtMostOnce
BY CodesAreSingleUseAlways, SingleUseGrants, PTL
=============================================================================
