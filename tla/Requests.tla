------------------------------ MODULE Requests ------------------------------
(***************************************************************************)
(* How the handlers that keep their state in the database run: a request   *)
(* is a list of statements, each of them atomic, and the requests of       *)
(* several users interleave between statements.  A request stops when a    *)
(* statement fails, the client goes away or the process stops; what it had *)
(* done stays done.                                                        *)
(***************************************************************************)
EXTENDS Naturals, Sequences

CONSTANTS
    Tasks,
    None,
    MaxEvents   \* bound on requests, failures and what happens outside, together

ASSUME RequestsAssumption == MaxEvents \in Nat

VARIABLES
    task,       \* task -> the statements left to do
    events,     \* requests and failures so far
    trouble     \* whether a request was cut short

RequestVars == <<task, events, trouble>>

RequestsInit ==
    /\ task = [t \in Tasks |-> <<>>]
    /\ events = 0
    /\ trouble = FALSE

Busy(t) == task[t] # <<>>
Idle == \A t \in Tasks : ~Busy(t)
Stmt(do, x) == [do |-> do, x |-> x]
Doing(ops) == \E t \in Tasks : \E i \in 1..Len(task[t]) : task[t][i].do \in ops

Event == events < MaxEvents /\ events' = events + 1

\* The tasks are alike: the first idle one takes the request.
Begin(t, todo) ==
    /\ Event
    /\ ~Busy(t) /\ t = CHOOSE x \in Tasks : ~Busy(x)
    /\ task' = [task EXCEPT ![t] = todo]
    /\ UNCHANGED trouble

\* A request that is one statement after its checks.
Statement == Event /\ UNCHANGED <<task, trouble>>

\* The next statement is done, and these come before the ones left.
Continue(t, more) ==
    /\ task' = [task EXCEPT ![t] = more \o Tail(@)]
    /\ UNCHANGED <<events, trouble>>

\* An answer before the end: the rest is not done.
GiveUp(t) ==
    /\ task' = [task EXCEPT ![t] = <<>>]
    /\ UNCHANGED <<events, trouble>>

Interrupted(t) ==
    /\ Event
    /\ Busy(t)
    /\ task' = [task EXCEPT ![t] = <<>>]
    /\ trouble' = TRUE

=============================================================================
