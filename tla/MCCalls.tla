------------------------------ MODULE MCCalls ------------------------------
(***************************************************************************)
(* Calls from two initial states, so that few requests go far: there is no *)
(* call yet, or user u1 has started one (start_call) that user u2 has      *)
(* joined over the websocket (handle_ws_join_call).                        *)
(***************************************************************************)
EXTENDS Calls

CONSTANTS u1, u2, c1

StartedCall ==
    [host |-> u1, joined |-> <<u1, u2>>, sharer |-> None, thread |-> 1,
     who |-> [u \in Users |-> [session |-> IF u = u1 THEN "http" ELSE "ws", sharing |-> FALSE]]]

ACallInit ==
    /\ redis = [c \in CallIds |-> IF c = c1 THEN StartedCall ELSE None]
    /\ channel = c1
    /\ active = {c1}
    /\ local = [n \in Nodes |-> [calls |-> redis, index |-> c1]]
    /\ task = [t \in Tasks |-> Idle]
    /\ sfu = [n \in Nodes |-> [c \in CallIds |-> IF c = c1 THEN {<<u1, "http">>, <<u2, "ws">>} ELSE None]]
    /\ timers = [n \in Nodes |-> [c \in CallIds |-> IF c = c1 THEN 1 ELSE 0]]
    /\ enabled = [n \in Nodes |-> TRUE]
    /\ posts = [c \in CallIds |-> IF c = c1 THEN <<"open">> ELSE <<>>]
    /\ requests = 0
    /\ faults = 0
    /\ overlap = 0
    /\ lost = FALSE

\* Either requests may overlap or one of them may fail.  Nothing that Fairness is
\* about changes these counters, so the bound keeps no task and no timeout from running.
Bounded == overlap + faults <= 1 /\ requests <= MaxRequests

MCSpec == (CallsInit \/ ACallInit) /\ [][Next /\ Bounded']_CallVars /\ Fairness

=============================================================================
