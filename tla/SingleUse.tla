------------------------------ MODULE SingleUse ------------------------------
(***************************************************************************)
(* What a one-time secret promises: it is issued once, and whatever is     *)
(* done with it, it grants something at most once.  Accounts shows that    *)
(* the exchange codes of services/oauth_token_exchange.rs keep it.         *)
(***************************************************************************)
EXTENDS Naturals

CONSTANT Items

VARIABLES
    phase,    \* item -> "new", "live" or "spent"
    grants    \* item -> how often it granted something

Init ==
    /\ phase = [i \in Items |-> "new"]
    /\ grants = [i \in Items |-> 0]

Issue(i) ==
    /\ phase[i] = "new"
    /\ phase' = [phase EXCEPT ![i] = "live"]
    /\ UNCHANGED grants

Redeem(i) ==
    /\ phase[i] = "live"
    /\ phase' = [phase EXCEPT ![i] = "spent"]
    /\ grants' = [grants EXCEPT ![i] = @ + 1]

\* Expired, or presented in vain.
Discard(i) ==
    /\ phase[i] = "live"
    /\ phase' = [phase EXCEPT ![i] = "spent"]
    /\ UNCHANGED grants

Next == \E i \in Items : Issue(i) \/ Redeem(i) \/ Discard(i)

Spec == Init /\ [][Next]_<<phase, grants>>

\* An item that is not spent has granted nothing, and none has granted twice.
AtMostOnce ==
    /\ phase \in [Items -> {"new", "live", "spent"}]
    /\ grants \in [Items -> Nat]
    /\ \A i \in Items : grants[i] <= IF phase[i] = "spent" THEN 1 ELSE 0

=============================================================================
