----------------------------- MODULE MCServices -----------------------------
(***************************************************************************)
(* The circuit breaker, the email outbox and the accounts, which share     *)
(* nothing: a behaviour stays with the one that its initial state names.   *)
(***************************************************************************)
EXTENDS CircuitBreaker, EmailOutbox, Accounts

VARIABLE service

ServiceVars == <<BreakerVars, OutboxVars, AccountVars, service>>

ServicesInit ==
    /\ service \in {"breaker", "email", "accounts"}
    /\ BreakerInit /\ OutboxInit
    /\ AccountsInit /\ (service # "accounts" => provider = None)

ServicesNext ==
    /\ \/ service = "breaker" /\ BreakerNext /\ UNCHANGED <<OutboxVars, AccountVars>>
       \/ service = "email" /\ OutboxNext /\ UNCHANGED <<BreakerVars, AccountVars>>
       \/ service = "accounts" /\ Next /\ UNCHANGED <<BreakerVars, OutboxVars>>
    /\ UNCHANGED service

\* BreakerFairness and OutboxFairness, each where its part runs.
ServicesFairness ==
    /\ WF_BreakerVars(service = "breaker" /\ PassTime)
    /\ \A c \in Callers :
          /\ WF_BreakerVars(service = "breaker" /\ (Retry(c) \/ OnSuccess(c) \/ OnFailure(c)))
          /\ WF_BreakerVars(service = "breaker" /\ (CheckPasses(c) \/ CheckHalfOpens(c) \/ CheckRejects(c)))
    /\ \A w \in Workers : WF_OutboxVars(service = "email" /\ WorkerStep(w))
    /\ \A e \in Emails : WF_OutboxVars(service = "email" /\ BecomesDue(e))

FairServicesSpec == ServicesInit /\ [][ServicesNext]_ServiceVars /\ ServicesFairness
=============================================================================
