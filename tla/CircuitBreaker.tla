--------------------------- MODULE CircuitBreaker ---------------------------
(***************************************************************************)
(* The circuit breaker and the retry loop around calls to external         *)
(* services (backend/src/middleware/reliability.rs), as with_resilience    *)
(* combines them for Turnstile and OIDC discovery.                         *)
(*                                                                         *)
(* check_state, on_success and on_failure each hold the mutex of the       *)
(* circuit state from their first line to their last, so each is one step. *)
(* What is between them is not protected: a call runs, with its retries,   *)
(* for as long as the service takes, and its result is recorded in         *)
(* whatever state the other callers have left the breaker.  An HTTP        *)
(* handler's future may also be dropped, and then nothing is recorded.     *)
(*                                                                         *)
(* failures and successes are only compared (>=) with their thresholds and *)
(* reset, and the age of the last failure only with RecoveryTimeout: each  *)
(* is counted up to that value and no further.                             *)
(***************************************************************************)
EXTENDS Integers

CONSTANTS
    Callers,
    FailureThreshold,  \* config.failure_threshold
    SuccessThreshold,  \* config.success_threshold
    RecoveryTimeout,   \* config.recovery_timeout
    MaxAttempts,       \* RetryConfig.max_attempts
    ShouldRetry,       \* RetryConfig.retry_if.should_retry: not a function of
                       \* the error in any of the three conditions
    Never              \* last_failure before the first failure

ASSUME BreakerAssumption ==
    /\ FailureThreshold \in Nat \ {0}
    /\ SuccessThreshold \in Nat \ {0}
    /\ RecoveryTimeout \in Nat
    /\ MaxAttempts \in Nat \ {0}
    /\ ShouldRetry \in BOOLEAN
    /\ Never \notin Nat

VARIABLES
    state, failures, successes,
    last_failure,  \* its age, or Never
    attempts,      \* caller -> attempts its call has made; 0: no call
    result,        \* caller -> what its last call returned
    okRun,         \* history: successes recorded since the state last changed
                   \* and since the last failure
    failRun,       \* history: the same for failures
    openFor        \* history: time since the circuit last opened

breaker == <<state, failures, successes, last_failure>>
breaker_history == <<okRun, failRun, openFor>>
BreakerVars == <<breaker, attempts, result, breaker_history>>

CircuitState == {"Closed", "Open", "HalfOpen"}

(***************************************************************************)
(* Types, the saturated counters included.                                 *)
(***************************************************************************)
BreakerTypeOK ==
    /\ state \in CircuitState
    /\ failures \in 0 .. FailureThreshold
    /\ successes \in 0 .. SuccessThreshold
    /\ last_failure \in (0 .. RecoveryTimeout) \cup {Never}
    /\ attempts \in [Callers -> 0 .. MaxAttempts]
    /\ result \in [Callers -> {"none", "ok", "open", "inner"}]
    /\ okRun \in 0 .. SuccessThreshold
    /\ failRun \in 0 .. FailureThreshold
    /\ openFor \in 0 .. RecoveryTimeout

BreakerInit ==
    /\ state = "Closed"
    /\ failures = 0
    /\ successes = 0
    /\ last_failure = Never
    /\ attempts = [c \in Callers |-> 0]
    /\ result = [c \in Callers |-> "none"]
    /\ okRun = 0
    /\ failRun = 0
    /\ openFor = RecoveryTimeout

UpTo(n, bound) == IF n < bound THEN n ELSE bound

-----------------------------------------------------------------------------
(* Callers.                                                                *)

Admitted(c) ==
    /\ attempts' = [attempts EXCEPT ![c] = 1]
    /\ UNCHANGED result

Returns(c, r) ==
    /\ attempts' = [attempts EXCEPT ![c] = 0]
    /\ result' = [result EXCEPT ![c] = r]

\* The recovery timeout has passed (last_failure.unwrap_or(true) if none).
ShouldAttempt == last_failure = Never \/ last_failure = RecoveryTimeout

\* check_state lets the call through: the circuit is closed or half-open.
CheckPasses(c) ==
    /\ attempts[c] = 0
    /\ state \in {"Closed", "HalfOpen"}
    /\ Admitted(c)
    /\ UNCHANGED <<breaker, breaker_history>>

\* check_state turns the circuit half-open and lets the call through.
CheckHalfOpens(c) ==
    /\ attempts[c] = 0
    /\ state = "Open"
    /\ ShouldAttempt
    /\ state' = "HalfOpen"
    /\ successes' = 0
    /\ okRun' = 0
    /\ failRun' = 0
    /\ Admitted(c)
    /\ UNCHANGED <<failures, last_failure, openFor>>

CheckRejectsAsFailure(c) ==
    /\ attempts[c] = 0
    /\ state = "Open"
    /\ ~ShouldAttempt
    /\ last_failure' = 0
    /\ Returns(c, "open")
    /\ UNCHANGED <<state, failures, successes, breaker_history>>

\* check_state: CircuitError::Open.
CheckRejects(c) ==
    /\ attempts[c] = 0
    /\ state = "Open"
    /\ ~ShouldAttempt
    /\ Returns(c, "open")
    /\ UNCHANGED <<breaker, breaker_history>>

\* with_retry: an attempt failed and another one is allowed; it is made
\* whatever the state of the circuit is by now.
Retry(c) ==
    /\ attempts[c] > 0
    /\ attempts[c] < MaxAttempts
    /\ ShouldRetry
    /\ attempts' = [attempts EXCEPT ![c] = @ + 1]
    /\ UNCHANGED <<breaker, result, breaker_history>>

\* The caller's future is dropped: neither on_success nor on_failure runs.
Abandon(c) ==
    /\ attempts[c] > 0
    /\ attempts' = [attempts EXCEPT ![c] = 0]
    /\ UNCHANGED <<breaker, result, breaker_history>>

-----------------------------------------------------------------------------
(* Recording a result.                                                     *)

SuccessHalfOpen ==
    /\ state = "HalfOpen"
    /\ successes' = UpTo(successes + 1, SuccessThreshold)
    /\ IF successes' >= SuccessThreshold
       THEN /\ state' = "Closed"
            /\ failures' = 0
            /\ okRun' = 0
       ELSE /\ UNCHANGED <<state, failures>>
            /\ okRun' = UpTo(okRun + 1, SuccessThreshold)
    /\ failRun' = 0
    /\ UNCHANGED <<last_failure, openFor>>

SuccessClosedForgotten ==
    /\ state = "Closed"
    /\ okRun' = UpTo(okRun + 1, SuccessThreshold)
    /\ failRun' = 0
    /\ UNCHANGED <<breaker, openFor>>

SuccessClosed ==
    /\ state = "Closed"
    /\ failures' = 0
    /\ okRun' = UpTo(okRun + 1, SuccessThreshold)
    /\ failRun' = 0
    /\ UNCHANGED <<state, successes, last_failure, openFor>>

\* A success that arrives after the circuit has opened is ignored.
SuccessOpen ==
    /\ state = "Open"
    /\ okRun' = UpTo(okRun + 1, SuccessThreshold)
    /\ failRun' = 0
    /\ UNCHANGED <<breaker, openFor>>

OnSuccess(c) ==
    /\ attempts[c] > 0
    /\ SuccessHalfOpen \/ SuccessClosed \/ SuccessOpen
    /\ Returns(c, "ok")

\* What a failure does to the state; the new count is already in failures'.
Opens == state = "HalfOpen" \/ (state = "Closed" /\ failures' >= FailureThreshold)

RecordFailureOnce ==
    /\ failures' = UpTo(failures + 1, FailureThreshold)
    /\ last_failure' = IF state = "HalfOpen" THEN last_failure ELSE 0
    /\ state' = IF Opens THEN "Open" ELSE state
    /\ openFor' = IF Opens THEN 0 ELSE openFor
    /\ failRun' = IF Opens THEN 0 ELSE UpTo(failRun + 1, FailureThreshold)
    /\ okRun' = 0
    /\ UNCHANGED successes

\* on_failure: counted, and last_failure set, in every state; an open circuit
\* thus stays open for longer when a late failure arrives.
RecordFailure ==
    /\ failures' = UpTo(failures + 1, FailureThreshold)
    /\ last_failure' = 0
    /\ state' = IF Opens THEN "Open" ELSE state
    /\ openFor' = IF Opens THEN 0 ELSE openFor
    /\ failRun' = IF Opens THEN 0 ELSE UpTo(failRun + 1, FailureThreshold)
    /\ okRun' = 0
    /\ UNCHANGED successes

OnFailure(c) ==
    /\ attempts[c] > 0
    /\ ~ShouldRetry \/ attempts[c] >= MaxAttempts
    /\ RecordFailure
    /\ Returns(c, "inner")

-----------------------------------------------------------------------------
Aged(age) == IF age = Never THEN Never ELSE UpTo(age + 1, RecoveryTimeout)

PassTime ==
    /\ last_failure' = Aged(last_failure)
    /\ openFor' = Aged(openFor)
    /\ UNCHANGED <<state, failures, successes, attempts, result, okRun, failRun>>

BreakerNext ==
    \/ \E c \in Callers :
          \/ CheckPasses(c) \/ CheckHalfOpens(c) \/ CheckRejects(c)
          \/ Retry(c) \/ Abandon(c)
          \/ OnSuccess(c) \/ OnFailure(c)
    \/ PassTime

BreakerSpec == BreakerInit /\ [][BreakerNext]_BreakerVars

(***************************************************************************)
(* Fairness: time passes; a call ends (both HTTP clients have a timeout,   *)
(* and the retries are bounded); and requests for the service keep coming. *)
(***************************************************************************)
BreakerFairness ==
    /\ WF_BreakerVars(PassTime)
    /\ \A c \in Callers :
          /\ WF_BreakerVars(Retry(c) \/ OnSuccess(c) \/ OnFailure(c))
          /\ WF_BreakerVars(CheckPasses(c) \/ CheckHalfOpens(c) \/ CheckRejects(c))

FairBreakerSpec == BreakerSpec /\ BreakerFairness

-----------------------------------------------------------------------------
(***************************************************************************)
(* on_failure / on_success: the circuit opens only on the                  *)
(* FailureThreshold-th failure in a row since it closed, and closes only   *)
(* on the SuccessThreshold-th success in a row since it turned half-open,  *)
(* however many calls are in flight and whenever they were admitted.       *)
(***************************************************************************)
TransitionsEarned ==
    [][/\ state = "Closed" /\ state' = "Open" => failRun + 1 >= FailureThreshold
       /\ state # "Closed" /\ state' = "Closed" =>
             state = "HalfOpen" /\ okRun + 1 >= SuccessThreshold]_BreakerVars

(***************************************************************************)
(* check_state: from the moment the circuit opens, for the first or the    *)
(* n-th time, no call is admitted before recovery_timeout has passed.      *)
(***************************************************************************)
RecoveryWaits ==
    [][state = "Open" /\ openFor < RecoveryTimeout =>
          \A c \in Callers : attempts[c] = 0 => attempts'[c] = 0]_BreakerVars

(***************************************************************************)
(* The calls that were in flight when the circuit opened postpone the      *)
(* recovery when they fail, but not forever: as long as requests keep      *)
(* coming, an open circuit is tried again.                                 *)
(***************************************************************************)
RecoveryAttempted == state = "Open" ~> state = "HalfOpen"
=============================================================================
