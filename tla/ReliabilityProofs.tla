-------------------------- MODULE ReliabilityProofs --------------------------
(***************************************************************************)
(* Proofs about the two components that retry.  CircuitBreaker: its        *)
(* transitions are earned and its recovery waits, for any number of        *)
(* callers and any thresholds, timeout and retry bound.  EmailOutbox: a    *)
(* single worker sends no confirmed email again, for any number of emails, *)
(* any batch size and any number of faults.                                *)
(***************************************************************************)
EXTENDS CircuitBreaker, EmailOutbox, TLAPS

-----------------------------------------------------------------------------
(* The circuit breaker. *)


(***************************************************************************)
(* What the code's counters mean in terms of what has been recorded: in a  *)
(* closed circuit failures is the run of failures since it closed, in a    *)
(* half-open one successes is the run of successes since it turned         *)
(* half-open, and the last failure is no older than the last opening.      *)
(***************************************************************************)
CountersMeanRuns ==
    /\ state = "Closed" => failures = failRun
    /\ state = "HalfOpen" => successes = okRun
    /\ state = "Open" => last_failure # Never /\ last_failure <= openFor

BreakerInv == BreakerTypeOK /\ CountersMeanRuns

LEMMA BreakerInitInv == BreakerInit => BreakerInv
  <1>1. BreakerInit => BreakerTypeOK
    BY BreakerAssumption DEF BreakerInit, BreakerTypeOK, CircuitState
  <1>2. BreakerInit => CountersMeanRuns
    BY DEF BreakerInit, CountersMeanRuns
  <1> QED BY <1>1, <1>2 DEF BreakerInv

\* A call that starts, is retried, is dropped or returns keeps the callers' types.
LEMMA CallerTypes ==
    ASSUME BreakerTypeOK, NEW c \in Callers
    PROVE  /\ Admitted(c) => /\ attempts' \in [Callers -> 0 .. MaxAttempts]
                             /\ result' = result
           /\ \A r \in {"ok", "open", "inner"} : Returns(c, r) =>
                 /\ attempts' \in [Callers -> 0 .. MaxAttempts]
                 /\ result' \in [Callers -> {"none", "ok", "open", "inner"}]
  BY BreakerAssumption DEF BreakerTypeOK, Admitted, Returns

\* Every step preserves the invariant.
LEMMA BreakerStep == BreakerInv /\ [BreakerNext]_BreakerVars => BreakerInv'
  <1> SUFFICES ASSUME BreakerInv, [BreakerNext]_BreakerVars
               PROVE  BreakerInv'
    OBVIOUS
  <1> USE BreakerAssumption
  <1>1. BreakerTypeOK /\ CountersMeanRuns
    BY DEF BreakerInv
  <1>2. ASSUME NEW c \in Callers, CheckPasses(c) PROVE BreakerInv'
    <2>1. UNCHANGED <<state, failures, successes, last_failure, okRun, failRun, openFor>>
      BY <1>2 DEF CheckPasses, breaker, breaker_history
    <2>2. BreakerTypeOK'
      BY <1>1, <1>2, <2>1, CallerTypes DEF CheckPasses, BreakerTypeOK
    <2> QED BY <1>1, <2>1, <2>2 DEF BreakerInv, CountersMeanRuns
  <1>3. ASSUME NEW c \in Callers, CheckHalfOpens(c) PROVE BreakerInv'
    <2>1. BreakerTypeOK'
      BY <1>1, <1>3, CallerTypes DEF CheckHalfOpens, BreakerTypeOK, CircuitState
    <2>2. CountersMeanRuns'
      BY <1>1, <1>3 DEF CheckHalfOpens, CountersMeanRuns
    <2> QED BY <2>1, <2>2 DEF BreakerInv
  <1>4. ASSUME NEW c \in Callers, CheckRejects(c) PROVE BreakerInv'
    <2>1. UNCHANGED <<state, failures, successes, last_failure, okRun, failRun, openFor>>
      BY <1>4 DEF CheckRejects, breaker, breaker_history
    <2>2. BreakerTypeOK'
      BY <1>1, <1>4, <2>1, CallerTypes DEF CheckRejects, BreakerTypeOK
    <2> QED BY <1>1, <2>1, <2>2 DEF BreakerInv, CountersMeanRuns
  <1>5. ASSUME NEW c \in Callers, Retry(c) \/ Abandon(c) PROVE BreakerInv'
    <2>1. UNCHANGED <<state, failures, successes, last_failure, okRun, failRun,
                      openFor, result>>
      BY <1>5 DEF Retry, Abandon, breaker, breaker_history
    <2>2. attempts' \in [Callers -> 0 .. MaxAttempts]
      BY <1>1, <1>5 DEF Retry, Abandon, BreakerTypeOK
    <2>3. BreakerTypeOK'
      BY <1>1, <2>1, <2>2 DEF BreakerTypeOK
    <2> QED BY <1>1, <2>1, <2>3 DEF BreakerInv, CountersMeanRuns
  <1>6. ASSUME NEW c \in Callers, OnSuccess(c) PROVE BreakerInv'
    <2>1. /\ attempts' \in [Callers -> 0 .. MaxAttempts]
          /\ result' \in [Callers -> {"none", "ok", "open", "inner"}]
      BY <1>1, <1>6, CallerTypes DEF OnSuccess
    <2>2. CASE SuccessHalfOpen
      <3>1. BreakerTypeOK'
        BY <1>1, <2>1, <2>2 DEF SuccessHalfOpen, BreakerTypeOK, CircuitState, UpTo
      <3>2. CountersMeanRuns'
        BY <1>1, <2>2 DEF SuccessHalfOpen, CountersMeanRuns
      <3> QED BY <3>1, <3>2 DEF BreakerInv
    <2>3. CASE SuccessClosed
      <3>1. BreakerTypeOK'
        BY <1>1, <2>1, <2>3 DEF SuccessClosed, BreakerTypeOK, UpTo
      <3>2. CountersMeanRuns'
        BY <1>1, <2>3 DEF SuccessClosed, CountersMeanRuns
      <3> QED BY <3>1, <3>2 DEF BreakerInv
    <2>4. CASE SuccessOpen
      <3>1. UNCHANGED <<state, failures, successes, last_failure, openFor>>
        BY <2>4 DEF SuccessOpen, breaker
      <3>2. BreakerTypeOK'
        BY <1>1, <2>1, <2>4, <3>1 DEF SuccessOpen, BreakerTypeOK, UpTo
      <3>3. CountersMeanRuns'
        BY <1>1, <2>4, <3>1 DEF SuccessOpen, CountersMeanRuns
      <3> QED BY <3>2, <3>3 DEF BreakerInv
    <2> QED BY <1>6, <2>2, <2>3, <2>4 DEF OnSuccess
  <1>7. ASSUME NEW c \in Callers, OnFailure(c) PROVE BreakerInv'
    <2>1. /\ attempts' \in [Callers -> 0 .. MaxAttempts]
          /\ result' \in [Callers -> {"none", "ok", "open", "inner"}]
      BY <1>1, <1>7, CallerTypes DEF OnFailure
    <2>2. RecordFailure
      BY <1>7 DEF OnFailure
    <2>3. BreakerTypeOK'
      BY <1>1, <2>1, <2>2 DEF RecordFailure, BreakerTypeOK, CircuitState, UpTo
    <2>4. CountersMeanRuns'
      BY <1>1, <2>2, <2>3 DEF RecordFailure, Opens, CountersMeanRuns, BreakerTypeOK
    <2> QED BY <2>3, <2>4 DEF BreakerInv
  <1>8. ASSUME PassTime PROVE BreakerInv'
    <2>1. /\ last_failure = Never => last_failure' = Never
          /\ last_failure # Never => last_failure' = UpTo(last_failure + 1, RecoveryTimeout)
          /\ openFor' = UpTo(openFor + 1, RecoveryTimeout)
      BY <1>1, <1>8 DEF PassTime, Aged, BreakerTypeOK
    <2>2. BreakerTypeOK'
      BY <1>1, <1>8, <2>1 DEF PassTime, BreakerTypeOK, UpTo
    <2>3. CountersMeanRuns'
      <3>1. CASE state # "Open"
        BY <1>1, <1>8, <3>1 DEF PassTime, CountersMeanRuns
      <3>2. CASE state = "Open"
        <4>1. last_failure \in 0 .. RecoveryTimeout /\ openFor \in 0 .. RecoveryTimeout
          BY <1>1, <3>2 DEF CountersMeanRuns, BreakerTypeOK
        <4>2. last_failure' <= openFor'
          BY <1>1, <3>2, <2>1, <4>1 DEF CountersMeanRuns, UpTo
        <4>3. last_failure' # Never
          BY <2>1, <4>1 DEF UpTo
        <4> QED BY <1>8, <3>2, <4>2, <4>3 DEF PassTime, CountersMeanRuns
      <3> QED BY <3>1, <3>2
    <2> QED BY <2>2, <2>3 DEF BreakerInv
  <1>9. CASE UNCHANGED BreakerVars
    BY <1>1, <1>9 DEF BreakerVars, breaker, breaker_history, BreakerInv, BreakerTypeOK,
                      CountersMeanRuns
  <1> QED BY <1>2, <1>3, <1>4, <1>5, <1>6, <1>7, <1>8, <1>9 DEF BreakerNext

\* Every reachable state satisfies the invariant.
THEOREM BreakerInvariant == BreakerSpec => []BreakerInv
  BY BreakerInitInv, BreakerStep, PTL DEF BreakerSpec

(***************************************************************************)
(* Types: the breaker's counters and the callers' attempts stay in bounds. *)
(***************************************************************************)
THEOREM BreakerTypes == BreakerSpec => []BreakerTypeOK
  <1>1. BreakerInv => BreakerTypeOK
    BY DEF BreakerInv
  <1> QED BY <1>1, BreakerInvariant, PTL

(***************************************************************************)
(* on_success / on_failure: the circuit opens on the FailureThreshold-th   *)
(* failure in a row and closes on the SuccessThreshold-th success in a     *)
(* row, whatever calls overlap.                                            *)
(***************************************************************************)
THEOREM BreakerTransitions == BreakerSpec => TransitionsEarned
  <1> DEFINE Earned ==
         /\ state = "Closed" /\ state' = "Open" => failRun + 1 >= FailureThreshold
         /\ state # "Closed" /\ state' = "Closed" =>
               state = "HalfOpen" /\ okRun + 1 >= SuccessThreshold
  <1>1. ASSUME BreakerInv, [BreakerNext]_BreakerVars PROVE [Earned]_BreakerVars
    <2> USE BreakerAssumption
    <2>1. BreakerTypeOK /\ CountersMeanRuns
      BY <1>1 DEF BreakerInv
    <2>2. CASE state' = state
      BY <2>2
    <2>3. ASSUME NEW c \in Callers, CheckHalfOpens(c) PROVE Earned
      BY <2>3 DEF CheckHalfOpens
    <2>4. ASSUME SuccessHalfOpen PROVE Earned
      BY <2>1, <2>4 DEF SuccessHalfOpen, CountersMeanRuns, BreakerTypeOK, UpTo
    <2>5. ASSUME RecordFailure PROVE Earned
      BY <2>1, <2>5 DEF RecordFailure, Opens, CountersMeanRuns, BreakerTypeOK, UpTo
    <2> QED
      BY <1>1, <2>2, <2>3, <2>4, <2>5
      DEF BreakerNext, BreakerVars, breaker, CheckPasses, CheckRejects, Retry, Abandon,
          OnSuccess, SuccessClosed, SuccessOpen, OnFailure, PassTime
  <1> QED BY <1>1, BreakerInvariant, PTL DEF BreakerSpec, TransitionsEarned

(***************************************************************************)
(* check_state: an opened circuit admits no call before recovery_timeout.  *)
(***************************************************************************)
THEOREM BreakerRecoveryWaits == BreakerSpec => RecoveryWaits
  <1> DEFINE Waits == state = "Open" /\ openFor < RecoveryTimeout =>
                         \A c \in Callers : attempts[c] = 0 => attempts'[c] = 0
  <1>1. ASSUME BreakerInv, [BreakerNext]_BreakerVars PROVE [Waits]_BreakerVars
    <2> SUFFICES ASSUME BreakerNext, state = "Open", openFor < RecoveryTimeout,
                        NEW d \in Callers, attempts[d] = 0
                 PROVE  attempts'[d] = 0
      BY <1>1
    <2> USE BreakerAssumption
    <2>1. ~ShouldAttempt
      BY <1>1 DEF BreakerInv, CountersMeanRuns, BreakerTypeOK, ShouldAttempt
    <2>2. ASSUME NEW c \in Callers, CheckRejects(c) \/ OnSuccess(c) \/ OnFailure(c)
          PROVE  attempts'[d] = 0
      BY <1>1, <2>2 DEF CheckRejects, OnSuccess, OnFailure, Returns, BreakerInv, BreakerTypeOK
    <2>3. ASSUME NEW c \in Callers, Retry(c) \/ Abandon(c) PROVE attempts'[d] = 0
      BY <1>1, <2>3 DEF Retry, Abandon, BreakerInv, BreakerTypeOK
    <2> QED BY <2>1, <2>2, <2>3 DEF BreakerNext, CheckPasses, CheckHalfOpens, PassTime
  <1> QED BY <1>1, BreakerInvariant, PTL DEF BreakerSpec, RecoveryWaits

-----------------------------------------------------------------------------
(* The email outbox. *)


\* The deployment that NoResend is about: with two workers both may have one row in their batches.
OneWorker == \A v, w \in Workers : v = w

Statuses == {"none", "queued", "sending", "sent", "failed", "cancelled"}
Row      == [status : Statuses, attempts : Nat, due : BOOLEAN]
Snapshot == [id : Emails, attempts : Nat]
Job      == [row : Snapshot, stage : {"picked", "sending", "refused", "delivered"}]

OutboxType ==
    /\ outbox \in [Emails -> Row]
    /\ batch \in [Workers -> SUBSET Snapshot]
    /\ job \in [Workers -> Job \cup {NoJob}]
    /\ tries \in [Emails -> Nat]
    /\ confirmed \subseteq Emails

\* A batch names an email once, and not the one in hand.
BatchOnce(w) ==
    /\ \A r, q \in batch[w] : r.id = q.id => r = q
    /\ job[w] # NoJob => \A r \in batch[w] : r.id # job[w].row.id

\* A row whose email is with the provider, or was, is 'sending': administrators' requests leave it alone.
InHandIsSending(w) ==
    job[w] # NoJob /\ job[w].stage # "picked" => outbox[job[w].row.id].status = "sending"

\* A confirmed email is 'sent' or still 'sending', and no worker is going to transmit it.
ConfirmedIsOver(e) ==
    /\ outbox[e].status \in {"sending", "sent"}
    /\ \A w \in Workers : /\ \A r \in batch[w] : r.id # e
                          /\ job[w] # NoJob /\ job[w].row.id = e => job[w].stage = "delivered"

OutboxInv ==
    /\ OutboxType
    /\ \A w \in Workers : BatchOnce(w) /\ InHandIsSending(w)
    /\ \A e \in confirmed : ConfirmedIsOver(e)

LEMMA OutboxInitInv == OutboxInit => OutboxInv
BY DEF OutboxInit, OutboxInv, OutboxType, BatchOnce, InHandIsSending, ConfirmedIsOver, Statuses, Row

\* A step that changes the status of one row which nobody holds past its pick and which is not confirmed.
LEMMA RowStep ==
    ASSUME OutboxInv, NEW e \in Emails, NEW r \in Row, outbox' = [outbox EXCEPT ![e] = r],
           outbox[e].status \in {"none", "queued", "failed"}, UNCHANGED <<batch, job, confirmed>>,
           tries' \in [Emails -> Nat]
    PROVE  OutboxInv'
<1>. USE DEF OutboxInv, OutboxType
<1>1. e \notin confirmed
  BY DEF ConfirmedIsOver
<1>2. outbox' \in [Emails -> Row] /\ \A x \in Emails \ {e} : outbox'[x] = outbox[x]
  OBVIOUS
<1>3. ASSUME NEW w \in Workers PROVE BatchOnce(w)' /\ InHandIsSending(w)'
  <2>1. BatchOnce(w) /\ InHandIsSending(w)
    OBVIOUS
  <2>2. job[w] # NoJob /\ job[w].stage # "picked" => job[w].row.id \in Emails \ {e}
    BY <2>1 DEF InHandIsSending, Job, Snapshot
  <2>. QED
    BY <1>2, <2>1, <2>2 DEF BatchOnce, InHandIsSending
<1>4. ASSUME NEW x \in confirmed' PROVE ConfirmedIsOver(x)'
  BY <1>1, <1>2, <1>4 DEF ConfirmedIsOver
<1>. QED
  BY <1>2, <1>3, <1>4

\* A statement of process_email on the row in hand.
LEMMA HandStep ==
    ASSUME OneWorker, OutboxInv, NEW w \in Workers, job[w] # NoJob,
           NEW e, e = EmailOf(w), NEW a \in Row, NEW j \in Job \cup {NoJob},
           outbox' = [outbox EXCEPT ![e] = a], job' = [job EXCEPT ![w] = j], batch' = batch,
           j # NoJob => j.row = job[w].row /\ (j.stage # "picked" => a.status = "sending"),
           tries' \in [Emails -> Nat], confirmed' \subseteq confirmed \cup {e},
           e \in confirmed' => /\ a.status \in {"sending", "sent"}
                               /\ j # NoJob => j.stage = "delivered"
    PROVE  OutboxInv'
<1>. USE DEF OutboxInv, OutboxType
<1>1. /\ \A v \in Workers : v = w
      /\ batch[w] \in SUBSET Snapshot /\ job[w] \in Job
      /\ BatchOnce(w) /\ InHandIsSending(w)
  BY DEF OneWorker
<1>2. e \in Emails /\ job[w].row.id = e
  BY <1>1 DEF EmailOf, Job, Snapshot
<1>3. outbox' \in [Emails -> Row] /\ outbox'[e] = a /\ \A x \in Emails \ {e} : outbox'[x] = outbox[x]
  BY <1>2
<1>4. job' \in [Workers -> Job \cup {NoJob}] /\ job'[w] = j
  OBVIOUS
<1>5. BatchOnce(w)' /\ InHandIsSending(w)'
  BY <1>1, <1>2, <1>3, <1>4 DEF BatchOnce, InHandIsSending
<1>6. ASSUME NEW x \in confirmed' PROVE ConfirmedIsOver(x)'
  <2>1. CASE x = e
    BY <1>1, <1>2, <1>3, <1>4, <1>6, <2>1 DEF ConfirmedIsOver, BatchOnce
  <2>2. CASE x # e
    BY <1>1, <1>2, <1>3, <1>4, <1>6, <2>2 DEF ConfirmedIsOver
  <2>. QED
    BY <2>1, <2>2
<1>. QED
  BY <1>1, <1>2, <1>3, <1>4, <1>5, <1>6

LEMMA OutboxStep == ASSUME OneWorker, OutboxInv, [OutboxNext]_OutboxVars PROVE OutboxInv'
<1>. USE DEF OutboxInv, OutboxType
<1>1. ASSUME NEW e \in Emails, Enqueue(e) PROVE OutboxInv'
  BY <1>1, RowStep DEF Enqueue, history, Row, Statuses
<1>2. ASSUME NEW e \in Emails, BecomesDue(e) PROVE OutboxInv'
  <2>1. [outbox[e] EXCEPT !.due = TRUE] \in Row
    BY DEF Row
  <2>. QED
    BY <1>2, <2>1, RowStep DEF BecomesDue, history
<1>3. ASSUME NEW e \in Emails, Cancel(e) PROVE OutboxInv'
  <2>1. [outbox[e] EXCEPT !.status = "cancelled"] \in Row
    BY DEF Row, Statuses
  <2>. QED
    BY <1>3, <2>1, RowStep DEF Cancel, history
<1>4. ASSUME NEW e \in Emails, AdminRetry(e) PROVE OutboxInv'
  BY <1>4, RowStep DEF AdminRetry, Row, Statuses
<1>5. ASSUME NEW w \in Workers, WorkerStep(w) \/ DbFails(w) \/ WorkerDies(w) PROVE OutboxInv'
  <2>0. /\ \A v \in Workers : v = w
        /\ batch[w] \in SUBSET Snapshot /\ job[w] \in Job \cup {NoJob}
        /\ BatchOnce(w) /\ InHandIsSending(w)
    BY DEF OneWorker
  <2>1. CASE Fetch(w)
    <3>1. PICK b \in BatchesOf(Pending) : batch' = [batch EXCEPT ![w] = Snapshots(b)]
      BY <2>1 DEF Fetch
    <3>2. b \subseteq Pending
      BY DEF BatchesOf
    <3>3. \A r \in Snapshots(b) : /\ r \in Snapshot /\ r.id \in Pending
                                  /\ r = [id |-> r.id, attempts |-> outbox[r.id].attempts]
      BY <3>2 DEF Snapshots, Snapshot, Pending, Row
    <3>4. Pending \cap confirmed = {}
      BY DEF Pending, ConfirmedIsOver
    <3>5. job[w] = NoJob /\ UNCHANGED <<outbox, job, history, outages>> /\ batch'[w] = Snapshots(b)
      BY <2>1, <3>1 DEF Fetch
    <3>6. batch' \in [Workers -> SUBSET Snapshot]
      BY <3>1, <3>3
    <3>7. BatchOnce(w)' /\ InHandIsSending(w)'
      BY <3>3, <3>5 DEF BatchOnce, InHandIsSending
    <3>8. \A e \in confirmed' : ConfirmedIsOver(e)'
      BY <2>0, <3>3, <3>4, <3>5 DEF ConfirmedIsOver, history
    <3>. QED
      BY <2>0, <3>5, <3>6, <3>7, <3>8 DEF history
  <2>2. CASE PickNext(w)
    <3>1. PICK r \in batch[w] : /\ batch' = [batch EXCEPT ![w] = @ \ {r}]
                                /\ job' = [job EXCEPT ![w] = [row |-> r, stage |-> "picked"]]
      BY <2>2 DEF PickNext
    <3>2. UNCHANGED <<outbox, history, outages>> /\ batch'[w] = batch[w] \ {r} /\ job'[w] = [row |-> r, stage |-> "picked"]
      BY <2>2, <3>1 DEF PickNext
    <3>3. [row |-> r, stage |-> "picked"] \in Job
      BY <2>0 DEF Job
    <3>4. BatchOnce(w)' /\ InHandIsSending(w)'
      BY <2>0, <3>2 DEF BatchOnce, InHandIsSending
    <3>5. \A e \in confirmed' : ConfirmedIsOver(e)'
      BY <2>0, <3>2 DEF ConfirmedIsOver, history
    <3>. QED
      BY <2>0, <3>1, <3>2, <3>3, <3>4, <3>5 DEF history
  <2>3. ASSUME job[w] # NoJob, NEW stage \in {"sending", "refused", "delivered"}, Advance(w, stage)
        PROVE  job' = [job EXCEPT ![w] = [row |-> job[w].row, stage |-> stage]] /\ [row |-> job[w].row, stage |-> stage] \in Job
    <3>1. job[w] \in Job /\ job[w].row \in Snapshot
      BY <2>0, <2>3 DEF Job
    <3>2. [job[w] EXCEPT !.stage = stage] = [row |-> job[w].row, stage |-> stage]
      BY <3>1 DEF Job
    <3>3. job' = [job EXCEPT ![w] = [job[w] EXCEPT !.stage = stage]]
      BY <2>3 DEF Advance
    <3>4. [row |-> job[w].row, stage |-> stage] \in Job
      BY <3>1 DEF Job
    <3>. QED
      BY <3>2, <3>3, <3>4
  <2>4. ASSUME job[w] # NoJob
        PROVE  EmailOf(w) \in Emails /\ outbox[EmailOf(w)] \in Row /\ EmailOf(w) = job[w].row.id
    BY <2>0, <2>4 DEF EmailOf, Job, Snapshot
  <2>5. CASE MarkSending(w)
    <3>1. EmailOf(w) \notin confirmed
      BY <2>4, <2>5 DEF MarkSending, At, ConfirmedIsOver
    <3>2. [outbox[EmailOf(w)] EXCEPT !.status = "sending"] \in Row
      BY <2>4, <2>5 DEF MarkSending, At, Row, Statuses
    <3>. QED
      BY <2>3, <2>4, <2>5, <3>1, <3>2, HandStep DEF MarkSending, At, history, Row
  <2>6. CASE NoProvider(w) \/ Delivered(w) \/ Refused(w)
    <3>1. At(w, "sending") /\ outbox' = outbox /\ batch' = batch
      BY <2>6 DEF NoProvider, Delivered, Refused
    <3>2. EmailOf(w) \notin confirmed /\ outbox[EmailOf(w)].status = "sending"
      BY <2>0, <2>4, <3>1 DEF At, ConfirmedIsOver, InHandIsSending
    <3>3. outbox' = [outbox EXCEPT ![EmailOf(w)] = outbox[EmailOf(w)]]
      BY <3>1
    <3>4. tries' \in [Emails -> Nat]
      BY <2>4, <2>6 DEF NoProvider, Delivered, Refused, history, At
    <3>5. CASE Delivered(w)
      BY <2>3, <2>4, <3>1, <3>2, <3>3, <3>4, <3>5, HandStep DEF Delivered, At
    <3>6. CASE NoProvider(w) \/ Refused(w)
      <4>1. Advance(w, "refused") /\ confirmed' = confirmed /\ job[w] # NoJob
        BY <3>1, <3>6 DEF NoProvider, Refused, At, history
      <4>. DEFINE j == [row |-> job[w].row, stage |-> "refused"]
      <4>2. job' = [job EXCEPT ![w] = j] /\ j \in Job /\ j.row = job[w].row
        BY <2>3, <4>1
      <4>. HIDE DEF j
      <4>. QED
        BY <2>4, <3>1, <3>2, <3>3, <3>4, <4>1, <4>2, HandStep
    <3>. QED
      BY <2>6, <3>5, <3>6
  <2>7. CASE MarkSent(w) \/ ScheduleRetry(w) \/ MarkFailed(w)
    <3>1. /\ (At(w, "delivered") \/ At(w, "refused")) /\ job' = [job EXCEPT ![w] = NoJob] /\ batch' = batch
          /\ UNCHANGED history
      BY <2>7 DEF MarkSent, ScheduleRetry, MarkFailed, Finish
    <3>2. At(w, "refused") => EmailOf(w) \notin confirmed
      BY <2>4 DEF At, ConfirmedIsOver
    <3>3. \E a \in Row : /\ outbox' = [outbox EXCEPT ![EmailOf(w)] = a]
                         /\ At(w, "delivered") => a.status = "sent"
      <4>1. CASE MarkSent(w)
        <5>1. [outbox[EmailOf(w)] EXCEPT !.status = "sent"] \in Row
          BY <2>4, <4>1 DEF MarkSent, At, Row, Statuses
        <5>. QED
          BY <4>1, <5>1 DEF MarkSent, Row
      <4>2. CASE ScheduleRetry(w)
        <5>1. [outbox[EmailOf(w)] EXCEPT !.status = "queued", !.attempts = @ + 1, !.due = FALSE] \in Row
          BY <2>4, <4>2 DEF ScheduleRetry, At, Row, Statuses
        <5>. QED
          BY <4>2, <5>1 DEF ScheduleRetry, At
      <4>3. CASE MarkFailed(w)
        <5>1. [outbox[EmailOf(w)] EXCEPT !.status = "failed"] \in Row
          BY <2>4, <4>3 DEF MarkFailed, At, Row, Statuses
        <5>. QED
          BY <4>3, <5>1 DEF MarkFailed, At
      <4>. QED
        BY <2>7, <4>1, <4>2, <4>3
    <3>. QED
      BY <2>4, <3>1, <3>2, <3>3, HandStep DEF At, history
  <2>8. CASE DbFails(w) \/ WorkerDies(w)
    <3>1. /\ outbox' = outbox /\ UNCHANGED history /\ job' = [job EXCEPT ![w] = NoJob]
          /\ batch' = batch \/ batch' = [batch EXCEPT ![w] = {}]
      BY <2>8 DEF DbFails, WorkerDies, Finish
    <3>2. job'[w] = NoJob /\ batch'[w] \subseteq batch[w] /\ batch' \in [Workers -> SUBSET Snapshot]
      BY <2>0, <3>1
    <3>3. BatchOnce(w)' /\ InHandIsSending(w)'
      BY <2>0, <3>1, <3>2 DEF BatchOnce, InHandIsSending
    <3>4. \A e \in confirmed' : ConfirmedIsOver(e)'
      BY <2>0, <3>1, <3>2 DEF ConfirmedIsOver, history
    <3>. QED
      BY <2>0, <3>1, <3>2, <3>3, <3>4 DEF history
  <2>. QED
    BY <1>5, <2>1, <2>2, <2>5, <2>6, <2>7, <2>8 DEF WorkerStep
<1>6. CASE UNCHANGED OutboxVars
  BY <1>6 DEF OutboxVars, history, BatchOnce, InHandIsSending, ConfirmedIsOver
<1>. QED
  BY <1>1, <1>2, <1>3, <1>4, <1>5, <1>6 DEF OutboxNext

\* Only the worker transmits, and only what is not confirmed.
LEMMA ConfirmedNotTried ==
    ASSUME OutboxInv, [OutboxNext]_OutboxVars, NEW e \in confirmed
    PROVE  tries'[e] <= tries[e]
<1>. USE DEF OutboxInv, OutboxType
<1>1. ASSUME NEW w \in Workers, Delivered(w) \/ Refused(w) PROVE tries'[e] = tries[e]
  <2>1. At(w, "sending") /\ tries' = [tries EXCEPT ![EmailOf(w)] = @ + 1]
    BY <1>1 DEF Delivered, Refused
  <2>2. EmailOf(w) # e
    BY <2>1 DEF At, EmailOf, ConfirmedIsOver
  <2>. QED
    BY <2>1, <2>2
<1>2. ASSUME NEW x \in Emails, AdminRetry(x) PROVE tries'[e] <= tries[e]
  <2>1. tries' = [tries EXCEPT ![x] = 0] /\ tries[e] \in Nat
    BY <1>2 DEF AdminRetry
  <2>2. tries'[e] \in {0, tries[e]}
    BY <2>1
  <2>. QED
    BY <2>1, <2>2
<1>3. CASE tries' = tries
  BY <1>3
<1>4. tries[e] \in Nat
  OBVIOUS
<1>5. ASSUME NEW w \in Workers, WorkerStep(w) \/ DbFails(w) \/ WorkerDies(w) PROVE tries' = tries \/ Delivered(w) \/ Refused(w)
  BY <1>5 DEF WorkerStep, DbFails, WorkerDies, Fetch, PickNext, MarkSending, NoProvider, MarkSent, ScheduleRetry, MarkFailed, history
<1>6. ASSUME NEW x \in Emails, Enqueue(x) \/ BecomesDue(x) \/ Cancel(x) PROVE tries' = tries
  BY <1>6 DEF Enqueue, BecomesDue, Cancel, history
<1>7. CASE UNCHANGED OutboxVars
  BY <1>4, <1>7 DEF OutboxVars, history
<1>. QED
  BY <1>1, <1>2, <1>3, <1>4, <1>5, <1>6, <1>7 DEF OutboxNext

\* However statements, faults, cancellations and retries by administrators interleave, the rows and the
\* snapshot of the one worker keep their shape.
THEOREM OutboxInvariant == OneWorker => (OutboxSpec => []OutboxInv)
<1>. SUFFICES ASSUME OneWorker PROVE OutboxSpec => []OutboxInv
  OBVIOUS
<1>1. OutboxInv /\ [OutboxNext]_OutboxVars => OutboxInv'
  BY OutboxStep
<1>. QED
  BY <1>1, OutboxInitInv, PTL DEF OutboxSpec

(***************************************************************************)
(* process_email with one worker: an email that the provider has confirmed *)
(* is never transmitted again, whatever fails between the provider's       *)
(* answer and mark_sent.                                                   *)
(***************************************************************************)
THEOREM OneWorkerNeverResends == OneWorker => (OutboxSpec => NoResend)
<1>. SUFFICES ASSUME OneWorker PROVE OutboxSpec => NoResend
  OBVIOUS
<1>1. OutboxInv /\ [OutboxNext]_OutboxVars => [\A e \in confirmed : tries'[e] <= tries[e]]_OutboxVars
  BY ConfirmedNotTried
<1>. QED
  BY <1>1, OutboxInvariant, PTL DEF OutboxSpec, NoResend

=============================================================================
