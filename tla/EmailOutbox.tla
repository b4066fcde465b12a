---------------------------- MODULE EmailOutbox ----------------------------
(***************************************************************************)
(* The email outbox: rows enqueued by the services                         *)
(* (backend/src/services/email_service.rs), delivered by one worker per    *)
(* node (backend/src/jobs/email_worker.rs) and cancelled or retried by     *)
(* administrators (backend/src/api/admin_email.rs).                        *)
(*                                                                         *)
(* A worker reads a batch of due rows and then works through it from that  *)
(* snapshot.  The row locks of FOR UPDATE SKIP LOCKED end with the SELECT, *)
(* which runs in no transaction, so nothing reserves the rows: every       *)
(* UPDATE is by id alone and overwrites what happened in between.          *)
(*                                                                         *)
(* Rows are taken in any order: the ORDER BY (priority, age) only decides  *)
(* who goes first.  max_attempts is its column default, so MaxRetries is   *)
(* email.max_attempts.min(config.max_retries).                             *)
(***************************************************************************)
EXTENDS Integers, FiniteSets

CONSTANTS
    Emails,
    Workers,
    BatchSize,   \* config.batch_size
    MaxRetries,
    MaxOutages,   \* bound: how often a worker dies or a database call fails
    NoJob

ASSUME OutboxAssumption ==
    /\ BatchSize \in Nat \ {0}
    /\ MaxRetries \in Nat
    /\ MaxOutages \in Nat

VARIABLES
    outbox,     \* email -> its row: status, attempt_count, due now?
    batch,      \* worker -> snapshot rows it has not started on
    job,        \* worker -> the email in hand, the snapshot's attempt_count
                \* and how far process_email has come
    tries,      \* history: transmissions since the row was last (re)queued
                \* by a service or an administrator
    confirmed,  \* history: emails whose delivery the provider confirmed
    outages      \* how many there have been

history == <<tries, confirmed>>
OutboxVars == <<outbox, batch, job, history, outages>>

OutboxInit ==
    /\ outbox = [e \in Emails |-> [status |-> "none", attempts |-> 0, due |-> FALSE]]
    /\ batch = [w \in Workers |-> {}]
    /\ job = [w \in Workers |-> NoJob]
    /\ tries = [e \in Emails |-> 0]
    /\ confirmed = {}
    /\ outages = 0

-----------------------------------------------------------------------------
(* Services and administrators.                                            *)

\* enqueue_email: due at once, or later (scheduled_at, quiet hours).
Enqueue(e) ==
    /\ outbox[e].status = "none"
    /\ \E due \in BOOLEAN :
          outbox' = [outbox EXCEPT ![e] = [status |-> "queued", attempts |-> 0, due |-> due]]
    /\ UNCHANGED <<batch, job, history, outages>>

\* scheduled_at, send_after and next_attempt_at have all passed.
BecomesDue(e) ==
    /\ outbox[e].status = "queued"
    /\ ~outbox[e].due
    /\ outbox' = [outbox EXCEPT ![e].due = TRUE]
    /\ UNCHANGED <<batch, job, history, outages>>

\* cancel_outbox_entry; a conflict, and no change, unless the row is queued.
Cancel(e) ==
    /\ outbox[e].status = "queued"
    /\ outbox' = [outbox EXCEPT ![e].status = "cancelled"]
    /\ UNCHANGED <<batch, job, history, outages>>

\* retry_outbox_entry clears next_attempt_at, so the row is due at once: a
\* row that has failed has no scheduled_at or send_after in the future.
AdminRetry(e) ==
    /\ outbox[e].status = "failed"
    /\ outbox' = [outbox EXCEPT ![e] = [status |-> "queued", attempts |-> 0, due |-> TRUE]]
    /\ tries' = [tries EXCEPT ![e] = 0]
    /\ UNCHANGED <<batch, job, confirmed, outages>>

-----------------------------------------------------------------------------
(* The worker.                                                             *)

PendingOrSending ==
    {e \in Emails : outbox[e].status \in {"queued", "sending"} /\ outbox[e].due}

PendingUnscheduled ==
    {e \in Emails : outbox[e].status = "queued" /\ outbox[e].due /\ outbox[e].attempts = 0}

Pending == {e \in Emails : outbox[e].status = "queued" /\ outbox[e].due}

Snapshots(es) == {[id |-> e, attempts |-> outbox[e].attempts] : e \in es}

BatchesOf(es) ==
    {b \in SUBSET es : Cardinality(b) = BatchSize \/ (b = es /\ Cardinality(b) < BatchSize)}

\* get_pending_emails.
Fetch(w) ==
    /\ job[w] = NoJob
    /\ batch[w] = {}
    /\ Pending # {}
    /\ \E b \in BatchesOf(Pending) : batch' = [batch EXCEPT ![w] = Snapshots(b)]
    /\ UNCHANGED <<outbox, job, history, outages>>

\* process_batch goes on to the next row of its snapshot.
PickNext(w) ==
    /\ job[w] = NoJob
    /\ \E r \in batch[w] :
          /\ batch' = [batch EXCEPT ![w] = @ \ {r}]
          /\ job' = [job EXCEPT ![w] = [row |-> r, stage |-> "picked"]]
    /\ UNCHANGED <<outbox, history, outages>>

At(w, stage) == job[w] # NoJob /\ job[w].stage = stage
EmailOf(w)   == job[w].row.id

Advance(w, stage) == job' = [job EXCEPT ![w].stage = stage]
Finish(w)         == job' = [job EXCEPT ![w] = NoJob]

\* update_status(Sending): whatever the row's status is by now.
MarkSending(w) ==
    /\ At(w, "picked")
    /\ outbox' = [outbox EXCEPT ![EmailOf(w)].status = "sending"]
    /\ Advance(w, "sending")
    /\ UNCHANGED <<batch, history, outages>>

\* There is no usable provider: the error path, with nothing transmitted.
NoProvider(w) ==
    /\ At(w, "sending")
    /\ Advance(w, "refused")
    /\ UNCHANGED <<outbox, batch, history, outages>>

\* provider.send_email returns Ok.
Delivered(w) ==
    /\ At(w, "sending")
    /\ Advance(w, "delivered")
    /\ tries' = [tries EXCEPT ![EmailOf(w)] = @ + 1]
    /\ confirmed' = confirmed \cup {EmailOf(w)}
    /\ UNCHANGED <<outbox, batch, outages>>

\* provider.send_email returns Err.
Refused(w) ==
    /\ At(w, "sending")
    /\ Advance(w, "refused")
    /\ tries' = [tries EXCEPT ![EmailOf(w)] = @ + 1]
    /\ UNCHANGED <<outbox, batch, confirmed, outages>>

\* mark_sent.
MarkSent(w) ==
    /\ At(w, "delivered")
    /\ outbox' = [outbox EXCEPT ![EmailOf(w)].status = "sent"]
    /\ Finish(w)
    /\ UNCHANGED <<batch, history, outages>>

\* handle_delivery_error decides from the snapshot's attempt_count.
RetriesLeft(w) == job[w].row.attempts < MaxRetries

\* schedule_retry increments the row's attempt_count, not the snapshot's.
ScheduleRetry(w) ==
    /\ At(w, "refused")
    /\ RetriesLeft(w)
    /\ outbox' = [outbox EXCEPT ![EmailOf(w)].status = "queued",
                                ![EmailOf(w)].attempts = @ + 1,
                                ![EmailOf(w)].due = FALSE]
    /\ Finish(w)
    /\ UNCHANGED <<batch, history, outages>>

\* mark_failed.
MarkFailed(w) ==
    /\ At(w, "refused")
    /\ ~RetriesLeft(w)
    /\ outbox' = [outbox EXCEPT ![EmailOf(w)].status = "failed"]
    /\ Finish(w)
    /\ UNCHANGED <<batch, history, outages>>

\* A database call of process_email fails: the ? leaves the row as it is and
\* process_batch goes on to the next one.
DbFails(w) ==
    /\ outages < MaxOutages
    /\ outages' = outages + 1
    /\ job[w] # NoJob
    /\ job[w].stage # "sending"
    /\ Finish(w)
    /\ UNCHANGED <<outbox, batch, history>>

\* The process dies or run() panics; the supervisor starts a new worker.
WorkerDies(w) ==
    /\ outages < MaxOutages
    /\ outages' = outages + 1
    /\ job[w] # NoJob \/ batch[w] # {}
    /\ job' = [job EXCEPT ![w] = NoJob]
    /\ batch' = [batch EXCEPT ![w] = {}]
    /\ UNCHANGED <<outbox, history>>

WorkerStep(w) ==
    \/ Fetch(w) \/ PickNext(w) \/ MarkSending(w)
    \/ NoProvider(w) \/ Delivered(w) \/ Refused(w)
    \/ MarkSent(w) \/ ScheduleRetry(w) \/ MarkFailed(w)

OutboxNext ==
    \/ \E e \in Emails : Enqueue(e) \/ BecomesDue(e) \/ Cancel(e) \/ AdminRetry(e)
    \/ \E w \in Workers : WorkerStep(w) \/ DbFails(w) \/ WorkerDies(w)

OutboxSpec == OutboxInit /\ [][OutboxNext]_OutboxVars

(***************************************************************************)
(* Fairness: a worker polls every poll_interval_secs and every SMTP call   *)
(* returns; the clock reaches next_attempt_at.  Faults end (MaxOutages).   *)
(***************************************************************************)
OutboxFairness ==
    /\ \A w \in Workers : WF_OutboxVars(WorkerStep(w))
    /\ \A e \in Emails : WF_OutboxVars(BecomesDue(e))

FairOutboxSpec == OutboxSpec /\ OutboxFairness

-----------------------------------------------------------------------------
(***************************************************************************)
(* process_email: once the provider has confirmed an email it is never     *)
(* transmitted again, whatever fails afterwards (the write of 'sent', the  *)
(* process).  Holds while a single worker serves the outbox.               *)
(***************************************************************************)
NoResend == [][\A e \in confirmed : tries'[e] <= tries[e]]_OutboxVars

(***************************************************************************)
(* process_batch: every queued email is sent, failed, cancelled or, if a   *)
(* fault hit the worker that had it in hand, left in 'sending': none is    *)
(* passed over or retried forever, although retries, cancellations and     *)
(* administrators interfere with the batches.                              *)
(***************************************************************************)
Stranded(e) ==
    /\ outbox[e].status = "sending"
    /\ outages > 0
    /\ \A w \in Workers : job[w] # NoJob => EmailOf(w) # e

QueuedIsHandled ==
    \A e \in Emails : outbox[e].status = "queued" ~>
        outbox[e].status \in {"sent", "failed", "cancelled"} \/ Stranded(e)

(***************************************************************************)
(* "Background worker that processes the email outbox queue. Handles       *)
(* retries ..., and error tracking.": every queued email ends up sent,     *)
(* failed or cancelled.                                                    *)
(***************************************************************************)
EmailSettles ==
    \A e \in Emails :
        outbox[e].status = "queued" ~> outbox[e].status \in {"sent", "failed", "cancelled"}
=============================================================================
