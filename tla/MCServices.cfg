\* Three callers, so that two calls can be in flight across a whole cycle of the third. One worker and two
\* emails, which share a batch. An administrator and another person, two tasks, and up to two secrets of a kind.
SPECIFICATION FairServicesSpec
CONSTANTS
    Callers = {b1, b2, b3}
    FailureThreshold = 2
    SuccessThreshold = 2
    RecoveryTimeout = 2
    MaxAttempts = 2
    ShouldRetry = TRUE
    Never = Never
    Emails = {e1, e2}
    Workers = {w1}
    BatchSize = 2
    MaxRetries = 2
    MaxOutages = 2
    NoJob = NoJob
    People = {a1, p1}
    Admins = {a1}
    Resets = {r1, r2}
    Codes = {c1, c2}
    States = {s1}
    Tasks = {t1, t2}
    None = None
    EmailLimit = 1
    MaxFaults = 1
    MaxEvents = 4
INVARIANTS InactiveUntilSetUp SpentIsVerified
PROPERTIES
    CodesAreSingleUse
    TransitionsEarned
    RecoveryWaits
    RecoveryAttempted
    NoResend
    QueuedIsHandled
CHECK_DEADLOCK FALSE
