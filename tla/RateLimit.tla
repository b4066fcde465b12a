----------------------------- MODULE RateLimit -----------------------------
(***************************************************************************)
(* The two rate limiters.  Requests of an entity are counted in a Redis    *)
(* key that expires with its window (services/rate_limit.rs): one script   *)
(* increments the counter and, on the first request, sets the expiry.      *)
(* Logins of an account are the members of a sorted set, one per second    *)
(* (middleware/rate_limit.rs, check_rate_limit), handled by four commands. *)
(***************************************************************************)
EXTENDS Requests, FiniteSets

CONSTANTS
    Limit,       \* requests in a window, and logins in a window
    Window,      \* the window, in seconds
    MaxSeconds   \* bound on the clock

ASSUME RateLimitAssumption ==
    /\ {Limit, Window, MaxSeconds} \subseteq Nat \ {0}
    /\ None \notin Nat /\ None \notin [count : Nat, expires : Nat]   \* a key that is there is no None

VARIABLES
    second,          \* the clock
    counter,         \* the entity's key: None, or its count and when it expires (None: never)
    attempts,        \* the account's key: the seconds with a login
    loginKeyExpires, \* when that key expires; None: never
    granted,         \* requests of the entity allowed since the key was made
    limitShown       \* the last status answered: count and expiry, or None

RateLimitVars == <<second, counter, attempts, loginKeyExpires, granted, limitShown>>

RateLimitInit ==
    /\ second = 0 /\ counter = None
    /\ attempts = {} /\ loginKeyExpires = None
    /\ granted = 0 /\ limitShown = None

-----------------------------------------------------------------------------
(* Entities. *)

CountOf(c) == IF c = None THEN 0 ELSE c.count
Incremented(expires) == [count |-> CountOf(counter) + 1, expires |-> expires]

\* Mutant: the increment and the expiry are two commands.
check_in_two(t) ==
    /\ Begin(t, IF counter = None THEN <<Stmt("expire_counter", None)>> ELSE <<>>)
    /\ counter' = Incremented(IF counter = None THEN None ELSE counter.expires)
    /\ granted' = IF counter'.count <= Limit THEN granted + 1 ELSE granted
    /\ UNCHANGED <<second, attempts, loginKeyExpires, limitShown>>

\* The script is atomic.  A request beyond the limit is counted and refused.
check_rate_limit(t) ==
    /\ Statement
    /\ counter' = Incremented(IF counter = None THEN second + Window ELSE counter.expires)
    /\ granted' = IF counter'.count <= Limit THEN granted + 1 ELSE granted
    /\ UNCHANGED <<second, attempts, loginKeyExpires, limitShown>>

reset_rate_limit ==
    /\ Statement
    /\ counter' = None /\ granted' = 0
    /\ UNCHANGED <<second, attempts, loginKeyExpires, limitShown>>

\* The count, then the time to live.
get_rate_limit_status(t) ==
    /\ Begin(t, <<Stmt("read_ttl", CountOf(counter))>>)
    /\ UNCHANGED RateLimitVars
ReadTtl(t, o) ==
    /\ o.do = "read_ttl"
    /\ limitShown' = [count |-> o.x, expires |-> IF counter = None THEN None ELSE counter.expires]
    /\ Continue(t, <<>>)
    /\ UNCHANGED <<second, counter, attempts, loginKeyExpires, granted>>

-----------------------------------------------------------------------------
(* Logins: every command uses the second at which the check began. *)

check_login(t) ==
    /\ Begin(t, <<Stmt("count_logins", second)>>)
    /\ attempts' = {s \in attempts : s + Window > second}   \* ZREMRANGEBYSCORE
    /\ UNCHANGED <<second, counter, loginKeyExpires, granted, limitShown>>
CountLogins(t, o) ==
    /\ o.do = "count_logins"
    /\ IF Cardinality(attempts) >= Limit THEN GiveUp(t)
       ELSE Continue(t, <<Stmt("add_login", o.x), Stmt("expire_logins", o.x)>>)
    /\ UNCHANGED RateLimitVars
\* A second login of the same second is the same member.
AddLogin(t, o) ==
    /\ o.do = "add_login"
    /\ attempts' = attempts \cup {o.x}
    /\ Continue(t, <<>>)
    /\ UNCHANGED <<second, counter, loginKeyExpires, granted, limitShown>>
ExpireLogins(t, o) ==
    /\ o.do = "expire_logins"
    /\ loginKeyExpires' = second + Window
    /\ Continue(t, <<>>)
    /\ UNCHANGED <<second, counter, attempts, granted, limitShown>>

-----------------------------------------------------------------------------
\* A second passes; Redis drops the keys that expire.
SecondPasses ==
    /\ second < MaxSeconds
    /\ second' = second + 1
    /\ LET gone == IF counter = None THEN FALSE ELSE counter.expires = second' IN
       /\ counter' = IF gone THEN None ELSE counter
       /\ granted' = IF gone THEN 0 ELSE granted
    /\ IF loginKeyExpires = second' THEN attempts' = {} /\ loginKeyExpires' = None
       ELSE UNCHANGED <<attempts, loginKeyExpires>>
    /\ UNCHANGED <<limitShown, task, events, trouble>>

RateLimitNext ==
    \/ /\ events < MaxEvents
       /\ \/ reset_rate_limit
          \/ \E t \in Tasks : \/ check_rate_limit(t) \/ get_rate_limit_status(t) \/ check_login(t)
                              \/ Interrupted(t) /\ UNCHANGED RateLimitVars
    \/ \E t \in Tasks : Busy(t) /\ LET o == Head(task[t]) IN
                        ReadTtl(t, o) \/ CountLogins(t, o) \/ AddLogin(t, o) \/ ExpireLogins(t, o)
    \/ SecondPasses

-----------------------------------------------------------------------------
(* Properties. *)

\* A refusal ends with the window: the counter of an entity expires at most a window after its first
\* request, whatever request was cut short, and the limit holds until then (services/rate_limit.rs,
\* RATE_LIMIT_SCRIPT).
RefusalEnds ==
    counter # None => /\ counter.expires # None
                      /\ counter.expires \in (second + 1)..(second + Window)
                      /\ granted <= Limit

=============================================================================
