----------------------------- MODULE QuietHours -----------------------------
(***************************************************************************)
(* When an email is held back for the recipient's quiet hours:             *)
(* EmailService::calculate_send_after                                      *)
(* (backend/src/services/email_service.rs).                                *)
(*                                                                         *)
(* Times of day are minutes, 0 .. Day - 1 (Day is 24 * 60 in the code).    *)
(* send_after is an instant: minutes since the midnight before now.        *)
(***************************************************************************)
EXTENDS Integers

CONSTANTS
    Day,
    Unset,     \* send_after has not been calculated
    NotHeld    \* send_after is None: the email may go out at once

ASSUME DayAssumption ==
    /\ Day \in Nat \ {0}
    /\ Unset \notin Int /\ NotHeld \notin Int /\ Unset # NotHeld   \* an instant is neither

VARIABLES start, end, now, send_after

QuietVars == <<start, end, now, send_after>>

TimeOfDay == 0 .. Day - 1

QuietInit ==
    /\ start \in TimeOfDay
    /\ end \in TimeOfDay
    /\ now \in TimeOfDay
    /\ send_after = Unset

in_quiet_hours_to_the_end(s, e, t) ==
    IF s < e THEN s <= t /\ t <= e ELSE s <= t \/ t <= e

in_quiet_hours(s, e, t) ==
    IF s < e THEN s <= t /\ t < e ELSE s <= t \/ t < e

minutes_until_end(s, e, t) ==
    IF t >= s THEN (Day - t) + e ELSE e - t

calculate_send_after(s, e, t) ==
    IF in_quiet_hours(s, e, t) THEN t + minutes_until_end(s, e, t) ELSE NotHeld

\* enqueue_email stores what calculate_send_after returns.
Hold ==
    /\ send_after = Unset
    /\ send_after' = calculate_send_after(start, end, now)
    /\ UNCHANGED <<start, end, now>>

-----------------------------------------------------------------------------
\* The quiet hours, walked: t is quiet when going forward from start it is
\* reached before end is.
Quiet(s, e, t) == (t - s) % Day < (e - s) % Day

(***************************************************************************)
(* calculate_send_after: an email is held back exactly when it is enqueued *)
(* in quiet hours, to a moment that is later and is outside of them.  Not  *)
(* said of start = end, where the code takes the whole day to be quiet.    *)
(***************************************************************************)
HeldUntilOutside ==
    send_after # Unset /\ start # end =>
        IF Quiet(start, end, now)
        THEN /\ send_after # NotHeld
             /\ send_after > now
             /\ ~Quiet(start, end, send_after % Day)
        ELSE send_after = NotHeld

(***************************************************************************)
(* calculate_send_after, "Calculate when quiet hours end": an email is     *)
(* held back to the end of the quiet hours it was enqueued in.             *)
(***************************************************************************)
HeldOnlyUntilEnd ==
    send_after \notin {Unset, NotHeld} /\ start # end =>
        \A t \in now .. send_after - 1 : Quiet(start, end, t % Day)
=============================================================================
