----------------------------- MODULE UserStatus -----------------------------
(***************************************************************************)
(* What a user says of themselves: presence and custom status              *)
(* (api/v4/status.rs, the status handlers of api/users.rs, the worker of   *)
(* jobs/status_expiry.rs), settings and notification levels                *)
(* (api/preferences.rs) and the preferences of Mattermost clients          *)
(* (api/v4/users/user_preferences.rs).                                     *)
(*                                                                         *)
(* One user, whose requests and those of an administrator interleave with  *)
(* the worker.  A custom status is its text and the time it ends at; of    *)
(* time there is only the order of the clock and those ends.               *)
(***************************************************************************)
EXTENDS Requests

CONSTANTS
    Texts,        \* custom statuses, by emoji and text
    BaseSettings, \* settings an INSERT gives a default
    MoreSettings, \* those that it leaves NULL
    MaxClock      \* bound on the clock

Custom(text, until) == [text |-> text, until |-> until]
CustomRow == [text : Texts, until : Nat \cup {None}]
LevelRow  == [level : {"default", "mentions"}, muted : BOOLEAN]
SettingsRow == [BaseSettings \cup MoreSettings -> {"default", "chosen", None}]

ASSUME StatusAssumption ==   \* no row is the absence of a row
    MaxClock \in Nat /\ None \notin CustomRow \cup LevelRow \cup SettingsRow

Presences == {"online", "away"}   \* "dnd" and "offline" are written like "away"
Settings == BaseSettings \cup MoreSettings
MaxRecent == 5

VARIABLES
    clock,
    users,        \* the user's row: presence, presence_manual and custom status
    announced,    \* the last status_change that clients got
    recent,       \* mattermost_preferences, recent_custom_status: a sequence; None: no row
    user_preferences,   \* setting -> value; None: no row
    notifications,      \* channel_notification_settings: level and mute; None: no row
    presets,      \* the user's own status presets
    wrote         \* history: what the user last asked for of all these

StatusVars == <<clock, users, announced, recent, user_preferences, notifications, presets, wrote>>

StatusExpired(cs) == IF cs = None THEN FALSE ELSE cs.until # None /\ cs.until <= clock

UserStatusInit ==
    /\ clock = 0
    /\ users = [presence |-> "away", manual |-> FALSE, custom |-> None]
    /\ announced = users
    /\ recent = None /\ user_preferences = None /\ notifications = None /\ presets = {}
    /\ wrote = [custom |-> None, settings |-> [s \in Settings |-> None], level |-> None]

-----------------------------------------------------------------------------
(* The custom status (status.rs). *)

\* "Don't clear", and a date that the request does not carry: never.  The other durations end later.
to_expires_at(duration, date) ==
    CASE duration = "dont_clear" -> None
      [] duration = "date_and_time" -> date
      [] OTHER -> clock + 1

\* The body of /users/me/status: it carries no date.  None: clear.
build_custom_status_from_update_request(text, duration) ==
    IF text = None THEN None ELSE Custom(text, to_expires_at(duration, None))

\* UPDATE users: the statement of update_custom_status_internal, of users.rs' update_my_status and of
\* delete_my_status.
WriteCustom(cs) ==
    /\ users' = [users EXCEPT !.custom = cs]
    /\ wrote' = [wrote EXCEPT !.custom = cs]

\* Before it is announced a status is added to the recent ones, over three statements.
update_custom_status_internal(t, cs, then) ==
    /\ Begin(t, (IF cs = None THEN <<>> ELSE <<Stmt("read_recent", cs)>>) \o then)
    /\ WriteCustom(cs)
    /\ UNCHANGED <<clock, announced, recent, user_preferences, notifications, presets>>

Announce == <<Stmt("clear_expired", None), Stmt("read_snapshot", None)>>

update_user_custom_status(t, text, duration, date) ==
    update_custom_status_internal(t, Custom(text, to_expires_at(duration, date)), Announce)
clear_user_custom_status(t) == update_custom_status_internal(t, None, Announce)

\* v1: the same row, without the recent ones.
delete_my_status(t) ==
    /\ Begin(t, Announce)
    /\ WriteCustom(None)
    /\ UNCHANGED <<clock, announced, recent, user_preferences, notifications, presets>>

\* UPDATE users SET presence, presence_manual: manual unless it is "online".
WritePresence(presence) == [users EXCEPT !.presence = presence, !.manual = presence # "online"]

update_user_status_internal(t, presence, then) ==
    /\ Begin(t, then)
    /\ users' = WritePresence(presence)
    /\ UNCHANGED <<clock, announced, recent, user_preferences, notifications, presets, wrote>>
update_user_status(t, presence) == update_user_status_internal(t, presence, Announce)

\* v4: presence, then the custom status, then one announcement.
update_my_status(t, presence, text, duration) ==
    update_user_status_internal(t, presence,
        <<Stmt("write_custom", build_custom_status_from_update_request(text, duration))>> \o Announce)
\* v1 (users.rs): the custom status alone, without the recent ones.
update_my_status_v1(t, text, duration) ==
    /\ Begin(t, Announce)
    /\ WriteCustom(build_custom_status_from_update_request(text, duration))
    /\ UNCHANGED <<clock, announced, recent, user_preferences, notifications, presets>>
WriteCustomLater(t, o) ==
    /\ o.do = "write_custom"
    /\ WriteCustom(o.x)
    /\ Continue(t, IF o.x = None THEN <<>> ELSE <<Stmt("read_recent", o.x)>>)
    /\ UNCHANGED <<clock, announced, recent, user_preferences, notifications, presets>>

\* The value is a TEXT that is read as a JSON value: once there is a row the request ends with an
\* error, before anything is announced.
add_to_recent_custom_statuses(t, o) ==
    /\ o.do = "read_recent"
    /\ IF recent # None THEN GiveUp(t) ELSE Continue(t, <<Stmt("write_recent", <<o.x.text>>)>>)
    /\ UNCHANGED StatusVars
WriteRecent(t, o) ==
    /\ o.do = "write_recent"
    /\ recent' = SubSeq(o.x, 1, IF Len(o.x) < MaxRecent THEN Len(o.x) ELSE MaxRecent)
    /\ Continue(t, <<>>)
    /\ UNCHANGED <<clock, users, announced, user_preferences, notifications, presets, wrote>>

\* Read (here as TEXT), filter, write back.
delete_recent_custom_status(t, text) ==
    /\ Begin(t, <<Stmt("write_recent", IF recent = None THEN <<>>
                                       ELSE SelectSeq(recent, LAMBDA x : x # text))>>)
    /\ UNCHANGED StatusVars

-----------------------------------------------------------------------------
(* Expiry. *)

\* The expiry that clears whatever status there is.
ClearAny == [users EXCEPT !.custom = None]
\* UPDATE ... WHERE status_expires_at <= NOW(): of one user, of some, of all.
ClearExpired == IF StatusExpired(users.custom) THEN [users EXCEPT !.custom = None] ELSE users

clear_expired_custom_status_if_needed(t, o) ==
    /\ o.do = "clear_expired"
    /\ users' = ClearExpired
    /\ Continue(t, <<>>)
    /\ UNCHANGED <<clock, announced, recent, user_preferences, notifications, presets, wrote>>

\* The row is read, and sent to everybody afterwards.
fetch_user_status_snapshot(t, o) ==
    /\ o.do = "read_snapshot"
    /\ Continue(t, <<Stmt("broadcast", users)>>)
    /\ UNCHANGED StatusVars
broadcast_status_change(t, o) ==
    /\ o.do = "broadcast"
    /\ announced' = o.x
    /\ Continue(t, <<>>)
    /\ UNCHANGED <<clock, users, recent, user_preferences, notifications, presets, wrote>>

\* Reading a status clears it when it has expired, and tells nobody.
get_user_status ==
    /\ StatusExpired(users.custom)
    /\ users' = ClearExpired
    /\ Statement
    /\ UNCHANGED <<clock, announced, recent, user_preferences, notifications, presets, wrote>>

\* The worker: one UPDATE, and an announcement of each user that it changed.
run_custom_status_expiry_cleanup(t) ==
    /\ users' = ClearExpired
    /\ users' # users
    /\ Begin(t, Announce)
    /\ UNCHANGED <<clock, announced, recent, user_preferences, notifications, presets, wrote>>

TimePasses ==
    /\ clock < MaxClock
    /\ clock' = clock + 1
    /\ UNCHANGED <<users, announced, recent, user_preferences, notifications, presets, wrote>>
    /\ UNCHANGED RequestVars

-----------------------------------------------------------------------------
(* Settings (preferences.rs). *)

\* What INSERT INTO user_preferences (user_id) makes.
Defaults == [s \in Settings |-> "default"]

\* SELECT; without a row, INSERT the defaults.
get_my_preferences(t) ==
    /\ user_preferences = None
    /\ Begin(t, <<Stmt("insert_defaults", None)>>)
    /\ UNCHANGED StatusVars
\* A row that came meanwhile makes the INSERT fail.
InsertDefaults(t, o) ==
    /\ o.do = "insert_defaults"
    /\ IF user_preferences # None
       THEN GiveUp(t) /\ UNCHANGED user_preferences
       ELSE Continue(t, <<>>) /\ user_preferences' = Defaults
    /\ UNCHANGED <<clock, users, announced, recent, notifications, presets, wrote>>

\* One upsert: the settings of the request, the others as they were.
update_my_preferences(some) ==
    /\ Statement
    /\ user_preferences' =
          [s \in Settings |-> IF s \in DOMAIN some THEN some[s]
                              ELSE IF user_preferences # None THEN user_preferences[s]
                              ELSE IF s \in BaseSettings THEN "default" ELSE None]
    /\ wrote' = [wrote EXCEPT !.settings = [s \in Settings |-> IF s \in DOMAIN some THEN some[s] ELSE @[s]]]
    /\ UNCHANGED <<clock, users, announced, recent, notifications, presets>>

\* One upsert: a level, a mute, or both; what the request leaves out stays.
update_channel_notifications(level, muted) ==
    /\ Statement
    /\ notifications' = [level |-> IF level # None THEN level
                                   ELSE IF notifications # None THEN notifications.level ELSE "default",
                         muted |-> IF muted # "as_is" THEN muted = "yes"
                                   ELSE IF notifications # None THEN notifications.muted ELSE FALSE]
    /\ wrote' = IF level # None THEN [wrote EXCEPT !.level = level] ELSE wrote
    /\ UNCHANGED <<clock, users, announced, recent, user_preferences, presets>>

create_status_preset(text) ==
    /\ Statement
    /\ presets' = presets \cup {text}
    /\ UNCHANGED <<clock, users, announced, recent, user_preferences, notifications, wrote>>
delete_status_preset(text) ==
    /\ Statement
    /\ text \in presets
    /\ presets' = presets \ {text}
    /\ UNCHANGED <<clock, users, announced, recent, user_preferences, notifications, wrote>>

-----------------------------------------------------------------------------
(* Preferences of Mattermost clients: in one transaction, the recent statuses among them. *)

update_preferences_internal(value) ==
    /\ Statement
    /\ recent' = value
    /\ UNCHANGED <<clock, users, announced, user_preferences, notifications, presets, wrote>>
delete_preferences_for_user ==
    /\ Statement
    /\ recent # None
    /\ recent' = None
    /\ UNCHANGED <<clock, users, announced, user_preferences, notifications, presets, wrote>>

StatusRequest(t) ==
    \/ \E text \in Texts, date \in {None, clock + 1} : update_user_custom_status(t, text, "date_and_time", date)
    \/ \E text \in Texts : update_user_custom_status(t, text, "one_hour", None)
    \/ clear_user_custom_status(t) \/ delete_my_status(t)
    \/ \E p \in Presences : update_user_status(t, p)
    \/ \E text \in Texts \cup {None}, d \in {"dont_clear", "date_and_time", "one_hour"} :
          \/ update_my_status(t, "away", text, d)
          \/ update_my_status_v1(t, text, d)
    \/ \E text \in Texts : delete_recent_custom_status(t, text)
    \/ \E text \in Texts : update_preferences_internal(<<text>>)
    \/ delete_preferences_for_user
    \/ get_user_status \/ run_custom_status_expiry_cleanup(t)

SettingsRequest(t) ==
    \/ get_my_preferences(t)
    \/ \E s \in Settings : update_my_preferences([x \in {s} |-> "chosen"])
    \/ \E level \in {None, "mentions"}, muted \in {"as_is", "yes", "no"} : update_channel_notifications(level, muted)
    \/ \E text \in Texts : create_status_preset(text) \/ delete_status_preset(text)

StatusStep(t, o) ==
    \/ WriteCustomLater(t, o) \/ add_to_recent_custom_statuses(t, o) \/ WriteRecent(t, o)
    \/ clear_expired_custom_status_if_needed(t, o) \/ fetch_user_status_snapshot(t, o)
    \/ broadcast_status_change(t, o)

\* The two do not touch each other's state.
StatusNext ==
    \/ /\ events < MaxEvents
       /\ \E t \in Tasks : StatusRequest(t) \/ (Interrupted(t) /\ UNCHANGED StatusVars)
    \/ \E t \in Tasks : Busy(t) /\ StatusStep(t, Head(task[t]))
    \/ TimePasses
SettingsNext ==
    \/ /\ events < MaxEvents
       /\ \E t \in Tasks : SettingsRequest(t) \/ (Interrupted(t) /\ UNCHANGED StatusVars)
    \/ \E t \in Tasks : Busy(t) /\ InsertDefaults(t, Head(task[t]))

-----------------------------------------------------------------------------
(* Properties. *)

\* The row has the custom status that a request wrote last, unless it has expired, and the settings
\* and the level that requests wrote last: the clearing of an old status by the worker, by a reader or
\* by another request never takes a new one with it (status.rs, clear_expired_custom_statuses), and
\* the defaults that a reader inserts never replace what was chosen (preferences.rs, get_my_preferences).
ChoicesAreKept ==
    /\ users.custom = wrote.custom \/ (users.custom = None /\ StatusExpired(wrote.custom))
    /\ \A s \in Settings : wrote.settings[s] # None =>
          user_preferences # None /\ user_preferences[s] = wrote.settings[s]
    /\ wrote.level # None => notifications # None /\ notifications.level = wrote.level

=============================================================================
