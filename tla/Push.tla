-------------------------------- MODULE Push --------------------------------
(***************************************************************************)
(* Push notifications to the devices of one user:                          *)
(* services/push_notifications.rs, the push proxy (push-proxy/src) and the *)
(* registration of devices (api/v4/users/sessions.rs).                     *)
(*                                                                         *)
(* The application on a device holds one token of one provider, which the  *)
(* provider may revoke at any time; the application then gets another and  *)
(* registers it.  Apple's and Google's services are external: they accept  *)
(* the tokens they issued and have not revoked, refuse the others as       *)
(* invalid, and may always fail.  Titles, bodies and retries of a request  *)
(* (CircuitBreaker) are left out.                                          *)
(***************************************************************************)
EXTENDS Requests, FiniteSets

CONSTANTS
    Devices,
    ApnsTokens,   \* issued by Apple's service
    FcmTokens     \* issued by Google's

Tokens == ApnsTokens \cup FcmTokens

ASSUME PushAssumption == Devices \cap Tokens = {}   \* an identifier of a device is no token

Platform(k) == IF k \in ApnsTokens THEN "ios" ELSE "android"

VARIABLES
    row,       \* user_devices: device_id -> token, None: no row, or one without a token
    holds,     \* device -> the token its application registered, None: not registered
    unsaved,   \* devices whose registration the database refused, unknown to them
    live,      \* tokens that their provider accepts
    service,   \* configuration: which of the proxy, its two clients and the direct way there are
    jwtOld,    \* whether the proxy's token for Apple's service is older than an hour
    refused    \* history: tokens that some service called invalid

PushVars == <<row, holds, unsaved, live, service, jwtOld, refused>>

Services == {"proxy", "proxy_apns", "proxy_fcm", "direct_fcm"}

PushInit ==
    /\ row = [d \in Devices \cup Tokens |-> None]
    /\ holds = [d \in Devices |-> None] /\ unsaved = {}
    /\ live = Tokens
    /\ service \in SUBSET Services
    /\ jwtOld = FALSE /\ refused = {}

-----------------------------------------------------------------------------
(* Devices (users/sessions.rs). *)

\* The identifier the row has: the mobile application puts the token into it, others send it apart.
parse_mobile_device_id(d, k, embedded) == IF embedded THEN k ELSE d

\* An upsert of (user, device_id); the answer is OK also when the database refuses it.
attach_device(d, k, embedded, saved) ==
    /\ k \in live /\ \A e \in Devices : holds[e] # k
    /\ row' = IF saved THEN [row EXCEPT ![parse_mobile_device_id(d, k, embedded)] = k] ELSE row
    /\ unsaved' = IF saved THEN unsaved \ {d} ELSE unsaved \cup {d}
    /\ holds' = [holds EXCEPT ![d] = k]
    /\ Statement
    /\ UNCHANGED <<live, service, jwtOld, refused>>
\* A device_id with no token, in it or apart: the same upsert sets the token to NULL.
attach_without_token(d, saved) ==
    /\ row' = IF saved THEN [row EXCEPT ![d] = None] ELSE row
    /\ holds' = [holds EXCEPT ![d] = None]
    /\ Statement
    /\ UNCHANGED <<unsaved, live, service, jwtOld, refused>>

detach_device(d, id) ==
    /\ holds[d] # None /\ id \in {d, holds[d]}
    /\ row[id] = holds[d]
    /\ row' = [row EXCEPT ![id] = None]
    /\ holds' = [holds EXCEPT ![d] = None]
    /\ Statement
    /\ UNCHANGED <<unsaved, live, service, jwtOld, refused>>

-----------------------------------------------------------------------------
(* The services and the proxy: what sending to token k may answer. *)

\* Apple's service (apns.rs: send_message_push, send_voip_push).  The client's own token is made once,
\* when the proxy starts, and Apple refuses it after an hour: an error, not an invalid token.
Apns(k) == {"error"} \cup IF jwtOld THEN {} ELSE IF k \in ApnsTokens \cap live THEN {"ok"} ELSE {"invalid"}
\* Google's service (fcm.rs: send).
Fcm(k) == {"error"} \cup IF k \in FcmTokens \cap live THEN {"ok"} ELSE {"invalid"}

send_fcm_push(k) == IF "proxy_fcm" \in service THEN Fcm(k) ELSE {"error"}
send_ios_message_push(k) == IF "proxy_apns" \in service THEN Apns(k) ELSE send_fcm_push(k)
send_voip_push(k) == IF "proxy_apns" \in service THEN Apns(k) ELSE {"error"}

\* Routing by platform (push-proxy main.rs, send_notification).
send_notification(k, call) ==
    CASE Platform(k) = "ios" /\ call -> send_voip_push(k)
      [] Platform(k) = "ios" /\ ~call -> send_ios_message_push(k)
      [] OTHER -> send_fcm_push(k)

\* The proxy that does not answer counts as not there.
send_via_push_proxy(k, call) == send_notification(k, call) \cup {"not_configured"}

get_fcm_config == "direct_fcm" \in service
\* send_fcm_message: the same service, whatever the platform.
send_push_notification_direct(k) == IF get_fcm_config THEN Fcm(k) ELSE {"not_configured"}

\* The proxy; then, unless it sent the notification or called the token invalid, the direct way.
send_push_notification(k, call) ==
    IF "proxy" \notin service THEN send_push_notification_direct(k)
    ELSE LET final == {"ok", "invalid"}
         IN  (send_via_push_proxy(k, call) \cap final)
             \cup IF send_via_push_proxy(k, call) \subseteq final THEN {} ELSE send_push_notification_direct(k)

-----------------------------------------------------------------------------
(* Sending to a user. *)

\* Device rows with a token, whoever has them now.
get_user_devices == {row[id] : id \in {i \in DOMAIN row : row[i] # None}}

send_push_to_user(t, call) ==
    /\ get_user_devices # {}
    /\ Begin(t, <<Stmt("push", [left |-> get_user_devices, call |-> call])>>)
    /\ UNCHANGED PushVars
send_message_notification(t) == send_push_to_user(t, FALSE)
send_call_ringing_notification(t) == send_push_to_user(t, TRUE)
test_notifications(t) == send_push_to_user(t, FALSE)

Rest(o, k) == IF o.x.left = {k} THEN <<>> ELSE <<Stmt("push", [o.x EXCEPT !.left = @ \ {k}])>>

\* One device of the loop.  Not configured: the loop stops.  An invalid token: its device is deleted
\* before the next.  An error is logged.
SendToDevice(t, o) ==
    /\ o.do = "push"
    /\ \E k \in o.x.left : \E answer \in send_push_notification(k, o.x.call) :
          /\ refused' = IF answer = "invalid" THEN refused \cup {k} ELSE refused
          /\ CASE answer = "not_configured" -> GiveUp(t)
               [] answer = "invalid" -> Continue(t, <<Stmt("delete_invalid", k)>> \o Rest(o, k))
               [] OTHER -> Continue(t, Rest(o, k))
    /\ UNCHANGED <<row, holds, unsaved, live, service, jwtOld>>

\* DELETE ... WHERE user_id = the user's, whatever the token.
delete_user_devices(t, o) ==
    /\ o.do = "delete_invalid"
    /\ row' = [id \in DOMAIN row |-> None]
    /\ Continue(t, <<>>)
    /\ UNCHANGED <<holds, unsaved, live, service, jwtOld, refused>>

\* DELETE ... WHERE token = the token sent to.
delete_invalid_device(t, o) ==
    /\ o.do = "delete_invalid"
    /\ row' = [id \in DOMAIN row |-> IF row[id] = o.x THEN None ELSE row[id]]
    /\ Continue(t, <<>>)
    /\ UNCHANGED <<holds, unsaved, live, service, jwtOld, refused>>

\* A provider revokes a token; the proxy's token for Apple grows old, and a restart makes another.
TokenRevoked(k) ==
    /\ k \in live
    /\ live' = live \ {k}
    /\ Statement
    /\ UNCHANGED <<row, holds, unsaved, service, jwtOld, refused>>
generate_jwt_token(old) ==
    /\ {"proxy", "proxy_apns"} \subseteq service /\ jwtOld # old
    /\ jwtOld' = old
    /\ Statement
    /\ UNCHANGED <<row, holds, unsaved, live, service, refused>>

PushRequest(t) ==
    \/ \E d \in Devices, k \in Tokens : \E embedded, saved \in BOOLEAN : attach_device(d, k, embedded, saved)
    \/ \E d \in Devices, saved \in BOOLEAN : attach_without_token(d, saved)
    \/ \E d \in Devices : \E id \in {d} \cup Tokens : detach_device(d, id)
    \/ send_message_notification(t) \/ send_call_ringing_notification(t) \/ test_notifications(t)
    \/ \E k \in Tokens : TokenRevoked(k)
    \/ \E old \in BOOLEAN : generate_jwt_token(old)

PushStep(t, o) == SendToDevice(t, o) \/ delete_invalid_device(t, o)

PushNext ==
    \/ /\ events < MaxEvents
       /\ \E t \in Tasks : PushRequest(t) \/ (Interrupted(t) /\ UNCHANGED PushVars)
    \/ \E t \in Tasks : Busy(t) /\ PushStep(t, Head(task[t]))

-----------------------------------------------------------------------------
(* Properties. *)

\* A device stays registered with the token it holds, unless that very token was called invalid: a
\* notification that was sent to the token before it removes nothing of the new one, however late the
\* deletion comes (push_notifications.rs, delete_invalid_device).
TokenStaysRegistered ==
    \A d \in Devices \ unsaved :
        holds[d] # None => holds[d] \in refused \/ \E id \in DOMAIN row : row[id] = holds[d]

=============================================================================
