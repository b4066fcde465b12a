------------------------------ MODULE Accounts ------------------------------
(***************************************************************************)
(* Accounts and how people get into them: registration and login           *)
(* (api/auth.rs, api/v4/users/auth.rs), verification mails                 *)
(* (services/email_verification.rs), password resets and setups            *)
(* (services/password_reset.rs), OAuth (api/oauth.rs,                      *)
(* services/oauth_token_exchange.rs), and the administration of users and  *)
(* of the identity provider (api/admin.rs, api/v4/users/management.rs).    *)
(*                                                                         *)
(* A person is one email address and one identity at the provider, and has *)
(* at most one account in its life.  A task carries out a list of          *)
(* instructions, one statement each; a request of one statement after its  *)
(* checks is one step.  Names, profiles and password rules are left out,   *)
(* and so are the signatures and nonces that make a token unforgeable:     *)
(* whoever presents a token has been given it.                             *)
(***************************************************************************)
EXTENDS Naturals, Sequences, FiniteSets

CONSTANTS
    People,
    Admins,       \* those with an account and a session at the start
    Resets,       \* password reset tokens
    Codes,        \* exchange codes
    States,       \* OAuth states
    Tasks,
    None,
    EmailLimit,   \* RATE_LIMIT_EMAIL_HOURLY
    MaxFaults,    \* bound on failures and expiries
    MaxEvents     \* bound on requests and faults together

\* Rows of users, password_reset_tokens, sso_configs, and the payload of an exchange code.
UserRow == [active : BOOLEAN, deleted : BOOLEAN, admin : BOOLEAN, pw : BOOLEAN, verified : BOOLEAN, sso : BOOLEAN]
ResetRow == [email : People, who : People \cup {None}, setup : BOOLEAN, used : BOOLEAN, old : BOOLEAN, mailed : BOOLEAN]
ProviderRow == [oidc : BOOLEAN, active : BOOLEAN, provisions : BOOLEAN]
CodeRow == [who : People, admin : BOOLEAN, challenge : BOOLEAN]

ASSUME AccountsAssumption ==
    /\ Admins \subseteq People
    /\ {EmailLimit, MaxFaults, MaxEvents} \subseteq Nat
    /\ None \notin UserRow \cup ResetRow \cup ProviderRow \cup CodeRow

VARIABLES
    user,       \* users: person -> row, None: no row
    former,     \* people whose row was wiped
    reset,      \* password_reset_tokens
    verify,     \* email_verification_tokens: person -> row, number 0: no row
    provider,   \* sso_configs: None, or the provider's row
    ostate,     \* Redis: OAuth state -> "new", "web", "mobile" or "gone"
    code,       \* Redis: exchange code -> payload, None: no entry
    session,    \* tokens (JWT) in people's hands
    task,       \* task -> what is left to do
    redeemed,   \* states whose authorization the provider has redeemed
    seen,       \* history: codes that have been issued
    granted,    \* history: code -> sessions it has granted
    waiting,    \* history: people who registered without a password
    activated,  \* history: people whom a request has set active
    faults,     \* failures and expiries so far
    requests    \* requests so far

Oauth == <<ostate, redeemed>>
Coded == <<code, seen, granted>>
Tokens == <<reset, verify>>
Persons == <<user, former, waiting, activated>>
AccountVars == <<Persons, Tokens, provider, Oauth, Coded, session, task, faults, requests>>

NoToken == [n |-> 0, used |-> FALSE, mailed |-> FALSE]
NewUser(active, admin, pw, sso) ==
    [active |-> active, deleted |-> FALSE, admin |-> admin, pw |-> pw, verified |-> FALSE, sso |-> sso]

AccountsInit ==
    /\ user = [p \in People |-> IF p \in Admins THEN [NewUser(TRUE, TRUE, TRUE, FALSE) EXCEPT !.verified = TRUE] ELSE None]
    /\ former = {} /\ waiting = {} /\ activated = {}
    /\ reset = [r \in Resets |-> None]
    /\ verify = [p \in People |-> NoToken]
    /\ provider \in {None, [oidc |-> TRUE, active |-> TRUE, provisions |-> TRUE]}
    /\ ostate = [s \in States |-> "new"] /\ redeemed = {}
    /\ code = [c \in Codes |-> None] /\ seen = {} /\ granted = [c \in Codes |-> 0]
    /\ session = [who : Admins, admin : {TRUE}]
    /\ task = [t \in Tasks |-> <<>>]
    /\ faults = 0 /\ requests = 0

Exists(p) == user[p] # None
\* deleted_at IS NULL
Live(p) == IF Exists(p) THEN ~user[p].deleted ELSE FALSE
\* is_active = true AND deleted_at IS NULL
Active(p) == IF Live(p) THEN user[p].active ELSE FALSE

-----------------------------------------------------------------------------
(* Tasks and requests. *)

Op(do, p, x) == [do |-> do, p |-> p, x |-> x]

Busy(t) == task[t] # <<>>
Doing(ops) == \E t \in Tasks : \E i \in 1..Len(task[t]) : task[t][i].do \in ops

Count == requests + faults < MaxEvents /\ requests' = requests + 1

Begin(t, todo) ==
    /\ Count
    /\ ~Busy(t) /\ t = CHOOSE x \in Tasks : ~Busy(x)
    /\ task' = [task EXCEPT ![t] = todo]
    /\ UNCHANGED faults

Continue(t, more) ==
    /\ task' = [task EXCEPT ![t] = more \o Tail(@)]
    /\ UNCHANGED <<faults, requests>>

\* An error ends the request.
GiveUp(t) == task' = [task EXCEPT ![t] = <<>>] /\ UNCHANGED <<faults, requests>>

Statement == Count /\ UNCHANGED <<task, faults>>

\* The token is valid and its user active; the role is the one the token was made with (auth/middleware.rs).
ensure_user_access_active(a, admin) == Active(a) /\ [who |-> a, admin |-> admin] \in session
SignedIn(a) == \E admin \in BOOLEAN : ensure_user_access_active(a, admin)
require_admin(a) == ensure_user_access_active(a, TRUE)

\* The trigger check_local_user_password refuses a verified local user without a password.
Accepted(row) == row.verified => row.pw \/ row.sso
SetUser(p, row) == Accepted(row) /\ user' = [user EXCEPT ![p] = row]

Login(p) == session' = session \cup {[who |-> p, admin |-> user[p].admin]}

-----------------------------------------------------------------------------
(* Registration, login and verification (api/auth.rs, api/v4/users/auth.rs). *)

\* send_verification_email: a token, then the mail with it.
send_verification_email(p) == <<Op("token", p, None)>>
\* send_password_setup_email: the limit is checked, then a token, then the mail.
send_password_setup_email(p) == <<Op("setup", p, None)>>

\* Without the site's address no mail can be sent; a password logs the person in at once.
AfterRegistration(p, haspw, site_url) ==
    (IF ~site_url THEN <<>> ELSE IF haspw THEN send_verification_email(p) ELSE send_password_setup_email(p))
    \o (IF haspw THEN <<Op("login", p, None)>> ELSE <<>>)

register(t, p, haspw, site_url) ==
    /\ ~Live(p) /\ p \notin former
    /\ Begin(t, <<Op("insert", p, NewUser(haspw, FALSE, haspw, FALSE))>> \o AfterRegistration(p, haspw, site_url))
    /\ UNCHANGED <<Persons, Tokens, provider, Oauth, Coded, session>>

\* INSERT INTO users: the address is unique, deleted accounts included.
InsertUser(t, o) ==
    /\ o.do = "insert"
    /\ IF Exists(o.p) \/ o.p \in former THEN GiveUp(t) /\ UNCHANGED Persons
       ELSE /\ SetUser(o.p, o.x)
            /\ Continue(t, <<>>)
            /\ waiting' = IF o.x.pw \/ o.x.sso THEN waiting ELSE waiting \cup {o.p}
            /\ UNCHANGED <<former, activated>>
    /\ UNCHANGED <<Tokens, provider, Oauth, Coded, session>>

\* One row per person: the new token takes the place of the old one.
create_verification_token(t, o) ==
    /\ o.do = "token"
    /\ IF Exists(o.p)
       THEN /\ verify' = [verify EXCEPT ![o.p] = [NoToken EXCEPT !.n = verify[o.p].n + 1]]
            /\ Continue(t, <<Op("mail", o.p, verify[o.p].n + 1)>>)
       ELSE GiveUp(t) /\ UNCHANGED verify
    /\ UNCHANGED <<Persons, reset, provider, Oauth, Coded, session>>

\* The mail is queued; a mail with a token that was replaced is of no use.
MailToken(t, o) ==
    /\ o.do = "mail"
    /\ verify' = [verify EXCEPT ![o.p].mailed = @ \/ verify[o.p].n = o.x]
    /\ Continue(t, <<>>)
    /\ UNCHANGED <<Persons, reset, provider, Oauth, Coded, session>>

\* The token for the new account is made from the row that was inserted.
FirstLogin(t, o) ==
    /\ o.do = "login"
    /\ session' = session \cup {[who |-> o.p, admin |-> FALSE]}
    /\ Continue(t, <<>>)
    /\ UNCHANGED <<Persons, Tokens, provider, Oauth, Coded>>

login(p) ==
    /\ Active(p) /\ user[p].pw
    /\ Statement
    /\ Login(p)
    /\ UNCHANGED <<Persons, Tokens, provider, Oauth, Coded>>
v4_login(p) == login(p)

\* Only for active accounts that are not verified.
resend_verification(t, p) ==
    /\ Active(p) /\ ~user[p].verified
    /\ Begin(t, send_verification_email(p))
    /\ UNCHANGED <<Persons, Tokens, provider, Oauth, Coded, session>>
v4_send_email_verification(t, p) == resend_verification(t, p)

\* Three statements: the token is read, marked as used, and then the account is verified.
verify_token(t, p) ==
    /\ verify[p].mailed /\ ~verify[p].used
    /\ Begin(t, <<Op("use", p, verify[p].n), Op("verified", p, None)>>)
    /\ UNCHANGED <<Persons, Tokens, provider, Oauth, Coded, session>>
verify_email(t, p) == verify_token(t, p)
v4_verify_email(t, p) == verify_token(t, p)

MarkUsed(t, o) ==
    /\ o.do = "use"
    /\ verify' = [verify EXCEPT ![o.p].used = @ \/ (verify[o.p].n = o.x)]
    /\ Continue(t, <<>>)
    /\ UNCHANGED <<Persons, reset, provider, Oauth, Coded, session>>

\* Mutant: only an active account is verified.
MarkActiveVerified(t, o) ==
    /\ o.do = "verified"
    /\ IF Active(o.p)
       THEN SetUser(o.p, [user[o.p] EXCEPT !.verified = user[o.p].pw \/ user[o.p].sso])
       ELSE UNCHANGED user
    /\ Continue(t, <<>>)
    /\ UNCHANGED <<former, waiting, activated, Tokens, provider, Oauth, Coded, session>>

\* The trigger refuses it for a local account without a password: the request fails here.
MarkVerified(t, o) ==
    /\ o.do = "verified"
    /\ IF Exists(o.p)
       THEN SetUser(o.p, [user[o.p] EXCEPT !.verified = user[o.p].verified \/ user[o.p].pw \/ user[o.p].sso])
       ELSE UNCHANGED user
    /\ Continue(t, <<>>)
    /\ UNCHANGED <<former, waiting, activated, Tokens, provider, Oauth, Coded, session>>

-----------------------------------------------------------------------------
(* Password resets (services/password_reset.rs). *)

\* Tokens of the last hour for the address; a token is valid for an hour.
check_rate_limits(p) ==
    Cardinality({r \in Resets : IF reset[r] = None THEN FALSE ELSE reset[r].email = p /\ ~reset[r].old}) < EmailLimit

Reset(p, who, setup) ==
    [email |-> p, who |-> who, setup |-> setup, used |-> FALSE, old |-> FALSE, mailed |-> FALSE]

\* The limit, the account (None if it is not active), the token, the mail.
request_password_reset(t, p) ==
    /\ check_rate_limits(p)
    /\ Begin(t, <<Op("find", p, None)>>)
    /\ UNCHANGED <<Persons, Tokens, provider, Oauth, Coded, session>>

FindForReset(t, o) ==
    /\ o.do = "find"
    /\ Continue(t, <<Op("reset", o.p, Reset(o.p, IF Active(o.p) THEN o.p ELSE None, FALSE))>>)
    /\ UNCHANGED <<Persons, Tokens, provider, Oauth, Coded, session>>

CheckSetup(t, o) ==
    /\ o.do = "setup"
    /\ IF check_rate_limits(o.p) THEN Continue(t, <<Op("reset", o.p, Reset(o.p, o.p, TRUE))>>) ELSE GiveUp(t)
    /\ UNCHANGED <<Persons, Tokens, provider, Oauth, Coded, session>>

InsertReset(t, o) ==
    /\ o.do = "reset"
    /\ IF o.x.who # None /\ ~Exists(o.p) THEN GiveUp(t) /\ UNCHANGED reset
       ELSE \E r \in Resets :
               /\ reset[r] = None
               /\ reset' = [reset EXCEPT ![r] = o.x]
               /\ Continue(t, IF o.x.who = None THEN <<>> ELSE <<Op("reset_mail", o.p, r)>>)
    /\ UNCHANGED <<Persons, verify, provider, Oauth, Coded, session>>

MailReset(t, o) ==
    /\ o.do = "reset_mail"
    /\ reset' = [reset EXCEPT ![o.x].mailed = TRUE]
    /\ Continue(t, <<>>)
    /\ UNCHANGED <<Persons, verify, provider, Oauth, Coded, session>>

\* SELECT ... FOR UPDATE outside a transaction locks nothing once it has returned.
reset_password(t, r) ==
    /\ reset[r] # None
    /\ reset[r].mailed /\ ~reset[r].used /\ ~reset[r].old /\ reset[r].who # None
    /\ Begin(t, <<Op("set", reset[r].who, r)>>)
    /\ UNCHANGED <<Persons, Tokens, provider, Oauth, Coded, session>>

\* One transaction; the purpose is the one that was read.
ResetTransaction(t, o) ==
    /\ o.do = "set"
    /\ reset' = [reset EXCEPT ![o.x].used = TRUE]
    /\ IF Exists(o.p)
       THEN SetUser(o.p, [user[o.p] EXCEPT !.pw = TRUE, !.verified = TRUE, !.active = @ \/ reset[o.x].setup])
       ELSE UNCHANGED user
    /\ Continue(t, <<>>)
    /\ UNCHANGED <<former, waiting, activated, verify, provider, Oauth, Coded, session>>

-----------------------------------------------------------------------------
(* OAuth (api/oauth.rs, services/oauth_token_exchange.rs). *)

\* The state goes to Redis and with the browser to the provider.
oauth_login(s, kind) ==
    /\ IF provider = None THEN FALSE ELSE provider.active
    /\ ostate[s] = "new"
    /\ Statement
    /\ ostate' = [ostate EXCEPT ![s] = kind]
    /\ UNCHANGED <<Persons, Tokens, provider, redeemed, Coded, session>>

\* The state is read (GET) and then deleted (DEL); with it, the person's authorization comes back.
oauth_callback(t, s, p) ==
    /\ ostate[s] \in {"web", "mobile"}
    /\ Begin(t, <<Op("forget", p, s), Op("provider", p, [s |-> s, mobile |-> ostate[s] = "mobile"])>>)
    /\ UNCHANGED <<Persons, Tokens, provider, Oauth, Coded, session>>

ForgetState(t, o) ==
    /\ o.do = "forget"
    /\ ostate' = [ostate EXCEPT ![o.x] = "gone"]
    /\ Continue(t, <<>>)
    /\ UNCHANGED <<Persons, Tokens, provider, redeemed, Coded, session>>

\* The provider redeems an authorization once, and says who the person is and in which groups.
Redeems(s) == s \notin redeemed /\ redeemed' = redeemed \cup {s}
\* determine_user_role: the mappings of the person's groups; only an OIDC provider tells groups.
exchange_oidc_token(s, admin) == provider.oidc /\ Redeems(s) /\ admin \in BOOLEAN
exchange_github_token(s, admin) == ~provider.oidc /\ Redeems(s) /\ admin = FALSE

AskProvider(t, o) ==
    /\ o.do = "provider"
    /\ IF (IF provider = None THEN FALSE ELSE provider.active) /\ o.x.s \notin redeemed
       THEN \E admin \in BOOLEAN :
               /\ exchange_oidc_token(o.x.s, admin) \/ exchange_github_token(o.x.s, admin)
               /\ Continue(t, <<Op("account", o.p, [oidc |-> provider.oidc, admin |-> admin, mobile |-> o.x.mobile,
                                                    provisions |-> provider.provisions])>>)
       ELSE GiveUp(t) /\ UNCHANGED redeemed
    /\ UNCHANGED <<Persons, Tokens, provider, ostate, Coded, session>>

\* How the callback ends: with a code for the account, bound to a challenge for a mobile client.
ThenCode(p, admin, mobile) == <<Op("code", p, [admin |-> admin, challenge |-> mobile])>>

\* The account is looked up by identity and by address, deleted ones excluded; the provider's row is
\* the one read before.
find_or_create_user(t, o) ==
    /\ o.do = "account"
    /\ IF Live(o.p) THEN Continue(t, <<Op("link", o.p, o.x)>>)
       ELSE IF o.x.provisions
       THEN Continue(t, <<Op("insert", o.p, NewUser(TRUE, o.x.admin, FALSE, TRUE))>> \o ThenCode(o.p, o.x.admin, o.x.mobile))
       ELSE GiveUp(t)
    /\ UNCHANGED <<Persons, Tokens, provider, Oauth, Coded, session>>

\* Mutant: to sign in with the provider activates the account.
LinkAndActivate(t, o) ==
    /\ o.do = "link"
    /\ Exists(o.p)
    /\ SetUser(o.p, [user[o.p] EXCEPT !.sso = TRUE, !.active = TRUE])
    /\ Continue(t, ThenCode(o.p, user[o.p].admin, o.x.mobile))
    /\ UNCHANGED <<former, waiting, activated, Tokens, provider, Oauth, Coded, session>>

\* UPDATE users ... WHERE id: deleted by now or not.  An OIDC provider sets the role as well.
LinkAccount(t, o) ==
    /\ o.do = "link"
    /\ IF Exists(o.p)
       THEN LET admin == IF o.x.oidc THEN o.x.admin ELSE user[o.p].admin
            IN  /\ SetUser(o.p, [user[o.p] EXCEPT !.sso = TRUE, !.admin = admin])
                /\ Continue(t, ThenCode(o.p, admin, o.x.mobile))
       ELSE GiveUp(t) /\ UNCHANGED user
    /\ UNCHANGED <<former, waiting, activated, Tokens, provider, Oauth, Coded, session>>

\* A fresh random code (create_exchange_code has no challenge).
create_exchange_code_with_sso(t, o) ==
    /\ o.do = "code"
    /\ \E c \in Codes \ seen :
          /\ code' = [code EXCEPT ![c] = [who |-> o.p, admin |-> o.x.admin, challenge |-> o.x.challenge]]
          /\ seen' = seen \cup {c}
    /\ Continue(t, <<>>)
    /\ UNCHANGED <<Persons, Tokens, provider, Oauth, granted, session>>

\* Mutant: the code is read and left for Redis to expire.
exchange_code_kept(c, verified) ==
    /\ code[c] # None
    /\ code' = code
    /\ IF code[c].challenge => verified
       THEN /\ session' = session \cup {[who |-> code[c].who, admin |-> code[c].admin]}
            /\ granted' = [granted EXCEPT ![c] = @ + 1]
       ELSE UNCHANGED <<session, granted>>

\* Read and deleted by one script; only then is the challenge compared (verify_sso_metadata).
exchange_code_internal(c, verified) ==
    /\ code[c] # None
    /\ code' = [code EXCEPT ![c] = None]
    /\ IF code[c].challenge => verified
       THEN /\ session' = session \cup {[who |-> code[c].who, admin |-> code[c].admin]}
            /\ granted' = [granted EXCEPT ![c] = @ + 1]
       ELSE UNCHANGED <<session, granted>>

\* From the browser, without a verifier.
exchange_token(c) ==
    /\ exchange_code_internal(c, FALSE)
    /\ Statement
    /\ UNCHANGED <<Persons, Tokens, provider, Oauth, seen>>

\* From the mobile app, with a verifier that fits or not.
login_sso_code_exchange(c, fits) ==
    /\ exchange_code_internal(c, fits)
    /\ Statement
    /\ UNCHANGED <<Persons, Tokens, provider, Oauth, seen>>

-----------------------------------------------------------------------------
(* Administration of accounts (api/admin.rs, api/users.rs, api/v4/users/management.rs). *)

UpdateUser(p, row) ==
    /\ Statement
    /\ SetUser(p, row)
    /\ UNCHANGED <<former, waiting, Tokens, provider, Oauth, Coded, session>>

SetActive(p, active) ==
    /\ Exists(p)
    /\ UpdateUser(p, [user[p] EXCEPT !.active = active])
    /\ activated' = IF active THEN activated \cup {p} ELSE activated

SetAdmin(p, admin) == Exists(p) /\ UpdateUser(p, [user[p] EXCEPT !.admin = admin]) /\ UNCHANGED activated
SetPassword(p) == Exists(p) /\ UpdateUser(p, [user[p] EXCEPT !.pw = TRUE]) /\ UNCHANGED activated

create_admin_user(a, p, admin) ==
    /\ require_admin(a) /\ ~Exists(p) /\ p \notin former
    /\ UpdateUser(p, NewUser(TRUE, admin, TRUE, FALSE))
    /\ UNCHANGED activated

update_admin_user(a, p, admin) == require_admin(a) /\ SetAdmin(p, admin)
update_user_roles(a, p, admin) == require_admin(a) /\ SetAdmin(p, admin)
promote_user(a, p) == require_admin(a) /\ SetAdmin(p, TRUE)
demote_user(a, p) == require_admin(a) /\ SetAdmin(p, FALSE)
deactivate_user(a, p) == require_admin(a) /\ SetActive(p, FALSE)
reactivate_user(a, p) == require_admin(a) /\ SetActive(p, TRUE)
\* One's own account, or USER_MANAGE.
update_user_active(a, p, active) == (IF a = p THEN SignedIn(a) ELSE require_admin(a)) /\ SetActive(p, active)
change_password(a) == SignedIn(a) /\ SetPassword(a)
\* One's own needs the current password.
update_user_password(a, p) == (IF a = p THEN SignedIn(a) /\ user[a].pw ELSE require_admin(a)) /\ SetPassword(p)

\* Global administrators are counted, and the account is deleted in a transaction that does not count again.
delete_admin_user(t, a, p) ==
    /\ require_admin(a) /\ a # p /\ Live(p)
    /\ user[p].admin => Cardinality({q \in People : IF Live(q) THEN user[q].admin ELSE FALSE}) > 1
    /\ Begin(t, <<Op("delete", p, None)>>)
    /\ UNCHANGED <<Persons, Tokens, provider, Oauth, Coded, session>>

DeleteUser(t, o) ==
    /\ o.do = "delete"
    /\ IF Live(o.p)
       THEN SetUser(o.p, [user[o.p] EXCEPT !.active = FALSE, !.deleted = TRUE]) /\ Continue(t, <<>>)
       ELSE GiveUp(t) /\ UNCHANGED user
    /\ UNCHANGED <<former, waiting, activated, Tokens, provider, Oauth, Coded, session>>

\* Only a deleted account without posts; this person has none.
wipe_user(t, a, p) ==
    /\ require_admin(a) /\ a # p /\ Exists(p) /\ ~Live(p)
    /\ Begin(t, <<Op("wipe", p, None)>>)
    /\ UNCHANGED <<Persons, Tokens, provider, Oauth, Coded, session>>

\* The row goes with the tokens that refer to it; a deleted token is nobody's.
WipeUser(t, o) ==
    /\ o.do = "wipe"
    /\ user' = [user EXCEPT ![o.p] = None]
    /\ former' = former \cup {o.p}
    /\ verify' = [verify EXCEPT ![o.p] = NoToken]
    /\ reset' = [r \in Resets |-> IF reset[r] = None THEN None
                                  ELSE IF reset[r].who = o.p THEN [reset[r] EXCEPT !.who = None, !.old = TRUE]
                                  ELSE reset[r]]
    /\ Continue(t, <<>>)
    /\ UNCHANGED <<waiting, activated, provider, Oauth, Coded, session>>

\* The identity provider (admin.rs).
SetProvider(a, row) ==
    /\ require_admin(a)
    /\ Statement
    /\ provider' = row
    /\ UNCHANGED <<Persons, Tokens, Oauth, Coded, session>>
create_sso_config(a, row) == provider = None /\ SetProvider(a, row)
update_sso_config(a, row) == provider # None /\ SetProvider(a, row)
delete_sso_config(a) == provider # None /\ SetProvider(a, None)

-----------------------------------------------------------------------------
(* Time and faults. *)

Fault == faults < MaxFaults /\ requests + faults < MaxEvents /\ faults' = faults + 1 /\ UNCHANGED requests

ResetExpires(r) ==
    /\ IF reset[r] = None THEN FALSE ELSE ~reset[r].old
    /\ Fault
    /\ reset' = [reset EXCEPT ![r].old = TRUE]
    /\ UNCHANGED <<Persons, verify, provider, Oauth, Coded, session, task>>
CodeExpires(c) ==
    /\ code[c] # None
    /\ Fault
    /\ code' = [code EXCEPT ![c] = None]
    /\ UNCHANGED <<Persons, Tokens, provider, Oauth, seen, granted, session, task>>
StateExpires(s) ==
    /\ ostate[s] \in {"web", "mobile"}
    /\ Fault
    /\ ostate' = [ostate EXCEPT ![s] = "gone"]
    /\ UNCHANGED <<Persons, Tokens, provider, redeemed, Coded, session, task>>
SessionExpires(x) ==
    /\ Fault
    /\ session' = session \ {x}
    /\ UNCHANGED <<Persons, Tokens, provider, Oauth, Coded, task>>

\* The process stops, or a statement fails: what a task had left to do is not done.  A mail that cannot
\* be queued is logged, and the request goes on.
Fails(t) ==
    /\ Busy(t)
    /\ Fault
    /\ task' = [task EXCEPT ![t] = IF Head(@).do \in {"mail", "token"} THEN Tail(@) ELSE <<>>]
    /\ UNCHANGED <<Persons, Tokens, provider, Oauth, Coded, session>>
Crash ==
    /\ \E t \in Tasks : Busy(t)
    /\ Fault
    /\ task' = [t \in Tasks |-> <<>>]
    /\ UNCHANGED <<Persons, Tokens, provider, Oauth, Coded, session>>

TaskStep(t) ==
    /\ Busy(t)
    /\ LET o == Head(task[t])
       IN  \/ InsertUser(t, o) \/ create_verification_token(t, o) \/ MailToken(t, o) \/ FirstLogin(t, o)
           \/ MarkUsed(t, o) \/ MarkVerified(t, o)
           \/ FindForReset(t, o) \/ CheckSetup(t, o) \/ InsertReset(t, o) \/ MailReset(t, o) \/ ResetTransaction(t, o)
           \/ ForgetState(t, o) \/ AskProvider(t, o) \/ find_or_create_user(t, o) \/ LinkAccount(t, o)
           \/ create_exchange_code_with_sso(t, o)
           \/ DeleteUser(t, o) \/ WipeUser(t, o)

Visitor(t, p) ==
    \/ \E haspw, site_url \in BOOLEAN : register(t, p, haspw, site_url)
    \/ login(p) \/ v4_login(p)
    \/ resend_verification(t, p) \/ v4_send_email_verification(t, p) \/ verify_email(t, p) \/ v4_verify_email(t, p)
    \/ request_password_reset(t, p) \/ \E r \in Resets : reset_password(t, r)
    \/ \E s \in States : oauth_callback(t, s, p) \/ \E kind \in {"web", "mobile"} : oauth_login(s, kind)
    \/ \E c \in Codes : exchange_token(c) \/ \E fits \in BOOLEAN : login_sso_code_exchange(c, fits)
    \/ change_password(p)

Administrator(t, a, p) ==
    \/ \E x \in BOOLEAN :
          \/ create_admin_user(a, p, x) \/ update_admin_user(a, p, x) \/ update_user_roles(a, p, x)
          \/ update_user_active(a, p, x)
    \/ promote_user(a, p) \/ demote_user(a, p) \/ deactivate_user(a, p) \/ reactivate_user(a, p)
    \/ update_user_password(a, p)
    \/ delete_admin_user(t, a, p) \/ wipe_user(t, a, p)

ProviderRequest(a) ==
    \/ delete_sso_config(a)
    \/ \E row \in ProviderRow :
          create_sso_config(a, row) \/ update_sso_config(a, row)

Time ==
    \/ \E r \in Resets : ResetExpires(r)
    \/ \E c \in Codes : CodeExpires(c)
    \/ \E s \in States : StateExpires(s)
    \/ \E x \in session : SessionExpires(x)

Next ==
    \/ /\ requests + faults < MaxEvents
       /\ \/ \E t \in Tasks, p \in People : Visitor(t, p) \/ \E a \in People : Administrator(t, a, p)
          \/ \E a \in People : ProviderRequest(a)
          \/ Time \/ Crash \/ \E t \in Tasks : Fails(t)
    \/ \E t \in Tasks : TaskStep(t)

AccountsSpec == AccountsInit /\ [][Next]_AccountVars

-----------------------------------------------------------------------------
(* Properties. *)

\* Exchange codes are single-use secrets: whatever is presented, in whatever order and by whom, a code
\* grants at most one session (oauth_token_exchange.rs, exchange_code_internal).
CodePhase == [c \in Codes |-> IF code[c] # None THEN "live" ELSE IF c \in seen THEN "spent" ELSE "new"]
Exchange == INSTANCE SingleUse WITH Items <- Codes, phase <- CodePhase, grants <- granted
CodesAreSingleUse == Exchange!Spec

\* "Passwordless registrations stay inactive until password setup succeeds" (auth.rs): neither a
\* verification mail, a sign-in with the provider nor a reset lets such a person in; only the setup
\* token or an administrator does.
InactiveUntilSetUp == \A p \in waiting : Active(p) => user[p].pw \/ p \in activated

\* A verification token that was used has verified the account, unless something failed between the two
\* UPDATEs (email_verification.rs, verify_token) or the trigger refused the second one.
SpentIsVerified ==
    (faults = 0 /\ ~Doing({"use", "verified"})) =>
        \A p \in People : verify[p].used => user[p].verified \/ p \in waiting

=============================================================================
