---------------------------- MODULE Integrations ----------------------------
(***************************************************************************)
(* Webhooks, slash commands and bots: api/integrations.rs, api/v4/hooks.rs, *)
(* api/v4/bots.rs, api/v4/commands.rs and services/webhooks.rs.            *)
(*                                                                         *)
(* One team with one channel.  What create_post does beyond the INSERT and *)
(* the outgoing webhooks is in module Posts.  A message is abstracted to   *)
(* where it has the one trigger word; payloads, names, icons and answers   *)
(* in the channel are left out.  The call manager behind /call is atomic   *)
(* here (module Calls has its steps).                                      *)
(***************************************************************************)
EXTENDS Requests, FiniteSets

CONSTANTS
    InHooks, OutHooks,
    Urls,          \* callback URLs
    RefusedUrls,   \* those among them that is_valid_callback_url refuses
    MaxUrls,       \* bound: URLs of a hook, with repetitions
    Authors,       \* users
    Bots,          \* bot users, of a name each
    BotTokens,
    HookPosts,     \* posts
    CommandCalls   \* calls started by /call

Words == {"first", "inside", "nowhere"}
Whens == {"first_word", "any"}
MaxAttempts == 3   \* RetryConfig.max_attempts
Entries == 1..MaxUrls
Callbacks == HookPosts \X OutHooks \X Entries

\* callback_urls: a list, in which a URL may be more than once.
UrlLists == UNION {[1..n -> Urls] : n \in 0..MaxUrls}
OutHookRow  == [when : Whens, urls : UrlLists, token : Nat]
HookPostRow == [author : Authors \cup Bots, word : Words]
CallbackRow == [n : 0..MaxAttempts, state : {"trying", "answered", "failed"}, token : Nat]

ASSUME IntegrationsAssumption ==   \* neither a post nor a row is the absence of one
    /\ None \notin HookPosts \cup HookPostRow \cup CallbackRow
    /\ MaxUrls \in Nat

VARIABLES
    inHook,    \* incoming_webhooks: id -> creator, None: no row
    outHook,   \* outgoing_webhooks: id -> row
    command,   \* the creator of the team's slash command of the one trigger, None: no row
    botUser,   \* users with is_bot
    bot,       \* bots: user -> owner, None: no row
    botToken,  \* bot_tokens: token -> bot
    inChannel, \* channel_members
    hookPost,  \* posts: id -> author, where the trigger word is, and how it was made
    callback,  \* spawned calls of outgoing webhooks: <<post, hook, entry of its URLs>> -> attempts and outcome
    heard,     \* <<post, hook, entry of its URLs>> -> requests the service received
    cmdCall    \* calls by /call: id -> participants

IntegrationVars ==
    <<inHook, outHook, command, botUser, bot, botToken, inChannel, hookPost, callback, heard, cmdCall>>

IntegrationsInit ==
    /\ inHook \in [InHooks -> Authors \cup {None}]
    /\ outHook \in [OutHooks -> [when : Whens, urls : [Entries -> Urls \ RefusedUrls], token : {0}]]
    /\ command = None
    /\ botUser = {} /\ bot = [b \in Bots |-> None] /\ botToken = [k \in BotTokens |-> None]
    /\ inChannel = Authors
    /\ hookPost = [p \in HookPosts |-> None]
    /\ callback = [c \in Callbacks |-> None] /\ heard = [c \in Callbacks |-> 0]
    /\ cmdCall = [c \in CommandCalls |-> None]

-----------------------------------------------------------------------------
(* Hooks. *)

\* The v4 handler wants a member of the channel, the other anyone.
create_incoming_webhook(u, h, v4) ==
    /\ inHook[h] = None /\ (v4 => u \in inChannel)
    /\ inHook' = [inHook EXCEPT ![h] = u]
    /\ Statement
    /\ UNCHANGED <<outHook, command, botUser, bot, botToken, inChannel, hookPost, callback, heard, cmdCall>>
delete_incoming_webhook(h) ==
    /\ inHook[h] # None
    /\ inHook' = [inHook EXCEPT ![h] = None]
    /\ Statement
    /\ UNCHANGED <<outHook, command, botUser, bot, botToken, inChannel, hookPost, callback, heard, cmdCall>>

SetOutHook(h, row) ==
    /\ outHook' = [outHook EXCEPT ![h] = row]
    /\ Statement
    /\ UNCHANGED <<inHook, command, botUser, bot, botToken, inChannel, hookPost, callback, heard, cmdCall>>
\* One handler wants some URL, the v4 one wants them all valid, and has the first word looked at.
create_outgoing_webhook(h, when, urls) ==
    outHook[h] = None /\ urls # <<>> /\ SetOutHook(h, [when |-> when, urls |-> urls, token |-> 0])
ValidUrls(urls) == \A i \in DOMAIN urls : urls[i] \notin RefusedUrls
create_outgoing_hook(h, urls) ==
    outHook[h] = None /\ ValidUrls(urls) /\ SetOutHook(h, [when |-> "first_word", urls |-> urls, token |-> 0])
delete_outgoing_webhook(h) == outHook[h] # None /\ SetOutHook(h, None)
update_outgoing_hook(h, urls) == outHook[h] # None /\ ValidUrls(urls) /\ SetOutHook(h, [outHook[h] EXCEPT !.urls = urls])
regen_outgoing_hook_token(h) == outHook[h] # None /\ SetOutHook(h, [outHook[h] EXCEPT !.token = @ + 1])

-----------------------------------------------------------------------------
(* Posts, and the calls they cause. *)

FreshPost == {p \in HookPosts : hookPost[p] = None /\ \A t \in Tasks : \A i \in 1..Len(task[t]) : task[t][i].x.post # p}
PostWork(p, word) == [post |-> p, author |-> None, word |-> word, about |-> None]

\* create_post: the author's membership is checked with the INSERT, then the webhooks are looked up.
CreatePost(x) == <<Stmt("insert_post", x), Stmt("triggers", x)>>
InsertPost(t, o) ==
    /\ o.do = "insert_post"
    /\ IF o.x.author \notin inChannel THEN GiveUp(t) /\ UNCHANGED hookPost
       ELSE /\ hookPost' = [hookPost EXCEPT ![o.x.post] = [author |-> o.x.author, word |-> o.x.word]]
            /\ Continue(t, <<>>)
    /\ UNCHANGED <<inHook, outHook, command, botUser, bot, botToken, inChannel, callback, heard, cmdCall>>

create_post(t, u, word) ==
    /\ \E p \in FreshPost : Begin(t, CreatePost([PostWork(p, word) EXCEPT !.author = u]))
    /\ UNCHANGED IntegrationVars

Matches(h, word) == word = "first" \/ (outHook[h].when = "any" /\ word = "inside")
Matching(word) == {h \in OutHooks : outHook[h] # None /\ Matches(h, word)}

\* A task for each entry of these hooks' URLs that is not refused, with the request as the rows are now.
Spawn(p, hooks) ==
    callback' = [c \in Callbacks |->
        IF /\ c[1] = p /\ c[2] \in hooks
           /\ c[3] \in DOMAIN outHook[c[2]].urls /\ outHook[c[2]].urls[c[3]] \notin RefusedUrls
        THEN [n |-> 0, state |-> "trying", token |-> outHook[c[2]].token] ELSE callback[c]]

\* Every hook that matches is called.
check_all_triggers(t, o) ==
    /\ o.do = "triggers"
    /\ Spawn(o.x.post, Matching(o.x.word))
    /\ Continue(t, <<>>)
    /\ UNCHANGED <<inHook, outHook, command, botUser, bot, botToken, inChannel, hookPost, heard, cmdCall>>

\* The rows come in no order: the first that matches is called, and no other.
check_outgoing_triggers(t, o) ==
    /\ o.do = "triggers"
    /\ IF Matching(o.x.word) = {} THEN UNCHANGED callback
       ELSE \E h \in Matching(o.x.word) : Spawn(o.x.post, {h})
    /\ Continue(t, <<>>)
    /\ UNCHANGED <<inHook, outHook, command, botUser, bot, botToken, inChannel, hookPost, heard, cmdCall>>

Trying(c) == callback[c] # None /\ callback[c].state = "trying"
Outcome(c, state, got) ==
    /\ callback' = [callback EXCEPT ![c].n = @ + 1, ![c].state = state]
    /\ heard' = [heard EXCEPT ![c] = @ + got]
    /\ UNCHANGED <<inHook, outHook, command, botUser, bot, botToken, inChannel, hookPost, cmdCall>>
\* The service answers, and whatever it answers that is no error to retry ends the task.
CallbackAnswered(c) == Trying(c) /\ Outcome(c, "answered", 1) /\ UNCHANGED RequestVars
\* A timeout, an error of the connection or an answer worth a retry: the service may have had the request.
CallbackFails(c, got) ==
    /\ Trying(c)
    /\ Outcome(c, IF callback[c].n + 1 < MaxAttempts THEN "trying" ELSE "failed", got)
    /\ Statement

\* The v1 handler inserts the post itself: nobody's membership is checked, and no webhook looked up.
execute_incoming_webhook_v1(h, word) ==
    /\ inHook[h] # None
    /\ \E p \in FreshPost : hookPost' = [hookPost EXCEPT ![p] = [author |-> inHook[h], word |-> word]]
    /\ Statement
    /\ UNCHANGED <<inHook, outHook, command, botUser, bot, botToken, inChannel, callback, heard, cmdCall>>

\* services/webhooks: the hook is found, some bot user if there is one is the author, the creator otherwise.
execute_incoming_webhook(t, h, word) ==
    /\ inHook[h] # None
    /\ \E p \in FreshPost : Begin(t, <<Stmt("poster", [PostWork(p, word) EXCEPT !.about = h, !.author = inHook[h]])>>)
    /\ UNCHANGED IntegrationVars
ChoosePoster(t, o) ==
    /\ o.do = "poster"
    /\ \E u \in IF botUser = {} THEN {o.x.author} ELSE botUser : Continue(t, CreatePost([o.x EXCEPT !.author = u]))
    /\ UNCHANGED IntegrationVars

-----------------------------------------------------------------------------
(* Slash commands. *)

\* The database allows one command of a trigger in a team.
create_slash_command(u) ==
    /\ command = None
    /\ command' = u
    /\ Statement
    /\ UNCHANGED <<inHook, outHook, botUser, bot, botToken, inChannel, hookPost, callback, heard, cmdCall>>
delete_slash_command ==
    /\ command # None
    /\ command' = None
    /\ Statement
    /\ UNCHANGED <<inHook, outHook, botUser, bot, botToken, inChannel, hookPost, callback, heard, cmdCall>>

\* /echo, /shrug, /invite and /help change nothing; /me posts; /join and /leave change the membership.
slash_me(t, u, word) == create_post(t, u, word)
slash_join(u) ==
    /\ inChannel' = inChannel \cup {u}
    /\ Statement
    /\ UNCHANGED <<inHook, outHook, command, botUser, bot, botToken, hookPost, callback, heard, cmdCall>>
slash_leave(u) ==
    /\ inChannel' = inChannel \ {u}
    /\ Statement
    /\ UNCHANGED <<inHook, outHook, command, botUser, bot, botToken, hookPost, callback, heard, cmdCall>>
\* The team's own command: its row is read, its URL called, and the answer passed on.
slash_custom(t) ==
    /\ command # None
    /\ Begin(t, <<Stmt("run_command", PostWork(None, "nowhere"))>>)
    /\ UNCHANGED IntegrationVars
RunCommand(t, o) ==
    /\ o.do = "run_command"
    /\ Continue(t, <<>>)
    /\ UNCHANGED IntegrationVars

\* /call: the user joins the channel's call, if there is one and they are not in it; otherwise a call is
\* made, then its participant, then its post, through create_post.
FreshCall == {c \in CommandCalls : cmdCall[c] = None /\ \A t \in Tasks : \A i \in 1..Len(task[t]) : task[t][i].x.about # c}
OpenCalls == {c \in CommandCalls : cmdCall[c] # None}
slash_call(t, u) ==
    /\ LET by(c, p) == [PostWork(p, "nowhere") EXCEPT !.author = u, !.about = c]
       IN  IF OpenCalls # {}
           THEN \E c \in OpenCalls : u \notin cmdCall[c] /\ Begin(t, <<Stmt("add_caller", by(c, None))>>)
           ELSE \E c \in FreshCall, p \in FreshPost :
                   Begin(t, <<Stmt("add_call", by(c, p)), Stmt("add_caller", by(c, p))>> \o CreatePost(by(c, p)))
    /\ UNCHANGED IntegrationVars
SetCall(c, participants) ==
    /\ cmdCall' = [cmdCall EXCEPT ![c] = participants]
    /\ UNCHANGED <<inHook, outHook, command, botUser, bot, botToken, inChannel, hookPost, callback, heard>>
AddCall(t, o) == o.do = "add_call" /\ SetCall(o.x.about, {}) /\ Continue(t, <<>>)
\* A call that was ended meanwhile stays ended.
AddCaller(t, o) ==
    /\ o.do = "add_caller"
    /\ LET c == o.x.about IN SetCall(c, IF cmdCall[c] = None THEN None ELSE cmdCall[c] \cup {o.x.author})
    /\ Continue(t, <<>>)
\* /call end: everyone who is in the call is removed, and then the call, with whoever joined since.
slash_call_end(t) ==
    /\ \E c \in OpenCalls : LET x == [PostWork(None, "nowhere") EXCEPT !.about = c]
                            IN  Begin(t, <<Stmt("clear_call", x), Stmt("remove_call", x)>>)
    /\ UNCHANGED IntegrationVars
ClearCall(t, o) ==
    /\ o.do = "clear_call"
    /\ SetCall(o.x.about, IF cmdCall[o.x.about] = None THEN None ELSE {})
    /\ Continue(t, <<>>)
RemoveCall(t, o) == o.do = "remove_call" /\ SetCall(o.x.about, None) /\ Continue(t, <<>>)

-----------------------------------------------------------------------------
(* Bots. *)

\* The user and the bot are two statements; the user's name is taken from then on.
create_bot(t, u, b) ==
    /\ b \notin botUser
    /\ Begin(t, <<Stmt("insert_bot_user", [PostWork(None, "nowhere") EXCEPT !.author = u, !.about = b]),
                  Stmt("insert_bot", [PostWork(None, "nowhere") EXCEPT !.author = u, !.about = b])>>)
    /\ UNCHANGED IntegrationVars
InsertBotUser(t, o) ==
    /\ o.do = "insert_bot_user"
    /\ IF o.x.about \in botUser THEN GiveUp(t) /\ UNCHANGED botUser
       ELSE botUser' = botUser \cup {o.x.about} /\ Continue(t, <<>>)
    /\ UNCHANGED <<inHook, outHook, command, bot, botToken, inChannel, hookPost, callback, heard, cmdCall>>
InsertBot(t, o) ==
    /\ o.do = "insert_bot"
    /\ bot' = [bot EXCEPT ![o.x.about] = o.x.author]
    /\ Continue(t, <<>>)
    /\ UNCHANGED <<inHook, outHook, command, botUser, botToken, inChannel, hookPost, callback, heard, cmdCall>>
\* Its tokens go with it; its user stays.
delete_bot(b) ==
    /\ bot[b] # None
    /\ bot' = [bot EXCEPT ![b] = None]
    /\ botToken' = [k \in BotTokens |-> IF botToken[k] = b THEN None ELSE botToken[k]]
    /\ Statement
    /\ UNCHANGED <<inHook, outHook, command, botUser, inChannel, hookPost, callback, heard, cmdCall>>
create_bot_token(b, k) ==
    /\ bot[b] # None /\ botToken[k] = None
    /\ botToken' = [botToken EXCEPT ![k] = b]
    /\ Statement
    /\ UNCHANGED <<inHook, outHook, command, botUser, bot, inChannel, hookPost, callback, heard, cmdCall>>
revoke_bot_token(b, k) ==
    /\ bot[b] # None /\ botToken[k] = b
    /\ botToken' = [botToken EXCEPT ![k] = None]
    /\ Statement
    /\ UNCHANGED <<inHook, outHook, command, botUser, bot, inChannel, hookPost, callback, heard, cmdCall>>

-----------------------------------------------------------------------------
HookRequest(t) ==
    \/ \E h \in InHooks :
          \/ \E u \in Authors, v4 \in BOOLEAN : create_incoming_webhook(u, h, v4)
          \/ delete_incoming_webhook(h)
          \/ \E word \in Words : execute_incoming_webhook_v1(h, word) \/ execute_incoming_webhook(t, h, word)
    \/ \E h \in OutHooks :
          \/ \E when \in Whens, urls \in UrlLists : create_outgoing_webhook(h, when, urls)
          \/ \E urls \in UrlLists : create_outgoing_hook(h, urls)
          \/ delete_outgoing_webhook(h) \/ regen_outgoing_hook_token(h)
          \/ \E urls \in UrlLists : update_outgoing_hook(h, urls)
    \/ \E u \in Authors, word \in Words : create_post(t, u, word)

CommandRequest(t) ==
    \/ \E u \in Authors : \/ create_slash_command(u) \/ (\E word \in Words : slash_me(t, u, word)) \/ slash_join(u) \/ slash_leave(u) \/ slash_call(t, u)
    \/ delete_slash_command \/ slash_custom(t) \/ slash_call_end(t)

BotRequest(t) ==
    \E b \in Bots : \/ \E u \in Authors : create_bot(t, u, b)
                    \/ delete_bot(b)
                    \/ \E k \in BotTokens : create_bot_token(b, k) \/ revoke_bot_token(b, k)

IntegrationStep(t, o) ==
    \/ InsertPost(t, o) \/ check_outgoing_triggers(t, o) \/ ChoosePoster(t, o)
    \/ RunCommand(t, o) \/ AddCall(t, o) \/ AddCaller(t, o) \/ ClearCall(t, o) \/ RemoveCall(t, o)
    \/ InsertBotUser(t, o) \/ InsertBot(t, o)

IntegrationsNext ==
    \/ /\ events < MaxEvents
       /\ \/ \E t \in Tasks : HookRequest(t) \/ CommandRequest(t) \/ BotRequest(t) \/ (Interrupted(t) /\ UNCHANGED IntegrationVars)
          \/ \E c \in Callbacks, got \in 0..1 : CallbackFails(c, got)
    \/ \E t \in Tasks : Busy(t) /\ IntegrationStep(t, Head(task[t]))
    \/ \E c \in Callbacks : CallbackAnswered(c)

-----------------------------------------------------------------------------
(* Properties. *)

\* "Only trigger once per message" (webhooks.rs, check_outgoing_triggers): the calls for a post are of one
\* hook, with one token, whatever is done to the hooks between the INSERT, the look at them and the calls
\* of the several URLs; and no service hears of a post that was not made.  A URL may hear of it more than
\* once: it may be listed twice, and a request that it took may fail and be sent again.
OneHookPerMessage ==
    /\ \A c, d \in Callbacks : callback[c] # None /\ callback[d] # None /\ c[1] = d[1]
                                 => c[2] = d[2] /\ callback[c].token = callback[d].token
    /\ \A c \in Callbacks : heard[c] > 0 => hookPost[c[1]] # None

=============================================================================
