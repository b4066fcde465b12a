# A TLA+ verification project for RustChat

RustChat is a self-hosted team chat server: a Rust backend (axum, tokio,
PostgreSQL, Redis, S3) that speaks its own API (v1) and Mattermost's (v4), a Vue
web client, and a small push proxy. This directory models the parts of the
backend whose correctness depends on the order of events, checks the models with
TLC on small instances, and proves theorems about them, for all instances, with
TLAPS.

    tlasany M.tla                         parse a module
    tlc -workers 2 -config X.cfg M        check a run (PROJECT.json lists its module and cfg)
    tlapm MProofs.tla                     check the proofs of a module

## 1. The system

### Components, their state and their operations

| Component | State | Operations | Module |
|---|---|---|---|
| Connection store (`realtime/connection_store.rs`) | map of resumable streams (counter, ring buffer, active flag, last activity), index by user | resume or create, queue a message, disconnect, touch, periodic sweep | `ConnectionStore` |
| Websocket session v4 (`api/v4/websocket.rs`, `realtime/websocket_actor.rs`) | per socket: main task, hub forwarding task, actor task, command channel, hub receiver, last pong | connect, replay, hello, snapshot, forward, ping, close, token expiry, grace timer | `WsSession` |
| Presence and connection limit (`api/websocket_core.rs`, `realtime/cluster_limits.rs`) | Redis set of connections and heartbeat keys, `users.presence`, hub | enforce the limit, register, heartbeat, unregister, go offline | `WsPresence` |
| Hub (`realtime/hub.rs`) | connections by user, subscriptions, bounded receivers | add, remove, broadcast | in `WsSession`, `WsPresence` (membership and lag) |
| Circuit breaker and retry (`middleware/reliability.rs`) | circuit state, two counters, time of the last failure | check, record a result, retry | `CircuitBreaker` |
| Email outbox (`jobs/email_worker.rs`, `services/email_service.rs`) | `email_outbox` rows, the worker's batch | enqueue, hold back, deliver, retry, fail, cancel | `EmailOutbox`, `QuietHours` |
| Email administration (`api/admin_email.rs`) | providers, workflows, template families and versions, preferences | create, edit, publish, set default, render | `EmailAdmin` |
| Calls plugin (`api/v4/calls_plugin/`) | calls in Redis with a local copy, thread posts, timers | start, join, leave, host controls, share, timeouts, end | `CallState`, `Calls` |
| SFU (`calls_plugin/sfu/`) | peer connections, waiting candidates, tracks, forwarders | add, offer, candidate, track, remove | `Sfu` |
| Posts and threads (`services/posts.rs`, `api/posts.rs`, `api/v4/posts*`, `threads.rs`) | posts, marks on posts, thread memberships, activity feed | post, edit, delete, pin, save, follow, read | `Posts` |
| Unread counters (`services/unreads.rs`) | read positions in the database, two kinds of counters and dirty marks in Redis | count, mark read, recount, reconcile | `Unreads` |
| Teams, channels, policies (`api/teams.rs`, `channels.rs`, `services/membership_*.rs`) | memberships, policies, the worker's queue | join, leave, create, archive, apply, reconcile | `Membership`, `Teams` |
| Groups and Keycloak (`api/v4/groups.rs`, `services/keycloak_sync.rs`) | groups, members, links, tracked memberships | link, unlink, reconcile, synchronise | `GroupSync` |
| Accounts (`api/auth.rs`, `oauth.rs`, `admin.rs`, `services/password_reset.rs`, `email_verification.rs`, `oauth_token_exchange.rs`) | users, reset and verification tokens, OAuth states, exchange codes, sessions | register, verify, reset, sign in, exchange, administer | `Accounts`, `SingleUse` |
| Sidebar, files and retention, push, playbooks, integrations, status and settings, terms, bookmarks, rate limits | tables, S3 objects, Redis keys | request handlers, background jobs | one module each, composed in `Workspace` |
| Cluster broadcast, token validation, search, compatibility shapes, web client | | | not modelled: section 6 |

`PROJECT.json` lists every component with its files and what is left out of it.

### How they interact

A websocket request is authenticated, counted against the connection limit
(Redis), attached to a stream of the connection store, and served by three tasks:
`run_connection` reads the client's commands from the actor, the forwarding task
takes events from the hub, and `ActorTask` owns the socket. All of them use the
stream, which outlives the socket, and an old socket's tasks overlap a new
socket's on the same stream. Connecting and disconnecting also write the user's
presence to the database, which the status API writes too. The hub hands events
to the sockets of a process and, over Redis, of the other nodes. Request handlers
enqueue emails in the database, where one worker per node picks them up. Calls to
Turnstile and to OIDC providers go through a circuit breaker that all requests
share.

A post moves the read position of its author, the counters of every member and
the reply count of its thread; joining a team runs the default channels and the
membership policies, which the hourly worker and the group links write to as
well; a call is reached from HTTP, from the websocket and from a slash command,
and a socket's grace timer ends a participation. Handlers keep their state in the
database and, with few exceptions, use no transaction: two requests interleave
between any two statements, and one that is cut short leaves what it had done.

### What is hard

* **Tasks that interleave between two steps of one operation.** Numbering and
  buffering a message; inspecting and removing an expired stream; counting and
  registering a connection; checking and writing the presence; reading a batch of
  emails and processing it.
* **Old and new sockets of one device at once.** A peer that vanished is noticed
  after two missed heartbeats; by then the device has resumed.
* **Several statements, no transaction.** A reply and its root's count; a used
  token and its effect; a membership and the row that tracks it; an object in S3
  and the row that names it; a run and its tasks.
* **Caches beside the database.** Unread counters, copies of calls.
* **Failure.** A node, a worker or Redis may fail between any two steps; a peer
  may stay connected and read nothing.
* **Time.** Heartbeats (30 s), heartbeat keys (90 s), the stream's TTL, the grace
  timer (3 s), retry backoff, recovery timeouts.
* **Limits.** The ring buffer, the command channel, the hub receivers, batches,
  attempts.

`PROJECT.json` lists each hazard at its line, with the properties that would
catch it or the reason why none does.

## 2. The modules

The names of variables, operators and actions follow the source; `PROJECT.json`
maps each definition to the lines it stands for. A definition whose name extends
another's (`NextSequencePeeked`, `LoopEndsStillBeating`, ...) is a plausible bug
in that code, used to show that a property notices it; no specification uses it.

### ConnectionStore

`connections` is the set of keys of the DashMap, `stream` the `ConnectionState`
behind each id (it is an `Arc`, which sockets keep alive after the key is gone),
`user_connections` the index. `hand[t]` is a message that task `t` has numbered
and not yet buffered, inside `queue_message`; `doomed` is what the running sweep
found expired. One action per operation, two for `queue_message` and for
`cleanup_expired`. The scan is one step: an id that changes while the iterator is
elsewhere is an id that changes before or after it. The removal needs the shard's
write lock, which a task inside `queue_message` holds for reading, and that is its
guard. Time is counted in ping intervals and an age above the TTL saturates.
`StoreSpec` lets any caller do anything the interface allows: it is the abstract
specification that `WsSession` implements.

### WsSession

Extends `ConnectionStore` with sockets and devices. `main[s]`, `forward[s]` and
`actor[s]` say where the three tasks of socket `s` are; `out[s]` is the command
channel, `rx[s]` the hub receiver, `missed[s]` the messages left to replay, each with
its place in the buffer, `pong[s]` the intervals since the last pong. `link`, `device`
and `got` are the environment: a device remembers its stream id and the highest number it has seen, leaves with
or without a close frame, stalls (on a socket of `StallingSockets`) and comes
back. The client's
side follows the Mattermost clients the endpoint serves and is the only part
modelled from outside the repository. Steps of one task between which nothing
another task does can be told apart are one action; buffering a message and
putting it on the channel, for instance. An actor whose last event does not fit
the main task's queue ends (`Stop`), whatever it had to say.

Each action uses the store only through the store's own actions, which is what
`SessionImplementsStore` proves.

### WsPresence

One user, sockets spread over nodes. `phase[s]` is the program counter of the
connection task through `enforce_connection_limit`, `add_connection`,
`register_presence_connection`, `initialize_connection_state`, the loop,
`unregister_presence_connection` and `handle_disconnect`; `registry` and `beat`
are Redis, `hub` the hubs, `beating` the heartbeat tasks, `presence` and `manual`
the row. Each Redis command and each query is a step of its own (a count is the read,
the SREM of the stale members and the DEL of an empty set; a heartbeat is SADD and then
SET EX, with `half[s]` between the two; an unregistration is SREM, DEL, the count and
the DEL of the set), except that SMEMBERS with its EXISTS calls is one read. `Faults` chooses which failures are
considered: a hello that cannot be sent, a node's death, a Redis error; `failed` is a
history variable that says whether one has happened. The TTL of
the set (twice that of a heartbeat key) is left out, since members without a
heartbeat do not count; a command in flight while its task is aborted is taken to have
been executed before the abort. The status is set by a connected client.

### CircuitBreaker

`check_state`, `on_success` and `on_failure` hold the state's mutex throughout, so
each is one step; between them a call runs with its retries while others change
the circuit. `attempts[c]` is 0 when caller `c` has no call. A handler whose
future is dropped records nothing (`Abandon`). `execute` is the case of one
attempt. `okRun`, `failRun` and `openFor` are history variables: what the
properties need to know of the past, never read by an action's guard. Counters and
ages saturate at the value they are compared with.

### EmailOutbox

`outbox` holds the rows (status, attempt_count, whether all three times have
passed), `batch[w]` the snapshot rows that worker `w` has not started on, `job[w]`
the row in hand with the attempt_count of the snapshot. `tries` (transmissions
since the row was last queued by a service or an administrator) and `confirmed`
are history. Up to `MaxFaults` times a database call of `process_email` fails or the
worker dies. The order of a batch, the length of a backoff and the choice of a
provider are left open; the email log (`record_event`) changes nothing here.

### QuietHours

`calculate_send_after` as operators over minutes of the day, against a reference
definition (`Quiet`) that walks the day modulo its length. The state machine only
enumerates the arguments.

### CallState and Calls

`CallState` is the manager: `redis`, `channel` and `active` are shared, `local[n]` is a
node's copy. `Calls` adds the handlers. A handler looks the call up and decides in
one step; what it then does is a list of instructions that its task carries out one
by one, where `mutate_call` is a read and, later, a write of the whole value. What the
manager awaits is a step of its own: what a lookup found in Redis is left in `found`,
and each copy into the local state (`call_is_copied`) is a later step; a write changes
the local copy and leaves in `io` the first of its commands, which `command_is_sent`
sends one by one (the call, the channel's entry, the active set; for a removal the
lookup of the channel if there was no local copy, then the same three). So a reader may
put a call back into the local copies that another task has removed, and a write may be
overtaken half way. The GETs of one lookup are one step, and with it the look at the
local copy when Redis has nothing.

`lost` records that a write overwrote a change or a removal, `overlap` that two tasks
ran at once. `http` tells the handlers whose future is dropped when their client goes
away (`Dropped`); websocket handlers, timeouts and spawned tasks run to their end. A
command of such a dropped future that Redis executes later is left out. A join over the
websocket that creates the call may bring the thread with it (`NamedThread`, a post that
is not one of the call's own). Flags that no decision reads (muted, raised hand,
dismissed) are one `touch`.

### Unreads and Posts

`Unreads` has the posts, the read positions and both generations of counters; a
task is a list of SQL statements and Redis commands. The reconciler's pass is one
`SyncUser` per dirty user it read, which then recounts and deletes the mark. `CountAt`
is what the database says for a read position, `Truth` for the user's own. `stale` is
history, the users that the code leaves with wrong counters:

* a handler writes the database and touches no counter, and the user's count is
  another one now, or some task had counted and not yet written (`Bypassed`, `Counted`);
* a count is written after the position it was made for has moved (`Outdated`);
* a dirty mark is set between a recount and the DEL that ends it;
* an author's position moves with a new post, which recounts nothing, while the counters
  were wrong and unmarked or a recount was under way;
* a command on the counters failed, a handler ended half way (`Dropped`: its client went
  away or a query after the INSERT failed), the server died while a task ran, or the user
  was removed from the channel.

So `UnreadIsExact` does not notice a dirty mark that is lost between a recount and its
DEL (`stale` names it); what it rests on are the other interleavings. `MCUnreadTruth` has
no such excuse and fails.

`Posts` adds the handlers and `Shown`, the union of what the readers show a user: the
readers of posts and threads, which leave deleted posts out, and two that do not look,
the answer of an edit and the activity feed. `create_post` inserts, counts the reply,
broadcasts, and then increments the counters, with other tasks in between; the two
fields of the v2 hash are two HINCRBY. `cut` is history: the posts whose reply was
inserted and not counted. A statement that a dropped handler has already sent, and that
the database executes later, is left out. Nothing at this commit publishes scheduled posts or fires reminders, so
they are only rows.

### Membership, Teams and GroupSync

`Membership` has one team with its channels, `role` (both membership tables), the
policies and the worker with its bounded queue; `Teams` the handlers that write
them, from v1, v4 and the administration; `GroupSync` groups, links, tracked
memberships and the synchronisation with Keycloak, which changes on its own. `left` is history: memberships
that a person ended, which no policy is expected to restore at once. `trouble` counts
failures and tasks that began while another ran; a target that is gone when a link
inserts a membership is such a failure, once (`TargetIsGone`). `TrackedIsDesired` is
about states with `trouble = 0` and no task under way. Left out: `scheme_admin`, the
direct-message ACL flag of a group, names and schemes.

`upsert_group` fails: its `ON CONFLICT (source, remote_id)` names columns whose only
unique index is partial (`20260228183000_groups_syncables.sql:16-18`), which PostgreSQL
does not infer without the predicate, so it rejects the statement whatever the row, and
the caller's `?` ends the run at the first group, before the members and attributes of
any group. What the code does after that INSERT is therefore not in the model, groups of
Keycloak never come to be, and with none to retire a run without groups does nothing
(`keycloak_sync.rs:135-180`, `:462`).

### Accounts and SingleUse

`user`, `reset`, `verify`, `ostate`, `code` and `session` are the rows, Redis keys
and tokens; `provider` the identity provider's configuration. A person has one
address and one identity. `waiting`, `activated`, `seen` and `granted` are history.
`SingleUse` is the abstract specification of a one-time secret (new, live, spent);
`CodesAreSingleUse` instantiates it, `phase` being computed from the code's Redis
key and whether it has been issued. `Accounts` implements it: TLC checks it on the
instance of the run, section 4 proves it for any number of codes and tasks.

### Requests and Workspace

`Requests` is how a database-backed handler runs: a list of statements, other
requests in between, and an interruption anywhere that leaves what was done. On it
stand `Sidebar`, `FileStore`, `Push`, `Playbooks`, `Integrations`, `UserStatus`,
`Sfu`, `EmailAdmin`, `Terms`, `Bookmarks` and `RateLimit`; each has its own tables,
which no other module's requests touch. `Workspace` puts them together: a
behaviour stays in the area that its initial state names, which is sound because the
areas share nothing but the request machinery, and makes one run of them all.

* `Sidebar`: soft-deleted categories, placements that outlive them; a read takes one
  query per category. Names are left out, so categories of one position come in any
  order.
* `FileStore`: an object and its row are written in two steps; the content of an
  upload is the sequence of chunks, each named by the place its sender meant.
* `Push`: tokens issued and revoked by the providers, rows per device; an attach without
  a token sets the row's token to NULL.
* `Playbooks`: the tasks of a run are the tasks the playbook had at the start; a run has
  the caller who started it and the owner it names.
* `Integrations`: hooks, callbacks with up to three attempts, commands, bots. The URLs of
  a hook are a list with repetitions, and each entry has a task of its own; `/me` may
  contain the trigger word.
* `UserStatus`: presence, a custom status with its end, settings; `wrote` is what
  the user last asked for.
* `Sfu`: a connection is a number; the locks' critical sections are the steps. A flush
  that meets a refused candidate has added those before it.
* `EmailAdmin`: the tables' UNIQUE constraints are part of the statements, checked
  at their end.
* `Terms`: the trigger that deactivates other versions is part of activation, and
  reads the rows as they were when its statement began.
* `Bookmarks`, `RateLimit`: rows read before they are written; a key with an expiry,
  and a sorted set handled by four commands.

### MC modules and bounds

Most cfgs instantiate the component's module itself. `MCWsSession` and `MCWsPresence`
extend theirs to define the values a cfg cannot write; `MCCalls` begins also in the
middle of a call; `MCServices` is the circuit breaker, the email outbox and the accounts,
of which each behaviour runs the one that its initial state names. Sets are model values; symmetry is used in the
safety runs of the session and of the presence only (sockets of one node), never for
liveness.

* `MaxSequence` bounds the numbers of a stream; with a buffer of 2, two numbers and
  two sockets every order of numbering, buffering and replay occurs. What a larger
  buffer adds (eviction) is covered by the theorems on the store.
* One device over two sockets is the smallest overlap of an old and a new socket.
  Runs about messages let no time pass (`TimePasses = FALSE`), runs about time send
  no events: each is complete for its question, and the two together were out of
  TLC's reach. What the separation could hide for the heartbeat is covered by the
  proof, which has no such restriction.
* Heartbeat limit and TTL keep the order of the code's constants (limit + 1 at most
  the TTL, an assumption of the module).
* Three callers let two calls stay in flight over a whole cycle of the circuit.
* Two nodes, one with two sockets, give handle_disconnect its local and its global
  case.
* In `ws_time` one of the two sockets may meet a stalling peer, as the first or as the
  second.
* Two faults suffice to strand both emails or to hit one twice.
* `MaxRequests`, `MaxEvents` bound requests; `MaxTrouble`, `MaxFaults` failures and
  overlaps. Calls begin with no call or with the one that a start and a join make,
  so that two requests and the timeout are enough to leave, end, revive or describe it
  while the other runs; in place of the overlap one step may fail (`Bounded`). Three
  events on posts, with three posts, are a root, a reply and a deletion, or a post, a
  read and a failure; two events on memberships add to the initial team, link and
  policy; four on accounts are a registration, a token and its use with something in
  between. The periodic jobs are not counted and run as often as they like.
* Four events and two tasks in the workspace are two requests at once that follow
  two others; an area has two of what its property compares (files, categories,
  runs, hooks, versions, terms).
* A day of 24 units makes every order of start, end and now occur, including the
  equal ones; the code's unit is the minute.

## 3. What the runs check

Passing:

| Run | Shows |
|---|---|
| `ws_session` | numbers identify events, and no numbered message reaches a device twice over its sockets |
| `ws_time` | the index agrees with the map; the stream of a running socket is never expired; sockets of departed peers end; unused streams are purged |
| `presence` | as long as nothing fails, ended connections are not counted and the user is offline after the last one, in every interleaving; whatever fails, heartbeats are sent only for connections in a hub |
| `services` | of the circuit breaker: transitions are earned; no call before the recovery timeout; an open circuit is tried again. Of the email outbox: a confirmed email is not sent again, and every queued email is settled unless a fault strands it. Of the accounts: nobody without a password is let in before setup; a spent verification token has verified; exchange codes implement `SingleUse` |
| `calls` | between requests that did not overlap or fail the pieces of a call agree; the post of an ended call is marked; a call with at most one participant ends, whatever overlaps, unless a write of `mutate_call` overwrites something |
| `posts` | counters are exact for everyone whom no named race or bypass has touched, and converge to it; replies are counted unless a handler ends in between |
| `membership` | what a link gave goes with it; policies reach everyone in the team whom they cover |
| `content` | the sidebar shows every channel; uploads are stored exactly; rows have their objects; devices keep their tokens; runs are whole (their channel has whoever started them, their tasks are there); the calls for a message are of one hook; choices are kept; candidates are added once and tracks forwarded; templates stay available; acceptances stand; deleted bookmarks are final; refusals end; email is held exactly in quiet hours |

Disagreements of the code with what its comments say, each a run that ends in a
counterexample (`PROJECT.json` quotes the sentence and the line):

| Run | Shows |
|---|---|
| `ws_grace` | the grace timer removes a session from its call that another socket serves |
| `old_files` | the retention job never removes a file: its query names a column that does not exist |
| `call_left` | a task that read a call before the timeout removed it stores it again, and it stays for ever: nothing arms a timeout any more |
| `keycloak_groups` | the synchronisation brings no group of Keycloak into the application |

Further disagreements, each with a configuration that ends in a counterexample too; where
"with" is said, the named formula takes the place of the configuration's own properties:

| Configuration (module) | Shows | Against |
|---|---|---|
| `MCPresenceLeak` (`MCWsPresence`) | a failed hello leaves a heartbeat task that never ends (`websocket.rs:355`) | "Stale connections are automatically cleaned up via Redis TTL", `docs/admin/scaling.md:100` |
| `MCPresenceOnline` (`MCWsPresence`) | a connected user is shown offline: handle_disconnect counts, then writes (`websocket_core.rs:426`) | "Presence lifecycle: `online` on connect, `offline` when last connection drops", `docs/architecture/overview.md:113` |
| `MCServices` with `EmailSettles` | a row whose worker failed after 'sending' stays so forever (`email_worker.rs:155`) | "Handles retries with exponential backoff, rate limiting, and error tracking.", `email_worker.rs:4` |
| `MCWorkspace` (`Workspace`) with `HeldOnlyUntilEnd` | quiet hours within one day hold an email a day too long (`email_service.rs:411`) | "Same day end", `email_service.rs:410` |
| `MCSafeCleanup` (`GroupSync`) | unlinking a group takes memberships that another link of it still gives (`groups.rs`, cleanup_unlinked_syncable) | "support safe cleanup on unlink", `migrations/20260228183000_groups_syncables.sql:60` |
| `MCUnreadTruth` (`Posts`) | counters keep a value that the database no longer has, after a deletion for instance | "DB is source of truth.", `unreads.rs:670` |
| `MCCallRevived` (`Calls`) | a node uses its own copy of a call also when Redis answers that there is none, so an ended call is found again (`state.rs:158`) | "Falls back to in-memory on operation errors.", `state.rs:45` |
| `MCDeletedShown` (`Posts`) | an edit answers and broadcasts a deleted post (`v4/posts.rs:1284`); the activity feed shows its text (`activity.rs:176`) | "Soft deleted posts will not be returned in post queries.", `mattermost-openapi-v4.yaml:9184` |
| `MCWorkspace` (`Workspace`) with `OwnerInChannel` | the channel made for a run has the caller, and not the owner whom the request names (`playbooks.rs:498`, `:516`) | "Add creator/owner to channel", `playbooks.rs:493` |

Behaviours the models show that are not kept as runs. Each can be seen by checking
the formula given:

* *A replay may be out of order.* Two tasks that number and then buffer in the other
  order leave a buffer whose numbers descend, although the field's comment calls them
  monotonically increasing (`connection_store.rs:29`, `:327`). `ws_session`, with
  `buf[i].seq < buf[j].seq` for `i < j`.
* *A stream that is resumed during a sweep is purged* while it is active
  (`connection_store.rs:365-374`). `ws_time`, with
  `[][\A c \in connections \ connections' : is_expired(c)]_StoreVars`.
* *A stalled peer is not timed out* as long as it stays connected: the pong and the
  close frame are written without the deadline that the actor's header mentions
  (`websocket_actor.rs:387`, `:539`). `ws_time`, with `link[s] # "up"` for
  `link[s] = "gone"` in `SilentSocketEnds`.
* *Two connections at once pass a limit of one*: the count is read before either is
  registered (`websocket_core.rs:283`), on one node or on two. `presence`, with the
  number of live sockets at most `MaxConnections`.
* *A status chosen between handle_disconnect's check and its write is overwritten*
  (`websocket_core.rs:415`, `:426`). `presence`, with
  `[][manual /\ presence' = "offline" => manual']_PresenceVars`.
* *After a node's death its users stay online*: only `handle_disconnect` writes
  offline and no job repairs the row. `presence`, `OfflineWhenLastDrops` without
  `~failed`.
* *With two workers a row can be transmitted twice and more often than the maximum*:
  `FOR UPDATE SKIP LOCKED` runs outside a transaction and reserves nothing
  (`email_worker.rs:167`, `:237`). `services` with two workers.
* *A cancelled email is sent* if it was cancelled after the worker read its batch
  (`email_worker.rs:181`). `services`, with
  `[][\A e \in Emails : outbox[e].status = "cancelled" => outbox'[e].status = "cancelled"]_OutboxVars`.
* *An email can starve* behind a full batch of others that administrators retry
  forever. `services` with a batch smaller than the number of emails; the run keeps the
  two equal.
* *Overlapping requests of a call lose updates*: `mutate_call` writes back what it read;
  a join can vanish, two first requests can create two thread posts. `CallIsWhole`
  without `overlap = 0`, with two tasks. What `MCCallRevived` shows can also
  be seen in `CallIsWhole`: with `Nodes = {n1, n2}` it fails without any
  overlap, since the second node finds the ended call, changes it and writes it to Redis;
  this is why the run has one node. On one node the same happens when a lookup's late
  copy puts a call back that the removal has just taken out.
* *A lonely call without a timeout*: after a restart, which forgets the timers, and after
  a `start_call` that ended before it armed one (`mod.rs:1185`), because the SFU failed or
  the client went away. `LonelyCallEnds` without `faults > 0`.
* *A candidate that is queued just after the flush is stranded*, and an error while
  flushing drops the rest of the queue (`sfu/mod.rs:463-475`, `:963`).
* *A callback URL listed twice hears of a post twice*, and again after it has answered,
  since each entry has its own task and attempts (`webhooks.rs:196-236`). `content`, with
  the sum of `heard` over the entries of one URL at most 3.
* *A dirty mark set between a recount and its DEL is lost* (`unreads.rs:578`), and a
  count computed before a position moved is cached after it (`unreads.rs:696`): the
  counter stays wrong until the next change. `UnreadIsExact` without `stale`.
* *Read positions are overwritten, not raised* (`unreads.rs:677`, `:877`): of two marks
  the later write wins, whichever message it names. The counters follow.
* *A reply whose request dies after the INSERT is not counted* (`posts.rs:89`).
  `RepliesAreCounted` without `i \notin cut`.
* *A reconciliation that read a link before it was deleted tracks memberships after the
  cleanup*, and a tracking INSERT that fails leaves a membership nobody takes away
  (`groups.rs:860-880`, `:1392`). `TrackedIsDesired` without `trouble = 0`.
* *A reset token sets two passwords* when presented twice at once: the row lock ends
  with its statement (`password_reset.rs:345`, `:359`). The OAuth state is read and
  deleted by two commands (`oauth.rs:910-919`), so two callbacks may both find it; the
  provider redeems the authorization once, which `redeemed` models.
* *Two overlapping chunks are both appended and counted as one* (`uploads.rs:224`).
  `UploadIsExact` without `overlapped`.
* *A deletion cut short between S3 and the database leaves a row without its object*
  (`files.rs:279`). `RowsHaveObjects` without `leaving`.
* *A second version of a template is never published*: the constraint is on (family,
  locale, status), and `publish_template_version` (`admin_email.rs:787`) leaves the
  published one as it is, so its statement fails. Likewise a tenant's second provider that is not the default
  is refused.
* *Two activations at once leave two active terms.*
* *Logins within one second are one member of the sorted set* and count once
  (`middleware/rate_limit.rs:182`).
* *A request for a bot cut short* leaves a user without its `bots` row
  (`integrations.rs:1179`), whose name cannot be used again.

Deadlock is checked in the session runs. It is not in the others: a
finite number of sockets, emails or requests is used up and the system rightly
stops.

### Fairness

* `FairSessionSpec`: tokio runs every ready task, the ping timer and the sweep
  fire, time passes. Nothing is assumed of devices, links or hub traffic. The ping
  tick has its own weak fairness because `select!` takes its branches in random
  order.
* `FairPresenceSpec`: a connection task that has begun runs on, heartbeat tasks
  beat, Redis expires keys. Sockets need neither connect nor disconnect.
* `OutboxFairness`: workers poll, SMTP calls return, next_attempt_at passes, and
  faults end. Nothing is assumed of administrators.
* `CallsSpec`, `MCSpec`: a task that has begun runs on (tokio), and a timeout that was
  armed fires. Nobody needs to join or leave. `MCSpec` bounds only what begins or fails.
* `PostsSpec`: every task runs on, and the reconciler's loop keeps taking dirty users.
  A failed pass is a failure counted by `MaxTrouble`, so failures end.
* `SyncSpec`: every task runs on; the hourly reconciliation is queued again and again;
  the worker and the Keycloak timer get strong fairness because the bound on overlaps
  keeps them from starting while another task runs, which nothing does in the code.
* `BreakerFairness`: time passes, a call ends (both HTTP clients have timeouts),
  and requests keep coming; without requests nothing would try the circuit.

## 4. What is proved

For every value of the constants that satisfies the named assumptions, which TLC
evaluates on the runs: numbers where the code has numbers (sizes, limits and
thresholds that are not zero), markers such as `None` that are no row and no value,
the heartbeat limit below the TTL (`SessionAssumption`), a node for every socket
(`PresenceAssumption`), device identifiers that are no tokens (`PushAssumption`), the
locale "en" among the locales and finitely many version and category ids
(`EmailAdminAssumption`, `SidebarAssumption`), finitely many members of a channel with calls
(`CallsAssumption`), finitely many users and tasks, a bot
that is no user and a reconciler that is no request (`UnreadsAssumption`), and three
groups of which the custom one is neither of the linked ones (`GroupAssumption`).
The bounds that the runs need (`MaxEvents`, `MaxSequence`, `MaxFaults`, ...) are
arbitrary naturals in the proofs. Each theorem below rests on an inductive invariant
that is stronger than its property, defined in the proof module and proved with one
step per action.

**WsSessionProofs.** First the connection store: `StoreTypes`, `StoreNumbers`,
`StoreIndex`, `StoreBuffers`. Uniqueness of numbers is not inductive alone: that a
message about to be buffered has a new number needs the numbers in the tasks' hands to
be distinct and below the counter, which is why `NumbersIdentifyEvents` speaks of both;
that a stream that is created anew has an empty history needs that nobody holds a
message of an id that was never allocated; and the index needs that stored ids are
allocated. `StoreInvariant` proves the conjunction, one step per action. `StoreBuffers`
bounds the ring buffer for every capacity, which is why no run repeats it.

`SessionImplementsStore`: every step of a session is a step of the store or leaves it
alone, so these theorems hold of the running system (step simulation; the mapping is
the identity). `HeartbeatProtectsStream`: the invariant `SessionInvariant` says that a
running socket's stream has been idle no longer than the socket has been silent, and
that the silence is at most one interval over the limit; the assumption on the two
constants does the rest. It holds whether or not the stream is marked active, which is
what matters when a predecessor's disconnect arrives late.

`NoSecondDeliveryAlways`: no numbered message reaches a device twice, over any number
of sockets, resumptions, evictions and stalls. The invariant `Delivery` follows a
number from its stream to the device. What is under way to a socket (queued, to be
replayed, in a task's hand) is there once (`UnderWayOnce`) and was given out by the
socket's stream (`GivenOut`); a socket says hello before anything else
(`HelloFirst`); the device has received nothing of its own stream above the number it
names (`Received`), nothing that is still under way to it, and of a stream that is
new to it nothing at all (`OnSocket`). The replay is sound because it starts above the
number the device names.

**WsPresenceProofs.** `EndedNotCountedAlways`, `OfflineWhenLastDropsAlways`, for any
sockets, nodes, limit and choice of faults, with every Redis command a step. `HubInv` says which phases of a task have
the connection in the hub and a heartbeat, `ListedInv` that without a failure only
connections between SADD and SREM are registered. Offline is the interesting one: as
long as nothing failed and the user chose no status, a user who is shown otherwise has
a connection whose task will yet find that it was the last, or whose count will name
one that does (`WillTell`). A task that counted others no longer tells anything,
which is the step where the invariant is needed.

**ReliabilityProofs.** Of the circuit breaker: `BreakerTypes`, `BreakerTransitions`,
`BreakerRecoveryWaits`. The invariant `CountersMeanRuns` ties the code's counters
to the history: while closed, `failures` is the run of failures since the circuit
closed, while half-open `successes` is the run of successes since it turned
half-open, and while open there was a failure, no older than the opening.

Of the email outbox: `OneWorkerNeverResends`: with one worker a confirmed email is not
transmitted again, for any number of emails, batch size and faults. A batch names an
email once and not the one in hand, a row whose email is with the provider is
'sending', and a confirmed row is in no batch and in hand only as delivered. One
worker is a hypothesis of the theorem (`OneWorker`), not of the module: with two the
property is false (section 3).

**AccountsProofs.** `AccountsInvariant` proves the conjunction of `TasksInv` (what a
request's list may hold, and that a reset it is about to perform has its row),
`UsersInv`, `TokensInv`, `SpentInv` and `CodesInv`. From it follow
`InactiveUntilSetUpAlways` and `SpentIsVerifiedAlways`: verification is two statements,
so a token that is spent has verified its user *or* a request has exactly the second
statement left (`Pending`). `CodesAreSingleUseAlways` is the refinement: every step
of `Accounts` is a step of `SingleUse` for one code or leaves all codes alone, under the
mapping that reads a code's phase off its key and `seen`. `SingleUseGrants` is about the
abstract specification: whatever implements it grants a secret at most once, and an
unspent one has granted nothing. `CodesGrantOnce` combines the two.

**CallsProofs.** `CallWhole` and `EndedPostMarked`, for any users, call ids, tasks and
requests, under one hypothesis: there is one node (`OneNode`; with two `CallIsWhole` is
false, as section 3 says). Both properties are about the moments when nothing runs, and about
behaviours without an overlap or a failure; everything between two such moments is what
the invariant has to carry. `CallsInv` says that until the first overlap or failure
(`Peaceful`) at most one task runs, and the node's copy is what Redis will have once that
task's commands are carried out (`Agreed`, with `AfterRedis`, `AfterChannel` and
`AfterActive` for what is still to be sent, and `Copied` for what is still to be copied).
For these states to come, the task is in one of four phases with one call, all other
calls being gone: it is about to create the call (`Starts`), the call lives (`Lives`), it
is about to drop it (`Closes`), or its SFU and the mark on its post are left (`Marks`). In
each phase the rest of the task's list is constrained:

* `Threaded`: the call knows its one post, or has the thread that a client named and no
  post (`Bound`), and nobody will create another, or the list creates the post exactly once and nothing before that looks at the thread (`Awaiting`,
  `Early`), or the post is there and the next instruction stores its id. This is what
  gives every call one post, or none beside the named thread, and `end_call` something to
  mark;
* `Sharers`: whom the list makes the sharer is in the call, and is not removed before;
* `CallOK`: whoever participates has joined, so that the next host exists;
* the value that `mutate_call` has read is still the stored one, and a host's request has
  a call to be decided on.

There is one lemma per instruction (`LiveStep` serves those that leave calls and posts
alone), one for a copy (`StepCopied`) and one for a command (`StepSent`: what Redis will
have does not change when it is sent), and one per handler, which shows that its list is
`Safe`, ends the call, or `Creates` one.

**PostsProofs.** Two theorems, for any users, requests at once, posts and failures.

* `UnreadExact`: the invariant `UnreadInv` says that every user is marked dirty, or is
  `Excused`, or each counter is right or some task still has to write or drop it
  (`CountersOK`). Excused is who is in `stale`, or whom a task has still to mark. That
  the step which writes is right needs what a task carries to be the count at the
  position it was made for (`HeldOK`); that the step which deletes a mark is right needs
  the counters to have been repaired before it (`HeadOK`, `UndirtyOK`). All of this
  rests on which instruction may follow which (`Shaped`, and `Belongs` for the
  difference between requests and the reconciler: only a request replaces a failed
  recount by a mark). `Truth` is a cardinality, so the module first proves what a new
  post, a deletion and a moved position do to a count, and what `SetToSeq` and
  `FlattenSeq` return, from their definitions.
* `RepliesCounted`: the count on a root plus the counting statements still to come is
  the number of its replies, unless a request was cut short; a task has at most one such
  statement, at the head of its list.

**GroupSyncProofs.** `TrackedDesired`. Between two tasks every tracked membership is
wanted by its link; while a task runs that is false, and the invariant `SyncInv` says
what holds instead: without trouble at most one task runs, and each tracked row is
`Wanted` or `Mends` holds, that is, an instruction still in the task's list will clear
the row, or read the link again. An instruction that relies on what the one before it
read (`Transient`) stands only at the head of the list, or right behind the INSERT of a
tracked row that precedes it, so that nothing can change what it relies on (`ListOK`,
`HeadOK`). An absent
custom group has no members, which its creation needs. Every handler's list is shown to
be good, and every instruction to leave a good rest; the lists of the membership
policies touch neither links nor tracked rows.

**WorkspaceProofs.** One theorem for each property of the content areas.
`AreaSteps` says what a step of the composition is for an area: a step of
that area, or one that leaves its variables alone. An invariant of an area is kept as
"rows, and, in this area, the statements under way". The lemmas at the top are about the
request machinery: what `Begin`, `Continue`, `GiveUp` and an interruption do to the
statements left (`TaskLists`, `ShortLists`, `Joined`, `JoinedPlaces`, `SameList`).

| Theorem | The invariant, and why it is needed |
|---|---|
| `RefusalEndsAlways` | `LimitInv`: a key expires within the window, and what it let through is at most what it counted and at most the limit |
| `HeldUntilOutsideAlways` | `QuietInv`: the times are those of a day; the rest is arithmetic on `calculate_send_after`, for a day of any length |
| `DeletedBookmarkIsFinalAlways` | `BookmarkInv`: a request has one statement left at most, an insertion is of an id that nobody else inserts |
| `AcceptanceStandsAlways` | `TermsInv`: accepted and acknowledged terms have been used, so that no deletion takes them |
| `TokenStaysRegisteredAlways` | `PushInv`: a late deletion names a token that the provider has refused, and tokens are not shared |
| `RunIsWholeAlways` | `PlaybookInv`: the four statements of a start, for a caller and an owner, and how far it is |
| `ChoicesAreKeptAlways` | `StatusInv`: the rows' types and what requests are about to write |
| `TracksAreForwardedAlways` | `TracksInv`: a registered track and each entry of a session has a task at the stage that will remove it |
| `CandidatesAddedOnceAlways` | `CandidateInv`: a candidate is in one place: not sent, carried by one request, waiting for one session, or added |
| `OneHookPerMessageAlways` | `HookInv`: one request follows a post from its insertion to its triggers, and once a callback exists no request is about the post, so that later changes of hooks bring no call of another one |
| `TemplateStaysAvailableAlways` | `MailInv`: an insertion is of a new version id and as a draft, so nothing but the deletion of the family takes a published version |
| `RowsHaveObjectsAlways` | `FileInv`: what a statement names is stored, or an earlier statement of the same request stores it, and only files somebody began to delete lose their object |
| `SidebarShowsAllAlways` | `SidebarInv`: a reader under way has at least one category and a set of mappings for each one read, so that the category orphans go to is in the answer; a least index exists because `<` on the naturals is well-founded |
| `UploadIsExactAlways` | `UploadInv`: the data of a session with one request at a time is the first `offset` chunks, the sender knows that offset or a single request carries the next chunk, and a completion finds the whole file |

**Only model-checked.** Liveness (`SilentSocketEnds`, `UnusedStreamPurged`, `RecoveryAttempted`,
`QueuedIsHandled`, `LonelyCallEnds`, `CountsConverge`, `PoliciesConverge`): fairness and ENABLED are out of the prover's reach. Every safety
property of every passing run has its theorem.

## 5. Plan

Done: the websocket core, breaker and email outbox; calls with the SFU; posts and
unread counters; memberships, groups and Keycloak; accounts; the content areas; proofs
in eight modules, of every safety property of every passing run.

The last proofs corrected the models in three places, each of them a state that the small
instances had not reached: which users the counters miss (a count under way when a post is
deleted, an author's position that moves without a recount), the reconciler's pass,
which recounts one user after the other and not from one reading, and a link's target that
is deleted while the link inserts memberships.

Next, models: two nodes in `Calls` once the local copies are dropped with the call; what
`keycloak_sync.rs` does with a group's members, once its INSERT is accepted; the hub's
routing; composition of `Calls` with the grace timer of `WsSession`.

## 6. Not modelled

* Cluster broadcast: a relay between hubs that keeps no state. What other nodes publish
  while its subscriber reconnects (five seconds) is lost; nothing promises otherwise.
* Token validation and permissions: functions of a token and a row. Handlers' checks
  appear as guards.
* Search, statistics, audit and the OIDC discovery cache: reads of what others write.
* Response shapes of the Mattermost API and its stubs (LDAP, SAML, plugins, compliance).
* Media packets, codecs, image decoding, SMTP, S3, APNs, FCM and Keycloak's own
  behaviour: external, represented by their possible answers.
* The web client; `archive/`, which holds earlier copies that are not built.
