------------------------------- MODULE Posts -------------------------------
(***************************************************************************)
(* Posts, threads and marks on posts in one channel, over the unread       *)
(* counters of module Unreads: the service backend/src/services/posts.rs,  *)
(* the handlers of api/posts.rs, api/v4/posts.rs and api/v4/posts/, those  *)
(* of api/v4/channels/ that read or move the position of a user, threads   *)
(* (api/v4/threads.rs) and the activity feed (services/activity.rs).       *)
(*                                                                         *)
(* Creating a post is several statements with other tasks in between.  A   *)
(* handler of one statement, after its checks, is one step.  A message     *)
(* has no text: that it mentions someone or triggers a playbook is chosen. *)
(***************************************************************************)
EXTENDS Unreads

CONSTANTS
    Admins,        \* users with ADMIN_FULL or CHANNEL_MANAGE
    MaxPosts       \* bound on the posts of a behaviour

VARIABLES
    marks,       \* reactions, saved posts, acknowledgements and reminders: kind, user, post
    threads,     \* thread_memberships: user, root, following, unread
    feed,        \* activities: to, kind, post, read
    scheduled    \* users with a scheduled post

PostVars == <<UnreadVars, marks, threads, feed, scheduled>>

Counters == <<pos, legacy, v2, dirty>>

PostsInit ==
    /\ UnreadsInit
    /\ marks = {} /\ threads = {} /\ feed = {} /\ scheduled = {}

NewPost(author, root) == [author |-> author, root |-> root, deleted |-> FALSE, edited |-> FALSE,
                          pinned |-> FALSE, replies |-> 0]

Ids == DOMAIN posts
Live(i) == i \in Ids /\ ~posts[i].deleted

-----------------------------------------------------------------------------
(* Requests. *)

\* A request that a task goes on with.
Request(t, todo) ==
    /\ requests + trouble < MaxEvents
    /\ requests' = requests + 1
    /\ Begin(t, 1, todo)
    /\ UNCHANGED <<marks, threads, scheduled>>

Quiet == \A t \in Workers : ~Busy(t)

\* A request that is done in one statement.
Statement ==
    /\ requests + trouble < MaxEvents
    /\ requests' = requests + 1
    /\ UNCHANGED <<direct, task, cut, trouble, legacy, v2, dirty>>

\* A statement on rows that no task reads or writes: when it runs makes no difference.
QuietStatement == Quiet /\ Statement

-----------------------------------------------------------------------------
(* services/posts.rs *)

\* Once the new post is broadcast: the direct channel is healed, the post counted, mentions noted.
AfterBroadcast(u, seq, kind) ==
    (IF direct THEN <<Op("heal", u, 0)>> ELSE <<>>)
    \o increment_unreads(u, seq)
    \o (IF kind = "mention" THEN <<Op("mention_activity", u, seq)>> ELSE <<>>)

\* The steps that follow the INSERT of a post.
AfterInsert(u, root, seq, kind) ==
    (IF root # 0 THEN <<Op("count_reply", u, root), Op("reply_activity", u, seq)>>
     ELSE IF kind = "playbook" THEN <<Op("playbook", u, 0)>> ELSE <<>>)
    \o AfterBroadcast(u, seq, kind)

create_post(t, u, root, kind) ==
    /\ Len(posts) < MaxPosts
    /\ u \in members
    /\ root \in {0} \cup Ids             \* a deleted root or a reply is accepted
    /\ kind = "playbook" => root = 0
    /\ posts' = Append(posts, NewPost(u, root))
    /\ Request(t, AfterInsert(u, root, Len(posts) + 1, kind))
    /\ UNCHANGED <<members, Counters, stale, feed>>

\* Mutant: a deleted root counts no replies.
CountReplyOfLive(t, o) ==
    /\ o.do = "count_reply"
    /\ posts' = [posts EXCEPT ![o.p].replies = IF posts[o.p].deleted THEN @ ELSE @ + 1]
    /\ Continue(t, None, <<>>)
    /\ UNCHANGED <<members, Counters, stale, feed>>

\* reply_count is counted up in the database.
CountReply(t, o) ==
    /\ o.do = "count_reply"
    /\ posts' = [posts EXCEPT ![o.p].replies = @ + 1]
    /\ Continue(t, None, <<>>)
    /\ UNCHANGED <<members, Counters, stale, feed>>

\* check_playbook_triggers posts a hint as the bot, and counts it for nobody.
check_playbook_triggers(t, o) ==
    /\ o.do = "playbook"
    /\ posts' = IF Len(posts) < MaxPosts THEN Append(posts, NewPost(Bot, 0)) ELSE posts
    /\ Continue(t, None, <<>>)
    /\ UNCHANGED <<members, Counters, feed>>
    /\ stale' = stale \cup Bypassed \cup Counted

\* Both users of a direct channel become members again.
ensure_dm_membership(t, o) ==
    /\ o.do = "heal"
    /\ members' = Users
    /\ Continue(t, None, <<>>)
    /\ UNCHANGED <<posts, Counters, stale, feed>>

\* A system message is a post of the bot, counted for every member.
create_system_message(t, o) ==
    /\ o.do = "system"
    /\ Len(posts) < MaxPosts
    /\ posts' = Append(posts, NewPost(Bot, 0))
    /\ Continue(t, None, increment_unreads(Bot, Len(posts) + 1))
    /\ UNCHANGED <<members, Counters, stale, feed>>

\* The cap on posts: the message is not written.
SystemMessageCapped(t, o) ==
    /\ o.do = "system"
    /\ Len(posts) >= MaxPosts
    /\ Continue(t, None, <<>>)
    /\ UNCHANGED <<members, Counters, posts, stale, feed>>

-----------------------------------------------------------------------------
(* services/activity.rs *)

create_activity(to, kind, i) ==
    feed' = feed \cup {[to |-> to, kind |-> kind, post |-> i, read |-> FALSE]}

\* The author of the root learns of the reply, as a thread reply if the root is a reply itself.
ReplyActivity(t, o) ==
    /\ o.do = "reply_activity"
    /\ LET parent == posts[posts[o.p].root]
       IN  IF parent.author \in Users \ {o.u}
           THEN create_activity(parent.author, IF parent.root # 0 THEN "thread_reply" ELSE "reply", o.p)
           ELSE feed' = feed
    /\ Continue(t, None, <<>>)
    /\ UNCHANGED <<members, posts, Counters, stale>>

\* Every member but the author is mentioned.
create_mention_activity(t, o) ==
    /\ o.do = "mention_activity"
    /\ feed' = feed \cup {[to |-> m, kind |-> "mention", post |-> o.p, read |-> FALSE] : m \in members \ {o.u}}
    /\ Continue(t, None, <<>>)
    /\ UNCHANGED <<members, posts, Counters, stale>>

create_reaction_activity(u, i) ==
    IF posts[i].author \in Users \ {u} THEN create_activity(posts[i].author, "reaction", i) ELSE feed' = feed

mark_activities_read(u, a) ==
    /\ QuietStatement
    /\ a \in feed /\ a.to = u /\ ~a.read
    /\ feed' = (feed \ {a}) \cup {[a EXCEPT !.read = TRUE]}
    /\ UNCHANGED <<members, posts, pos, stale, marks, threads, scheduled>>

mark_all_activities_read(u) ==
    /\ QuietStatement
    /\ feed' = {IF a.to = u THEN [a EXCEPT !.read = TRUE] ELSE a : a \in feed}
    /\ feed' # feed
    /\ UNCHANGED <<members, posts, pos, stale, marks, threads, scheduled>>

-----------------------------------------------------------------------------
(* Changes of a post. *)

\* A recount under way misses a deletion.
ChangePost(i, p) ==
    /\ Statement
    /\ posts' = [posts EXCEPT ![i] = p]
    /\ UNCHANGED <<members, pos, marks, threads, feed, scheduled>>
    /\ stale' = stale \cup Bypassed \cup (IF p.deleted = posts[i].deleted THEN {} ELSE Counted)

\* api/v4: the author only, deleted or not.
v4_delete_post(u, i) == i \in Ids /\ posts[i].author = u /\ ChangePost(i, [posts[i] EXCEPT !.deleted = TRUE])
update_post_message(u, i) == i \in Ids /\ posts[i].author = u /\ ChangePost(i, [posts[i] EXCEPT !.edited = TRUE])

\* api/posts.rs: the author or an administrator, and no deleted post.
Owns(u, i) == Live(i) /\ (posts[i].author = u \/ u \in Admins)
delete_post(u, i) == Owns(u, i) /\ ChangePost(i, [posts[i] EXCEPT !.deleted = TRUE])
update_post(u, i) == Owns(u, i) /\ ChangePost(i, [posts[i] EXCEPT !.edited = TRUE])

\* Pinning: any member in api/v4, channel administrators in api/posts.rs.
v4_pin_post(u, i) == i \in Ids /\ u \in members /\ ChangePost(i, [posts[i] EXCEPT !.pinned = TRUE])
v4_unpin_post(u, i) == i \in Ids /\ u \in members /\ ChangePost(i, [posts[i] EXCEPT !.pinned = FALSE])
channel_pin_post(u, i) == v4_pin_post(u, i)
channel_unpin_post(u, i) == v4_unpin_post(u, i)
pin_post(u, i) == Live(i) /\ u \in members \cap Admins /\ ChangePost(i, [posts[i] EXCEPT !.pinned = TRUE])
unpin_post(u, i) == Live(i) /\ u \in members \cap Admins /\ ChangePost(i, [posts[i] EXCEPT !.pinned = FALSE])

-----------------------------------------------------------------------------
(* Marks on posts. *)

Mark(kind, u, i) == [kind |-> kind, u |-> u, post |-> i]

SetMarks(S) ==
    /\ QuietStatement
    /\ marks' = S
    /\ UNCHANGED <<members, posts, pos, stale, threads, scheduled>>

\* api/v4 reactions tell the author of the post, those of api/posts.rs do not.
v4_add_reaction(u, i) ==
    i \in Ids /\ u \in members /\ SetMarks(marks \cup {Mark("reaction", u, i)}) /\ create_reaction_activity(u, i)
add_reaction(u, i) == Live(i) /\ u \in members /\ SetMarks(marks \cup {Mark("reaction", u, i)}) /\ feed' = feed
v4_remove_reaction(u, i) ==
    u \in members /\ Mark("reaction", u, i) \in marks /\ SetMarks(marks \ {Mark("reaction", u, i)}) /\ feed' = feed
remove_reaction(u, i) == Mark("reaction", u, i) \in marks /\ SetMarks(marks \ {Mark("reaction", u, i)}) /\ feed' = feed

save_post(u, i) == Live(i) /\ u \in members /\ SetMarks(marks \cup {Mark("saved", u, i)}) /\ feed' = feed
unsave_post(u, i) == Mark("saved", u, i) \in marks /\ SetMarks(marks \ {Mark("saved", u, i)}) /\ feed' = feed

save_acknowledgement_for_post(u, i) ==
    Live(i) /\ u \in members /\ SetMarks(marks \cup {Mark("ack", u, i)}) /\ feed' = feed
delete_acknowledgement_for_post(u, i) ==
    Mark("ack", u, i) \in marks /\ SetMarks(marks \ {Mark("ack", u, i)}) /\ feed' = feed

set_post_reminder(u, i) == i \in Ids /\ SetMarks(marks \cup {Mark("reminder", u, i)}) /\ feed' = feed

SetScheduled(S) ==
    /\ QuietStatement
    /\ scheduled' = S
    /\ UNCHANGED <<members, posts, pos, stale, marks, threads, feed>>

create_scheduled_post(u) == SetScheduled(scheduled \cup {u})
\* Only the content of the row changes.
update_scheduled_post(u) == u \in scheduled /\ SetScheduled(scheduled)
delete_scheduled_post(u) == u \in scheduled /\ SetScheduled(scheduled \ {u})

-----------------------------------------------------------------------------
(* Positions and members. *)

\* A position is written behind the back of the counters.
MovePosition(u, q) ==
    /\ Statement
    /\ u \in members
    /\ pos' = [pos EXCEPT ![u] = q]
    /\ UNCHANGED <<members, posts, marks, feed, scheduled>>
    /\ stale' = stale \cup Bypassed

v4_mark_channel_as_read(u) == MovePosition(u, Len(posts)) /\ UNCHANGED threads
mark_channel_member_as_read(u) == MovePosition(u, Len(posts)) /\ UNCHANGED threads
mark_channel_viewed(u) == MovePosition(u, MaxSeq({i \in Ids : Live(i)})) /\ UNCHANGED threads
mark_channel_as_unread(u) == MovePosition(u, 0) /\ UNCHANGED threads

ThreadOf(u, r) == {m \in threads : m.u = u /\ m.root = r}

SetThread(u, r, following, unread) ==
    threads' = (threads \ ThreadOf(u, r)) \cup {[u |-> u, root |-> r, following |-> following, unread |-> unread]}

\* A reply marked unread puts its thread on the user's list, unless the client knows collapsed
\* threads or threads are not followed automatically.
UnreadThread(u, i) ==
    \/ UNCHANGED threads
    \/ /\ posts[i].root # 0
       /\ SetThread(u, posts[i].root, TRUE,
                    Cardinality({j \in Ids : Live(j) /\ posts[j].root = posts[i].root /\ j >= i}))

set_post_unread(u, i) ==
    /\ Live(i)
    /\ MovePosition(u, i - 1)
    /\ UnreadThread(u, i)

\* services/unreads.rs through POST /channels/{id}/read and /unreads/mark_all_read.
MarkRead(t, u, target) ==
    /\ Request(t, mark_channel_as_read(u, target))
    /\ UNCHANGED <<members, posts, Counters, stale, feed>>

MarkAllRead(t, u) ==
    /\ Request(t, mark_all_as_read(u))
    /\ UNCHANGED <<members, posts, Counters, stale, feed>>

add_member(t, u) ==
    /\ ~direct /\ u \notin members
    /\ members' = members \cup {u}
    /\ Request(t, <<Op("system", Bot, 0)>>)
    /\ UNCHANGED <<posts, Counters, stale, feed>>

\* Nobody keeps the counters of a former member: the reconciler clears the mark and counts nothing.
remove_member(u) ==
    /\ Statement
    /\ u \in members
    /\ members' = members \ {u}
    /\ UNCHANGED <<posts, pos, marks, threads, feed, scheduled>>
    /\ stale' = stale \cup {u}

-----------------------------------------------------------------------------
(* Threads (api/v4/threads.rs). *)

ThreadStatement ==
    /\ QuietStatement
    /\ UNCHANGED <<members, posts, pos, stale, marks, feed, scheduled>>

Following(u, r) == \E m \in ThreadOf(u, r) : m.following
UnreadReplies(u, r) == IF ThreadOf(u, r) = {} THEN 0 ELSE (CHOOSE m \in ThreadOf(u, r) : TRUE).unread
\* following defaults to true in the table
FollowedByDefault(u, r) == ThreadOf(u, r) = {} \/ Following(u, r)

mark_thread_read_internal(u, r) == r \in Ids /\ ThreadStatement /\ SetThread(u, r, FollowedByDefault(u, r), 0)
mark_all_read_internal(u) ==
    /\ ThreadStatement
    /\ threads' = {IF m.u = u THEN [m EXCEPT !.unread = 0] ELSE m : m \in threads}
    /\ threads' # threads
follow_thread_internal(u, r) == r \in Ids /\ ThreadStatement /\ SetThread(u, r, TRUE, UnreadReplies(u, r))
unfollow_thread_internal(u, r) ==
    ThreadOf(u, r) # {} /\ ThreadStatement /\ SetThread(u, r, FALSE, UnreadReplies(u, r))
set_thread_unread(u, r) ==
    /\ r \in Ids /\ ThreadStatement
    /\ SetThread(u, r, FollowedByDefault(u, r), IF UnreadReplies(u, r) = 0 THEN 1 ELSE UnreadReplies(u, r))

-----------------------------------------------------------------------------
(* What the handlers show a user: the ids of the posts in their answers. *)

LivePosts == {i \in Ids : Live(i)}
ToMember(u, S) == IF u \in members THEN S ELSE {}
InThread(i) == {j \in Ids : j = i \/ posts[j].root = i}

get_post(u) == ToMember(u, LivePosts)
v4_get_post(u) == ToMember(u, LivePosts)
get_posts_by_ids(u) == ToMember(u, LivePosts)
list_posts(u) == ToMember(u, {i \in LivePosts : posts[i].root = 0 \/ direct})
v4_get_posts(u) == ToMember(u, LivePosts)
get_pinned_posts(u) == ToMember(u, {i \in LivePosts : posts[i].pinned})
get_posts_around_unread(u) == ToMember(u, {i \in LivePosts : i <= pos[u]} \cup {i \in LivePosts : i > pos[u]})
search_team_posts(u) == ToMember(u, LivePosts)
search_posts_all_teams(u) == ToMember(u, LivePosts)
get_saved_posts(u) == {i \in LivePosts : Mark("saved", u, i) \in marks}
get_flagged_posts(u) == {i \in LivePosts : Mark("saved", u, i) \in marks}
get_thread(i) == IF Live(i) THEN InThread(i) \cap LivePosts ELSE {}
\* Both handlers ask for membership once the thread has been read.
get_thread_v1(u, i) == ToMember(u, get_thread(i))
get_post_thread(u, i) == ToMember(u, get_thread(i))
get_threads_internal(u) == {i \in LivePosts : posts[i].root = 0 /\ Following(u, i)}
get_all_threads_internal(u) == {i \in LivePosts : posts[i].root = 0 /\ Following(u, i)}
\* An edit answers with the post, and broadcasts it; an activity shows the text of its post.
edited_post(u) == {i \in Ids : posts[i].author = u}
get_activities(u) == {a.post : a \in {b \in feed : b.to = u /\ b.kind # "reaction"}}

Shown(u) ==
    (UNION {get_post(u), v4_get_post(u), get_posts_by_ids(u), list_posts(u), v4_get_posts(u), get_pinned_posts(u),
            get_posts_around_unread(u), search_team_posts(u), search_posts_all_teams(u), get_saved_posts(u),
            get_flagged_posts(u), get_threads_internal(u), get_all_threads_internal(u), edited_post(u),
            get_activities(u)})
    \cup (UNION {get_thread_v1(u, i) \cup get_post_thread(u, i) : i \in Ids})

-----------------------------------------------------------------------------
(* The system. *)

TaskStep(t) ==
    /\ Busy(t)
    /\ \E o \in {Head(task[t].todo)} :
          \/ /\ \/ SyncUser(t, o) \/ Compute(t, o) \/ write_legacy_channel_count(t, o) \/ write_v2_channel_hash(t, o)
                \/ ClearDirty(t, o) \/ DropCounters(t, o) \/ SetPosition(t, o) \/ Notify(t, o)
                \/ Increment(t, o) \/ mark_dirty_with_conn(t, o)
             /\ UNCHANGED feed
          \/ CountReply(t, o) \/ check_playbook_triggers(t, o) \/ ensure_dm_membership(t, o)
          \/ create_system_message(t, o) \/ SystemMessageCapped(t, o)
          \/ ReplyActivity(t, o) \/ create_mention_activity(t, o)
    /\ UNCHANGED <<marks, threads, scheduled, requests>>

Background ==
    /\ \/ reconcile_dirty_users_once
       \/ \E t \in Tasks, u \in Users : get_unread_overview(t, u)
       \/ \E t \in Workers : RedisFails(t)
       \/ \E t \in Tasks : Dropped(t)
       \/ Crash
    /\ UNCHANGED <<marks, threads, feed, scheduled, requests>>

UserTask(t, u) ==
    \/ \E root \in {0} \cup Ids, kind \in {"plain", "mention", "playbook"} :
           create_post(t, u, root, kind)
    \/ \E target \in 0..Len(posts) : MarkRead(t, u, target)
    \/ MarkAllRead(t, u)
    \/ add_member(t, u)

UserStatement(u) ==
    \/ \E i \in Ids :
          \/ v4_delete_post(u, i) \/ update_post_message(u, i) \/ delete_post(u, i) \/ update_post(u, i)
          \/ v4_pin_post(u, i) \/ v4_unpin_post(u, i) \/ channel_pin_post(u, i) \/ channel_unpin_post(u, i)
          \/ pin_post(u, i) \/ unpin_post(u, i)
          \/ v4_add_reaction(u, i) \/ add_reaction(u, i) \/ v4_remove_reaction(u, i) \/ remove_reaction(u, i)
          \/ save_post(u, i) \/ unsave_post(u, i) \/ set_post_reminder(u, i)
          \/ save_acknowledgement_for_post(u, i) \/ delete_acknowledgement_for_post(u, i)
          \/ set_post_unread(u, i)
          \/ mark_thread_read_internal(u, i) \/ follow_thread_internal(u, i)
          \/ unfollow_thread_internal(u, i) \/ set_thread_unread(u, i)
    \/ create_scheduled_post(u) \/ update_scheduled_post(u) \/ delete_scheduled_post(u)
    \/ v4_mark_channel_as_read(u) \/ mark_channel_member_as_read(u)
    \/ mark_channel_viewed(u) \/ mark_channel_as_unread(u)
    \/ remove_member(u) \/ mark_all_read_internal(u)
    \/ (\E a \in feed : mark_activities_read(u, a)) \/ mark_all_activities_read(u)

PostsNext ==
    \/ \E t \in Workers : TaskStep(t)
    \/ Background
    \/ \E t \in Tasks, u \in Users : UserTask(t, u)
    \/ \E u \in Users : UserStatement(u)

\* Tasks go on, and the reconciler's interval comes round.
PostsFairness ==
    /\ \A t \in Workers : WF_PostVars(TaskStep(t))
    /\ WF_PostVars(reconcile_dirty_users_once /\ UNCHANGED <<marks, threads, feed, scheduled, requests>>)

PostsSpec == PostsInit /\ [][PostsNext]_PostVars /\ PostsFairness

-----------------------------------------------------------------------------
(* Properties. *)

\* The counters a member is shown are what the database says once no task runs and the
\* member is not marked dirty, except after a change that bypasses the counters, a mark
\* lost in the window between a recount and the DEL of the dirty key, or a failed command
\* (increment_unreads, sync_user_unread_cache, mark_channel_as_read, get_unread_overview).
UnreadIsExact ==
    Quiet => \A u \in members \ (dirty \cup stale) : ShownExactly(u)

\* "DB is source of truth." (unreads.rs:670): a member who is not marked dirty is shown
\* what the database says once no task runs, whichever handler wrote last.
CountersFollowDatabase ==
    Quiet => \A u \in members \ dirty : v2[u] # None => ShownExactly(u)

\* increment_unreads counts a reply as a root post: the reconciler always puts that right, and
\* so every count that lost no race ends up exact.
CountsConverge ==
    <>[](\A u \in members \ stale : ShownExactly(u))

Inserted(i) == Cardinality({j \in Ids : posts[j].root = i})
Uncounted(i) == Cardinality({t \in Tasks : \E k \in DOMAIN task[t].todo : 
                                       task[t].todo[k].do = "count_reply" /\ task[t].todo[k].p = i})

\* reply_count is the number of replies, deleted ones included, that create_post has
\* inserted and counted; replies created at the same time are all counted, and only a
\* handler or a process that ends between the two statements of create_post leaves one
\* out, of the post it was a reply to.
RepliesAreCounted ==
    \A i \in Ids : /\ posts[i].replies + Uncounted(i) <= Inserted(i)
                   /\ i \notin cut => posts[i].replies + Uncounted(i) = Inserted(i)

\* "Soft deleted posts will not be returned in post queries."
\* (tools/mm-compat/openapi/mattermost-openapi-v4.yaml:9184): no answer shows a deleted post, whichever
\* way it was saved, pinned, followed or replied to before.  An edit's answer and the activity feed do.
DeletedIsHidden == \A u \in Users : \A i \in Shown(u) : ~posts[i].deleted

=============================================================================
