----------------------------- MODULE Bookmarks -----------------------------
(***************************************************************************)
(* The bookmarks of a channel (api/v4/channel_bookmarks.rs).  An edit      *)
(* reads the bookmark to see whether the caller may, writes it, and tells  *)
(* the channel; other requests run between any two of these.  The owner of *)
(* every bookmark is one user, who may leave the channel and keeps the     *)
(* right to edit; the caller is the owner or an administrator.             *)
(***************************************************************************)
EXTENDS Requests

CONSTANTS BookmarkIds   \* identifiers, each used for one row

BookmarkRow == [edited : BOOLEAN, sort_order : {0, 1}, delete_at : {0, 1}]

ASSUME BookmarksAssumption == None \notin BookmarkRow

VARIABLES
    channel_bookmarks,   \* bookmark -> None, or whether it was edited, its position and its deletion
    bookmarkMember,      \* is the owner a member of the channel?
    bookmarkEvents,      \* bookmark -> the last event told to the channel, or None
    lastShown            \* history: bookmark -> the row when it was first deleted, or None

BookmarkVars == <<channel_bookmarks, bookmarkMember, bookmarkEvents, lastShown>>

BookmarksInit ==
    /\ channel_bookmarks = [b \in BookmarkIds |-> None]
    /\ bookmarkMember = TRUE
    /\ bookmarkEvents = [b \in BookmarkIds |-> None]
    /\ lastShown = [b \in BookmarkIds |-> None]

\* Mutant: rows that are deleted are found too.
KeptOrDeleted(b) == channel_bookmarks[b] # None

\* WHERE ... delete_at = 0
Kept(b) == IF channel_bookmarks[b] = None THEN FALSE ELSE channel_bookmarks[b].delete_at = 0

broadcast_bookmark_event(t, event, b) == Continue(t, <<Stmt("tell", [event |-> event, b |-> b])>>)
Tell(t, o) ==
    /\ o.do = "tell"
    /\ bookmarkEvents' = [bookmarkEvents EXCEPT ![o.x.b] = o.x.event]
    /\ Continue(t, <<>>)
    /\ UNCHANGED <<channel_bookmarks, bookmarkMember, lastShown>>

create_bookmark(t, b) ==
    /\ bookmarkMember
    /\ channel_bookmarks[b] = None
    /\ Begin(t, <<Stmt("insert_bookmark", b)>>)
    /\ \A x \in Tasks : \A i \in 1..Len(task[x]) : task[x][i] # Stmt("insert_bookmark", b)
    /\ UNCHANGED BookmarkVars
InsertBookmark(t, o) ==
    /\ o.do = "insert_bookmark"
    /\ channel_bookmarks' = [channel_bookmarks EXCEPT ![o.x] = [edited |-> FALSE, sort_order |-> 0, delete_at |-> 0]]
    /\ broadcast_bookmark_event(t, "created", o.x)
    /\ UNCHANGED <<bookmarkMember, bookmarkEvents, lastShown>>

\* The caller is not asked for membership, only for ownership.
update_bookmark(t, b) ==
    /\ Kept(b)
    /\ Begin(t, <<Stmt("update_bookmark", b)>>)
    /\ UNCHANGED BookmarkVars

\* The row that an edit finds is still there: no row, no answer but an error.
Edit(t, b, event, row) ==
    /\ IF Kept(b) THEN channel_bookmarks' = [channel_bookmarks EXCEPT ![b] = row] /\ broadcast_bookmark_event(t, event, b)
       ELSE GiveUp(t) /\ UNCHANGED channel_bookmarks
    /\ UNCHANGED <<bookmarkMember, bookmarkEvents, lastShown>>
UpdateBookmark(t, o) ==
    o.do = "update_bookmark" /\ Edit(t, o.x, "updated", [channel_bookmarks[o.x] EXCEPT !.edited = TRUE])

reorder_bookmark(t, b) ==
    /\ Kept(b)
    /\ Begin(t, <<Stmt("sort_bookmark", b)>>)
    /\ UNCHANGED BookmarkVars
SortBookmark(t, o) ==
    o.do = "sort_bookmark" /\ Edit(t, o.x, "sorted", [channel_bookmarks[o.x] EXCEPT !.sort_order = 1])

\* The soft delete does not ask whether the row is deleted already.
delete_bookmark(t, b) ==
    /\ Kept(b)
    /\ Begin(t, <<Stmt("delete_bookmark", b)>>)
    /\ UNCHANGED BookmarkVars
SoftDeleteBookmark(t, o) ==
    /\ o.do = "delete_bookmark"
    /\ channel_bookmarks' = [channel_bookmarks EXCEPT ![o.x].delete_at = 1]
    /\ lastShown' = [lastShown EXCEPT ![o.x] = IF @ = None THEN channel_bookmarks'[o.x] ELSE @]
    /\ broadcast_bookmark_event(t, "deleted", o.x)
    /\ UNCHANGED <<bookmarkMember, bookmarkEvents>>

\* The owner leaves or joins the channel (module Teams).
OwnerMoves ==
    /\ bookmarkMember' = ~bookmarkMember
    /\ Statement
    /\ UNCHANGED <<channel_bookmarks, bookmarkEvents, lastShown>>

-----------------------------------------------------------------------------
BookmarkRequest(t) ==
    \/ OwnerMoves
    \/ \E b \in BookmarkIds : \/ create_bookmark(t, b) \/ update_bookmark(t, b)
                              \/ reorder_bookmark(t, b) \/ delete_bookmark(t, b)

BookmarkStep(t, o) ==
    \/ Tell(t, o) \/ InsertBookmark(t, o) \/ UpdateBookmark(t, o) \/ SortBookmark(t, o) \/ SoftDeleteBookmark(t, o)

BookmarksNext ==
    \/ /\ events < MaxEvents
       /\ \E t \in Tasks : BookmarkRequest(t) \/ (Interrupted(t) /\ UNCHANGED BookmarkVars)
    \/ \E t \in Tasks : Busy(t) /\ BookmarkStep(t, Head(task[t]))

-----------------------------------------------------------------------------
(* Properties. *)

\* A deleted bookmark stays as it was: an edit or a move that was allowed before the deletion neither
\* revives it nor changes it (channel_bookmarks.rs, update_bookmark and reorder_bookmark).
DeletedBookmarkIsFinal == \A b \in BookmarkIds : lastShown[b] # None => channel_bookmarks[b] = lastShown[b]

=============================================================================
