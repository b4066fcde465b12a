------------------------------ MODULE Sidebar ------------------------------
(***************************************************************************)
(* The sidebar categories of one user in one team:                         *)
(* api/v4/users/user_sidebar_categories.rs and api/v4/categories.rs.       *)
(*                                                                         *)
(* channel_categories rows are deleted softly; channel_category_channels   *)
(* rows outlive them, and outlive the user's membership of the channel.    *)
(* Reading the sidebar is one statement for the categories, one for each   *)
(* category and one for the user's channels, so it interleaves with the    *)
(* requests of the user's other devices.  Names and sortings are left out. *)
(***************************************************************************)
EXTENDS Requests, FiniteSets, SequencesExt

CONSTANTS
    Categories,   \* ids
    Streams,      \* channels of the team
    Directs       \* direct and group channels

ASSUME SidebarAssumption == IsFiniteSet(Categories)

CategoryKinds == {"custom", "channels", "direct_messages"}
SidebarChannels == Streams \cup Directs

VARIABLES
    cat,       \* channel_categories: id -> row, None: no row
    placed,    \* channel_category_channels
    joined,    \* channels that are not archived and that the user is a member of
    sidebar    \* history: the last answer, and the channels it should show

SidebarVars == <<cat, placed, joined, sidebar>>

NoSidebar == [shows |-> {}, candidates |-> {}]
CategoryRow(kind, pos) == [kind |-> kind, pos |-> pos, live |-> TRUE]

SidebarInit ==
    /\ cat = [c \in Categories |-> None] /\ placed = {}
    /\ joined = SidebarChannels
    /\ sidebar = NoSidebar

CategoryExists(c) == cat[c] # None
\* delete_at = 0
LiveCategory(c) == IF CategoryExists(c) THEN cat[c].live ELSE FALSE
LiveCategories == {c \in Categories : LiveCategory(c)}
Placed(c) == {ch \in SidebarChannels : <<c, ch>> \in placed}

-----------------------------------------------------------------------------
(* Reading. *)

\* SELECT of the channels that are the user's and are not archived.
get_sidebar_candidate_channels == joined

\* The orders of the rows that the sidebar may have: by position, and where it is the same by name.
sort_category_rows(S) ==
    {order \in SetToSeqs(S) : \A i, j \in DOMAIN order : i < j => cat[order[i]].pos <= cat[order[j]].pos}

\* The first category of the type, if there is one.
category_index_by_type_or_name(order, kind, otherwise) ==
    LET i == SelectInSeq(order, LAMBDA c : cat[c].kind = kind) IN IF i = 0 THEN otherwise ELSE i

\* What the answer shows: the mappings read, and every candidate that is in none of them.
backfill_orphaned_channels(order, got, assigned) ==
    LET channels == category_index_by_type_or_name(order, "channels", 1)
        dms == category_index_by_type_or_name(order, "direct_messages", channels)
        orphans(T) == (get_sidebar_candidate_channels \cap T) \ assigned
    IN  [i \in DOMAIN order |-> got[i] \cup (IF i = channels THEN orphans(Streams) ELSE {})
                                       \cup (IF i = dms THEN orphans(Directs) ELSE {})]

AnswerWith(shown) == sidebar' = [shows |-> UNION Range(shown), candidates |-> joined]

\* No category: one that shows every candidate.
get_default_categories == AnswerWith(<<get_sidebar_candidate_channels>>)

\* The live categories; the mappings of each are read later.
get_categories_internal(t) ==
    /\ IF LiveCategories = {} THEN get_default_categories /\ Statement
       ELSE /\ \E order \in sort_category_rows(LiveCategories) : Begin(t, <<Stmt("mappings", [order |-> order, got |-> <<>>])>>)
            /\ UNCHANGED sidebar
    /\ UNCHANGED <<cat, placed, joined>>

\* The mappings of the next category.
ReadMappings(t, o) ==
    /\ o.do = "mappings"
    /\ LET got == Append(o.x.got, Placed(o.x.order[Len(o.x.got) + 1]))
       IN  Continue(t, <<Stmt(IF Len(got) = Len(o.x.order) THEN "candidates" ELSE "mappings", [o.x EXCEPT !.got = got])>>)
    /\ UNCHANGED SidebarVars

\* A category whose row is deleted meanwhile counts as assigned although it is not shown.
AssignedAnywhere(t, o) ==
    /\ o.do = "candidates"
    /\ AnswerWith(backfill_orphaned_channels(o.x.order, o.x.got, {p[2] : p \in placed}))
    /\ Continue(t, <<>>)
    /\ UNCHANGED <<cat, placed, joined>>

\* The candidates, and the answer.
AnswerCategories(t, o) ==
    /\ o.do = "candidates"
    /\ AnswerWith(backfill_orphaned_channels(o.x.order, o.x.got, UNION Range(o.x.got)))
    /\ Continue(t, <<>>)
    /\ UNCHANGED <<cat, placed, joined>>

-----------------------------------------------------------------------------
(* Changing. *)

NextPos == LET rows == {c \in Categories : CategoryExists(c)} IN IF rows = {} THEN 0 ELSE 1 + Max({cat[c].pos : c \in rows})

\* MAX(sort_order) + 1, deleted rows included, is read before the INSERT.
create_category_internal(t, kind) ==
    /\ ~Doing({"insert_category"}) \/ Cardinality({c \in Categories : ~CategoryExists(c)}) > 1   \* bound: ids
    /\ \E c \in Categories : ~CategoryExists(c)
    /\ Begin(t, <<Stmt("insert_category", CategoryRow(kind, NextPos))>>)
    /\ UNCHANGED SidebarVars
InsertCategory(t, o) ==
    /\ o.do = "insert_category"
    /\ \E c \in Categories :
          /\ ~CategoryExists(c) /\ c = CHOOSE d \in Categories : ~CategoryExists(d)
          /\ cat' = [cat EXCEPT ![c] = o.x]
    /\ Continue(t, <<>>)
    /\ UNCHANGED <<placed, joined, sidebar>>

MappingsWithout(S) == {p \in placed : p[1] \notin S}

\* One transaction for all the categories of the request, which need not be live; a channel cannot be
\* placed in a category without a row.
update_categories_internal(f) ==
    /\ \A c \in DOMAIN f : f[c] = {} \/ CategoryExists(c)
    /\ placed' = MappingsWithout(DOMAIN f) \cup UNION {{c} \X f[c] : c \in DOMAIN f}
    /\ Statement
    /\ UNCHANGED <<cat, joined, sidebar>>

\* One transaction: the position of each category named.
update_category_order_internal(f) ==
    /\ cat' = [c \in Categories |-> IF c \in DOMAIN f /\ CategoryExists(c) THEN [cat[c] EXCEPT !.pos = f[c]] ELSE cat[c]]
    /\ Statement
    /\ UNCHANGED <<placed, joined, sidebar>>

\* The row, then the old mappings, then the new ones: a statement each (categories.rs).
update_category(t, c, chans) ==
    /\ LiveCategory(c)
    /\ Begin(t, <<Stmt("clear", c), Stmt("place", [c |-> c, chans |-> chans])>>)
    /\ UNCHANGED SidebarVars
ClearCategory(t, o) ==
    /\ o.do = "clear"
    /\ placed' = MappingsWithout({o.x})
    /\ Continue(t, <<>>)
    /\ UNCHANGED <<cat, joined, sidebar>>
\* A mapping that exists already is an error.
PlaceChannel(t, o) ==
    /\ o.do = "place"
    /\ IF o.x.chans = {} THEN Continue(t, <<>>) /\ UNCHANGED placed
       ELSE \E ch \in o.x.chans :
              IF <<o.x.c, ch>> \in placed THEN GiveUp(t) /\ UNCHANGED placed
              ELSE /\ placed' = placed \cup {<<o.x.c, ch>>}
                   /\ Continue(t, <<Stmt("place", [o.x EXCEPT !.chans = @ \ {ch}])>>)
    /\ UNCHANGED <<cat, joined, sidebar>>

\* The default categories stay.  The default one found, the mappings move there, and the row goes.
delete_category(t, c) ==
    /\ LiveCategory(c)
    /\ cat[c].kind \notin {"channels", "direct_messages"}
    /\ LET to == {d \in LiveCategories : cat[d].kind = "channels"}
       IN  \E d \in IF to = {} THEN {None} ELSE to :
             Begin(t, <<IF d = None THEN Stmt("clear", c) ELSE Stmt("move", <<c, d>>), Stmt("soft_delete", c)>>)
    /\ UNCHANGED SidebarVars
\* UPDATE ... SET category_id: an error if the default category has one of the channels already.
MoveMappings(t, o) ==
    /\ o.do = "move"
    /\ LET from == o.x[1] to == o.x[2]
       IN  IF Placed(from) \cap Placed(to) # {} THEN GiveUp(t) /\ UNCHANGED placed
           ELSE /\ placed' = MappingsWithout({from}) \cup ({to} \X Placed(from))
                /\ Continue(t, <<>>)
    /\ UNCHANGED <<cat, joined, sidebar>>
SoftDelete(t, o) ==
    /\ o.do = "soft_delete"
    /\ cat' = [cat EXCEPT ![o.x].live = FALSE]
    /\ Continue(t, <<>>)
    /\ UNCHANGED <<placed, joined, sidebar>>

\* The user joins or leaves a channel, or it is archived or restored; the mappings stay.
MembershipChanges(ch) ==
    /\ joined' = IF ch \in joined THEN joined \ {ch} ELSE joined \cup {ch}
    /\ Statement
    /\ UNCHANGED <<cat, placed, sidebar>>

SidebarRequest(t) ==
    \/ get_categories_internal(t)
    \/ \E kind \in CategoryKinds : create_category_internal(t, kind)
    \/ \E c \in Categories : \/ delete_category(t, c)
                             \/ \E chans \in SUBSET SidebarChannels : update_category(t, c, chans)
    \/ \E S \in SUBSET Categories \ {{}} : \/ \E f \in [S -> SUBSET SidebarChannels] : update_categories_internal(f)
                                           \/ \E f \in [S -> 0..1] : update_category_order_internal(f)
    \/ \E ch \in SidebarChannels : MembershipChanges(ch)

SidebarStep(t, o) ==
    \/ ReadMappings(t, o) \/ AnswerCategories(t, o)
    \/ InsertCategory(t, o) \/ ClearCategory(t, o) \/ PlaceChannel(t, o) \/ MoveMappings(t, o) \/ SoftDelete(t, o)

SidebarNext ==
    \/ /\ events < MaxEvents
       /\ \E t \in Tasks : SidebarRequest(t) \/ (Interrupted(t) /\ UNCHANGED SidebarVars)
    \/ \E t \in Tasks : Busy(t) /\ SidebarStep(t, Head(task[t]))

-----------------------------------------------------------------------------
(* Properties. *)

\* "So the mobile sidebar never renders empty due to stale mappings" (user_sidebar_categories.rs): the
\* sidebar shows every channel of the user, whatever the other devices do to the categories while it is
\* read: mappings to deleted categories, moved between two reads or cleared by an update cut short.
SidebarShowsAll == sidebar.candidates \subseteq sidebar.shows

=============================================================================
