----------------------------- MODULE Playbooks -----------------------------
(***************************************************************************)
(* Playbooks and their runs: api/playbooks.rs.                             *)
(*                                                                         *)
(* A playbook has checklists, a checklist has tasks, and a run has a row   *)
(* for each task the playbook had when the run started.  Starting a run is *)
(* up to four statements without a transaction.  Names, descriptions and   *)
(* the team's other members are left out: whoever asks may use the         *)
(* playbook (ensure_playbook_access).                                      *)
(***************************************************************************)
EXTENDS Requests, FiniteSets

CONSTANTS
    Checklists, PlaybookTasks, Runs,
    People   \* users, who start and own runs

VARIABLES
    playbook,    \* the row: whether it is archived, and whether a run gets a channel
    checklist,   \* playbook_checklists that exist
    item,        \* playbook_tasks: id -> checklist, None: no row
    run,         \* playbook_runs: id -> row, with who started it (channels.creator_id); None: no row
    runTask,     \* run_tasks: run -> task -> row, for the tasks the run has
    runChannel,  \* channels made for runs: run -> members, None: no channel
    updates,     \* run_status_updates: run -> how many
    started      \* history: run -> the tasks it started with, None: it has none yet

PlaybookVars == <<playbook, checklist, item, run, runTask, runChannel, updates, started>>

RunStatuses == {"in_progress", "finished"}
TaskStatuses == {"pending", "in_progress", "done", "skipped"}

PlaybooksInit ==
    /\ playbook \in [archived : {FALSE}, channel : BOOLEAN]
    /\ LET c == CHOOSE y \in Checklists : TRUE
           x == CHOOSE y \in PlaybookTasks : TRUE IN
       checklist = {c} /\ item = [y \in PlaybookTasks |-> IF y = x THEN c ELSE None]
    /\ run = [r \in Runs |-> None] /\ runTask = [r \in Runs |-> <<>>]
    /\ runChannel = [r \in Runs |-> None] /\ updates = [r \in Runs |-> 0]
    /\ started = [r \in Runs |-> None]

RunExists(r) == run[r] # None
\* run_tasks.task_id refers to playbook_tasks without ON DELETE: a task some run has cannot be deleted.
Used(x) == \E r \in Runs : x \in DOMAIN runTask[r]
TasksOf(c) == {x \in PlaybookTasks : item[x] = c}

-----------------------------------------------------------------------------
(* The playbook. *)

update_playbook(channel) ==
    /\ playbook' = [playbook EXCEPT !.channel = channel]
    /\ Statement
    /\ UNCHANGED <<checklist, item, run, runTask, runChannel, updates, started>>
\* Archived, never deleted.
delete_playbook ==
    /\ playbook' = [playbook EXCEPT !.archived = TRUE]
    /\ Statement
    /\ UNCHANGED <<checklist, item, run, runTask, runChannel, updates, started>>

create_checklist(c) ==
    /\ c \notin checklist
    /\ checklist' = checklist \cup {c}
    /\ Statement
    /\ UNCHANGED <<playbook, item, run, runTask, runChannel, updates, started>>

WithoutTasks(S) == item' = [x \in PlaybookTasks |-> IF x \in S THEN None ELSE item[x]]

\* The rows of runs go with the tasks.
delete_checklist_cascading(c) ==
    /\ c \in checklist
    /\ checklist' = checklist \ {c}
    /\ WithoutTasks(TasksOf(c))
    /\ runTask' = [r \in Runs |-> [x \in DOMAIN runTask[r] \ TasksOf(c) |-> runTask[r][x]]]
    /\ Statement
    /\ UNCHANGED <<playbook, run, runChannel, updates, started>>

\* Its tasks go with it, unless a run has one of them: then the statement fails.
delete_checklist(c) ==
    /\ c \in checklist /\ \A x \in TasksOf(c) : ~Used(x)
    /\ checklist' = checklist \ {c}
    /\ WithoutTasks(TasksOf(c))
    /\ Statement
    /\ UNCHANGED <<playbook, run, runTask, runChannel, updates, started>>

\* The checklist's playbook is read, then the row is inserted, if the checklist is still there.
create_task(t, c, x) ==
    /\ c \in checklist /\ item[x] = None /\ ~Doing({"insert_task"})
    /\ Begin(t, <<Stmt("insert_task", [r |-> None, item |-> x, list |-> c])>>)
    /\ UNCHANGED PlaybookVars
InsertTask(t, o) ==
    /\ o.do = "insert_task"
    /\ IF o.x.list \in checklist THEN item' = [item EXCEPT ![o.x.item] = o.x.list] /\ Continue(t, <<>>)
       ELSE GiveUp(t) /\ UNCHANGED item
    /\ UNCHANGED <<playbook, checklist, run, runTask, runChannel, updates, started>>
delete_task(x) ==
    /\ item[x] # None /\ ~Used(x)
    /\ WithoutTasks({x})
    /\ Statement
    /\ UNCHANGED <<playbook, checklist, run, runTask, runChannel, updates, started>>

-----------------------------------------------------------------------------
(* Runs. *)

FreshRun == {r \in Runs : ~RunExists(r) /\ runChannel[r] = None
                          /\ \A t \in Tasks : \A i \in 1..Len(task[t]) : task[t][i].x.r # r}

\* A channel if the playbook wants one and the request names none, the caller's membership, the run, its
\* tasks: a statement each.  The run's owner may be somebody else, whom the request names.
start_run(t, caller, owner, given) ==
    /\ \E r \in FreshRun :
          LET x == [r |-> r, caller |-> caller, owner |-> owner, made |-> playbook.channel /\ ~given]
          IN  Begin(t, (IF x.made THEN <<Stmt("run_channel", x), Stmt("run_member", x)>> ELSE <<>>)
                       \o <<Stmt("run", x), Stmt("run_tasks", x)>>)
    /\ UNCHANGED PlaybookVars

InsertRunChannel(t, o) ==
    /\ o.do = "run_channel"
    /\ runChannel' = [runChannel EXCEPT ![o.x.r] = {}]
    /\ Continue(t, <<>>)
    /\ UNCHANGED <<playbook, checklist, item, run, runTask, updates, started>>
InsertRunMember(t, o) ==
    /\ o.do = "run_member"
    /\ runChannel' = [runChannel EXCEPT ![o.x.r] = @ \cup {o.x.caller}]
    /\ Continue(t, <<>>)
    /\ UNCHANGED <<playbook, checklist, item, run, runTask, updates, started>>
InsertRun(t, o) ==
    /\ o.do = "run"
    /\ run' = [run EXCEPT ![o.x.r] =
          [caller |-> o.x.caller, owner |-> o.x.owner, made |-> o.x.made, status |-> "in_progress", stamped |-> FALSE]]
    /\ Continue(t, <<>>)
    /\ UNCHANGED <<playbook, checklist, item, runTask, runChannel, updates, started>>
\* INSERT ... SELECT: the tasks of the playbook as they are now.
InsertRunTasks(t, o) ==
    /\ o.do = "run_tasks"
    /\ LET tasks == {x \in PlaybookTasks : item[x] # None}
       IN  /\ runTask' = [runTask EXCEPT ![o.x.r] = [x \in tasks |-> [status |-> "pending", completed |-> FALSE]]]
           /\ started' = [started EXCEPT ![o.x.r] = tasks]
    /\ Continue(t, <<>>)
    /\ UNCHANGED <<playbook, checklist, item, run, runChannel, updates>>

\* Any status, without the time of it.
update_run(r, status) ==
    /\ RunExists(r)
    /\ run' = [run EXCEPT ![r].status = status]
    /\ Statement
    /\ UNCHANGED <<playbook, checklist, item, runTask, runChannel, updates, started>>
finish_run(r) ==
    /\ RunExists(r)
    /\ run' = [run EXCEPT ![r].status = "finished", ![r].stamped = TRUE]
    /\ Statement
    /\ UNCHANGED <<playbook, checklist, item, runTask, runChannel, updates, started>>
\* COALESCE: the time of completion is set with "done" and never cleared.
update_run_task(r, x, status) ==
    /\ x \in DOMAIN runTask[r]
    /\ runTask' = [runTask EXCEPT ![r][x] = [status |-> status, completed |-> @.completed \/ status = "done"]]
    /\ Statement
    /\ UNCHANGED <<playbook, checklist, item, run, runChannel, updates, started>>
create_status_update(r) ==
    /\ RunExists(r)
    /\ updates' = [updates EXCEPT ![r] = @ + 1]
    /\ Statement
    /\ UNCHANGED <<playbook, checklist, item, run, runTask, runChannel, started>>

calculate_progress(r) ==
    LET among(S) == Cardinality({x \in DOMAIN runTask[r] : runTask[r][x].status \in S})
    IN  [total |-> Cardinality(DOMAIN runTask[r]), completed |-> among({"done"}),
         in_progress |-> among({"in_progress"}), pending |-> among({"pending"}), skipped |-> among({"skipped"})]

PlaybookRequest(t) ==
    \/ \E channel \in BOOLEAN : update_playbook(channel)
    \/ delete_playbook
    \/ \E c \in Checklists : create_checklist(c) \/ delete_checklist(c) \/ \E x \in PlaybookTasks : create_task(t, c, x)
    \/ \E x \in PlaybookTasks : delete_task(x)
    \/ \E caller, owner \in People, given \in BOOLEAN : start_run(t, caller, owner, given)
    \/ \E r \in Runs : \/ (\E status \in RunStatuses : update_run(r, status)) \/ finish_run(r) \/ create_status_update(r)
                       \/ \E x \in PlaybookTasks, status \in TaskStatuses : update_run_task(r, x, status)

PlaybookStep(t, o) ==
    \/ InsertTask(t, o) \/ InsertRunChannel(t, o) \/ InsertRunMember(t, o) \/ InsertRun(t, o) \/ InsertRunTasks(t, o)

PlaybooksNext ==
    \/ /\ events < MaxEvents
       /\ \E t \in Tasks : PlaybookRequest(t) \/ (Interrupted(t) /\ UNCHANGED PlaybookVars)
    \/ \E t \in Tasks : Busy(t) /\ PlaybookStep(t, Head(task[t]))

-----------------------------------------------------------------------------
(* Properties. *)

\* A run is whole: the channel made for it has whoever started it, wherever its start was cut short, and it keeps
\* every task it started with, whatever is done to the playbook and its checklists meanwhile; nothing
\* it tracks is a task that is gone.
RunIsWhole ==
    \A r \in Runs : RunExists(r) =>
        /\ run[r].made => run[r].caller \in runChannel[r]
        /\ started[r] # None => DOMAIN runTask[r] = started[r] /\ calculate_progress(r).total = Cardinality(started[r])
        /\ \A x \in DOMAIN runTask[r] : item[x] \in checklist

\* "Add creator/owner to channel" (playbooks.rs, start_run): the channel made for a run has the run's owner.
\* It has the caller only, and the request may name another owner.
OwnerInChannel == \A r \in Runs : RunExists(r) /\ run[r].made => run[r].owner \in runChannel[r]

=============================================================================
