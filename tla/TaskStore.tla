----------------------------- MODULE TaskStore -----------------------------
(***************************************************************************)
(* One task database behind one TaskRepo handle: the closures that api.rs  *)
(* runs on its Replica, what a sync may bring from other programs, and a   *)
(* Dart program that fetches a task, edits it and saves it.                *)
(*                                                                         *)
(* The handle's mutex makes each closure one step (RepoCache proves it),   *)
(* except import_tasks, which commits row by row and may be cut short.     *)
(***************************************************************************)
EXTENDS TaskOps, Naturals, FiniteSets, Sequences

CONSTANTS Ids,        \* task uuids
          Dtos,       \* the DTOs that programs write
          Maps,       \* the maps that programs write
          Foreign,    \* the tasks that other programs write and sync
          Files,      \* the import files: sequences of rows
          Edits,      \* what a Dart program does to a task it fetched
          MaxImports, \* bound: imports in a behaviour
          NoTask

\* A row of an import file: the uuid it names, if any, and its fields.
Row == [uuid : Ids \cup {Absent}, map : Map]

ASSUME TaskStoreAssumption ==
  /\ NoTask \notin Task /\ Absent \notin Ids
  /\ Dtos \subseteq Dto
  /\ Maps \subseteq Map
  /\ Foreign \subseteq Task
  /\ Files \subseteq Seq(Row)
  /\ Edits \subseteq {"nothing", "complete", "retag", "no_udas"}
  /\ MaxImports \in Nat

VARIABLES
  db,       \* db[u]: the task stored under u
  draft,    \* what a Dart program fetched: the uuid and the DTO it stands for
  rows,     \* the rows that the running import has yet to read
  import,   \* idle or running
  counts,   \* imported_count and failures.len() of the running import
  made,     \* <<u, v>>: v was created from a row with uuid u
  before,   \* the tasks there were when the import started
  imports   \* imports started so far

vars == <<db, draft, rows, import, counts, made, before, imports>>
importVars == <<rows, import, counts, made, before, imports>>

Present == {u \in Ids : db[u] # NoTask}

NoDraft == [id |-> Absent, dto |-> Absent]

TypeOK ==
  /\ db \in [Ids -> Task \cup {NoTask}]
  /\ draft \in [id : Ids, dto : Dto] \cup {NoDraft}
  /\ rows \in Seq(Row)
  /\ import \in {"idle", "running"}
  /\ counts \in [imported : Nat, failed : Nat]
  /\ made \subseteq Ids \X Ids
  /\ before \subseteq Ids
  /\ imports \in 0 .. MaxImports

Init ==
  /\ db = [u \in Ids |-> NoTask]
  /\ draft = NoDraft
  /\ rows = << >> /\ import = "idle" /\ counts = [imported |-> 0, failed |-> 0]
  /\ made = {} /\ before = {} /\ imports = 0

\* Uuid::new_v4 never repeats, and never meets a uuid of a file.
RowIds == {r.uuid : r \in UNION {{f[i] : i \in 1 .. Len(f)} : f \in Files}}
Fresh == {u \in Ids \ RowIds : u \notin Present}

Put(u, t) == db' = [db EXCEPT ![u] = t]

-----------------------------------------------------------------------------
(* Writing tasks.  A call that fails changes nothing and is not a step.    *)

WriteDto(u, d, t) ==
  /\ import = "idle"
  /\ ~DtoRejected(d)
  /\ Put(u, t)
  /\ UNCHANGED importVars

AddTaskDto(u, d) ==
  /\ u \in Fresh
  /\ WriteDto(u, d, CreateDto(d))
  /\ UNCHANGED draft

UpdateTaskDto(u, d) ==
  /\ u \in Present
  /\ WriteDto(u, d, ReplaceDto(db[u], d))
  /\ UNCHANGED draft

WriteOther(u, t) ==
  /\ import = "idle"
  /\ Put(u, t)
  /\ UNCHANGED <<draft, importVars>>

AddTask(u, m) ==
  /\ u \in Fresh /\ ~MapRejected(m)
  /\ WriteOther(u, ApplyMap(NewTask, m, FALSE))

UpdateTask(u, m) ==
  /\ u \in Present /\ ~MapRejected(m)
  /\ WriteOther(u, ApplyMap(db[u], m, TRUE))

\* Seeded defect of DeleteTask: the status is written as any other value.
DeleteByValue(u) ==
  /\ u \in Present
  /\ WriteOther(u, [db[u] EXCEPT !.status = "deleted"])

\* delete_task marks the task, and is content when there is none.
DeleteTask(u) ==
  /\ u \in Present
  /\ WriteOther(u, SetStatus(db[u], "deleted"))

\* A sync replaces, adds or removes a task as another program left it.
SyncBrings(u, t) == WriteOther(u, t)

-----------------------------------------------------------------------------
(* A Dart program: getTask, Task.copyWith, updateTask.                     *)

Fetch(u) ==
  /\ import = "idle"
  /\ u \in Present
  /\ draft' = [id |-> u, dto |-> DartDto(db[u])]
  /\ UNCHANGED <<db, importVars>>

\* Other calls may have come between the fetch and the save.
Save(e) ==
  /\ draft.id \in Present
  /\ LET d == Edited(draft.dto, e)
     IN  WriteDto(draft.id, d, ReplaceDto(db[draft.id], d))
  /\ draft' = NoDraft

-----------------------------------------------------------------------------
(* import_tasks: one commit per row under the handle's mutex.              *)

StartImport(f) ==
  /\ import = "idle" /\ imports < MaxImports
  /\ import' = "running" /\ imports' = imports + 1
  /\ rows' = f /\ counts' = [imported |-> 0, failed |-> 0]
  /\ before' = Present
  /\ UNCHANGED <<db, draft, made>>

ImportStep ==
  /\ import = "running" /\ rows # << >>
  /\ rows' = Tail(rows)
  /\ UNCHANGED <<draft, import, before, imports>>

\* "Skip if task already exists": under the uuid that the row names.
Skipped(r) == r.uuid \in Present

SkipRow ==
  /\ ImportStep
  /\ Skipped(Head(rows))
  /\ UNCHANGED <<db, counts, made>>

\* create_task_from_map allocates a uuid of its own.
ImportRow(u) ==
  /\ ImportStep
  /\ u \in Fresh
  /\ LET r == Head(rows)
     IN  /\ ~Skipped(r) /\ ~MapRejected(r.map)
         /\ Put(u, ApplyMap(NewTask, r.map, FALSE))
         /\ made' = IF r.uuid = Absent THEN made ELSE made \cup {<<r.uuid, u>>}
  /\ counts' = [counts EXCEPT !.imported = @ + 1]

\* Seeded defect of Failed: a row that fails is counted as imported too.
FailedCounted == [counts EXCEPT !.imported = @ + 1, !.failed = @ + 1]

Failed == [counts EXCEPT !.failed = @ + 1]

\* A row is refused, or its commit fails.
FailRow ==
  /\ ImportStep
  /\ ~Skipped(Head(rows))
  /\ counts' = Failed
  /\ UNCHANGED <<db, made>>

\* The import returns when it has read every row, or stops before: a storage
\* error in get_task, or the end of the process.  The rows read stay committed.
EndImport ==
  /\ import = "running"
  /\ import' = "idle" /\ rows' = << >>
  /\ counts' = [imported |-> 0, failed |-> 0]
  /\ before' = {}
  /\ UNCHANGED <<db, draft, made, imports>>

-----------------------------------------------------------------------------
Next ==
  \/ \E u \in Ids, d \in Dtos : AddTaskDto(u, d) \/ UpdateTaskDto(u, d)
  \/ \E u \in Ids, m \in Maps : AddTask(u, m) \/ UpdateTask(u, m)
  \/ \E u \in Ids : DeleteTask(u) \/ Fetch(u) \/ ImportRow(u)
  \/ \E u \in Ids, t \in Foreign \cup {NoTask} : SyncBrings(u, t)
  \/ \E e \in Edits : Save(e)
  \/ \E f \in Files : StartImport(f)
  \/ SkipRow \/ FailRow \/ EndImport

Spec == Init /\ [][Next]_vars

-----------------------------------------------------------------------------
(* Properties.                                                             *)

\* replace_dto_on_update against task_to_dto: a program that writes back the
\* DTO it has just read changes nothing it can read, whatever wrote the task;
\* or the write is refused (a `scheduled` that Taskwarrior wrote).
ViewStable ==
  \A u \in Present :
    LET d == DtoOf(db[u])
    IN  DtoRejected(d) \/ DtoOf(ReplaceDto(db[u], d)) = d

\* The same for the way through task_to_map, TaskParser and TaskParams: saving
\* a Task as it was fetched leaves the Task as the Dart program sees it.
DartViewStable ==
  \A u \in Present :
    LET d == DartDto(db[u])
    IN  DtoRejected(d) \/ DartDto(ReplaceDto(db[u], d)) = d

\* add_task_dto and update_task_dto against get_all_tasks_dtos: what was
\* written is read back, but for "" in a timestamp, for annotations and an entry
\* date that were not given, and for the UDAs of other names.
WriteIsRead ==
  [][\A u \in Ids, d \in Dtos : AddTaskDto(u, d) \/ UpdateTaskDto(u, d) =>
       LET t == DtoOf(db'[u])
       IN  /\ t.status = d.status /\ t.tags = d.tags /\ t.scheduled = d.scheduled
           /\ d.end # "empty" => t.end = d.end
           /\ d.due # "empty" => t.due = d.due
           /\ d.wait # "empty" => t.wait = d.wait
           /\ d.entry \notin {"none", "empty"} => t.entry = d.entry
           /\ d.annotations # Absent => t.annotations = d.annotations
           /\ d.udas \subseteq t.udas]_vars

\* apply_promoted_fields stores `scheduled` as it was given: a malformed one in
\* the database came with a sync, never through this program's writes.
StampsValidated ==
  \A u \in Present :
    Malformed(db[u].scheduled) => \E t \in Foreign : t.scheduled = db[u].scheduled

\* What is read of a stored task, and whether an `end` is stored that is not.
AsRead(t) ==
  IF t = NoTask THEN NoTask
  ELSE [DtoOf(t) EXCEPT !.end = IF t.end \in {"empty", "garbage"} THEN "garbage" ELSE @]

\* The maps of the rows of files.
RowMaps == {r.map : r \in UNION {{f[i] : i \in 1 .. Len(f)} : f \in Files}}

AllMaps == Maps \cup RowMaps
ForeignViews == {AsRead(t) : t \in Foreign}

View == INSTANCE TaskView WITH
  view    <- [u \in Ids |-> AsRead(db[u])],
  Maps    <- AllMaps,
  Brought <- ForeignViews

\* task_ops.rs against itself: by any chain of writes, imports and syncs, what
\* is read next follows from what is read now and the call, as TaskView says,
\* in whichever of its forms a value is stored.
ViewSpec == View!Spec

\* import_tasks: at every row, imported_count is the number of tasks that this
\* import has added, rows skipped and rows failed before it notwithstanding.
ImportReport ==
  import = "running" =>
    before \subseteq Present /\ counts.imported = Cardinality(Present \ before)

\* api.rs:590: "Skip if task already exists": a row is imported once, however
\* often its file is.
ImportOnce == \A a, b \in made : a[1] = b[1] => a = b

\* task_ops.rs:535-536: "normally `end` is derived from status changes
\* (`Task::set_status` sets/clears it on complete/delete/pending)".
CompletedHasEnd ==
  \A u \in Present : db[u].status \in {"completed", "deleted"} => db[u].end # "none"

\* taskchampion_client.dart:428-431: "All other fields represent the *new
\* complete state* [..] omitting a value clears it".
OmittedIsCleared ==
  [][\A e \in Edits : Save(e) =>
       DtoOf(db'[draft.id]).udas = Edited(draft.dto, e).udas]_vars
=============================================================================
