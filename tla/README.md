# TLA+ models of taskchampion_client_rust

The repository is a Flutter/Dart client for TaskChampion: Dart classes
(`lib/src`), a Rust backend reached through flutter_rust_bridge (`rust/src`),
and below it the `taskchampion` crate with its SQLite storage and sync protocol.
This directory holds models of the parts that keep state or convert it, the TLC
configurations that check them, and TLAPS proofs. Line numbers are those of the
sources the modules were written from; `PROJECT.json` maps each definition to its lines.

## The system

| Part | State | Operations | Talks to |
|---|---|---|---|
| Handle cache (`rust/src/repo.rs`, `runtime.rs`, `storage.rs`) | one map path → `Arc<TaskRepo>` per process; a tokio mutex and a `Replica` in each handle | `get_or_open`, `clear`, `with_replica` | called by every function of `api.rs`, from the worker threads of the FFI |
| Task operations (`api.rs`, `task_ops.rs`, `models.rs`) | the stored tasks | add, update, delete, by string map and by `TaskDto`; import; reads as map and DTO | closures under `with_replica`; the crate's `Task` setters |
| Sync with statistics (`api.rs:360`, `sync_stats.rs`) | per call: first snapshot, counter of versions | `sync_with_server`, `sync_with_stats`, `CountingServer`, `compute_task_diff` | `Replica::sync`, the server, other devices |
| Dart client (`taskchampion_client.dart`, `client/`) | connection flag, debounce timer, two broadcast streams | connect, disconnect, create/update/delete/import, sync, dispose; timer and listener callbacks | services below it, listeners above it |
| Services (`services/`) | none of their own | write then read back; translate failures; compare credentials | the FFI |
| Models and conversions (`models/`) | immutable values | `TaskParser`, `TaskParams.fromTask`, `toTaskDto`, `copyWith` | between services and the FFI |
| Filter, sort, virtual tags (`filter.rs`, `filter/`, `virtual_tags.rs`) | none | evaluate, compare, the pending-only fast path | read a replica |
| Property queries (`properties.rs`) | none | distinct values, typed values, tags | open a storage of their own, outside the cache |

Generated code (`frb_generated`, freezed, json), the build hook, the example
application, error types and one-line facades hold no behaviour of their own
and are not modelled.

### What is hard here

- **Concurrency.** FFI calls run on several threads. The map's lock is released
  while a database is opened, so callers race for a new path, and a caller that
  loses the race keeps a handle with a mutex of its own. An update reads a task,
  then commits operations computed from what it read.
- **Asynchrony in Dart.** Any number of calls are in flight; their replies come
  in any order around `disconnect`, `dispose` and the timer, and read state that
  has changed since the call was made. The streams are asynchronous broadcast streams:
  a listener hears of a change after the code that awaited the call has gone on.
- **Two formats, four paths.** The same task is written as a string map, a DTO,
  a Dart object and by other programs through a sync. Timestamps are stored in
  two forms, and `end` is written both by the status and by its own field.
- **Partial failure.** An import commits row by row. A sync fails after the server
  has accepted its version. A write succeeds and the read-back fails.
- **Time.** A debounce timer that changes push back, and that outlives a disconnect.
  A query reads the clock anew for every task and leaf, so that midnight may pass inside it.
- **Many readers of one task.** Filters, virtual tags, sort keys, value lists,
  statistics and exports each read the stored task in their own way.

What makes each part correct: closures on one database exclude each other and
take effect at one instant; a published handle is never replaced and every call
returns; what was read can be written back and what was written is read; no
malformed value gets in; an import reports what it did; a sync reports what it,
and nobody else, did; after `dispose` nothing is synced behind the program's back, and a
change that was heard of while connected is eventually synced; an event is never older than the write it
announces; and all that reads tasks agrees on what it reads.

## Modules

| Module | Models | Runs |
|---|---|---|
| `SerialStore` | the abstract store: a call takes effect at one instant between its invocation and its return | `cache_serial` |
| `RepoCache` (`MCRepoCache`) | the handle cache, the mutexes, calls that read or read-then-write | `cache_race`, `cache_live`, `cache_serial` |
| `TaskOps` | pure operators: apply a DTO or a map to a task, read it as either, the round trip through Dart | (used by `TaskStore`) |
| `TaskView` | the abstract store of tasks: what a reader of DTOs sees next, from what it saw and the call | `tasks` |
| `TaskStore` (`MCTaskStore`) | one database: all writers, a Dart program's fetch/edit/save, imports, syncs from outside | `tasks`, `tasks_import`, `tasks_end`, `tasks_omit` |
| `SyncStats` (`MCSyncStats`) | devices, their syncs through `CountingServer`, the server's chain and snapshot | `sync` |
| `Client` | flag, timer, the stream of changes, calls in flight | `client_auth` |
| `ClientStore` | `Client` composed with the services, the store and its syncs | `client` |
| `VirtualTags` | pure operators: virtual tags and the calendar | (used by `TaskQuery`) |
| `TaskQuery` | queries over the tasks of `TaskStore`: filters, the pending-only fast path, sort order | `query_dates` |
| `TaskLists` (`MCTaskQuery`) | what is made of many tasks: value and tag lists, sorted listings, statistics, backups | `query` |
| `RepoCacheProofs`, `TaskStoreProofs`, `SyncStatsProofs`, `ClientProofs`, `ClientStoreProofs`, `TaskQueryProofs` | theorems about the module each is named after | — |
| `TaskViewProofs` | that `TaskStore` implements `TaskView` | — |
| `FilterProofs` | theorems about `TaskQuery` and `TaskLists` that need induction over filters | — |

**RepoCache.** A call goes `Invoke` → `Lookup` (the fast path of `get_or_open`)
→ `Open`/`OpenFails` → `Publish` (`or_insert`; the caller keeps the handle it
opened) → `Enqueue` (the tokio mutex, a FIFO of waiters) → `Get`, or
`ReadForUpdate` and `Commit`, or `CloseWithError` → `Leave` → `Return`. `Clear` may
run at any time. A database is one set of tags per path: two closures that overlap
are told apart by whose tags survive. Handles are reused once nobody holds them
(an `Arc` with count zero). Lock poisoning is left out: nothing panics under the map's lock.

**TaskOps and TaskStore.** A timestamp is one of the five strings the code tells
apart (absent, empty, RFC 3339, unix seconds, anything else). `due`, `wait`, `entry`,
`scheduled` and `end` are fields of their own; `scheduled` also stands for `until`, tags for
dependencies (but a malformed dependency is passed over where a malformed tag is refused).
An attribute is a name with a text, one text under a name: `project` and `urgency` are two.
Each path has its own way with a field: a DTO's `entry` is set and never cleared, a map's
`entry`, `modified` and `end` are not read at all (`apply_task_data`), and `task_to_map` shows
the time of the call for an entry date that is not stored. Description, priority and recur are
written and read back as they are, `modified` is renewed by the library: these are left out. Each closure is one step because `RepoCache` shows
it is; an import is a step per row, and may stop at any row. `SyncBrings` puts in
a task as another program left it. `Task::set_status`, `create_task` and the
timestamp getters belong to the crate and are modelled from how `task_ops.rs` and its
tests use them.

**TaskView** is the store as its readers know it. `AsRead` turns a stored task into
the task that `task_to_dto` shows: the two forms of a date are one, a date nobody can
parse is none, a status that is missing or unknown is pending. `TaskView`'s calls are
functions of that: a status moves `end` along, a DTO replaces what it may, a map adds.
One thing stays that no reader sees: an `end` that is stored and malformed (`Hidden`),
which keeps a completion from writing a fresh one.

**SyncStats.** A sync is `Request` (the server is set up, no lock held) →
`Begin` (first snapshot, under the mutex) → `Pull`… → `PushAccepted`,
or `PushConflict` and back to pulling → `Finish`. `SyncFails` and `ReplyLost` roll
the replica back, `SecondSnapshotFails` does not. Which of two conflicting changes to one
task wins is nondeterministic. `Replica::sync` and the server are external: one storage
transaction, pull until there is no child version, push, retry on
`ExpectedParentVersion`, start an empty replica from the server's snapshot.

**Client.** Each turn of the isolate is a step: a call up to its first `await`, a
reply, a tick or the timer's callback. A reply adds its events to `pending`; each is delivered
by a step of its own (`Deliver`), in which the listener tests the flag. The event loop takes up the
next reply of the FFI, or the timer, only when none is left (`Quiet`), but the program's code
that awaited the call comes before: it may connect, disconnect, dispose or make
further calls in between. `dispose` closes the streams, which add nothing from then on and still
deliver what was added; it does not cancel the coordinator's subscription. An injected
`IAuthService` may answer from a microtask, so that a connect can succeed between `dispose` and the
last delivery (`revived`). `syncEvents` has no listener inside the client and is left out.
The debounce delay is counted in ticks.

**ClientStore.** Each call of `Client` that changes a task makes two requests, the
write and the read of what was written; the store serves each (`WriteServed`,
`WriteRefused`, `ReadServed`, `ReadFails`) at one instant (what `RepoCache` shows)
between request and reply. `SyncServed` and `SyncFails` serve a sync, which may pull
other devices' changes. Every step is a step of `Client` or leaves its variables
alone. A task is the number of times it was written; history variables record what
an event must not fall behind (`least`), which writes no sync has sent (`unsynced`),
which of them have an event on its way (`posted`), which asked for a sync (`asked`), and
which nothing will send by itself (`excused`). A purge
by another device is not a step of its own: `ReadFails` and `WriteRefused` may happen
to any task.

**VirtualTags, TaskQuery, TaskLists.** A query changes nothing, so it is an operator
asked of every state the writers of `TaskStore` reach (`WriteSpec`; imports and the Dart
program's edits write nothing that other writers do not). Filters come from `Filters`, a
set of expression trees that has the parts of each (`Parts`), none of infinite depth
(`Depth` falls from a filter to its parts: an expression is parsed from a finite text);
`Accepts` and `PendingOnly` are recursive functions over it. `Text` stands for the list, substring, word and pattern filters and their negations:
each tells which values match. The dates stored under a name are one hour, `Instant[p]`; a
calendar `Month` gives each day its month. `OVERDUE` and the calendar tags read the due date,
`READY` reads the wait date. Every leaf has a clock of its own: `Answer(f, now)` is the
query at one instant, `AnswerBy(f, clock)` one that time overtakes. A text
parses as a number, as NaN or as neither (`Number`), strings have an order (`Rank`), and the
text "" is a value to `PROJECT`, the sort and the value lists, and none to `none` and `any`. A sorted list is
any list that `sort_by` may return for the comparison. `Exported` and `Restored` are
a task's way through `export_tasks` and `import_tasks`.

## Runs

Passing runs:

- `cache_race`: three callers, one path nobody has opened, four handles, `clear` at any
  time. Three callers suffice for winner, loser and newcomer after a `clear`.
- `cache_live`: the same without `clear`, one weak-fairness condition per caller:
  after racing, all callers share one handle (`HandlesConverge`), and every call returns.
  Until its call ends the loser of the race works on a second mutex over the same database
  (`repo.rs:143` calls its handle "silently dropped"), but nobody else gets that handle
  (`LoserPrivate`). With `clear` that need not hold.
- `cache_serial`: the path is open from the start; `RepoCache` implements `SerialStore`
  under the mapping `phase`, `seen`.
- `tasks`: four DTOs (full; completed, with timestamps given as `""` and annotations left
  alone; two malformed), a map, two tasks of other programs (malformed dates and unix
  seconds; no status and an `end`), a file whose first row is refused and whose second
  becomes a task, one Dart program, two uuids. What was read can be written
  back (`ViewStable`, `DartViewStable`), what was written is read (`WriteIsRead`), and
  the store implements `TaskView` under `view[u] = AsRead(db[u])` (`ViewSpec`);
  malformed stamps come only with a sync (`StampsValidated`), an import counts the
  tasks it added (`ImportReport`).
- `sync`: two devices, two tasks, three local writes, two versions: enough for a
  conflict, a lost reply followed by one's own version, a purge on one side and an
  edit on the other, and an empty replica that starts from a snapshot.
- `client`: two calls in flight, four in all, two tasks, one file of two rows (so that two events
  are on their way at once), a delay of two ticks, pulls that may bring either task as a new one. Two calls are enough for
  replies to overtake one another, for a change to arrive while the timer's sync is in flight,
  and for a second sync to start beside the first; four starts for a connect, two changes and
  another call. An event is at least as new as the write it announces (`EventIsFresh`), an unsent write
  has a sync coming, an event on its way or a known excuse (`UnsyncedIsAccounted`), and the sync
  that was asked for runs after the write (`AskedIsSynced`). After `dispose` no sync starts
  by itself (`NoAutoSyncAfterDispose`), with the one exception named above: an event added before
  finds a client that connected after. Among the excuses is the wake-up that is lost when the program
  disconnects as soon as its call returns: the change was announced while connected, and
  the listener tests the flag too late.
- `query`: two tasks, in the forms that programs, other programs and deletions leave
  (malformed and unix-second stamps, no status, an unfamiliar status, a stale `end`, a tag
  spelled like a virtual tag, an empty project, urgencies and a NaN); leaves of each kind, groups
  one and two levels deep around status tests; six instants: the day the tasks were entered, either
  side of the midnight before they are due, past the next midnight when they no longer wait, a
  month and a year after; sort lists of one and two keys in either direction. It asks:
  - The fast path loses no match except a task stored without a status, which reads as
    pending and is not among `pending_tasks` (`AnswerComplete`); tasks that look alike
    are answered alike, an entry date that `task_to_map` made up excepted (`AlikeAnsweredAlike`).
  - Virtual tags agree with the filters they abbreviate, `READY` and `OVERDUE` with theirs,
    an empty project excepted (`VirtualTagsAgree`), and, as a
    calendar, with one another (`CalendarNests`). A query that time overtakes lies between
    the answers at its start and its end, if it asks for nothing but `DUE`, `OVERDUE` and
    `READY` (`AnswerBracketed`).
  - A sort by date keeps the tasks that show one apart from those that do not
    (`ShownDecides`); an urgency filter cuts a list that is sorted by urgency in two
    (`UrgencyCutsList`); a list by many keys is a list by the first, and reversed by the keys
    reversed (`ListingsRefine`). The last two hold as long as no urgency is NaN.
  - Listed values and tags are what filters find (`ListedIsFound`, `SeenTagsListed`), statistics
    count what filters answer (`StatsMatchFilters`), and a backup restores what was
    visible, but for the end, the statuses that maps lack, and the entry date, which is lost
    (`BackupRestores`).

  Two tasks suffice: each property speaks of one task, a pair, or a count.

Violations: each checks one sentence of the repository's own words that the code
does not live up to. `PROJECT.json` quotes the sentence under "findings".

- `client_auth`: with the built-in `AuthService` a well-formed client id never
  connects, because the string `"true"` is compared with the boolean.
- `tasks_import`: importing one file twice creates its task twice.
- `tasks_end`: saving a fetched pending task as completed leaves it without `end`.
- `tasks_omit`: saving a task without its project leaves the project stored.
- `query_dates`: a date filter made of a local `DateTime`, as in the README's
  examples, has no offset on the wire and accepts no task.

`CHECK_DEADLOCK FALSE` stands where the bounds on calls, writes or imports let a
behaviour end. The bounds are constants: `MaxStarts`, `MaxImports`, `MaxWrites`,
`MaxChain`, `MaxVersion` (how far pulls advance a task); `Calls` bounds calls in flight and
`Handles` handles alive.

### Fairness

`RepoCache`: `WF` of each caller's progress. A thread inside the FFI runs
`block_on` to the end, and the tokio mutex is FIFO. Nobody has to call, and
`Clear` is not fair. `ClientStore`: `WF` of each call's reply, of the delivery of events, and of
the clock with the timer's callback: the isolate runs its microtasks until none is left, and
its event loop then takes up what is due. The
program's own calls are not fair; each call's `WF` covers the service of its requests too. `AskedIsSynced` needs the program to make
finitely many calls, as a change every two seconds postpones the sync for ever: the
bound `MaxStarts` stands for that assumption.

## Proofs

All theorems hold for every value of the constants that the named assumptions allow.

**RepoCacheProofs.** `TypeCorrect`, `Exclusion` (two closures never run on one
handle), `EntryNeverReplaced`, `LosersKeepToThemselves` (without `clear`), and
`SerialWhenOpen` (with every path open and no `clear`, `RepoCache` implements `SerialStore`). Exclusion is not inductive: the
proof carries `LockInv`, that a queued caller is in its handle's queue and a
running one at its head. The refinement carries `WarmInv`: every call uses the
cached handle, and what an update has read is still what is stored. The loser's
privacy carries `PrivateInv`: a cached handle belongs to one path, and one that is
about to be published is not in the cache.

**TaskStoreProofs.** `ReadBackIsStable`, `DartReadBackIsStable` and `WrittenIsRead`
follow from the types and lemmas that give each field of what the
operators of `TaskOps` return. They hold for *any* task, so whatever a sync brings.
`StampsAreValidated` is inductive with the types. `ImportIsReported` adds that the
tasks an import has added are finitely many, without which a cardinality says nothing.
`AttributesOnlyGrow` says how far the finding of `tasks_omit` reaches: no call of this
program ever takes an attribute from a task, only a sync brings one without.

**TaskViewProofs.** `StoreImplementsView`: each operator that `TaskStore` applies to a stored
task (`SetStatus`, `ReplaceDto`, `CreateDto`, `ApplyMap`) commutes with `AsRead`,
its counterpart in `TaskView` applied to what was read; one lemma per operator
(`SetStatusShown`, `ReplaceDtoShown`, …), then one step per action. It needs the types and
one more invariant, `RowsFromFiles`: the rows an import has yet to do are rows of a file. The
lemmas hold for any task, so that whatever a sync brings is read, changed and
read again like the program's own.

**ClientProofs.** `TypeCorrect` and `DisposedIsNotSynced`, from `DisposedInv`: after
`dispose` the timer is off, and no event is on its way if the flag is up, unless a connect has
succeeded while one was. A late connect may set the flag again, so the timer stays off only
because a closed stream adds no event.
`BuiltInAuthSyncsNothing` says how far the finding of `client_auth` reaches: with the built-in
service the client never is connected, so no change arms the timer and no sync starts by itself.

**ClientStoreProofs.** `ClientImplemented`: the composition implements `Client`, so
that its theorems hold of the composition. `StoreTypeCorrect` carries `CallInv`: a call
holds versions only between its read and its reply. `EventsAreFresh` rests on `FreshInv`:
the store is never behind what was shown, carried or promised, and what is carried has
reached what was promised. `WritesAreAccounted` proves both halves of `UnsyncedIsAccounted`
inductive: what a call wrote passes from the call to `posted` and on to `asked` or `excused`; what
is posted has an event on its way; and while something is asked for, the timer runs or a sync has yet to read the store.

**SyncStatsProofs.** `VersionsAreExact`, `CountersBalance`, `OnlyRemoteIsReported`
rest on `SyncInv`: a running sync has counted as many versions as it has come
forward, its first snapshot is what a rollback would restore, and the tasks
differ from it only in keys received from other devices, unless it began with the
server's snapshot. The counters then follow by the cardinalities of disjoint sets.

**TaskQueryProofs.** `SortOrderIsStrict`, `SortOrderIsTotal` and `SortTiesAreAlike`
together say that `compare_tasks_multi` is a consistent order for lists of any
length over string, date and number keys, which `sort_by` relies on: an induction-free argument
over the first key that tells two tasks apart. The first and the third assume that no
task has a NaN under a key; `NaNGoesInCircles` says why they must: a NaN ties with
every number, and by urgency and project three tasks go in a circle.
`MissingDatesComeFirst` says where an ascending sort puts the tasks without a date: first, though the
comment at `filter/sort.rs:88-89` puts them after those that have one. `SortFollowsDates` follows
from it and the types of `TaskStore`.
`ListingsAreRefined` applies the first two to lists: a list by all keys respects every
prefix, because a task that is before another by a prefix is before it by the whole, and
reversing all keys exchanges before and after. `UrgencyCuts` is a case analysis on missing
values and numbers. `CalendarAgrees` needs of the calendar nothing but whole days,
weeks and months, and that a month is in one quarter and year. `BackupIsRead` follows from the
lemmas of `TaskStoreProofs` about what each map writes.

**FilterProofs.** What `Accepts` computes for a filter of any depth needs two things
first. `FilterInduction`: a set of filters that has every filter whose parts it has is all of
`Filters`; were there another, one of least depth would have all its parts in the set.
`Recursion`: an equation over filters that asks only for parts has a solution, so that
the recursive functions satisfy their own equations (`AcceptsByParts`, `PendingOnlyByParts`,
`RisingByParts`). On these rest `AnswerIsComplete` (a filter that the fast path takes for
pending-only accepts nothing but pending tasks, by induction), `AlikeAreAnsweredAlike` (every leaf
reads through the getters, every group through its parts) and `TornAnswersAreBracketed` (a
rising leaf, once true, stays true as the clock moves on, and groups of such leaves with it).
`VirtualTagsMatch`, `ListedValuesAreFound`, `SeenTagsAreListed` and `StatsAreAnswers` are about single
leaves; the last adds that the answers for the statuses partition the tasks, and counts.
`LocalDatesFindNothing` says how far the finding of `query_dates` reaches: no such date
filter accepts a task, nor does a conjunction with one.

Every invariant and action property of the passing runs is stated by a theorem. Only
model-checked: liveness (`HandlesConverge`, `CallsReturn`, `AskedIsSynced`), as the
prover has no reasoning about `ENABLED` and fairness; and the counterexamples of the five
runs that end in one, which show what the code does, not what it must.

## Not modelled, and next

Not modelled: the crate's operational transformation beyond which side of a
conflict wins; encryption and transport; SQLite; generated code; the user interface;
`get_snapshot`; the JSON shape of the filter that `getTags` and property-value queries
send, the tag pattern and the order of value lists; `priority` and its enum; the virtual tags
`ACTIVE`, `WAITING`, `PRIORITY` and those of dependencies, which rest on fields that
the task model does not keep apart; dependencies across an import, whose uuids it does not keep.
A property query opens a storage of its own, outside the handle cache; the models
let it see committed states only, which SQLite's transactions justify.
That a stale Dart task overwrites newer changes is in the model (`Save`) but no
property forbids it: the API's contract is that the last writer wins. An event may
show a task older than an earlier event did, if their calls overlapped; `EventIsFresh`
says how much older.

Disagreements between code and words that were met while modelling and have no run:

- Filters: `XorGroup` accepts when exactly one part does, the README says an odd number; `none` and
  `any` see no date or UDA, so `none(due)` accepts every task; around midnight a filter
  `YESTERDAY or TODAY` can miss a task that is due all along.
- Sorting: by `end` it does nothing; the comment at `filter/sort.rs:88-89` says that tasks
  without a value come after those with one, and ascending they come first (theorem
  `MissingDatesComeFirst`); NaN compares `Equal` with every number (theorem `NaNGoesInCircles`).
- Empty values: a project stored as `""` has the virtual tag `PROJECT`, is listed among the
  projects and found by `Equals`, and is none to `AnyFilter`.
- Dates: an import, or a write by map, ignores `entry`, `modified` and `end`, so that a restored
  task has lost the date it was entered; `task_to_map` then shows the time of the call instead,
  and the first save from Dart stores that as the entry date.
- Tags: `TAGGED` accepts every task, as the library counts its synthetic tags; a user's tag
  named like a virtual tag that the task has is missing from `getTags`.
- Value lists: `getTags` and property-value queries send a bare expression
  where `{"filter": …}` is parsed, and return nothing.
- Events: a sync that the debounce timer started completes with no event on `syncEvents`
  (`CHANGELOG.md:31` promises one on every completion), and if it failed is not tried again;
  `deleteTask` announces the task as it is after the deletion, the comment says before; if the
  read-back fails, `deleteTask` and `importTasks` return without an event (`CHANGELOG.md:30`);
  `importTasks` announces as many tasks as it imported, but takes any of those there are.
- Automatic syncs: a change made while connected is not synced if the program disconnects
  as soon as the call returns; a timer that is running is not stopped by `disconnect`; and a client
  that was disposed of may be woken by a connect that succeeds before the last event is delivered.

What could come next:

1. Composition of `RepoCache` and `SyncStats`: what a sync's snapshots observe
   when a second handle for the same database is alive. The instance is large, and the
   proofs about `SyncStats` would have to be redone for several replicas of one device.
2. The types and UDAs that `TaskParams` drops on the way through Dart; a connect that
   replies after a disconnect.
3. Convergence of devices that have synced: `SyncStats` leaves open which side of a
   conflict wins, so the crate's transformation would have to be modelled first.
