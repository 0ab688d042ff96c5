----------------------------- MODULE RepoCache -----------------------------
(***************************************************************************)
(* The process-wide cache of open databases (rust/src/repo.rs) and the FFI *)
(* calls that go through it (rust/src/api.rs).  A call looks its path up   *)
(* in the cache, opens the database when there is no entry, publishes the  *)
(* handle it opened, queues on the handle's tokio mutex, and runs a        *)
(* closure under it: one read for a get, a read and a commit for a set.    *)
(*                                                                         *)
(* Two handles over one path are two mutexes over one SQLite file: SQLite  *)
(* serialises their transactions, nothing serialises their closures.       *)
(***************************************************************************)
EXTENDS Sequences

CONSTANTS Callers,    \* threads of the FFI's worker pool
          Paths,      \* database directories
          Handles,    \* identities for TaskRepo objects
          Tags,       \* what a task's replaceable property is made of
          Warm,       \* the paths an earlier call has already opened
          MayClear,   \* may RepoCache::clear be called?
          NoHandle, NoCall

ASSUME RepoCacheAssumption ==
  /\ NoHandle \notin Handles
  /\ Warm \subseteq Paths
  /\ MayClear \in BOOLEAN

VARIABLES
  cache,      \* cache[p]: RepoCache.map, NoHandle where there is no entry
  waiters,    \* waiters[h]: the mutex of h, its holder first, then in FIFO order
  store,      \* store[p]: the tag set of the task kept in the database at p
  pc,         \* pc[c]: where the call of c is
  call,       \* call[c]: the request c is serving
  handle,     \* handle[c]: the Arc<TaskRepo> c holds
  snapshot,   \* snapshot[c]: what the closure of c has read
  outcome     \* outcome[c]: none, ok or err

vars == <<cache, waiters, store, pc, call, handle, snapshot, outcome>>

Calls == [path : Paths, op : {"get"}, tags : {{}}]
           \cup [path : Paths, op : {"set"}, tags : SUBSET Tags]

PcStates == {"idle", "lookup", "open", "publish", "lock", "queued", "modify",
             "leave", "done"}

\* The call has a TaskRepo to run its closure on.
Holding(c) == pc[c] \in {"publish", "lock", "queued", "modify", "leave"}

TypeOK ==
  /\ cache \in [Paths -> Handles \cup {NoHandle}]
  /\ waiters \in [Handles -> Seq(Callers)]
  /\ store \in [Paths -> SUBSET Tags]
  /\ pc \in [Callers -> PcStates]
  /\ call \in [Callers -> Calls \cup {NoCall}]
  /\ \A c \in Callers : pc[c] # "idle" => call[c] \in Calls
  /\ handle \in [Callers -> Handles \cup {NoHandle}]
  /\ \A c \in Callers : Holding(c) => handle[c] \in Handles
  /\ snapshot \in [Callers -> SUBSET Tags]
  /\ outcome \in [Callers -> {"none", "ok", "err"}]

Init ==
  /\ cache \in [Paths -> Handles \cup {NoHandle}]
  /\ \A p \in Paths : cache[p] # NoHandle <=> p \in Warm
  /\ \A p, q \in Warm : cache[p] = cache[q] => p = q
  /\ waiters = [h \in Handles |-> << >>]
  /\ store \in [Paths -> SUBSET Tags]
  /\ pc = [c \in Callers |-> "idle"]
  /\ call = [c \in Callers |-> NoCall]
  /\ handle = [c \in Callers |-> NoHandle]
  /\ snapshot = [c \in Callers |-> {}]
  /\ outcome = [c \in Callers |-> "none"]

-----------------------------------------------------------------------------
(* Looking a handle up, or opening one.                                    *)

\* A handle nobody holds: its Arc count is zero, the object is gone.
Dropped(h) ==
  /\ \A p \in Paths : cache[p] # h
  /\ \A c \in Callers : handle[c] # h

Invoke(c) ==
  /\ pc[c] = "idle"
  /\ \E r \in Calls : call' = [call EXCEPT ![c] = r]
  /\ pc' = [pc EXCEPT ![c] = "lookup"]
  /\ UNCHANGED <<cache, waiters, store, handle, snapshot, outcome>>

\* The fast path: under the map's lock, clone the entry's Arc if there is one.
Lookup(c) ==
  /\ pc[c] = "lookup"
  /\ handle' = [handle EXCEPT ![c] = cache[call[c].path]]
  /\ pc' = [pc EXCEPT ![c] = IF cache[call[c].path] = NoHandle THEN "open" ELSE "lock"]
  /\ UNCHANGED <<cache, waiters, store, call, snapshot, outcome>>

\* The slow path: the open is awaited with no lock held.
Open(c) ==
  /\ pc[c] = "open"
  /\ \E h \in Handles :
       /\ Dropped(h)
       /\ handle' = [handle EXCEPT ![c] = h]
  /\ pc' = [pc EXCEPT ![c] = "publish"]
  /\ UNCHANGED <<cache, waiters, store, call, snapshot, outcome>>

\* Seeded defect of OpenFails: the error of the open is not propagated.
OpenErrorSwallowed(c) ==
  /\ pc[c] = "open"
  /\ outcome' = [outcome EXCEPT ![c] = "err"]
  /\ pc' = [pc EXCEPT ![c] = "publish"]
  /\ UNCHANGED <<cache, waiters, store, call, handle, snapshot>>

OpenFails(c) ==
  /\ pc[c] = "open"
  /\ outcome' = [outcome EXCEPT ![c] = "err"]
  /\ pc' = [pc EXCEPT ![c] = "done"]
  /\ UNCHANGED <<cache, waiters, store, call, handle, snapshot>>

\* Seeded defects of OrInsert.
InsertOverwrites(p, h) == h
InsertSkipped(p, h) == cache[p]

\* map.entry(path).or_insert(handle): an entry already there is kept.
OrInsert(p, h) == IF cache[p] = NoHandle THEN h ELSE cache[p]

\* The caller goes on with the handle it opened, whether its insert won or lost.
Publish(c) ==
  /\ pc[c] = "publish"
  /\ LET p == call[c].path IN cache' = [cache EXCEPT ![p] = OrInsert(p, handle[c])]
  /\ pc' = [pc EXCEPT ![c] = "lock"]
  /\ UNCHANGED <<waiters, store, call, handle, snapshot, outcome>>

Clear ==
  /\ MayClear
  /\ cache' = [p \in Paths |-> NoHandle]
  /\ UNCHANGED <<waiters, store, pc, call, handle, snapshot, outcome>>

-----------------------------------------------------------------------------
(* TaskRepo::with_replica: the closure runs under the handle's mutex.      *)

Enqueue(c) ==
  /\ pc[c] = "lock"
  /\ waiters' = [waiters EXCEPT ![handle[c]] = Append(@, c)]
  /\ pc' = [pc EXCEPT ![c] = "queued"]
  /\ UNCHANGED <<cache, store, call, handle, snapshot, outcome>>

\* Seeded defect of HasLock: the closure does not wait for the mutex.
RunsUnlocked(c) == pc[c] = "queued"

HasLock(c) == pc[c] = "queued" /\ Head(waiters[handle[c]]) = c

Get(c) ==
  /\ HasLock(c)
  /\ call[c].op = "get"
  /\ snapshot' = [snapshot EXCEPT ![c] = store[call[c].path]]
  /\ outcome' = [outcome EXCEPT ![c] = "ok"]
  /\ pc' = [pc EXCEPT ![c] = "leave"]
  /\ UNCHANGED <<cache, waiters, store, call, handle>>

ReadForUpdate(c) ==
  /\ HasLock(c)
  /\ call[c].op = "set"
  /\ snapshot' = [snapshot EXCEPT ![c] = store[call[c].path]]
  /\ pc' = [pc EXCEPT ![c] = "modify"]
  /\ UNCHANGED <<cache, waiters, store, call, handle, outcome>>

\* Seeded defect of Written: the tags read are not removed first.
TagsOnlyAdded(c) == store[call[c].path] \cup call[c].tags

\* The operations remove each tag that was read and add each tag requested.
Written(c) == (store[call[c].path] \ snapshot[c]) \cup call[c].tags

Commit(c) ==
  /\ pc[c] = "modify"
  /\ store' = [store EXCEPT ![call[c].path] = Written(c)]
  /\ outcome' = [outcome EXCEPT ![c] = "ok"]
  /\ pc' = [pc EXCEPT ![c] = "leave"]
  /\ UNCHANGED <<cache, waiters, call, handle, snapshot>>

\* A `?` before the commit: an unreadable or missing task, a malformed
\* property, a storage error.  The operations gathered so far are dropped.
CloseWithError(c) ==
  /\ HasLock(c) \/ pc[c] = "modify"
  /\ outcome' = [outcome EXCEPT ![c] = "err"]
  /\ pc' = [pc EXCEPT ![c] = "leave"]
  /\ UNCHANGED <<cache, waiters, store, call, handle, snapshot>>

\* Seeded defect of Unlocked: the guard outlives a closure that failed.
KeptOnError(c) == IF outcome[c] = "err" THEN waiters[handle[c]] ELSE Tail(waiters[handle[c]])

Unlocked(c) == Tail(waiters[handle[c]])

\* The mutex guard and the Arc go out of scope.
Leave(c) ==
  /\ pc[c] = "leave"
  /\ waiters' = [waiters EXCEPT ![handle[c]] = Unlocked(c)]
  /\ handle' = [handle EXCEPT ![c] = NoHandle]
  /\ pc' = [pc EXCEPT ![c] = "done"]
  /\ UNCHANGED <<cache, store, call, snapshot, outcome>>

Return(c) ==
  /\ pc[c] = "done"
  /\ pc' = [pc EXCEPT ![c] = "idle"]
  /\ call' = [call EXCEPT ![c] = NoCall]
  /\ snapshot' = [snapshot EXCEPT ![c] = {}]
  /\ outcome' = [outcome EXCEPT ![c] = "none"]
  /\ UNCHANGED <<cache, waiters, store, handle>>

-----------------------------------------------------------------------------
\* A call under way: every step of it but the invocation.
Progress(c) ==
  \/ Lookup(c) \/ Open(c) \/ OpenFails(c) \/ Publish(c)
  \/ Enqueue(c) \/ Get(c) \/ ReadForUpdate(c) \/ Commit(c) \/ CloseWithError(c)
  \/ Leave(c) \/ Return(c)

Next == Clear \/ \E c \in Callers : Invoke(c) \/ Progress(c)

Spec == Init /\ [][Next]_vars

\* A thread that has entered the FFI runs on: block_on polls it to the end.
\* Nobody is obliged to call.
Fairness == \A c \in Callers : WF_vars(Progress(c))

FairSpec == Spec /\ Fairness

-----------------------------------------------------------------------------
(* Properties.                                                             *)

InClosure(c) == pc[c] \in {"modify", "leave"}

\* TaskRepo::with_replica: two closures never run on one Replica at a time,
\* whatever mix of calls, failed opens, failed closures and clears led here.
HandleExclusive ==
  \A c, d \in Callers : InClosure(c) /\ InClosure(d) /\ handle[c] = handle[d] => c = d

\* RepoCache::get_or_open: a published entry is never replaced; only clear
\* removes it.  Were it replaced, callers of the old and of the new entry
\* would go on holding two mutexes over one database for good.
EntryKept ==
  [][\A p \in Paths : cache[p] # NoHandle => cache'[p] \in {cache[p], NoHandle}]_cache

\* RepoCache::get_or_open: however many callers raced for a new path, they end
\* up sharing one handle for it.  (Holds while clear is not called.)
HandlesConverge ==
  <>[](\A c, d \in Callers :
         /\ handle[c] # NoHandle /\ handle[d] # NoHandle
         /\ call[c].path = call[d].path
         => handle[c] = handle[d])

\* block_on(with_replica(..)): every call returns, also those queued behind a
\* closure that failed: the mutex is FIFO and every exit of a closure frees it.
CallsReturn == \A c \in Callers : pc[c] = "lookup" ~> pc[c] = "idle"

\* RepoCache::get_or_open drops the loser of a race only when its call ends: until
\* then it works on a second mutex over the same database, but no other caller
\* ever gets that handle.  (Holds while clear is not called.)
LoserPrivate ==
  \A c, d \in Callers :
    c # d /\ handle[c] = handle[d] /\ handle[c] # NoHandle => cache[call[c].path] = handle[c]

PhaseOf(c) == IF pc[c] = "idle" THEN "idle"
              ELSE IF outcome[c] = "none" THEN "pending" ELSE "done"

SeenBy(c) == IF outcome[c] = "ok" /\ call[c].op = "get" THEN snapshot[c] ELSE {}

Serial == INSTANCE SerialStore WITH
  phase <- [c \in Callers |-> PhaseOf(c)],
  seen  <- [c \in Callers |-> SeenBy(c)]

\* Once every path is open, the calls on it take effect one at a time, each at
\* one instant between its invocation and its return: get_or_open and
\* with_replica together implement the abstract store.
SerialSpec == Serial!Spec
=============================================================================
