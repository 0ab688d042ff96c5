----------------------------- MODULE SyncStats -----------------------------
(***************************************************************************)
(* sync_with_server and its statistics (rust/src/api.rs, sync_stats.rs):   *)
(* devices that write tasks and sync them through one server.              *)
(*                                                                         *)
(* A device's sync runs under the mutex of its replica: it snapshots the   *)
(* tasks, lets Replica::sync pull and push through CountingServer, and     *)
(* diffs a second snapshot against the first.  Replica::sync and the       *)
(* server are the taskchampion crate's; the whole sync is one storage      *)
(* transaction, rolled back when it fails.                                 *)
(***************************************************************************)
EXTENDS Integers, FiniteSets, Sequences

CONSTANTS Devices,
          Keys,      \* task uuids
          Values,    \* stored tasks: <<content, modified>>
          Gone,      \* what a key without a task maps to
          MaxWrites, \* bound: local writes in a behaviour
          MaxChain   \* bound: versions on the server

ASSUME SyncStatsAssumption ==
  /\ Gone \notin Values
  /\ IsFiniteSet(Keys)
  /\ MaxWrites \in Nat /\ MaxChain \in Nat

VARIABLES
  chain,     \* the server's versions, each with its author
  snapshot,  \* the server's latest snapshot: a version and its tasks
  tasks,     \* tasks[d]: the tasks in the database of d
  base,      \* base[d]: the version that tasks[d] was last synced to
  pending,   \* pending[d]: the keys that d changed since
  phase,     \* phase[d]: where the sync call of d is
  undo,      \* undo[d]: what a rollback of d restores, while its sync runs
  before,    \* before[d]: the first snapshot of its last sync
  from,      \* from[d]: the version that pulling started at
  versions,  \* versions[d]: CountingServer.versions
  stats,     \* stats[d]: the result of the last sync of d, until it syncs again
  writes     \* local writes so far

vars == <<chain, snapshot, tasks, base, pending, phase, undo, before, from,
          versions, stats, writes>>
serverVars == <<chain, snapshot>>
replicaVars == <<tasks, base, pending>>
callVars == <<undo, before, from, versions>>

TaskMap == [Keys -> Values \cup {Gone}]
Empty == [k \in Keys |-> Gone]

\* What a version does to the tasks: its author, and the keys it writes.
Version == [by : Devices, keys : SUBSET Keys, data : TaskMap]

NoUndo == [tasks |-> Empty, base |-> 0, pending |-> {}]
Zero == [added |-> 0, updated |-> 0, deleted |-> 0, versions |-> 0]

TypeOK ==
  /\ chain \in Seq(Version) /\ Len(chain) <= MaxChain
  /\ snapshot \in [version : 0 .. Len(chain), tasks : TaskMap]
  /\ tasks \in [Devices -> TaskMap]
  /\ base \in [Devices -> 0 .. Len(chain)]
  /\ pending \in [Devices -> SUBSET Keys]
  /\ phase \in [Devices -> {"idle", "setup", "pull", "push", "after"}]
  /\ undo \in [Devices -> [tasks : TaskMap, base : 0 .. Len(chain), pending : SUBSET Keys]]
  /\ before \in [Devices -> TaskMap]
  /\ from \in [Devices -> 0 .. Len(chain)]
  /\ versions \in [Devices -> Nat]
  /\ stats \in [Devices -> [added : Nat, updated : Nat, deleted : Nat, versions : Nat]]
  /\ writes \in 0 .. MaxWrites

Init ==
  /\ chain = << >>
  /\ snapshot = [version |-> 0, tasks |-> Empty]
  /\ tasks = [d \in Devices |-> Empty]
  /\ base = [d \in Devices |-> 0]
  /\ pending = [d \in Devices |-> {}]
  /\ phase = [d \in Devices |-> "idle"]
  /\ undo = [d \in Devices |-> NoUndo]
  /\ before = [d \in Devices |-> Empty]
  /\ from = [d \in Devices |-> 0]
  /\ versions = [d \in Devices |-> 0]
  /\ stats = [d \in Devices |-> Zero]
  /\ writes = 0

-----------------------------------------------------------------------------
\* The values that live as long as a call of sync_with_stats.
Forget(d) ==
  /\ undo' = [undo EXCEPT ![d] = NoUndo]
  /\ from' = [from EXCEPT ![d] = 0]
  /\ versions' = [versions EXCEPT ![d] = 0]
  /\ UNCHANGED before

(* What happens around a sync.                                             *)

\* A sync holds the replica's mutex from its first snapshot to its second.
Locked(d) == phase[d] \in {"pull", "push", "after"}

\* A call of the program, or another one's, commits operations on one task.
Write(d, k, v) ==
  /\ ~Locked(d) /\ writes < MaxWrites
  /\ v # tasks[d][k]
  /\ tasks' = [tasks EXCEPT ![d][k] = v]
  /\ pending' = [pending EXCEPT ![d] = @ \cup {k}]
  /\ writes' = writes + 1
  /\ UNCHANGED <<serverVars, base, phase, callVars, stats>>

\* The server is set up before the replica is borrowed.
Request(d) ==
  /\ phase[d] = "idle"
  /\ phase' = [phase EXCEPT ![d] = "setup"]
  /\ stats' = [stats EXCEPT ![d] = Zero]
  /\ UNCHANGED <<serverVars, replicaVars, callVars, writes>>

-----------------------------------------------------------------------------
(* sync_with_stats.                                                        *)

SnapshotOf(d) == tasks[d]

\* Seeded defect of FirstSnapshot: the one of an earlier sync is used again.
SnapshotCached(d) == IF before[d] = Empty THEN SnapshotOf(d) ELSE before[d]

FirstSnapshot(d) == SnapshotOf(d)

\* Replica::sync starts an empty replica from the server's snapshot, which
\* does not pass through CountingServer as a version.
IsEmpty(d) == base[d] = 0 /\ pending[d] = {} /\ tasks[d] = Empty

Begin(d) ==
  /\ phase[d] = "setup"
  /\ phase' = [phase EXCEPT ![d] = "pull"]
  /\ before' = [before EXCEPT ![d] = FirstSnapshot(d)]
  /\ undo' = [undo EXCEPT ![d] = [tasks |-> tasks[d], base |-> base[d], pending |-> pending[d]]]
  /\ versions' = [versions EXCEPT ![d] = 0]
  /\ LET b == IF IsEmpty(d) THEN snapshot.version ELSE base[d]
     IN  /\ base' = [base EXCEPT ![d] = b]
         /\ from' = [from EXCEPT ![d] = b]
  /\ tasks' = [tasks EXCEPT ![d] = IF IsEmpty(d) THEN snapshot.tasks ELSE @]
  /\ UNCHANGED <<serverVars, pending, stats, writes>>

\* CountingServer::get_child_version counts the versions it is given.
Counted(d) == [versions EXCEPT ![d] = @ + 1]

\* A version is applied to the keys of `wins`; the other keys that d changed
\* too keep the change of d.  One's own version, pushed by a sync that failed
\* to hear of it, changes nothing, and what it already holds is not pushed again.
Pull(d) ==
  /\ phase[d] = "pull" /\ base[d] < Len(chain)
  /\ LET v == chain[base[d] + 1]
     IN  \E wins \in SUBSET (v.keys \cap pending[d]) :
           LET applied == IF v.by = d THEN {} ELSE (v.keys \ pending[d]) \cup wins
           IN  /\ v.by = d => wins = {k \in v.keys \cap pending[d] : v.data[k] = tasks[d][k]}
               /\ tasks' = [tasks EXCEPT ![d] =
                              [k \in Keys |-> IF k \in applied THEN v.data[k] ELSE @[k]]]
               /\ pending' = [pending EXCEPT ![d] = @ \ wins]
  /\ base' = [base EXCEPT ![d] = @ + 1]
  /\ versions' = Counted(d)
  /\ UNCHANGED <<serverVars, phase, undo, before, from, stats, writes>>

PullNone(d) ==
  /\ phase[d] = "pull" /\ base[d] = Len(chain)
  /\ phase' = [phase EXCEPT ![d] = IF pending[d] = {} THEN "after" ELSE "push"]
  /\ UNCHANGED <<serverVars, replicaVars, callVars, stats, writes>>

\* The server takes a version whose parent is the last one it has.
Accepts(d) ==
  /\ phase[d] = "push" /\ base[d] = Len(chain) /\ Len(chain) < MaxChain
  /\ chain' = Append(chain, [by |-> d, keys |-> pending[d], data |-> tasks[d]])
  /\ UNCHANGED snapshot

PushAccepted(d) ==
  /\ Accepts(d)
  /\ base' = [base EXCEPT ![d] = @ + 1]
  /\ pending' = [pending EXCEPT ![d] = {}]
  /\ versions' = Counted(d)
  /\ phase' = [phase EXCEPT ![d] = "after"]
  /\ UNCHANGED <<tasks, undo, before, from, stats, writes>>

\* Seeded defect of CountedIfAccepted: the attempt is counted.
AttemptCounted(d) == Counted(d)

\* CountingServer::add_version: "Only count the version once the server has
\* accepted it".
CountedIfAccepted(d) == versions

\* ExpectedParentVersion: another device was faster; pull again.
PushConflict(d) ==
  /\ phase[d] = "push" /\ base[d] < Len(chain)
  /\ versions' = CountedIfAccepted(d)
  /\ phase' = [phase EXCEPT ![d] = "pull"]
  /\ UNCHANGED <<serverVars, replicaVars, undo, before, from, stats, writes>>

\* Replica::sync uploads a snapshot when the server asks for one.
AddSnapshot(d) ==
  /\ phase[d] = "after" /\ pending[d] = {}
  /\ snapshot.version < base[d]
  /\ snapshot' = [version |-> base[d], tasks |-> tasks[d]]
  /\ UNCHANGED <<chain, replicaVars, phase, callVars, stats, writes>>

\* The error leaves sync_with_stats; the transaction and the stats are dropped.
Fail(d) ==
  /\ Locked(d)
  /\ phase' = [phase EXCEPT ![d] = "idle"]
  /\ tasks' = [tasks EXCEPT ![d] = undo[d].tasks]
  /\ base' = [base EXCEPT ![d] = undo[d].base]
  /\ pending' = [pending EXCEPT ![d] = undo[d].pending]
  /\ Forget(d)
  /\ UNCHANGED <<stats, writes>>

SyncFails(d) == phase[d] \in {"pull", "push"} /\ Fail(d) /\ UNCHANGED serverVars

\* The server has accepted the version, but its reply does not arrive.
ReplyLost(d) == Accepts(d) /\ Fail(d)

\* The sync is committed, and reading the second snapshot fails.
SecondSnapshotFails(d) ==
  /\ phase[d] = "after"
  /\ phase' = [phase EXCEPT ![d] = "idle"]
  /\ Forget(d)
  /\ UNCHANGED <<serverVars, replicaVars, stats, writes>>

\* compute_task_diff.
Live(t) == {k \in Keys : t[k] # Gone}
Same(x, y) == x[1] = y[1]

\* Seeded defect of Diff: purged tasks are not counted.
DiffForgetsPurges(old, new) ==
  [added   |-> Cardinality(Live(new) \ Live(old)),
   updated |-> Cardinality({k \in Live(new) \cap Live(old) : ~Same(old[k], new[k])}),
   deleted |-> 0]

\* Seeded defect of Diff: the new tasks are counted as the growth of the map.
DiffBySize(old, new) ==
  [added   |-> Cardinality(Live(new)) - Cardinality(Live(old)),
   updated |-> Cardinality({k \in Live(new) \cap Live(old) : ~Same(old[k], new[k])}),
   deleted |-> Cardinality(Live(old) \ Live(new))]

Diff(old, new) ==
  [added   |-> Cardinality(Live(new) \ Live(old)),
   updated |-> Cardinality({k \in Live(new) \cap Live(old) : ~Same(old[k], new[k])}),
   deleted |-> Cardinality(Live(old) \ Live(new))]

Finish(d) ==
  /\ phase[d] = "after"
  /\ phase' = [phase EXCEPT ![d] = "idle"]
  /\ LET n == Diff(before[d], SnapshotOf(d))
     IN  stats' = [stats EXCEPT ![d] =
           [added |-> n.added, updated |-> n.updated, deleted |-> n.deleted,
            versions |-> versions[d]]]
  /\ Forget(d)
  /\ UNCHANGED <<serverVars, replicaVars, writes>>

-----------------------------------------------------------------------------
Sync(d) ==
  \/ Request(d) \/ Begin(d) \/ Pull(d) \/ PullNone(d)
  \/ PushAccepted(d) \/ PushConflict(d) \/ AddSnapshot(d) \/ Finish(d)
  \/ SyncFails(d) \/ ReplyLost(d) \/ SecondSnapshotFails(d)

Next ==
  \E d \in Devices :
    \/ Sync(d)
    \/ \E k \in Keys, v \in Values \cup {Gone} : Write(d, k, v)

Spec == Init /\ [][Next]_vars

-----------------------------------------------------------------------------
(* Properties.                                                             *)

\* CountingServer: through pulls, conflicts and pushes, what it has counted is
\* how far the replica has come from where it started pulling: a refused push
\* is not counted, nothing is counted twice, and nothing of an earlier sync.
VersionsExact ==
  \A d \in Devices : Locked(d) => versions[d] = base[d] - from[d]

\* The keys that the running sync of d has received from other devices.
Received(d) ==
  UNION {chain[i].keys : i \in {j \in from[d] + 1 .. base[d] : chain[j].by # d}}

\* sync_with_server: its two snapshots observe the state before and after the
\* sync (api.rs:380-382), so it never reports as its own effect what the
\* program wrote before it, queued changes and changes of a push whose reply
\* was lost included: what it reports came in versions of other devices, or in
\* the snapshot that an empty replica started from.
ReportedIsRemote ==
  [][\A d \in Devices : Finish(d) =>
       \/ from[d] # undo[d].base
       \/ stats'[d].added + stats'[d].updated + stats'[d].deleted
            <= Cardinality(Received(d))]_vars

\* compute_task_diff: a program that keeps a count of its tasks and adds
\* tasks_added and subtracts tasks_deleted at each sync counts right.
CountsBalance ==
  [][\A d \in Devices : Finish(d) =>
       Cardinality(Live(tasks[d])) =
         Cardinality(Live(undo[d].tasks)) + stats'[d].added - stats'[d].deleted]_vars
=============================================================================
