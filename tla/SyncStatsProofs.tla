-------------------------- MODULE SyncStatsProofs ---------------------------
(***************************************************************************)
(* Theorems about SyncStats, for any number of devices, any finite set of  *)
(* tasks and any bounds on writes and versions: its types, that versions   *)
(* are counted exactly, and that the task counters of a sync balance and   *)
(* report nothing but what other devices did.                              *)
(***************************************************************************)
EXTENDS SyncStats, FiniteSetTheorems, SequenceTheorems, TLAPS

-----------------------------------------------------------------------------
(* Types.                                                                  *)

\* compute_task_diff counts: what it returns are numbers.
LEMMA DiffType ==
  ASSUME NEW old, NEW new
  PROVE  Diff(old, new) \in [added : Nat, updated : Nat, deleted : Nat]
<1>1. \A S \in SUBSET Keys : Cardinality(S) \in Nat
  BY SyncStatsAssumption, FS_Subset, FS_CardinalityType
<1>. QED
  BY <1>1 DEF Diff, Live

\* A version the server accepts is added to the end of its chain.
LEMMA ChainGrows ==
  ASSUME TypeOK, NEW d \in Devices, Accepts(d)
  PROVE  /\ chain' \in Seq(Version)
         /\ Len(chain') = Len(chain) + 1 /\ Len(chain') <= MaxChain
         /\ \A i \in 1 .. Len(chain) : chain'[i] = chain[i]
<1>1. [by |-> d, keys |-> pending[d], data |-> tasks[d]] \in Version
  BY DEF TypeOK, Version
<1>. QED
  BY <1>1, SyncStatsAssumption DEF TypeOK, Accepts

\* The parts of TypeOK that name the length of the chain survive its growth.
LEMMA ChainBounds ==
  ASSUME TypeOK, NEW n \in Nat, Len(chain) <= n
  PROVE  /\ snapshot \in [version : 0 .. n, tasks : TaskMap]
         /\ base \in [Devices -> 0 .. n]
         /\ from \in [Devices -> 0 .. n]
         /\ undo \in [Devices -> [tasks : TaskMap, base : 0 .. n, pending : SUBSET Keys]]
<1>1. Len(chain) \in Nat
  BY DEF TypeOK
<1>2. 0 .. Len(chain) \subseteq 0 .. n
  BY <1>1
<1>. QED
  BY <1>2 DEF TypeOK

\* What a failed sync, and a finished one, leaves.
LEMMA ForgetType ==
  ASSUME TypeOK, NEW d \in Devices, Forget(d)
  PROVE  /\ undo' \in [Devices -> [tasks : TaskMap, base : 0 .. Len(chain), pending : SUBSET Keys]]
         /\ from' \in [Devices -> 0 .. Len(chain)]
         /\ versions' \in [Devices -> Nat]
         /\ before' \in [Devices -> TaskMap]
<1>1. Empty \in TaskMap
  BY DEF Empty, TaskMap
<1>2. 0 \in 0 .. Len(chain)
  BY DEF TypeOK
<1>3. NoUndo \in [tasks : TaskMap, base : 0 .. Len(chain), pending : SUBSET Keys]
  BY <1>1, <1>2 DEF NoUndo
<1>. QED
  BY <1>2, <1>3 DEF TypeOK, Forget

\* What a rollback leaves.
LEMMA FailType ==
  ASSUME TypeOK, NEW d \in Devices, Fail(d)
  PROVE  /\ tasks' \in [Devices -> TaskMap]
         /\ base' \in [Devices -> 0 .. Len(chain)]
         /\ pending' \in [Devices -> SUBSET Keys]
         /\ phase' = [phase EXCEPT ![d] = "idle"]
         /\ Forget(d)
         /\ UNCHANGED <<stats, writes>>
BY DEF TypeOK, Fail

\* What a pulled version makes of the tasks of d.
LEMMA PullType ==
  ASSUME TypeOK, NEW d \in Devices, Pull(d)
  PROVE  LET v == chain[base[d] + 1]
         IN  /\ v \in Version
             /\ tasks' \in [Devices -> TaskMap]
             /\ pending' \in [Devices -> SUBSET Keys]
             /\ \A e \in Devices \ {d} : tasks'[e] = tasks[e]
             /\ \A k \in Keys : tasks'[d][k] # tasks[d][k] => v.by # d /\ k \in v.keys
<1>. DEFINE v == chain[base[d] + 1]
<1>1. v \in Version
  BY DEF TypeOK, Pull
<1>2. PICK wins \in SUBSET (v.keys \cap pending[d]) :
        LET applied == IF v.by = d THEN {} ELSE (v.keys \ pending[d]) \cup wins
        IN  /\ tasks' = [tasks EXCEPT ![d] =
                           [k \in Keys |-> IF k \in applied THEN v.data[k] ELSE tasks[d][k]]]
            /\ pending' = [pending EXCEPT ![d] = @ \ wins]
  BY DEF Pull, TypeOK
<1>. DEFINE applied == IF v.by = d THEN {} ELSE (v.keys \ pending[d]) \cup wins
            t == [k \in Keys |-> IF k \in applied THEN v.data[k] ELSE tasks[d][k]]
<1>. HIDE DEF v
<1>3. t \in TaskMap
  <2>1. v.data \in TaskMap /\ tasks[d] \in TaskMap
    BY <1>1 DEF Version, TypeOK
  <2>. HIDE DEF applied
  <2>. QED
    BY <2>1 DEF TaskMap
<1>4. tasks' = [tasks EXCEPT ![d] = t]
  BY <1>2
<1>5. \A k \in Keys : t[k] # tasks[d][k] => v.by # d /\ k \in v.keys
  OBVIOUS
<1>. HIDE DEF t
<1>6. /\ tasks' \in [Devices -> TaskMap] /\ tasks'[d] = t
      /\ \A e \in Devices \ {d} : tasks'[e] = tasks[e]
  BY <1>3, <1>4 DEF TypeOK
<1>7. pending' \in [Devices -> SUBSET Keys]
  BY <1>2 DEF TypeOK
<1>. QED
  BY <1>1, <1>5, <1>6, <1>7 DEF v

\* New devices and a new server are well typed.
LEMMA InitTypeOK == Init => TypeOK
<1>1. Empty \in TaskMap
  BY DEF Empty, TaskMap
<1>2. /\ << >> \in Seq(Version) /\ Len(<< >>) = 0
      /\ 0 \in 0 .. 0 /\ 0 \in 0 .. MaxWrites /\ 0 <= MaxChain
  BY SyncStatsAssumption
<1>. QED
  BY <1>1, <1>2 DEF Init, TypeOK, NoUndo, Zero

\* Every step of a device keeps the types, the server's chain included.
LEMMA NextTypeOK == TypeOK /\ [Next]_vars => TypeOK'
<1>. SUFFICES ASSUME TypeOK, [Next]_vars PROVE TypeOK'
  OBVIOUS
<1>. USE SyncStatsAssumption
<1>1. ASSUME NEW d \in Devices, NEW k \in Keys, NEW v \in Values \cup {Gone}, Write(d, k, v)
      PROVE  TypeOK'
  <2>1. tasks' \in [Devices -> TaskMap]
    BY <1>1 DEF Write, TypeOK, TaskMap
  <2>2. writes' \in 0 .. MaxWrites
    BY <1>1 DEF Write, TypeOK
  <2>. QED
    BY <1>1, <2>1, <2>2 DEF Write, TypeOK, serverVars, callVars
<1>2. ASSUME NEW d \in Devices, Request(d) PROVE TypeOK'
  <2>1. Zero \in [added : Nat, updated : Nat, deleted : Nat, versions : Nat]
    BY DEF Zero
  <2>. QED
    BY <1>2, <2>1 DEF Request, TypeOK, serverVars, replicaVars, callVars
<1>3. ASSUME NEW d \in Devices, Begin(d) PROVE TypeOK'
  <2>1. snapshot.version \in 0 .. Len(chain) /\ snapshot.tasks \in TaskMap
    BY DEF TypeOK
  <2>2. /\ tasks' \in [Devices -> TaskMap]
        /\ base' \in [Devices -> 0 .. Len(chain)]
        /\ from' \in [Devices -> 0 .. Len(chain)]
    BY <1>3, <2>1 DEF Begin, TypeOK
  <2>3. undo' \in [Devices -> [tasks : TaskMap, base : 0 .. Len(chain), pending : SUBSET Keys]]
    BY <1>3 DEF Begin, TypeOK
  <2>4. /\ before' \in [Devices -> TaskMap] /\ versions' \in [Devices -> Nat]
        /\ phase' \in [Devices -> {"idle", "setup", "pull", "push", "after"}]
    BY <1>3 DEF Begin, TypeOK, FirstSnapshot, SnapshotOf
  <2>. QED
    BY <1>3, <2>2, <2>3, <2>4 DEF Begin, TypeOK, serverVars
<1>4. ASSUME NEW d \in Devices, Pull(d) PROVE TypeOK'
  <2>1. tasks' \in [Devices -> TaskMap] /\ pending' \in [Devices -> SUBSET Keys]
    BY <1>4, PullType
  <2>2. base' \in [Devices -> 0 .. Len(chain)]
    <3>1. base[d] + 1 \in 0 .. Len(chain)
      BY <1>4, SMTT(30) DEF Pull, TypeOK
    <3>. QED
      BY <1>4, <3>1 DEF Pull, TypeOK
  <2>3. versions' \in [Devices -> Nat]
    <3>1. versions \in [Devices -> Nat] /\ versions[d] + 1 \in Nat
      BY DEF TypeOK
    <3>2. versions' = [versions EXCEPT ![d] = versions[d] + 1]
      BY <1>4 DEF Pull, Counted
    <3>. QED
      BY <3>1, <3>2
  <2>. QED
    BY <1>4, <2>1, <2>2, <2>3 DEF Pull, TypeOK, serverVars
<1>5. ASSUME NEW d \in Devices, PullNone(d) PROVE TypeOK'
  BY <1>5 DEF PullNone, TypeOK, serverVars, replicaVars, callVars
<1>6. ASSUME NEW d \in Devices, PushAccepted(d) PROVE TypeOK'
  <2>1. /\ chain' \in Seq(Version) /\ Len(chain') = Len(chain) + 1
        /\ Len(chain') <= MaxChain
    BY <1>6, ChainGrows DEF PushAccepted
  <2>2. Len(chain') \in Nat /\ Len(chain) <= Len(chain')
    BY <2>1 DEF TypeOK
  <2>3. /\ snapshot \in [version : 0 .. Len(chain'), tasks : TaskMap]
        /\ from \in [Devices -> 0 .. Len(chain')]
        /\ undo \in [Devices -> [tasks : TaskMap, base : 0 .. Len(chain'), pending : SUBSET Keys]]
    BY <2>2, ChainBounds
  <2>4. base' \in [Devices -> 0 .. Len(chain')]
    <3>1. base \in [Devices -> 0 .. Len(chain')]
      BY <2>2, ChainBounds
    <3>2. base[d] + 1 \in 0 .. Len(chain')
      BY <1>6, <2>1, <2>2 DEF PushAccepted, Accepts, TypeOK
    <3>. QED
      BY <1>6, <3>1, <3>2 DEF PushAccepted
  <2>5. /\ versions' \in [Devices -> Nat] /\ pending' \in [Devices -> SUBSET Keys]
        /\ phase' \in [Devices -> {"idle", "setup", "pull", "push", "after"}]
    BY <1>6, SMTT(30) DEF PushAccepted, Counted, TypeOK
  <2>. QED
    BY <1>6, <2>1, <2>3, <2>4, <2>5 DEF PushAccepted, Accepts, TypeOK
<1>7. ASSUME NEW d \in Devices, PushConflict(d) PROVE TypeOK'
  BY <1>7 DEF PushConflict, CountedIfAccepted, TypeOK, serverVars, replicaVars
<1>8. ASSUME NEW d \in Devices, AddSnapshot(d) PROVE TypeOK'
  BY <1>8 DEF AddSnapshot, TypeOK, replicaVars, callVars
<1>9. ASSUME NEW d \in Devices, SyncFails(d) PROVE TypeOK'
  <2>1. Forget(d) /\ Fail(d) /\ UNCHANGED serverVars
    BY <1>9, FailType DEF SyncFails
  <2>. QED
    BY <2>1, FailType, ForgetType DEF TypeOK, serverVars
<1>10. ASSUME NEW d \in Devices, ReplyLost(d) PROVE TypeOK'
  <2>1. /\ chain' \in Seq(Version) /\ Len(chain') = Len(chain) + 1
        /\ Len(chain') <= MaxChain
    BY <1>10, ChainGrows DEF ReplyLost
  <2>2. Len(chain') \in Nat /\ 0 .. Len(chain) \subseteq 0 .. Len(chain')
    BY <2>1 DEF TypeOK
  <2>3. Forget(d) /\ Fail(d) /\ UNCHANGED snapshot
    BY <1>10, FailType DEF ReplyLost, Accepts
  <2>4. /\ undo' \in [Devices -> [tasks : TaskMap, base : 0 .. Len(chain), pending : SUBSET Keys]]
        /\ from' \in [Devices -> 0 .. Len(chain)]
        /\ base' \in [Devices -> 0 .. Len(chain)]
        /\ snapshot' \in [version : 0 .. Len(chain), tasks : TaskMap]
    BY <2>3, FailType, ForgetType DEF TypeOK
  <2>5. /\ undo' \in [Devices -> [tasks : TaskMap, base : 0 .. Len(chain'), pending : SUBSET Keys]]
        /\ from' \in [Devices -> 0 .. Len(chain')]
        /\ base' \in [Devices -> 0 .. Len(chain')]
        /\ snapshot' \in [version : 0 .. Len(chain'), tasks : TaskMap]
    BY <2>2, <2>4
  <2>. QED
    BY <2>1, <2>3, <2>5, FailType, ForgetType DEF TypeOK
<1>11. ASSUME NEW d \in Devices, SecondSnapshotFails(d) PROVE TypeOK'
  BY <1>11, ForgetType DEF SecondSnapshotFails, TypeOK, serverVars, replicaVars
<1>12. ASSUME NEW d \in Devices, Finish(d) PROVE TypeOK'
  <2>1. stats' \in [Devices -> [added : Nat, updated : Nat, deleted : Nat, versions : Nat]]
    <3>. DEFINE n == Diff(before[d], SnapshotOf(d))
    <3>1. n \in [added : Nat, updated : Nat, deleted : Nat]
      BY DiffType
    <3>. HIDE DEF n
    <3>2. stats' = [stats EXCEPT ![d] = [added |-> n.added, updated |-> n.updated,
                                         deleted |-> n.deleted, versions |-> versions[d]]]
      BY <1>12 DEF Finish, n
    <3>. QED
      BY <3>1, <3>2 DEF TypeOK
  <2>. QED
    BY <1>12, <2>1, ForgetType DEF Finish, TypeOK, serverVars, replicaVars
<1>13. CASE UNCHANGED vars
  BY <1>13 DEF vars, TypeOK
<1>. QED
  BY <1>1, <1>2, <1>3, <1>4, <1>5, <1>6, <1>7, <1>8, <1>9, <1>10, <1>11, <1>12, <1>13
  DEF Next, Sync

\* The state of the devices and of the server stays well typed: no replica is
\* ahead of the server, and no counter of compute_task_diff goes below zero.
THEOREM TypeCorrect == Spec => []TypeOK
BY InitTypeOK, NextTypeOK, PTL DEF Spec

-----------------------------------------------------------------------------
(* What is true of a running sync.                                         *)

\* The inductive invariant of the call of d.  VersionsExact is its second
\* conjunct; the others say what the second snapshot may differ in: only in
\* keys received since the first one, unless the sync began with the server's
\* snapshot (and then from[d] is not where the replica was).
CallOK(d) ==
  Locked(d) =>
    /\ from[d] <= base[d]
    /\ versions[d] = base[d] - from[d]
    /\ before[d] = undo[d].tasks
    /\ from[d] = undo[d].base =>
         \A k \in Keys : tasks[d][k] # before[d][k] => k \in Received(d)

\* Until it has a snapshot of a version, the server's snapshot is empty: an
\* empty replica that starts from it has received nothing.
SnapshotOK == snapshot.version = 0 => snapshot.tasks = Empty

SyncInv == SnapshotOK /\ \A d \in Devices : CallOK(d)

\* What was received stays received while the chain grows.
LEMMA ReceivedFrame ==
  ASSUME TypeOK, NEW d \in Devices,
         from'[d] = from[d], base'[d] = base[d],
         \A i \in 1 .. Len(chain) : chain'[i] = chain[i]
  PROVE  Received(d)' = Received(d)
<1>1. from[d] \in 0 .. Len(chain) /\ base[d] \in 0 .. Len(chain) /\ Len(chain) \in Nat
  BY DEF TypeOK
<1>2. from[d] + 1 .. base[d] \subseteq 1 .. Len(chain)
  BY <1>1
<1>3. \A i \in from[d] + 1 .. base[d] : chain'[i] = chain[i]
  BY <1>2
<1>. QED
  BY <1>3 DEF Received

\* A step that leaves the replica and the call of d alone.
LEMMA CallFrame ==
  ASSUME TypeOK, NEW d \in Devices, CallOK(d),
         phase'[d] = phase[d], from'[d] = from[d], base'[d] = base[d],
         versions'[d] = versions[d], before'[d] = before[d], undo'[d] = undo[d],
         Locked(d) => tasks'[d] = tasks[d],
         \A i \in 1 .. Len(chain) : chain'[i] = chain[i]
  PROVE  CallOK(d)'
BY ReceivedFrame DEF CallOK, Locked

\* The step of one device leaves the calls of the others alone.
LEMMA OthersFrame ==
  ASSUME TypeOK, NEW d \in Devices, NEW e \in Devices \ {d}, CallOK(e),
         Sync(d) \/ \E k \in Keys, v \in Values \cup {Gone} : Write(d, k, v)
  PROVE  CallOK(e)'
<1>1. /\ phase'[e] = phase[e] /\ from'[e] = from[e] /\ base'[e] = base[e]
      /\ versions'[e] = versions[e] /\ before'[e] = before[e] /\ undo'[e] = undo[e]
      /\ tasks'[e] = tasks[e]
      /\ \A i \in 1 .. Len(chain) : chain'[i] = chain[i]
  <2>. USE DEF TypeOK, serverVars, replicaVars, callVars
  <2>1. CASE \E k \in Keys, v \in Values \cup {Gone} : Write(d, k, v)
    BY <2>1 DEF Write
  <2>2. CASE Request(d)
    BY <2>2 DEF Request
  <2>3. CASE Begin(d)
    BY <2>3 DEF Begin
  <2>4. CASE Pull(d)
    <3>1. tasks'[e] = tasks[e]
      BY <2>4, PullType
    <3>. QED
      BY <2>4, <3>1 DEF Pull, Counted
  <2>5. CASE PullNone(d)
    BY <2>5 DEF PullNone
  <2>6. CASE PushAccepted(d)
    <3>1. \A i \in 1 .. Len(chain) : chain'[i] = chain[i]
      BY <2>6, ChainGrows DEF PushAccepted
    <3>. QED
      BY <2>6, <3>1 DEF PushAccepted, Counted
  <2>7. CASE PushConflict(d)
    BY <2>7 DEF PushConflict, CountedIfAccepted
  <2>8. CASE AddSnapshot(d)
    BY <2>8 DEF AddSnapshot
  <2>9. CASE SyncFails(d)
    BY <2>9 DEF SyncFails, Fail, Forget
  <2>10. CASE ReplyLost(d)
    <3>1. \A i \in 1 .. Len(chain) : chain'[i] = chain[i]
      BY <2>10, ChainGrows DEF ReplyLost
    <3>. QED
      BY <2>10, <3>1 DEF ReplyLost, Fail, Forget
  <2>11. CASE SecondSnapshotFails(d)
    BY <2>11 DEF SecondSnapshotFails, Forget
  <2>12. CASE Finish(d)
    BY <2>12 DEF Finish, Forget
  <2>. QED
    BY <2>1, <2>2, <2>3, <2>4, <2>5, <2>6, <2>7, <2>8, <2>9, <2>10, <2>11, <2>12 DEF Sync
<1>. QED
  BY <1>1, CallFrame

\* The first snapshot is taken when nothing has been received yet.
LEMMA BeginOK ==
  ASSUME TypeOK, SnapshotOK, NEW d \in Devices, Begin(d)
  PROVE  CallOK(d)'
<1>1. /\ from'[d] = base'[d] /\ versions'[d] = 0
      /\ before'[d] = tasks[d] /\ undo'[d].tasks = tasks[d] /\ undo'[d].base = base[d]
      /\ from'[d] \in Int
  BY DEF Begin, TypeOK, FirstSnapshot, SnapshotOf
<1>2. ASSUME from'[d] = undo'[d].base PROVE tasks'[d] = tasks[d]
  <2>1. CASE ~IsEmpty(d)
    BY <2>1 DEF Begin, TypeOK
  <2>2. CASE IsEmpty(d)
    <3>1. snapshot.version = 0
      BY <1>1, <1>2, <2>2 DEF Begin, TypeOK, IsEmpty
    <3>. QED
      BY <2>2, <3>1 DEF Begin, TypeOK, IsEmpty, SnapshotOK
  <2>. QED
    BY <2>1, <2>2
<1>. QED
  BY <1>1, <1>2 DEF CallOK

\* A version of another device adds its keys to what was received; a version of
\* one's own changes nothing.
LEMMA PullOK ==
  ASSUME TypeOK, NEW d \in Devices, CallOK(d), Pull(d)
  PROVE  CallOK(d)'
<1>. DEFINE v == chain[base[d] + 1]
<1>1. Locked(d) /\ from[d] \in Nat /\ base[d] \in Nat /\ versions[d] \in Nat
  BY DEF Pull, Locked, TypeOK
<1>2. /\ base'[d] = base[d] + 1 /\ versions'[d] = versions[d] + 1
      /\ from' = from /\ before' = before /\ undo' = undo /\ chain' = chain
  BY DEF Pull, Counted, TypeOK, serverVars
<1>3. from[d] <= base[d]
  BY <1>1 DEF CallOK
<1>4. Received(d) \subseteq Received(d)'
  <2>1. from[d] + 1 .. base[d] \subseteq from[d] + 1 .. base[d] + 1
    BY <1>1
  <2>. QED
    BY <1>2, <2>1 DEF Received
<1>5. \A k \in v.keys : v.by # d => k \in Received(d)'
  <2>1. base[d] + 1 \in from[d] + 1 .. base[d] + 1
    BY <1>1, <1>3
  <2>. QED
    BY <1>2, <2>1 DEF Received
<1>6. \A k \in Keys : tasks'[d][k] # tasks[d][k] => v.by # d /\ k \in v.keys
  BY PullType
<1>. HIDE DEF v
<1>7. ASSUME from'[d] = undo'[d].base, NEW k \in Keys, tasks'[d][k] # before'[d][k]
      PROVE  k \in Received(d)'
  <2>1. CASE tasks'[d][k] = tasks[d][k]
    BY <1>1, <1>2, <1>4, <1>7, <2>1 DEF CallOK
  <2>2. CASE tasks'[d][k] # tasks[d][k]
    BY <1>5, <1>6, <2>2
  <2>. QED
    BY <2>1, <2>2
<1>8. /\ from'[d] <= base'[d] /\ versions'[d] = base'[d] - from'[d]
      /\ before'[d] = undo'[d].tasks
  BY <1>1, <1>2, <1>3 DEF CallOK
<1>. QED
  BY <1>7, <1>8 DEF CallOK

\* A version of one's own is counted and received from nobody else.
LEMMA PushOK ==
  ASSUME TypeOK, NEW d \in Devices, CallOK(d), PushAccepted(d)
  PROVE  CallOK(d)'
<1>1. Locked(d) /\ from[d] \in Nat /\ base[d] \in Nat /\ versions[d] \in Nat
  BY DEF PushAccepted, Accepts, Locked, TypeOK
<1>2. /\ base'[d] = base[d] + 1 /\ versions'[d] = versions[d] + 1
      /\ from' = from /\ before' = before /\ undo' = undo /\ tasks' = tasks
  BY DEF PushAccepted, Counted, TypeOK
<1>3. Received(d) \subseteq Received(d)'
  <2>0. base[d] \in 0 .. Len(chain) /\ Len(chain) \in Nat
    BY DEF TypeOK
  <2>1. /\ from[d] + 1 .. base[d] \subseteq from[d] + 1 .. base[d] + 1
        /\ from[d] + 1 .. base[d] \subseteq 1 .. Len(chain)
    BY <1>1, <2>0
  <2>2. \A i \in from[d] + 1 .. base[d] : chain'[i] = chain[i]
    BY <2>1, ChainGrows DEF PushAccepted
  <2>. QED
    BY <1>2, <2>1, <2>2 DEF Received
<1>4. /\ from'[d] <= base'[d] /\ versions'[d] = base'[d] - from'[d]
      /\ before'[d] = undo'[d].tasks
  BY <1>1, <1>2 DEF CallOK
<1>. QED
  BY <1>1, <1>2, <1>3, <1>4 DEF CallOK

\* Every step keeps what is true of the running syncs.
LEMMA NextSyncInv == TypeOK /\ SyncInv /\ [Next]_vars => SyncInv'
<1>. SUFFICES ASSUME TypeOK, SyncInv, [Next]_vars PROVE SyncInv'
  OBVIOUS
<1>. USE DEF serverVars, replicaVars, callVars
<1>1. SnapshotOK'
  <2>1. ASSUME NEW d \in Devices, AddSnapshot(d) PROVE SnapshotOK'
    BY <2>1 DEF AddSnapshot, SnapshotOK, TypeOK
  <2>2. ASSUME UNCHANGED snapshot PROVE SnapshotOK'
    BY <2>2 DEF SyncInv, SnapshotOK
  <2>. QED
    BY <2>1, <2>2, ZenonT(60)
    DEF Next, Sync, Write, Request, Begin, Pull, PullNone, PushAccepted, PushConflict, Accepts,
        SyncFails, ReplyLost, SecondSnapshotFails, Finish, vars
<1>2. ASSUME NEW d \in Devices, Sync(d) PROVE CallOK(d)'
  <2>. USE DEF TypeOK
  <2>0. CallOK(d) /\ SnapshotOK
    BY DEF SyncInv
  <2>1. CASE Begin(d)
    BY <2>0, <2>1, BeginOK
  <2>2. CASE Pull(d)
    BY <2>0, <2>2, PullOK
  <2>3. CASE PushAccepted(d)
    BY <2>0, <2>3, PushOK
  <2>4. ASSUME phase'[d] \in {"idle", "setup"} PROVE CallOK(d)'
    BY <2>4 DEF CallOK, Locked
  <2>5. CASE Request(d) \/ SyncFails(d) \/ ReplyLost(d) \/ SecondSnapshotFails(d) \/ Finish(d)
    BY <2>4, <2>5 DEF Request, SyncFails, ReplyLost, Fail, SecondSnapshotFails, Finish
  <2>6. CASE PullNone(d) \/ PushConflict(d) \/ AddSnapshot(d)
    <3>1. /\ UNCHANGED <<chain, from, base, versions, before, undo, tasks>>
          /\ Locked(d)
      BY <2>6 DEF PullNone, PushConflict, AddSnapshot, CountedIfAccepted, Locked
    <3>2. Received(d)' = Received(d)
      BY <3>1, ReceivedFrame
    <3>. QED
      BY <2>0, <3>1, <3>2 DEF CallOK
  <2>. QED
    BY <1>2, <2>1, <2>2, <2>3, <2>5, <2>6 DEF Sync
<1>3. ASSUME NEW d \in Devices, NEW k \in Keys, NEW v \in Values \cup {Gone}, Write(d, k, v)
      PROVE  CallOK(d)'
  BY <1>3 DEF Write, CallOK, Locked
<1>4. ASSUME UNCHANGED vars, NEW d \in Devices PROVE CallOK(d)'
  BY <1>4, CallFrame DEF SyncInv, vars
<1>5. \A d \in Devices : CallOK(d)'
  <2>1. CASE UNCHANGED vars
    BY <1>4, <2>1
  <2>2. ASSUME NEW d \in Devices,
               Sync(d) \/ \E k \in Keys, v \in Values \cup {Gone} : Write(d, k, v)
        PROVE  \A e \in Devices : CallOK(e)'
    BY <1>2, <1>3, <2>2, OthersFrame DEF SyncInv
  <2>. QED
    BY <2>1, <2>2 DEF Next
<1>. QED
  BY <1>1, <1>5 DEF SyncInv

\* What the other theorems rest on.
LEMMA Invariant == Spec => [](TypeOK /\ SyncInv)
<1>1. Init => SyncInv
  BY DEF Init, SyncInv, SnapshotOK, CallOK, Locked
<1>. QED
  BY <1>1, InitTypeOK, NextTypeOK, NextSyncInv, PTL DEF Spec

\* CountingServer: what it has counted is how far the replica has come, whatever
\* the server refused and whatever failed before.
THEOREM VersionsAreExact == Spec => []VersionsExact
<1>1. SyncInv => VersionsExact
  BY DEF SyncInv, CallOK, VersionsExact
<1>. QED
  BY <1>1, Invariant, PTL

-----------------------------------------------------------------------------
(* The task counters.                                                      *)

\* A set of tasks has a size.
LEMMA FiniteKeys ==
  ASSUME NEW S \in SUBSET Keys
  PROVE  IsFiniteSet(S) /\ Cardinality(S) \in Nat
BY SyncStatsAssumption, FS_Subset, FS_CardinalityType

\* The sizes of two sets that have nothing in common add up.
LEMMA DisjointSum ==
  ASSUME NEW S \in SUBSET Keys, NEW T \in SUBSET Keys, S \cap T = {}
  PROVE  Cardinality(S \cup T) = Cardinality(S) + Cardinality(T)
<1>1. IsFiniteSet(S) /\ IsFiniteSet(T)
  BY FiniteKeys
<1>2. Cardinality(S \cup T) = Cardinality(S) + Cardinality(T) - Cardinality(S \cap T)
  BY <1>1, FS_Union
<1>3. Cardinality(S \cap T) = 0
  BY FS_EmptySet
<1>4. Cardinality(S) \in Nat /\ Cardinality(T) \in Nat
  BY FiniteKeys
<1>. QED
  BY <1>2, <1>3, <1>4

\* compute_task_diff between two task sets: the counters account for their
\* sizes, and count no key that did not change.
LEMMA DiffCounts ==
  ASSUME NEW old, NEW new
  PROVE  LET n == Diff(old, new)
             changed == {k \in Keys : old[k] # new[k]}
         IN  /\ Cardinality(Live(new)) = Cardinality(Live(old)) + n.added - n.deleted
             /\ n.added + n.updated + n.deleted <= Cardinality(changed)
<1>. DEFINE n == Diff(old, new)
            changed == {k \in Keys : old[k] # new[k]}
            A == Live(new) \ Live(old)
            U == {k \in Live(new) \cap Live(old) : ~Same(old[k], new[k])}
            D == Live(old) \ Live(new)
            B == Live(new) \cap Live(old)
<1>1. n.added = Cardinality(A) /\ n.updated = Cardinality(U) /\ n.deleted = Cardinality(D)
  BY DEF Diff
<1>2. /\ A \in SUBSET Keys /\ U \in SUBSET Keys /\ D \in SUBSET Keys
      /\ B \in SUBSET Keys /\ changed \in SUBSET Keys
  BY DEF Live
<1>3. Cardinality(Live(new)) = Cardinality(Live(old)) + Cardinality(A) - Cardinality(D)
  <2>1. Live(new) = B \cup A /\ B \cap A = {}
    OBVIOUS
  <2>2. Live(old) = B \cup D /\ B \cap D = {}
    OBVIOUS
  <2>. HIDE DEF A, B, D
  <2>3. Cardinality(Live(new)) = Cardinality(B) + Cardinality(A)
    BY <1>2, <2>1, DisjointSum
  <2>4. Cardinality(Live(old)) = Cardinality(B) + Cardinality(D)
    BY <1>2, <2>2, DisjointSum
  <2>5. Cardinality(A) \in Nat /\ Cardinality(B) \in Nat /\ Cardinality(D) \in Nat
    BY <1>2, FiniteKeys
  <2>. QED
    BY <2>3, <2>4, <2>5
<1>4. Cardinality(A) + Cardinality(U) + Cardinality(D) <= Cardinality(changed)
  <2>1. A \cap U = {} /\ (A \cup U) \cap D = {}
    OBVIOUS
  <2>2. (A \cup U) \cup D \subseteq changed
    BY DEF Live, Same
  <2>. HIDE DEF A, U, D, changed
  <2>3. Cardinality(A \cup U) = Cardinality(A) + Cardinality(U)
    BY <1>2, <2>1, DisjointSum
  <2>4. A \cup U \in SUBSET Keys
    BY <1>2
  <2>5. Cardinality((A \cup U) \cup D) = Cardinality(A \cup U) + Cardinality(D)
    BY <1>2, <2>1, <2>4, DisjointSum
  <2>6. Cardinality((A \cup U) \cup D) <= Cardinality(changed)
    BY <1>2, <2>2, FiniteKeys, FS_Subset
  <2>. QED
    BY <2>3, <2>5, <2>6
<1>. HIDE DEF A, U, D
<1>. QED
  BY <1>1, <1>3, <1>4

\* A finished sync reports the difference of the tasks now and the tasks that
\* a rollback would have restored.
LEMMA Reported ==
  ASSUME TypeOK, SyncInv, NEW d \in Devices, Finish(d)
  PROVE  LET n == Diff(undo[d].tasks, tasks[d])
         IN  /\ stats'[d].added = n.added
             /\ stats'[d].updated = n.updated
             /\ stats'[d].deleted = n.deleted
<1>1. before[d] = undo[d].tasks
  BY DEF Finish, SyncInv, CallOK, Locked
<1>. QED
  BY <1>1 DEF Finish, TypeOK, SnapshotOf

\* A program that adds tasks_added and subtracts tasks_deleted at each sync
\* knows how many tasks there are.
THEOREM CountersBalance == Spec => CountsBalance
<1>1. ASSUME TypeOK, SyncInv, NEW d \in Devices, Finish(d)
      PROVE  Cardinality(Live(tasks[d])) =
               Cardinality(Live(undo[d].tasks)) + stats'[d].added - stats'[d].deleted
  <2>. DEFINE n == Diff(undo[d].tasks, tasks[d])
  <2>1. Cardinality(Live(tasks[d])) =
          Cardinality(Live(undo[d].tasks)) + n.added - n.deleted
    BY DiffCounts
  <2>2. stats'[d].added = n.added /\ stats'[d].deleted = n.deleted
    BY <1>1, Reported
  <2>. HIDE DEF n
  <2>. QED
    BY <2>1, <2>2
<1>2. TypeOK /\ SyncInv =>
        [\A d \in Devices : Finish(d) =>
           Cardinality(Live(tasks[d])) =
             Cardinality(Live(undo[d].tasks)) + stats'[d].added - stats'[d].deleted]_vars
  BY <1>1
<1>. QED
  BY <1>2, Invariant, PTL DEF CountsBalance

\* sync_with_server reports as its own effect nothing but what came from other
\* devices: changes queued before it, or pushed by a sync whose reply was lost,
\* are not among it.
THEOREM OnlyRemoteIsReported == Spec => ReportedIsRemote
<1>1. ASSUME TypeOK, SyncInv, NEW d \in Devices, Finish(d), from[d] = undo[d].base
      PROVE  stats'[d].added + stats'[d].updated + stats'[d].deleted
               <= Cardinality(Received(d))
  <2>. DEFINE changed == {k \in Keys : undo[d].tasks[k] # tasks[d][k]}
  <2>1. stats'[d].added + stats'[d].updated + stats'[d].deleted <= Cardinality(changed)
    BY <1>1, Reported, DiffCounts
  <2>2. changed \subseteq Received(d)
    BY <1>1 DEF Finish, SyncInv, CallOK, Locked
  <2>3. Received(d) \in SUBSET Keys
    <3>1. from[d] \in 0 .. Len(chain) /\ base[d] \in 0 .. Len(chain) /\ Len(chain) \in Nat
      BY <1>1 DEF TypeOK
    <3>2. from[d] + 1 .. base[d] \subseteq 1 .. Len(chain)
      BY <3>1
    <3>3. \A i \in 1 .. Len(chain) : chain[i] \in Version
      BY <1>1 DEF TypeOK
    <3>. QED
      BY <3>2, <3>3 DEF Received, Version
  <2>4. Cardinality(changed) <= Cardinality(Received(d))
    BY <2>2, <2>3, FiniteKeys, FS_Subset
  <2>5. /\ Cardinality(changed) \in Nat /\ Cardinality(Received(d)) \in Nat
        /\ stats'[d].added \in Nat /\ stats'[d].updated \in Nat /\ stats'[d].deleted \in Nat
    <3>1. Diff(undo[d].tasks, tasks[d]) \in [added : Nat, updated : Nat, deleted : Nat]
      BY DiffType
    <3>. QED
      BY <1>1, <2>3, <3>1, FiniteKeys, Reported
  <2>. HIDE DEF changed
  <2>. QED
    BY <2>1, <2>4, <2>5
<1>2. TypeOK /\ SyncInv =>
        [\A d \in Devices : Finish(d) =>
           \/ from[d] # undo[d].base
           \/ stats'[d].added + stats'[d].updated + stats'[d].deleted
                <= Cardinality(Received(d))]_vars
  BY <1>1
<1>. QED
  BY <1>2, Invariant, PTL DEF ReportedIsRemote
=============================================================================
