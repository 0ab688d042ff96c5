-------------------------- MODULE RepoCacheProofs --------------------------
(***************************************************************************)
(* Theorems about RepoCache, for every set of callers, paths, handles and  *)
(* tags: its types, the exclusion of closures that share a handle, and     *)
(* that it implements SerialStore when every path is open from the start.  *)
(***************************************************************************)
EXTENDS RepoCache, SequenceTheorems, TLAPS

\* c is in the queue q: it waits for a mutex, or holds it.
Occurs(c, q) == \E i \in 1 .. Len(q) : q[i] = c

\* The part of the inductive invariant about mutexes.  A closure runs only
\* for the head of its handle's queue, and a queued caller stays in the queue:
\* without the second fact the head that Leave removes might be nobody's.
LockInv ==
  \A c \in Callers :
    /\ pc[c] \in {"queued", "modify", "leave"} => Occurs(c, waiters[handle[c]])
    /\ InClosure(c) => Head(waiters[handle[c]]) = c

\* What a step does to the mutex of one handle leaves other waiters in place.
LEMMA AppendKeeps ==
  ASSUME NEW S, NEW q \in Seq(S), NEW c \in S
  PROVE  /\ Append(q, c) \in Seq(S)
         /\ Occurs(c, Append(q, c))
         /\ \A d \in S : Occurs(d, q) =>
              Occurs(d, Append(q, c)) /\ Head(Append(q, c)) = Head(q)
<1>1. /\ Append(q, c) \in Seq(S)
      /\ Len(Append(q, c)) = Len(q) + 1
      /\ Append(q, c)[Len(q) + 1] = c
      /\ \A i \in 1 .. Len(q) : Append(q, c)[i] = q[i]
  OBVIOUS
<1>2. Occurs(c, Append(q, c))
  BY <1>1 DEF Occurs
<1>3. ASSUME NEW d \in S, Occurs(d, q)
      PROVE  Occurs(d, Append(q, c)) /\ Head(Append(q, c)) = Head(q)
  <2>1. 1 \in 1 .. Len(q)
    BY <1>3 DEF Occurs
  <2>2. Head(Append(q, c)) = Append(q, c)[1] /\ Head(q) = q[1]
    OBVIOUS
  <2>. QED
    BY <1>1, <1>3, <2>1, <2>2 DEF Occurs
<1>. QED
  BY <1>1, <1>2, <1>3

\* Removing the holder of a mutex leaves everyone else in the queue.
LEMMA TailKeeps ==
  ASSUME NEW S, NEW q \in Seq(S), q # << >>
  PROVE  /\ Tail(q) \in Seq(S)
         /\ \A d \in S : d # Head(q) /\ Occurs(d, q) => Occurs(d, Tail(q))
<1>1. Tail(q) \in Seq(S) /\ Len(Tail(q)) = Len(q) - 1
  OBVIOUS
<1>2. ASSUME NEW d \in S, d # Head(q), NEW i \in 1 .. Len(q), q[i] = d
      PROVE  Occurs(d, Tail(q))
  <2>1. i # 1
    BY <1>2
  <2>2. i - 1 \in 1 .. Len(Tail(q)) /\ Tail(q)[i - 1] = q[i]
    BY <1>1, <2>1
  <2>. QED
    BY <1>2, <2>2 DEF Occurs
<1>. QED
  BY <1>1, <1>2 DEF Occurs

-----------------------------------------------------------------------------
(* Types.                                                                  *)

\* Before the first call every variable has its type.
LEMMA InitTypeOK == Init => TypeOK
  BY DEF Init, TypeOK, PcStates, Holding

\* Every step keeps the types; Leave needs LockInv for a queue to take the tail of.
LEMMA NextTypeOK == TypeOK /\ LockInv /\ [Next]_vars => TypeOK'
<1> SUFFICES ASSUME TypeOK, LockInv, [Next]_vars
             PROVE  TypeOK'
  OBVIOUS
<1> USE DEF TypeOK, PcStates, Holding
<1>1. ASSUME NEW c \in Callers, Invoke(c)
      PROVE  TypeOK'
  BY <1>1 DEF Invoke
<1>2. ASSUME NEW c \in Callers, Lookup(c)
      PROVE  TypeOK'
  <2>1. call[c].path \in Paths
    BY <1>2 DEF Lookup, Calls
  <2>. QED
    BY <1>2, <2>1 DEF Lookup
<1>3. ASSUME NEW c \in Callers, Open(c) \/ OpenFails(c)
      PROVE  TypeOK'
  <2>1. CASE Open(c)
    BY <2>1 DEF Open
  <2>2. CASE OpenFails(c)
    BY <2>2 DEF OpenFails
  <2>. QED
    BY <1>3, <2>1, <2>2
<1>4. ASSUME NEW c \in Callers, Publish(c)
      PROVE  TypeOK'
  <2>1. call[c].path \in Paths
    BY <1>4 DEF Publish, Calls
  <2>2. OrInsert(call[c].path, handle[c]) \in Handles \cup {NoHandle}
    BY <2>1 DEF OrInsert
  <2>. QED
    BY <1>4, <2>2 DEF Publish
<1>5. ASSUME NEW c \in Callers, Enqueue(c)
      PROVE  TypeOK'
  <2>1. handle[c] \in Handles
    BY <1>5 DEF Enqueue, LockInv
  <2>2. Append(waiters[handle[c]], c) \in Seq(Callers)
    BY <2>1, AppendKeeps
  <2>. QED
    BY <1>5, <2>2 DEF Enqueue
<1>6. ASSUME NEW c \in Callers, Get(c) \/ ReadForUpdate(c)
      PROVE  TypeOK'
  <2>1. call[c].path \in Paths
    BY <1>6 DEF Get, ReadForUpdate, HasLock, Calls
  <2>2. CASE Get(c)
    BY <2>1, <2>2 DEF Get, HasLock
  <2>3. CASE ReadForUpdate(c)
    BY <2>1, <2>3 DEF ReadForUpdate, HasLock
  <2>. QED
    BY <1>6, <2>2, <2>3
<1>7. ASSUME NEW c \in Callers, Commit(c)
      PROVE  TypeOK'
  <2>1. call[c].path \in Paths /\ call[c].tags \in SUBSET Tags
    BY <1>7 DEF Commit, Calls
  <2>2. Written(c) \in SUBSET Tags
    BY <2>1 DEF Written
  <2>. QED
    BY <1>7, <2>2 DEF Commit
<1>8. ASSUME NEW c \in Callers, CloseWithError(c)
      PROVE  TypeOK'
  BY <1>8 DEF CloseWithError, HasLock
<1>9. ASSUME NEW c \in Callers, Leave(c)
      PROVE  TypeOK'
  <2>1. handle[c] \in Handles /\ waiters[handle[c]] # << >>
    BY <1>9 DEF Leave, LockInv, Occurs
  <2>2. Unlocked(c) \in Seq(Callers)
    BY <2>1, TailKeeps DEF Unlocked
  <2>. QED
    BY <1>9, <2>2 DEF Leave
<1>10. ASSUME NEW c \in Callers, Return(c)
       PROVE  TypeOK'
  BY <1>10 DEF Return
<1>11. CASE Clear
  BY <1>11 DEF Clear
<1>12. CASE UNCHANGED vars
  BY <1>12 DEF vars
<1>. QED
  BY <1>1, <1>2, <1>3, <1>4, <1>5, <1>6, <1>7, <1>8, <1>9, <1>10, <1>11, <1>12
     DEF Next, Progress

-----------------------------------------------------------------------------
(* Mutual exclusion.                                                       *)

\* Before the first call nobody is queued.
LEMMA InitLockInv == Init => LockInv
  BY DEF Init, LockInv, InClosure

\* Every step keeps closures at the head of their queues.
LEMMA NextLockInv == TypeOK /\ LockInv /\ [Next]_vars => LockInv'
<1> SUFFICES ASSUME TypeOK, LockInv, [Next]_vars
             PROVE  LockInv'
  OBVIOUS
<1>held. \A d \in Callers : Holding(d) => handle[d] \in Handles
  BY DEF TypeOK
\* Steps that move one caller and leave mutexes alone.
<1>1. ASSUME NEW c \in Callers, waiters' = waiters,
             \A d \in Callers \ {c} : pc'[d] = pc[d] /\ handle'[d] = handle[d],
             pc'[c] \in {"publish", "lock", "queued", "modify", "leave"}
               => handle'[c] \in Handles,
             pc'[c] \in {"queued", "modify", "leave"} =>
               /\ pc[c] \in {"queued", "modify", "leave"}
               /\ handle'[c] = handle[c],
             InClosure(c)' => InClosure(c) \/ Head(waiters[handle[c]]) = c
      PROVE  LockInv'
  BY <1>1 DEF LockInv, Occurs, InClosure
<1>2. ASSUME NEW c \in Callers,
             Invoke(c) \/ OpenFails(c) \/ Return(c)
      PROVE  LockInv'
  BY <1>2, <1>1 DEF Invoke, OpenFails, Return, TypeOK, InClosure
<1>3. ASSUME NEW c \in Callers, Lookup(c)
      PROVE  LockInv'
  <2>1. call[c].path \in Paths
    BY <1>3 DEF Lookup, Calls, TypeOK
  <2>. QED
    BY <1>3, <1>1, <2>1 DEF Lookup, TypeOK, InClosure
<1>4. ASSUME NEW c \in Callers, Open(c)
      PROVE  LockInv'
  BY <1>4, <1>1 DEF Open, TypeOK, InClosure
<1>5. ASSUME NEW c \in Callers, Publish(c)
      PROVE  LockInv'
  BY <1>5, <1>1 DEF Publish, TypeOK, InClosure, LockInv
<1>6. ASSUME NEW c \in Callers,
             Get(c) \/ ReadForUpdate(c) \/ Commit(c) \/ CloseWithError(c)
      PROVE  LockInv'
  BY <1>6, <1>1 DEF Get, ReadForUpdate, Commit, CloseWithError, HasLock, TypeOK,
                    InClosure, LockInv
<1>7. ASSUME NEW c \in Callers, Enqueue(c)
      PROVE  LockInv'
  <2> DEFINE h == handle[c]
             q == waiters[h]
  <2>1. h \in Handles /\ q \in Seq(Callers)
    BY <1>7 DEF Enqueue, LockInv, TypeOK, Holding
  <2>2. waiters'[h] = Append(q, c) /\ \A g \in Handles \ {h} : waiters'[g] = waiters[g]
    BY <1>7, <2>1 DEF Enqueue, TypeOK
  <2>3. /\ handle' = handle /\ pc'[c] = "queued"
        /\ \A d \in Callers \ {c} : pc'[d] = pc[d]
    BY <1>7 DEF Enqueue, TypeOK
  <2>4. Occurs(c, waiters'[h])
    BY <2>1, <2>2, AppendKeeps
  <2>5. ASSUME NEW d \in Callers, NEW g \in Handles, Occurs(d, waiters[g])
        PROVE  Occurs(d, waiters'[g]) /\ Head(waiters'[g]) = Head(waiters[g])
    <3>1. CASE g = h
      <4>1. Occurs(d, q)
        BY <2>5, <3>1
      <4>2. Occurs(d, Append(q, c)) /\ Head(Append(q, c)) = Head(q)
        BY <2>1, <4>1, AppendKeeps
      <4>. QED
        BY <2>2, <3>1, <4>2
    <3>2. CASE g # h
      BY <2>2, <2>5, <3>2
    <3>. QED
      BY <3>1, <3>2
  <2>. QED
    BY <1>held, <2>1, <2>3, <2>4, <2>5 DEF LockInv, InClosure, Holding
<1>8. ASSUME NEW c \in Callers, Leave(c)
      PROVE  LockInv'
  <2> DEFINE h == handle[c]
             q == waiters[h]
  <2>1. h \in Handles /\ q \in Seq(Callers) /\ q # << >> /\ Head(q) = c
    BY <1>8 DEF Leave, LockInv, TypeOK, InClosure, Occurs, Holding
  <2>2. waiters'[h] = Tail(q) /\ \A g \in Handles \ {h} : waiters'[g] = waiters[g]
    BY <1>8, <2>1 DEF Leave, TypeOK, Unlocked
  <2>3. /\ pc'[c] = "done"
        /\ \A d \in Callers \ {c} : pc'[d] = pc[d] /\ handle'[d] = handle[d]
    BY <1>8 DEF Leave, TypeOK
  <2>4. ASSUME NEW d \in Callers \ {c}, NEW g \in Handles, Occurs(d, waiters[g])
        PROVE  Occurs(d, waiters'[g])
    <3>1. CASE g = h
      BY <2>1, <2>2, <2>4, <3>1, TailKeeps
    <3>2. CASE g # h
      BY <2>2, <2>4, <3>2
    <3>. QED
      BY <3>1, <3>2
  <2>5. ASSUME NEW d \in Callers \ {c}, InClosure(d)
        PROVE  handle[d] \in Handles \ {h} /\ waiters'[handle[d]] = waiters[handle[d]]
    BY <1>held, <2>1, <2>2, <2>5 DEF LockInv, InClosure, Holding
  <2>. QED
    BY <1>held, <2>3, <2>4, <2>5 DEF LockInv, InClosure, Holding
<1>9. CASE Clear \/ UNCHANGED vars
  BY <1>9 DEF Clear, vars, LockInv, Occurs, InClosure
<1>. QED
  BY <1>2, <1>3, <1>4, <1>5, <1>6, <1>7, <1>8, <1>9 DEF Next, Progress

\* What the theorems below rest on.
LEMMA Invariant == Spec => [](TypeOK /\ LockInv)
<1>1. Init => TypeOK /\ LockInv
  BY InitTypeOK, InitLockInv
<1>2. TypeOK /\ LockInv /\ [Next]_vars => (TypeOK /\ LockInv)'
  BY NextTypeOK, NextLockInv
<1>. QED
  BY <1>1, <1>2, PTL DEF Spec

\* Every variable keeps its type, whatever the calls and however they end.
THEOREM TypeCorrect == Spec => []TypeOK
  BY Invariant, PTL

\* Two closures never run on one handle at a time (TaskRepo::with_replica).
THEOREM Exclusion == Spec => []HandleExclusive
<1>1. LockInv => HandleExclusive
  BY DEF LockInv, HandleExclusive
<1>. QED
  BY <1>1, Invariant, PTL

\* A published entry is never replaced, only cleared (RepoCache::get_or_open).
THEOREM EntryNeverReplaced == Spec => EntryKept
<1>1. TypeOK /\ [Next]_vars =>
        [\A p \in Paths : cache[p] # NoHandle => cache'[p] \in {cache[p], NoHandle}]_cache
  <2> SUFFICES ASSUME TypeOK, [Next]_vars, cache' # cache
               PROVE  \A p \in Paths : cache[p] # NoHandle => cache'[p] \in {cache[p], NoHandle}
    OBVIOUS
  <2>1. CASE Clear
    BY <2>1 DEF Clear
  <2>2. ASSUME NEW c \in Callers, Publish(c)
        PROVE  \A p \in Paths : cache[p] # NoHandle => cache'[p] = cache[p]
    BY <2>2 DEF Publish, OrInsert, TypeOK
  <2>. QED
    BY <2>1, <2>2 DEF Next, Progress, vars, Invoke, Lookup, Open, OpenFails, Enqueue,
       Get, ReadForUpdate, Commit, CloseWithError, Leave, Return
<1>. QED
  BY <1>1, TypeCorrect, PTL DEF Spec, EntryKept

-----------------------------------------------------------------------------
(* Refinement, when every path is open and clear is not called.            *)

\* With one handle per path, the exclusion of closures on a handle becomes the
\* exclusion of closures on a path, and what a closure read is still there when
\* it commits.
WarmInv ==
  /\ \A p \in Paths : cache[p] \in Handles
  /\ \A c \in Callers :
       /\ pc[c] \notin {"open", "publish"}
       /\ pc[c] \in {"lock", "queued", "modify", "leave"} => handle[c] = cache[call[c].path]
       /\ pc[c] = "modify" =>
            call[c].op = "set" /\ snapshot[c] = store[call[c].path]
       /\ outcome[c] = "none" <=> pc[c] \notin {"leave", "done"}

\* When every path is open, every path has its handle in the cache.
LEMMA InitWarmInv ==
  ASSUME Warm = Paths
  PROVE  Init => WarmInv
  BY DEF Init, WarmInv

\* As long as clear is not called, every call uses the handle in the cache.
LEMMA NextWarmInv ==
  ASSUME ~MayClear
  PROVE  TypeOK /\ LockInv /\ WarmInv /\ [Next]_vars => WarmInv'
<1> SUFFICES ASSUME TypeOK, LockInv, WarmInv, [Next]_vars
             PROVE  WarmInv'
  OBVIOUS
<1> USE DEF WarmInv
<1>1. ASSUME NEW c \in Callers, Invoke(c) \/ Enqueue(c) \/ Leave(c) \/ Return(c)
      PROVE  WarmInv'
  BY <1>1 DEF Invoke, Enqueue, Leave, Return, TypeOK
<1>2. ASSUME NEW c \in Callers, Lookup(c)
      PROVE  WarmInv'
  <2>1. cache[call[c].path] \in Handles
    BY <1>2 DEF Lookup, TypeOK, Calls
  <2>. QED
    BY <1>2, <2>1, RepoCacheAssumption DEF Lookup, TypeOK
<1>3. ASSUME NEW c \in Callers, Open(c) \/ OpenFails(c) \/ Publish(c)
      PROVE  WarmInv'
  BY <1>3 DEF Open, OpenFails, Publish
<1>4. ASSUME NEW c \in Callers, Get(c) \/ CloseWithError(c)
      PROVE  WarmInv'
  BY <1>4 DEF Get, CloseWithError, HasLock, TypeOK
<1>5. ASSUME NEW c \in Callers, ReadForUpdate(c)
      PROVE  WarmInv'
  <2>1. store[call[c].path] \subseteq Tags
    BY <1>5 DEF ReadForUpdate, HasLock, TypeOK, Calls
  <2>. QED
    BY <1>5, <2>1 DEF ReadForUpdate, HasLock, TypeOK
<1>6. ASSUME NEW c \in Callers, Commit(c)
      PROVE  WarmInv'
  <2>1. ASSUME NEW d \in Callers, d # c, pc[d] = "modify"
        PROVE  call[d].path # call[c].path
    BY <1>6, <2>1 DEF Commit, LockInv, InClosure
  <2>2. \A d \in Callers : pc[d] = "modify" => call[d].path \in Paths
    BY DEF TypeOK, Calls
  <2>3. \A d \in Callers \ {c} : pc[d] = "modify" =>
          store'[call[d].path] = store[call[d].path]
    BY <1>6, <2>1, <2>2 DEF Commit, TypeOK
  <2>. QED
    BY <1>6, <2>3 DEF Commit, TypeOK
<1>7. CASE Clear
  BY <1>7 DEF Clear
<1>8. CASE UNCHANGED vars
  BY <1>8 DEF vars
<1>. QED
  BY <1>1, <1>2, <1>3, <1>4, <1>5, <1>6, <1>7, <1>8 DEF Next, Progress

\* The initial states are initial states of the abstract store.
LEMMA InitSerial == Init => Serial!Init
  BY DEF Init, Serial!Init, PhaseOf, SeenBy

\* Moving one caller moves at most its own component of the mapped functions.
LEMMA MapFrame ==
  ASSUME NEW c \in Callers,
         \A d \in Callers \ {c} : /\ pc'[d] = pc[d] /\ call'[d] = call[d]
                                  /\ outcome'[d] = outcome[d]
                                  /\ snapshot'[d] = snapshot[d]
  PROVE  /\ [d \in Callers |-> PhaseOf(d)]'
              = [[d \in Callers |-> PhaseOf(d)] EXCEPT ![c] = PhaseOf(c)']
         /\ [d \in Callers |-> SeenBy(d)]'
              = [[d \in Callers |-> SeenBy(d)] EXCEPT ![c] = SeenBy(c)']
  BY DEF PhaseOf, SeenBy

\* Each step of the FFI is a step of the abstract store or changes nothing of it.
LEMMA NextSerial ==
  ASSUME ~MayClear
  PROVE  TypeOK /\ LockInv /\ WarmInv /\ [Next]_vars => [Serial!Next]_(Serial!vars)
<1> SUFFICES ASSUME TypeOK, LockInv, WarmInv, [Next]_vars
             PROVE  Serial!Next \/ UNCHANGED Serial!vars
  OBVIOUS
<1> DEFINE phase == [d \in Callers |-> PhaseOf(d)]
           seen == [d \in Callers |-> SeenBy(d)]
\* The shape of a step of caller c that leaves the mapped value of c alone.
<1>1. ASSUME NEW c \in Callers, Lookup(c) \/ Enqueue(c) \/ ReadForUpdate(c) \/ Leave(c)
      PROVE  UNCHANGED Serial!vars
  <2>1. PhaseOf(c)' = PhaseOf(c) /\ SeenBy(c)' = SeenBy(c)
    BY <1>1 DEF Lookup, Enqueue, ReadForUpdate, HasLock, Leave, PhaseOf, SeenBy, TypeOK,
       WarmInv
  <2>2. UNCHANGED <<store, call, outcome>>
    BY <1>1 DEF Lookup, Enqueue, ReadForUpdate, Leave
  <2>3. UNCHANGED <<phase, seen>>
    <3>1. \A d \in Callers \ {c} : /\ pc'[d] = pc[d] /\ call'[d] = call[d]
                                   /\ snapshot'[d] = snapshot[d] /\ outcome'[d] = outcome[d]
      BY <1>1 DEF Lookup, Enqueue, ReadForUpdate, Leave, TypeOK
    <3>. QED
      BY <2>1, <3>1, MapFrame
  <2>. QED
    BY <2>2, <2>3 DEF Serial!vars
<1>2. ASSUME NEW c \in Callers, Invoke(c)
      PROVE  Serial!Invoke(c)
  <2>1. PhaseOf(c) = "idle" /\ PhaseOf(c)' = "pending" /\ SeenBy(c)' = SeenBy(c)
    BY <1>2 DEF Invoke, PhaseOf, SeenBy, TypeOK, WarmInv
  <2>. QED
    BY <1>2, <2>1, MapFrame DEF Invoke, Serial!Invoke, Serial!Calls, Calls, TypeOK
<1>3. ASSUME NEW c \in Callers, Get(c)
      PROVE  Serial!Get(c)
  <2>1. /\ PhaseOf(c) = "pending" /\ PhaseOf(c)' = "done"
        /\ SeenBy(c)' = store[call[c].path]
    BY <1>3 DEF Get, HasLock, PhaseOf, SeenBy, TypeOK, WarmInv
  <2>. QED
    BY <1>3, <2>1, MapFrame DEF Get, Serial!Get, Serial!Finish, TypeOK
<1>4. ASSUME NEW c \in Callers, Commit(c)
      PROVE  Serial!Set(c)
  <2>1. /\ PhaseOf(c) = "pending" /\ PhaseOf(c)' = "done" /\ SeenBy(c)' = SeenBy(c)
        /\ call[c].op = "set"
    BY <1>4 DEF Commit, PhaseOf, SeenBy, TypeOK, WarmInv
  <2>2. Written(c) = call[c].tags
    BY <1>4 DEF Commit, Written, WarmInv
  <2>. QED
    BY <1>4, <2>1, <2>2, MapFrame DEF Commit, Serial!Set, Serial!Finish, TypeOK
<1>5. ASSUME NEW c \in Callers, CloseWithError(c)
      PROVE  Serial!Fail(c)
  <2>1. PhaseOf(c) = "pending" /\ PhaseOf(c)' = "done" /\ SeenBy(c)' = SeenBy(c)
    BY <1>5 DEF CloseWithError, HasLock, PhaseOf, SeenBy, TypeOK, WarmInv
  <2>. QED
    BY <1>5, <2>1, MapFrame DEF CloseWithError, Serial!Fail, Serial!Finish, TypeOK
<1>6. ASSUME NEW c \in Callers, Return(c)
      PROVE  Serial!Return(c)
  <2>1. PhaseOf(c) = "done" /\ PhaseOf(c)' = "idle" /\ SeenBy(c)' = {}
    BY <1>6 DEF Return, PhaseOf, SeenBy, TypeOK, WarmInv
  <2>. QED
    BY <1>6, <2>1, MapFrame DEF Return, Serial!Return, TypeOK
<1>7. \A c \in Callers : ~Open(c) /\ ~OpenFails(c) /\ ~Publish(c)
  BY DEF WarmInv, Open, OpenFails, Publish
<1>8. ~Clear
  BY DEF Clear
<1>9. CASE UNCHANGED vars
  BY <1>9 DEF vars, Serial!vars, PhaseOf, SeenBy
<1>. QED
  BY <1>1, <1>2, <1>3, <1>4, <1>5, <1>6, <1>7, <1>8, <1>9 DEF Next, Progress, Serial!Next

\* With every path open, the FFI's calls implement the abstract store: each
\* takes effect at one instant and an update leaves what it was given.
THEOREM SerialWhenOpen ==
  ASSUME Warm = Paths, ~MayClear
  PROVE  Spec => SerialSpec
<1>1. Init => WarmInv
  BY InitWarmInv
<1>2. TypeOK /\ LockInv /\ WarmInv /\ [Next]_vars => WarmInv'
  BY NextWarmInv
<1>3. Init => Serial!Init
  BY InitSerial
<1>4. TypeOK /\ LockInv /\ WarmInv /\ [Next]_vars => [Serial!Next]_(Serial!vars)
  BY NextSerial
<1>. QED
  BY <1>1, <1>2, <1>3, <1>4, Invariant, PTL DEF Spec, SerialSpec, Serial!Spec

-----------------------------------------------------------------------------
(* The loser of a race keeps its handle to itself.                         *)

\* Without clear, a cached handle is the entry of one path, and whoever holds
\* it called for that path; a handle on its way into the cache is not there yet.
\* Then a caller can only get a handle that another one holds from the cache.
PrivateInv ==
  /\ \A p, q \in Paths : cache[p] # NoHandle /\ cache[p] = cache[q] => p = q
  /\ \A c \in Callers, p \in Paths :
       handle[c] # NoHandle /\ handle[c] = cache[p] => call[c].path = p
  /\ \A c \in Callers :
       pc[c] = "publish" => handle[c] # NoHandle /\ \A p \in Paths : cache[p] # handle[c]
  /\ \A c \in Callers : pc[c] \in {"idle", "lookup", "open", "done"} => handle[c] = NoHandle

\* A step that neither hands out a handle nor publishes one.
LEMMA PrivateKept ==
  ASSUME PrivateInv, LoserPrivate, TypeOK, cache' = cache,
         \A c \in Callers : handle'[c] \in {handle[c], NoHandle},
         \A c \in Callers : handle'[c] # NoHandle => call'[c] = call[c],
         \A c \in Callers : pc'[c] = "publish" => pc[c] = "publish" /\ handle'[c] = handle[c],
         \A c \in Callers :
           pc'[c] \in {"idle", "lookup", "open", "done"} => handle'[c] = NoHandle
  PROVE  PrivateInv' /\ LoserPrivate'
  BY DEF PrivateInv, LoserPrivate

\* Every step of a process that does not clear its cache.
LEMMA PrivateSteps ==
  ASSUME ~MayClear, TypeOK, PrivateInv, LoserPrivate, [Next]_vars
  PROVE  PrivateInv' /\ LoserPrivate'
<1>1. ASSUME NEW c \in Callers, Invoke(c) PROVE PrivateInv' /\ LoserPrivate'
  <2>1. handle[c] = NoHandle
    BY <1>1 DEF Invoke, PrivateInv
  <2>. QED
    BY <1>1, <2>1, PrivateKept DEF Invoke, TypeOK, PrivateInv
<1>2. ASSUME NEW c \in Callers, Lookup(c) PROVE PrivateInv' /\ LoserPrivate'
  <2>. DEFINE p == call[c].path
  <2>1. p \in Paths
    BY <1>2 DEF Lookup, TypeOK, Calls
  <2>2. handle'[c] = cache[p] /\ UNCHANGED <<cache, call>>
    BY <1>2 DEF Lookup, TypeOK
  <2>3. \A d \in Callers \ {c} : handle'[d] = handle[d] /\ pc'[d] = pc[d]
    BY <1>2 DEF Lookup, TypeOK
  <2>4. pc'[c] = (IF cache[p] = NoHandle THEN "open" ELSE "lock")
    BY <1>2 DEF Lookup, TypeOK
  <2>5. PrivateInv'
    BY <2>1, <2>2, <2>3, <2>4 DEF PrivateInv
  <2>6. LoserPrivate'
    BY <2>1, <2>2, <2>3 DEF PrivateInv, LoserPrivate
  <2>. QED
    BY <2>5, <2>6
<1>3. ASSUME NEW c \in Callers, Open(c) PROVE PrivateInv' /\ LoserPrivate'
  <2>1. PICK h \in Handles : Dropped(h) /\ handle' = [handle EXCEPT ![c] = h]
    BY <1>3 DEF Open
  <2>2. h # NoHandle /\ handle'[c] = h
    BY <2>1, RepoCacheAssumption DEF TypeOK
  <2>3. \A d \in Callers \ {c} : handle'[d] = handle[d] /\ pc'[d] = pc[d]
    BY <1>3, <2>1 DEF Open, TypeOK
  <2>4. pc'[c] = "publish" /\ UNCHANGED <<cache, call>>
    BY <1>3 DEF Open, TypeOK
  <2>5. PrivateInv'
    BY <2>1, <2>2, <2>3, <2>4 DEF PrivateInv, Dropped
  <2>6. LoserPrivate'
    BY <2>1, <2>2, <2>3, <2>4 DEF LoserPrivate, Dropped
  <2>. QED
    BY <2>5, <2>6
<1>4. ASSUME NEW c \in Callers, Publish(c) PROVE PrivateInv' /\ LoserPrivate'
  <2>. DEFINE p == call[c].path
  <2>1. /\ p \in Paths /\ cache' = [cache EXCEPT ![p] = OrInsert(p, handle[c])]
        /\ pc[c] = "publish" /\ pc' = [pc EXCEPT ![c] = "lock"]
        /\ UNCHANGED <<handle, call>>
    BY <1>4 DEF Publish, TypeOK, Calls
  <2>2. handle[c] # NoHandle /\ \A q \in Paths : cache[q] # handle[c]
    BY <2>1 DEF PrivateInv
  <2>3. CASE cache[p] # NoHandle
    <3>1. cache' = cache
      BY <2>1, <2>3 DEF OrInsert, TypeOK
    <3>. QED
      BY <2>1, <3>1, PrivateKept DEF TypeOK, PrivateInv
  <2>4. CASE cache[p] = NoHandle
    <3>1. cache'[p] = handle[c] /\ \A q \in Paths \ {p} : cache'[q] = cache[q]
      BY <2>1, <2>4 DEF OrInsert, TypeOK
    <3>2. \A d \in Callers \ {c} : call[d] \in Calls /\ handle[d] = handle[c] => FALSE
      BY <2>2 DEF LoserPrivate, Calls
    <3>3. \A d \in Callers : handle[d] # NoHandle => call[d] \in Calls
      BY DEF TypeOK, PrivateInv
    <3>4. \A d \in Callers \ {c} : handle[d] # handle[c]
      BY <2>2, <3>2, <3>3
    <3>5. \A d \in Callers : pc'[d] = "publish" => d # c /\ pc[d] = "publish"
      BY <2>1 DEF TypeOK
    <3>6. \A d \in Callers : pc'[d] = pc[d] \/ pc'[d] = "lock"
      BY <2>1 DEF TypeOK
    <3>7. PrivateInv'
      BY <2>1, <2>2, <3>1, <3>4, <3>5, <3>6 DEF PrivateInv
    <3>8. ASSUME NEW d \in Callers, NEW e \in Callers, d # e, handle[d] = handle[e],
                 handle[d] # NoHandle
          PROVE  cache'[call[d].path] = handle[d]
      <4>1. cache[call[d].path] = handle[d] /\ call[d].path \in Paths
        BY <3>3, <3>8 DEF LoserPrivate, Calls
      <4>. QED
        BY <2>4, <3>1, <3>8, <4>1
    <3>. QED
      BY <2>1, <3>7, <3>8 DEF LoserPrivate
  <2>. QED
    BY <2>3, <2>4
<1>5. ASSUME NEW c \in Callers, Leave(c) \/ Return(c) PROVE PrivateInv' /\ LoserPrivate'
  BY <1>5, PrivateKept DEF Leave, Return, TypeOK, PrivateInv
<1>6. ASSUME NEW c \in Callers, \/ OpenFails(c) \/ Enqueue(c) \/ Get(c) \/ ReadForUpdate(c)
                                \/ Commit(c) \/ CloseWithError(c)
      PROVE  PrivateInv' /\ LoserPrivate'
  BY <1>6, PrivateKept
  DEF OpenFails, Enqueue, Get, ReadForUpdate, Commit, CloseWithError, HasLock, TypeOK, PrivateInv
<1>7. CASE UNCHANGED vars
  BY <1>7, PrivateKept DEF vars, TypeOK, PrivateInv
<1>. QED
  BY <1>1, <1>2, <1>3, <1>4, <1>5, <1>6, <1>7 DEF Next, Progress, Clear

\* While nobody clears the cache, a handle that two calls share is the entry of
\* their path: the one that lost the race for a path stays with its opener.
THEOREM LosersKeepToThemselves ==
  ASSUME ~MayClear
  PROVE  Spec => []LoserPrivate
<1>1. Init => PrivateInv /\ LoserPrivate
  BY RepoCacheAssumption DEF Init, PrivateInv, LoserPrivate
<1>2. ~MayClear /\ TypeOK /\ PrivateInv /\ LoserPrivate /\ [Next]_vars => PrivateInv' /\ LoserPrivate'
  BY PrivateSteps
<1>. QED
  BY <1>1, <1>2, Invariant, PTL DEF Spec
=============================================================================
