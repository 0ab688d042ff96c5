------------------------- MODULE ClientStoreProofs -------------------------
(***************************************************************************)
(* Theorems about ClientStore, for every number of calls, tasks, files and *)
(* every debounce delay: it is the client of Client, its events are fresh, *)
(* and no task that was written waits for a sync that is not coming.       *)
(***************************************************************************)
EXTENDS ClientStore, ClientProofs

-----------------------------------------------------------------------------
(* The composition takes steps of the client.                              *)

\* A version in a call's hands is that of a task, and a number.
LEMMA CarriedVersions ==
  ASSUME StoreTypeOK, NEW i \in Calls
  PROVE  /\ DOMAIN carried[i] \subseteq Tasks
         /\ \A t \in DOMAIN carried[i] : carried[i][t] \in Nat
         /\ \A t \in Tasks : least[i][t] \in Nat
<1>1. SomeVersions(carried[i]) /\ least[i] \in Versions
  BY DEF StoreTypeOK
<1>. QED
  BY <1>1 DEF SomeVersions, Versions

\* Whatever the store does, the client takes a step of its own or none.
LEMMA ClientSteps == ASSUME StoreTypeOK, [DataNext]_dataVars PROVE [Next]_vars
<1>1. ASSUME NEW i \in Calls, CallChange(i) \/ CallOther(i) PROVE Next
  BY <1>1 DEF CallChange, CallOther, Next, Program
<1>2. ASSUME NEW i \in Calls, StoreStep(i) PROVE UNCHANGED vars
  BY <1>2 DEF StoreStep, WriteServed, WriteRefused, ReadServed, ReadFails, SyncServed, SyncFails,
              Serve
<1>3. ASSUME NEW i \in Calls, ReceiveWritten(i) \/ ReceiveFailure(i) \/ ReceiveOther(i) PROVE Next
  BY <1>3 DEF ReceiveWritten, ReceiveFailure, ReceiveOther, Next, Replies
<1>4. ASSUME NEW i \in Calls, ReceiveRead(i) PROVE Next
  <2>1. DOMAIN carried[i] \in SUBSET Tasks
    BY CarriedVersions
  <2>2. Replies(i)
    BY <1>4, <2>1 DEF ReceiveRead, Replies
  <2>. QED
    BY <2>2 DEF Next
<1>5. CallDisconnect \/ CallDispose \/ CallDeliver \/ Clock => Next
  BY DEF CallDisconnect, CallDispose, CallDeliver, Clock, Next
<1>. QED
  BY <1>1, <1>2, <1>3, <1>4, <1>5 DEF DataNext, Replied, dataVars

-----------------------------------------------------------------------------
(* Types.                                                                  *)

\* Nothing is carried, but between the read and the reply; a call that asks
\* nothing of the store has no answer from it.
CallInv ==
  \A i \in Calls :
    /\ DOMAIN carried[i] # {} => state[i] = "refetch" /\ answer[i] = "done"
    /\ state[i] \in {"free", "connect"} => answer[i] = "none"

\* What the store does with a version keeps it one.
LEMMA Bumped ==
  ASSUME NEW f \in Versions, NEW W \in SUBSET Tasks
  PROVE  [t \in Tasks |-> IF t \in W THEN f[t] + 1 ELSE f[t]] \in Versions
  BY DEF Versions

\* The functions that calls carry.
LEMMA NothingCarried == SomeVersions(NoTask) /\ DOMAIN NoTask = {}
<1>1. NoTask \in [{} -> Nat] /\ {} \in SUBSET Tasks
  BY DEF NoTask
<1>. QED
  BY <1>1 DEF NoTask, SomeVersions

LEMMA Carriers ==
  ASSUME StoreTypeOK, NEW S \in SUBSET Tasks
  PROVE  SomeVersions(ReadBack(S)) /\ DOMAIN ReadBack(S) = S
<1>1. ReadBack(S) \in [S -> Nat]
  BY DEF StoreTypeOK, ReadBack, Versions
<1>. QED
  BY <1>1 DEF ReadBack, SomeVersions

\* The initial state.
LEMMA StoreInit == DataInit => StoreTypeOK /\ CallInv
<1>. SUFFICES ASSUME DataInit PROVE StoreTypeOK /\ CallInv
  OBVIOUS
<1>2. stored \in Versions /\ announced \in Versions /\ least \in [Calls -> Versions]
  BY DEF DataInit, Versions
<1>. QED
  BY <1>2, NothingCarried DEF DataInit, StoreTypeOK, CallInv, Kinds

\* A call of the program.
LEMMA CallsKeep ==
  ASSUME StoreTypeOK, CallInv, TypeOK, NEW i \in Calls, CallChange(i) \/ CallOther(i)
  PROVE  StoreTypeOK' /\ CallInv'
<1>1. CASE CallChange(i)
  <2>1. PICK k \in Kinds, T \in SUBSET Tasks :
          /\ kind' = [kind EXCEPT ![i] = k]
          /\ on' = [on EXCEPT ![i] = T]
          /\ least' = [least EXCEPT ![i] =
                         [t \in Tasks |-> IF k = "import" \/ t \in T THEN announced[t] ELSE 0]]
    BY <1>1 DEF CallChange
  <2>2. [t \in Tasks |-> IF k = "import" \/ t \in T THEN announced[t] ELSE 0] \in Versions
    BY DEF StoreTypeOK, Versions
  <2>3. /\ kind' \in [Calls -> Kinds \cup {"none"}]
        /\ on' \in [Calls -> SUBSET Tasks]
        /\ least' \in [Calls -> Versions]
    BY <2>1, <2>2 DEF StoreTypeOK
  <2>4. StoreTypeOK'
    BY <1>1, <2>3 DEF CallChange, StoreTypeOK, Versions
  <2>5. CallInv'
    BY <1>1 DEF CallChange, StartChange, Start, CallInv, TypeOK
  <2>. QED
    BY <2>4, <2>5
<1>2. CASE CallOther(i)
  BY <1>2 DEF CallOther, StartConnect, StartSync, Start, data, StoreTypeOK, CallInv, TypeOK, Versions
<1>. QED
  BY <1>1, <1>2

\* A request that the store serves.
LEMMA ServiceKeeps ==
  ASSUME StoreTypeOK, CallInv, TypeOK, NEW i \in Calls, StoreStep(i)
  PROVE  StoreTypeOK' /\ CallInv'
<1>1. CASE WriteServed(i)
  <2>1. PICK W \in MayWrite(i) :
          /\ Serve(i, "write", IF RowFails(i, W) THEN "error" ELSE "done")
          /\ stored' = [t \in Tasks |-> IF t \in W THEN stored[t] + 1 ELSE stored[t]]
          /\ on' = [on EXCEPT ![i] = IF kind[i] = "change" THEN @ ELSE W]
          /\ least' = [least EXCEPT ![i] = [t \in Tasks |-> IF t \in W THEN stored'[t] ELSE @[t]]]
          /\ unsynced' = unsynced \cup W
          /\ UNCHANGED <<carried, posted, asked, excused>>
    BY <1>1 DEF WriteServed
  <2>2. W \in SUBSET Tasks
    BY DEF MayWrite
  <2>3. stored' \in Versions
    BY <2>1, <2>2, Bumped DEF StoreTypeOK
  <2>4. [t \in Tasks |-> IF t \in W THEN stored'[t] ELSE least[i][t]] \in Versions
    BY <2>3 DEF StoreTypeOK, Versions
  <2>5. least' \in [Calls -> Versions] /\ on' \in [Calls -> SUBSET Tasks]
    BY <2>1, <2>2, <2>4 DEF StoreTypeOK
  <2>6. answer' \in [Calls -> {"none", "done", "error"}]
    BY <2>1 DEF Serve, StoreTypeOK
  <2>7. CallInv'
    BY <2>1 DEF Serve, vars, CallInv, StoreTypeOK
  <2>. QED
    BY <2>1, <2>2, <2>3, <2>5, <2>6, <2>7 DEF Serve, StoreTypeOK
<1>2. CASE WriteRefused(i)
  BY <1>2 DEF WriteRefused, Serve, vars, StoreTypeOK, CallInv, Versions
<1>3. CASE ReadServed(i)
  <2>1. PICK S \in Announced(i) : carried' = [carried EXCEPT ![i] = ReadBack(S)]
    BY <1>3 DEF ReadServed
  <2>2. S \in SUBSET Tasks
    BY DEF Announced, Known, StoreTypeOK
  <2>3. DOMAIN carried' = Calls /\ \A j \in Calls : SomeVersions(carried'[j])
    BY <2>1, <2>2, Carriers DEF StoreTypeOK
  <2>4. StoreTypeOK'
    BY <1>3, <2>3 DEF ReadServed, Serve, StoreTypeOK, Versions
  <2>5. CallInv'
    BY <1>3, <2>1 DEF ReadServed, Serve, vars, CallInv, StoreTypeOK
  <2>. QED
    BY <2>4, <2>5
<1>4. CASE ReadFails(i)
  BY <1>4 DEF ReadFails, Serve, vars, StoreTypeOK, CallInv, Versions
<1>5. CASE SyncServed(i)
  <2>1. PICK R \in SUBSET {t \in Tasks : stored[t] < MaxVersion} :
          stored' = [t \in Tasks |-> IF t \in R THEN stored[t] + 1 ELSE stored[t]]
    BY <1>5 DEF SyncServed
  <2>2. stored' \in Versions
    BY <2>1, Bumped DEF StoreTypeOK
  <2>. QED
    BY <1>5, <2>2 DEF SyncServed, Serve, vars, StoreTypeOK, CallInv
<1>6. CASE SyncFails(i)
  <2>1. asked' \subseteq Tasks /\ excused' \subseteq Tasks
    BY <1>6 DEF SyncFails, StoreTypeOK
  <2>2. StoreTypeOK'
    BY <1>6, <2>1 DEF SyncFails, Serve, StoreTypeOK
  <2>3. CallInv'
    BY <1>6 DEF SyncFails, Serve, vars, CallInv, StoreTypeOK
  <2>. QED
    BY <2>2, <2>3
<1>. QED
  BY <1>1, <1>2, <1>3, <1>4, <1>5, <1>6 DEF StoreStep

\* The end of a call.
LEMMA ForgetKeeps ==
  ASSUME StoreTypeOK, NEW i \in Calls, Forget(i)
  PROVE  /\ on' \in [Calls -> SUBSET Tasks] /\ kind' \in [Calls -> Kinds \cup {"none"}]
         /\ DOMAIN carried' = Calls /\ \A j \in Calls : SomeVersions(carried'[j])
         /\ least' \in [Calls -> Versions]
         /\ DOMAIN carried'[i] = {}
         /\ \A j \in Calls \ {i} : carried'[j] = carried[j]
<1>1. [t \in Tasks |-> 0] \in Versions
  BY DEF Versions
<1>. QED
  BY <1>1, NothingCarried DEF Forget, StoreTypeOK

\* The queue is empty when a reply comes: what it adds is what the call carries.
LEMMA AddedAreCarried ==
  ASSUME NEW i \in Calls, ReceiveRead(i)
  PROVE  pending' \subseteq DOMAIN carried[i]
  BY DEF ReceiveRead, ChangeReplies, FfiReply, Quiet, Emitted

\* A reply that the client receives.
LEMMA RepliesKeep ==
  ASSUME StoreTypeOK, CallInv, TypeOK, NEW i \in Calls, Replied(i)
  PROVE  StoreTypeOK' /\ CallInv'
<1>1. CASE ReceiveWritten(i)
  BY <1>1 DEF ReceiveWritten, WriteReplies, FfiReply, Reply, Receive, StoreTypeOK, CallInv, TypeOK, Versions
<1>2. CASE ReceiveFailure(i)
  <2>1. StoreTypeOK'
    BY <1>2, ForgetKeeps DEF ReceiveFailure, Receive, StoreTypeOK, Versions
  <2>2. CallInv'
    BY <1>2, ForgetKeeps DEF ReceiveFailure, ChangeFails, FfiReply, Reply, Receive, CallInv, TypeOK, StoreTypeOK
  <2>. QED
    BY <2>1, <2>2
<1>3. CASE ReceiveRead(i)
  <2>1. SomeVersions(carried[i]) /\ pending' \subseteq DOMAIN carried[i]
    BY <1>3, AddedAreCarried DEF StoreTypeOK
  <2>2. [t \in Tasks |-> IF t \in pending' THEN carried[i][t] ELSE announced[t]] \in Versions
    BY <2>1 DEF StoreTypeOK, SomeVersions, Versions
  <2>3. announced' \in Versions
    BY <1>3, <2>2 DEF ReceiveRead, StoreTypeOK
  <2>4. posted' \subseteq Tasks /\ excused' \subseteq Tasks
    BY <1>3 DEF ReceiveRead, StoreTypeOK
  <2>5. StoreTypeOK'
    BY <1>3, <2>3, <2>4, ForgetKeeps DEF ReceiveRead, Receive, StoreTypeOK
  <2>6. CallInv'
    BY <1>3, ForgetKeeps
    DEF ReceiveRead, ChangeReplies, FfiReply, Reply, Receive, CallInv, TypeOK, StoreTypeOK
  <2>. QED
    BY <2>5, <2>6
<1>4. CASE ReceiveOther(i)
  <2>1. UNCHANGED <<stored, kind, on, carried, least, announced, posted, asked, unsynced, excused>>
    BY <1>4 DEF ReceiveOther
  <2>2. answer' = answer \/ answer' = [answer EXCEPT ![i] = "none"]
    BY <1>4 DEF ReceiveOther
  <2>3. StoreTypeOK'
    BY <2>1, <2>2 DEF StoreTypeOK
  <2>4. CASE ConnectReplies(i) /\ UNCHANGED answer
    BY <2>1, <2>3, <2>4 DEF ConnectReplies, Reply, CallInv, TypeOK, StoreTypeOK
  <2>5. CASE (SyncReplies(i) \/ AutoSyncReplies(i)) /\ answer' = [answer EXCEPT ![i] = "none"]
    BY <2>1, <2>3, <2>5 DEF SyncReplies, AutoSyncReplies, FfiReply, Reply, CallInv, TypeOK, StoreTypeOK
  <2>. QED
    BY <1>4, <2>3, <2>4, <2>5 DEF ReceiveOther
<1>. QED
  BY <1>1, <1>2, <1>3, <1>4 DEF Replied

\* Every step keeps the types and what calls have from the store.
LEMMA StoreStepKeeps ==
  ASSUME StoreTypeOK, CallInv, TypeOK, [DataNext]_dataVars
  PROVE  StoreTypeOK' /\ CallInv'
<1>1. CASE CallDisconnect
  BY <1>1 DEF CallDisconnect, Disconnect, data, StoreTypeOK, CallInv, Versions
<1>2. CASE CallDispose
  BY <1>2 DEF CallDispose, Dispose, StoreTypeOK, CallInv, Versions
<1>3. CASE Clock
  BY <1>3 DEF Clock, Tick, TimerFires, data, StoreTypeOK, CallInv, TypeOK, Versions
<1>4. CASE UNCHANGED dataVars
  BY <1>4 DEF dataVars, vars, data, StoreTypeOK, CallInv, Versions
<1>5. CASE CallDeliver
  BY <1>5 DEF CallDeliver, Deliver, StoreTypeOK, CallInv, Versions
<1>. QED
  BY <1>1, <1>2, <1>3, <1>4, <1>5, CallsKeep, ServiceKeeps, RepliesKeep DEF DataNext

\* The composition stays well typed; above all, what a call carries is a
\* version of tasks that exist, and only between its read and its reply.
THEOREM StoreTypeCorrect == DataSpec => [](DataTypeOK /\ CallInv)
<1>. DEFINE Inv == TypeOK /\ DisposedInv /\ StoreTypeOK /\ CallInv
<1>1. DataInit => Inv
  BY StoreInit, ClientInit DEF DataInit
<1>2. Inv /\ [DataNext]_dataVars => Inv'
  BY StoreStepKeeps, ClientSteps, ClientKeeps
<1>3. Inv => DataTypeOK /\ CallInv
  BY DEF DataTypeOK
<1>. QED
  BY <1>1, <1>2, <1>3, PTL DEF DataSpec

\* ClientStore implements Client: what is proved about the flag, the timer and
\* the stream holds of the composition.
THEOREM ClientImplemented == DataSpec => Spec
<1>1. DataInit => Init
  BY DEF DataInit
<1>2. StoreTypeOK /\ [DataNext]_dataVars => [Next]_vars
  BY ClientSteps
<1>3. DataSpec => []StoreTypeOK
  BY StoreTypeCorrect, PTL DEF DataTypeOK
<1>. QED
  BY <1>1, <1>2, <1>3, PTL DEF DataSpec, Spec

-----------------------------------------------------------------------------
(* Events are fresh.                                                       *)

\* No event, and nothing a call carries or must reach, is ahead of the store;
\* what a call carries has reached what the call must reach.  The store never
\* goes back, so that what is read after the write has reached the write.
FreshInv ==
  /\ \A t \in Tasks : announced[t] <= stored[t]
  /\ \A i \in Calls, t \in Tasks : least[i][t] <= stored[t]
  /\ \A i \in Calls : \A t \in DOMAIN carried[i] :
       least[i][t] <= carried[i][t] /\ carried[i][t] <= stored[t]

\* A write or a pull takes the store forward and leaves the rest behind it.
LEMMA StoreAhead ==
  ASSUME StoreTypeOK, FreshInv, \A t \in Tasks : stored'[t] \in Nat /\ stored[t] <= stored'[t],
         UNCHANGED <<announced, least, carried>>
  PROVE  FreshInv'
<1>1. \A t \in Tasks : stored[t] \in Nat /\ announced[t] \in Nat
  BY DEF StoreTypeOK, Versions
<1>. QED
  BY <1>1, CarriedVersions DEF FreshInv

\* Each step keeps the store ahead.
LEMMA FreshSteps ==
  ASSUME StoreTypeOK, StoreTypeOK', CallInv, FreshInv, [DataNext]_dataVars
  PROVE  FreshInv'
<1>. \A t \in Tasks : stored[t] \in Nat /\ stored'[t] \in Nat /\ announced[t] \in Nat
  BY DEF StoreTypeOK, Versions
<1>1. ASSUME NEW i \in Calls, CallChange(i) PROVE FreshInv'
  <2>1. PICK k \in Kinds, T \in SUBSET Tasks :
          least' = [least EXCEPT ![i] =
                      [t \in Tasks |-> IF k = "import" \/ t \in T THEN announced[t] ELSE 0]]
    BY <1>1 DEF CallChange
  <2>2. \A j \in Calls, t \in Tasks : least'[j][t] <= stored[t]
    BY <2>1 DEF FreshInv, StoreTypeOK
  <2>3. state[i] = "free" /\ UNCHANGED <<stored, announced, carried>>
    BY <1>1 DEF CallChange, StartChange, Start
  <2>4. DOMAIN carried[i] = {}
    BY <2>3 DEF CallInv
  <2>5. \A j \in Calls \ {i} : least'[j] = least[j]
    BY <2>1 DEF StoreTypeOK
  <2>. QED
    BY <2>2, <2>3, <2>4, <2>5 DEF FreshInv
<1>2. ASSUME NEW i \in Calls, WriteServed(i) PROVE FreshInv'
  <2>1. PICK W \in MayWrite(i) :
          /\ stored' = [t \in Tasks |-> IF t \in W THEN stored[t] + 1 ELSE stored[t]]
          /\ least' = [least EXCEPT ![i] = [t \in Tasks |-> IF t \in W THEN stored'[t] ELSE @[t]]]
    BY <1>2 DEF WriteServed
  <2>2. state[i] = "write" /\ UNCHANGED <<announced, carried>>
    BY <1>2 DEF WriteServed, Serve
  <2>3. DOMAIN carried[i] = {}
    BY <2>2 DEF CallInv
  <2>4. \A t \in Tasks : stored[t] <= stored'[t]
    BY <2>1
  <2>5. \A j \in Calls, t \in Tasks : least'[j][t] = least[j][t] \/ least'[j][t] = stored'[t]
    BY <2>1 DEF StoreTypeOK
  <2>6. \A j \in Calls \ {i} : least'[j] = least[j]
    BY <2>1 DEF StoreTypeOK
  <2>7. \A j \in Calls, t \in Tasks : least'[j][t] <= stored'[t]
    BY <2>4, <2>5, CarriedVersions DEF FreshInv
  <2>8. \A j \in Calls \ {i} : \A t \in DOMAIN carried[j] :
          least[j][t] <= carried[j][t] /\ carried[j][t] <= stored'[t]
    BY <2>4, CarriedVersions DEF FreshInv
  <2>9. \A t \in Tasks : announced[t] <= stored'[t]
    BY <2>4 DEF FreshInv
  <2>. QED
    BY <2>2, <2>3, <2>6, <2>7, <2>8, <2>9 DEF FreshInv
<1>3. ASSUME NEW i \in Calls, ReadServed(i) PROVE FreshInv'
  <2>1. PICK S \in Announced(i) : carried' = [carried EXCEPT ![i] = ReadBack(S)]
    BY <1>3 DEF ReadServed
  <2>2. S \in SUBSET Tasks
    BY DEF Announced, Known, StoreTypeOK
  <2>3. \A t \in S : carried'[i][t] = stored[t]
    BY <2>1 DEF ReadBack, StoreTypeOK
  <2>4. DOMAIN carried'[i] = S /\ \A j \in Calls \ {i} : carried'[j] = carried[j]
    BY <2>1, <2>2, Carriers DEF StoreTypeOK
  <2>5. UNCHANGED <<stored, announced, least>>
    BY <1>3 DEF ReadServed, Serve
  <2>. QED
    BY <2>2, <2>3, <2>4, <2>5 DEF FreshInv
<1>4. ASSUME NEW i \in Calls, SyncServed(i) PROVE FreshInv'
  <2>1. \A t \in Tasks : stored[t] <= stored'[t]
    BY <1>4 DEF SyncServed
  <2>. QED
    BY <1>4, <2>1, StoreAhead DEF SyncServed, Serve
<1>5. ASSUME NEW i \in Calls, Forget(i), stored' = stored,
             \A t \in Tasks : announced'[t] <= stored[t]
      PROVE  FreshInv'
  <2>1. \A t \in Tasks : least'[i][t] = 0
    BY <1>5 DEF Forget, StoreTypeOK
  <2>2. \A j \in Calls \ {i} : least'[j] = least[j]
    BY <1>5 DEF Forget, StoreTypeOK
  <2>. QED
    BY <1>5, <2>1, <2>2, ForgetKeeps DEF FreshInv
<1>6. ASSUME NEW i \in Calls, ReceiveRead(i) PROVE FreshInv'
  <2>1. \A t \in Tasks : announced'[t] = announced[t] \/ (t \in DOMAIN carried[i] /\ announced'[t] = carried[i][t])
    BY <1>6, AddedAreCarried DEF ReceiveRead
  <2>2. \A t \in Tasks : announced'[t] <= stored[t]
    BY <2>1 DEF FreshInv
  <2>. QED
    BY <1>5, <1>6, <2>2 DEF ReceiveRead, Receive
<1>7. ASSUME NEW i \in Calls, ReceiveFailure(i) PROVE FreshInv'
  BY <1>5, <1>7 DEF ReceiveFailure, Receive, FreshInv
<1>8. ASSUME UNCHANGED <<stored, announced, least, carried>> PROVE FreshInv'
  BY <1>8 DEF FreshInv
<1>9. ASSUME NEW i \in Calls, \/ CallOther(i) \/ WriteRefused(i) \/ ReadFails(i) \/ SyncFails(i)
                              \/ ReceiveWritten(i) \/ ReceiveOther(i)
      PROVE  FreshInv'
  BY <1>8, <1>9 DEF CallOther, WriteRefused, ReadFails, SyncFails, ReceiveWritten, ReceiveOther, Receive,
                    Serve, data
<1>10. ASSUME CallDisconnect \/ CallDispose \/ CallDeliver \/ Clock \/ UNCHANGED dataVars
       PROVE  FreshInv'
  BY <1>8, <1>10 DEF CallDisconnect, CallDispose, CallDeliver, Clock, dataVars, data
<1>. QED
  BY <1>1, <1>2, <1>3, <1>4, <1>6, <1>7, <1>9, <1>10 DEF DataNext, StoreStep, Replied

\* An event shows a task at least as new as the write it announces, and no
\* older than any event before the call was made.
THEOREM EventsAreFresh == DataSpec => EventIsFresh
<1>1. DataInit => FreshInv
  <2>. SUFFICES ASSUME DataInit PROVE FreshInv
    OBVIOUS
  <2>1. \A t \in Tasks : stored[t] = 0 /\ announced[t] = 0
    BY DEF DataInit
  <2>2. \A i \in Calls : least[i] = stored /\ DOMAIN carried[i] = {}
    BY NothingCarried DEF DataInit
  <2>. QED
    BY <2>1, <2>2 DEF FreshInv
<1>2. StoreTypeOK /\ StoreTypeOK' /\ CallInv /\ FreshInv /\ [DataNext]_dataVars => FreshInv'
  BY FreshSteps
<1>3. ASSUME TypeOK, StoreTypeOK, FreshInv, [DataNext]_dataVars, NEW i \in Calls,
             NEW t \in DOMAIN carried[i],
             state[i] = "refetch", state'[i] = "free", t \in pending'
      PROVE  announced'[t] >= least[i][t]
  <2>1. ASSUME NEW j \in Calls, CallChange(j) \/ CallOther(j) PROVE FALSE
    BY <1>3, <2>1 DEF CallChange, CallOther, StartChange, StartConnect, StartSync, Start, TypeOK
  <2>2. ASSUME NEW j \in Calls, StoreStep(j) PROVE FALSE
    BY <1>3, <2>2 DEF StoreStep, WriteServed, WriteRefused, ReadServed, ReadFails, SyncServed, SyncFails,
                      Serve, vars
  <2>3. CallDisconnect \/ CallDispose \/ CallDeliver \/ Clock \/ UNCHANGED dataVars => FALSE
    BY <1>3 DEF CallDisconnect, Disconnect, CallDispose, Dispose, CallDeliver, Deliver, Clock, Tick, TimerFires, dataVars, vars,
                TypeOK
  <2>4. ASSUME NEW j \in Calls, ReceiveWritten(j) \/ ReceiveFailure(j) PROVE FALSE
    BY <1>3, <2>4 DEF ReceiveWritten, WriteReplies, ReceiveFailure, ChangeFails, FfiReply, Reply, Quiet,
                      TypeOK
  <2>6. ASSUME NEW j \in Calls, ReceiveOther(j) PROVE FALSE
    BY <1>3, <2>6 DEF ReceiveOther, ConnectReplies, SyncReplies, AutoSyncReplies, FfiReply, Reply, TypeOK
  <2>5. ASSUME NEW j \in Calls, ReceiveRead(j) PROVE announced'[t] >= least[i][t]
    <3>1. j = i
      BY <1>3, <2>5 DEF ReceiveRead, ChangeReplies, FfiReply, Reply, TypeOK
    <3>2. t \in Tasks /\ carried[i][t] \in Nat /\ least[i][t] \in Nat
      BY <1>3, CarriedVersions
    <3>3. announced'[t] = carried[i][t]
      BY <1>3, <2>5, <3>1, <3>2 DEF ReceiveRead
    <3>. QED
      BY <1>3, <3>2, <3>3 DEF FreshInv
  <2>. QED
    BY <1>3, <2>1, <2>2, <2>3, <2>4, <2>5, <2>6 DEF DataNext, Replied
<1>4. TypeOK /\ StoreTypeOK /\ FreshInv /\ [DataNext]_dataVars =>
        [\A i \in Calls : \A t \in DOMAIN carried[i] :
           state[i] = "refetch" /\ state'[i] = "free" /\ t \in pending'
             => announced'[t] >= least[i][t]]_dataVars
  BY <1>3
<1>5. DataSpec => [](TypeOK /\ StoreTypeOK /\ CallInv)
  BY StoreTypeCorrect, PTL DEF DataTypeOK
<1>. QED
  BY <1>1, <1>2, <1>4, <1>5, PTL DEF DataSpec, EventIsFresh

-----------------------------------------------------------------------------
(* No wake-up is lost.                                                     *)

\* The parts of UnsyncedIsAccounted.
WritesCovered == unsynced \subseteq asked \cup posted \cup excused \cup UNION {on[i] : i \in Underway}
SyncIsComing == asked # {} => timer # Off \/ \E i \in Calls : OnItsWay(i)
PostedIsPending == posted # {} => pending # {}

\* A call that stays under way keeps what it wrote covered.
LEMMA StillCovered ==
  ASSUME WritesCovered, unsynced' \subseteq unsynced,
         asked \cup posted \cup excused \subseteq asked' \cup posted' \cup excused',
         \A i \in Underway : i \in Underway' /\ on[i] \subseteq on'[i]
  PROVE  WritesCovered'
  BY DEF WritesCovered

\* What a call wrote passes from the call to its events, from them to the sync
\* they ask for or to the excused, and only a sync takes it from there.
LEMMA CoverSteps ==
  ASSUME TypeOK, StoreTypeOK, CallInv, WritesCovered, [DataNext]_dataVars
  PROVE  WritesCovered'
<1>1. ASSUME NEW i \in Calls, CallChange(i) \/ CallOther(i) PROVE WritesCovered'
  <2>1. i \notin Underway /\ \A j \in Calls \ {i} : state'[j] = state[j]
    BY <1>1 DEF CallChange, CallOther, StartChange, StartConnect, StartSync, Start, Underway, TypeOK
  <2>2. UNCHANGED <<answer, asked, posted, excused, unsynced>>
    BY <1>1 DEF CallChange, CallOther, data
  <2>3. \A j \in Calls \ {i} : on'[j] = on[j]
    BY <1>1 DEF CallChange, CallOther, data, StoreTypeOK
  <2>. QED
    BY <2>1, <2>2, <2>3, StillCovered DEF Underway
<1>2. ASSUME NEW i \in Calls, WriteServed(i) PROVE WritesCovered'
  <2>1. PICK W \in MayWrite(i) :
          /\ Serve(i, "write", IF RowFails(i, W) THEN "error" ELSE "done")
          /\ on' = [on EXCEPT ![i] = IF kind[i] = "change" THEN @ ELSE W]
          /\ unsynced' = unsynced \cup W
          /\ UNCHANGED <<carried, posted, asked, excused>>
    BY <1>2 DEF WriteServed
  <2>2. W \subseteq on'[i]
    BY <2>1 DEF MayWrite, StoreTypeOK
  <2>3. i \in Underway' /\ i \notin Underway
    BY <2>1 DEF Serve, vars, Underway, StoreTypeOK
  <2>4. \A j \in Underway : j \in Underway' /\ on[j] = on'[j]
    BY <2>1, <2>3 DEF Serve, vars, Underway, StoreTypeOK
  <2>. QED
    BY <2>1, <2>2, <2>3, <2>4 DEF WritesCovered
<1>3. ASSUME NEW i \in Calls, WriteRefused(i) PROVE WritesCovered'
  <2>1. i \notin Underway
    BY <1>3 DEF WriteRefused, Serve, Underway
  <2>2. \A j \in Underway : j \in Underway' /\ on[j] = on'[j]
    BY <1>3, <2>1 DEF WriteRefused, Serve, vars, Underway, StoreTypeOK
  <2>. QED
    BY <1>3, <2>2, StillCovered DEF WriteRefused
<1>4. ASSUME NEW i \in Calls, ReadServed(i) \/ ReadFails(i) \/ SyncFails(i) PROVE WritesCovered'
  <2>1. \A j \in Underway : j \in Underway' /\ on[j] = on'[j]
    BY <1>4 DEF ReadServed, ReadFails, SyncFails, Serve, vars, Underway, StoreTypeOK
  <2>2. /\ asked \cup posted \cup excused \subseteq asked' \cup posted' \cup excused'
        /\ unsynced' = unsynced
    BY <1>4 DEF ReadServed, ReadFails, SyncFails
  <2>. QED
    BY <2>1, <2>2, StillCovered
<1>5. ASSUME NEW i \in Calls, SyncServed(i) PROVE WritesCovered'
  BY <1>5 DEF SyncServed, WritesCovered
<1>6. ASSUME NEW i \in Calls, ReceiveWritten(i) \/ ReceiveOther(i) PROVE WritesCovered'
  <2>1. \A j \in Underway : j \in Underway'
    BY <1>6 DEF ReceiveWritten, WriteReplies, Receive, ReceiveOther, ConnectReplies, SyncReplies,
                AutoSyncReplies, FfiReply, Reply, Underway, TypeOK, StoreTypeOK
  <2>2. UNCHANGED <<on, asked, posted, excused, unsynced>>
    BY <1>6 DEF ReceiveWritten, ReceiveOther
  <2>. QED
    BY <2>1, <2>2, StillCovered
<1>7. ASSUME NEW i \in Calls, ReceiveFailure(i) \/ ReceiveRead(i) PROVE WritesCovered'
  <2>1. \A j \in Underway \ {i} : j \in Underway' /\ on'[j] = on[j]
    BY <1>7 DEF ReceiveFailure, ChangeFails, ReceiveRead, ChangeReplies, FfiReply, Reply, Receive, Forget, Underway,
                TypeOK, StoreTypeOK
  <2>2. /\ asked \cup posted \cup excused \cup (on[i] \cap unsynced)
             \subseteq asked' \cup posted' \cup excused'
        /\ unsynced' = unsynced
    BY <1>7 DEF ReceiveFailure, ReceiveRead
  <2>. QED
    BY <2>1, <2>2 DEF WritesCovered
<1>8. CASE CallDisconnect \/ CallDispose \/ CallDeliver \/ Clock \/ UNCHANGED dataVars
  <2>1. \A j \in Underway : j \in Underway'
    BY <1>8 DEF CallDisconnect, Disconnect, CallDispose, Dispose, CallDeliver, Deliver, Clock, Tick, TimerFires, data, dataVars,
                vars, Underway, TypeOK
  <2>2. /\ asked \cup posted \cup excused \subseteq asked' \cup posted' \cup excused'
        /\ on' = on /\ unsynced' = unsynced
    BY <1>8 DEF CallDisconnect, CallDispose, CallDeliver, Clock, data, dataVars
  <2>. QED
    BY <2>1, <2>2, StillCovered
<1>. QED
  BY <1>1, <1>2, <1>3, <1>4, <1>5, <1>6, <1>7, <1>8 DEF DataNext, StoreStep, Replied

\* A sync that is on its way, and a timer that runs, are given up only where
\* asked is emptied.
LEMMA StillComing ==
  ASSUME SyncIsComing, asked' \subseteq asked,
         timer # Off => timer' # Off,
         \A i \in Calls : OnItsWay(i) => OnItsWay(i)'
  PROVE  SyncIsComing'
  BY DEF SyncIsComing

\* The sync that was asked for stays on its way, whatever comes between: the
\* timer is pushed back but never stopped, and turns into a sync; a sync that
\* is already under way may have read the store too early, but then the timer
\* was started again.
LEMMA ComingSteps ==
  ASSUME TypeOK, StoreTypeOK, CallInv, SyncIsComing, [DataNext]_dataVars
  PROVE  SyncIsComing'
<1>. timer \in Nat /\ Debounce \in Nat /\ Debounce # Off /\ Off = 0
  BY ClientAssumption DEF TypeOK, Off
<1>1. ASSUME NEW i \in Calls, CallChange(i) \/ CallOther(i) PROVE SyncIsComing'
  <2>1. UNCHANGED <<timer, asked, answer>>
    BY <1>1 DEF CallChange, CallOther, StartChange, StartConnect, StartSync, Start, data
  <2>2. \A j \in Calls : OnItsWay(j) => OnItsWay(j)'
    BY <1>1, <2>1 DEF CallChange, CallOther, StartChange, StartConnect, StartSync, Start, OnItsWay, TypeOK
  <2>. QED
    BY <2>1, <2>2, StillComing
<1>2. ASSUME NEW i \in Calls, WriteServed(i) \/ WriteRefused(i) \/ ReadServed(i) \/ ReadFails(i)
      PROVE  SyncIsComing'
  <2>1. UNCHANGED <<timer, asked, state>>
    BY <1>2 DEF WriteServed, WriteRefused, ReadServed, ReadFails, Serve, vars
  <2>2. \A j \in Calls : OnItsWay(j) => answer'[j] = answer[j]
    BY <1>2 DEF WriteServed, WriteRefused, ReadServed, ReadFails, Serve, OnItsWay, StoreTypeOK
  <2>. QED
    BY <2>1, <2>2, StillComing DEF OnItsWay
<1>3. ASSUME NEW i \in Calls, SyncServed(i) PROVE SyncIsComing'
  BY <1>3 DEF SyncServed, SyncIsComing
<1>4. ASSUME NEW i \in Calls, SyncFails(i) PROVE SyncIsComing'
  <2>1. UNCHANGED <<timer, state>> /\ \A j \in Calls \ {i} : answer'[j] = answer[j]
    BY <1>4 DEF SyncFails, Serve, vars, StoreTypeOK
  <2>2. CASE timer # Off \/ \E j \in Calls \ {i} : OnItsWay(j)
    BY <2>1, <2>2 DEF SyncIsComing, OnItsWay
  <2>3. CASE ~(timer # Off \/ \E j \in Calls \ {i} : OnItsWay(j))
    BY <1>4, <2>3 DEF SyncFails, SyncIsComing
  <2>. QED
    BY <2>2, <2>3
<1>5. ASSUME NEW i \in Calls, Replied(i) PROVE SyncIsComing'
  <2>1. UNCHANGED <<timer, asked>>
    BY <1>5 DEF Replied, ReceiveWritten, WriteReplies, ReceiveFailure, ChangeFails, ReceiveRead,
                ChangeReplies, ReceiveOther, ConnectReplies, SyncReplies, AutoSyncReplies, FfiReply
  <2>2. \A j \in Calls : OnItsWay(j) => OnItsWay(j)'
    BY <1>5 DEF Replied, ReceiveWritten, WriteReplies, ReceiveFailure, ChangeFails, ReceiveRead,
                ChangeReplies, ReceiveOther, ConnectReplies, SyncReplies, AutoSyncReplies, FfiReply, Reply,
                Receive, OnItsWay, TypeOK, StoreTypeOK
  <2>. QED
    BY <2>1, <2>2, StillComing
<1>6. CASE CallDeliver
  <2>1. \A j \in Calls : OnItsWay(j) => OnItsWay(j)'
    BY <1>6 DEF CallDeliver, Deliver, OnItsWay
  <2>2. CASE AutoSync /\ connected
    <3>1. timer' = Debounce
      BY <1>6, <2>2 DEF CallDeliver, Deliver, OnTaskChange, Rearmed
    <3>. QED
      BY <3>1 DEF SyncIsComing
  <2>3. CASE ~(AutoSync /\ connected)
    <3>1. UNCHANGED <<timer, asked>>
      BY <1>6, <2>3 DEF CallDeliver, Deliver, OnTaskChange
    <3>. QED
      BY <2>1, <3>1, StillComing
  <2>. QED
    BY <2>2, <2>3
<1>7. CASE CallDispose
  BY <1>7 DEF CallDispose, SyncIsComing
<1>8. CASE Clock
  <2>1. CASE Tick
    BY <1>8, <2>1, StillComing DEF Clock, Tick, data, OnItsWay
  <2>2. ASSUME NEW i \in Calls, TimerFires(i) PROVE SyncIsComing'
    <3>1. OnItsWay(i)'
      BY <1>8, <2>2 DEF Clock, TimerFires, data, OnItsWay, CallInv, TypeOK
    <3>. QED
      BY <3>1 DEF SyncIsComing
  <2>. QED
    BY <1>8, <2>1, <2>2 DEF Clock
<1>9. CASE CallDisconnect \/ UNCHANGED dataVars
  BY <1>9, StillComing DEF CallDisconnect, Disconnect, data, dataVars, vars, OnItsWay
<1>. QED
  BY <1>1, <1>2, <1>3, <1>4, <1>5, <1>6, <1>7, <1>8, <1>9 DEF DataNext, StoreStep, Replied

\* What was posted waits for an event: the last one to be delivered takes it.
LEMMA PostedSteps ==
  ASSUME PostedIsPending, [DataNext]_dataVars
  PROVE  PostedIsPending'
<1>1. ASSUME NEW i \in Calls, CallChange(i) \/ CallOther(i) PROVE PostedIsPending'
  BY <1>1 DEF CallChange, CallOther, StartChange, StartConnect, StartSync, Start, data, PostedIsPending
<1>2. ASSUME NEW i \in Calls, StoreStep(i) PROVE PostedIsPending'
  <2>1. pending' = pending /\ posted' \in {posted, {}}
    BY <1>2 DEF StoreStep, WriteServed, WriteRefused, ReadServed, ReadFails, SyncServed, SyncFails, Serve,
                vars
  <2>. QED
    BY <2>1 DEF PostedIsPending
<1>3. ASSUME NEW i \in Calls, ReceiveRead(i) PROVE PostedIsPending'
  <2>1. posted = {}
    BY <1>3 DEF ReceiveRead, ChangeReplies, FfiReply, Quiet, PostedIsPending
  <2>. QED
    BY <1>3, <2>1 DEF ReceiveRead, PostedIsPending
<1>4. ASSUME NEW i \in Calls, ReceiveWritten(i) \/ ReceiveFailure(i) \/ ReceiveOther(i)
      PROVE  PostedIsPending'
  BY <1>4 DEF ReceiveWritten, WriteReplies, ReceiveFailure, ChangeFails, ReceiveOther, ConnectReplies,
              SyncReplies, AutoSyncReplies, PostedIsPending
<1>5. CASE CallDeliver
  BY <1>5 DEF CallDeliver, PostedIsPending
<1>6. CASE CallDisconnect \/ CallDispose \/ Clock \/ UNCHANGED dataVars
  BY <1>6 DEF CallDisconnect, Disconnect, CallDispose, Dispose, Clock, Tick, TimerFires, data, dataVars, vars,
              PostedIsPending
<1>. QED
  BY <1>1, <1>2, <1>3, <1>4, <1>5, <1>6 DEF DataNext, Replied

\* A task that was written and not sent has a sync coming for it, or an event
\* that is yet to be delivered, or a call that is not over, or one of the known
\* reasons to be left behind.
THEOREM WritesAreAccounted == DataSpec => []UnsyncedIsAccounted
<1>1. DataInit => WritesCovered /\ SyncIsComing /\ PostedIsPending
  BY DEF DataInit, WritesCovered, SyncIsComing, PostedIsPending
<1>2. (TypeOK /\ StoreTypeOK /\ CallInv) /\ (WritesCovered /\ SyncIsComing /\ PostedIsPending)
        /\ [DataNext]_dataVars
      => (WritesCovered /\ SyncIsComing /\ PostedIsPending)'
  BY CoverSteps, ComingSteps, PostedSteps
<1>3. WritesCovered /\ SyncIsComing /\ PostedIsPending => UnsyncedIsAccounted
  BY DEF WritesCovered, SyncIsComing, PostedIsPending, UnsyncedIsAccounted
<1>4. DataSpec => [](TypeOK /\ StoreTypeOK /\ CallInv)
  BY StoreTypeCorrect, PTL DEF DataTypeOK
<1>. QED
  BY <1>1, <1>2, <1>3, <1>4, PTL DEF DataSpec
=============================================================================
