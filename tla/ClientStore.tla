---------------------------- MODULE ClientStore ----------------------------
(***************************************************************************)
(* The client of Client composed with what answers its calls: the services *)
(* (lib/src/services/task_service.dart, sync_service.dart), the store and  *)
(* the syncs of rust/src/api.rs.  A call of the client is two requests to  *)
(* the store, the write and the read of what was written; the store serves *)
(* each on a worker thread at one instant (RepoCache) somewhere between    *)
(* request and reply, and replies overtake one another.                    *)
(*                                                                         *)
(* Every step is a step of Client, or leaves the variables of Client as    *)
(* they are.  A task is the number of times it was written.                *)
(***************************************************************************)
EXTENDS Client, FiniteSets

CONSTANTS Files,     \* files to import, each the set of its rows' tasks
          MaxVersion \* bound: versions that a pull may bring a task to

ASSUME ClientStoreAssumption == Files \subseteq SUBSET Tasks /\ MaxVersion \in Nat

Kinds == {"create", "change", "import"}   \* change: updateTask or deleteTask

VARIABLES
  stored,    \* stored[t]: the version of t in the store, 0 if there is none
  kind,      \* kind[i]: what call i was called for
  on,        \* on[i]: the tasks call i names, then those it wrote
  answer,    \* answer[i]: what the store did with the request of call i
  carried,   \* carried[i]: versions of the tasks that call i read back
  least,     \* what an event of call i must not fall behind (history)
  announced, \* the versions that were last added to taskChanges
  posted,    \* tasks written, whose call added an event not delivered (history)
  asked,     \* tasks written, heard of, and on their way to a sync (history)
  unsynced,  \* tasks written since a sync last sent them (history)
  excused    \* tasks written that nothing will sync by itself (history)

data == <<stored, kind, on, answer, carried, least, announced, posted, asked, unsynced, excused>>
dataVars == <<vars, data>>

Versions == [Tasks -> Nat]
SomeVersions(f) == DOMAIN f \subseteq Tasks /\ f \in [DOMAIN f -> Nat]

StoreTypeOK ==
  /\ stored \in Versions /\ announced \in Versions
  /\ kind \in [Calls -> Kinds \cup {"none"}]
  /\ on \in [Calls -> SUBSET Tasks]
  /\ answer \in [Calls -> {"none", "done", "error"}]
  /\ DOMAIN carried = Calls /\ \A i \in Calls : SomeVersions(carried[i])
  /\ least \in [Calls -> Versions]
  /\ posted \subseteq Tasks /\ asked \subseteq Tasks
  /\ unsynced \subseteq Tasks /\ excused \subseteq Tasks

DataTypeOK == TypeOK /\ StoreTypeOK

NoTask == [t \in {} |-> 0]

DataInit ==
  /\ Init
  /\ stored = [t \in Tasks |-> 0]
  /\ kind = [i \in Calls |-> "none"]
  /\ on = [i \in Calls |-> {}]
  /\ answer = [i \in Calls |-> "none"]
  /\ carried = [i \in Calls |-> NoTask]
  /\ least = [i \in Calls |-> stored]
  /\ announced = stored
  /\ posted = {} /\ asked = {} /\ unsynced = {} /\ excused = {}

Known == {t \in Tasks : stored[t] > 0}

-----------------------------------------------------------------------------
(* Calls.                                                                  *)

\* createTask names no task, updateTask and deleteTask name one that may or may
\* not exist, importTasks the rows of its file.
CallChange(i) ==
  /\ StartChange(i)
  /\ \E k \in Kinds, T \in SUBSET Tasks :
       /\ k = "create" => T = {}
       /\ k = "change" => Cardinality(T) = 1
       /\ k = "import" => T \in Files
       /\ kind' = [kind EXCEPT ![i] = k]
       /\ on' = [on EXCEPT ![i] = T]
       /\ least' = [least EXCEPT ![i] =
                      [t \in Tasks |-> IF k = "import" \/ t \in T THEN announced[t] ELSE 0]]
  /\ UNCHANGED <<stored, answer, carried, announced, posted, asked, unsynced, excused>>

CallOther(i) == (StartConnect(i) \/ StartSync(i)) /\ UNCHANGED data

CallDisconnect == Disconnect /\ UNCHANGED data

\* dispose() drops the pending sync request with its timer.
CallDispose ==
  /\ Dispose
  /\ asked' = {}
  /\ excused' = excused \cup asked
  /\ UNCHANGED <<stored, kind, on, answer, carried, least, announced, posted, unsynced>>

-----------------------------------------------------------------------------
(* The store serves a request.                                             *)

Serve(i, phase, result) ==
  /\ state[i] = phase
  /\ answer[i] = "none"
  /\ answer' = [answer EXCEPT ![i] = result]
  /\ UNCHANGED <<vars, kind, announced>>

\* The tasks a request may write: create_task takes a fresh uuid; delete_task
\* does nothing to a task that is not there; a row of an import whose task
\* exists is skipped, any other becomes a task under a fresh uuid, or fails.
MayWrite(i) ==
  {W \in SUBSET Tasks :
     \/ kind[i] = "create" /\ W \cap Known = {} /\ Cardinality(W) = 1
     \/ kind[i] = "change" /\ W = on[i] \cap Known
     \/ /\ kind[i] = "import" /\ W \cap Known = {}
        /\ Cardinality(W) <= Cardinality(on[i] \ Known)}

\* An import with a failing row reports an error after its other rows.
RowFails(i, W) == kind[i] = "import" /\ Cardinality(W) # Cardinality(on[i] \ Known)

WriteServed(i) ==
  /\ state[i] = "write" /\ answer[i] = "none"
  /\ \E W \in MayWrite(i) :
       /\ Serve(i, "write", IF RowFails(i, W) THEN "error" ELSE "done")
       /\ stored' = [t \in Tasks |-> IF t \in W THEN stored[t] + 1 ELSE stored[t]]
       /\ on' = [on EXCEPT ![i] = IF kind[i] = "change" THEN @ ELSE W]
       /\ least' = [least EXCEPT ![i] = [t \in Tasks |-> IF t \in W THEN stored'[t] ELSE @[t]]]
       /\ unsynced' = unsynced \cup W
  /\ UNCHANGED <<carried, posted, asked, excused>>

\* A write that is refused, because its values are malformed or its task is not
\* there, stores nothing.
WriteRefused(i) ==
  /\ Serve(i, "write", "error")
  /\ on' = [on EXCEPT ![i] = {}]
  /\ UNCHANGED <<stored, carried, least, posted, asked, unsynced, excused>>

\* Seeded defect of ReadBack: answered with what the last events carried.
ReadFromEvents(S) == [t \in S |-> announced[t]]

ReadBack(S) == [t \in S |-> stored[t]]

\* importTasks reads all tasks, in no particular order, and takes as many as
\* were imported; the other calls read the task that they wrote.
Announced(i) ==
  IF kind[i] = "import"
  THEN {S \in SUBSET Known : Cardinality(S) = Cardinality(on[i])}
  ELSE {on[i]}

ReadServed(i) ==
  /\ Serve(i, "refetch", "done")
  /\ on[i] # {} /\ on[i] \subseteq Known
  /\ \E S \in Announced(i) : carried' = [carried EXCEPT ![i] = ReadBack(S)]
  /\ UNCHANGED <<stored, on, least, posted, asked, unsynced, excused>>

\* The read fails, or finds nothing (a sync may purge a task), or importTasks
\* has nothing to announce.
ReadFails(i) ==
  /\ Serve(i, "refetch", "error")
  /\ UNCHANGED <<stored, on, carried, least, posted, asked, unsynced, excused>>

\* A sync pulls what other devices wrote and sends all that was written here;
\* whether it reports success is left open, as it may fail after that.
SyncServed(i) ==
  /\ Serve(i, "sync", "done") \/ Serve(i, "autosync", "done")
  /\ \E R \in SUBSET {t \in Tasks : stored[t] < MaxVersion} :
       stored' = [t \in Tasks |-> IF t \in R THEN stored[t] + 1 ELSE stored[t]]
  /\ unsynced' = {} /\ posted' = {} /\ asked' = {} /\ excused' = {}
  /\ UNCHANGED <<on, carried, least>>

\* A sync is on its way that will send what is stored now.
OnItsWay(i) == state[i] = "autosync" /\ answer[i] = "none"

\* A sync that failed left the store as it was; the client does not try again.
SyncFails(i) ==
  /\ Serve(i, "sync", "done") \/ Serve(i, "autosync", "done")
  /\ IF timer # Off \/ \E j \in Calls \ {i} : OnItsWay(j)
     THEN UNCHANGED <<asked, excused>>
     ELSE asked' = {} /\ excused' = excused \cup asked
  /\ UNCHANGED <<stored, on, carried, least, posted, unsynced>>

StoreStep(i) ==
  \/ WriteServed(i) \/ WriteRefused(i) \/ ReadServed(i) \/ ReadFails(i)
  \/ SyncServed(i) \/ SyncFails(i)

-----------------------------------------------------------------------------
(* The client receives a reply.                                            *)

Receive(i, result) ==
  /\ answer[i] = result
  /\ answer' = [answer EXCEPT ![i] = "none"]
  /\ UNCHANGED stored

ReceiveWritten(i) ==
  /\ WriteReplies(i)
  /\ Receive(i, "done")
  /\ UNCHANGED <<kind, on, carried, least, announced, posted, asked, unsynced, excused>>

\* The call is over.
Forget(i) ==
  /\ kind' = [kind EXCEPT ![i] = "none"]
  /\ on' = [on EXCEPT ![i] = {}]
  /\ carried' = [carried EXCEPT ![i] = NoTask]
  /\ least' = [least EXCEPT ![i] = [t \in Tasks |-> 0]]

\* The call ends without an event: createTask and updateTask throw, deleteTask
\* and importTasks return if it was the read that failed.
ReceiveFailure(i) ==
  /\ ChangeFails(i)
  /\ Receive(i, "error")
  /\ Forget(i)
  /\ excused' = excused \cup (on[i] \cap unsynced)
  /\ UNCHANGED <<announced, posted, asked, unsynced>>

\* Every task the call carries is an event of its own.  What the call wrote is
\* posted with them; a closed stream takes none.
ReceiveRead(i) ==
  /\ ChangeReplies(i, DOMAIN carried[i])
  /\ Receive(i, "done")
  /\ Forget(i)
  /\ announced' = [t \in Tasks |-> IF t \in pending' THEN carried[i][t] ELSE announced[t]]
  /\ LET written == on[i] \cap unsynced IN
     IF pending' # {}
     THEN posted' = posted \cup written /\ UNCHANGED excused
     ELSE excused' = excused \cup written /\ UNCHANGED posted
  /\ UNCHANGED <<asked, unsynced>>

ReceiveOther(i) ==
  /\ \/ ConnectReplies(i) /\ UNCHANGED answer
     \/ /\ SyncReplies(i) \/ AutoSyncReplies(i)
        /\ answer[i] = "done"
        /\ answer' = [answer EXCEPT ![i] = "none"]
  /\ UNCHANGED <<stored, kind, on, carried, least, announced, posted, asked, unsynced, excused>>

Replied(i) == ReceiveWritten(i) \/ ReceiveFailure(i) \/ ReceiveRead(i) \/ ReceiveOther(i)

-----------------------------------------------------------------------------
\* An event that finds the client connected asks for a sync of all that was
\* posted; when every event has found it unconnected, nothing asked.
CallDeliver ==
  /\ Deliver
  /\ IF AutoSync /\ connected
     THEN asked' = asked \cup posted /\ posted' = {} /\ UNCHANGED excused
     ELSE /\ excused' = IF pending' = {} THEN excused \cup posted ELSE excused
          /\ posted' = IF pending' = {} THEN {} ELSE posted
          /\ UNCHANGED asked
  /\ UNCHANGED <<stored, kind, on, answer, carried, least, announced, unsynced>>

\* Time passes for the timer.
Clock == (Tick \/ \E i \in Calls : TimerFires(i)) /\ UNCHANGED data

DataNext ==
  \/ CallDisconnect \/ CallDispose \/ CallDeliver \/ Clock
  \/ \E i \in Calls : CallChange(i) \/ CallOther(i) \/ StoreStep(i) \/ Replied(i)

DataSpec == DataInit /\ [][DataNext]_dataVars

\* Every request is served and every reply received, the microtask queue runs
\* empty, and time passes; the program owes nothing.
DataFairSpec ==
  /\ DataSpec
  /\ WF_dataVars(CallDeliver)
  /\ \A i \in Calls : WF_dataVars(StoreStep(i) \/ Replied(i))
  /\ WF_dataVars(Clock)

-----------------------------------------------------------------------------
(* Properties.                                                             *)

\* createTask, updateTask, deleteTask, importTasks: an event shows its task at
\* least as new as the write it announces, and no older than any event before
\* the call was made.  Replies overtake one another, so that it may well be
\* older than the events since.  (A stream delivers in the order of adding.)
EventIsFresh ==
  [][\A i \in Calls : \A t \in DOMAIN carried[i] :
       state[i] = "refetch" /\ state'[i] = "free" /\ t \in pending'
         => announced'[t] >= least[i][t]]_dataVars

\* Calls that have written and not yet returned.
Underway == {i \in Calls : state[i] = "refetch" \/ (state[i] = "write" /\ answer[i] # "none")}

\* AutoSyncCoordinator: no wake-up is lost but in the known ways.  A task written
\* since the last sync was heard of by the listener while connected, and then
\* the timer runs or a sync is starting that will send it; or an event of its
\* call is yet to be delivered; or its call is not over; or it is excused: its
\* call ended without an event, all its events found the client unconnected
\* (perhaps because the program disconnected when the call returned, before they
\* were delivered), the sync it asked for failed, or the client was disposed of.
UnsyncedIsAccounted ==
  /\ unsynced \subseteq asked \cup posted \cup excused \cup UNION {on[i] : i \in Underway}
  /\ asked # {} => timer # Off \/ \E i \in Calls : OnItsWay(i)
  /\ posted # {} => pending # {}

\* The debounced sync comes, and sends the task: it runs after the write that
\* asked for it, also when further changes push the timer back or an earlier
\* sync is still in flight.  (Or it fails, or the client is disposed of.)
AskedIsSynced == asked # {} ~> asked = {}
=============================================================================
