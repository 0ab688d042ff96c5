------------------------------ MODULE Client -------------------------------
(***************************************************************************)
(* The Dart client: TaskChampionClient with its ConnectionState, its       *)
(* AutoSyncCoordinator, its TaskEventManager and the services below them   *)
(* (lib/src/taskchampion_client.dart, lib/src/client, lib/src/services).   *)
(*                                                                         *)
(* The isolate's event loop takes up a reply from the FFI, or an expired   *)
(* timer, only when its microtask queue is empty.  An event that a reply   *)
(* adds to the broadcast stream taskChanges is delivered by a microtask of *)
(* its own, later: the code that awaited the call runs first, and may call *)
(* the client before its listener hears of the change.  Any number of      *)
(* calls are in flight at a time.  The stream syncEvents has no listener   *)
(* inside the client, and is left out.                                     *)
(***************************************************************************)
EXTENDS Naturals

CONSTANTS Calls,       \* identities for calls in flight (a bound)
          Tasks,       \* uuids
          Debounce,    \* ticks of the coordinator's debounce timer
          MaxStarts,   \* bound: calls the program starts in a behaviour
          AutoSync,    \* ClientConfig.autoSyncOnTaskChange
          BuiltInAuth, \* AuthService, or an injected IAuthService?
          WellFormedId \* is ClientConfig's client id a uuid?

ASSUME ClientAssumption ==
  /\ Debounce \in Nat \ {0}
  /\ MaxStarts \in Nat
  /\ AutoSync \in BOOLEAN /\ BuiltInAuth \in BOOLEAN /\ WellFormedId \in BOOLEAN

VARIABLES
  connected,   \* ConnectionState._connected
  disposed,    \* dispose() was called: the streams are closed
  timer,       \* ticks before AutoSyncCoordinator._timer expires, 0 if none
  state,       \* state[i]: what call i is waiting for
  starts,      \* calls started so far
  pending,     \* tasks whose event is added to taskChanges and not delivered
  revived      \* a connect succeeded after dispose(), before the last delivery
               \* (history)

vars == <<connected, disposed, timer, state, starts, pending, revived>>

Off == 0

Waiting == {"connect", "write", "refetch", "sync", "autosync"}

TypeOK ==
  /\ connected \in BOOLEAN /\ disposed \in BOOLEAN
  /\ timer \in 0 .. Debounce
  /\ state \in [Calls -> Waiting \cup {"free"}]
  /\ starts \in 0 .. MaxStarts
  /\ pending \subseteq Tasks
  /\ revived \in BOOLEAN

Init ==
  /\ connected = FALSE /\ disposed = FALSE
  /\ timer = Off
  /\ state = [i \in Calls |-> "free"]
  /\ starts = 0
  /\ pending = {}
  /\ revived = FALSE

-----------------------------------------------------------------------------
(* Calls of the program.                                                   *)

\* A call goes as far as its first await.
Start(i, what) ==
  /\ state[i] = "free"
  /\ starts < MaxStarts
  /\ starts' = starts + 1
  /\ state' = [state EXCEPT ![i] = what]
  /\ UNCHANGED <<connected, disposed, timer, pending, revived>>

StartConnect(i) == Start(i, "connect")

\* createTask, updateTask, deleteTask or importTasks: the backend's write is
\* awaited first, then the read of what was written.
StartChange(i) == Start(i, "write")

StartSync(i) == Start(i, "sync")

\* disconnect() clears the flag and nothing else.
Disconnect ==
  /\ connected
  /\ connected' = FALSE
  /\ UNCHANGED <<disposed, timer, state, starts, pending, revived>>

\* Seeded defect of TimerAfterDispose: the coordinator is not disposed of.
TimerKept == timer

TimerAfterDispose == Off

\* Closing a stream takes back no event that was added, and the coordinator's
\* subscription is not cancelled.
Dispose ==
  /\ ~disposed
  /\ disposed' = TRUE
  /\ timer' = TimerAfterDispose
  /\ connected' = FALSE
  /\ UNCHANGED <<state, starts, pending, revived>>

-----------------------------------------------------------------------------
(* Replies.                                                                *)

\* The microtask queue is empty: every event that was added is delivered.
Quiet == pending = {}

Reply(i, what, next) ==
  /\ state[i] = what
  /\ state' = [state EXCEPT ![i] = next]
  /\ UNCHANGED <<starts, disposed>>

\* A reply of the FFI is a turn of the event loop.
FfiReply(i, what, next) ==
  /\ Quiet
  /\ Reply(i, what, next)
  /\ UNCHANGED <<connected, timer, revived>>

\* What validate_credentials replies: the JSON string "true" when the client
\* id is a uuid, an error that throws when it is not.
CredentialReply == IF WellFormedId THEN "string_true" ELSE "throws"

\* AuthService compares the decoded `valid` with the boolean true.
BuiltInSuccess(reply) == reply = "bool_true"

\* validateAndConnect sets the flag from the reply, whatever happened since.
\* An injected service may reply in a microtask, between two deliveries.
ConnectReplies(i) ==
  /\ Reply(i, "connect", "free")
  /\ IF BuiltInAuth
     THEN Quiet /\ connected' = BuiltInSuccess(CredentialReply)
     ELSE connected' \in BOOLEAN
  /\ revived' = (revived \/ (disposed /\ connected' /\ ~Quiet))
  /\ UNCHANGED <<timer, pending>>

WriteReplies(i) == FfiReply(i, "write", "refetch") /\ UNCHANGED pending

\* The write threw, or the task could not be read back: the call throws (or,
\* for deleteTask and an empty import, returns) without an event.
ChangeFails(i) ==
  /\ FfiReply(i, "write", "free") \/ FfiReply(i, "refetch", "free")
  /\ UNCHANGED pending

\* Seeded defect of Emitted: added to a closed stream too.
EmittedUnguarded(S) == S

\* TaskEventManager.emitTaskChange: nothing is added to a closed stream.
Emitted(S) == IF disposed THEN {} ELSE S

\* The call adds an event for each task it read back, one after another, and
\* completes the future that the program awaits.
ChangeReplies(i, S) ==
  /\ FfiReply(i, "refetch", "free")
  /\ pending' = pending \cup Emitted(S)

\* client.sync hands its result, or one made from the exception, to the
\* program and to syncEvents; neither touches the flag or the timer.
SyncReplies(i) == FfiReply(i, "sync", "free") /\ UNCHANGED pending

\* The coordinator calls the service, not the client: its reply is dropped.
AutoSyncReplies(i) == FfiReply(i, "autosync", "free") /\ UNCHANGED pending

-----------------------------------------------------------------------------
(* The listener of taskChanges.                                            *)

\* Seeded defects of Rearmed.
RearmedAdds(t) == t + Debounce
RearmedIfOff(t) == IF t = Off THEN Off ELSE Debounce

\* AutoSyncCoordinator.requestSync cancels the timer and starts a new one.
Rearmed(t) == Debounce

\* Seeded defect of OnTaskChange: no request while a sync is in flight.
OnTaskChangeUnlessSyncing ==
  IF AutoSync /\ connected /\ \A i \in Calls : state[i] # "autosync"
  THEN timer' = Rearmed(timer)
  ELSE UNCHANGED timer

\* The listener that _setupAutoSyncListeners attached: what counts is the flag
\* when the event is delivered.
OnTaskChange ==
  IF AutoSync /\ connected THEN timer' = Rearmed(timer) ELSE UNCHANGED timer

\* One microtask delivers one event.  An import lists its tasks in no particular
\* order.
Deliver ==
  /\ \E t \in pending : pending' = pending \ {t}
  /\ OnTaskChange
  /\ UNCHANGED <<connected, disposed, state, starts, revived>>

-----------------------------------------------------------------------------
(* Time.                                                                   *)

Tick ==
  /\ Quiet
  /\ timer > 1
  /\ timer' = timer - 1
  /\ UNCHANGED <<connected, disposed, state, starts, pending, revived>>

\* The timer's callback starts a sync without looking at the connection.
TimerFires(i) ==
  /\ Quiet
  /\ timer = 1
  /\ state[i] = "free"
  /\ timer' = Off
  /\ state' = [state EXCEPT ![i] = "autosync"]
  /\ UNCHANGED <<connected, disposed, starts, pending, revived>>

-----------------------------------------------------------------------------
Program(i) == StartConnect(i) \/ StartChange(i) \/ StartSync(i)

Replies(i) ==
  \/ ConnectReplies(i) \/ WriteReplies(i) \/ ChangeFails(i)
  \/ \E S \in SUBSET Tasks : ChangeReplies(i, S)
  \/ SyncReplies(i) \/ AutoSyncReplies(i)

Next ==
  \/ Disconnect \/ Dispose \/ Deliver \/ Tick
  \/ \E i \in Calls : Program(i) \/ Replies(i) \/ TimerFires(i)

Spec == Init /\ [][Next]_vars

-----------------------------------------------------------------------------
(* Properties.                                                             *)

\* AutoSyncCoordinator.dispose, TaskEventManager: no sync is started behind the
\* back of a program that disposed of its client, although replies to calls
\* still in flight and events already added arrive afterwards, in any order.
\* There is one way round it: a connect that succeeds after dispose() and before
\* the last of those events is delivered lets the listener start the timer again.
NoAutoSyncAfterDispose ==
  [][\A i \in Calls :
       state'[i] = "autosync" /\ state[i] # "autosync" => ~disposed \/ revived]_vars

\* test/integration/server_integration_test.dart.skip:117: a client with a
\* well-formed client id connects ("Client should connect successfully").
ValidCredentialsConnect ==
  [][\A i \in Calls :
       WellFormedId /\ state[i] = "connect" /\ state'[i] = "free" => connected']_vars
=============================================================================
