---------------------------- MODULE ClientProofs ----------------------------
(***************************************************************************)
(* Theorems about Client, for every number of calls, every delay of the    *)
(* debounce timer and every configuration: its types, and what dispose()   *)
(* puts an end to although replies still arrive.                           *)
(***************************************************************************)
EXTENDS Client, TLAPS

\* After dispose() the timer is off.  That does not last by itself: the flag may
\* be set again by a late connect, and what keeps the listener from starting the
\* timer then is that no event is left to deliver: the streams take no new one,
\* and one that is still pending finds the client unconnected, unless a connect
\* came first.
DisposedInv == disposed /\ ~revived => timer = Off /\ (connected => pending = {})

\* The timer may be off, and may be set to its full delay.
LEMMA DelayIsTick == Off \in 0 .. Debounce /\ Debounce \in 0 .. Debounce
  BY ClientAssumption DEF Off

\* The listener of taskChanges keeps the timer within its delay, and off when
\* the client is disposed of.
LEMMA ListenerKeeps ==
  ASSUME TypeOK, DisposedInv, Deliver
  PROVE  TypeOK' /\ DisposedInv'
<1>1. timer' = timer \/ (connected /\ timer' = Debounce)
  BY DEF Deliver, OnTaskChange, Rearmed
<1>2. timer' \in 0 .. Debounce
  BY <1>1, DelayIsTick DEF TypeOK
<1>3. pending # {} /\ pending' \subseteq pending
  BY DEF Deliver
<1>4. TypeOK'
  BY <1>2, <1>3 DEF Deliver, TypeOK
<1>5. disposed /\ ~revived => ~connected
  BY <1>3 DEF DisposedInv
<1>. QED
  BY <1>1, <1>4, <1>5 DEF Deliver, DisposedInv

\* The initial state, and every step.
LEMMA ClientInit == Init => TypeOK /\ DisposedInv
<1>1. 0 \in 0 .. MaxStarts
  BY ClientAssumption
<1>. QED
  BY <1>1, DelayIsTick DEF Init, TypeOK, DisposedInv

LEMMA ClientKeeps ==
  ASSUME TypeOK, DisposedInv, [Next]_vars
  PROVE  TypeOK' /\ DisposedInv'
<1>. USE ClientAssumption DEF TypeOK, DisposedInv, Waiting, Off, Quiet
<1>1. ASSUME NEW i \in Calls, Program(i) PROVE TypeOK' /\ DisposedInv'
  BY <1>1 DEF Program, StartConnect, StartChange, StartSync, Start
<1>2. CASE Disconnect
  BY <1>2 DEF Disconnect
<1>3. CASE Dispose
  BY <1>3, DelayIsTick DEF Dispose, TimerAfterDispose
<1>4. CASE Tick
  BY <1>4 DEF Tick
<1>5. ASSUME NEW i \in Calls, ConnectReplies(i) PROVE TypeOK' /\ DisposedInv'
  BY <1>5 DEF ConnectReplies, Reply, BuiltInSuccess
<1>6. ASSUME NEW i \in Calls,
             WriteReplies(i) \/ ChangeFails(i) \/ SyncReplies(i) \/ AutoSyncReplies(i)
      PROVE  TypeOK' /\ DisposedInv'
  BY <1>6 DEF WriteReplies, ChangeFails, SyncReplies, AutoSyncReplies, FfiReply, Reply
<1>7. ASSUME NEW i \in Calls, NEW S \in SUBSET Tasks, ChangeReplies(i, S)
      PROVE  TypeOK' /\ DisposedInv'
  BY <1>7 DEF ChangeReplies, FfiReply, Reply, Emitted
<1>8. CASE Deliver
  BY <1>8, ListenerKeeps
<1>9. ASSUME NEW i \in Calls, TimerFires(i) PROVE TypeOK' /\ DisposedInv'
  BY <1>9, DelayIsTick DEF TimerFires
<1>10. CASE UNCHANGED vars
  BY <1>10 DEF vars
<1>. QED
  BY <1>1, <1>2, <1>3, <1>4, <1>5, <1>6, <1>7, <1>8, <1>9, <1>10 DEF Next, Replies

\* The state of the client stays well typed: above all, no chain of changes,
\* ticks and expiries takes the timer out of 0 .. Debounce.
THEOREM TypeCorrect == Spec => [](TypeOK /\ DisposedInv)
  BY ClientInit, ClientKeeps, PTL DEF Spec

\* AutoSyncCoordinator: no sync starts by itself once dispose() was called, but
\* where a connect succeeded before the last event was delivered.
THEOREM DisposedIsNotSynced == Spec => NoAutoSyncAfterDispose
<1>1. ASSUME TypeOK, DisposedInv, [Next]_vars, NEW i \in Calls,
             state'[i] = "autosync", state[i] # "autosync"
      PROVE  ~disposed \/ revived
  <2>. USE DEF TypeOK, Waiting
  <2>1. ASSUME NEW j \in Calls, TimerFires(j) PROVE ~disposed \/ revived
    BY <1>1, <2>1 DEF TimerFires, DisposedInv, Off
  <2>2. ASSUME NEW j \in Calls, Program(j) PROVE FALSE
    BY <1>1, <2>2 DEF Program, StartConnect, StartChange, StartSync, Start
  <2>3. ASSUME NEW j \in Calls, Replies(j) PROVE FALSE
    BY <1>1, <2>3
    DEF Replies, ConnectReplies, WriteReplies, ChangeFails, ChangeReplies, SyncReplies,
        AutoSyncReplies, FfiReply, Reply
  <2>4. ASSUME state' = state PROVE FALSE
    BY <1>1, <2>4
  <2>. QED
    BY <1>1, <2>1, <2>2, <2>3, <2>4 DEF Next, Disconnect, Dispose, Deliver, Tick, vars
<1>2. TypeOK /\ DisposedInv /\ [Next]_vars =>
        [\A i \in Calls : state'[i] = "autosync" /\ state[i] # "autosync"
                            => ~disposed \/ revived]_vars
  BY <1>1
<1>. QED
  BY <1>2, TypeCorrect, PTL DEF Spec, NoAutoSyncAfterDispose

\* The reach of what the run client_auth finds: with the built-in AuthService no
\* client id whatever connects, so that no change arms the timer and nothing is
\* ever synced but what the program syncs itself.
THEOREM BuiltInAuthSyncsNothing ==
  Spec => [](BuiltInAuth => ~connected /\ timer = Off /\ \A i \in Calls : state[i] # "autosync")
<1>. DEFINE Inert == BuiltInAuth => ~connected /\ timer = Off
                                   /\ \A i \in Calls : state[i] # "autosync"
<1>1. Init => Inert
  BY DEF Init
<1>2. TypeOK /\ Inert /\ [Next]_vars => Inert'
  <2>. SUFFICES ASSUME TypeOK, BuiltInAuth, Inert, [Next]_vars
                PROVE  Inert'
    OBVIOUS
  <2>. USE DEF TypeOK, Off
  <2>1. ASSUME NEW i \in Calls, Program(i) PROVE Inert'
    BY <2>1 DEF Program, StartConnect, StartChange, StartSync, Start
  <2>2. ASSUME NEW i \in Calls, ConnectReplies(i) PROVE Inert'
    <3>1. ~connected'
      BY <2>2 DEF ConnectReplies, BuiltInSuccess, CredentialReply
    <3>. QED
      BY <2>2, <3>1 DEF ConnectReplies, Reply
  <2>3. ASSUME NEW i \in Calls, NEW S \in SUBSET Tasks, ChangeReplies(i, S) PROVE Inert'
    BY <2>3 DEF ChangeReplies, FfiReply, Reply
  <2>4. ASSUME NEW i \in Calls,
               WriteReplies(i) \/ ChangeFails(i) \/ SyncReplies(i) \/ AutoSyncReplies(i)
        PROVE  Inert'
    BY <2>4 DEF WriteReplies, ChangeFails, SyncReplies, AutoSyncReplies, FfiReply, Reply
  <2>5. ASSUME NEW i \in Calls, TimerFires(i) PROVE Inert'
    BY <2>5 DEF TimerFires
  <2>6. CASE Disconnect \/ Dispose \/ Tick \/ UNCHANGED vars
    BY <2>6 DEF Disconnect, Dispose, TimerAfterDispose, Tick, vars
  <2>7. CASE Deliver
    BY <2>7 DEF Deliver, OnTaskChange
  <2>. QED
    BY <2>1, <2>2, <2>3, <2>4, <2>5, <2>6, <2>7 DEF Next, Replies
<1>. QED
  BY <1>1, <1>2, TypeCorrect, PTL DEF Spec
=============================================================================
