---------------------------- MODULE SerialStore ----------------------------
(***************************************************************************)
(* What a task database reached through the FFI promises its callers: each *)
(* call takes effect at one instant between its invocation and its return, *)
(* a failed call takes no effect, and an update leaves exactly the value   *)
(* it was given.  rust/src/repo.rs promises this of one TaskRepo handle    *)
(* ("concurrent with_replica calls on the same repo serialise").           *)
(***************************************************************************)
CONSTANTS Callers,   \* threads of the FFI's worker pool
          Paths,     \* database directories
          Tags,      \* what a task's replaceable property is made of
          NoCall     \* the call of an idle caller

VARIABLES store,     \* store[p]: the tag set of the task kept at p
          call,      \* call[c]: the request c is serving
          phase,     \* phase[c]: idle, pending or done
          outcome,   \* outcome[c]: none, ok or err
          seen       \* seen[c]: what a successful get returns

vars == <<store, call, phase, outcome, seen>>

Calls == [path : Paths, op : {"get"}, tags : {{}}]
           \cup [path : Paths, op : {"set"}, tags : SUBSET Tags]

Init ==
  /\ store \in [Paths -> SUBSET Tags]
  /\ call = [c \in Callers |-> NoCall]
  /\ phase = [c \in Callers |-> "idle"]
  /\ outcome = [c \in Callers |-> "none"]
  /\ seen = [c \in Callers |-> {}]

Invoke(c) ==
  /\ phase[c] = "idle"
  /\ \E r \in Calls : call' = [call EXCEPT ![c] = r]
  /\ phase' = [phase EXCEPT ![c] = "pending"]
  /\ UNCHANGED <<store, outcome, seen>>

Finish(c, o) ==
  /\ phase[c] = "pending"
  /\ phase' = [phase EXCEPT ![c] = "done"]
  /\ outcome' = [outcome EXCEPT ![c] = o]
  /\ UNCHANGED call

Get(c) ==
  /\ Finish(c, "ok")
  /\ call[c].op = "get"
  /\ seen' = [seen EXCEPT ![c] = store[call[c].path]]
  /\ UNCHANGED store

Set(c) ==
  /\ Finish(c, "ok")
  /\ call[c].op = "set"
  /\ store' = [store EXCEPT ![call[c].path] = call[c].tags]
  /\ UNCHANGED seen

Fail(c) ==
  /\ Finish(c, "err")
  /\ UNCHANGED <<store, seen>>

Return(c) ==
  /\ phase[c] = "done"
  /\ phase' = [phase EXCEPT ![c] = "idle"]
  /\ call' = [call EXCEPT ![c] = NoCall]
  /\ outcome' = [outcome EXCEPT ![c] = "none"]
  /\ seen' = [seen EXCEPT ![c] = {}]
  /\ UNCHANGED store

Next == \E c \in Callers : Invoke(c) \/ Get(c) \/ Set(c) \/ Fail(c) \/ Return(c)

Spec == Init /\ [][Next]_vars
=============================================================================
