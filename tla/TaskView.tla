------------------------------ MODULE TaskView ------------------------------
(***************************************************************************)
(* What the writing calls of rust/src/api.rs promise to a program that     *)
(* reads tasks as DTOs: what it reads next is a function of what it read   *)
(* before and of the call.  How a value is stored does not matter (in      *)
(* which form, under a missing status, malformed), but for an `end` that   *)
(* is stored and that no reader shows.                                     *)
(***************************************************************************)
EXTENDS TaskOps

CONSTANTS Ids,     \* task uuids
          Dtos,    \* the DTOs that programs write
          Maps,    \* the maps that programs write or import
          Brought, \* the tasks, as they are read, that a sync brings
          Edits,   \* what a Dart program does to a task it fetched
          NoTask

VARIABLES view,    \* view[u]: the task under u as it is read
          draft    \* what a Dart program fetched

vars == <<view, draft>>

Init == view = [u \in Ids |-> NoTask] /\ draft = [id |-> Absent, dto |-> Absent]

\* A task that has just been made reads as pending.
NewView == [NewTask EXCEPT !.status = "pending"]

\* An `end` that is stored and that no reader shows.
Hidden == "garbage"

\* The status keeps `end` in step with itself, and takes a hidden one for one.
WithStatus(v, s) ==
  [v EXCEPT !.status = s,
            !.end = CASE s \in {"pending", "recurring"} -> "none"
                      [] s \in {"completed", "deleted"} /\ @ = "none" -> "rfc3339"
                      [] OTHER -> @]

\* A date that is given replaces, one that is left out clears, "" does neither.
Given(old, s) == IF s = "empty" THEN old ELSE s

\* A DTO is the new task, but for attributes, which are set, annotations and an
\* entry date that are not given, and dates given as "".
Replaced(v, d) ==
  [d EXCEPT !.end = Given(WithStatus(v, d.status).end, @),
            !.due = Given(v.due, @),
            !.wait = Given(v.wait, @),
            !.entry = IF @ \in {"none", "empty"} THEN v.entry ELSE @,
            !.annotations = IF @ = Absent THEN v.annotations ELSE @,
            !.udas = AppliedUdas(v.udas, @)]

\* The fields of a map add to a task, or change it.
Added(v, m) ==
  LET s == IF m.status = "none" THEN v ELSE WithStatus(v, MapStatus(m.status))
  IN  [s EXCEPT !.due = IF m.due = "rfc3339" THEN m.due ELSE @,
                !.wait = IF m.wait = "rfc3339" THEN m.wait ELSE @,
                !.scheduled = IF m.scheduled = "rfc3339" THEN m.scheduled ELSE @,
                !.tags = IF m.tags = Absent THEN @ ELSE @ \cup m.tags,
                !.annotations = @ \cup m.annotations,
                !.udas = AppliedUdas(@, m.udas)]

\* An update by map clears first: annotations always, tags if there are new ones.
Cleared(v, m) ==
  [v EXCEPT !.annotations = {}, !.tags = IF m.tags = Absent THEN @ ELSE {}]

\* The task under u reads as v, which tells most calls apart, and no other changes.
Put(u, v) ==
  /\ view'[u] = v
  /\ view' = [view EXCEPT ![u] = v]
  /\ UNCHANGED draft

\* A call with a malformed date or tag fails and changes nothing.
Create(u) ==
  /\ view[u] = NoTask
  /\ \/ \E d \in Dtos : ~DtoRejected(d) /\ Put(u, Replaced(NewView, d))
     \/ \E m \in Maps : ~MapRejected(m) /\ Put(u, Added(NewView, m))

Update(u) ==
  /\ view[u] # NoTask
  /\ \/ \E d \in Dtos : ~DtoRejected(d) /\ Put(u, Replaced(view[u], d))
     \/ \E m \in Maps : ~MapRejected(m) /\ Put(u, Added(Cleared(view[u], m), m))
     \/ Put(u, WithStatus(view[u], "deleted"))

SyncBrings(u) == \E v \in Brought \cup {NoTask} : Put(u, v)

\* What a Dart program makes of a task: it reads maps, which show an `end` in
\* one of its two stored forms only, and an entry date whether there is one or not.
AsDart(v) ==
  {[v EXCEPT !.status = MapStatus(@), !.scheduled = DartStamp(@),
             !.entry = "rfc3339", !.end = e]
     : e \in {"none", v.end} \ {Hidden}}

Fetch(u) ==
  /\ view[u] # NoTask
  /\ UNCHANGED view
  /\ \E d \in AsDart(view[u]) : draft' = [id |-> u, dto |-> d]

Save(e) ==
  /\ draft.id \in Ids /\ view[draft.id] # NoTask
  /\ draft' = [id |-> Absent, dto |-> Absent]
  /\ LET d == Edited(draft.dto, e)
     IN  /\ ~DtoRejected(d)
         /\ view' = [view EXCEPT ![draft.id] = Replaced(@, d)]

\* A call after which a task reads as it did is no step.
Next ==
  \/ \E u \in Ids : view'[u] # view[u] /\ (Create(u) \/ Update(u) \/ SyncBrings(u))
  \/ \E u \in Ids : Fetch(u)
  \/ \E e \in Edits : Save(e)

Spec == Init /\ [][Next]_vars
=============================================================================
