---------------------------- MODULE MCTaskStore ----------------------------
(* TaskStore for TLC: what programs write, sync and import.                *)
EXTENDS TaskStore, TLC

CONSTANTS u1, u2, u3, t1, a1

\* A project, by two names: the second replaces the first.
home == [name |-> "project", text |-> "home"]
work == [name |-> "project", text |-> "work"]
MCUdas == {home, work}

\* A plain pending task, as a DTO and as a map.
Plain == [status |-> "pending", end |-> "none", due |-> "none", wait |-> "none",
          scheduled |-> "none", entry |-> "none",
          tags |-> {}, annotations |-> {}, udas |-> {}]

\* A full one with an explicit end; a completed one that leaves annotations
\* alone and gives its timestamps as ""; two malformed ones.
MCDtos ==
  {[Plain EXCEPT !.end = "rfc3339", !.due = "rfc3339", !.wait = "rfc3339",
                 !.scheduled = "rfc3339", !.entry = "rfc3339",
                 !.tags = {t1}, !.annotations = {a1}, !.udas = {home}],
   [Plain EXCEPT !.status = "completed", !.end = "empty", !.due = "empty", !.wait = "empty",
                 !.scheduled = "empty", !.entry = "rfc3339", !.annotations = Absent],
   [Plain EXCEPT !.scheduled = "garbage"],
   [Plain EXCEPT !.tags = {BadTag}]}

MCMaps ==
  {[Plain EXCEPT !.status = "recurring", !.due = "rfc3339", !.wait = "rfc3339", !.tags = Absent]}

\* Other programs' tasks: dates that nobody can read, with unix seconds in a
\* UDA, as Taskwarrior writes them; no status, and an `end` all the same.
MCForeign ==
  {[Plain EXCEPT !.status = "recurring", !.end = "garbage", !.due = "garbage",
                 !.wait = "garbage", !.scheduled = "seconds", !.entry = "seconds", !.udas = {home}],
   [Plain EXCEPT !.status = "none", !.end = "seconds", !.entry = "seconds"]}

\* A file whose first row is refused.
MCFiles ==
  {<<[uuid |-> Absent, map |-> [Plain EXCEPT !.due = "garbage"]],
     [uuid |-> u1, map |-> [Plain EXCEPT !.status = "completed"]]>>}

\* For the runs that follow one document's words: pending tasks only.
PlainDtos == {[Plain EXCEPT !.udas = {home}]}
PlainFiles == {<<[uuid |-> u1, map |-> Plain]>>}
NoInput == {}
=============================================================================
