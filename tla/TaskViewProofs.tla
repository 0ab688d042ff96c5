--------------------------- MODULE TaskViewProofs ---------------------------
(***************************************************************************)
(* TaskStore implements TaskView: in whichever form a value is stored, by  *)
(* whatever chain of calls, what is read next follows from what is read    *)
(* now and from the call.                                                  *)
(***************************************************************************)
EXTENDS TaskStoreProofs

-----------------------------------------------------------------------------
(* How stored tasks read.                                                  *)

\* What is read of a stored task is a task, and each of its fields.
LEMMA AsReadFields ==
  ASSUME NEW t \in Task
  PROVE  /\ AsRead(t) \in Task
         /\ AsRead(t).status = ReadStatus(t)
         /\ AsRead(t).end = CASE t.end \in {"rfc3339", "seconds"} -> "rfc3339"
                             [] t.end \in {"empty", "garbage"} -> "garbage"
                             [] OTHER -> "none"
         /\ AsRead(t).due = Read(t.due)
         /\ AsRead(t).wait = Read(t.wait)
         /\ AsRead(t).scheduled = t.scheduled
         /\ AsRead(t).entry = Read(t.entry)
         /\ AsRead(t).tags = t.tags
         /\ AsRead(t).annotations = t.annotations
         /\ AsRead(t).udas = t.udas
<1>. DEFINE d == DtoOf(t)
            end == IF t.end \in {"empty", "garbage"} THEN "garbage" ELSE d.end
<1>1. /\ d \in Dto
      /\ d.status = ReadStatus(t) /\ d.due = Read(t.due) /\ d.scheduled = t.scheduled
      /\ d.wait = Read(t.wait) /\ d.entry = Read(t.entry)
      /\ d.tags = t.tags /\ d.annotations = t.annotations /\ d.udas = t.udas
  BY DtoOfFields
<1>2. /\ end = CASE t.end \in {"rfc3339", "seconds"} -> "rfc3339"
                 [] t.end \in {"empty", "garbage"} -> "garbage"
                 [] OTHER -> "none"
      /\ end \in Stamp
  BY DtoOfFields DEF Stamp
<1>3. AsRead(t) = [d EXCEPT !.end = end]
  BY TaskStoreAssumption DEF AsRead
<1>4. t.tags \in SUBSET Tags /\ t.annotations \in SUBSET Annotations
  BY DEF Task
<1>. HIDE DEF d, end
<1>5. /\ AsRead(t) \in Task
      /\ AsRead(t).end = end /\ AsRead(t).status = d.status /\ AsRead(t).due = d.due
      /\ AsRead(t).wait = d.wait /\ AsRead(t).entry = d.entry
      /\ AsRead(t).scheduled = d.scheduled /\ AsRead(t).tags = d.tags
      /\ AsRead(t).annotations = d.annotations /\ AsRead(t).udas = d.udas
  BY <1>1, <1>2, <1>3, <1>4 DEF Task, Dto
<1>. QED
  BY <1>1, <1>2, <1>5

\* Two tasks with the same fields are the same task.
LEMMA TaskEqual ==
  ASSUME NEW a \in Task, NEW b \in Task,
         a.status = b.status, a.end = b.end, a.due = b.due, a.wait = b.wait,
         a.scheduled = b.scheduled, a.entry = b.entry, a.tags = b.tags,
         a.annotations = b.annotations, a.udas = b.udas
  PROVE  a = b
BY DEF Task

\* The operators that TaskView takes from TaskOps are those of TaskStore.
LEMMA SameOperators ==
  /\ View!NewTask = NewTask
  /\ \A s : View!MapStatus(s) = MapStatus(s) /\ View!DartStamp(s) = DartStamp(s)
  /\ \A d : View!DtoRejected(d) <=> DtoRejected(d)
  /\ \A m : View!MapRejected(m) <=> MapRejected(m)
  /\ \A d, e : View!Edited(d, e) = Edited(d, e)
  /\ \A o, g : View!AppliedUdas(o, g) = AppliedUdas(o, g)
BY DEF View!NewTask, NewTask, View!MapStatus, MapStatus, View!DartStamp, DartStamp,
       View!DtoRejected, DtoRejected, View!MapRejected, MapRejected, View!Malformed,
       Malformed, View!Edited, Edited, View!AppliedUdas, AppliedUdas

\* A new task reads as a new one.
LEMMA NewTaskShown == AsRead(NewTask) = View!NewView
<1>1. View!NewView = [NewTask EXCEPT !.status = "pending"]
  BY SameOperators DEF View!NewView
<1>2. View!NewView \in Task
  BY <1>1 DEF NewTask, Task, Status, Stamp, Attributes
<1>3. AsRead(NewTask) \in Task
  BY NewTaskType, AsReadFields
<1>. QED
  BY <1>1, <1>2, <1>3, NewTaskType, AsReadFields, TaskEqual DEF NewTask, ReadStatus, Read

\* Task::set_status, and how its outcome reads.
LEMMA SetStatusShown ==
  ASSUME NEW t \in Task, NEW s \in Status
  PROVE  AsRead(SetStatus(t, s)) = View!WithStatus(AsRead(t), s)
<1>. DEFINE r == SetStatus(t, s)
            v == AsRead(t)
            end == CASE s \in {"pending", "recurring"} -> "none"
                     [] s \in {"completed", "deleted"} /\ v.end = "none" -> "rfc3339"
                     [] OTHER -> v.end
<1>1. r \in Task /\ AsRead(r) \in Task /\ v \in Task
  BY SetStatusType, AsReadFields
<1>2. /\ r.status = s /\ r.due = t.due /\ r.scheduled = t.scheduled /\ r.tags = t.tags
      /\ r.wait = t.wait /\ r.entry = t.entry
      /\ r.annotations = t.annotations /\ r.udas = t.udas
      /\ r.end = CASE s \in {"pending", "recurring"} -> "none"
                   [] s \in {"completed", "deleted"} /\ t.end = "none" -> "seconds"
                   [] OTHER -> t.end
  BY DEF SetStatus, Task
<1>3. t.end \in Stamp
  BY DEF Task
<1>4. v.end = CASE t.end \in {"rfc3339", "seconds"} -> "rfc3339"
                [] t.end \in {"empty", "garbage"} -> "garbage"
                [] OTHER -> "none"
  BY AsReadFields
<1>5. AsRead(r).end = CASE r.end \in {"rfc3339", "seconds"} -> "rfc3339"
                       [] r.end \in {"empty", "garbage"} -> "garbage"
                       [] OTHER -> "none"
  BY <1>1, AsReadFields
<1>6. /\ AsRead(r).status = s /\ AsRead(r).due = v.due /\ AsRead(r).scheduled = v.scheduled
      /\ AsRead(r).wait = v.wait /\ AsRead(r).entry = v.entry
      /\ AsRead(r).tags = v.tags /\ AsRead(r).annotations = v.annotations
      /\ AsRead(r).udas = v.udas
  BY <1>1, <1>2, AsReadFields DEF ReadStatus, Status
<1>7. View!WithStatus(v, s) = [v EXCEPT !.status = s, !.end = end]
  BY DEF View!WithStatus
<1>. HIDE DEF r, v
<1>8. AsRead(r).end = end /\ end \in Stamp
  <2>. QED
    BY <1>2, <1>3, <1>4, <1>5 DEF Stamp, Status
<1>. HIDE DEF end
<1>9. /\ View!WithStatus(v, s) \in Task
      /\ View!WithStatus(v, s).status = s /\ View!WithStatus(v, s).end = end
      /\ View!WithStatus(v, s).due = v.due /\ View!WithStatus(v, s).scheduled = v.scheduled
      /\ View!WithStatus(v, s).wait = v.wait /\ View!WithStatus(v, s).entry = v.entry
      /\ View!WithStatus(v, s).tags = v.tags
      /\ View!WithStatus(v, s).annotations = v.annotations
      /\ View!WithStatus(v, s).udas = v.udas
  BY <1>1, <1>7, <1>8, ZenonT(120) DEF Task
<1>10. AsRead(r) = View!WithStatus(v, s)
  BY <1>1, <1>6, <1>8, <1>9, TaskEqual
<1>. QED
  BY <1>10 DEF r, v

\* update_task_with_dto, and how its outcome reads.
LEMMA ReplaceDtoShown ==
  ASSUME NEW t \in Task, NEW d \in Dto, ~DtoRejected(d)
  PROVE  AsRead(ReplaceDto(t, d)) = View!Replaced(AsRead(t), d)
<1>. DEFINE r == ReplaceDto(t, d)
            v == AsRead(t)
            s == SetStatus(t, d.status)
            end == View!Given(View!WithStatus(v, d.status).end, d.end)
            due == View!Given(v.due, d.due)
            wait == View!Given(v.wait, d.wait)
            entry == IF d.entry \in {"none", "empty"} THEN v.entry ELSE d.entry
            annotations == IF d.annotations = Absent THEN v.annotations ELSE d.annotations
            udas == AppliedUdas(v.udas, d.udas)
<1>1. /\ d.status \in Status /\ d.end \in Stamp /\ d.due \in Stamp /\ d.scheduled \in Stamp
      /\ d.wait \in Stamp /\ d.entry \in Stamp
      /\ t.due \in Stamp /\ t.end \in Stamp /\ t.wait \in Stamp /\ t.entry \in Stamp
      /\ ~Malformed(d.end) /\ ~Malformed(d.due) /\ ~Malformed(d.wait) /\ ~Malformed(d.entry)
      /\ d.tags \in SUBSET Tags
      /\ annotations \in SUBSET Annotations
      /\ udas \in Attributes
  <2>1. v.annotations \in SUBSET Annotations /\ v.udas \in Attributes
    BY AsReadFields DEF Task
  <2>2. d.annotations # Absent => d.annotations \in SUBSET Annotations
    BY DEF Dto
  <2>3. d.tags \in SUBSET Tags
    BY DEF DtoRejected, Dto
  <2>4. udas \in Attributes
    BY <2>1, UdasApplied DEF Dto
  <2>. QED
    BY <2>1, <2>2, <2>3, <2>4 DEF Dto, Task, DtoRejected
<1>2. /\ r \in Task /\ s \in Task /\ v \in Task /\ AsRead(r) \in Task
      /\ AsRead(s) = View!WithStatus(v, d.status)
  BY <1>1, ReplaceDtoType, SetStatusType, SetStatusShown, AsReadFields
<1>3. /\ r.status = d.status
      /\ r.end = AppliedEnd(s.end, d.end)
      /\ r.due = AppliedDue(t.due, d.due)
      /\ r.wait = AppliedDue(t.wait, d.wait)
      /\ r.scheduled = d.scheduled
      /\ r.entry = AppliedEntry(t.entry, d.entry)
      /\ r.tags = d.tags
      /\ r.annotations = IF d.annotations = Absent THEN t.annotations ELSE d.annotations
      /\ r.udas = AppliedUdas(t.udas, d.udas)
  BY ReplaceDtoFields
<1>4. View!Replaced(v, d) = [d EXCEPT !.end = end, !.due = due, !.wait = wait, !.entry = entry,
                                      !.annotations = annotations, !.udas = udas]
  BY SameOperators DEF View!Replaced
<1>5. AsRead(r).end = end
  <2>1. AsRead(s).end = View!WithStatus(v, d.status).end /\ s.end \in Stamp
    BY <1>2 DEF Task
  <2>2. d.end \in {"none", "empty", "rfc3339"}
    BY <1>1 DEF Malformed, Stamp
  <2>3. CASE d.end = "empty"
    <3>1. r.end = s.end /\ end = View!WithStatus(v, d.status).end
      BY <1>3, <2>3 DEF AppliedEnd, View!Given
    <3>. HIDE DEF r, s, end
    <3>2. AsRead(r).end = AsRead(s).end
      BY <1>2, <3>1, AsReadFields
    <3>. QED
      BY <2>1, <3>1, <3>2
  <2>4. CASE d.end \in {"none", "rfc3339"}
    <3>1. r.end = d.end /\ end = d.end
      BY <1>3, <2>4 DEF AppliedEnd, View!Given
    <3>. HIDE DEF r, s, end
    <3>. QED
      BY <1>2, <2>4, <3>1, AsReadFields
  <2>. QED
    BY <2>2, <2>3, <2>4
<1>6. AsRead(r).due = due /\ AsRead(r).wait = wait /\ AsRead(r).entry = entry
  <2>1. /\ AsRead(r).due = Read(r.due) /\ v.due = Read(t.due)
        /\ AsRead(r).wait = Read(r.wait) /\ v.wait = Read(t.wait)
        /\ AsRead(r).entry = Read(r.entry) /\ v.entry = Read(t.entry)
    BY <1>2, AsReadFields
  <2>2. /\ d.due \in {"none", "empty", "rfc3339"}
        /\ d.wait \in {"none", "empty", "rfc3339"}
        /\ d.entry \in {"none", "empty", "rfc3339"}
    BY <1>1 DEF Malformed, Stamp
  <2>3. AsRead(r).due = due
    BY <1>3, <2>1, <2>2 DEF AppliedDue, Read, View!Given
  <2>4. AsRead(r).wait = wait
    BY <1>3, <2>1, <2>2 DEF AppliedDue, Read, View!Given
  <2>5. AsRead(r).entry = entry
    BY <1>3, <2>1, <2>2 DEF AppliedEntry, Read
  <2>. QED
    BY <2>3, <2>4, <2>5
<1>7. /\ AsRead(r).status = d.status /\ AsRead(r).scheduled = d.scheduled
      /\ AsRead(r).tags = d.tags
  BY <1>1, <1>2, <1>3, AsReadFields DEF ReadStatus, Status
<1>8. AsRead(r).annotations = annotations /\ AsRead(r).udas = udas
  <2>1. v.annotations = t.annotations /\ v.udas = t.udas
    BY AsReadFields
  <2>2. AsRead(r).annotations = r.annotations /\ AsRead(r).udas = r.udas
    BY <1>2, AsReadFields
  <2>. HIDE DEF r, v
  <2>. QED
    BY <1>3, <2>1, <2>2
<1>9. end \in Stamp /\ due \in Stamp /\ wait \in Stamp /\ entry \in Stamp
  <2>. HIDE DEF r, end, due, wait, entry
  <2>. QED
    BY <1>2, <1>5, <1>6 DEF Task
<1>. HIDE DEF r, v, s, end, due, wait, entry, annotations, udas
<1>10. LET w == View!Replaced(v, d)
       IN  /\ w \in Task
           /\ w.status = d.status /\ w.end = end /\ w.due = due
           /\ w.wait = wait /\ w.entry = entry
           /\ w.scheduled = d.scheduled /\ w.tags = d.tags
           /\ w.annotations = annotations /\ w.udas = udas
  BY <1>1, <1>4, <1>9, ZenonT(60) DEF Dto, Task
<1>11. AsRead(r) = View!Replaced(v, d)
  BY <1>2, <1>5, <1>6, <1>7, <1>8, <1>10, TaskEqual
<1>. QED
  BY <1>11 DEF r, v

\* apply_task_data as it creates a task, and how its outcome reads.
LEMMA MapAddedShown ==
  ASSUME NEW t \in Task, NEW m \in Map, ~MapRejected(m)
  PROVE  AsRead(ApplyMap(t, m, FALSE)) = View!Added(AsRead(t), m)
<1>. DEFINE r == ApplyMap(t, m, FALSE)
            s == IF m.status = "none" THEN t ELSE SetStatus(t, MapStatus(m.status))
            v == AsRead(t)
            w == IF m.status = "none" THEN v ELSE View!WithStatus(v, MapStatus(m.status))
            due         == IF m.due = "rfc3339" THEN "rfc3339" ELSE w.due
            wait        == IF m.wait = "rfc3339" THEN "rfc3339" ELSE w.wait
            scheduled   == IF m.scheduled = "rfc3339" THEN "rfc3339" ELSE w.scheduled
            tags        == IF m.tags = Absent THEN w.tags ELSE w.tags \cup m.tags
            annotations == w.annotations \cup m.annotations
            udas        == AppliedUdas(w.udas, m.udas)
<1>1. /\ r \in Task /\ AsRead(r) \in Task /\ s \in Task /\ AsRead(s) = w /\ w \in Task
  <2>1. MapStatus(m.status) \in Status
    BY DEF MapStatus, Status
  <2>2. r \in Task
    BY ApplyMapType
  <2>3. s \in Task /\ AsRead(s) = w
    BY <2>1, SetStatusType, SetStatusShown
  <2>. QED
    BY <2>2, <2>3, AsReadFields
<1>2. r = [s EXCEPT
             !.due         = IF m.due = "rfc3339" THEN "seconds" ELSE s.due,
             !.wait        = IF m.wait = "rfc3339" THEN "seconds" ELSE s.wait,
             !.scheduled   = IF m.scheduled = "rfc3339" THEN "rfc3339" ELSE s.scheduled,
             !.tags        = IF m.tags = Absent THEN s.tags ELSE s.tags \cup m.tags,
             !.annotations = s.annotations \cup m.annotations,
             !.udas        = AppliedUdas(s.udas, m.udas)]
  BY DEF ApplyMap
<1>3. View!Added(v, m) = [w EXCEPT !.due = due, !.wait = wait, !.scheduled = scheduled,
                                   !.tags = tags, !.annotations = annotations, !.udas = udas]
  BY SameOperators DEF View!Added
<1>. HIDE DEF r, s, v, w
<1>4. /\ r.status = s.status /\ r.end = s.end /\ r.entry = s.entry
      /\ r.due = IF m.due = "rfc3339" THEN "seconds" ELSE s.due
      /\ r.wait = IF m.wait = "rfc3339" THEN "seconds" ELSE s.wait
      /\ r.scheduled = IF m.scheduled = "rfc3339" THEN "rfc3339" ELSE s.scheduled
      /\ r.tags = IF m.tags = Absent THEN s.tags ELSE s.tags \cup m.tags
      /\ r.annotations = s.annotations \cup m.annotations
      /\ r.udas = AppliedUdas(s.udas, m.udas)
  BY <1>1, <1>2 DEF Task
<1>5. /\ AsRead(r).status = w.status /\ AsRead(r).end = w.end
      /\ AsRead(r).due = due /\ AsRead(r).scheduled = scheduled
      /\ AsRead(r).wait = wait /\ AsRead(r).entry = w.entry
  BY <1>1, <1>4, AsReadFields DEF ReadStatus, Read
<1>6. AsRead(r).tags = tags /\ AsRead(r).annotations = annotations /\ AsRead(r).udas = udas
  <2>1. w.tags = s.tags /\ w.annotations = s.annotations /\ w.udas = s.udas
    BY <1>1, AsReadFields
  <2>2. /\ AsRead(r).tags = r.tags /\ AsRead(r).annotations = r.annotations
        /\ AsRead(r).udas = r.udas
    BY <1>1, AsReadFields
  <2>. QED
    BY <1>4, <2>1, <2>2
<1>7. /\ due \in Stamp /\ wait \in Stamp /\ scheduled \in Stamp /\ tags \in SUBSET Tags
      /\ annotations \in SUBSET Annotations /\ udas \in Attributes
  <2>. HIDE DEF due, wait, scheduled, tags, annotations, udas
  <2>. QED
    BY <1>1, <1>5, <1>6 DEF Task
<1>. HIDE DEF due, wait, scheduled, tags, annotations, udas
<1>8. LET x == View!Added(v, m)
      IN  /\ x \in Task
          /\ x.status = w.status /\ x.end = w.end /\ x.due = due
          /\ x.wait = wait /\ x.entry = w.entry
          /\ x.scheduled = scheduled /\ x.tags = tags
          /\ x.annotations = annotations /\ x.udas = udas
  BY <1>1, <1>3, <1>7, ZenonT(120) DEF Task
<1>9. AsRead(r) = View!Added(v, m)
  BY <1>1, <1>5, <1>6, <1>8, TaskEqual
<1>. QED
  BY <1>9 DEF r, v

\* An update by map is the creation by map of a task that was cleared first.
LEMMA MapReplacedShown ==
  ASSUME NEW t \in Task, NEW m \in Map, ~MapRejected(m)
  PROVE  AsRead(ApplyMap(t, m, TRUE)) = View!Added(View!Cleared(AsRead(t), m), m)
<1>. DEFINE tags == IF m.tags = Absent THEN t.tags ELSE {}
            c == [t EXCEPT !.annotations = {}, !.tags = tags]
            v == AsRead(t)
            st == MapStatus(m.status)
<1>1. st \in Status
  BY DEF MapStatus, Status
<1>2. /\ c \in Task
      /\ c.status = t.status /\ c.end = t.end /\ c.due = t.due /\ c.scheduled = t.scheduled
      /\ c.wait = t.wait /\ c.entry = t.entry
      /\ c.tags = tags /\ c.annotations = {} /\ c.udas = t.udas
  <2>1. tags \in SUBSET Tags
    BY DEF Task
  <2>. HIDE DEF tags
  <2>. QED
    BY <2>1 DEF Task
<1>3. ApplyMap(t, m, TRUE) = ApplyMap(c, m, FALSE)
  <2>. DEFINE a == IF m.status = "none" THEN t ELSE SetStatus(t, st)
              b == IF m.status = "none" THEN c ELSE SetStatus(c, st)
  <2>1. /\ a \in Task /\ b \in Task
        /\ a.status = b.status /\ a.end = b.end /\ a.due = b.due /\ a.scheduled = b.scheduled
        /\ a.wait = b.wait /\ a.entry = b.entry /\ a.udas = b.udas
        /\ a.tags = t.tags /\ b.tags = tags /\ b.annotations = {}
    <3>1. CASE m.status = "none"
      BY <1>2, <3>1
    <3>2. CASE m.status # "none"
      <4>1. a = SetStatus(t, st) /\ b = SetStatus(c, st)
        BY <3>2
      <4>2. a \in Task /\ b \in Task
        BY <1>1, <1>2, <4>1, SetStatusType
      <4>. HIDE DEF c, tags
      <4>3. /\ a.status = b.status /\ a.end = b.end /\ a.due = b.due
            /\ a.scheduled = b.scheduled /\ a.wait = b.wait /\ a.entry = b.entry
            /\ a.udas = b.udas
            /\ a.tags = t.tags /\ b.tags = c.tags /\ b.annotations = c.annotations
        BY <1>1, <1>2, <4>1 DEF SetStatus, Task
      <4>. QED
        BY <1>2, <4>2, <4>3
    <3>. QED
      BY <3>1, <3>2
  <2>2. ApplyMap(t, m, TRUE) =
          [a EXCEPT
             !.due         = IF m.due = "rfc3339" THEN "seconds" ELSE a.due,
             !.wait        = IF m.wait = "rfc3339" THEN "seconds" ELSE a.wait,
             !.scheduled   = IF m.scheduled = "rfc3339" THEN "rfc3339" ELSE a.scheduled,
             !.tags        = IF m.tags = Absent THEN a.tags ELSE m.tags,
             !.annotations = m.annotations,
             !.udas        = AppliedUdas(a.udas, m.udas)]
    BY DEF ApplyMap
  <2>3. ApplyMap(c, m, FALSE) =
          [b EXCEPT
             !.due         = IF m.due = "rfc3339" THEN "seconds" ELSE b.due,
             !.wait        = IF m.wait = "rfc3339" THEN "seconds" ELSE b.wait,
             !.scheduled   = IF m.scheduled = "rfc3339" THEN "rfc3339" ELSE b.scheduled,
             !.tags        = IF m.tags = Absent THEN b.tags ELSE b.tags \cup m.tags,
             !.annotations = b.annotations \cup m.annotations,
             !.udas        = AppliedUdas(b.udas, m.udas)]
    BY DEF ApplyMap
  <2>4. /\ (IF m.tags = Absent THEN a.tags ELSE m.tags) =
             (IF m.tags = Absent THEN b.tags ELSE b.tags \cup m.tags)
        /\ m.annotations = b.annotations \cup m.annotations
    <3>. HIDE DEF a, b
    <3>1. CASE m.tags = Absent
      BY <2>1, <3>1
    <3>2. CASE m.tags # Absent
      <4>1. b.tags = {} /\ b.annotations = {}
        BY <2>1, <3>2
      <4>. QED
        BY <3>2, <4>1
    <3>. QED
      BY <3>1, <3>2
  <2>5. ApplyMap(t, m, TRUE) \in Task /\ ApplyMap(c, m, FALSE) \in Task
    BY <1>2, ApplyMapType
  <2>. DEFINE x == ApplyMap(t, m, TRUE)
              y == ApplyMap(c, m, FALSE)
  <2>. HIDE DEF a, b, c
  <2>6. /\ x.status = a.status /\ x.end = a.end /\ x.entry = a.entry
        /\ x.wait = IF m.wait = "rfc3339" THEN "seconds" ELSE a.wait
        /\ x.due = IF m.due = "rfc3339" THEN "seconds" ELSE a.due
        /\ x.scheduled = IF m.scheduled = "rfc3339" THEN "rfc3339" ELSE a.scheduled
        /\ x.tags = IF m.tags = Absent THEN a.tags ELSE m.tags
        /\ x.annotations = m.annotations /\ x.udas = AppliedUdas(a.udas, m.udas)
    BY <2>1, <2>2, ZenonT(120) DEF Task
  <2>7. /\ y.status = b.status /\ y.end = b.end /\ y.entry = b.entry
        /\ y.wait = IF m.wait = "rfc3339" THEN "seconds" ELSE b.wait
        /\ y.due = IF m.due = "rfc3339" THEN "seconds" ELSE b.due
        /\ y.scheduled = IF m.scheduled = "rfc3339" THEN "rfc3339" ELSE b.scheduled
        /\ y.tags = IF m.tags = Absent THEN b.tags ELSE b.tags \cup m.tags
        /\ y.annotations = b.annotations \cup m.annotations
        /\ y.udas = AppliedUdas(b.udas, m.udas)
    BY <2>1, <2>3, ZenonT(120) DEF Task
  <2>. HIDE DEF x, y
  <2>8. x.tags = y.tags /\ x.annotations = y.annotations
    BY <2>4, <2>6, <2>7
  <2>9. /\ x.udas = y.udas /\ x.due = y.due /\ x.wait = y.wait
        /\ x.scheduled = y.scheduled /\ x.entry = y.entry
    BY <2>1, <2>6, <2>7
  <2>10. x \in Task /\ y \in Task
    BY <2>5 DEF x, y
  <2>11. x.status = y.status /\ x.end = y.end
    BY <2>1, <2>6, <2>7
  <2>12. x = y
    BY <2>8, <2>9, <2>10, <2>11, TaskEqual
  <2>. QED
    BY <2>12 DEF x, y
<1>4. AsRead(c) = View!Cleared(v, m)
  <2>. DEFINE w == View!Cleared(v, m)
              vtags == IF m.tags = Absent THEN v.tags ELSE {}
  <2>1. w = [v EXCEPT !.annotations = {}, !.tags = vtags]
    BY DEF View!Cleared
  <2>2. v \in Task /\ vtags \in SUBSET Tags /\ vtags = tags
    BY AsReadFields DEF Task
  <2>. HIDE DEF v, vtags
  <2>3. /\ w \in Task
        /\ w.status = v.status /\ w.end = v.end /\ w.due = v.due
        /\ w.wait = v.wait /\ w.entry = v.entry
        /\ w.scheduled = v.scheduled /\ w.tags = tags /\ w.annotations = {} /\ w.udas = v.udas
    BY <2>1, <2>2 DEF Task
  <2>. HIDE DEF w, c, tags
  <2>4. /\ AsRead(c) \in Task
        /\ AsRead(c).status = v.status /\ AsRead(c).end = v.end /\ AsRead(c).due = v.due
        /\ AsRead(c).wait = v.wait /\ AsRead(c).entry = v.entry
        /\ AsRead(c).scheduled = v.scheduled /\ AsRead(c).udas = v.udas
        /\ AsRead(c).tags = tags /\ AsRead(c).annotations = {}
    BY <1>2, AsReadFields DEF v, ReadStatus
  <2>5. AsRead(c) = w
    BY <2>3, <2>4, TaskEqual
  <2>. QED
    BY <2>5 DEF w
<1>5. AsRead(ApplyMap(c, m, FALSE)) = View!Added(AsRead(c), m)
  BY <1>2, MapAddedShown
<1>. QED
  BY <1>3, <1>4, <1>5

\* getTask: what a Dart program makes of a task follows from how it reads, but
\* for the two forms of an `end`.
LEMMA DartDtoShown ==
  ASSUME NEW t \in Task
  PROVE  DartDto(t) \in View!AsDart(AsRead(t))
<1>. DEFINE v == AsRead(t)
            e == IF t.end = "rfc3339" THEN "rfc3339" ELSE "none"
            w == [v EXCEPT !.status = MapStatus(v.status), !.scheduled = DartStamp(v.scheduled),
                           !.entry = "rfc3339", !.end = e]
<1>1. v \in Task
  BY AsReadFields
<1>2. e \in {"none", v.end} \ {"garbage"}
  BY AsReadFields DEF Task, Stamp
<1>3. w \in View!AsDart(v)
  BY <1>2, SameOperators DEF View!AsDart, View!Hidden
<1>4. MapStatus(v.status) \in Status /\ DartStamp(v.scheduled) \in Stamp /\ e \in Stamp
  BY <1>1, StampTypes DEF MapStatus, Status, Stamp, Task
<1>5. /\ w \in Dto
      /\ w.status = MapStatus(v.status) /\ w.end = e /\ w.scheduled = DartStamp(v.scheduled)
      /\ w.due = v.due /\ w.wait = v.wait /\ w.entry = "rfc3339"
      /\ w.tags = v.tags /\ w.annotations = v.annotations /\ w.udas = v.udas
  <2>1. v.annotations \in SUBSET Annotations /\ v.tags \in SUBSET Tags
    BY <1>1 DEF Task
  <2>2. "rfc3339" \in Stamp
    BY DEF Stamp
  <2>. HIDE DEF v, e
  <2>. QED
    BY <1>1, <1>4, <2>1, <2>2 DEF Task, Dto
<1>6. DartDto(t) = w
  <2>1. /\ v.status = ReadStatus(t) /\ v.due = Read(t.due) /\ v.scheduled = t.scheduled
        /\ v.wait = Read(t.wait)
        /\ v.tags = t.tags /\ v.annotations = t.annotations /\ v.udas = t.udas
    BY AsReadFields
  <2>. HIDE DEF v, w
  <2>. QED
    BY <1>5, <2>1, DartDtoFields, DtoEqual
<1>. QED
  BY <1>3, <1>6

-----------------------------------------------------------------------------
(* The refinement.                                                         *)

\* The rows that an import has yet to read come from a file.
RowsFromFiles == \A i \in DOMAIN rows : rows[i] \in Row /\ rows[i].map \in RowMaps

LEMMA RowsInvariant == Spec => []RowsFromFiles
<1>1. Init => RowsFromFiles
  BY DEF Init, RowsFromFiles
<1>2. TypeOK /\ RowsFromFiles /\ [Next]_vars => RowsFromFiles'
  <2>. SUFFICES ASSUME TypeOK, RowsFromFiles, [Next]_vars
                PROVE  RowsFromFiles'
    OBVIOUS
  <2>1. ASSUME NEW f \in Files, StartImport(f)
        PROVE  RowsFromFiles'
    <3>1. rows' = f /\ f \in Seq(Row)
      BY <2>1, TaskStoreAssumption DEF StartImport
    <3>2. \A i \in 1 .. Len(f) : f[i] \in Row /\ f[i].map \in RowMaps
      BY <3>1 DEF RowMaps
    <3>. QED
      BY <3>1, <3>2 DEF RowsFromFiles
  <2>2. ASSUME ImportStep
        PROVE  RowsFromFiles'
    <3>1. rows \in Seq(Row) /\ rows # << >> /\ rows' = Tail(rows)
      BY <2>2 DEF ImportStep, TypeOK
    <3>. QED
      BY <3>1 DEF RowsFromFiles
  <2>3. CASE EndImport
    BY <2>3 DEF EndImport, RowsFromFiles
  <2>4. CASE UNCHANGED rows
    BY <2>4 DEF RowsFromFiles
  <2>. QED
    BY <2>1, <2>2, <2>3, <2>4
    DEF Next, vars, importVars, AddTaskDto, UpdateTaskDto, WriteDto, AddTask, UpdateTask,
        DeleteTask, WriteOther, Fetch, ImportRow, SyncBrings, Save, SkipRow, FailRow
<1>. QED
  BY <1>1, <1>2, TypeCorrect, PTL DEF Spec

\* The view, as TaskView has it.
Seen == [u \in Ids |-> AsRead(db[u])]

\* A step that writes one task and leaves the draft alone is a Put of TaskView.
LEMMA PutShown ==
  ASSUME TypeOK, NEW u \in Ids, NEW t \in Task \cup {NoTask}, Put(u, t), UNCHANGED draft
  PROVE  View!Put(u, AsRead(t))
<1>1. db' = [db EXCEPT ![u] = t] /\ db' \in [Ids -> Task \cup {NoTask}]
  BY PutType DEF Put
<1>2. db'[u] = t /\ \A v \in Ids \ {u} : db'[v] = db[v]
  BY PutType
<1>3. Seen' = [Seen EXCEPT ![u] = AsRead(t)]
  BY <1>2 DEF Seen
<1>. QED
  BY <1>2, <1>3 DEF View!Put, Seen

\* The database holds a task under u, or none, and so does the view.
LEMMA SeenPresent ==
  ASSUME TypeOK, NEW u \in Ids
  PROVE  /\ u \in Present <=> Seen[u] # NoTask
         /\ u \in Present => db[u] \in Task /\ Seen[u] = AsRead(db[u])
         /\ u \notin Present => db[u] = NoTask
BY AsReadFields, TaskStoreAssumption DEF Seen, Present, TypeOK, AsRead

\* What is written anew is a creation of TaskView, by DTO or by map.
LEMMA CreationShown ==
  ASSUME TypeOK, NEW u \in Ids \ Present, NEW t, Put(u, t), UNCHANGED draft,
         \/ \E d \in Dtos : ~DtoRejected(d) /\ t = CreateDto(d)
         \/ \E m \in Map : /\ m \in Maps \cup RowMaps
                           /\ ~MapRejected(m) /\ t = ApplyMap(NewTask, m, FALSE)
  PROVE  View!Create(u)
<1>1. Seen[u] = NoTask
  BY SeenPresent
<1>2. ASSUME NEW d \in Dtos, ~DtoRejected(d), t = CreateDto(d)
      PROVE  View!Create(u)
  <2>1. d \in Dto
    BY TaskStoreAssumption
  <2>2. t \in Task /\ AsRead(t) = View!Replaced(View!NewView, d)
    BY <1>2, <2>1, NewTaskType, ReplaceDtoType, ReplaceDtoShown, NewTaskShown DEF CreateDto
  <2>3. View!Put(u, View!Replaced(View!NewView, d))
    BY <2>2, PutShown
  <2>. QED
    BY <1>1, <1>2, <2>3, SameOperators DEF View!Create, Seen, AllMaps
<1>3. ASSUME NEW m \in Map, m \in Maps \cup RowMaps, ~MapRejected(m),
             t = ApplyMap(NewTask, m, FALSE)
      PROVE  View!Create(u)
  <2>1. t \in Task /\ AsRead(t) = View!Added(View!NewView, m)
    BY <1>3, NewTaskType, ApplyMapType, MapAddedShown, NewTaskShown
  <2>2. View!Put(u, View!Added(View!NewView, m))
    BY <2>1, PutShown
  <2>. QED
    BY <1>1, <1>3, <2>2, SameOperators DEF View!Create, Seen, AllMaps
<1>. QED
  BY <1>2, <1>3

\* Every write, import and sync is what TaskView says it is to those who read:
\* by no chain of them does the form in which a value is stored come to matter.
THEOREM StoreImplementsView == Spec => ViewSpec
<1>1. Init => View!Init
  BY DEF Init, NoDraft, View!Init, AsRead
<1>2. TypeOK /\ RowsFromFiles /\ [Next]_vars => [View!Next]_(View!vars)
  <2>. SUFFICES ASSUME TypeOK, RowsFromFiles, [Next]_vars
                PROVE  View!Next \/ UNCHANGED View!vars
    OBVIOUS
  <2>. USE TaskStoreAssumption
  <2>put. ASSUME NEW u \in Ids, NEW v, View!Put(u, v),
                 View!Create(u) \/ View!Update(u) \/ View!SyncBrings(u)
          PROVE  View!Next \/ UNCHANGED View!vars
    <3>1. Seen' = [Seen EXCEPT ![u] = Seen'[u]] /\ UNCHANGED draft
      BY <2>put DEF View!Put, Seen
    <3>2. CASE Seen'[u] = Seen[u]
      <4>1. Seen' = Seen
        BY <3>1, <3>2 DEF Seen
      <4>. QED
        BY <3>1, <4>1 DEF View!vars, Seen
    <3>3. CASE Seen'[u] # Seen[u]
      BY <2>put, <3>3 DEF View!Next, Seen
    <3>. QED
      BY <3>2, <3>3
  <2>create. ASSUME NEW u \in Ids, View!Create(u)
             PROVE  View!Next \/ UNCHANGED View!vars
    BY <2>create, <2>put DEF View!Create
  <2>update. ASSUME NEW u \in Ids, View!Update(u)
             PROVE  View!Next \/ UNCHANGED View!vars
    BY <2>update, <2>put DEF View!Update
  <2>a. ASSUME NEW u \in Ids, NEW d \in Dtos, AddTaskDto(u, d)
        PROVE  View!Next \/ UNCHANGED View!vars
    BY <2>a, <2>create, CreationShown DEF AddTaskDto, WriteDto, Fresh
  <2>b. ASSUME NEW u \in Ids, NEW d \in Dtos, UpdateTaskDto(u, d)
        PROVE  View!Next \/ UNCHANGED View!vars
    <3>. DEFINE t == ReplaceDto(db[u], d)
    <3>1. /\ u \in Present /\ db[u] \in Task /\ Seen[u] = AsRead(db[u]) /\ Seen[u] # NoTask
          /\ d \in Dto /\ ~DtoRejected(d) /\ Put(u, t) /\ UNCHANGED draft
      BY <2>b, SeenPresent DEF UpdateTaskDto, WriteDto
    <3>2. t \in Task /\ AsRead(t) = View!Replaced(Seen[u], d)
      BY <3>1, ReplaceDtoType, ReplaceDtoShown
    <3>. HIDE DEF t
    <3>3. View!Put(u, View!Replaced(Seen[u], d))
      BY <3>1, <3>2, PutShown
    <3>4. View!Update(u)
      BY <3>1, <3>3, SameOperators DEF View!Update, Seen, AllMaps
    <3>. QED
      BY <3>4, <2>update
  <2>c. ASSUME NEW u \in Ids, NEW m \in Maps, AddTask(u, m)
        PROVE  View!Next \/ UNCHANGED View!vars
    BY <2>c, <2>create, CreationShown DEF AddTask, WriteOther, Fresh
  <2>d. ASSUME NEW u \in Ids, NEW m \in Maps, UpdateTask(u, m)
        PROVE  View!Next \/ UNCHANGED View!vars
    <3>. DEFINE t == ApplyMap(db[u], m, TRUE)
    <3>1. /\ u \in Present /\ db[u] \in Task /\ Seen[u] = AsRead(db[u]) /\ Seen[u] # NoTask
          /\ m \in Map /\ ~MapRejected(m) /\ Put(u, t) /\ UNCHANGED draft
      BY <2>d, SeenPresent DEF UpdateTask, WriteOther
    <3>2. t \in Task /\ AsRead(t) = View!Added(View!Cleared(Seen[u], m), m)
      BY <3>1, ApplyMapType, MapReplacedShown
    <3>. HIDE DEF t
    <3>3. View!Put(u, View!Added(View!Cleared(Seen[u], m), m))
      BY <3>1, <3>2, PutShown
    <3>4. View!Update(u)
      BY <3>1, <3>3, SameOperators DEF View!Update, Seen, AllMaps
    <3>. QED
      BY <3>4, <2>update
  <2>e. ASSUME NEW u \in Ids, DeleteTask(u)
        PROVE  View!Next \/ UNCHANGED View!vars
    <3>. DEFINE t == SetStatus(db[u], "deleted")
    <3>1. /\ u \in Present /\ db[u] \in Task /\ Seen[u] = AsRead(db[u]) /\ Seen[u] # NoTask
          /\ Put(u, t) /\ UNCHANGED draft
      BY <2>e, SeenPresent DEF DeleteTask, WriteOther
    <3>2. t \in Task /\ AsRead(t) = View!WithStatus(Seen[u], "deleted")
      BY <3>1, SetStatusType, SetStatusShown DEF Status
    <3>. HIDE DEF t
    <3>3. View!Put(u, View!WithStatus(Seen[u], "deleted"))
      BY <3>1, <3>2, PutShown
    <3>4. View!Update(u)
      BY <3>1, <3>3 DEF View!Update, Seen
    <3>. QED
      BY <3>4, <2>update
  <2>f. ASSUME NEW u \in Ids, Fetch(u)
        PROVE  View!Next \/ UNCHANGED View!vars
    <3>1. /\ u \in Present /\ db[u] \in Task /\ Seen[u] = AsRead(db[u]) /\ Seen[u] # NoTask
          /\ draft' = [id |-> u, dto |-> DartDto(db[u])] /\ UNCHANGED db
      BY <2>f, SeenPresent DEF Fetch
    <3>2. DartDto(db[u]) \in View!AsDart(Seen[u])
      BY <3>1, DartDtoShown
    <3>3. View!Fetch(u)
      BY <3>1, <3>2 DEF View!Fetch, Seen
    <3>. QED
      BY <3>3 DEF View!Next
  <2>g. ASSUME NEW u \in Ids, ImportRow(u)
        PROVE  View!Next \/ UNCHANGED View!vars
    <3>. DEFINE r == Head(rows)
    <3>1. rows \in Seq(Row) /\ rows # << >>
      BY <2>g DEF ImportRow, ImportStep, TypeOK
    <3>2. r \in Row /\ r.map \in RowMaps
      BY <3>1 DEF RowsFromFiles
    <3>3. r.map \in Map
      BY <3>2 DEF Row
    <3>4. /\ u \in Ids \ Present /\ UNCHANGED draft /\ ~MapRejected(r.map)
          /\ Put(u, ApplyMap(NewTask, r.map, FALSE))
      BY <2>g DEF ImportRow, ImportStep, Fresh
    <3>. HIDE DEF r
    <3>. QED
      BY <3>2, <3>3, <3>4, <2>create, CreationShown
  <2>h. ASSUME NEW u \in Ids, NEW t \in Foreign \cup {NoTask}, SyncBrings(u, t)
        PROVE  View!Next \/ UNCHANGED View!vars
    <3>1. View!Put(u, AsRead(t))
      BY <2>h, PutShown DEF SyncBrings, WriteOther
    <3>2. AsRead(t) \in ForeignViews \cup {NoTask}
      BY DEF AsRead, ForeignViews
    <3>3. View!SyncBrings(u)
      BY <3>1, <3>2 DEF View!SyncBrings
    <3>. QED
      BY <3>1, <3>3, <2>put
  <2>i. ASSUME NEW e \in Edits, Save(e)
        PROVE  View!Next \/ UNCHANGED View!vars
    <3>. DEFINE u == draft.id
                d == Edited(draft.dto, e)
                t == ReplaceDto(db[u], d)
    <3>1. u \in Present /\ u \in Ids /\ draft.dto \in Dto
      BY <2>i, PresentType DEF Save, TypeOK, NoDraft, Present
    <3>2. /\ db[u] \in Task /\ Seen[u] = AsRead(db[u]) /\ Seen[u] # NoTask /\ d \in Dto
      BY <3>1, SeenPresent, EditedType
    <3>3. ~DtoRejected(d) /\ Put(u, t) /\ draft' = [id |-> Absent, dto |-> Absent]
      BY <2>i DEF Save, WriteDto, NoDraft
    <3>4. t \in Task /\ AsRead(t) = View!Replaced(Seen[u], d)
      BY <3>2, <3>3, ReplaceDtoType, ReplaceDtoShown
    <3>5. Seen' = [Seen EXCEPT ![u] = View!Replaced(Seen[u], d)]
      <4>1. db'[u] = t /\ \A v \in Ids \ {u} : db'[v] = db[v]
        BY <3>1, <3>3, <3>4, PutType
      <4>. HIDE DEF t, u, d
      <4>. QED
        BY <3>4, <4>1 DEF Seen
    <3>6. View!Save(e)
      BY <3>1, <3>2, <3>3, <3>5, SameOperators DEF View!Save, Seen
    <3>. QED
      BY <3>6 DEF View!Next
  <2>j. ASSUME UNCHANGED <<db, draft>>
        PROVE  UNCHANGED View!vars
    BY <2>j DEF View!vars
  <2>. QED
    BY <2>a, <2>b, <2>c, <2>d, <2>e, <2>f, <2>g, <2>h, <2>i, <2>j
    DEF Next, vars, StartImport, SkipRow, FailRow, ImportStep, EndImport
<1>. QED
  BY <1>1, <1>2, TypeCorrect, RowsInvariant, PTL DEF Spec, ViewSpec, View!Spec
=============================================================================
