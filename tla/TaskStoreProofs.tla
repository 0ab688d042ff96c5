-------------------------- MODULE TaskStoreProofs --------------------------
(***************************************************************************)
(* Theorems about TaskStore, for every set of uuids, tags, annotations,    *)
(* UDAs, written values and import files: its types, that what was read    *)
(* can be written back, where malformed timestamps come from, and the      *)
(* report of an import.                                                    *)
(***************************************************************************)
EXTENDS TaskStore, FiniteSetTheorems, TLAPS

-----------------------------------------------------------------------------
(* The operators of TaskOps.                                               *)

\* Replica::create_task makes a task.
LEMMA NewTaskType == NewTask \in Task
BY DEF NewTask, Task, Status, Stamp, Attributes

\* Task::set_status makes a task of a task and touches no other timestamp.
LEMMA SetStatusType ==
  ASSUME NEW t \in Task, NEW s \in Status
  PROVE  /\ SetStatus(t, s) \in Task
         /\ SetStatus(t, s).status = s
         /\ SetStatus(t, s).scheduled = t.scheduled
<1>. DEFINE end == CASE s \in {"pending", "recurring"} -> "none"
                     [] s \in {"completed", "deleted"} /\ t.end = "none" -> "seconds"
                     [] OTHER -> t.end
<1>1. end \in Stamp
  BY DEF Task, Stamp
<1>2. SetStatus(t, s) = [t EXCEPT !.status = s, !.end = end]
  BY DEF SetStatus
<1>. HIDE DEF end
<1>. QED
  BY <1>1, <1>2 DEF Task

\* The conversions of timestamps yield timestamps.
LEMMA StampTypes ==
  ASSUME NEW old \in Stamp, NEW given \in Stamp
  PROVE  /\ AppliedEnd(old, given) \in Stamp
         /\ AppliedDue(old, given) \in Stamp
         /\ AppliedEntry(old, given) \in Stamp
         /\ DartStamp(given) \in Stamp
         /\ Read(given) \in {"rfc3339", "none"}
BY DEF AppliedEnd, AppliedDue, AppliedEntry, DartStamp, Read, Stamp

\* apply_udas makes attributes of attributes, with what was given among them.
LEMMA UdasApplied ==
  ASSUME NEW old \in Attributes, NEW given \in Attributes
  PROVE  /\ AppliedUdas(old, given) \in Attributes
         /\ given \subseteq AppliedUdas(old, given)
         /\ \A a \in old : \E b \in AppliedUdas(old, given) : b.name = a.name
         /\ old = given => AppliedUdas(old, given) = given
BY DEF AppliedUdas, Attributes

\* What replace_dto_on_update makes of each field.
LEMMA ReplaceDtoFields ==
  ASSUME NEW t \in Task, NEW d \in Dto
  PROVE  LET r == ReplaceDto(t, d)
         IN  /\ r.status = d.status
             /\ r.end = AppliedEnd(SetStatus(t, d.status).end, d.end)
             /\ r.due = AppliedDue(t.due, d.due)
             /\ r.wait = AppliedDue(t.wait, d.wait)
             /\ r.scheduled = d.scheduled
             /\ r.entry = AppliedEntry(t.entry, d.entry)
             /\ r.tags = d.tags
             /\ r.annotations = IF d.annotations = Absent THEN t.annotations ELSE d.annotations
             /\ r.udas = AppliedUdas(t.udas, d.udas)
BY DEF ReplaceDto, AppliedTags, AppliedAnnotations, Dto

\* A DTO that is not rejected makes a task of a task.
LEMMA ReplaceDtoType ==
  ASSUME NEW t \in Task, NEW d \in Dto, ~DtoRejected(d)
  PROVE  ReplaceDto(t, d) \in Task
<1>1. SetStatus(t, d.status).end \in Stamp
  <2>1. SetStatus(t, d.status) \in Task
    BY SetStatusType DEF Dto
  <2>. QED
    BY <2>1 DEF Task
<1>2. AppliedEnd(SetStatus(t, d.status).end, d.end) \in Stamp
  BY <1>1, StampTypes DEF Dto
<1>3. /\ AppliedDue(t.due, d.due) \in Stamp /\ AppliedDue(t.wait, d.wait) \in Stamp
      /\ AppliedEntry(t.entry, d.entry) \in Stamp
  BY StampTypes DEF Dto, Task
<1>4. d.tags \in SUBSET Tags
  BY DEF DtoRejected, Dto
<1>5. (IF d.annotations = Absent THEN t.annotations ELSE d.annotations) \in SUBSET Annotations
  BY DEF Dto, Task
<1>6. AppliedUdas(t.udas, d.udas) \in Attributes
  BY UdasApplied DEF Dto, Task
<1>. QED
  BY <1>2, <1>3, <1>4, <1>5, <1>6
  DEF ReplaceDto, AppliedTags, AppliedAnnotations, Dto, Task

\* A map that is not rejected makes a task of a task, and leaves `scheduled`
\* well formed if it was.
LEMMA ApplyMapType ==
  ASSUME NEW t \in Task, NEW m \in Map, NEW clear \in BOOLEAN, ~MapRejected(m)
  PROVE  /\ ApplyMap(t, m, clear) \in Task
         /\ ApplyMap(t, m, clear).scheduled \in {t.scheduled, "rfc3339"}
<1>. DEFINE s == IF m.status = "none" THEN t ELSE SetStatus(t, MapStatus(m.status))
<1>1. s \in Task /\ s.scheduled = t.scheduled
  <2>1. MapStatus(m.status) \in Status
    BY DEF MapStatus, Status
  <2>. QED
    BY <2>1, SetStatusType
<1>2. m.tags # Absent => m.tags \in SUBSET Tags
  BY DEF MapRejected, Map
<1>3. ApplyMap(t, m, clear) =
        [s EXCEPT
           !.due         = IF m.due = "rfc3339" THEN "seconds" ELSE @,
           !.wait        = IF m.wait = "rfc3339" THEN "seconds" ELSE @,
           !.scheduled   = IF m.scheduled = "rfc3339" THEN "rfc3339" ELSE @,
           !.tags        = IF m.tags = Absent THEN @
                           ELSE IF clear THEN m.tags ELSE @ \cup m.tags,
           !.annotations = IF clear THEN m.annotations ELSE @ \cup m.annotations,
           !.udas        = AppliedUdas(@, m.udas)]
  BY DEF ApplyMap
<1>. DEFINE due         == IF m.due = "rfc3339" THEN "seconds" ELSE s.due
            wait        == IF m.wait = "rfc3339" THEN "seconds" ELSE s.wait
            scheduled   == IF m.scheduled = "rfc3339" THEN "rfc3339" ELSE s.scheduled
            tags        == IF m.tags = Absent THEN s.tags
                           ELSE IF clear THEN m.tags ELSE s.tags \cup m.tags
            annotations == IF clear THEN m.annotations ELSE s.annotations \cup m.annotations
            udas        == AppliedUdas(s.udas, m.udas)
<1>. HIDE DEF s
<1>4. due \in Stamp /\ wait \in Stamp /\ scheduled \in Stamp
  BY <1>1 DEF Task, Stamp
<1>5. tags \in SUBSET Tags
  <2>1. s.tags \in SUBSET Tags
    BY <1>1 DEF Task
  <2>. QED
    BY <2>1, <1>2
<1>6. annotations \in SUBSET Annotations /\ udas \in Attributes
  <2>1. s.annotations \in SUBSET Annotations /\ s.udas \in Attributes
    BY <1>1 DEF Task
  <2>2. m.annotations \in SUBSET Annotations /\ m.udas \in Attributes
    BY DEF Map
  <2>. QED
    BY <2>1, <2>2, UdasApplied
<1>7. scheduled \in {t.scheduled, "rfc3339"}
  BY <1>1
<1>8. ApplyMap(t, m, clear) =
        [s EXCEPT !.due = due, !.wait = wait, !.scheduled = scheduled, !.tags = tags,
                  !.annotations = annotations, !.udas = udas]
  BY <1>3
<1>. HIDE DEF due, wait, scheduled, tags, annotations, udas
<1>. QED
  BY <1>1, <1>4, <1>5, <1>6, <1>7, <1>8, ZenonT(60) DEF Task

\* Each field of the DTO that task_to_dto reads.
LEMMA DtoOfFields ==
  ASSUME NEW t \in Task
  PROVE  /\ DtoOf(t) \in Dto
         /\ DtoOf(t).status = ReadStatus(t)
         /\ DtoOf(t).end = IF t.end \in {"rfc3339", "seconds"} THEN "rfc3339" ELSE "none"
         /\ DtoOf(t).due = Read(t.due)
         /\ DtoOf(t).wait = Read(t.wait)
         /\ DtoOf(t).scheduled = t.scheduled
         /\ DtoOf(t).entry = Read(t.entry)
         /\ DtoOf(t).tags = t.tags
         /\ DtoOf(t).annotations = t.annotations
         /\ DtoOf(t).udas = t.udas
<1>. DEFINE status == ReadStatus(t)
            end == IF t.end \in {"rfc3339", "seconds"} THEN "rfc3339" ELSE "none"
            due == Read(t.due)
            wait == Read(t.wait)
            entry == Read(t.entry)
<1>1. status \in Status
  BY DEF ReadStatus, Task, Status
<1>2. end \in Stamp /\ due \in Stamp /\ wait \in Stamp /\ entry \in Stamp
  BY DEF Read, Stamp
<1>3. DtoOf(t) = [t EXCEPT !.status = status, !.end = end, !.due = due, !.wait = wait,
                           !.entry = entry]
  BY DEF DtoOf
<1>. HIDE DEF status, end, due, wait, entry
<1>4. /\ DtoOf(t) \in Dto
      /\ DtoOf(t).status = status /\ DtoOf(t).end = end /\ DtoOf(t).due = due
      /\ DtoOf(t).wait = wait /\ DtoOf(t).entry = entry
      /\ DtoOf(t).scheduled = t.scheduled /\ DtoOf(t).tags = t.tags
      /\ DtoOf(t).annotations = t.annotations /\ DtoOf(t).udas = t.udas
  BY <1>1, <1>2, <1>3, ZenonT(60) DEF Task, Dto
<1>. QED
  BY <1>4 DEF status, end, due, wait, entry

\* Each field of the DTO that the way through the Dart models yields.
LEMMA DartDtoFields ==
  ASSUME NEW t \in Task
  PROVE  /\ DartDto(t) \in Dto
         /\ DartDto(t).status = MapStatus(ReadStatus(t))
         /\ DartDto(t).end = IF t.end = "rfc3339" THEN "rfc3339" ELSE "none"
         /\ DartDto(t).due = Read(t.due)
         /\ DartDto(t).wait = Read(t.wait)
         /\ DartDto(t).entry = "rfc3339"
         /\ DartDto(t).scheduled = DartStamp(t.scheduled)
         /\ DartDto(t).tags = t.tags
         /\ DartDto(t).annotations = t.annotations
         /\ DartDto(t).udas = t.udas
<1>. DEFINE d == DtoOf(t)
<1>1. d \in Dto
  BY DtoOfFields
<1>2. DartDto(t) = [d EXCEPT !.end = IF t.end = "rfc3339" THEN "rfc3339" ELSE "none",
                             !.entry = "rfc3339",
                             !.status = MapStatus(d.status),
                             !.scheduled = DartStamp(d.scheduled)]
  BY <1>1 DEF DartDto, MapOf, Dto
<1>3. DartStamp(d.scheduled) \in Stamp
  BY <1>1, StampTypes DEF Dto
<1>4. MapStatus(d.status) \in Status
  BY DEF MapStatus, Status
<1>5. DartDto(t) \in Dto
  <2>. HIDE DEF d
  <2>. QED
    BY <1>1, <1>2, <1>3, <1>4 DEF Dto, Stamp
<1>. QED
  BY <1>1, <1>2, <1>5, DtoOfFields DEF Dto

-----------------------------------------------------------------------------
(* Types.                                                                  *)

\* An edited DTO is a DTO.
LEMMA EditedType ==
  ASSUME NEW d \in Dto, NEW e
  PROVE  Edited(d, e) \in Dto
<1>1. ASSUME e = "complete" PROVE Edited(d, e) \in Dto
  BY <1>1 DEF Edited, Dto, Status
<1>2. ASSUME e = "retag" PROVE Edited(d, e) \in Dto
  BY <1>2 DEF Edited, Dto
<1>3. ASSUME e = "no_udas" PROVE Edited(d, e) \in Dto
  BY <1>3 DEF Edited, Dto, Attributes
<1>. QED
  BY <1>1, <1>2, <1>3 DEF Edited

\* What is present is a task.
LEMMA PresentType ==
  ASSUME TypeOK
  PROVE  \A u \in Present : u \in Ids /\ db[u] \in Task
BY DEF TypeOK, Present

\* A step that writes one task.
LEMMA PutType ==
  ASSUME TypeOK, NEW u \in Ids, NEW t \in Task \cup {NoTask}, Put(u, t)
  PROVE  /\ db' \in [Ids -> Task \cup {NoTask}]
         /\ db'[u] = t
         /\ \A v \in Ids \ {u} : db'[v] = db[v]
BY DEF TypeOK, Put

\* A call that writes a DTO stores a task.
LEMMA WriteDtoType ==
  ASSUME TypeOK, NEW u \in Ids, NEW old \in Task, NEW d \in Dto,
         WriteDto(u, d, ReplaceDto(old, d))
  PROVE  /\ ReplaceDto(old, d) \in Task
         /\ Put(u, ReplaceDto(old, d))
         /\ db' \in [Ids -> Task \cup {NoTask}]
<1>1. ReplaceDto(old, d) \in Task
  BY ReplaceDtoType DEF WriteDto
<1>. QED
  BY <1>1, PutType DEF WriteDto

\* The database holds tasks and nothing else: no call stores a rejected tag, a
\* DTO that was not validated, or half of an update.
THEOREM TypeCorrect == Spec => []TypeOK
<1>1. Init => TypeOK
  BY TaskStoreAssumption DEF Init, TypeOK, NoDraft
<1>2. TypeOK /\ [Next]_vars => TypeOK'
  <2>. SUFFICES ASSUME TypeOK, [Next]_vars PROVE TypeOK'
    OBVIOUS
  <2>. USE TaskStoreAssumption
  <2>a. ASSUME NEW u \in Ids, NEW d \in Dtos, AddTaskDto(u, d) PROVE TypeOK'
    <3>1. db' \in [Ids -> Task \cup {NoTask}]
      BY <2>a, NewTaskType, WriteDtoType DEF AddTaskDto, CreateDto
    <3>. QED
      BY <2>a, <3>1 DEF TypeOK, AddTaskDto, WriteDto, importVars
  <2>b. ASSUME NEW u \in Ids, NEW d \in Dtos, UpdateTaskDto(u, d) PROVE TypeOK'
    <3>1. db' \in [Ids -> Task \cup {NoTask}]
      BY <2>b, PresentType, WriteDtoType DEF UpdateTaskDto
    <3>. QED
      BY <2>b, <3>1 DEF TypeOK, UpdateTaskDto, WriteDto, importVars
  <2>other. ASSUME NEW u \in Ids, NEW t \in Task \cup {NoTask}, WriteOther(u, t) PROVE TypeOK'
    <3>1. db' \in [Ids -> Task \cup {NoTask}]
      BY <2>other, PutType DEF WriteOther
    <3>. QED
      BY <2>other, <3>1 DEF TypeOK, WriteOther, importVars
  <2>c. ASSUME NEW u \in Ids, NEW m \in Maps, AddTask(u, m) PROVE TypeOK'
    BY <2>c, <2>other, NewTaskType, ApplyMapType DEF AddTask
  <2>d. ASSUME NEW u \in Ids, NEW m \in Maps, UpdateTask(u, m) PROVE TypeOK'
    BY <2>d, <2>other, PresentType, ApplyMapType DEF UpdateTask
  <2>e. ASSUME NEW u \in Ids, DeleteTask(u) PROVE TypeOK'
    <3>1. SetStatus(db[u], "deleted") \in Task
      BY <2>e, PresentType, SetStatusType DEF DeleteTask, Status
    <3>. QED
      BY <2>e, <3>1, <2>other DEF DeleteTask
  <2>f. ASSUME NEW u \in Ids, Fetch(u) PROVE TypeOK'
    <3>1. DartDto(db[u]) \in Dto
      BY <2>f, PresentType, DartDtoFields DEF Fetch
    <3>. QED
      BY <2>f, <3>1 DEF TypeOK, Fetch, importVars
  <2>g. ASSUME NEW u \in Ids, ImportRow(u) PROVE TypeOK'
    <3>. DEFINE r == Head(rows)
    <3>1. r \in Row /\ Tail(rows) \in Seq(Row)
      BY <2>g DEF TypeOK, ImportRow, ImportStep
    <3>2. ApplyMap(NewTask, r.map, FALSE) \in Task
      BY <2>g, <3>1, NewTaskType, ApplyMapType DEF Row, ImportRow
    <3>3. db' \in [Ids -> Task \cup {NoTask}]
      BY <2>g, <3>2, PutType DEF ImportRow
    <3>4. made' \subseteq Ids \X Ids
      BY <2>g, <3>1 DEF Row, ImportRow, TypeOK
    <3>5. counts' \in [imported : Nat, failed : Nat]
      BY <2>g DEF TypeOK, ImportRow
    <3>. QED
      BY <2>g, <3>1, <3>3, <3>4, <3>5 DEF TypeOK, ImportRow, ImportStep
  <2>h. ASSUME NEW u \in Ids, NEW t \in Foreign \cup {NoTask}, SyncBrings(u, t) PROVE TypeOK'
    BY <2>h, <2>other DEF SyncBrings
  <2>i. ASSUME NEW e \in Edits, Save(e) PROVE TypeOK'
    <3>1. draft.id \in Ids /\ draft.dto \in Dto /\ db[draft.id] \in Task
      BY <2>i, PresentType DEF Save, TypeOK, NoDraft, Present
    <3>2. Edited(draft.dto, e) \in Dto
      BY <3>1, EditedType
    <3>3. db' \in [Ids -> Task \cup {NoTask}]
      BY <2>i, <3>1, <3>2, WriteDtoType DEF Save
    <3>. QED
      BY <2>i, <3>3 DEF TypeOK, Save, WriteDto, importVars
  <2>j. ASSUME NEW f \in Files, StartImport(f) PROVE TypeOK'
    BY <2>j DEF TypeOK, StartImport, Present
  <2>k. CASE SkipRow
    <3>1. Tail(rows) \in Seq(Row)
      BY <2>k DEF TypeOK, SkipRow, ImportStep
    <3>. QED
      BY <2>k, <3>1 DEF TypeOK, SkipRow, ImportStep
  <2>l. CASE FailRow
    <3>1. Tail(rows) \in Seq(Row)
      BY <2>l DEF TypeOK, FailRow, ImportStep
    <3>2. counts' \in [imported : Nat, failed : Nat]
      BY <2>l DEF TypeOK, FailRow, Failed
    <3>. QED
      BY <2>l, <3>1, <3>2 DEF TypeOK, FailRow, ImportStep
  <2>m. CASE EndImport
    BY <2>m DEF TypeOK, EndImport
  <2>n. CASE UNCHANGED vars
    BY <2>n DEF TypeOK, vars
  <2>. QED
    BY <2>a, <2>b, <2>c, <2>d, <2>e, <2>f, <2>g, <2>h, <2>i, <2>j, <2>k, <2>l, <2>m, <2>n DEF Next
<1>. QED
  BY <1>1, <1>2, PTL DEF Spec

-----------------------------------------------------------------------------
(* What was read can be written back.                                      *)

\* Two DTOs with the same fields are the same DTO.
LEMMA DtoEqual ==
  ASSUME NEW a \in Dto, NEW b \in Dto,
         a.status = b.status, a.end = b.end, a.due = b.due, a.wait = b.wait,
         a.scheduled = b.scheduled, a.entry = b.entry, a.tags = b.tags,
         a.annotations = b.annotations, a.udas = b.udas
  PROVE  a = b
BY DEF Dto

\* task_to_dto and then update_task_with_dto, on any task.
LEMMA ReadWriteRead ==
  ASSUME NEW t \in Task, ~DtoRejected(DtoOf(t))
  PROVE  DtoOf(ReplaceDto(t, DtoOf(t))) = DtoOf(t)
<1>. DEFINE d == DtoOf(t)
            r == ReplaceDto(t, d)
<1>1. d \in Dto /\ r \in Task /\ DtoOf(r) \in Dto
  BY DtoOfFields, ReplaceDtoType
<1>2. DtoOf(r).status = d.status
  <2>1. d.status \in Status /\ r.status = d.status
    BY <1>1, ReplaceDtoFields DEF Dto
  <2>. QED
    BY <1>1, <2>1, DtoOfFields DEF ReadStatus, Status
<1>3. DtoOf(r).end = d.end
  <2>1. d.end \in {"rfc3339", "none"}
    BY DtoOfFields
  <2>2. r.end = IF d.end = "none" THEN "none" ELSE "rfc3339"
    BY <1>1, <2>1, ReplaceDtoFields DEF AppliedEnd
  <2>. QED
    BY <1>1, <2>1, <2>2, DtoOfFields
<1>4. DtoOf(r).due = d.due /\ DtoOf(r).wait = d.wait
  <2>1. d.due \in {"rfc3339", "none"} /\ d.wait \in {"rfc3339", "none"}
    BY DtoOfFields DEF Read
  <2>2. /\ r.due = IF d.due = "none" THEN "none" ELSE "seconds"
        /\ r.wait = IF d.wait = "none" THEN "none" ELSE "seconds"
    BY <1>1, <2>1, ReplaceDtoFields DEF AppliedDue
  <2>. QED
    BY <1>1, <2>1, <2>2, DtoOfFields DEF Read
<1>5. DtoOf(r).scheduled = d.scheduled /\ DtoOf(r).tags = d.tags
  BY <1>1, ReplaceDtoFields, DtoOfFields
<1>6. DtoOf(r).annotations = d.annotations /\ DtoOf(r).udas = d.udas
  <2>1. d.annotations = t.annotations /\ d.udas = t.udas
    BY DtoOfFields
  <2>2. /\ r.annotations = IF d.annotations = Absent THEN t.annotations ELSE d.annotations
        /\ r.udas = AppliedUdas(t.udas, d.udas)
    BY <1>1, ReplaceDtoFields
  <2>3. d.udas \in Attributes
    BY <1>1 DEF Dto
  <2>. HIDE DEF d, r
  <2>4. r.annotations = d.annotations /\ r.udas = d.udas
    BY <2>1, <2>2, <2>3, UdasApplied
  <2>. QED
    BY <1>1, <2>4, DtoOfFields
<1>7. DtoOf(r).entry = d.entry
  <2>1. d.entry = Read(t.entry)
    BY DtoOfFields
  <2>2. r.entry = IF d.entry = "none" THEN t.entry ELSE "seconds"
    BY <1>1, <2>1, ReplaceDtoFields DEF AppliedEntry, Read
  <2>. QED
    BY <1>1, <2>1, <2>2, DtoOfFields DEF Read
<1>. HIDE DEF d, r
<1>8. DtoOf(r) = d
  BY <1>1, <1>2, <1>3, <1>4, <1>5, <1>6, <1>7, DtoEqual
<1>. QED
  BY <1>8 DEF d, r

\* The same through TaskParser, TaskParams.fromTask and toTaskDto.
LEMMA DartReadWriteRead ==
  ASSUME NEW t \in Task, ~DtoRejected(DartDto(t))
  PROVE  DartDto(ReplaceDto(t, DartDto(t))) = DartDto(t)
<1>. DEFINE d == DartDto(t)
            r == ReplaceDto(t, d)
<1>1. d \in Dto /\ r \in Task /\ DartDto(r) \in Dto
  BY DartDtoFields, ReplaceDtoType
<1>2. DartDto(r).status = d.status
  <2>1. d.status \in {"pending", "completed", "deleted"}
    BY DartDtoFields DEF MapStatus
  <2>2. r.status = d.status
    BY <1>1, ReplaceDtoFields
  <2>. QED
    BY <1>1, <2>1, <2>2, DartDtoFields DEF ReadStatus, MapStatus
<1>3. DartDto(r).end = d.end
  <2>1. d.end \in {"rfc3339", "none"}
    BY DartDtoFields
  <2>2. r.end = IF d.end = "none" THEN "none" ELSE "rfc3339"
    BY <1>1, <2>1, ReplaceDtoFields DEF AppliedEnd
  <2>. QED
    BY <1>1, <2>1, <2>2, DartDtoFields
<1>4. DartDto(r).due = d.due /\ DartDto(r).wait = d.wait
  <2>1. d.due \in {"rfc3339", "none"} /\ d.wait \in {"rfc3339", "none"}
    BY DartDtoFields DEF Read
  <2>2. /\ r.due = IF d.due = "none" THEN "none" ELSE "seconds"
        /\ r.wait = IF d.wait = "none" THEN "none" ELSE "seconds"
    BY <1>1, <2>1, ReplaceDtoFields DEF AppliedDue
  <2>. QED
    BY <1>1, <2>1, <2>2, DartDtoFields DEF Read
<1>5. DartDto(r).scheduled = d.scheduled
  <2>1. d.scheduled = DartStamp(t.scheduled) /\ ~Malformed(d.scheduled)
    BY DartDtoFields DEF DtoRejected
  <2>2. DartStamp(d.scheduled) = d.scheduled
    BY <2>1 DEF DartStamp, Malformed
  <2>. QED
    BY <1>1, <2>2, ReplaceDtoFields, DartDtoFields
<1>6. DartDto(r).tags = d.tags
  BY <1>1, ReplaceDtoFields, DartDtoFields
<1>7. DartDto(r).annotations = d.annotations /\ DartDto(r).udas = d.udas
  <2>1. d.annotations = t.annotations /\ d.udas = t.udas
    BY DartDtoFields
  <2>2. /\ r.annotations = IF d.annotations = Absent THEN t.annotations ELSE d.annotations
        /\ r.udas = AppliedUdas(t.udas, d.udas)
    BY <1>1, ReplaceDtoFields
  <2>3. d.udas \in Attributes
    BY <1>1 DEF Dto
  <2>. HIDE DEF d, r
  <2>4. r.annotations = d.annotations /\ r.udas = d.udas
    BY <2>1, <2>2, <2>3, UdasApplied
  <2>. QED
    BY <1>1, <2>4, DartDtoFields
<1>8. DartDto(r).entry = d.entry
  BY <1>1, DartDtoFields
<1>. HIDE DEF d, r
<1>9. DartDto(r) = d
  BY <1>1, <1>2, <1>3, <1>4, <1>5, <1>6, <1>7, <1>8, DtoEqual
<1>. QED
  BY <1>9 DEF d, r

\* update_task_dto after get_all_tasks_dtos: a program that writes back what it
\* has read changes nothing it can read, or is refused.
THEOREM ReadBackIsStable == Spec => []ViewStable
<1>1. TypeOK => ViewStable
  BY PresentType, ReadWriteRead DEF ViewStable
<1>. QED
  BY <1>1, TypeCorrect, PTL

\* getTask, then updateTask with the task as it is: the Dart program sees the
\* same task afterwards, or is refused.
THEOREM DartReadBackIsStable == Spec => []DartViewStable
<1>1. TypeOK => DartViewStable
  BY PresentType, DartReadWriteRead DEF DartViewStable
<1>. QED
  BY <1>1, TypeCorrect, PTL

\* add_task_dto and update_task_dto store what they are given, field by field.
THEOREM WrittenIsRead == Spec => WriteIsRead
<1>. DEFINE Shown(u, d) ==
       LET t == DtoOf(db'[u])
       IN  /\ t.status = d.status /\ t.tags = d.tags /\ t.scheduled = d.scheduled
           /\ d.end # "empty" => t.end = d.end
           /\ d.due # "empty" => t.due = d.due
           /\ d.wait # "empty" => t.wait = d.wait
           /\ d.entry \notin {"none", "empty"} => t.entry = d.entry
           /\ d.annotations # Absent => t.annotations = d.annotations
           /\ d.udas \subseteq t.udas
<1>1. ASSUME TypeOK, NEW u \in Ids, NEW d \in Dtos, NEW old \in Task,
             WriteDto(u, d, ReplaceDto(old, d))
      PROVE  Shown(u, d)
  <2>. DEFINE r == ReplaceDto(old, d)
  <2>1. d \in Dto
    BY TaskStoreAssumption
  <2>2. db'[u] = r /\ r \in Task
    <3>1. r \in Task /\ Put(u, r)
      BY <1>1, <2>1, WriteDtoType
    <3>. QED
      BY <1>1, <3>1, PutType
  <2>3. /\ d.status \in Status /\ d.end \in Stamp /\ d.due \in Stamp
        /\ d.wait \in Stamp /\ d.entry \in Stamp
    BY <2>1 DEF Dto
  <2>4. ~Malformed(d.end) /\ ~Malformed(d.due) /\ ~Malformed(d.wait) /\ ~Malformed(d.entry)
    BY <1>1 DEF WriteDto, DtoRejected
  <2>5. /\ r.status = d.status
        /\ r.end = AppliedEnd(SetStatus(old, d.status).end, d.end)
        /\ r.due = AppliedDue(old.due, d.due)
        /\ r.wait = AppliedDue(old.wait, d.wait)
        /\ r.scheduled = d.scheduled
        /\ r.entry = AppliedEntry(old.entry, d.entry)
        /\ r.tags = d.tags
        /\ r.annotations = IF d.annotations = Absent THEN old.annotations ELSE d.annotations
        /\ r.udas = AppliedUdas(old.udas, d.udas)
    BY <2>1, ReplaceDtoFields
  <2>6. DtoOf(r).status = d.status
    BY <2>2, <2>3, <2>5, DtoOfFields DEF ReadStatus, Status
  <2>7. d.end # "empty" => DtoOf(r).end = d.end
    <3>1. ASSUME d.end # "empty" PROVE d.end \in {"none", "rfc3339"}
      BY <3>1, <2>3, <2>4 DEF Stamp, Malformed
    <3>. QED
      BY <2>2, <2>5, <3>1, DtoOfFields DEF AppliedEnd
  <2>8. d.due # "empty" => DtoOf(r).due = d.due
    <3>1. ASSUME d.due # "empty" PROVE d.due \in {"none", "rfc3339"}
      BY <3>1, <2>3, <2>4 DEF Stamp, Malformed
    <3>. QED
      BY <2>2, <2>5, <3>1, DtoOfFields DEF AppliedDue, Read
  <2>9. d.wait # "empty" => DtoOf(r).wait = d.wait
    <3>1. ASSUME d.wait # "empty" PROVE d.wait \in {"none", "rfc3339"}
      BY <3>1, <2>3, <2>4 DEF Stamp, Malformed
    <3>. QED
      BY <2>2, <2>5, <3>1, DtoOfFields DEF AppliedDue, Read
  <2>10. d.entry \notin {"none", "empty"} => DtoOf(r).entry = d.entry
    <3>1. ASSUME d.entry \notin {"none", "empty"} PROVE d.entry = "rfc3339"
      BY <3>1, <2>3, <2>4 DEF Stamp, Malformed
    <3>. QED
      BY <2>2, <2>5, <3>1, DtoOfFields DEF AppliedEntry, Read
  <2>11. d.udas \subseteq DtoOf(r).udas
    <3>1. old.udas \in Attributes /\ d.udas \in Attributes
      BY <2>1 DEF Task, Dto
    <3>. QED
      BY <2>2, <2>5, <3>1, UdasApplied, DtoOfFields
  <2>12. /\ DtoOf(r).tags = d.tags /\ DtoOf(r).scheduled = d.scheduled
         /\ d.annotations # Absent => DtoOf(r).annotations = d.annotations
    BY <2>2, <2>5, DtoOfFields
  <2>. HIDE DEF r
  <2>. QED
    BY <2>2, <2>6, <2>7, <2>8, <2>9, <2>10, <2>11, <2>12
<1>2. ASSUME TypeOK, NEW u \in Ids, NEW d \in Dtos, AddTaskDto(u, d) \/ UpdateTaskDto(u, d)
      PROVE  Shown(u, d)
  <2>1. CASE AddTaskDto(u, d)
    BY <1>1, <1>2, <2>1, NewTaskType DEF AddTaskDto, CreateDto
  <2>2. CASE UpdateTaskDto(u, d)
    BY <1>1, <1>2, <2>2, PresentType DEF UpdateTaskDto
  <2>. QED
    BY <1>2, <2>1, <2>2
<1>3. TypeOK /\ [Next]_vars =>
        [\A u \in Ids, d \in Dtos : AddTaskDto(u, d) \/ UpdateTaskDto(u, d) => Shown(u, d)]_vars
  BY <1>2
<1>. QED
  BY <1>3, TypeCorrect, PTL DEF Spec, WriteIsRead

-----------------------------------------------------------------------------
(* Malformed timestamps come with a sync.                                  *)

\* A step that writes one task keeps StampsValidated if what it writes does.
LEMMA PutStamps ==
  ASSUME TypeOK, StampsValidated, NEW u \in Ids, NEW t \in Task \cup {NoTask}, Put(u, t),
         \/ t = NoTask
         \/ ~Malformed(t.scheduled)
         \/ u \in Present /\ t.scheduled = db[u].scheduled
         \/ \E x \in Foreign : x.scheduled = t.scheduled
  PROVE  StampsValidated'
<1>1. db'[u] = t /\ \A v \in Ids \ {u} : db'[v] = db[v]
  BY PutType
<1>. SUFFICES ASSUME NEW v \in Present', Malformed(db'[v].scheduled)
              PROVE  \E x \in Foreign : x.scheduled = db'[v].scheduled
  BY DEF StampsValidated
<1>2. CASE v = u
  BY <1>1, <1>2 DEF StampsValidated, Present
<1>3. CASE v # u
  BY <1>1, <1>3 DEF StampsValidated, Present
<1>. QED
  BY <1>2, <1>3

\* apply_promoted_fields and apply_task_data validate `scheduled` before they
\* store it as it is: a malformed one in the database was synced.
THEOREM StampsAreValidated == Spec => []StampsValidated
<1>1. Init => StampsValidated
  BY DEF Init, StampsValidated, Present
<1>2. TypeOK /\ StampsValidated /\ [Next]_vars => StampsValidated'
  <2>. SUFFICES ASSUME TypeOK, StampsValidated, [Next]_vars PROVE StampsValidated'
    OBVIOUS
  <2>. USE TaskStoreAssumption
  <2>new. ~Malformed(NewTask.scheduled) /\ ~Malformed("rfc3339")
    BY DEF NewTask, Malformed
  <2>dto. ASSUME NEW u \in Ids, NEW old \in Task, NEW d \in Dto,
                 WriteDto(u, d, ReplaceDto(old, d))
          PROVE  StampsValidated'
    <3>1. ReplaceDto(old, d) \in Task /\ Put(u, ReplaceDto(old, d))
      BY <2>dto, WriteDtoType
    <3>2. ~Malformed(ReplaceDto(old, d).scheduled)
      BY <2>dto, ReplaceDtoFields DEF WriteDto, DtoRejected
    <3>. QED
      BY <3>1, <3>2, PutStamps
  <2>a. ASSUME NEW u \in Ids, NEW d \in Dtos, AddTaskDto(u, d) PROVE StampsValidated'
    BY <2>a, <2>dto, NewTaskType DEF AddTaskDto, CreateDto
  <2>b. ASSUME NEW u \in Ids, NEW d \in Dtos, UpdateTaskDto(u, d) PROVE StampsValidated'
    BY <2>b, <2>dto, PresentType DEF UpdateTaskDto
  <2>c. ASSUME NEW u \in Ids, NEW m \in Maps, AddTask(u, m) PROVE StampsValidated'
    <3>. DEFINE t == ApplyMap(NewTask, m, FALSE)
    <3>1. t \in Task /\ t.scheduled \in {NewTask.scheduled, "rfc3339"}
      BY <2>c, NewTaskType, ApplyMapType DEF AddTask
    <3>2. Put(u, t)
      BY <2>c DEF AddTask, WriteOther
    <3>. HIDE DEF t
    <3>. QED
      BY <3>1, <3>2, <2>new, PutStamps
  <2>d. ASSUME NEW u \in Ids, NEW m \in Maps, UpdateTask(u, m) PROVE StampsValidated'
    <3>. DEFINE t == ApplyMap(db[u], m, TRUE)
    <3>1. t \in Task /\ t.scheduled \in {db[u].scheduled, "rfc3339"}
      BY <2>d, PresentType, ApplyMapType DEF UpdateTask
    <3>2. Put(u, t) /\ u \in Present
      BY <2>d DEF UpdateTask, WriteOther
    <3>. HIDE DEF t
    <3>. QED
      BY <3>1, <3>2, <2>new, PutStamps
  <2>e. ASSUME NEW u \in Ids, DeleteTask(u) PROVE StampsValidated'
    <3>. DEFINE t == SetStatus(db[u], "deleted")
    <3>1. t \in Task /\ t.scheduled = db[u].scheduled
      BY <2>e, PresentType, SetStatusType DEF DeleteTask, Status
    <3>2. Put(u, t) /\ u \in Present
      BY <2>e DEF DeleteTask, WriteOther
    <3>. HIDE DEF t
    <3>. QED
      BY <3>1, <3>2, PutStamps
  <2>f. ASSUME NEW u \in Ids, ImportRow(u) PROVE StampsValidated'
    <3>. DEFINE t == ApplyMap(NewTask, Head(rows).map, FALSE)
    <3>1. Head(rows) \in Row
      BY <2>f DEF TypeOK, ImportRow, ImportStep
    <3>2. t \in Task /\ t.scheduled \in {NewTask.scheduled, "rfc3339"}
      BY <2>f, <3>1, NewTaskType, ApplyMapType DEF ImportRow, Row
    <3>3. Put(u, t)
      BY <2>f DEF ImportRow
    <3>. HIDE DEF t
    <3>. QED
      BY <3>2, <3>3, <2>new, PutStamps
  <2>g. ASSUME NEW u \in Ids, NEW t \in Foreign \cup {NoTask}, SyncBrings(u, t)
        PROVE  StampsValidated'
    BY <2>g, PutStamps DEF SyncBrings, WriteOther
  <2>h. ASSUME NEW e \in Edits, Save(e) PROVE StampsValidated'
    <3>1. draft.id \in Ids /\ draft.dto \in Dto /\ db[draft.id] \in Task
      BY <2>h, PresentType DEF Save, TypeOK, NoDraft, Present
    <3>2. Edited(draft.dto, e) \in Dto
      BY <3>1, EditedType
    <3>. QED
      BY <2>h, <3>1, <3>2, <2>dto DEF Save
  <2>i. ASSUME UNCHANGED db PROVE StampsValidated'
    BY <2>i DEF StampsValidated, Present
  <2>. QED
    BY <2>a, <2>b, <2>c, <2>d, <2>e, <2>f, <2>g, <2>h, <2>i
    DEF Next, Fetch, StartImport, SkipRow, FailRow, EndImport, vars
<1>. QED
  BY <1>1, <1>2, TypeCorrect, PTL DEF Spec

-----------------------------------------------------------------------------
(* The report of an import.                                                *)

\* ImportReport speaks of a cardinality, which says nothing of an infinite set:
\* the tasks that an import has added are finitely many.
ImportInv ==
  import = "running" => ImportReport /\ IsFiniteSet(Present \ before)

\* import_tasks: the count in its result, or in its error after some rows
\* failed, is the number of tasks it has added.
THEOREM ImportIsReported == Spec => []ImportReport
<1>1. Init => ImportInv
  BY DEF Init, ImportInv
<1>2. TypeOK /\ ImportInv /\ [Next]_vars => ImportInv'
  <2>. SUFFICES ASSUME TypeOK, ImportInv, [Next]_vars PROVE ImportInv'
    OBVIOUS
  <2>1. ASSUME import = "idle", import' = import PROVE ImportInv'
    BY <2>1 DEF ImportInv
  <2>2. ASSUME NEW f \in Files, StartImport(f) PROVE ImportInv'
    <3>1. before' = Present' /\ counts'.imported = 0
      BY <2>2 DEF StartImport, Present
    <3>2. Present' \ before' = {}
      BY <3>1
    <3>. QED
      BY <3>1, <3>2, FS_EmptySet DEF ImportInv, ImportReport
  <2>3. ASSUME NEW u \in Ids, ImportRow(u) PROVE ImportInv'
    <3>. DEFINE t == ApplyMap(NewTask, Head(rows).map, FALSE)
    <3>1. t # NoTask
      <4>1. Head(rows) \in Row
        BY <2>3 DEF TypeOK, ImportRow, ImportStep
      <4>. QED
        BY <2>3, <4>1, NewTaskType, ApplyMapType, TaskStoreAssumption DEF ImportRow, Row
    <3>2. Present' = Present \cup {u} /\ u \notin Present
      <4>. HIDE DEF t
      <4>1. db' = [db EXCEPT ![u] = t]
        BY <2>3 DEF ImportRow, Put, t
      <4>. QED
        BY <2>3, <3>1, <4>1 DEF Present, TypeOK, ImportRow, Fresh
    <3>3. /\ import = "running" /\ before' = before
          /\ counts'.imported = counts.imported + 1
      BY <2>3 DEF ImportRow, ImportStep, TypeOK
    <3>4. before \subseteq Present
      BY <3>3 DEF ImportInv, ImportReport
    <3>5. Present' \ before' = (Present \ before) \cup {u} /\ u \notin Present \ before
      BY <3>2, <3>3, <3>4
    <3>6. /\ IsFiniteSet(Present' \ before')
          /\ Cardinality(Present' \ before') = Cardinality(Present \ before) + 1
      BY <3>3, <3>5, FS_AddElement, ZenonT(60) DEF ImportInv
    <3>. QED
      BY <3>2, <3>3, <3>4, <3>6 DEF ImportInv, ImportReport
  <2>4. CASE SkipRow
    BY <2>4 DEF SkipRow, ImportStep, ImportInv, ImportReport, Present
  <2>5. CASE FailRow
    <3>1. counts'.imported = counts.imported
      BY <2>5 DEF FailRow, Failed, TypeOK
    <3>. QED
      BY <2>5, <3>1 DEF FailRow, ImportStep, ImportInv, ImportReport, Present
  <2>6. CASE EndImport
    BY <2>6 DEF EndImport, ImportInv
  <2>7. CASE UNCHANGED vars
    BY <2>7 DEF vars, ImportInv, ImportReport, Present
  <2>. QED
    BY <2>1, <2>2, <2>3, <2>4, <2>5, <2>6, <2>7
    DEF Next, AddTaskDto, UpdateTaskDto, AddTask, UpdateTask, DeleteTask, Fetch, SyncBrings,
        Save, WriteDto, WriteOther, importVars
<1>3. ImportInv => ImportReport
  BY DEF ImportInv, ImportReport
<1>. QED
  BY <1>1, <1>2, <1>3, TypeCorrect, PTL DEF Spec

-----------------------------------------------------------------------------
(* Attributes are never cleared.                                           *)

\* The names of a task's attributes.
Names(t) == {a.name : a \in t.udas}

\* apply_udas takes no attribute away.
LEMMA NamesApplied ==
  ASSUME NEW t \in Task, NEW given \in Attributes, NEW r,
         r.udas = AppliedUdas(t.udas, given)
  PROVE  Names(t) \subseteq Names(r)
<1>1. t.udas \in Attributes
  BY DEF Task
<1>. QED
  BY <1>1, UdasApplied DEF Names

\* apply_task_data only adds attributes.
LEMMA ApplyMapUdas ==
  ASSUME NEW t \in Task, NEW m \in Map, NEW clear \in BOOLEAN
  PROVE  Names(t) \subseteq Names(ApplyMap(t, m, clear))
<1>. DEFINE s == IF m.status = "none" THEN t ELSE SetStatus(t, MapStatus(m.status))
<1>1. s \in Task /\ s.udas = t.udas
  BY SetStatusType, ZenonT(60) DEF MapStatus, Status, SetStatus, Task
<1>. HIDE DEF s
<1>2. ApplyMap(t, m, clear).udas = AppliedUdas(s.udas, m.udas)
  BY <1>1 DEF ApplyMap, Task, s
<1>3. m.udas \in Attributes
  BY DEF Map
<1>. QED
  BY <1>1, <1>2, <1>3, NamesApplied

\* The reach of what the run tasks_omit finds: no call of this program ever takes
\* an attribute (a project, say) from a task; only a sync brings a task without.
THEOREM AttributesOnlyGrow ==
  Spec => [][\A u \in Present : u \in Present' /\ ~(Names(db[u]) \subseteq Names(db'[u]))
                                => db'[u] \in Foreign]_vars
<1>. DEFINE Grows == \A u \in Present :
                       u \in Present' /\ ~(Names(db[u]) \subseteq Names(db'[u]))
                         => db'[u] \in Foreign
<1>1. ASSUME TypeOK, [Next]_vars
      PROVE  Grows
  <2>. USE TaskStoreAssumption
  <2>put. ASSUME NEW u \in Ids, NEW t \in Task \cup {NoTask}, Put(u, t),
                 \/ u \notin Present
                 \/ t \in Foreign \cup {NoTask}
                 \/ Names(db[u]) \subseteq Names(t)
          PROVE  Grows
    <3>1. db'[u] = t /\ \A v \in Ids \ {u} : db'[v] = db[v]
      BY <1>1, <2>put, PutType
    <3>. QED
      BY <2>put, <3>1 DEF Present
  <2>dto. ASSUME NEW u \in Present, NEW d \in Dto, WriteDto(u, d, ReplaceDto(db[u], d))
          PROVE  Grows
    <3>1. u \in Ids /\ db[u] \in Task
      BY <1>1, PresentType
    <3>2. ReplaceDto(db[u], d) \in Task /\ Put(u, ReplaceDto(db[u], d))
      BY <1>1, <2>dto, <3>1, WriteDtoType
    <3>3. Names(db[u]) \subseteq Names(ReplaceDto(db[u], d))
      <4>1. d.udas \in Attributes
        BY DEF Dto
      <4>. QED
        BY <3>1, <4>1, ReplaceDtoFields, NamesApplied
    <3>. QED
      BY <3>1, <3>2, <3>3, <2>put
  <2>a. ASSUME NEW u \in Ids, NEW d \in Dtos, AddTaskDto(u, d)
        PROVE  Grows
    <3>1. CreateDto(d) \in Task /\ Put(u, CreateDto(d)) /\ u \notin Present
      BY <1>1, <2>a, NewTaskType, WriteDtoType DEF AddTaskDto, CreateDto, Fresh
    <3>. QED
      BY <3>1, <2>put
  <2>b. ASSUME NEW u \in Ids, NEW d \in Dtos, UpdateTaskDto(u, d)
        PROVE  Grows
    BY <2>b, <2>dto DEF UpdateTaskDto
  <2>c. ASSUME NEW u \in Ids \ Present, NEW m \in Map, ~MapRejected(m),
               Put(u, ApplyMap(NewTask, m, FALSE))
        PROVE  Grows
    BY <2>c, <2>put, NewTaskType, ApplyMapType
  <2>d. ASSUME NEW u \in Ids, NEW m \in Maps, UpdateTask(u, m)
        PROVE  Grows
    <3>1. db[u] \in Task /\ m \in Map /\ ~MapRejected(m)
      BY <1>1, <2>d, PresentType DEF UpdateTask
    <3>2. /\ ApplyMap(db[u], m, TRUE) \in Task
          /\ Names(db[u]) \subseteq Names(ApplyMap(db[u], m, TRUE))
      BY <3>1, ApplyMapType, ApplyMapUdas
    <3>. QED
      BY <2>d, <3>2, <2>put DEF UpdateTask, WriteOther
  <2>e. ASSUME NEW u \in Ids, DeleteTask(u)
        PROVE  Grows
    <3>1. db[u] \in Task
      BY <1>1, <2>e, PresentType DEF DeleteTask
    <3>2. SetStatus(db[u], "deleted") \in Task /\ SetStatus(db[u], "deleted").udas = db[u].udas
      BY <3>1, SetStatusType, ZenonT(60) DEF SetStatus, Task, Status
    <3>. QED
      BY <2>e, <3>2, <2>put DEF DeleteTask, WriteOther, Names
  <2>f. ASSUME NEW u \in Ids, ImportRow(u)
        PROVE  Grows
    <3>1. Head(rows) \in Row
      BY <1>1, <2>f DEF TypeOK, ImportRow, ImportStep
    <3>. QED
      BY <2>c, <2>f, <3>1 DEF ImportRow, Row, Fresh
  <2>g. ASSUME NEW u \in Ids, NEW t \in Foreign \cup {NoTask}, SyncBrings(u, t)
        PROVE  Grows
    BY <2>g, <2>put DEF SyncBrings, WriteOther
  <2>h. ASSUME NEW e \in Edits, Save(e)
        PROVE  Grows
    <3>1. draft.dto \in Dto
      BY <1>1, <2>h DEF Save, TypeOK, NoDraft, Present
    <3>2. Edited(draft.dto, e) \in Dto
      BY <3>1, EditedType
    <3>. QED
      BY <2>h, <3>2, <2>dto DEF Save
  <2>i. ASSUME UNCHANGED db
        PROVE  Grows
    BY <2>i
  <2>. QED
    BY <1>1, <2>a, <2>b, <2>c, <2>d, <2>e, <2>f, <2>g, <2>h, <2>i
    DEF Next, vars, Fetch, StartImport, SkipRow, FailRow, EndImport, AddTask, WriteOther, Fresh
<1>2. TypeOK /\ [Next]_vars => [Grows]_vars
  BY <1>1
<1>. QED
  BY <1>2, TypeCorrect, PTL DEF Spec
=============================================================================
