------------------------------ MODULE TaskOps ------------------------------
(***************************************************************************)
(* What the conversions of rust/src/task_ops.rs do to a task: applying a   *)
(* TaskDto or a string map, reading a task back as either, and the round   *)
(* trip through the Dart models.  A timestamp is one of the strings that   *)
(* the code tells apart.  An attribute is a name with a text: the UDAs, to *)
(* which project and urgency belong.                                       *)
(*                                                                         *)
(* Left out: description, priority and recur, which are written and read   *)
(* back as they are; until, which is treated as scheduled is; modified,    *)
(* which the library renews at every commit; dependencies, which are       *)
(* written as tags are, but for a malformed uuid, which is passed over     *)
(* where a malformed tag is refused.                                       *)
(***************************************************************************)
CONSTANTS Tags,        \* user tags
          BadTag,      \* a string that is no user tag: malformed or synthetic
          Annotations, \* annotations, told apart by second
          Udas,        \* user-defined attributes, "project" included
          Absent       \* the value of a field that is not given

ASSUME TaskOpsAssumption ==
  /\ BadTag \notin Tags
  /\ Udas \subseteq [name : STRING, text : STRING]
  /\ \A S \in SUBSET Tags : S # Absent

Status == {"pending", "completed", "deleted", "recurring", "unknown"}

\* A timestamp: no value, "", RFC 3339, unix seconds, or anything else.
Stamp == {"none", "empty", "rfc3339", "seconds", "garbage"}

\* The attributes of a task: one text under a name.
Attributes == {S \in SUBSET Udas : \A a, b \in S : a.name = b.name => a = b}

Task == [status      : Status \cup {"none"},
         end         : Stamp,
         due         : Stamp,
         wait        : Stamp,
         scheduled   : Stamp,
         entry       : Stamp,
         tags        : SUBSET Tags,
         annotations : SUBSET Annotations,
         udas        : Attributes]

\* TaskDto: annotations is an Option, the other lists are concrete.
Dto == [status      : Status,
        end         : Stamp,
        due         : Stamp,
        wait        : Stamp,
        scheduled   : Stamp,
        entry       : Stamp,
        tags        : SUBSET (Tags \cup {BadTag}),
        annotations : (SUBSET Annotations) \cup {Absent},
        udas        : Attributes]

\* HashMap<String, String>: a key may be missing.
Map == [status      : Status \cup {"none"},
        end         : Stamp,
        due         : Stamp,
        wait        : Stamp,
        scheduled   : Stamp,
        entry       : Stamp,
        tags        : (SUBSET (Tags \cup {BadTag})) \cup {Absent},
        annotations : SUBSET Annotations,
        udas        : Attributes]

\* A task that Replica::create_task has just made.
NewTask == [status |-> "none", end |-> "none", due |-> "none", wait |-> "none",
            scheduled |-> "none", entry |-> "none",
            tags |-> {}, annotations |-> {}, udas |-> {}]

\* parse_datetime: "" is no date; what is not RFC 3339 is an error.
Malformed(s) == s \in {"seconds", "garbage"}

\* Task::set_status of the library keeps `end` in step with the status.
SetStatus(t, s) ==
  [t EXCEPT !.status = s,
            !.end = CASE s \in {"pending", "recurring"} -> "none"
                      [] s \in {"completed", "deleted"} /\ t.end = "none" -> "seconds"
                      [] OTHER -> t.end]

-----------------------------------------------------------------------------
(* Writing a TaskDto.                                                      *)

\* Seeded defects of DtoRejected: a check that is forgotten.
PromotedUnchecked(d) ==
  BadTag \in d.tags \/ \E s \in {d.due, d.wait, d.entry, d.end} : Malformed(s)
TagsUnchecked(d) ==
  \E s \in {d.due, d.wait, d.entry, d.end, d.scheduled} : Malformed(s)

\* Some `?` of the apply functions fails; no operation is committed.
DtoRejected(d) ==
  \/ Malformed(d.due) \/ Malformed(d.wait) \/ Malformed(d.entry)
  \/ Malformed(d.end) \/ Malformed(d.scheduled)
  \/ BadTag \in d.tags

\* apply_end runs after set_status and clears what set_status derived.
AppliedEnd(old, given) ==
  CASE given = "none" -> "none"
    [] given = "empty" -> old
    [] OTHER -> "rfc3339"

\* Seeded defect of AppliedDue: the string is stored as it was given.
DueVerbatim(old, given) == IF given = "empty" THEN old ELSE given

\* The setters of due and wait store unix seconds.
AppliedDue(old, given) ==
  CASE given = "none" -> "none"
    [] given = "empty" -> old
    [] OTHER -> "seconds"

\* set_entry is called for a date only: an entry date is never cleared.
AppliedEntry(old, given) == IF given \in {"none", "empty"} THEN old ELSE "seconds"

\* Seeded defect of AppliedTags: the tags that are there are not cleared.
TagsMerged(old, given, clear) == old \cup given

\* apply_tags.
AppliedTags(old, given, clear) == IF clear THEN given ELSE old \cup given

\* apply_annotations: None leaves them alone.
AppliedAnnotations(old, given) == IF given = Absent THEN old ELSE given

\* apply_udas sets what is given and removes nothing; the names that other
\* fields have are skipped.
AppliedUdas(old, given) == given \cup {a \in old : \A g \in given : g.name # a.name}

\* Seeded defect of ReplaceDto: `end` is applied before the status.
EndFirst(t, d) ==
  [d EXCEPT !.end = SetStatus([t EXCEPT !.end = AppliedEnd(@, d.end)], d.status).end,
            !.due = AppliedDue(t.due, d.due),
            !.wait = AppliedDue(t.wait, d.wait),
            !.entry = AppliedEntry(t.entry, d.entry),
            !.tags = AppliedTags(t.tags, @, TRUE),
            !.annotations = AppliedAnnotations(t.annotations, @),
            !.udas = AppliedUdas(t.udas, @)]

\* replace_dto_on_update: UDAs are added to, annotations and the entry date may
\* be left alone, the rest is replaced; scheduled is stored as it was given.
ReplaceDto(t, d) ==
  [d EXCEPT !.end = AppliedEnd(SetStatus(t, d.status).end, d.end),
            !.due = AppliedDue(t.due, d.due),
            !.wait = AppliedDue(t.wait, d.wait),
            !.entry = AppliedEntry(t.entry, d.entry),
            !.tags = AppliedTags(t.tags, @, TRUE),
            !.annotations = AppliedAnnotations(t.annotations, @),
            !.udas = AppliedUdas(t.udas, @)]

\* apply_dto_on_create clears nothing first; a new task has nothing to clear.
CreateDto(d) == ReplaceDto(NewTask, d)

-----------------------------------------------------------------------------
(* Writing a map.                                                          *)

MapRejected(m) ==
  \/ Malformed(m.due) \/ Malformed(m.wait) \/ Malformed(m.scheduled)
  \/ m.tags # Absent /\ BadTag \in m.tags

\* Any status but these two strings is taken for "pending".
MapStatus(s) == IF s \in {"completed", "deleted"} THEN s ELSE "pending"

\* apply_task_data: a missing key changes nothing, the keys `end`, `entry` and
\* `modified` are ignored, and on update tags given replace the tags and
\* annotations are cleared anyway.
ApplyMap(t, m, clear) ==
  LET s == IF m.status = "none" THEN t ELSE SetStatus(t, MapStatus(m.status))
  IN  [s EXCEPT
         !.due         = IF m.due = "rfc3339" THEN "seconds" ELSE @,
         !.wait        = IF m.wait = "rfc3339" THEN "seconds" ELSE @,
         !.scheduled   = IF m.scheduled = "rfc3339" THEN "rfc3339" ELSE @,
         !.tags        = IF m.tags = Absent THEN @
                         ELSE IF clear THEN m.tags ELSE @ \cup m.tags,
         !.annotations = IF clear THEN m.annotations ELSE @ \cup m.annotations,
         !.udas        = AppliedUdas(@, m.udas)]

-----------------------------------------------------------------------------
(* Reading.                                                                *)

\* The library's timestamp getters read unix seconds and nothing else.
Read(s) == IF s = "seconds" THEN "rfc3339" ELSE "none"

ReadStatus(t) == IF t.status = "none" THEN "pending" ELSE t.status

\* task_to_dto: an `end` may be stored in either form (parse_end_value).
DtoOf(t) ==
  [t EXCEPT !.status = ReadStatus(t),
            !.end = IF @ \in {"rfc3339", "seconds"} THEN "rfc3339" ELSE "none",
            !.due = Read(@), !.wait = Read(@), !.entry = Read(@)]

\* task_to_map: only an `end` stored as RFC 3339 is shown, and the time of the
\* call stands for an entry date that is not stored.
MapOf(t) ==
  [DtoOf(t) EXCEPT !.end = IF t.end = "rfc3339" THEN "rfc3339" ELSE "none",
                   !.entry = "rfc3339"]

\* DateTime.parse reads ten digits as a date of a six-digit year, which
\* _rfc3339 prints in a form that chrono rejects; it throws on "" and garbage.
DartStamp(s) == CASE s = "seconds" -> "garbage"
                  [] s = "rfc3339" -> "rfc3339"
                  [] OTHER -> "none"

\* TaskParser, then TaskParams.fromTask and toTaskDto, with nothing edited:
\* TaskStatus has three values, and annotations are always a concrete list.
DartDto(t) ==
  LET m == MapOf(t)
  IN  [m EXCEPT !.status = MapStatus(@), !.scheduled = DartStamp(@)]

\* Task.copyWith, as a Dart program may use it before it saves a task.
Edited(d, e) ==
  CASE e = "complete" -> [d EXCEPT !.status = "completed"]
    [] e = "retag"    -> [d EXCEPT !.tags = Tags]
    [] e = "no_udas"  -> [d EXCEPT !.udas = {}]
    [] OTHER          -> d
=============================================================================
