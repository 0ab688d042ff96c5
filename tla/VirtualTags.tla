---------------------------- MODULE VirtualTags ----------------------------
(***************************************************************************)
(* The virtual tags of rust/src/virtual_tags.rs: what a task's fields and  *)
(* the clock say of it.  An instant is an hour; days are counted from a    *)
(* Monday, and a calendar gives every day its month.  The dates that tasks *)
(* store under one name are one instant.                                   *)
(*                                                                         *)
(* LATEST, ORPHAN and UDA never hold.  UNTIL asks what SCHEDULED asks, and *)
(* PARENT, TEMPLATE and INSTANCE what PROJECT asks, of other attributes.   *)
(* ACTIVE, WAITING, BLOCKED, BLOCKING, UNBLOCKED and PRIORITY are left     *)
(* out: they rest on fields that TaskOps does not keep apart.              *)
(***************************************************************************)
EXTENDS TaskOps, Integers

CONSTANTS Instant, \* Instant[p]: the instant of every date stored under p
          Month(_) \* the month of a day, counted through the years

\* The names of dates that a query knows; until is treated as scheduled is.
DateFields == {"due", "wait", "entry", "scheduled"}

\* date_naive and the calendar fields that chrono derives from an instant.
Day(i)     == i \div 24
Week(i)    == Day(i) \div 7
MonthOf(i) == Month(Day(i))

\* Seeded defect of SameMonth: the year is not compared.
SameMonthName(i, j) == MonthOf(i) % 12 = MonthOf(j) % 12

SameMonth(i, j)   == MonthOf(i) = MonthOf(j)
SameQuarter(i, j) == MonthOf(i) \div 3 = MonthOf(j) \div 3
SameYear(i, j)    == MonthOf(i) \div 12 = MonthOf(j) \div 12

\* The library's getters for due and wait.
HasDue(t)  == Read(t.due) = "rfc3339"
HasWait(t) == Read(t.wait) = "rfc3339"

Due == Instant["due"]

\* Seeded defect of DueTag: a date that is past is due no more.
DueAhead(t, tag, now) ==
  HasDue(t) /\ tag = "DUE" /\ now <= Due /\ Due <= now + 7 * 24

\* The tags that compare the due date with the clock.
DueTag(t, tag, now) ==
  /\ HasDue(t)
  /\ \/ tag = "DUE" /\ Due <= now + 7 * 24
     \/ tag = "OVERDUE" /\ Due < now /\ ReadStatus(t) = "pending"
     \/ tag \in {"TODAY", "DUETODAY"} /\ Day(Due) = Day(now)
     \/ tag = "TOMORROW" /\ Day(Due) = Day(now + 24)
     \/ tag = "YESTERDAY" /\ Day(Due) = Day(now - 24)
     \/ tag = "WEEK" /\ Week(Due) = Week(now)
     \/ tag = "MONTH" /\ SameMonth(Due, now)
     \/ tag = "QUARTER" /\ SameQuarter(Due, now)
     \/ tag = "YEAR" /\ SameYear(Due, now)

\* Seeded defect of ReadyTag: a task waits for its due date.
ReadyWhenDue(t, tag, now) ==
  tag = "READY" /\ ReadStatus(t) = "pending" /\ (HasDue(t) => Due <= now)

\* is_ready: a pending task that waits for nothing, or no longer.
ReadyTag(t, tag, now) ==
  tag = "READY" /\ ReadStatus(t) = "pending" /\ (HasWait(t) => Instant["wait"] <= now)

\* Seeded defect of SyntheticTag: what has an end is taken for completed.
EndedIsCompleted(t, tag) == tag = "COMPLETED" /\ t.end # "none"

\* has_synthetic_tag: the library derives the tags of a status, and get_tags
\* yields them among the user's.
SyntheticTag(t, tag) ==
  \/ tag = "PENDING" /\ ReadStatus(t) = "pending"
  \/ tag = "COMPLETED" /\ ReadStatus(t) = "completed"
  \/ tag = "DELETED" /\ ReadStatus(t) = "deleted"

\* The tags that ask for a field.  get_tags is never empty: a task is BLOCKED
\* or UNBLOCKED, so that every task is TAGGED.
FieldTag(t, tag) ==
  \/ tag = "ANNOTATED" /\ t.annotations # {}
  \/ tag = "PROJECT" /\ \E a \in t.udas : a.name = "project"
  \/ tag = "SCHEDULED" /\ t.scheduled # "none"
  \/ tag = "TAGGED"

\* has_virtual_tag: a name is looked up in upper case.
HasVirtualTag(t, tag, now) ==
  \/ SyntheticTag(t, tag)
  \/ FieldTag(t, tag)
  \/ DueTag(t, tag, now)
  \/ ReadyTag(t, tag, now)
=============================================================================
