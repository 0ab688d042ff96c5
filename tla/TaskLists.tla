----------------------------- MODULE TaskLists -----------------------------
(***************************************************************************)
(* What is made of many tasks at once: the distinct values and tags of     *)
(* rust/src/properties.rs, and the listings, statistics and backups of     *)
(* api.rs.  Like a query, each is an operator on the tasks there are.      *)
(***************************************************************************)
EXTENDS TaskQuery

CONSTANTS Spells,   \* Spells[g]: the user tag g in upper case
          SortLists \* the lists of sort keys asked for

ASSUME TaskListsAssumption ==
  /\ Spells \in [Tags -> STRING]
  /\ SortLists \subseteq Seq([property : STRING, ascending : BOOLEAN])

-----------------------------------------------------------------------------
(* Listing distinct values and tags.                                       *)

\* get_task_property_values: the string, else the date in RFC 3339, else the
\* text that is stored, of the tasks that the filter accepts.
ListedValue(t, p) ==
  CASE StringProperty(t, p) # Absent -> StringProperty(t, p)
    [] HasDate(t, p) -> "rfc3339"
    [] p \in DateFields \cup {"end"} /\ ~HasDate(t, p) /\ t[p] # "none" -> t[p]
    [] OTHER -> TextOf(t, p)
PropertyValues(S, p) == {ListedValue(db[u], p) : u \in S} \ {Absent}

\* get_all_enum_values, EnumStatus.
StatusEnum == {"completed", "deleted", "pending"}

\* Seeded defect of StatusValues: the status that is read, not the stored one.
StatusRead(S) == {ReadStatus(db[u]) : u \in S} \cap StatusEnum

\* get_task_property_values_typed: the strings that are stored for EnumStatus,
\* the dates that parse for DateTime, of which there is one.
StatusValues(S) == {db[u].status : u \in S} \cap StatusEnum
DateValues(S, p) == {"rfc3339" : u \in {v \in S : HasDate(db[v], p)}}

\* Seeded defect of ListedTags: a task with a tag to hide is left out whole.
TagsOfUnhidden(t, virtual, now) ==
  IF virtual \/ \A g \in t.tags : ~HasVirtualTag(t, Spells[g], now) THEN TagsOf(t) ELSE {}

\* get_tags, of one task: what has_virtual_tag finds on it is hidden, a user tag
\* that spells the name of a virtual tag with the rest.
ListedTags(t, virtual, now) ==
  IF virtual THEN TagsOf(t) ELSE {g \in t.tags : ~HasVirtualTag(t, Spells[g], now)}
GetTags(S, virtual, now) == UNION {ListedTags(db[u], virtual, now) : u \in S}

-----------------------------------------------------------------------------
(* Listing, counting and saving all tasks.                                 *)

\* get_all_tasks_with_sort_json: sort_by of all the tasks, in any order to
\* begin with; no task comes after one that it is before.
Listing(s, sorts) ==
  /\ s \in [1 .. Cardinality(Present) -> Present]
  /\ \A i, j \in DOMAIN s : i # j => s[i] # s[j]
  /\ \A i, j \in DOMAIN s : i < j => ~Before(db[s[j]], db[s[i]], sorts)

\* Seeded defect of Stats: pending tasks are counted as pending_tasks finds them.
StatsOfStored ==
  [total |-> Cardinality(Present),
   count |-> [c \in StatusEnum |-> Cardinality({u \in Present : db[u].status = c})]]

\* get_taskdb_stats.
Stats ==
  [total |-> Cardinality(Present),
   count |-> [c \in StatusEnum |-> Cardinality({u \in Present : ReadStatus(db[u]) = c})]]

\* Seeded defect of Exported: get_tags is not cut down to the user's tags.
ExportedSynthetic(t) == [MapOf(t) EXCEPT !.tags = @ \cup {BadTag}]

\* export_tasks writes every task as a map; import_tasks into a database that
\* has none of them makes a task of each map that it does not refuse.
Exported(t) == MapOf(t)
Restored(t) == ApplyMap(NewTask, Exported(t), FALSE)

-----------------------------------------------------------------------------
(* Properties.                                                             *)

\* properties.rs against the filters: a value that is listed selects a task
\* when it is asked for, a date as the range that begins and ends with it, but
\* for a "pending" that no task has stored; and the typed lists hold nothing
\* that the untyped ones lack.
ListedIsFound ==
  \A f \in Filters, now \in Clock :
    /\ \A p \in {"status", "project"} :
         \/ \A v \in PropertyValues(Present, p) : Equals(f, p, v) => Answer(f, now) # {}
         \/ Equals(f, "status", "pending") /\ "pending" \notin StatusValues(Present)
    /\ /\ f.type = "Date" /\ f.utc /\ f.property \in DateFields
       /\ f.date = Instant[f.property] /\ f.cmp \in {"By", "From", "To"}
       => (DateValues(Present, f.property) # {} <=> Answer(f, now) # {})
    /\ LET S == Answer(f, now) IN
         /\ StatusValues(S) \subseteq PropertyValues(S, "status")
         /\ \A p \in DateFields : DateValues(S, p) \subseteq PropertyValues(S, p)

\* get_tags against task_to_map: a tag that a caller sees on a task of the
\* answer is in the list, unless its name is that of a virtual tag which the task
\* has; with the virtual tags included all are in it.  A Tag filter made of what
\* is listed finds the tasks it was listed for.
SeenTagsListed ==
  \A f \in Filters, now \in Clock :
    LET S == Answer(f, now) IN
      /\ \A u \in S : \A g \in MapOf(db[u]).tags :
           /\ g \in GetTags(S, TRUE, now)
           /\ g \in GetTags(S, FALSE, now) \/ HasVirtualTag(db[u], Spells[g], now)
      /\ \A h \in Filters : h.type = "Tag" /\ ~h.exclude =>
           (h.tag \in GetTags(S, TRUE, now) <=> S \cap Answer(h, now) # {})

\* The same keys the other way.
Reversed(sorts) == [i \in DOMAIN sorts |-> [sorts[i] EXCEPT !.ascending = ~@]]

\* No attribute that is sorted by holds a NaN.
Sortable(sorts) ==
  \A u \in Present, i \in DOMAIN sorts : NumberOf(db[u], sorts[i].property) # NaN

\* compare_tasks_multi: a list by many keys is a list by the first of them, and
\* backwards it is a list by the same keys the other way, as long as there is no
\* NaN, whose ties leave the sort without an order to go by.
ListingsRefine ==
  \A sorts \in SortLists : \A s \in [1 .. Cardinality(Present) -> Present] :
    Sortable(sorts) /\ Listing(s, sorts) =>
      /\ \A n \in 0 .. Len(sorts) : Listing(s, SubSeq(sorts, 1, n))
      /\ Listing([i \in DOMAIN s |-> s[Cardinality(Present) + 1 - i]], Reversed(sorts))

\* get_taskdb_stats against the filters: each count is the number of tasks that
\* a filter on the status finds, and for pending the tasks without a status
\* besides, which the fast path misses; the total exceeds the counts by the
\* recurring tasks and those of unknown status.
StatsMatchFilters ==
  /\ \A f \in Filters, now \in Clock, c \in StatusEnum : Equals(f, "status", c) =>
       Stats.count[c] = Cardinality(Answer(f, now))
         + (IF c = "pending" THEN Cardinality({u \in Present : db[u].status = "none"}) ELSE 0)
  /\ Stats.total = Stats.count["pending"] + Stats.count["completed"] + Stats.count["deleted"]
         + Cardinality({u \in Present : db[u].status \in {"recurring", "unknown"}})

\* export_tasks, then import_tasks into an empty database: a task is refused
\* only for a `scheduled` that is no RFC 3339 date, and keeps its due and wait
\* dates, tags, annotations and attributes; a status that maps cannot carry
\* becomes pending.  Its entry date is lost, whether it was stored or made up for
\* the map: apply_task_data does not read it, nor `end` and `modified`.
BackupRestores ==
  \A u \in Present :
    LET m == Exported(db[u])
        r == MapOf(Restored(db[u]))
    IN  /\ MapRejected(m) <=> Malformed(db[u].scheduled)
        /\ ~MapRejected(m) =>
             /\ r.due = m.due /\ r.wait = m.wait
             /\ r.tags = m.tags /\ r.annotations = m.annotations
             /\ r.udas = m.udas
             /\ r.scheduled = m.scheduled \/ m.scheduled = "empty"
             /\ r.status = MapStatus(m.status)
             /\ Restored(db[u]).entry = "none"
=============================================================================
