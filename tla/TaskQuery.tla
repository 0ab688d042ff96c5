----------------------------- MODULE TaskQuery -----------------------------
(***************************************************************************)
(* Queries over the tasks of TaskStore: filter expressions and the pending *)
(* fast path (rust/src/filter.rs, filter/evaluator.rs) and the sort order  *)
(* (filter/sort.rs).  A query changes nothing, so it is an operator, asked *)
(* of every state that TaskStore reaches and at every instant of Clock.    *)
(*                                                                         *)
(* project stands for the string properties that a task may lack, urgency  *)
(* for the attributes that are sorted by number.                           *)
(***************************************************************************)
EXTENDS TaskStore, VirtualTags

CONSTANTS Filters,  \* the expressions asked; every part of one is one itself
          Depth(_), \* how deep an expression is nested: it is a finite tree
          Clock,    \* the instants at which queries are asked
          Numbers,  \* the numbers that the text of an attribute may parse as
          NaN,      \* the one that compares with none
          Number,   \* Number[x]: what the text x parses as, if anything
          Rank      \* Rank[x]: the place of x in the order of the strings

Comparisons == {"Before", "After", "By", "From", "To"}

\* The texts of attributes.
Texts == {a.text : a \in Udas}

\* FilterExpression.  Equals is NotEquals when negated; Text stands for the list,
\* substring, word and pattern filters and their negations: it tells the values
\* that match (a value that is no string, or a malformed pattern, has none).  A
\* date is the text of a Dart DateTime: only a UTC one has an offset.  A tag is
\* a user tag or one that the library derives; a virtual tag is in upper case.
FilterExpression(f) ==
  \/ f.type \in {"AndGroup", "OrGroup", "XorGroup"} /\ f.filters \in Seq(Filters)
  \/ f.type = "Not" /\ f.inner \in Filters
  \/ f.type = "Tag" /\ f.tag \in Tags \cup STRING /\ f.exclude \in BOOLEAN
  \/ f.type = "VirtualTag" /\ f.tag \in STRING /\ f.exclude \in BOOLEAN
  \/ /\ f.type \in {"Equals", "Text"} /\ f.property \in STRING
     /\ f.matches \subseteq Status \cup Texts /\ f.negated \in BOOLEAN
  \/ f.type \in {"None", "Any"} /\ f.property \in STRING
  \/ /\ f.type = "Date" /\ f.property \in STRING /\ f.cmp \in Comparisons
     /\ f.date \in Int /\ f.utc \in BOOLEAN
  \/ f.type = "Number" /\ f.property \in STRING /\ f.cmp \in {"<", "<=", ">", ">="}
     /\ f.value \in Int

\* The expressions that an expression holds, in a vector or in a box.
Parts(f) ==
  CASE f.type \in {"AndGroup", "OrGroup", "XorGroup"} ->
         {f.filters[i] : i \in DOMAIN f.filters}
    [] f.type = "Not" -> {f.inner}
    [] OTHER -> {}

ASSUME TaskQueryAssumption ==
  /\ Instant \in [DateFields -> Int] /\ Clock \subseteq Int
  /\ \A i \in Clock \cup {Due} : MonthOf(i) \in Int
  /\ Numbers \subseteq Int /\ NaN \notin Int /\ Absent \notin Int /\ NaN # Absent
  /\ Number \in [Texts -> Numbers \cup {NaN, Absent}]
  /\ Rank \in [Status \cup Texts -> Nat \ {0}]
  /\ \A v, w \in Status \cup Texts : Rank[v] = Rank[w] => v = w
  /\ Absent \notin Status \cup Stamp \cup Texts
  /\ Tags \cap {"PENDING", "COMPLETED", "DELETED"} = {}
  /\ \A f \in Filters : FilterExpression(f) /\ Depth(f) \in Nat
  /\ \A f \in Filters : \A g \in Parts(f) : Depth(g) < Depth(f)

-----------------------------------------------------------------------------
(* What a query sees of a task.                                            *)

\* get_value of an attribute.
TextOf(t, p) ==
  LET given == {a \in t.udas : a.name = p}
  IN  IF given = {} THEN Absent ELSE (CHOOSE a \in given : TRUE).text

\* get_string_property: any other property, a date or a UDA, has no string.
StringProperty(t, p) ==
  CASE p = "status" -> ReadStatus(t)
    [] p = "project" -> TextOf(t, p)
    [] OTHER -> Absent

\* Seeded defect of HasDate: whatever is stored is taken for a date.
StoredIsDate(t, p) == p \in DateFields /\ t[p] # "none"

\* get_datetime_property: the library's getters, and chrono for scheduled; `end`
\* is not among the names it knows.
HasDate(t, p) ==
  \/ p \in {"due", "wait", "entry"} /\ Read(t[p]) = "rfc3339"
  \/ p = "scheduled" /\ t.scheduled = "rfc3339"

\* get_value, parsed as an f64: "NaN" is one.
NumberOf(t, p) == IF TextOf(t, p) = Absent THEN Absent ELSE Number[TextOf(t, p)]

\* get_tags: the user's tags and those that the library derives.
TagsOf(t) == t.tags \cup {g \in {"PENDING", "COMPLETED", "DELETED"} : SyntheticTag(t, g)}

-----------------------------------------------------------------------------
(* Evaluating a filter.                                                    *)

\* A positive filter wants a value, its negation is content without one.
TextAccepts(t, f) ==
  LET v == StringProperty(t, f.property)
  IN  IF f.negated THEN v = Absent \/ v \notin f.matches
                   ELSE v # Absent /\ v \in f.matches

Compares(i, cmp, date) ==
  CASE cmp = "Before" -> i < date
    [] cmp = "After"  -> i > date
    [] cmp = "From"   -> i >= date
    [] OTHER          -> i <= date

\* compare_filter_date: a text without an offset is not RFC 3339.
DateAccepts(t, f) ==
  HasDate(t, f.property) /\ f.utc /\ Compares(Instant[f.property], f.cmp, f.date)

\* The closures of the four urgency filters; NaN compares with no number.
NumberAccepts(n, cmp, x) ==
  /\ n \notin {Absent, NaN}
  /\ CASE cmp = "<"  -> n < x
       [] cmp = "<=" -> n <= x
       [] cmp = ">"  -> n > x
       [] OTHER      -> n >= x

LeafAccepts(t, f, now) ==
  \/ f.type = "Tag" /\ (f.tag \in TagsOf(t)) # f.exclude
  \/ f.type = "VirtualTag" /\ HasVirtualTag(t, f.tag, now) # f.exclude
  \/ f.type \in {"Equals", "Text"} /\ TextAccepts(t, f)
  \/ f.type = "None" /\ StringProperty(t, f.property) \in {Absent, ""}
  \/ f.type = "Any" /\ StringProperty(t, f.property) \notin {Absent, ""}
  \/ f.type = "Date" /\ DateAccepts(t, f)
  \/ f.type = "Number" /\ f.property = "urgency"
     /\ NumberAccepts(NumberOf(t, f.property), f.cmp, f.value)

\* evaluate_filter_expression.  Each leaf reads the clock for itself: clock[g] is
\* what Utc::now answers to the leaf g.
Accepts(t, f, clock) ==
  LET holds[g \in Filters] ==
        \/ g.type = "AndGroup" /\ \A i \in DOMAIN g.filters : holds[g.filters[i]]
        \/ g.type = "OrGroup" /\ \E i \in DOMAIN g.filters : holds[g.filters[i]]
        \/ /\ g.type = "XorGroup"
           /\ Cardinality({i \in DOMAIN g.filters : holds[g.filters[i]]}) = 1
        \/ g.type = "Not" /\ ~holds[g.inner]
        \/ LeafAccepts(t, g, clock[g])
  IN  holds[f]

\* The clock of a query that is over within the hour.
At(now) == [g \in Filters |-> now]

Equals(f, p, v) ==
  f.type = "Equals" /\ ~f.negated /\ f.property = p /\ f.matches = {v}

\* Seeded defect of PendingOnly: a group of alternatives qualifies.
PendingOnlyInOr(f) ==
  LET only[g \in Filters] ==
        \/ Equals(g, "status", "pending")
        \/ g.type \in {"AndGroup", "OrGroup"}
           /\ \E i \in DOMAIN g.filters : only[g.filters[i]]
  IN  only[f]

\* implies_pending_only: the filter accepts pending tasks only.
PendingOnly(f) ==
  LET only[g \in Filters] ==
        \/ Equals(g, "status", "pending")
        \/ g.type = "AndGroup" /\ \E i \in DOMAIN g.filters : only[g.filters[i]]
  IN  only[f]

\* Replica::pending_tasks goes by the status that is stored.
PendingTasks == {u \in Present : db[u].status = "pending"}

\* collect_base_tasks.
BaseTasks(f) == IF PendingOnly(f) THEN PendingTasks ELSE Present

\* get_tasks_with_filter_and_sort_json, but for the order.
AnswerBy(f, clock) == {u \in BaseTasks(f) : Accepts(db[u], f, clock)}
Answer(f, now) == AnswerBy(f, At(now))

-----------------------------------------------------------------------------
(* Sorting.                                                                *)

\* Seeded defect of NumberBefore: a missing number comes last.
MissingLast(a, b) ==
  a # Absent /\ (b = Absent \/ (a # NaN /\ b # NaN /\ a < b))

\* double_cmp: Less.  A missing number is the least, and NaN is Equal to every
\* number.
NumberBefore(a, b) ==
  b # Absent /\ (a = Absent \/ (a # NaN /\ b # NaN /\ a < b))

\* optional_cmp, of strings and of dates: a missing value, 0, is the least.
KeyValue(t, p) ==
  CASE StringProperty(t, p) # Absent -> Rank[StringProperty(t, p)]
    [] HasDate(t, p) -> 1
    [] OTHER -> 0

\* compare_task_pair, ascending: a property that is neither a string nor a date
\* is a number.
Less(t1, t2, p) ==
  IF p \in DateFields \cup {"status", "project", "end"}
  THEN KeyValue(t1, p) < KeyValue(t2, p)
  ELSE NumberBefore(NumberOf(t1, p), NumberOf(t2, p))

Tied(t1, t2, p) == ~Less(t1, t2, p) /\ ~Less(t2, t1, p)

\* Seeded defect of KeyBefore: a missing value comes first either way.
MissingFirst(t1, t2, s) ==
  IF s.ascending \/ KeyValue(t1, s.property) = 0 \/ KeyValue(t2, s.property) = 0
  THEN Less(t1, t2, s.property) ELSE Less(t2, t1, s.property)

KeyBefore(t1, t2, s) ==
  IF s.ascending THEN Less(t1, t2, s.property) ELSE Less(t2, t1, s.property)

\* Seeded defect of Before: the last key that tells the tasks apart decides.
LastKeyDecides(t1, t2, sorts) ==
  \E i \in DOMAIN sorts :
    /\ KeyBefore(t1, t2, sorts[i])
    /\ \A j \in i + 1 .. Len(sorts) : Tied(t1, t2, sorts[j].property)

\* compare_tasks_multi: the first key that tells the tasks apart decides.
Before(t1, t2, sorts) ==
  \E i \in DOMAIN sorts :
    /\ KeyBefore(t1, t2, sorts[i])
    /\ \A j \in 1 .. i - 1 : Tied(t1, t2, sorts[j].property)

-----------------------------------------------------------------------------
\* A query reads the tasks and nothing else: what an import or a Dart program
\* is about makes no difference to it.
Writes ==
  \/ \E u \in Ids, d \in Dtos : AddTaskDto(u, d) \/ UpdateTaskDto(u, d)
  \/ \E u \in Ids, m \in Maps : AddTask(u, m) \/ UpdateTask(u, m)
  \/ \E u \in Ids : DeleteTask(u)
  \/ \E u \in Ids, t \in Foreign \cup {NoTask} : SyncBrings(u, t)

WriteSpec == Init /\ [][Writes]_vars

-----------------------------------------------------------------------------
(* Properties.                                                             *)

\* collect_base_tasks: the fast path hides no task that the filter accepts, but
\* one that was written without a status, which reads as pending.
AnswerComplete ==
  \A f \in Filters, now \in Clock : \A u \in Present \ Answer(f, now) :
    Accepts(db[u], f, At(now)) => db[u].status = "none" /\ PendingOnly(f)

\* What a caller sees of a task, but for an entry date that task_to_map made up.
SeenOf(t) == [MapOf(t) EXCEPT !.entry = Read(t.entry)]

\* The filters read a task on their own, past task_to_map: two tasks that a
\* caller sees alike, and that both have a status, are answered alike, except
\* for an entry date that one has and that was made up for the other.
AlikeAnsweredAlike ==
  \A u, v \in Present :
    u # v /\ SeenOf(db[u]) = SeenOf(db[v]) /\ (db[u].status = "none" <=> db[v].status = "none")
      => \A f \in Filters, now \in Clock : u \in Answer(f, now) <=> v \in Answer(f, now)

\* A filter on a date that compares it with the clock.
DateIs(g, p, cmp, now) ==
  g.type = "Date" /\ g.utc /\ g.property = p /\ g.cmp = cmp /\ g.date = now

\* What a virtual tag abbreviates: a status, or the tag that the library
\* derives of it; a string property that is set; for OVERDUE a due date that is
\* past on a pending task, and for READY a pending task whose wait date is not
\* ahead.
Abbreviates(tag, g, now) ==
  \/ tag = "PENDING" /\ Equals(g, "status", "pending")
  \/ tag = "COMPLETED" /\ Equals(g, "status", "completed")
  \/ tag = "DELETED" /\ Equals(g, "status", "deleted")
  \/ tag \in {"PENDING", "COMPLETED", "DELETED"} /\ g.type = "Tag" /\ g.tag = tag /\ ~g.exclude
  \/ tag = "PROJECT" /\ g.type = "Any" /\ g.property = "project"
  \/ /\ g.type = "AndGroup" /\ Len(g.filters) = 2
     /\ Equals(g.filters[1], "status", "pending")
     /\ \/ tag = "OVERDUE" /\ DateIs(g.filters[2], "due", "Before", now)
        \/ /\ tag = "READY" /\ g.filters[2].type = "Not"
           /\ DateIs(g.filters[2].inner, "wait", "After", now)

\* virtual_tags.rs against the filters: a virtual tag and the expression it
\* abbreviates accept the same tasks, but for a project that is stored as "",
\* which PROJECT finds and AnyFilter does not.
VirtualTagsAgree ==
  \A u \in Present, f \in Filters, now \in Clock :
    f.type = "VirtualTag" /\ ~f.exclude =>
      \A g \in Filters : Abbreviates(f.tag, g, now) =>
        \/ Accepts(db[u], f, At(now)) <=> Accepts(db[u], g, At(now))
        \/ f.tag = "PROJECT" /\ TextOf(db[u], "project") = ""

\* The calendar of virtual_tags.rs: of every task and at every instant, a day
\* lies in its week and month, a month in its quarter and year; yesterday,
\* today and tomorrow exclude one another; and they agree with DUE and OVERDUE.
CalendarNests ==
  \A u \in Present, now \in Clock :
    LET has(tag) == HasVirtualTag(db[u], tag, now) IN
      /\ has("TODAY") => has("WEEK") /\ has("MONTH") /\ has("DUE")
      /\ has("MONTH") => has("QUARTER")
      /\ has("QUARTER") => has("YEAR")
      /\ ~(has("TODAY") /\ has("TOMORROW")) /\ ~(has("TODAY") /\ has("YESTERDAY"))
      /\ has("TOMORROW") => has("DUE") /\ ~has("OVERDUE") /\ ~has("YESTERDAY")
      /\ has("YESTERDAY") /\ has("PENDING") => has("OVERDUE")
      /\ has("OVERDUE") => has("DUE")

\* The tags that time only gives, and the filters that only ask for those.
Growing == {"DUE", "OVERDUE", "READY"}

Rising(f) ==
  LET rises[g \in Filters] ==
        /\ g.type \notin {"XorGroup", "Not"}
        /\ g.type \in {"AndGroup", "OrGroup"} => \A i \in DOMAIN g.filters : rises[g.filters[i]]
        /\ g.type = "VirtualTag" => g.tag \in Growing /\ ~g.exclude
  IN  rises[f]

\* The leaves of a filter.
LeavesOf(f) ==
  LET leaves[g \in Filters] ==
        IF Parts(g) = {} THEN {g} ELSE UNION {leaves[p] : p \in Parts(g)}
  IN  leaves[f]

\* virtual_tags.rs reads the clock anew for every leaf and task: a query that
\* takes from one instant to another, its leaves at either, finds no task that
\* is not there at its end and misses none that is there at its start.  The
\* calendar tags and negations promise nothing of the kind: asked around
\* midnight, YESTERDAY or TODAY misses a task that is due all along.
AnswerBracketed ==
  \A f \in Filters : Rising(f) =>
    \A from, to \in Clock :
      LET early == Answer(f, from)
          last  == Answer(f, to)
          timed == {g \in LeavesOf(f) : g.type = "VirtualTag" /\ g.tag \in Growing}
      IN  from < to => \A late \in SUBSET timed :
            LET torn == AnswerBy(f, [g \in Filters |-> IF g \in late THEN to ELSE from])
            IN  early \subseteq torn /\ torn \subseteq last

\* filter/sort.rs against task_to_map: a list sorted by a date keeps the tasks
\* that show one apart from those that show none, or one that no reader takes
\* for a date, in whichever form either is stored; and descending it keeps them
\* at the other end than ascending.  It is so for the dates that are shown as
\* they are stored: not for `end`, which is no sort key, nor for an entry date,
\* which is made up where there is none.
ShownDecides ==
  \A u, v \in Present, p \in {"due", "wait", "scheduled"}, up \in BOOLEAN :
    LET by == <<[property |-> p, ascending |-> up]>> IN
      MapOf(db[u])[p] = "rfc3339" =>
        /\ MapOf(db[v])[p] # "rfc3339" =>
             /\ Before(db[u], db[v], by) \/ Before(db[v], db[u], by)
             /\ Before(db[u], db[v], by)
                  <=> Before(db[v], db[u], <<[property |-> p, ascending |-> ~up]>>)
        /\ \A w \in Present :
             MapOf(db[v])[p] # "rfc3339" /\ MapOf(db[w])[p] # "rfc3339" =>
               (Before(db[u], db[v], by) <=> Before(db[u], db[w], by))

ByUrgency == <<[property |-> "urgency", ascending |-> TRUE]>>

\* filter/evaluator.rs against filter/sort.rs: an urgency filter cuts a list
\* that is sorted by urgency in two: where v does not come before u, what is more
\* than a number stays so from u to v, and what is less from v to u, unless u has
\* none.  NaN is Equal to every number in a sort and on neither side of a cut.
UrgencyCutsList ==
  \A u, v \in Present, f \in Filters :
    /\ f.type = "Number" /\ f.property = "urgency"
    /\ NaN \notin {NumberOf(db[u], "urgency"), NumberOf(db[v], "urgency")}
    /\ ~Before(db[v], db[u], ByUrgency)
    => LET accepts(w) == LeafAccepts(db[w], f, 0) IN
         IF f.cmp \in {">", ">="}
         THEN accepts(u) => accepts(v)
         ELSE accepts(v) => accepts(u) \/ NumberOf(db[u], "urgency") = Absent

\* README.md:455-459: a date filter finds the tasks whose date compares as it
\* says; the examples give it DateTime.now(), a local time.
DateFilterFinds ==
  \A u \in Present, f \in Filters, now \in Clock :
    f.type = "Date" /\ MapOf(db[u]).due = "rfc3339" /\ f.property = "due"
      => (u \in Answer(f, now) <=> Compares(Due, f.cmp, f.date))
=============================================================================
