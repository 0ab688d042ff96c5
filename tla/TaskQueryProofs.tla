-------------------------- MODULE TaskQueryProofs --------------------------
(***************************************************************************)
(* Theorems about TaskQuery, for every set of tasks, every filter and sort *)
(* lists of any length: the order that compare_tasks_multi gives to        *)
(* sort_by and what a NaN makes of it, where missing dates go, the         *)
(* calendar, the cuts of the urgency filters, backups and listings.        *)
(***************************************************************************)
EXTENDS TaskLists, TaskStoreProofs, WellFoundedInduction

\* A TaskSortList.
SortKeys == [property : STRING, ascending : BOOLEAN]
SortList == Seq(SortKeys)

\* No attribute of the task that is sorted by holds a NaN.
Comparable(t, sorts) == \A i \in DOMAIN sorts : NumberOf(t, sorts[i].property) # NaN

\* Every key of the list is equal.
AllTied(a, b, sorts) == \A i \in DOMAIN sorts : Tied(a, b, sorts[i].property)

\* What a position of a sequence is, and what is found there.
LEMMA Element ==
  ASSUME NEW K, NEW q \in Seq(K), NEW i \in DOMAIN q
  PROVE  q[i] \in K /\ i \in 1 .. Len(q) /\ i \in Nat
OBVIOUS

LEMMA SortKey ==
  ASSUME NEW sorts \in SortList, NEW i \in DOMAIN sorts
  PROVE  sorts[i] \in SortKeys /\ i \in Nat
BY Element DEF SortList

\* An attribute has a text.
LEMMA TextOfType ==
  ASSUME NEW t \in Task, NEW p
  PROVE  /\ TextOf(t, p) \in Texts \cup {Absent}
         /\ (\E a \in t.udas : a.name = p) => TextOf(t, p) \in Texts
         /\ (\A a \in t.udas : a.name # p) => TextOf(t, p) = Absent
<1>. DEFINE given == {a \in t.udas : a.name = p}
<1>1. \A a \in given : a.text \in Texts
  BY DEF Task, Attributes, Texts
<1>2. CASE given = {}
  BY <1>2 DEF TextOf
<1>3. CASE given # {}
  <2>1. (CHOOSE a \in given : TRUE) \in given
    BY <1>3
  <2>2. TextOf(t, p) = (CHOOSE a \in given : TRUE).text
    BY <1>3 DEF TextOf
  <2>3. TextOf(t, p) \in Texts
    BY <1>1, <2>1, <2>2
  <2>. QED
    BY <1>3, <2>3
<1>. QED
  BY <1>2, <1>3

\* What the text of an attribute parses as.
LEMMA NumberOfType ==
  ASSUME NEW t \in Task, NEW p
  PROVE  NumberOf(t, p) \in Int \cup {NaN, Absent}
BY TextOfType, TaskQueryAssumption DEF NumberOf

\* A string property is a status or a text.
LEMMA StringPropertyType ==
  ASSUME NEW t \in Task, NEW p
  PROVE  StringProperty(t, p) \in Status \cup Texts \cup {Absent}
<1>1. ReadStatus(t) \in Status
  BY DEF ReadStatus, Task, Status
<1>. QED
  BY <1>1, TextOfType DEF StringProperty

\* Whatever the property, the place of its value is a number.
LEMMA KeyValueNat ==
  ASSUME NEW t \in Task, NEW p
  PROVE  KeyValue(t, p) \in Nat
<1>1. StringProperty(t, p) # Absent => Rank[StringProperty(t, p)] \in Nat
  BY StringPropertyType, TaskQueryAssumption
<1>. QED
  BY <1>1 DEF KeyValue

\* A set of positions that is not empty has a first one.
LEMMA FirstPosition ==
  ASSUME NEW S, S \subseteq Nat, S # {}
  PROVE  \E i \in S : \A j \in S : i <= j
<1> DEFINE R == OpToRel(<, Nat)
<1>1. \E i \in S : \A j \in S : ~(<<j, i>> \in R)
  BY NatLessThanWellFounded, WFMin
<1>2. \A i, j \in S : ~(<<j, i>> \in R) => i <= j
  BY DEF OpToRel
<1>. QED
  BY <1>1, <1>2

-----------------------------------------------------------------------------
(* The order of compare_tasks_multi.                                       *)

\* The order of a property is strict, and what is tied is alike in it.
LEMMA LessOrder ==
  ASSUME NEW a \in Task, NEW b \in Task, NEW c \in Task, NEW p,
         \A t \in {a, b, c} : NumberOf(t, p) # NaN
  PROVE  /\ ~Less(a, a, p)
         /\ Less(a, b, p) => ~Less(b, a, p)
         /\ Less(a, b, p) /\ Less(b, c, p) => Less(a, c, p)
         /\ Tied(b, c, p) => (Less(a, b, p) <=> Less(a, c, p)) /\ (Less(b, a, p) <=> Less(c, a, p))
         /\ Tied(a, b, p) /\ Tied(b, c, p) => Tied(a, c, p)
<1>. DEFINE ranked == p \in DateFields \cup {"status", "project", "end"}
<1>1. CASE ranked
  <2>1. \A t \in {a, b, c} : KeyValue(t, p) \in Nat
    BY KeyValueNat
  <2>2. \A t, w : Less(t, w, p) <=> KeyValue(t, p) < KeyValue(w, p)
    BY <1>1 DEF Less
  <2>. HIDE DEF ranked
  <2>. QED
    BY <2>1, <2>2 DEF Tied
<1>2. CASE ~ranked
  <2>1. \A t \in {a, b, c} : NumberOf(t, p) \in Int \cup {Absent}
    BY NumberOfType
  <2>2. \A t, w : Less(t, w, p) <=> NumberBefore(NumberOf(t, p), NumberOf(w, p))
    BY <1>2 DEF Less
  <2>3. NaN \notin Int /\ Absent \notin Int /\ NaN # Absent
    BY TaskQueryAssumption
  <2>. HIDE DEF ranked
  <2>. QED
    BY <2>1, <2>2, <2>3 DEF Tied, NumberBefore
<1>. QED
  BY <1>1, <1>2

\* One key orders two tasks one way at most, and in the direction asked.
LEMMA KeyOrder ==
  ASSUME NEW a \in Task, NEW b \in Task, NEW c \in Task, NEW s \in SortKeys,
         \A t \in {a, b, c} : NumberOf(t, s.property) # NaN
  PROVE  /\ ~KeyBefore(a, a, s)
         /\ KeyBefore(a, b, s) /\ KeyBefore(b, c, s) => KeyBefore(a, c, s)
         /\ Tied(b, c, s.property) => (KeyBefore(a, b, s) <=> KeyBefore(a, c, s))
         /\ Tied(a, b, s.property) => (KeyBefore(a, c, s) <=> KeyBefore(b, c, s))
         /\ Tied(a, b, s.property) /\ Tied(b, c, s.property) => Tied(a, c, s.property)
         /\ ~Tied(a, b, s.property) <=> KeyBefore(a, b, s) \/ KeyBefore(b, a, s)
<1>. DEFINE p == s.property
<1>1. /\ ~Less(a, a, p)
      /\ Less(a, b, p) /\ Less(b, c, p) => Less(a, c, p)
      /\ Tied(a, b, p) /\ Tied(b, c, p) => Tied(a, c, p)
  BY LessOrder
<1>2. Less(c, b, p) /\ Less(b, a, p) => Less(c, a, p)
  BY LessOrder
<1>3. Tied(b, c, p) => (Less(a, b, p) <=> Less(a, c, p)) /\ (Less(b, a, p) <=> Less(c, a, p))
  BY LessOrder
<1>4. Tied(a, b, p) => (Less(c, a, p) <=> Less(c, b, p)) /\ (Less(a, c, p) <=> Less(b, c, p))
  BY LessOrder
<1>5. ~Tied(a, b, p) <=> Less(a, b, p) \/ Less(b, a, p)
  BY DEF Tied
<1>6. s.ascending => \A t, w : KeyBefore(t, w, s) <=> Less(t, w, p)
  BY DEF KeyBefore
<1>7. ~s.ascending => \A t, w : KeyBefore(t, w, s) <=> Less(w, t, p)
  BY DEF KeyBefore
<1>. HIDE DEF p
<1>8. CASE s.ascending
  BY <1>1, <1>3, <1>4, <1>5, <1>6, <1>8, Zenon DEF p
<1>9. CASE ~s.ascending
  BY <1>1, <1>2, <1>3, <1>4, <1>5, <1>7, <1>9, Zenon DEF p
<1>. QED
  BY <1>8, <1>9

\* compare_tasks_multi: without a NaN, sort_by is given a strict order, whatever
\* the keys, the directions and the missing values: no task is before itself, and
\* what is before a task is before all that the task is before.
THEOREM SortOrderIsStrict ==
  ASSUME NEW sorts \in SortList, NEW a \in Task, NEW b \in Task, NEW c \in Task,
         \A t \in {a, b, c} : Comparable(t, sorts)
  PROVE  /\ ~Before(a, a, sorts)
         /\ Before(a, b, sorts) /\ Before(b, c, sorts) => Before(a, c, sorts)
<1>1. ASSUME NEW i \in DOMAIN sorts
      PROVE  /\ sorts[i] \in SortKeys /\ i \in Nat
             /\ \A t \in {a, b, c} : NumberOf(t, sorts[i].property) # NaN
  BY SortKey DEF Comparable
<1>2. ~Before(a, a, sorts)
  <2>1. \A i \in DOMAIN sorts : ~KeyBefore(a, a, sorts[i])
    BY <1>1, KeyOrder
  <2>. QED
    BY <2>1 DEF Before
<1>3. ASSUME Before(a, b, sorts), Before(b, c, sorts)
      PROVE  Before(a, c, sorts)
  <2>1. PICK i \in DOMAIN sorts :
          KeyBefore(a, b, sorts[i]) /\ \A j \in 1 .. i - 1 : Tied(a, b, sorts[j].property)
    BY <1>3 DEF Before
  <2>2. PICK k \in DOMAIN sorts :
          KeyBefore(b, c, sorts[k]) /\ \A j \in 1 .. k - 1 : Tied(b, c, sorts[j].property)
    BY <1>3 DEF Before
  <2>3. /\ i \in 1 .. Len(sorts) /\ k \in 1 .. Len(sorts) /\ Len(sorts) \in Nat
        /\ DOMAIN sorts = 1 .. Len(sorts)
    BY DEF SortList
  <2>4. ASSUME NEW j \in DOMAIN sorts, Tied(a, b, sorts[j].property), Tied(b, c, sorts[j].property)
        PROVE  Tied(a, c, sorts[j].property)
    BY <1>1, <2>4, KeyOrder
  <2>5. CASE i < k
    <3>1. KeyBefore(a, c, sorts[i])
      <4>1. Tied(b, c, sorts[i].property)
        BY <2>2, <2>3, <2>5
      <4>. QED
        BY <1>1, <2>1, <4>1, KeyOrder
    <3>2. \A j \in 1 .. i - 1 : Tied(a, c, sorts[j].property)
      <4>1. \A j \in 1 .. i - 1 : j \in 1 .. k - 1 /\ j \in DOMAIN sorts
        BY <2>3, <2>5
      <4>. QED
        BY <2>1, <2>2, <2>4, <4>1
    <3>. QED
      BY <3>1, <3>2 DEF Before
  <2>6. CASE i = k
    <3>1. KeyBefore(a, c, sorts[i])
      BY <1>1, <2>1, <2>2, <2>6, KeyOrder
    <3>2. \A j \in 1 .. i - 1 : j \in DOMAIN sorts
      BY <2>3
    <3>. QED
      BY <2>1, <2>2, <2>4, <2>6, <3>1, <3>2 DEF Before
  <2>7. CASE k < i
    <3>1. KeyBefore(a, c, sorts[k])
      <4>1. Tied(a, b, sorts[k].property)
        BY <2>1, <2>3, <2>7
      <4>. QED
        BY <1>1, <2>2, <4>1, KeyOrder
    <3>2. \A j \in 1 .. k - 1 : Tied(a, c, sorts[j].property)
      <4>1. \A j \in 1 .. k - 1 : j \in 1 .. i - 1 /\ j \in DOMAIN sorts
        BY <2>3, <2>7
      <4>. QED
        BY <2>1, <2>2, <2>4, <4>1
    <3>. QED
      BY <3>1, <3>2 DEF Before
  <2>. QED
    BY <2>3, <2>5, <2>6, <2>7
<1>. QED
  BY <1>2, <1>3

\* compare_tasks_multi answers Equal for nothing but keys that tie: of two tasks,
\* one is before the other or every key of the list ties.
THEOREM SortOrderIsTotal ==
  ASSUME NEW sorts \in SortList, NEW a \in Task, NEW b \in Task
  PROVE  Before(a, b, sorts) \/ Before(b, a, sorts) \/ AllTied(a, b, sorts)
<1>. DEFINE S == {i \in DOMAIN sorts : ~Tied(a, b, sorts[i].property)}
<1>1. S \subseteq DOMAIN sorts /\ DOMAIN sorts = 1 .. Len(sorts) /\ Len(sorts) \in Nat
  BY DEF SortList
<1>2. CASE S = {}
  BY <1>2 DEF AllTied
<1>3. CASE S # {}
  <2>1. PICK i \in S : \A j \in S : i <= j
    <3>1. S \subseteq Nat
      BY <1>1
    <3>. HIDE DEF S
    <3>. QED
      BY <1>3, <3>1, FirstPosition
  <2>2. \A j \in 1 .. i - 1 : Tied(a, b, sorts[j].property) /\ Tied(b, a, sorts[j].property)
    <3>1. \A j \in 1 .. i - 1 : j \in DOMAIN sorts /\ ~(i <= j)
      BY <1>1, <2>1
    <3>. QED
      BY <2>1, <3>1 DEF Tied
  <2>3. KeyBefore(a, b, sorts[i]) \/ KeyBefore(b, a, sorts[i])
    BY <2>1 DEF KeyBefore, Tied
  <2>. QED
    BY <1>1, <2>1, <2>2, <2>3 DEF Before
<1>. QED
  BY <1>2, <1>3

\* Without a NaN, tasks that compare Equal compare alike with every other task:
\* sort_by needs it as much as transitivity.
THEOREM SortTiesAreAlike ==
  ASSUME NEW sorts \in SortList, NEW a \in Task, NEW b \in Task, NEW c \in Task,
         \A t \in {a, b, c} : Comparable(t, sorts), AllTied(a, b, sorts)
  PROVE  /\ Before(a, c, sorts) <=> Before(b, c, sorts)
         /\ Before(c, a, sorts) <=> Before(c, b, sorts)
<1>1. ASSUME NEW i \in DOMAIN sorts
      PROVE  /\ KeyBefore(a, c, sorts[i]) <=> KeyBefore(b, c, sorts[i])
             /\ KeyBefore(c, a, sorts[i]) <=> KeyBefore(c, b, sorts[i])
             /\ Tied(a, c, sorts[i].property) <=> Tied(b, c, sorts[i].property)
             /\ Tied(c, a, sorts[i].property) <=> Tied(c, b, sorts[i].property)
  <2>1. sorts[i] \in SortKeys /\ \A t \in {a, b, c} : NumberOf(t, sorts[i].property) # NaN
    BY SortKey DEF Comparable
  <2>2. Tied(a, b, sorts[i].property) /\ Tied(b, a, sorts[i].property)
    BY DEF AllTied, Tied
  <2>3. /\ KeyBefore(a, c, sorts[i]) <=> KeyBefore(b, c, sorts[i])
        /\ KeyBefore(c, a, sorts[i]) <=> KeyBefore(c, b, sorts[i])
    BY <2>1, <2>2, KeyOrder
  <2>4. /\ Tied(b, c, sorts[i].property) => Tied(a, c, sorts[i].property)
        /\ Tied(a, c, sorts[i].property) => Tied(b, c, sorts[i].property)
    BY <2>1, <2>2, KeyOrder
  <2>. QED
    BY <2>3, <2>4 DEF Tied
<1>2. \A i \in DOMAIN sorts : \A j \in 1 .. i - 1 : j \in DOMAIN sorts
  BY DEF SortList
<1>3. ASSUME NEW i \in DOMAIN sorts
      PROVE  /\ (\A j \in 1 .. i - 1 : Tied(a, c, sorts[j].property))
                  <=> \A j \in 1 .. i - 1 : Tied(b, c, sorts[j].property)
             /\ (\A j \in 1 .. i - 1 : Tied(c, a, sorts[j].property))
                  <=> \A j \in 1 .. i - 1 : Tied(c, b, sorts[j].property)
  BY <1>1, <1>2
<1>. QED
  BY <1>1, <1>3 DEF Before

\* double_cmp answers Equal where partial_cmp has no answer.  So a NaN ties with
\* every number, and a list by urgency and then by project may have three tasks
\* of which each is before the next: there is no order that sort_by could find.
THEOREM NaNGoesInCircles ==
  ASSUME NEW a \in Task, NEW b \in Task, NEW c \in Task,
         NumberOf(a, "urgency") \in Int, NumberOf(b, "urgency") \in Int,
         NumberOf(a, "urgency") < NumberOf(b, "urgency"), NumberOf(c, "urgency") = NaN,
         KeyValue(b, "project") < KeyValue(c, "project"),
         KeyValue(c, "project") < KeyValue(a, "project")
  PROVE  LET by == <<[property |-> "urgency", ascending |-> TRUE],
                     [property |-> "project", ascending |-> TRUE]>>
         IN  Before(a, b, by) /\ Before(b, c, by) /\ Before(c, a, by)
<1>. DEFINE by == <<[property |-> "urgency", ascending |-> TRUE],
                    [property |-> "project", ascending |-> TRUE]>>
<1>1. NaN \notin Int /\ Absent \notin Int /\ NaN # Absent
  BY TaskQueryAssumption
<1>2. \A t, w : Less(t, w, "urgency") <=> NumberBefore(NumberOf(t, "urgency"), NumberOf(w, "urgency"))
  BY DEF Less, DateFields
<1>3. \A t, w : Less(t, w, "project") <=> KeyValue(t, "project") < KeyValue(w, "project")
  BY DEF Less, DateFields
<1>4. /\ Less(a, b, "urgency") /\ Tied(b, c, "urgency") /\ Tied(c, a, "urgency")
      /\ Less(b, c, "project") /\ Less(c, a, "project")
  BY <1>1, <1>2, <1>3 DEF Tied, NumberBefore
<1>5. /\ DOMAIN by = {1, 2} /\ 1 .. 1 - 1 = {} /\ 1 .. 2 - 1 = {1}
      /\ by[1] = [property |-> "urgency", ascending |-> TRUE]
      /\ by[2] = [property |-> "project", ascending |-> TRUE]
  OBVIOUS
<1>6. /\ \A t, w : KeyBefore(t, w, by[1]) <=> Less(t, w, "urgency")
      /\ \A t, w : KeyBefore(t, w, by[2]) <=> Less(t, w, "project")
  BY <1>5 DEF KeyBefore
<1>. HIDE DEF by
<1>7. Before(a, b, by)
  BY <1>4, <1>5, <1>6 DEF Before
<1>8. ASSUME NEW t, NEW w, Tied(t, w, "urgency"), Less(t, w, "project")
      PROVE  Before(t, w, by)
  <2>1. KeyBefore(t, w, by[2])
    BY <1>6, <1>8
  <2>2. \A j \in 1 .. 2 - 1 : Tied(t, w, by[j].property)
    BY <1>5, <1>8
  <2>3. 2 \in DOMAIN by
    BY <1>5
  <2>. QED
    BY <2>1, <2>2, <2>3 DEF Before
<1>. QED
  BY <1>4, <1>7, <1>8 DEF by

-----------------------------------------------------------------------------
(* Sorting by a date.                                                      *)

\* optional_cmp: ascending, the tasks without a date come before those that have
\* one, descending after them; the comment at sort.rs:88-89 puts them last.
THEOREM MissingDatesComeFirst ==
  ASSUME NEW t \in Task, NEW w \in Task, NEW p \in {"due", "wait", "entry", "scheduled"},
         NEW up \in BOOLEAN
  PROVE  Before(t, w, <<[property |-> p, ascending |-> up]>>)
           <=> IF up THEN ~HasDate(t, p) /\ HasDate(w, p) ELSE HasDate(t, p) /\ ~HasDate(w, p)
<1>. DEFINE s == <<[property |-> p, ascending |-> up]>>
<1>1. \A v \in {t, w} : KeyValue(v, p) = IF HasDate(v, p) THEN 1 ELSE 0
  BY DEF KeyValue, StringProperty
<1>2. \A v, x : Less(v, x, p) <=> KeyValue(v, p) < KeyValue(x, p)
  BY DEF Less, DateFields
<1>3. /\ DOMAIN s = {1} /\ s[1].property = p /\ s[1].ascending = up
      /\ 1 .. 1 - 1 = {}
  OBVIOUS
<1>. HIDE DEF s
<1>4. Before(t, w, s) <=> KeyBefore(t, w, s[1])
  BY <1>3 DEF Before
<1>5. KeyBefore(t, w, s[1]) <=> IF up THEN Less(t, w, p) ELSE Less(w, t, p)
  BY <1>3 DEF KeyBefore
<1>6. Less(t, w, p) <=> ~HasDate(t, p) /\ HasDate(w, p)
  BY <1>1, <1>2
<1>7. Less(w, t, p) <=> ~HasDate(w, p) /\ HasDate(t, p)
  BY <1>1, <1>2
<1>. QED
  BY <1>4, <1>5, <1>6, <1>7 DEF s

\* Every write is a step of TaskStore.
LEMMA WritesAreSteps == WriteSpec => Spec
<1>1. Writes => Next
  BY DEF Writes, Next
<1>. QED
  BY <1>1, PTL DEF WriteSpec, Spec

\* Whatever is written, synced or deleted, sorting by due, wait or scheduled goes
\* by the date that task_to_map shows.
THEOREM SortFollowsDates == WriteSpec => []ShownDecides
<1>1. TypeOK => ShownDecides
  <2>. SUFFICES ASSUME TypeOK, NEW u \in Present, NEW v \in Present, NEW w \in Present,
                       NEW p \in {"due", "wait", "scheduled"}, NEW up \in BOOLEAN,
                       MapOf(db[u])[p] = "rfc3339", MapOf(db[v])[p] # "rfc3339"
                PROVE  LET by == <<[property |-> p, ascending |-> up]>> IN
                         /\ Before(db[u], db[v], by) \/ Before(db[v], db[u], by)
                         /\ Before(db[u], db[v], by)
                              <=> Before(db[v], db[u], <<[property |-> p, ascending |-> ~up]>>)
                         /\ MapOf(db[w])[p] # "rfc3339" =>
                              (Before(db[u], db[v], by) <=> Before(db[u], db[w], by))
    BY DEF ShownDecides
  <2>1. \A x \in {u, v, w} : db[x] \in Task
    BY PresentType
  <2>2. \A x \in {u, v, w} : HasDate(db[x], p) <=> MapOf(db[x])[p] = "rfc3339"
    <3>1. \A t \in Task : /\ MapOf(t).due = Read(t.due)
                         /\ MapOf(t).wait = Read(t.wait)
                         /\ MapOf(t).scheduled = t.scheduled
      BY DEF MapOf, DtoOf, Task
    <3>. QED
      BY <2>1, <3>1 DEF HasDate
  <2>3. ASSUME NEW x \in {u, v, w}, NEW y \in {u, v, w}, NEW b \in BOOLEAN
        PROVE  Before(db[x], db[y], <<[property |-> p, ascending |-> b]>>)
                 <=> IF b THEN ~HasDate(db[x], p) /\ HasDate(db[y], p)
                          ELSE HasDate(db[x], p) /\ ~HasDate(db[y], p)
    BY <2>1, MissingDatesComeFirst
  <2>. QED
    BY <2>2, <2>3
<1>. QED
  BY <1>1, WritesAreSteps, TypeCorrect, PTL

-----------------------------------------------------------------------------
(* The calendar.                                                           *)

\* An instant lies in its day, and two on one day are less than a day apart.
LEMMA Days ==
  ASSUME NEW i \in Int
  PROVE  /\ Day(i) \in Int /\ 24 * Day(i) <= i /\ i < 24 * Day(i) + 24
         /\ Day(i + 24) = Day(i) + 1 /\ Day(i - 24) = Day(i) - 1
BY DEF Day

\* Whatever the calendar, the dates of the tasks and the time of the query, the
\* calendar tags agree with one another and with DUE and OVERDUE.
THEOREM CalendarAgrees == WriteSpec => []CalendarNests
<1>1. CalendarNests
  <2>. SUFFICES ASSUME NEW u \in Present, NEW now \in Clock
                PROVE  LET has(tag) == HasVirtualTag(db[u], tag, now) IN
                         /\ has("TODAY") => has("WEEK") /\ has("MONTH") /\ has("DUE")
                         /\ has("MONTH") => has("QUARTER")
                         /\ has("QUARTER") => has("YEAR")
                         /\ ~(has("TODAY") /\ has("TOMORROW")) /\ ~(has("TODAY") /\ has("YESTERDAY"))
                         /\ has("TOMORROW") => has("DUE") /\ ~has("OVERDUE") /\ ~has("YESTERDAY")
                         /\ has("YESTERDAY") /\ has("PENDING") => has("OVERDUE")
                         /\ has("OVERDUE") => has("DUE")
    BY DEF CalendarNests
  <2>. DEFINE due     == HasDue(db[u])
              pending == ReadStatus(db[u]) = "pending"
              today   == Day(Due) = Day(now)
              tomorrow == Day(Due) = Day(now + 24)
              yesterday == Day(Due) = Day(now - 24)
              soon    == Due <= now + 7 * 24
              past    == Due < now
  <2>1. Due \in Int /\ now \in Int
    BY TaskQueryAssumption DEF Due, DateFields
  <2>2. /\ today => soon /\ ~tomorrow /\ ~yesterday
        /\ tomorrow => soon /\ ~past /\ ~yesterday
        /\ yesterday => past
        /\ past => soon
    <3>1. /\ Day(Due) \in Int /\ 24 * Day(Due) <= Due
          /\ Due < 24 * Day(Due) + 24
          /\ Day(now) \in Int /\ 24 * Day(now) <= now /\ now < 24 * Day(now) + 24
          /\ Day(now + 24) = Day(now) + 1 /\ Day(now - 24) = Day(now) - 1
      BY <2>1, Days
    <3>. QED
      BY <2>1, <3>1
  <2>3. /\ today => Week(Due) = Week(now) /\ SameMonth(Due, now)
        /\ SameMonth(Due, now) => SameQuarter(Due, now)
    BY DEF Week, SameMonth, SameQuarter, MonthOf
  <2>4. SameQuarter(Due, now) => SameYear(Due, now)
    <3>1. MonthOf(Due) \in Int /\ MonthOf(now) \in Int
      BY TaskQueryAssumption
    <3>. QED
      BY <3>1 DEF SameQuarter, SameYear
  <2>5. /\ HasVirtualTag(db[u], "TODAY", now) <=> due /\ today
        /\ HasVirtualTag(db[u], "TOMORROW", now) <=> due /\ tomorrow
        /\ HasVirtualTag(db[u], "YESTERDAY", now) <=> due /\ yesterday
        /\ HasVirtualTag(db[u], "DUE", now) <=> due /\ soon
        /\ HasVirtualTag(db[u], "OVERDUE", now) <=> due /\ past /\ pending
        /\ HasVirtualTag(db[u], "PENDING", now) <=> pending
        /\ HasVirtualTag(db[u], "WEEK", now) <=> due /\ Week(Due) = Week(now)
        /\ HasVirtualTag(db[u], "MONTH", now) <=> due /\ SameMonth(Due, now)
        /\ HasVirtualTag(db[u], "QUARTER", now) <=> due /\ SameQuarter(Due, now)
        /\ HasVirtualTag(db[u], "YEAR", now) <=> due /\ SameYear(Due, now)
    BY DEF HasVirtualTag, SyntheticTag, FieldTag, DueTag, ReadyTag
  <2>. HIDE DEF due, pending, today, tomorrow, yesterday, soon, past
  <2>. QED
    BY <2>2, <2>3, <2>4, <2>5
<1>. QED
  BY <1>1, PTL

-----------------------------------------------------------------------------
(* Numbers.                                                                *)

\* A cut through numbers that are ordered by NumberBefore.
LEMMA Cuts ==
  ASSUME NEW a \in Int \cup {Absent}, NEW b \in Int \cup {Absent}, NEW x \in Int,
         ~NumberBefore(b, a)
  PROVE  /\ \A cmp \in {">", ">="} : NumberAccepts(a, cmp, x) => NumberAccepts(b, cmp, x)
         /\ \A cmp \in {"<", "<="} : NumberAccepts(b, cmp, x) => NumberAccepts(a, cmp, x) \/ a = Absent
<1>1. a # NaN /\ b # NaN /\ Absent \notin Int
  BY TaskQueryAssumption
<1>2. CASE a = Absent
  BY <1>1, <1>2 DEF NumberBefore, NumberAccepts
<1>3. CASE a # Absent /\ b = Absent
  BY <1>1, <1>3 DEF NumberBefore, NumberAccepts
<1>4. CASE a # Absent /\ b # Absent
  <2>1. a \in Int /\ b \in Int
    BY <1>4
  <2>2. a <= b
    BY <1>1, <1>4, <2>1 DEF NumberBefore
  <2>3. \A n \in {a, b} :
          /\ NumberAccepts(n, ">", x) <=> n > x
          /\ NumberAccepts(n, ">=", x) <=> n >= x
          /\ NumberAccepts(n, "<", x) <=> n < x
          /\ NumberAccepts(n, "<=", x) <=> n <= x
    BY <1>1, <1>4 DEF NumberAccepts
  <2>. QED
    BY <2>1, <2>2, <2>3
<1>. QED
  BY <1>2, <1>3, <1>4

\* Whatever the numbers, but for NaN, the urgency filters cut a list sorted by
\* urgency in two.
THEOREM UrgencyCuts == WriteSpec => []UrgencyCutsList
<1>1. TypeOK => UrgencyCutsList
  <2>. SUFFICES ASSUME TypeOK, NEW u \in Present, NEW v \in Present, NEW f \in Filters,
                       f.type = "Number", f.property = "urgency",
                       NaN \notin {NumberOf(db[u], "urgency"), NumberOf(db[v], "urgency")},
                       ~Before(db[v], db[u], ByUrgency)
                PROVE  IF f.cmp \in {">", ">="}
                       THEN LeafAccepts(db[u], f, 0) => LeafAccepts(db[v], f, 0)
                       ELSE LeafAccepts(db[v], f, 0) =>
                              LeafAccepts(db[u], f, 0) \/ NumberOf(db[u], "urgency") = Absent
    BY DEF UrgencyCutsList
  <2>. DEFINE a == NumberOf(db[u], "urgency")
              b == NumberOf(db[v], "urgency")
  <2>1. a \in Int \cup {Absent} /\ b \in Int \cup {Absent}
    BY PresentType, NumberOfType
  <2>2. ~NumberBefore(b, a)
    <3>1. DOMAIN ByUrgency = {1} /\ 1 .. 1 - 1 = {}
          /\ ByUrgency[1].property = "urgency" /\ ByUrgency[1].ascending = TRUE
      BY DEF ByUrgency
    <3>2. ~KeyBefore(db[v], db[u], ByUrgency[1])
      BY <3>1 DEF Before
    <3>3. ~Less(db[v], db[u], "urgency")
      BY <3>1, <3>2 DEF KeyBefore
    <3>. QED
      BY <3>3 DEF Less, DateFields
  <2>3. f.value \in Int /\ f.cmp \in {"<", "<=", ">", ">="}
    BY TaskQueryAssumption DEF FilterExpression
  <2>4. \A w : LeafAccepts(db[w], f, 0) <=> NumberAccepts(NumberOf(db[w], "urgency"), f.cmp, f.value)
    BY DEF LeafAccepts
  <2>. HIDE DEF a, b
  <2>5. /\ \A cmp \in {">", ">="} : NumberAccepts(a, cmp, f.value) => NumberAccepts(b, cmp, f.value)
        /\ \A cmp \in {"<", "<="} :
             NumberAccepts(b, cmp, f.value) => NumberAccepts(a, cmp, f.value) \/ a = Absent
    BY <2>1, <2>2, <2>3, Cuts
  <2>. QED
    BY <2>3, <2>4, <2>5 DEF a, b
<1>. QED
  BY <1>1, WritesAreSteps, TypeCorrect, PTL

-----------------------------------------------------------------------------
(* Backups and listings.                                                   *)

\* Whatever is written or synced, a backup is refused for nothing but a
\* `scheduled` that is no date; what it restores reads as it did in all but its
\* end, the statuses that maps lack and its entry date, which is gone.
THEOREM BackupIsRead == WriteSpec => []BackupRestores
<1>1. ASSUME NEW t \in Task
      PROVE  /\ MapRejected(Exported(t)) <=> Malformed(t.scheduled)
             /\ ~MapRejected(Exported(t)) =>
                  LET m == Exported(t)
                      r == MapOf(Restored(t))
                  IN  /\ r.due = m.due /\ r.wait = m.wait
                      /\ r.tags = m.tags /\ r.annotations = m.annotations /\ r.udas = m.udas
                      /\ r.scheduled = m.scheduled \/ m.scheduled = "empty"
                      /\ r.status = MapStatus(m.status)
                      /\ Restored(t).entry = "none"
  <2>. DEFINE m == Exported(t)
              n == Restored(t)
  <2>1. /\ m.status = ReadStatus(t) /\ m.due = Read(t.due) /\ m.wait = Read(t.wait)
        /\ m.scheduled = t.scheduled
        /\ m.tags = t.tags /\ m.annotations = t.annotations /\ m.udas = t.udas
    BY DEF Exported, MapOf, DtoOf, Task
  <2>2. m.status # "none" /\ m.due \in {"rfc3339", "none"} /\ m.wait \in {"rfc3339", "none"}
    BY <2>1 DEF ReadStatus, Read, Task, Status
  <2>. HIDE DEF m, n
  <2>3. MapRejected(m) <=> Malformed(t.scheduled)
    <3>1. BadTag \notin t.tags
      BY TaskOpsAssumption DEF Task
    <3>2. ~Malformed(m.due) /\ ~Malformed(m.wait)
      BY <2>2 DEF Malformed
    <3>. QED
      BY <2>1, <3>1, <3>2 DEF MapRejected
  <2>4. ASSUME ~MapRejected(m)
        PROVE  LET r == MapOf(n)
               IN  /\ r.due = m.due /\ r.wait = m.wait
                   /\ r.tags = m.tags /\ r.annotations = m.annotations /\ r.udas = m.udas
                   /\ r.scheduled = m.scheduled \/ m.scheduled = "empty"
                   /\ r.status = MapStatus(m.status)
                   /\ n.entry = "none"
    <3>. DEFINE s == SetStatus(NewTask, MapStatus(m.status))
    <3>1. s.due = "none" /\ s.wait = "none" /\ s.scheduled = "none" /\ s.entry = "none"
          /\ s.tags = {} /\ s.annotations = {} /\ s.udas = {}
          /\ s.status = MapStatus(m.status)
      BY DEF SetStatus, NewTask
    <3>2. DOMAIN s = {"status", "end", "due", "wait", "scheduled", "entry",
                      "tags", "annotations", "udas"}
      BY DEF SetStatus, NewTask
    <3>3. m.tags # Absent
      BY <2>1, TaskOpsAssumption DEF Task
    <3>4. n = [s EXCEPT
                 !.due         = IF m.due = "rfc3339" THEN "seconds" ELSE @,
                 !.wait        = IF m.wait = "rfc3339" THEN "seconds" ELSE @,
                 !.scheduled   = IF m.scheduled = "rfc3339" THEN "rfc3339" ELSE @,
                 !.tags        = @ \cup m.tags,
                 !.annotations = @ \cup m.annotations,
                 !.udas        = AppliedUdas(@, m.udas)]
      BY <2>2, <3>3 DEF n, m, Restored, ApplyMap
    <3>. HIDE DEF s
    <3>5. /\ n.due = (IF m.due = "rfc3339" THEN "seconds" ELSE "none")
          /\ n.wait = (IF m.wait = "rfc3339" THEN "seconds" ELSE "none")
          /\ n.scheduled = (IF m.scheduled = "rfc3339" THEN "rfc3339" ELSE "none")
          /\ n.tags = m.tags /\ n.annotations = m.annotations
          /\ n.udas = AppliedUdas({}, m.udas)
          /\ n.status = MapStatus(m.status) /\ n.entry = "none"
      BY <3>1, <3>2, <3>4
    <3>6. DOMAIN n = DOMAIN s
      BY <3>4
    <3>7. /\ MapOf(n).status = ReadStatus(n) /\ MapOf(n).due = Read(n.due)
          /\ MapOf(n).wait = Read(n.wait) /\ MapOf(n).scheduled = n.scheduled
          /\ MapOf(n).tags = n.tags /\ MapOf(n).annotations = n.annotations
          /\ MapOf(n).udas = n.udas
      BY <3>2, <3>4, <3>6 DEF MapOf, DtoOf
    <3>8. m.scheduled \in {"none", "empty", "rfc3339"}
      BY <2>1, <2>3, <2>4 DEF Malformed, Task, Stamp
    <3>9. MapStatus(m.status) # "none" /\ Read(n.due) = m.due /\ Read(n.wait) = m.wait
      BY <2>2, <3>5 DEF MapStatus, Read
    <3>10. AppliedUdas({}, m.udas) = m.udas
      BY DEF AppliedUdas
    <3>. QED
      BY <3>5, <3>7, <3>8, <3>9, <3>10 DEF ReadStatus
  <2>. QED
    BY <2>3, <2>4 DEF m, n
<1>2. TypeOK => BackupRestores
  BY <1>1, PresentType DEF BackupRestores
<1>. QED
  BY <1>2, WritesAreSteps, TypeCorrect, PTL

\* However long the program runs, the tasks there are can be counted.
LEMMA FinitelyMany == WriteSpec => []IsFiniteSet(Present)
<1>. DEFINE Finite == IsFiniteSet(Present)
<1>1. Init => Finite
  <2>1. Init => Present = {}
    BY DEF Init, Present
  <2>. QED
    BY <2>1, FS_EmptySet
<1>2. Finite /\ [Writes]_vars => Finite'
  <2>. SUFFICES ASSUME IsFiniteSet(Present), [Writes]_vars
                PROVE  IsFiniteSet(Present')
    OBVIOUS
  <2>1. ASSUME NEW u \in Ids, NEW t, Put(u, t)
        PROVE  IsFiniteSet(Present')
    <3>1. Present' \subseteq Present \cup {u}
      BY <2>1 DEF Put, Present
    <3>2. IsFiniteSet(Present \cup {u})
      BY FS_AddElement
    <3>. QED
      BY <3>1, <3>2, FS_Subset
  <2>2. CASE UNCHANGED vars
    BY <2>2 DEF vars, Present
  <2>3. CASE Writes
    <3>1. Present \subseteq Ids /\ Fresh \subseteq Ids
      BY DEF Present, Fresh
    <3>2. \E u \in Ids : \E t : Put(u, t)
      BY <2>3, <3>1 DEF Writes, AddTaskDto, UpdateTaskDto, WriteDto, AddTask, UpdateTask,
                        WriteOther, DeleteTask, SyncBrings
    <3>. QED
      BY <2>1, <3>2
  <2>. QED
    BY <2>2, <2>3
<1>3. Finite => IsFiniteSet(Present)
  OBVIOUS
<1>. HIDE DEF Finite
<1>. QED
  BY <1>1, <1>2, <1>3, PTL DEF WriteSpec

\* What the first keys of a list decide, all of them decide.
LEMMA LongerDecides ==
  ASSUME NEW sorts \in SortList, NEW n \in 0 .. Len(sorts), NEW a, NEW b,
         Before(a, b, SubSeq(sorts, 1, n))
  PROVE  Before(a, b, sorts)
<1>. DEFINE first == SubSeq(sorts, 1, n)
<1>1. Len(sorts) \in Nat /\ DOMAIN sorts = 1 .. Len(sorts)
  BY DEF SortList
<1>2. DOMAIN first = 1 .. n /\ \A i \in 1 .. n : first[i] = sorts[i]
  BY <1>1 DEF SortList
<1>. HIDE DEF first
<1>3. PICK i \in DOMAIN first :
        /\ KeyBefore(a, b, first[i])
        /\ \A j \in 1 .. i - 1 : Tied(a, b, first[j].property)
  BY DEF Before, first
<1>4. i \in DOMAIN sorts /\ \A j \in 1 .. i - 1 : j \in 1 .. n
  BY <1>1, <1>2, <1>3
<1>. QED
  BY <1>2, <1>3, <1>4 DEF Before

\* Backwards, the keys decide the other way.
LEMMA ReversedDecides ==
  ASSUME NEW sorts \in SortList, NEW a \in Task, NEW b \in Task,
         Before(a, b, Reversed(sorts))
  PROVE  Before(b, a, sorts)
<1>1. ASSUME NEW i \in DOMAIN sorts
      PROVE  /\ sorts[i] \in SortKeys
             /\ Reversed(sorts)[i].property = sorts[i].property
             /\ Reversed(sorts)[i].ascending = ~sorts[i].ascending
  <2>1. sorts[i] \in SortKeys
    BY SortKey
  <2>2. Reversed(sorts)[i] = [sorts[i] EXCEPT !.ascending = ~@]
    BY DEF Reversed
  <2>. QED
    BY <2>1, <2>2 DEF SortKeys
<1>2. DOMAIN Reversed(sorts) = DOMAIN sorts
  BY DEF Reversed
<1>3. PICK i \in DOMAIN sorts :
        /\ KeyBefore(a, b, Reversed(sorts)[i])
        /\ \A j \in 1 .. i - 1 : Tied(a, b, Reversed(sorts)[j].property)
  BY <1>2 DEF Before
<1>4. KeyBefore(b, a, sorts[i])
  BY <1>1, <1>3 DEF KeyBefore
<1>5. ASSUME NEW j \in 1 .. i - 1
      PROVE  Tied(b, a, sorts[j].property)
  <2>1. j \in DOMAIN sorts
    BY DEF SortList
  <2>. QED
    BY <1>1, <1>3, <2>1 DEF Tied
<1>. QED
  BY <1>4, <1>5 DEF Before

\* Whatever the tasks and the keys, a list by many keys is a list by the first
\* of them, and backwards it is a list by the same keys the other way.
THEOREM ListingsAreRefined == WriteSpec => []ListingsRefine
<1>1. TypeOK /\ IsFiniteSet(Present) => ListingsRefine
  <2>. DEFINE N == Cardinality(Present)
  <2>. SUFFICES ASSUME TypeOK, IsFiniteSet(Present), NEW sorts \in SortLists,
                       NEW s \in [1 .. N -> Present], Listing(s, sorts)
                PROVE  /\ \A n \in 0 .. Len(sorts) : Listing(s, SubSeq(sorts, 1, n))
                       /\ Listing([i \in DOMAIN s |-> s[N + 1 - i]], Reversed(sorts))
    BY DEF ListingsRefine, Reversed
  <2>1. sorts \in SortList
    BY TaskListsAssumption DEF SortList, SortKeys
  <2>2. N \in Nat
    BY FS_CardinalityType
  <2>3. \A i \in 1 .. N : s[i] \in Present /\ db[s[i]] \in Task
    BY PresentType
  <2>4. \A i, j \in 1 .. N : i < j => ~Before(db[s[j]], db[s[i]], sorts)
    BY DEF Listing
  <2>5. \A i, j \in 1 .. N : i # j => s[i] # s[j]
    BY DEF Listing
  <2>6. ASSUME NEW n \in 0 .. Len(sorts)
        PROVE  Listing(s, SubSeq(sorts, 1, n))
    BY <2>1, <2>4, LongerDecides DEF Listing
  <2>7. Listing([i \in DOMAIN s |-> s[N + 1 - i]], Reversed(sorts))
    <3>. DEFINE r == [i \in DOMAIN s |-> s[N + 1 - i]]
    <3>. HIDE DEF N
    <3>1. \A i \in 1 .. N : N + 1 - i \in 1 .. N
      BY <2>2
    <3>2. r \in [1 .. N -> Present] /\ DOMAIN r = 1 .. N
      BY <2>3, <3>1
    <3>3. \A i \in 1 .. N : r[i] = s[N + 1 - i]
      OBVIOUS
    <3>. HIDE DEF r
    <3>4. ASSUME NEW i \in 1 .. N, NEW j \in 1 .. N, i # j
          PROVE  r[i] # r[j]
      <4>1. N + 1 - i # N + 1 - j
        BY <2>2, <3>4
      <4>. QED
        BY <2>5, <3>1, <3>3, <4>1
    <3>5. ASSUME NEW i \in 1 .. N, NEW j \in 1 .. N, i < j
          PROVE  ~Before(db[r[j]], db[r[i]], Reversed(sorts))
      <4>1. N + 1 - j < N + 1 - i
        BY <2>2, <3>5
      <4>2. ~Before(db[r[i]], db[r[j]], sorts)
        BY <2>4, <3>1, <3>3, <4>1
      <4>3. db[r[i]] \in Task /\ db[r[j]] \in Task
        BY <2>3, <3>1, <3>3
      <4>. QED
        BY <2>1, <4>2, <4>3, ReversedDecides
    <3>. QED
      BY <3>2, <3>4, <3>5 DEF Listing, N, r
  <2>. QED
    BY <2>6, <2>7
<1>. QED
  BY <1>1, WritesAreSteps, TypeCorrect, FinitelyMany, PTL
=============================================================================
