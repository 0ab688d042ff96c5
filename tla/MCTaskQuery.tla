---------------------------- MODULE MCTaskQuery ----------------------------
(* TaskQuery and TaskLists for TLC: the tasks written, the expressions     *)
(* asked and the clock.                                                    *)
EXTENDS TaskLists, MCTaskStore

CONSTANTS t2

\* Projects and urgencies; a project without a text, and an urgency that is NaN.
blank == [name |-> "project", text |-> ""]
low == [name |-> "urgency", text |-> "1"]
high == [name |-> "urgency", text |-> "2"]
odd == [name |-> "urgency", text |-> "NaN"]
QueryUdas == {home, blank, low, high, odd}

MCNumber == "home" :> Absent @@ "" :> Absent @@ "1" :> 1 @@ "2" :> 2 @@ "NaN" :> NaN
MCRank == "" :> 1 @@ "1" :> 2 @@ "2" :> 3 @@ "NaN" :> 4 @@ "completed" :> 5 @@ "deleted" :> 6
            @@ "home" :> 7 @@ "pending" :> 8 @@ "recurring" :> 9 @@ "unknown" :> 10

\* Day 0 is Monday the 30th of December.  After April the clock is not read for
\* the rest of the year, which counts as December.
MCMonth(d) == CASE d < 2 -> 11 [] d < 33 -> 12 [] d < 61 -> 13 [] d < 92 -> 14
                [] d < 122 -> 15 [] d < 367 -> 23 [] OTHER -> 24

\* Tasks are due on the 1st of January, ten o'clock, and wait until the evening;
\* the clock is a week before, an hour before midnight, an hour after the due
\* date, past the next midnight, a month after and a year after.
NewYear == 58
MCInstant == "due" :> NewYear @@ "scheduled" :> NewYear @@ "wait" :> 68 @@ "entry" :> -120
MCClock == {-120, 47, 59, 75, 33 * 24, 367 * 24}
Now == 59
OneClock == {Now}

StatusIs(s) == [type |-> "Equals", property |-> "status", matches |-> {s}, negated |-> FALSE]
VirtualTag(g) == [type |-> "VirtualTag", tag |-> g, exclude |-> FALSE]
Date(p, c, d, utc) == [type |-> "Date", property |-> p, cmp |-> c, date |-> d, utc |-> utc]

Leaves ==
  {StatusIs(s) : s \in {"pending", "completed", "deleted", "recurring"}}
  \cup {VirtualTag(g) : g \in {"PENDING", "COMPLETED", "DELETED", "ANNOTATED", "PROJECT",
                               "SCHEDULED", "DUE", "OVERDUE", "READY", "TODAY"}}
  \cup {Date("due", "Before", Now, TRUE), Date("due", "From", Now, TRUE),
        Date("scheduled", "To", Now, TRUE), Date("due", "Before", Now, FALSE),
        [type |-> "Equals", property |-> "status", matches |-> {"pending"}, negated |-> TRUE],
        [type |-> "Text", property |-> "status", matches |-> {"pending", "recurring"},
         negated |-> FALSE],
        [type |-> "Any", property |-> "project"], [type |-> "None", property |-> "due"],
        [type |-> "Tag", tag |-> t1, exclude |-> TRUE],
        [type |-> "Tag", tag |-> t2, exclude |-> FALSE],
        [type |-> "Tag", tag |-> "PENDING", exclude |-> FALSE],
        Date("due", "By", NewYear, TRUE), Date("scheduled", "From", NewYear, TRUE),
        Date("wait", "After", Now, TRUE), Date("entry", "By", -120, TRUE)}
  \cup {[type |-> "Equals", property |-> "project", matches |-> {p}, negated |-> FALSE]
           : p \in {"home", ""}}
  \cup {[type |-> "Number", property |-> "urgency", cmp |-> c, value |-> 1] : c \in {">", "<="}}

\* Status tests inside each kind of group, one and two levels deep.
Groups ==
  LET or   == [type |-> "OrGroup", filters |-> <<StatusIs("pending"), StatusIs("completed")>>]
      late == [type |-> "AndGroup",
               filters |-> <<StatusIs("pending"), Date("due", "Before", Now, TRUE)>>]
      none == [type |-> "AndGroup", filters |-> << >>]
      hidden == [type |-> "Not", inner |-> Date("wait", "After", Now, TRUE)]
  IN  {or, late, none, hidden,
       [type |-> "AndGroup", filters |-> <<StatusIs("pending"), hidden>>],
       [type |-> "AndGroup", filters |-> <<or, VirtualTag("READY")>>],
       [type |-> "AndGroup", filters |-> <<VirtualTag("DUE"), late>>],
       [type |-> "XorGroup", filters |-> <<StatusIs("pending"), VirtualTag("DUE"), or>>],
       [type |-> "OrGroup", filters |-> <<VirtualTag("OVERDUE"), Date("scheduled", "To", Now, TRUE)>>],
       [type |-> "Not", inner |-> StatusIs("pending")],
       [type |-> "Not", inner |-> late]}

MCFilters == Leaves \cup Groups

MCDepth(f) ==
  LET depth[g \in MCFilters] ==
        IF Parts(g) = {} THEN 0 ELSE 1 + CHOOSE n \in {depth[p] : p \in Parts(g)} :
                                           \A p \in Parts(g) : depth[p] <= n
  IN  depth[f]

\* One tag has a virtual tag's name.
MCSpells == t1 :> "PROJECT" @@ t2 :> "HOME"

\* One key and two, in either direction.
Key(p, up) == [property |-> p, ascending |-> up]
MCSortLists ==
  {<<Key(p, up)>> : p \in {"status", "urgency"}, up \in BOOLEAN}
  \cup {<<Key(p, TRUE), Key(q, up)>> : p \in {"status", "project"}, q \in {"due", "scheduled"},
                                     up \in BOOLEAN}

OneDate == {Date("due", "Before", Now, FALSE)}

\* Tasks that read alike and are stored apart, and one without a status.
QueryDtos ==
  {Plain,
   [Plain EXCEPT !.due = "rfc3339", !.wait = "rfc3339", !.scheduled = "rfc3339",
                 !.entry = "rfc3339", !.annotations = {a1}, !.udas = {home, low},
                 !.tags = {t1, t2}]}
QueryMaps ==
  {[Plain EXCEPT !.status = "none", !.due = "rfc3339"],
   [Plain EXCEPT !.status = "completed", !.tags = {t1}, !.udas = {blank, high}]}
QueryForeign ==
  {[Plain EXCEPT !.due = "garbage", !.wait = "garbage", !.scheduled = "seconds"],
   [Plain EXCEPT !.scheduled = "seconds"],
   [Plain EXCEPT !.status = "recurring", !.end = "seconds", !.udas = {odd}]}
=============================================================================
