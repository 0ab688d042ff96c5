---------------------------- MODULE FilterProofs ----------------------------
(***************************************************************************)
(* Theorems about queries, for every set of filters, of any depth.  What a *)
(* recursive function over filters computes follows by induction on Depth: *)
(* a set of filters that has every filter whose parts it has is all there  *)
(* are, and a recursion that asks only for parts has a solution.           *)
(***************************************************************************)
EXTENDS TaskQueryProofs

\* What the parts of a filter are.
LEMMA PartsAreFilters ==
  ASSUME NEW f \in Filters
  PROVE  /\ Depth(f) \in Nat
         /\ \A p \in Parts(f) : p \in Filters /\ Depth(p) < Depth(f)
         /\ f.type \in {"AndGroup", "OrGroup", "XorGroup"} =>
              f.filters \in Seq(Filters) /\ \A i \in DOMAIN f.filters : f.filters[i] \in Parts(f)
         /\ f.type = "Not" => f.inner \in Parts(f)
<1>1. /\ FilterExpression(f) /\ Depth(f) \in Nat
      /\ \A p \in Parts(f) : Depth(p) < Depth(f)
  BY TaskQueryAssumption
<1>2. CASE f.type \in {"AndGroup", "OrGroup", "XorGroup"}
  <2>1. f.filters \in Seq(Filters)
    BY <1>1, <1>2 DEF FilterExpression
  <2>2. Parts(f) = {f.filters[i] : i \in DOMAIN f.filters}
    BY <1>2 DEF Parts
  <2>. QED
    BY <1>1, <1>2, <2>1, <2>2, Element
<1>3. CASE f.type = "Not"
  <2>1. f.inner \in Filters
    BY <1>1, <1>3 DEF FilterExpression
  <2>2. Parts(f) = {f.inner}
    BY <1>3 DEF Parts
  <2>. QED
    BY <1>1, <1>3, <2>1, <2>2
<1>4. CASE f.type \notin {"AndGroup", "OrGroup", "XorGroup", "Not"}
  <2>1. Parts(f) = {}
    BY <1>4 DEF Parts
  <2>. QED
    BY <1>1, <1>4, <2>1
<1>. QED
  BY <1>2, <1>3, <1>4

\* Induction over filters.
LEMMA FilterInduction ==
  ASSUME NEW S, \A f \in Filters : Parts(f) \subseteq S => f \in S
  PROVE  Filters \subseteq S
<1>. SUFFICES ASSUME Filters \ S # {}
              PROVE  FALSE
  OBVIOUS
<1>. DEFINE N == {Depth(f) : f \in Filters \ S}
<1>1. N \subseteq Nat /\ N # {}
  BY PartsAreFilters
<1>2. PICK n \in N : \A m \in N : n <= m
  <2>. HIDE DEF N
  <2>. QED
    BY <1>1, FirstPosition
<1>3. PICK f \in Filters \ S : n = Depth(f)
  OBVIOUS
<1>4. ASSUME NEW p \in Parts(f), p \notin S
      PROVE  FALSE
  <2>1. p \in Filters /\ Depth(p) < Depth(f) /\ Depth(p) \in Nat /\ Depth(f) \in Nat
    BY PartsAreFilters
  <2>2. Depth(p) \in N
    BY <1>4, <2>1
  <2>. QED
    BY <1>2, <1>3, <2>1, <2>2
<1>. QED
  BY <1>3, <1>4

\* A recursion D that asks for nothing but the values of a filter's parts has a
\* solution: D of a function that solves it below a depth solves it one deeper,
\* and what solves it below a depth is the same there whatever the function.
LEMMA Recursion ==
  ASSUME NEW D \in [[Filters -> BOOLEAN] -> [Filters -> BOOLEAN]],
         \A g, h \in [Filters -> BOOLEAN] : \A f \in Filters :
           (\A p \in Parts(f) : g[p] = h[p]) => D[g][f] = D[h][f]
  PROVE  \E h \in [Filters -> BOOLEAN] : h = D[h]
<1>. DEFINE V == [Filters -> BOOLEAN]
            C(n) == {g \in V : \A f \in Filters : Depth(f) < n => g[f] = D[g][f]}
<1>1. \A g \in V : D[g] \in V
  OBVIOUS
<1>2. ASSUME NEW n \in Nat, NEW g \in C(n), NEW h \in C(n),
             NEW f \in Filters, Depth(f) < n
      PROVE  g[f] = h[f]
  <2>. DEFINE S == {e \in Filters : Depth(e) < n => g[e] = h[e]}
  <2>1. ASSUME NEW e \in Filters, Parts(e) \subseteq S
        PROVE  e \in S
    <3>1. SUFFICES ASSUME Depth(e) < n PROVE g[e] = h[e]
      OBVIOUS
    <3>2. \A p \in Parts(e) : g[p] = h[p]
      <4>1. ASSUME NEW p \in Parts(e)
            PROVE  p \in S /\ Depth(p) < n
        BY <2>1, <3>1, PartsAreFilters
      <4>. QED
        BY <4>1
    <3>3. D[g][e] = D[h][e]
      BY <3>2
    <3>. QED
      BY <3>1, <3>3
  <2>2. Filters \subseteq S
    <3>. HIDE DEF S
    <3>. QED
      BY <2>1, FilterInduction
  <2>. QED
    BY <1>2, <2>2
<1>3. ASSUME NEW n \in Nat
      PROVE  C(n) # {}
  <2>. DEFINE Bad == {m \in Nat : C(m) = {}}
  <2>. SUFFICES ASSUME Bad # {}
                PROVE  FALSE
    <3>. HIDE DEF C
    <3>. QED
      OBVIOUS
  <2>1. PICK m \in Bad : \A k \in Bad : m <= k
    <3>1. Bad \subseteq Nat
      OBVIOUS
    <3>. HIDE DEF Bad
    <3>. QED
      BY <3>1, FirstPosition
  <2>2. m # 0
    <3>1. [f \in Filters |-> TRUE] \in C(0)
      BY PartsAreFilters
    <3>. QED
      BY <2>1, <3>1
  <2>3. PICK g \in C(m - 1) : TRUE
    <3>1. m - 1 \in Nat /\ ~(m <= m - 1)
      BY <2>1, <2>2
    <3>2. m - 1 \notin Bad
      BY <2>1, <3>1
    <3>. QED
      BY <3>1, <3>2
  <2>4. ASSUME NEW f \in Filters, Depth(f) < m
        PROVE  D[g][f] = D[D[g]][f]
    <3>1. ASSUME NEW p \in Parts(f)
          PROVE  D[g][p] = g[p]
      <4>1. p \in Filters /\ Depth(p) < m - 1
        BY <2>4, PartsAreFilters
      <4>. QED
        BY <2>3, <4>1
    <3>. QED
      BY <1>1, <2>3, <3>1
  <2>5. D[g] \in C(m)
    BY <1>1, <2>3, <2>4
  <2>. QED
    BY <2>1, <2>5
<1>. DEFINE h == [f \in Filters |-> (CHOOSE g \in C(Depth(f) + 1) : TRUE)[f]]
<1>4. ASSUME NEW f \in Filters, NEW g \in C(Depth(f) + 1)
      PROVE  h[f] = g[f]
  <2>. DEFINE c == CHOOSE e \in C(Depth(f) + 1) : TRUE
  <2>1. Depth(f) + 1 \in Nat /\ Depth(f) < Depth(f) + 1
    BY PartsAreFilters
  <2>2. c \in C(Depth(f) + 1)
    OBVIOUS
  <2>3. c[f] = g[f]
    <3>. HIDE DEF C, c
    <3>. QED
      BY <1>2, <2>1, <2>2
  <2>. QED
    BY <2>3
<1>5. ASSUME NEW f \in Filters
      PROVE  h[f] \in BOOLEAN
  <2>1. Depth(f) + 1 \in Nat
    BY PartsAreFilters
  <2>2. PICK g \in C(Depth(f) + 1) : TRUE
    BY <1>3, <2>1
  <2>. QED
    BY <1>4, <2>2
<1>6. h \in V
  <2>. DEFINE c(f) == (CHOOSE g \in C(Depth(f) + 1) : TRUE)[f]
  <2>1. \A f \in Filters : c(f) \in BOOLEAN
    BY <1>5
  <2>. HIDE DEF c, C
  <2>2. [f \in Filters |-> c(f)] \in V
    BY <2>1
  <2>. QED
    BY <2>2 DEF c
<1>. HIDE DEF h
<1>7. ASSUME NEW f \in Filters
      PROVE  h[f] = D[h][f]
  <2>1. Depth(f) + 1 \in Nat
    BY PartsAreFilters
  <2>2. PICK g \in C(Depth(f) + 1) : TRUE
    BY <1>3, <2>1
  <2>3. ASSUME NEW p \in Parts(f)
        PROVE  h[p] = g[p]
    <3>1. /\ p \in Filters /\ Depth(p) \in Nat /\ Depth(f) \in Nat /\ Depth(p) < Depth(f)
          /\ \A e \in Filters : Depth(e) \in Nat
      BY PartsAreFilters
    <3>2. g \in C(Depth(p) + 1)
      BY <2>2, <3>1
    <3>. QED
      BY <1>4, <3>1, <3>2
  <2>4. D[h][f] = D[g][f]
    BY <1>6, <2>2, <2>3
  <2>5. g[f] = D[g][f]
    BY <2>1, <2>2, PartsAreFilters
  <2>. QED
    BY <1>4, <2>2, <2>4, <2>5
<1>8. h = D[h]
  BY <1>1, <1>6, <1>7
<1>. QED
  BY <1>6, <1>8
-----------------------------------------------------------------------------
(* Unfolding the recursions of TaskQuery.                                  *)

\* What Accepts makes of a filter, holds being what it makes of its parts.
Evaluated(t, g, clock, holds) ==
  \/ g.type = "AndGroup" /\ \A i \in DOMAIN g.filters : holds[g.filters[i]]
  \/ g.type = "OrGroup" /\ \E i \in DOMAIN g.filters : holds[g.filters[i]]
  \/ /\ g.type = "XorGroup"
     /\ Cardinality({i \in DOMAIN g.filters : holds[g.filters[i]]}) = 1
  \/ g.type = "Not" /\ ~holds[g.inner]
  \/ LeafAccepts(t, g, clock[g])

LEMMA AcceptsByParts ==
  ASSUME NEW t, NEW clock, NEW f \in Filters
  PROVE  Accepts(t, f, clock) = Evaluated(t, f, clock, [g \in Filters |-> Accepts(t, g, clock)])
<1>. DEFINE V == [Filters -> BOOLEAN]
            D == [h \in V |-> [g \in Filters |-> Evaluated(t, g, clock, h)]]
<1>1. \E h : h = [g \in Filters |-> Evaluated(t, g, clock, h)]
  <2>1. ASSUME NEW h \in V, NEW g \in Filters
        PROVE  Evaluated(t, g, clock, h) \in BOOLEAN
    BY Zenon DEF Evaluated
  <2>2. ASSUME NEW g \in V, NEW h \in V, NEW e \in Filters,
               \A p \in Parts(e) : g[p] = h[p]
        PROVE  Evaluated(t, e, clock, g) = Evaluated(t, e, clock, h)
    <3>1. e.type \in {"AndGroup", "OrGroup", "XorGroup"} =>
            \A i \in DOMAIN e.filters : g[e.filters[i]] = h[e.filters[i]]
      BY <2>2, PartsAreFilters
    <3>2. e.type = "Not" => g[e.inner] = h[e.inner]
      BY <2>2, PartsAreFilters
    <3>3. e.type = "XorGroup" =>
            {i \in DOMAIN e.filters : g[e.filters[i]]} = {i \in DOMAIN e.filters : h[e.filters[i]]}
      BY <3>1
    <3>. QED
      BY <3>1, <3>2, <3>3 DEF Evaluated
  <2>3. D \in [V -> V]
    BY <2>1
  <2>4. \A h \in V : D[h] = [g \in Filters |-> Evaluated(t, g, clock, h)]
    OBVIOUS
  <2>5. \A g, h \in V : \A e \in Filters :
          (\A p \in Parts(e) : g[p] = h[p]) => D[g][e] = D[h][e]
    BY <2>2, <2>4
  <2>6. \E h \in V : h = D[h]
    <3>. HIDE DEF D
    <3>. QED
      BY <2>3, <2>5, Recursion
  <2>. QED
    BY <2>4, <2>6
<1>. DEFINE holds == CHOOSE h : h = [g \in Filters |-> Evaluated(t, g, clock, h)]
<1>2. holds = [g \in Filters |-> Evaluated(t, g, clock, holds)]
  BY <1>1, Zenon
<1>3. \A g \in Filters : Accepts(t, g, clock) = holds[g]
  BY Zenon DEF Accepts, Evaluated
<1>. HIDE DEF holds
<1>4. holds = [g \in Filters |-> Accepts(t, g, clock)]
  BY <1>2, <1>3, Zenon
<1>. QED
  BY <1>2, <1>3, <1>4, Zenon
\* evaluate_filter_expression, one node of the expression at a time.
LEMMA AcceptsByType ==
  ASSUME NEW t, NEW clock, NEW f \in Filters
  PROVE  /\ f.type = "AndGroup" =>
              (Accepts(t, f, clock) <=> \A i \in DOMAIN f.filters : Accepts(t, f.filters[i], clock))
         /\ f.type = "OrGroup" =>
              (Accepts(t, f, clock) <=> \E i \in DOMAIN f.filters : Accepts(t, f.filters[i], clock))
         /\ f.type = "XorGroup" =>
              (Accepts(t, f, clock) <=>
                 Cardinality({i \in DOMAIN f.filters : Accepts(t, f.filters[i], clock)}) = 1)
         /\ f.type = "Not" => (Accepts(t, f, clock) <=> ~Accepts(t, f.inner, clock))
         /\ f.type \notin {"AndGroup", "OrGroup", "XorGroup", "Not"} =>
              (Accepts(t, f, clock) <=> LeafAccepts(t, f, clock[f]))
<1>. DEFINE holds == [g \in Filters |-> Accepts(t, g, clock)]
<1>1. Accepts(t, f, clock) <=> Evaluated(t, f, clock, holds)
  BY AcceptsByParts
<1>2. \A p \in Parts(f) : holds[p] = Accepts(t, p, clock)
  BY PartsAreFilters
<1>. HIDE DEF holds
<1>3. f.type \in {"AndGroup", "OrGroup", "XorGroup"} =>
        \A i \in DOMAIN f.filters : holds[f.filters[i]] = Accepts(t, f.filters[i], clock)
  BY <1>2, PartsAreFilters
<1>4. f.type \in {"AndGroup", "OrGroup", "XorGroup", "Not"} => ~LeafAccepts(t, f, clock[f])
  BY DEF LeafAccepts
<1>5. CASE f.type = "XorGroup"
  <2>1. {i \in DOMAIN f.filters : holds[f.filters[i]]}
          = {i \in DOMAIN f.filters : Accepts(t, f.filters[i], clock)}
    BY <1>3, <1>5
  <2>. QED
    BY <1>1, <1>4, <1>5, <2>1 DEF Evaluated
<1>6. CASE f.type \in {"AndGroup", "OrGroup"}
  BY <1>1, <1>3, <1>4, <1>6 DEF Evaluated
<1>7. CASE f.type = "Not"
  BY <1>1, <1>2, <1>4, <1>7, PartsAreFilters DEF Evaluated
<1>8. CASE f.type \notin {"AndGroup", "OrGroup", "XorGroup", "Not"}
  BY <1>1, <1>8 DEF Evaluated
<1>. QED
  BY <1>5, <1>6, <1>7, <1>8

\* What PendingOnly makes of a filter, only being what it makes of its parts.
Qualifies(g, only) ==
  \/ Equals(g, "status", "pending")
  \/ g.type = "AndGroup" /\ \E i \in DOMAIN g.filters : only[g.filters[i]]

LEMMA PendingOnlyByParts ==
  ASSUME NEW f \in Filters
  PROVE  PendingOnly(f) = Qualifies(f, [g \in Filters |-> PendingOnly(g)])
<1>. DEFINE V == [Filters -> BOOLEAN]
            D == [h \in V |-> [g \in Filters |-> Qualifies(g, h)]]
<1>1. \E h : h = [g \in Filters |-> Qualifies(g, h)]
  <2>1. ASSUME NEW h \in V, NEW g \in Filters
        PROVE  Qualifies(g, h) \in BOOLEAN
    BY Zenon DEF Qualifies
  <2>2. ASSUME NEW g \in V, NEW h \in V, NEW e \in Filters,
               \A p \in Parts(e) : g[p] = h[p]
        PROVE  Qualifies(e, g) = Qualifies(e, h)
    <3>1. e.type \in {"AndGroup", "OrGroup"} =>
            \A i \in DOMAIN e.filters : g[e.filters[i]] = h[e.filters[i]]
      BY <2>2, PartsAreFilters
    <3>. QED
      BY <3>1 DEF Qualifies
  <2>3. D \in [V -> V]
    BY <2>1
  <2>4. \A h \in V : D[h] = [g \in Filters |-> Qualifies(g, h)]
    OBVIOUS
  <2>5. \A g, h \in V : \A e \in Filters :
          (\A p \in Parts(e) : g[p] = h[p]) => D[g][e] = D[h][e]
    BY <2>2, <2>4
  <2>6. \E h \in V : h = D[h]
    <3>. HIDE DEF D
    <3>. QED
      BY <2>3, <2>5, Recursion
  <2>. QED
    BY <2>4, <2>6
<1>. DEFINE only == CHOOSE h : h = [g \in Filters |-> Qualifies(g, h)]
<1>2. only = [g \in Filters |-> Qualifies(g, only)]
  BY <1>1, Zenon
<1>3. \A g \in Filters : PendingOnly(g) = only[g]
  BY Zenon DEF PendingOnly, Qualifies
<1>. HIDE DEF only
<1>4. only = [g \in Filters |-> PendingOnly(g)]
  BY <1>2, <1>3, Zenon
<1>. QED
  BY <1>2, <1>3, <1>4, Zenon

\* implies_pending_only, one node of the expression at a time.
LEMMA PendingOnlyByType ==
  ASSUME NEW f \in Filters
  PROVE  PendingOnly(f) <=>
           \/ Equals(f, "status", "pending")
           \/ f.type = "AndGroup" /\ \E i \in DOMAIN f.filters : PendingOnly(f.filters[i])
<1>. DEFINE only == [g \in Filters |-> PendingOnly(g)]
<1>1. PendingOnly(f) <=> Qualifies(f, only)
  BY PendingOnlyByParts
<1>2. f.type = "AndGroup" =>
        \A i \in DOMAIN f.filters : only[f.filters[i]] = PendingOnly(f.filters[i])
  BY PartsAreFilters
<1>. HIDE DEF only
<1>. QED
  BY <1>1, <1>2 DEF Qualifies

\* What Rising makes of a filter, rises being what it makes of its parts.
Rises(g, rises) ==
  /\ g.type \notin {"XorGroup", "Not"}
  /\ g.type \in {"AndGroup", "OrGroup"} => \A i \in DOMAIN g.filters : rises[g.filters[i]]
  /\ g.type = "VirtualTag" => g.tag \in Growing /\ ~g.exclude

LEMMA RisingByParts ==
  ASSUME NEW f \in Filters
  PROVE  Rising(f) = Rises(f, [g \in Filters |-> Rising(g)])
<1>. DEFINE V == [Filters -> BOOLEAN]
            D == [h \in V |-> [g \in Filters |-> Rises(g, h)]]
<1>1. \E h : h = [g \in Filters |-> Rises(g, h)]
  <2>1. ASSUME NEW h \in V, NEW g \in Filters
        PROVE  Rises(g, h) \in BOOLEAN
    BY Zenon DEF Rises
  <2>2. ASSUME NEW g \in V, NEW h \in V, NEW e \in Filters,
               \A p \in Parts(e) : g[p] = h[p]
        PROVE  Rises(e, g) = Rises(e, h)
    <3>1. e.type \in {"AndGroup", "OrGroup"} =>
            \A i \in DOMAIN e.filters : g[e.filters[i]] = h[e.filters[i]]
      BY <2>2, PartsAreFilters
    <3>. QED
      BY <3>1 DEF Rises
  <2>3. D \in [V -> V]
    BY <2>1
  <2>4. \A h \in V : D[h] = [g \in Filters |-> Rises(g, h)]
    OBVIOUS
  <2>5. \A g, h \in V : \A e \in Filters :
          (\A p \in Parts(e) : g[p] = h[p]) => D[g][e] = D[h][e]
    BY <2>2, <2>4
  <2>6. \E h \in V : h = D[h]
    <3>. HIDE DEF D
    <3>. QED
      BY <2>3, <2>5, Recursion
  <2>. QED
    BY <2>4, <2>6
<1>. DEFINE rises == CHOOSE h : h = [g \in Filters |-> Rises(g, h)]
<1>2. rises = [g \in Filters |-> Rises(g, rises)]
  BY <1>1, Zenon
<1>3. \A g \in Filters : Rising(g) = rises[g]
  BY Zenon DEF Rising, Rises
<1>. HIDE DEF rises
<1>4. rises = [g \in Filters |-> Rising(g)]
  BY <1>2, <1>3, Zenon
<1>. QED
  BY <1>2, <1>3, <1>4, Zenon

\* Rising, one node of the expression at a time.
LEMMA RisingByType ==
  ASSUME NEW f \in Filters
  PROVE  Rising(f) <=>
           /\ f.type \notin {"XorGroup", "Not"}
           /\ f.type \in {"AndGroup", "OrGroup"} =>
                \A i \in DOMAIN f.filters : Rising(f.filters[i])
           /\ f.type = "VirtualTag" => f.tag \in Growing /\ ~f.exclude
<1>. DEFINE rises == [g \in Filters |-> Rising(g)]
<1>1. Rising(f) <=> Rises(f, rises)
  BY RisingByParts
<1>2. f.type \in {"AndGroup", "OrGroup"} =>
        \A i \in DOMAIN f.filters : rises[f.filters[i]] = Rising(f.filters[i])
  BY PartsAreFilters
<1>. HIDE DEF rises
<1>. QED
  BY <1>1, <1>2 DEF Rises
-----------------------------------------------------------------------------
(* The pending-only fast path.                                             *)

\* What implies_pending_only says of a filter is so, of any task at any time.
LEMMA PendingOnlyIsRight ==
  ASSUME NEW t, NEW clock
  PROVE  \A f \in Filters :
           PendingOnly(f) /\ Accepts(t, f, clock) => ReadStatus(t) = "pending"
<1>. DEFINE S == {f \in Filters :
                   PendingOnly(f) /\ Accepts(t, f, clock) => ReadStatus(t) = "pending"}
<1>1. ASSUME NEW f \in Filters, Parts(f) \subseteq S
      PROVE  f \in S
  <2>. SUFFICES ASSUME PendingOnly(f), Accepts(t, f, clock)
                PROVE  ReadStatus(t) = "pending"
    OBVIOUS
  <2>1. CASE Equals(f, "status", "pending")
    <3>1. /\ f.type = "Equals" /\ ~f.negated /\ f.property = "status"
          /\ f.matches = {"pending"}
      BY <2>1 DEF Equals
    <3>2. LeafAccepts(t, f, clock[f])
      BY <3>1, AcceptsByType
    <3>3. TextAccepts(t, f)
      BY <3>1, <3>2 DEF LeafAccepts
    <3>. QED
      BY <3>1, <3>3 DEF TextAccepts, StringProperty
  <2>2. CASE f.type = "AndGroup" /\ \E i \in DOMAIN f.filters : PendingOnly(f.filters[i])
    <3>1. PICK i \in DOMAIN f.filters : PendingOnly(f.filters[i])
      BY <2>2
    <3>2. f.filters[i] \in S
      BY <1>1, <2>2, PartsAreFilters
    <3>3. Accepts(t, f.filters[i], clock)
      BY <2>2, AcceptsByType
    <3>. QED
      BY <3>1, <3>2, <3>3
  <2>. QED
    BY <2>1, <2>2, PendingOnlyByType
<1>2. Filters \subseteq S
  <2>. HIDE DEF S
  <2>. QED
    BY <1>1, FilterInduction
<1>. QED
  BY <1>2

\* However deep the filter, the pending-only fast path loses no match but a task
\* that is stored without a status.
THEOREM AnswerIsComplete == WriteSpec => []AnswerComplete
<1>1. AnswerComplete
  <2>. SUFFICES ASSUME NEW f \in Filters, NEW now \in Clock, NEW u \in Present \ Answer(f, now),
                       Accepts(db[u], f, At(now))
                PROVE  db[u].status = "none" /\ PendingOnly(f)
    BY DEF AnswerComplete
  <2>1. PendingOnly(f) /\ db[u].status # "pending"
    BY DEF Answer, AnswerBy, BaseTasks, PendingTasks
  <2>2. ReadStatus(db[u]) = "pending"
    BY <2>1, PendingOnlyIsRight
  <2>. QED
    BY <2>1, <2>2 DEF ReadStatus
<1>. QED
  BY <1>1, PTL

-----------------------------------------------------------------------------
(* Filters against what is shown.                                          *)

\* What two tasks that are seen alike have in common.
LEMMA SeenAlike ==
  ASSUME NEW t \in Task, NEW v \in Task, SeenOf(t) = SeenOf(v)
  PROVE  /\ ReadStatus(t) = ReadStatus(v)
         /\ \A p \in {"due", "wait", "entry"} : Read(t[p]) = Read(v[p])
         /\ t.scheduled = v.scheduled /\ t.tags = v.tags
         /\ t.annotations = v.annotations /\ t.udas = v.udas
<1>1. ASSUME NEW w \in Task
      PROVE  /\ SeenOf(w).status = ReadStatus(w)
             /\ SeenOf(w).due = Read(w.due) /\ SeenOf(w).wait = Read(w.wait)
             /\ SeenOf(w).entry = Read(w.entry) /\ SeenOf(w).scheduled = w.scheduled
             /\ SeenOf(w).tags = w.tags /\ SeenOf(w).annotations = w.annotations
             /\ SeenOf(w).udas = w.udas
  BY DEF SeenOf, MapOf, DtoOf, Task
<1>. QED
  BY <1>1

\* Every leaf reads of a task what a caller sees of it.
LEMMA LeavesReadAlike ==
  ASSUME NEW t \in Task, NEW v \in Task, SeenOf(t) = SeenOf(v),
         NEW f \in Filters, NEW now
  PROVE  LeafAccepts(t, f, now) <=> LeafAccepts(v, f, now)
<1>1. /\ ReadStatus(t) = ReadStatus(v)
      /\ \A p \in {"due", "wait", "entry"} : Read(t[p]) = Read(v[p])
      /\ t.scheduled = v.scheduled /\ t.tags = v.tags
      /\ t.annotations = v.annotations /\ t.udas = v.udas
  BY SeenAlike
<1>2. ASSUME NEW p
      PROVE  TextOf(t, p) = TextOf(v, p)
  <2>1. t.udas = v.udas
    BY <1>1
  <2>. QED
    BY <2>1 DEF TextOf
<1>3. /\ StringProperty(t, f.property) = StringProperty(v, f.property)
      /\ NumberOf(t, f.property) = NumberOf(v, f.property)
  <2>1. NumberOf(t, f.property) = NumberOf(v, f.property)
    BY <1>2 DEF NumberOf
  <2>2. StringProperty(t, f.property) = StringProperty(v, f.property)
    BY <1>1, <1>2 DEF StringProperty
  <2>. QED
    BY <2>1, <2>2
<1>4. HasDate(t, f.property) <=> HasDate(v, f.property)
  BY <1>1 DEF HasDate
<1>5. TagsOf(t) = TagsOf(v)
  BY <1>1, Zenon DEF TagsOf, SyntheticTag
<1>6. HasVirtualTag(t, f.tag, now) <=> HasVirtualTag(v, f.tag, now)
  <2>1. SyntheticTag(t, f.tag) <=> SyntheticTag(v, f.tag)
    BY <1>1, Zenon DEF SyntheticTag
  <2>2. FieldTag(t, f.tag) <=> FieldTag(v, f.tag)
    BY <1>1, Zenon DEF FieldTag
  <2>3. (HasDue(t) <=> HasDue(v)) /\ (HasWait(t) <=> HasWait(v))
    BY <1>1 DEF HasDue, HasWait
  <2>4. DueTag(t, f.tag, now) <=> DueTag(v, f.tag, now)
    BY <1>1, <2>3, Zenon DEF DueTag
  <2>5. ReadyTag(t, f.tag, now) <=> ReadyTag(v, f.tag, now)
    BY <1>1, <2>3, Zenon DEF ReadyTag
  <2>. QED
    BY <2>1, <2>2, <2>4, <2>5, Zenon DEF HasVirtualTag
<1>7. TextAccepts(t, f) <=> TextAccepts(v, f)
  BY <1>3, Zenon DEF TextAccepts
<1>8. DateAccepts(t, f) <=> DateAccepts(v, f)
  BY <1>4, Zenon DEF DateAccepts
<1>9. (HasVirtualTag(t, f.tag, now) # f.exclude) <=> (HasVirtualTag(v, f.tag, now) # f.exclude)
  <2>1. HasVirtualTag(t, f.tag, now) \in BOOLEAN /\ HasVirtualTag(v, f.tag, now) \in BOOLEAN
    BY DEF HasVirtualTag
  <2>. QED
    BY <1>6, <2>1
<1>10. (f.tag \in TagsOf(t)) # f.exclude <=> (f.tag \in TagsOf(v)) # f.exclude
  BY <1>5
<1>11. NumberAccepts(NumberOf(t, f.property), f.cmp, f.value)
         <=> NumberAccepts(NumberOf(v, f.property), f.cmp, f.value)
  BY <1>3
<1>12. StringProperty(t, f.property) \in {Absent, ""} <=> StringProperty(v, f.property) \in {Absent, ""}
  BY <1>3
<1>. QED
  BY <1>7, <1>8, <1>9, <1>10, <1>11, <1>12, Zenon DEF LeafAccepts

\* What every leaf reads alike, every filter does.
LEMMA FiltersReadAlike ==
  ASSUME NEW t \in Task, NEW v \in Task, SeenOf(t) = SeenOf(v), NEW clock
  PROVE  \A f \in Filters : Accepts(t, f, clock) <=> Accepts(v, f, clock)
<1>. DEFINE S == {f \in Filters : Accepts(t, f, clock) <=> Accepts(v, f, clock)}
<1>1. ASSUME NEW f \in Filters, Parts(f) \subseteq S
      PROVE  f \in S
  <2>1. f.type \in {"AndGroup", "OrGroup", "XorGroup"} =>
          \A i \in DOMAIN f.filters :
            Accepts(t, f.filters[i], clock) <=> Accepts(v, f.filters[i], clock)
    BY <1>1, PartsAreFilters
  <2>2. CASE f.type \in {"AndGroup", "OrGroup"}
    BY <2>1, <2>2, AcceptsByType
  <2>3. CASE f.type = "XorGroup"
    <3>1. {i \in DOMAIN f.filters : Accepts(t, f.filters[i], clock)}
            = {i \in DOMAIN f.filters : Accepts(v, f.filters[i], clock)}
      BY <2>1, <2>3
    <3>. QED
      BY <2>3, <3>1, AcceptsByType, ZenonT(60)
  <2>4. CASE f.type = "Not"
    <3>1. Accepts(t, f.inner, clock) <=> Accepts(v, f.inner, clock)
      BY <1>1, <2>4, PartsAreFilters
    <3>. QED
      BY <2>4, <3>1, AcceptsByType
  <2>5. CASE f.type \notin {"AndGroup", "OrGroup", "XorGroup", "Not"}
    BY <2>5, AcceptsByType, LeavesReadAlike
  <2>. QED
    BY <2>2, <2>3, <2>4, <2>5
<1>2. Filters \subseteq S
  <2>. HIDE DEF S
  <2>. QED
    BY <1>1, FilterInduction
<1>. QED
  BY <1>2

\* However deep the filter, two tasks that a caller sees alike, and that both
\* have a status stored or neither, are both in the answer or neither is; an
\* entry date that was made up is told from one that is stored.
THEOREM AlikeAreAnsweredAlike == WriteSpec => []AlikeAnsweredAlike
<1>1. TypeOK => AlikeAnsweredAlike
  <2>. SUFFICES ASSUME TypeOK, NEW u \in Present, NEW v \in Present,
                       SeenOf(db[u]) = SeenOf(db[v]),
                       db[u].status = "none" <=> db[v].status = "none",
                       NEW f \in Filters, NEW now \in Clock
                PROVE  u \in Answer(f, now) <=> v \in Answer(f, now)
    BY DEF AlikeAnsweredAlike
  <2>1. db[u] \in Task /\ db[v] \in Task
    BY PresentType
  <2>2. Accepts(db[u], f, At(now)) <=> Accepts(db[v], f, At(now))
    BY <2>1, FiltersReadAlike
  <2>3. ReadStatus(db[u]) = ReadStatus(db[v])
    BY <2>1, SeenAlike
  <2>4. u \in BaseTasks(f) <=> v \in BaseTasks(f)
    BY <2>3 DEF BaseTasks, PendingTasks, ReadStatus
  <2>. QED
    BY <2>2, <2>4 DEF Answer, AnswerBy
<1>. QED
  BY <1>1, WritesAreSteps, TypeCorrect, PTL
-----------------------------------------------------------------------------
(* Leaves.                                                                 *)

\* A leaf is decided on its own.
LEMMA LeafAccepted ==
  ASSUME NEW t, NEW now, NEW f \in Filters,
         f.type \notin {"AndGroup", "OrGroup", "XorGroup", "Not"}
  PROVE  Accepts(t, f, At(now)) <=> LeafAccepts(t, f, now)
<1>1. At(now)[f] = now
  BY DEF At
<1>2. Accepts(t, f, At(now)) <=> LeafAccepts(t, f, At(now)[f])
  BY AcceptsByType
<1>. QED
  BY <1>1, <1>2, Zenon

\* A filter for one status asks for the status that is read.
LEMMA StatusAccepted ==
  ASSUME NEW t \in Task, NEW now, NEW f \in Filters, NEW c, Equals(f, "status", c)
  PROVE  Accepts(t, f, At(now)) <=> ReadStatus(t) = c
<1>1. f.type = "Equals" /\ ~f.negated /\ f.property = "status" /\ f.matches = {c}
  BY DEF Equals
<1>2. StringProperty(t, f.property) = ReadStatus(t)
  BY <1>1 DEF StringProperty
<1>3. ReadStatus(t) # Absent
  <2>1. ReadStatus(t) \in Status
    BY DEF ReadStatus, Task, Status
  <2>. QED
    BY <2>1, TaskQueryAssumption
<1>4. LeafAccepts(t, f, now) <=> TextAccepts(t, f)
  BY <1>1 DEF LeafAccepts
<1>5. TextAccepts(t, f) <=> ReadStatus(t) = c
  BY <1>1, <1>2, <1>3 DEF TextAccepts
<1>. QED
  BY <1>1, <1>4, <1>5, LeafAccepted

\* A date filter of a UTC time compares the date, where there is one.
LEMMA DateAccepted ==
  ASSUME NEW t, NEW now, NEW f \in Filters, f.type = "Date"
  PROVE  Accepts(t, f, At(now)) <=> DateAccepts(t, f)
<1>1. LeafAccepts(t, f, now) <=> DateAccepts(t, f)
  BY DEF LeafAccepts
<1>. QED
  BY <1>1, LeafAccepted

\* A tag filter asks for a tag that get_tags yields.
LEMMA TagAccepted ==
  ASSUME NEW t, NEW now, NEW f \in Filters, f.type = "Tag", ~f.exclude
  PROVE  Accepts(t, f, At(now)) <=> f.tag \in TagsOf(t)
<1>1. f.exclude = FALSE
  <2>1. FilterExpression(f)
    BY TaskQueryAssumption
  <2>. QED
    BY <2>1 DEF FilterExpression
<1>2. LeafAccepts(t, f, now) <=> f.tag \in TagsOf(t)
  <2>1. LeafAccepts(t, f, now) <=> (f.tag \in TagsOf(t)) # FALSE
    BY <1>1, Zenon DEF LeafAccepts
  <2>2. (f.tag \in TagsOf(t)) \in BOOLEAN
    OBVIOUS
  <2>. QED
    BY <2>1, <2>2, Zenon
<1>. QED
  BY <1>2, LeafAccepted

LEMMA VirtualTagAccepted ==
  ASSUME NEW t, NEW now, NEW f \in Filters, f.type = "VirtualTag", ~f.exclude
  PROVE  Accepts(t, f, At(now)) <=> HasVirtualTag(t, f.tag, now)
<1>1. f.exclude = FALSE
  <2>1. FilterExpression(f)
    BY TaskQueryAssumption
  <2>. QED
    BY <2>1 DEF FilterExpression
<1>2. HasVirtualTag(t, f.tag, now) \in BOOLEAN
  BY DEF HasVirtualTag
<1>3. LeafAccepts(t, f, now) <=> HasVirtualTag(t, f.tag, now)
  BY <1>1, <1>2 DEF LeafAccepts
<1>. QED
  BY <1>3, LeafAccepted

\* A filter that a conjunction of two makes of its parts.
LEMMA PairAccepted ==
  ASSUME NEW t, NEW now, NEW g \in Filters, g.type = "AndGroup", Len(g.filters) = 2
  PROVE  /\ g.filters[1] \in Filters /\ g.filters[2] \in Filters
         /\ Accepts(t, g, At(now))
              <=> Accepts(t, g.filters[1], At(now)) /\ Accepts(t, g.filters[2], At(now))
<1>1. g.filters \in Seq(Filters)
  BY PartsAreFilters
<1>2. DOMAIN g.filters = 1 .. 2
  BY <1>1
<1>3. g.filters[1] \in Filters /\ g.filters[2] \in Filters
  BY <1>1, <1>2
<1>4. Accepts(t, g, At(now)) <=> \A i \in 1 .. 2 : Accepts(t, g.filters[i], At(now))
  BY <1>2, AcceptsByType
<1>. QED
  BY <1>3, <1>4

LEMMA LaterOrNot ==
  ASSUME NEW i \in Int, NEW j \in Int
  PROVE  i > j <=> ~(i <= j)
OBVIOUS

\* Whatever the filters, a virtual tag and the expression that it abbreviates
\* accept the same tasks at the same time, but for PROJECT and a project "".
THEOREM VirtualTagsMatch == WriteSpec => []VirtualTagsAgree
<1>1. TypeOK => VirtualTagsAgree
  <2>. SUFFICES ASSUME TypeOK, NEW u \in Present, NEW f \in Filters, NEW now \in Clock,
                       f.type = "VirtualTag", ~f.exclude,
                       NEW g \in Filters, Abbreviates(f.tag, g, now),
                       ~(f.tag = "PROJECT" /\ TextOf(db[u], "project") = "")
                PROVE  Accepts(db[u], f, At(now)) <=> Accepts(db[u], g, At(now))
    BY DEF VirtualTagsAgree
  <2>. DEFINE t == db[u]
              has(tag) == HasVirtualTag(t, tag, now)
  <2>1. t \in Task /\ now \in Int /\ Due \in Int /\ Instant["wait"] \in Int
    BY PresentType, TaskQueryAssumption DEF Due, DateFields
  <2>2. Accepts(t, f, At(now)) <=> has(f.tag)
    BY VirtualTagAccepted
  <2>3. /\ has("PENDING") <=> ReadStatus(t) = "pending"
        /\ has("COMPLETED") <=> ReadStatus(t) = "completed"
        /\ has("DELETED") <=> ReadStatus(t) = "deleted"
        /\ has("PROJECT") <=> \E a \in t.udas : a.name = "project"
        /\ has("OVERDUE") <=> HasDue(t) /\ Due < now /\ ReadStatus(t) = "pending"
        /\ has("READY") <=> ReadStatus(t) = "pending" /\ (HasWait(t) => Instant["wait"] <= now)
    BY DEF HasVirtualTag, SyntheticTag, FieldTag, DueTag, ReadyTag
  <2>. HIDE DEF t, has
  <2>4. CASE \/ f.tag = "PENDING" /\ Equals(g, "status", "pending")
             \/ f.tag = "COMPLETED" /\ Equals(g, "status", "completed")
             \/ f.tag = "DELETED" /\ Equals(g, "status", "deleted")
    <3>1. CASE f.tag = "PENDING" /\ Equals(g, "status", "pending")
      BY <2>1, <2>2, <2>3, <3>1, StatusAccepted DEF t
    <3>2. CASE f.tag = "COMPLETED" /\ Equals(g, "status", "completed")
      BY <2>1, <2>2, <2>3, <3>2, StatusAccepted DEF t
    <3>3. CASE f.tag = "DELETED" /\ Equals(g, "status", "deleted")
      BY <2>1, <2>2, <2>3, <3>3, StatusAccepted DEF t
    <3>. QED
      BY <2>4, <3>1, <3>2, <3>3
  <2>5. CASE /\ f.tag \in {"PENDING", "COMPLETED", "DELETED"}
             /\ g.type = "Tag" /\ g.tag = f.tag /\ ~g.exclude
    <3>1. Accepts(t, g, At(now)) <=> f.tag \in TagsOf(t)
      BY <2>5, TagAccepted
    <3>2. f.tag \notin t.tags
      BY <2>1, <2>5, TaskQueryAssumption DEF Task
    <3>3. f.tag \in TagsOf(t) <=> SyntheticTag(t, f.tag)
      BY <2>5, <3>2 DEF TagsOf
    <3>4. has(f.tag) <=> SyntheticTag(t, f.tag)
      BY <2>3, <2>5 DEF SyntheticTag
    <3>. QED
      BY <2>2, <3>1, <3>3, <3>4 DEF t
  <2>6. CASE f.tag = "PROJECT" /\ g.type = "Any" /\ g.property = "project"
    <3>1. Accepts(t, g, At(now)) <=> LeafAccepts(t, g, now)
      BY <2>6, LeafAccepted
    <3>2. LeafAccepts(t, g, now) <=> TextOf(t, "project") \notin {Absent, ""}
      BY <2>6 DEF LeafAccepts, StringProperty
    <3>3. TextOf(t, "project") # ""
      BY <2>6 DEF t
    <3>4. TextOf(t, "project") # Absent <=> \E a \in t.udas : a.name = "project"
      <4>1. /\ (\E a \in t.udas : a.name = "project") => TextOf(t, "project") \in Texts
            /\ (\A a \in t.udas : a.name # "project") => TextOf(t, "project") = Absent
        BY <2>1, TextOfType
      <4>2. Absent \notin Texts
        BY TaskQueryAssumption
      <4>. QED
        BY <4>1, <4>2
    <3>. QED
      BY <2>2, <2>3, <2>6, <3>1, <3>2, <3>3, <3>4 DEF t
  <2>7. CASE /\ f.tag = "OVERDUE" /\ g.type = "AndGroup" /\ Len(g.filters) = 2
             /\ Equals(g.filters[1], "status", "pending")
             /\ DateIs(g.filters[2], "due", "Before", now)
    <3>. DEFINE c == g.filters[1]
                d == g.filters[2]
    <3>1. /\ c \in Filters /\ d \in Filters
          /\ Accepts(t, g, At(now)) <=> Accepts(t, c, At(now)) /\ Accepts(t, d, At(now))
      BY <2>7, PairAccepted
    <3>2. Accepts(t, c, At(now)) <=> ReadStatus(t) = "pending"
      BY <2>1, <2>7, <3>1, StatusAccepted
    <3>3. Accepts(t, d, At(now)) <=> DateAccepts(t, d)
      BY <2>7, <3>1, DateAccepted DEF DateIs
    <3>4. DateAccepts(t, d) <=> HasDue(t) /\ Due < now
      BY <2>7 DEF DateAccepts, DateIs, HasDate, HasDue, Compares, Due
    <3>. QED
      BY <2>2, <2>3, <2>7, <3>1, <3>2, <3>3, <3>4 DEF t
  <2>8. CASE /\ f.tag = "READY" /\ g.type = "AndGroup" /\ Len(g.filters) = 2
             /\ Equals(g.filters[1], "status", "pending")
             /\ g.filters[2].type = "Not" /\ DateIs(g.filters[2].inner, "wait", "After", now)
    <3>. DEFINE c == g.filters[1]
                n == g.filters[2]
                d == n.inner
    <3>1. /\ c \in Filters /\ n \in Filters
          /\ Accepts(t, g, At(now)) <=> Accepts(t, c, At(now)) /\ Accepts(t, n, At(now))
      BY <2>8, PairAccepted
    <3>2. Accepts(t, c, At(now)) <=> ReadStatus(t) = "pending"
      BY <2>1, <2>8, <3>1, StatusAccepted
    <3>3. d \in Filters
      BY <2>8, <3>1, PartsAreFilters
    <3>4. Accepts(t, n, At(now)) <=> ~Accepts(t, d, At(now))
      <4>1. n.type = "Not"
        BY <2>8
      <4>. HIDE DEF n
      <4>. QED
        BY <3>1, <4>1, AcceptsByType DEF d
    <3>5. Accepts(t, d, At(now)) <=> DateAccepts(t, d)
      BY <2>8, <3>3, DateAccepted DEF DateIs
    <3>6. DateAccepts(t, d) <=> HasWait(t) /\ Instant["wait"] > now
      BY <2>8 DEF DateAccepts, DateIs, HasDate, HasWait, Compares
    <3>7. Instant["wait"] > now <=> ~(Instant["wait"] <= now)
      BY <2>1, LaterOrNot
    <3>. HIDE DEF c, n, d
    <3>. QED
      BY <2>2, <2>3, <2>8, <3>1, <3>2, <3>4, <3>5, <3>6, <3>7 DEF t
  <2>. QED
    BY <2>4, <2>5, <2>6, <2>7, <2>8 DEF Abbreviates
<1>. QED
  BY <1>1, WritesAreSteps, TypeCorrect, PTL
-----------------------------------------------------------------------------
(* Queries that time overtakes.                                            *)

\* The leaves of a rising filter that hold at one time hold later.
LEMMA LeavesRise ==
  ASSUME NEW t, NEW f \in Filters, NEW now \in Int, NEW later \in Int, now <= later,
         f.type \notin {"AndGroup", "OrGroup", "XorGroup", "Not"}, Rising(f),
         LeafAccepts(t, f, now)
  PROVE  LeafAccepts(t, f, later)
<1>1. CASE f.type # "VirtualTag"
  BY <1>1, Zenon DEF LeafAccepts
<1>2. CASE f.type = "VirtualTag"
  <2>1. f.tag \in {"DUE", "OVERDUE", "READY"} /\ ~f.exclude
    BY <1>2, RisingByType DEF Growing
  <2>2. f.exclude = FALSE
    <3>1. FilterExpression(f)
      BY TaskQueryAssumption
    <3>. QED
      BY <1>2, <2>1, <3>1 DEF FilterExpression
  <2>3. HasVirtualTag(t, f.tag, now) \in BOOLEAN /\ HasVirtualTag(t, f.tag, later) \in BOOLEAN
    BY DEF HasVirtualTag
  <2>4. HasVirtualTag(t, f.tag, now)
    BY <1>2, <2>2, <2>3 DEF LeafAccepts
  <2>5. Due \in Int /\ Instant["wait"] \in Int
    BY TaskQueryAssumption DEF Due, DateFields
  <2>6. HasVirtualTag(t, f.tag, later)
    BY <2>1, <2>4, <2>5 DEF HasVirtualTag, SyntheticTag, FieldTag, DueTag, ReadyTag
  <2>. QED
    BY <1>2, <2>2, <2>3, <2>6 DEF LeafAccepts
<1>. QED
  BY <1>1, <1>2

\* So do rising filters, where each leaf is asked no earlier than before.
LEMMA FiltersRise ==
  ASSUME NEW t, NEW early, NEW late,
         \A g \in Filters : early[g] \in Int /\ late[g] \in Int /\ early[g] <= late[g]
  PROVE  \A f \in Filters : Rising(f) /\ Accepts(t, f, early) => Accepts(t, f, late)
<1>. DEFINE S == {f \in Filters : Rising(f) /\ Accepts(t, f, early) => Accepts(t, f, late)}
<1>1. ASSUME NEW f \in Filters, Parts(f) \subseteq S
      PROVE  f \in S
  <2>. SUFFICES ASSUME Rising(f), Accepts(t, f, early)
                PROVE  Accepts(t, f, late)
    OBVIOUS
  <2>1. CASE f.type \in {"AndGroup", "OrGroup"}
    <3>1. \A i \in DOMAIN f.filters : Rising(f.filters[i]) /\ f.filters[i] \in S
      BY <1>1, <2>1, RisingByType, PartsAreFilters
    <3>2. \A i \in DOMAIN f.filters :
            Accepts(t, f.filters[i], early) => Accepts(t, f.filters[i], late)
      BY <3>1
    <3>3. CASE f.type = "AndGroup"
      <4>1. \A i \in DOMAIN f.filters : Accepts(t, f.filters[i], early)
        BY <3>3, AcceptsByType
      <4>2. \A i \in DOMAIN f.filters : Accepts(t, f.filters[i], late)
        BY <3>2, <4>1
      <4>. QED
        BY <3>3, <4>2, AcceptsByType
    <3>4. CASE f.type = "OrGroup"
      <4>1. PICK i \in DOMAIN f.filters : Accepts(t, f.filters[i], early)
        BY <3>4, AcceptsByType
      <4>2. Accepts(t, f.filters[i], late)
        BY <3>2, <4>1
      <4>. QED
        BY <3>4, <4>2, AcceptsByType
    <3>. QED
      BY <2>1, <3>3, <3>4
  <2>2. CASE f.type \in {"XorGroup", "Not"}
    BY <2>2, RisingByType
  <2>3. CASE f.type \notin {"AndGroup", "OrGroup", "XorGroup", "Not"}
    BY <2>3, AcceptsByType, LeavesRise, ZenonT(60)
  <2>. QED
    BY <2>1, <2>2, <2>3
<1>2. Filters \subseteq S
  <2>. HIDE DEF S
  <2>. QED
    BY <1>1, FilterInduction
<1>. QED
  BY <1>2

\* However deep the filter and however its leaves straddle an hour, a query that
\* asks for what time only gives lies between the answers at its start and end.
THEOREM TornAnswersAreBracketed == WriteSpec => []AnswerBracketed
<1>1. AnswerBracketed
  <2>. SUFFICES ASSUME NEW f \in Filters, Rising(f), NEW from \in Clock, NEW to \in Clock,
                       from < to, NEW late
                PROVE  LET torn == AnswerBy(f, [g \in Filters |-> IF g \in late THEN to ELSE from])
                       IN  Answer(f, from) \subseteq torn /\ torn \subseteq Answer(f, to)
    BY DEF AnswerBracketed
  <2>. DEFINE mixed == [g \in Filters |-> IF g \in late THEN to ELSE from]
  <2>1. \A g \in Filters :
          /\ At(from)[g] \in Int /\ mixed[g] \in Int /\ At(to)[g] \in Int
          /\ At(from)[g] <= mixed[g] /\ mixed[g] <= At(to)[g]
    BY TaskQueryAssumption DEF At
  <2>. HIDE DEF mixed
  <2>2. \A t : /\ Accepts(t, f, At(from)) => Accepts(t, f, mixed)
               /\ Accepts(t, f, mixed) => Accepts(t, f, At(to))
    BY <2>1, FiltersRise
  <2>. QED
    BY <2>2 DEF Answer, AnswerBy, mixed
<1>. QED
  BY <1>1, PTL
-----------------------------------------------------------------------------
(* Lists of values and tags.                                               *)

\* The fast path is taken for a filter on one property by none but "pending".
LEMMA LeafIsSlow ==
  ASSUME NEW f \in Filters, f.type # "AndGroup", ~Equals(f, "status", "pending"), NEW now
  PROVE  Answer(f, now) = {u \in Present : Accepts(db[u], f, At(now))}
<1>1. ~PendingOnly(f)
  BY PendingOnlyByType
<1>. QED
  BY <1>1 DEF Answer, AnswerBy, BaseTasks

\* A listed value of status or project that is asked for finds the task it is
\* listed for, but for a "pending" that no task has stored.
LEMMA ValueIsFound ==
  ASSUME TypeOK, NEW f \in Filters, NEW now, NEW p \in {"status", "project"},
         NEW v \in PropertyValues(Present, p), Equals(f, p, v)
  PROVE  \/ Answer(f, now) # {}
         \/ Equals(f, "status", "pending") /\ "pending" \notin StatusValues(Present)
<1>1. PICK u \in Present : ListedValue(db[u], p) = v /\ v # Absent
  BY DEF PropertyValues
<1>2. \A w \in Present : db[w] \in Task
  BY PresentType
<1>3. f.type = "Equals" /\ ~f.negated /\ f.property = p /\ f.matches = {v}
  BY DEF Equals
<1>4. CASE p = "status"
  <2>1. v = ReadStatus(db[u])
    <3>1. ReadStatus(db[u]) \in Status
      BY <1>2 DEF ReadStatus, Task, Status
    <3>2. StringProperty(db[u], p) = ReadStatus(db[u]) /\ ReadStatus(db[u]) # Absent
      BY <1>4, <3>1, TaskQueryAssumption DEF StringProperty
    <3>3. ~HasDate(db[u], p) /\ p \notin DateFields \cup {"end"}
      BY <1>4 DEF HasDate, DateFields
    <3>4. ListedValue(db[u], p) = StringProperty(db[u], p)
      BY <3>2, <3>3, Zenon DEF ListedValue
    <3>. QED
      BY <1>1, <3>2, <3>4
  <2>2. \A w \in Present : Accepts(db[w], f, At(now)) <=> ReadStatus(db[w]) = v
    BY <1>2, <1>4, StatusAccepted
  <2>3. CASE v # "pending"
    <3>1. ~Equals(f, "status", "pending")
      BY <1>3, <2>3 DEF Equals
    <3>. QED
      BY <1>3, <2>1, <2>2, <3>1, LeafIsSlow
  <2>4. CASE v = "pending"
    <3>1. SUFFICES ASSUME "pending" \in StatusValues(Present)
                   PROVE  Answer(f, now) # {}
      BY <1>4, <2>4
    <3>2. PICK w \in Present : db[w].status = "pending"
      BY <3>1 DEF StatusValues
    <3>3. w \in BaseTasks(f) /\ ReadStatus(db[w]) = v
      BY <2>4, <3>2 DEF BaseTasks, PendingTasks, ReadStatus
    <3>. QED
      BY <2>2, <3>3 DEF Answer, AnswerBy
  <2>. QED
    BY <2>3, <2>4
<1>5. CASE p = "project"
  <2>1. StringProperty(db[u], "project") = v
    <3>1. StringProperty(db[u], p) = TextOf(db[u], p)
      BY <1>5 DEF StringProperty
    <3>2. ~HasDate(db[u], p) /\ p \notin DateFields \cup {"end"}
      BY <1>5 DEF HasDate, DateFields
    <3>3. ListedValue(db[u], p) = TextOf(db[u], p)
      BY <3>1, <3>2, Zenon DEF ListedValue
    <3>. QED
      BY <1>1, <1>5, <3>1, <3>3
  <2>2. TextAccepts(db[u], f)
    BY <1>1, <1>3, <1>5, <2>1 DEF TextAccepts
  <2>3. LeafAccepts(db[u], f, now)
    BY <1>3, <2>2 DEF LeafAccepts
  <2>4. Accepts(db[u], f, At(now))
    BY <1>3, <2>3, LeafAccepted
  <2>5. ~Equals(f, "status", "pending")
    BY <1>3, <1>5 DEF Equals
  <2>. QED
    BY <1>3, <2>4, <2>5, LeafIsSlow
<1>. QED
  BY <1>4, <1>5

\* Whatever the tasks, a value that is listed finds a task when it is asked for,
\* a date as the range that begins and ends with it; and the typed lists hold
\* nothing that the untyped ones lack.
THEOREM ListedValuesAreFound == WriteSpec => []ListedIsFound
<1>1. TypeOK => ListedIsFound
  <2>. SUFFICES ASSUME TypeOK, NEW f \in Filters, NEW now \in Clock
                PROVE  /\ \A p \in {"status", "project"} :
                            \/ \A v \in PropertyValues(Present, p) : Equals(f, p, v) => Answer(f, now) # {}
                            \/ Equals(f, "status", "pending") /\ "pending" \notin StatusValues(Present)
                       /\ /\ f.type = "Date" /\ f.utc /\ f.property \in DateFields
                          /\ f.date = Instant[f.property] /\ f.cmp \in {"By", "From", "To"}
                          => (DateValues(Present, f.property) # {} <=> Answer(f, now) # {})
                       /\ StatusValues(Answer(f, now)) \subseteq PropertyValues(Answer(f, now), "status")
                       /\ \A p \in DateFields :
                            DateValues(Answer(f, now), p) \subseteq PropertyValues(Answer(f, now), p)
    BY DEF ListedIsFound
  <2>1. \A p \in {"status", "project"} :
          \/ \A v \in PropertyValues(Present, p) : Equals(f, p, v) => Answer(f, now) # {}
          \/ Equals(f, "status", "pending") /\ "pending" \notin StatusValues(Present)
    BY ValueIsFound
  <2>2. ASSUME f.type = "Date", f.utc, f.property \in DateFields,
               f.date = Instant[f.property], f.cmp \in {"By", "From", "To"}
        PROVE  DateValues(Present, f.property) # {} <=> Answer(f, now) # {}
    <3>1. Instant[f.property] \in Int
      BY <2>2, TaskQueryAssumption
    <3>2. Compares(Instant[f.property], f.cmp, f.date)
      BY <2>2, <3>1 DEF Compares
    <3>3. \A t : Accepts(t, f, At(now)) <=> HasDate(t, f.property)
      BY <2>2, <3>2, DateAccepted DEF DateAccepts
    <3>4. ~Equals(f, "status", "pending")
      BY <2>2 DEF Equals
    <3>5. Answer(f, now) = {u \in Present : HasDate(db[u], f.property)}
      BY <2>2, <3>3, <3>4, LeafIsSlow
    <3>. QED
      BY <3>5 DEF DateValues
  <2>. DEFINE S == Answer(f, now)
  <2>3. S \subseteq Present
    BY DEF Answer, AnswerBy, BaseTasks, PendingTasks
  <2>. HIDE DEF S
  <2>4. Absent \notin Status /\ Absent # "rfc3339"
    BY TaskQueryAssumption DEF Stamp
  <2>5. StatusValues(S) \subseteq PropertyValues(S, "status")
    <3>. SUFFICES ASSUME NEW u \in S, db[u].status \in StatusEnum
                  PROVE  db[u].status \in PropertyValues(S, "status")
      BY DEF StatusValues
    <3>1. db[u].status # Absent /\ ReadStatus(db[u]) = db[u].status
      BY <2>4 DEF StatusEnum, ReadStatus, Status
    <3>2. StringProperty(db[u], "status") = db[u].status
      BY <3>1 DEF StringProperty
    <3>3. ListedValue(db[u], "status") = db[u].status
      BY <3>1, <3>2 DEF ListedValue, HasDate
    <3>. QED
      BY <3>1, <3>3 DEF PropertyValues
  <2>6. ASSUME NEW p \in DateFields
        PROVE  DateValues(S, p) \subseteq PropertyValues(S, p)
    <3>. SUFFICES ASSUME NEW u \in S, HasDate(db[u], p)
                  PROVE  "rfc3339" \in PropertyValues(S, p)
      BY DEF DateValues
    <3>1. StringProperty(db[u], p) = Absent
      BY DEF StringProperty, DateFields
    <3>2. ListedValue(db[u], p) = "rfc3339"
      BY <3>1, Zenon DEF ListedValue
    <3>. QED
      BY <2>4, <3>2 DEF PropertyValues
  <2>7. f.type = "Date" /\ f.utc /\ f.property \in DateFields
          /\ f.date = Instant[f.property] /\ f.cmp \in {"By", "From", "To"}
          => (DateValues(Present, f.property) # {} <=> Answer(f, now) # {})
    BY <2>2
  <2>. QED
    BY <2>1, <2>5, <2>6, <2>7, Zenon DEF S
<1>. QED
  BY <1>1, WritesAreSteps, TypeCorrect, PTL

\* Whatever the tasks, get_tags lists every tag that a caller sees on a task of
\* the answer, or the task has the virtual tag of that name, and a Tag filter of
\* what is listed finds the tasks it is listed for.
THEOREM SeenTagsAreListed == WriteSpec => []SeenTagsListed
<1>1. TypeOK => SeenTagsListed
  <2>. SUFFICES ASSUME TypeOK, NEW f \in Filters, NEW now \in Clock
                PROVE  LET S == Answer(f, now) IN
                         /\ \A u \in S : \A g \in MapOf(db[u]).tags :
                              /\ g \in GetTags(S, TRUE, now)
                              /\ g \in GetTags(S, FALSE, now) \/ HasVirtualTag(db[u], Spells[g], now)
                         /\ \A h \in Filters : h.type = "Tag" /\ ~h.exclude =>
                              (h.tag \in GetTags(S, TRUE, now) <=> S \cap Answer(h, now) # {})
    BY DEF SeenTagsListed
  <2>. DEFINE S == Answer(f, now)
  <2>1. S \subseteq Present
    BY DEF Answer, AnswerBy, BaseTasks, PendingTasks
  <2>. HIDE DEF S
  <2>2. ASSUME NEW u \in S, NEW g \in MapOf(db[u]).tags
        PROVE  /\ g \in GetTags(S, TRUE, now)
               /\ g \in GetTags(S, FALSE, now) \/ HasVirtualTag(db[u], Spells[g], now)
    <3>1. db[u] \in Task
      BY <2>1, PresentType
    <3>2. g \in db[u].tags
      BY <2>2, <3>1 DEF MapOf, DtoOf, Task
    <3>3. g \in ListedTags(db[u], TRUE, now)
      BY <3>2 DEF ListedTags, TagsOf
    <3>4. g \in ListedTags(db[u], FALSE, now) \/ HasVirtualTag(db[u], Spells[g], now)
      BY <3>2 DEF ListedTags
    <3>. QED
      BY <3>3, <3>4 DEF GetTags
  <2>3. ASSUME NEW h \in Filters, h.type = "Tag", ~h.exclude
        PROVE  h.tag \in GetTags(S, TRUE, now) <=> S \cap Answer(h, now) # {}
    <3>1. ~Equals(h, "status", "pending")
      BY <2>3 DEF Equals
    <3>2. \A u \in S : u \in Answer(h, now) <=> h.tag \in TagsOf(db[u])
      BY <2>1, <2>3, <3>1, LeafIsSlow, TagAccepted
    <3>. QED
      BY <3>2 DEF GetTags, ListedTags
  <2>. QED
    BY <2>2, <2>3 DEF S
<1>. QED
  BY <1>1, WritesAreSteps, TypeCorrect, PTL
-----------------------------------------------------------------------------
(* Statistics.                                                             *)

\* Two sets that share nothing have together as many elements as each by itself.
LEMMA SplitCounts ==
  ASSUME NEW A, NEW B, IsFiniteSet(A \cup B), A \cap B = {}
  PROVE  /\ IsFiniteSet(A) /\ IsFiniteSet(B)
         /\ Cardinality(A \cup B) = Cardinality(A) + Cardinality(B)
         /\ Cardinality(A) \in Nat /\ Cardinality(B) \in Nat
<1>1. IsFiniteSet(A) /\ IsFiniteSet(B)
  <2>1. A \subseteq A \cup B /\ B \subseteq A \cup B
    OBVIOUS
  <2>. QED
    BY <2>1, FS_Subset
<1>2. Cardinality(A \cup B) = Cardinality(A) + Cardinality(B) - Cardinality(A \cap B)
  BY <1>1, FS_Union
<1>3. Cardinality(A \cap B) = 0
  BY FS_EmptySet
<1>4. Cardinality(A) \in Nat /\ Cardinality(B) \in Nat
  BY <1>1, FS_CardinalityType
<1>. QED
  BY <1>1, <1>2, <1>3, <1>4

\* Whatever the tasks and the filters, the statistics count for each status what
\* a filter on it finds, the tasks without a status besides, and in total what
\* is recurring or of unknown status besides.
THEOREM StatsAreAnswers == WriteSpec => []StatsMatchFilters
<1>1. TypeOK /\ IsFiniteSet(Present) => StatsMatchFilters
  <2>. SUFFICES ASSUME TypeOK, IsFiniteSet(Present)
                PROVE  StatsMatchFilters
    OBVIOUS
  <2>. DEFINE reads(c)  == {u \in Present : ReadStatus(db[u]) = c}
              stored(c) == {u \in Present : db[u].status = c}
              odd       == {u \in Present : db[u].status \in {"recurring", "unknown"}}
  <2>1. \A u \in Present : db[u] \in Task
    BY PresentType
  <2>2. /\ Stats.total = Cardinality(Present)
        /\ \A c \in StatusEnum : Stats.count[c] = Cardinality(reads(c))
    BY DEF Stats
  <2>3. \A c : IsFiniteSet(reads(c))
    BY FS_Subset
  <2>4. ASSUME NEW f \in Filters, NEW now \in Clock, NEW c \in StatusEnum, Equals(f, "status", c)
        PROVE  Stats.count[c] = Cardinality(Answer(f, now))
                 + (IF c = "pending" THEN Cardinality(stored("none")) ELSE 0)
    <3>1. \A u \in Present : Accepts(db[u], f, At(now)) <=> ReadStatus(db[u]) = c
      BY <2>1, <2>4, StatusAccepted
    <3>2. f.type = "Equals" /\ f.matches = {c}
      BY <2>4 DEF Equals
    <3>3. CASE c # "pending"
      <4>1. ~Equals(f, "status", "pending")
        BY <3>2, <3>3 DEF Equals
      <4>2. Answer(f, now) = reads(c)
        BY <3>1, <3>2, <4>1, LeafIsSlow
      <4>3. Cardinality(reads(c)) \in Nat
        BY <2>3, FS_CardinalityType
      <4>. QED
        BY <2>2, <3>3, <4>2, <4>3
    <3>4. CASE c = "pending"
      <4>1. Answer(f, now) = stored("pending")
        <5>1. PendingOnly(f)
          BY <2>4, <3>4, PendingOnlyByType
        <5>2. \A u \in Present : db[u].status = "pending" => ReadStatus(db[u]) = c
          BY <3>4 DEF ReadStatus
        <5>. QED
          BY <3>1, <5>1, <5>2 DEF Answer, AnswerBy, BaseTasks, PendingTasks
      <4>2. reads("pending") = stored("pending") \cup stored("none")
        BY DEF ReadStatus
      <4>3. stored("pending") \cap stored("none") = {}
        OBVIOUS
      <4>. HIDE DEF reads, stored
      <4>4. Cardinality(reads("pending"))
              = Cardinality(stored("pending")) + Cardinality(stored("none"))
        <5>1. IsFiniteSet(stored("pending") \cup stored("none"))
          BY <2>3, <4>2
        <5>2. Cardinality(stored("pending") \cup stored("none"))
                = Cardinality(stored("pending")) + Cardinality(stored("none"))
          BY <4>3, <5>1, SplitCounts
        <5>. QED
          BY <4>2, <5>2
      <4>. QED
        BY <2>2, <3>4, <4>1, <4>4
    <3>. QED
      BY <3>3, <3>4
  <2>5. Stats.total = Stats.count["pending"] + Stats.count["completed"]
                        + Stats.count["deleted"] + Cardinality(odd)
    <3>. DEFINE done  == reads("deleted") \cup odd
                ended == reads("completed") \cup done
    <3>0. ended = reads("completed") \cup done /\ done = reads("deleted") \cup odd
      OBVIOUS
    <3>1. Present = reads("pending") \cup ended
      BY <2>1 DEF ReadStatus, Task, Status
    <3>2. /\ reads("pending") \cap ended = {}
          /\ reads("completed") \cap done = {}
          /\ reads("deleted") \cap odd = {}
      BY DEF ReadStatus
    <3>. HIDE DEF reads, odd, done, ended
    <3>3. /\ Cardinality(Present) = Cardinality(reads("pending")) + Cardinality(ended)
          /\ IsFiniteSet(ended)
      <4>1. IsFiniteSet(reads("pending") \cup ended)
        BY <3>1
      <4>. QED
        BY <3>1, <3>2, <4>1, SplitCounts
    <3>4. /\ Cardinality(ended) = Cardinality(reads("completed")) + Cardinality(done)
          /\ IsFiniteSet(done)
      <4>1. IsFiniteSet(reads("completed") \cup done)
        BY <3>0, <3>3
      <4>. QED
        BY <3>0, <3>2, <4>1, SplitCounts
    <3>5. /\ Cardinality(done) = Cardinality(reads("deleted")) + Cardinality(odd)
          /\ IsFiniteSet(odd)
      <4>1. IsFiniteSet(reads("deleted") \cup odd)
        BY <3>0, <3>4
      <4>. QED
        BY <3>0, <3>2, <4>1, SplitCounts
    <3>6. /\ Cardinality(reads("pending")) \in Nat /\ Cardinality(reads("completed")) \in Nat
          /\ Cardinality(reads("deleted")) \in Nat /\ Cardinality(odd) \in Nat
      BY <2>3, <3>5, FS_CardinalityType
    <3>7. {"pending", "completed", "deleted"} \subseteq StatusEnum
      BY DEF StatusEnum
    <3>. QED
      BY <2>2, <3>3, <3>4, <3>5, <3>6, <3>7
  <2>. QED
    BY <2>4, <2>5 DEF StatsMatchFilters
<1>. QED
  BY <1>1, WritesAreSteps, TypeCorrect, FinitelyMany, PTL

\* The reach of what the run query_dates finds: a date filter made of a local
\* DateTime accepts nothing, whatever the tasks, the date and the comparison; and
\* with it every conjunction that it is a part of.
THEOREM LocalDatesFindNothing ==
  WriteSpec => [](\A f \in Filters, now \in Clock :
                    (\/ f.type = "Date" /\ ~f.utc
                     \/ /\ f.type = "AndGroup"
                        /\ \E i \in DOMAIN f.filters :
                             f.filters[i].type = "Date" /\ ~f.filters[i].utc)
                    => Answer(f, now) = {})
<1>1. ASSUME NEW f \in Filters, f.type = "Date", ~f.utc, NEW now, NEW t
      PROVE  ~Accepts(t, f, At(now))
  BY <1>1, DateAccepted DEF DateAccepts
<1>2. ASSUME NEW f \in Filters, f.type = "AndGroup", NEW i \in DOMAIN f.filters,
             f.filters[i].type = "Date", ~f.filters[i].utc, NEW now, NEW t
      PROVE  ~Accepts(t, f, At(now))
  <2>1. f.filters[i] \in Filters
    BY <1>2, PartsAreFilters
  <2>2. ~Accepts(t, f.filters[i], At(now))
    BY <1>1, <1>2, <2>1
  <2>. QED
    BY <1>2, <2>2, AcceptsByType
<1>. DEFINE Nothing == \A f \in Filters, now \in Clock :
                         (\/ f.type = "Date" /\ ~f.utc
                          \/ /\ f.type = "AndGroup"
                             /\ \E i \in DOMAIN f.filters :
                                  f.filters[i].type = "Date" /\ ~f.filters[i].utc)
                         => Answer(f, now) = {}
<1>3. Nothing
  BY <1>1, <1>2 DEF Answer, AnswerBy
<1>. QED
  BY <1>3, PTL
=============================================================================
