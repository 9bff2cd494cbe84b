---------------------------- MODULE CommandProofs ---------------------------
(***************************************************************************)
(* Theorems about the commands that the services take: RelationCommands,   *)
(* for every set of objects and of concurrent requests and a log of any    *)
(* length; ObjectFields, for every set of requests and of refreshes;       *)
(* Accounts, for every set of browsers; and RecordCommands, for every set  *)
(* of requests.                                                            *)
(*                                                                         *)
(* The checks of relations.service.ts read a table that is behind the log. *)
(* The argument has three parts.  relations_view is a function of the      *)
(* first events of the log (Table), and a row that is there was there      *)
(* since its creation: so what a check saw then says something of what is  *)
(* there now.  The searches of relation-graph.ts are complete: a set that  *)
(* did not stop growing after as many rounds as there are edges would have *)
(* used more edges than there are.  And the invariant keeps, for every     *)
(* relation whose check missed no creation, the length of the log among    *)
(* whose rows it passed (PassedAmongAll).                                  *)
(*                                                                         *)
(* The table and the search are recursive functions; induction is done by  *)
(* taking the least counterexample (Least).                                *)
(*                                                                         *)
(* For a task's fields there are only three kinds of writes (StreamStep),  *)
(* and what was in the stream stays where it was (Continues); so what a    *)
(* request or a refresh read is still true as long as nothing was added    *)
(* (Known, Answer).  ObjectInv says besides who will see to what is still  *)
(* missing: a completion's occurrence and relation (Covered), a value that *)
(* is not the one of the current total (Awaited).                          *)
(*                                                                         *)
(* For an account, AccountInv says what a page shows and will be shown     *)
(* (PageFits) and what a call has done so far (CallFits): a claim of the   *)
(* page is true, or marked as doubtful, or the browser's own call under    *)
(* way is what made it false.                                              *)
(*                                                                         *)
(* For records, an append whose version is still that of its stream closes *)
(* or changes what is open, if its service replays the stream              *)
(* (RecordKnown), and a name that was checked was free among the events    *)
(* that the check could see (NamesWereFree).                               *)
(***************************************************************************)
EXTENDS RelationCommands, WellFoundedInduction, SequenceTheorems, FiniteSetTheorems, TLAPS

-------------------------------------------------------------------------------
\* Recursion over the numbers.

\* A set of numbers that is not empty has a least one.
LEMMA LessThan ==
  OpToRel(<, Nat) = {p \in Nat \X Nat : p[1] < p[2]}
  BY DEF OpToRel

LEMMA Least ==
  ASSUME NEW some \in SUBSET Nat, some # {}
  PROVE  \E n \in some : \A m \in some : n <= m
<1> DEFINE less == {p \in Nat \X Nat : p[1] < p[2]}
<1>1. IsWellFoundedOn(less, Nat)
  BY NatLessThanWellFounded, LessThan
<1>2. PICK n \in some : \A m \in some : ~(<<m, n>> \in less)
  <2> HIDE DEF less
  <2> QED
    BY <1>1, WFMin
<1>3. ASSUME NEW m \in some PROVE n <= m
  <2>1. m \in Nat /\ n \in Nat
    OBVIOUS
  <2>2. <<m, n>> \in Nat \X Nat /\ <<m, n>> \notin less
    BY <1>2, <2>1
  <2>3. ~(m < n)
    BY <2>2
  <2> QED
    BY <2>1, <2>3
<1> QED
  BY <1>3

\* g starts with b and goes on with step.
Iterates(g, values, b, step) ==
  /\ g \in [Nat -> values]
  /\ g[0] = b
  /\ \A n \in Nat : g[n + 1] = step[<<g[n], n + 1>>]

LEMMA IterationExists ==
  ASSUME NEW values, NEW b \in values, NEW step \in [values \X Nat -> values]
  PROVE  \E g : Iterates(g, values, b, step)
<1> DEFINE Starts(n, g) == /\ g \in [0..n -> values] /\ g[0] = b
                           /\ \A i \in 0..n - 1 : g[i + 1] = step[<<g[i], i + 1>>]
           short == {n \in Nat : ~\E g : Starts(n, g)}
<1>1. short = {}
  <2>1. SUFFICES ASSUME short # {} PROVE FALSE
    OBVIOUS
  <2>2. PICK n \in short : \A m \in short : n <= m
    <3> HIDE DEF short
    <3>1. short \in SUBSET Nat
      BY DEF short
    <3> QED
      BY <2>1, <3>1, Least
  <2>3. n # 0
    <3>1. Starts(0, [i \in 0..0 |-> b])
      OBVIOUS
    <3> QED
      BY <2>2, <3>1
  <2>4. PICK g : Starts(n - 1, g)
    <3>1. n - 1 \in Nat /\ ~(n <= n - 1)
      BY <2>3
    <3> QED
      BY <2>2, <3>1
  <2>5. Starts(n, [i \in 0..n |-> IF i = n THEN step[<<g[n - 1], n>>] ELSE g[i]])
    <3> DEFINE h == [i \in 0..n |-> IF i = n THEN step[<<g[n - 1], n>>] ELSE g[i]]
    <3>1. g[n - 1] \in values
      BY <2>3, <2>4
    <3>2. h \in [0..n -> values]
      BY <2>3, <2>4, <3>1
    <3>3. h[0] = b
      BY <2>3, <2>4
    <3>4. ASSUME NEW i \in 0..n - 1 PROVE h[i + 1] = step[<<h[i], i + 1>>]
      <4>1. CASE i = n - 1
        <5>1. i + 1 = n /\ n \in 0..n /\ i \in 0..n /\ i # n
          BY <2>3, <4>1
        <5>2. h[n] = step[<<g[n - 1], n>>] /\ h[i] = g[n - 1]
          BY <4>1, <5>1
        <5> QED
          BY <5>1, <5>2
      <4>2. CASE i # n - 1
        BY <2>3, <2>4, <4>2
      <4> QED
        BY <4>1, <4>2
    <3> QED
      BY <3>2, <3>3, <3>4
  <2> QED
    BY <2>2, <2>5
<1>2. ASSUME NEW n \in Nat, NEW m \in Nat, n <= m, NEW g, NEW h, Starts(n, g), Starts(m, h)
      PROVE  g[n] = h[n]
  <2> DEFINE apart == {i \in 0..n : g[i] # h[i]}
  <2>1. SUFFICES ASSUME apart # {} PROVE FALSE
    OBVIOUS
  <2>2. PICK i \in apart : \A j \in apart : i <= j
    <3> HIDE DEF apart
    <3>1. apart \in SUBSET Nat
      BY DEF apart
    <3> QED
      BY <2>1, <3>1, Least
  <2>3. i # 0
    BY <1>2, <2>2
  <2>4. i - 1 \in 0..n - 1 /\ i - 1 \in 0..m - 1 /\ i - 1 \notin apart
    BY <1>2, <2>2, <2>3
  <2>5. g[i - 1] = h[i - 1]
    BY <2>4
  <2>6. g[(i - 1) + 1] = step[<<g[i - 1], (i - 1) + 1>>] /\ h[(i - 1) + 1] = step[<<h[i - 1], (i - 1) + 1>>]
    BY <1>2, <2>4
  <2> QED
    BY <2>2, <2>5, <2>6
<1> DEFINE start(n) == CHOOSE g : Starts(n, g)
           all == [n \in Nat |-> start(n)[n]]
<1>3. ASSUME NEW n \in Nat PROVE Starts(n, start(n))
  <2>1. \E g : Starts(n, g)
    BY <1>1
  <2> HIDE DEF Starts
  <2> QED
    BY <2>1
<1> HIDE DEF start
<1>4. all \in [Nat -> values] /\ all[0] = b
  BY <1>3
<1>5. ASSUME NEW n \in Nat PROVE all[n + 1] = step[<<all[n], n + 1>>]
  <2>1. n + 1 \in Nat /\ n \in 0..(n + 1) - 1 /\ n <= n + 1
    OBVIOUS
  <2>2. Starts(n, start(n)) /\ Starts(n + 1, start(n + 1))
    BY <1>3, <2>1
  <2>3. start(n)[n] = start(n + 1)[n]
    <3> HIDE DEF Starts
    <3> QED
      BY <1>2, <2>1, <2>2
  <2>4. start(n + 1)[n + 1] = step[<<start(n + 1)[n], n + 1>>]
    BY <2>1, <2>2
  <2> QED
    BY <2>1, <2>3, <2>4
<1>6. Iterates(all, values, b, step)
  <2> HIDE DEF all
  <2> QED
    BY <1>4, <1>5 DEF Iterates
<1> QED
  BY <1>6

-------------------------------------------------------------------------------
\* The read model, as a function of the log.

Changed(events, rows, i) ==
  LET e == events[i].edge IN
  IF events[i].type # "RelationCreated" THEN rows \ {events[i].relation}
  ELSE IF /\ e.kind = "parentChild"
          /\ \E r \in rows : events[r].edge.kind = "parentChild" /\ events[r].edge.to = e.to
    THEN rows
    ELSE rows \union {i}

Table(events) ==
  CHOOSE table : table = [n \in Nat |-> IF n = 0 THEN {} ELSE Changed(events, table[n - 1], n)]

LEMMA RowsAreTable ==
  RowsAfter = Table(log) /\ RowsAfter' = Table(log')
  BY DEF RowsAfter, Table, Apply, Changed, Created, EdgeOf

\* The table after n events.
LEMMA TableSteps ==
  ASSUME NEW events
  PROVE  /\ Table(events) \in [Nat -> SUBSET Nat]
         /\ Table(events)[0] = {}
         /\ \A n \in Nat : Table(events)[n + 1] = Changed(events, Table(events)[n], n + 1)
<1> DEFINE step == [x \in (SUBSET Nat) \X Nat |-> Changed(events, x[1], x[2])]
           Is(table) == table = [n \in Nat |-> IF n = 0 THEN {}
                                               ELSE Changed(events, table[n - 1], n)]
<1>1. step \in [(SUBSET Nat) \X Nat -> SUBSET Nat]
  <2>1. ASSUME NEW rows \in SUBSET Nat, NEW i \in Nat PROVE Changed(events, rows, i) \in SUBSET Nat
    BY DEF Changed
  <2> QED
    BY <2>1
<1>2. PICK g : Iterates(g, SUBSET Nat, {}, step)
  <2>1. {} \in SUBSET Nat
    OBVIOUS
  <2> HIDE DEF step
  <2> QED
    BY <1>1, <2>1, IterationExists
<1>3. Is(g)
  <2>1. g = [n \in Nat |-> g[n]]
    BY <1>2 DEF Iterates
  <2>2. ASSUME NEW n \in Nat PROVE g[n] = IF n = 0 THEN {} ELSE Changed(events, g[n - 1], n)
    <3>1. CASE n = 0
      BY <1>2, <3>1 DEF Iterates
    <3>2. CASE n # 0
      <4>1. n - 1 \in Nat /\ (n - 1) + 1 = n
        BY <3>2
      <4>2. g[n] = step[<<g[n - 1], n>>] /\ g[n - 1] \in SUBSET Nat
        <5> HIDE DEF step
        <5> QED
          BY <1>2, <4>1 DEF Iterates
      <4> QED
        BY <3>2, <4>2
    <3> QED
      BY <3>1, <3>2
  <2> QED
    BY <2>1, <2>2
<1>4. Is(Table(events))
  <2>1. Table(events) = CHOOSE table : Is(table)
    BY DEF Table
  <2> HIDE DEF Is
  <2> QED
    BY <1>3, <2>1
<1> HIDE DEF step
<1>5. ASSUME NEW n \in Nat PROVE Table(events)[n + 1] = Changed(events, Table(events)[n], n + 1)
  <2>1. n + 1 \in Nat /\ n + 1 # 0 /\ (n + 1) - 1 = n
    OBVIOUS
  <2> DEFINE value(i) == IF i = 0 THEN {} ELSE Changed(events, Table(events)[i - 1], i)
  <2>2. Table(events) = [i \in Nat |-> value(i)]
    BY <1>4
  <2>3. Table(events)[n + 1] = value(n + 1)
    <3> HIDE DEF value
    <3> QED
      BY <2>1, <2>2
  <2> QED
    BY <2>1, <2>3
<1>6. Table(events)[0] = {}
  BY <1>4
<1>7. ASSUME NEW n \in Nat PROVE Table(events)[n] \in SUBSET Nat
  <2> DEFINE bad == {i \in Nat : Table(events)[i] \notin SUBSET Nat}
  <2>1. SUFFICES ASSUME bad # {} PROVE FALSE
    OBVIOUS
  <2>2. PICK i \in bad : \A j \in bad : i <= j
    <3> HIDE DEF bad
    <3>1. bad \in SUBSET Nat
      BY DEF bad
    <3> QED
      BY <2>1, <3>1, Least
  <2>3. i # 0
    BY <1>6, <2>2
  <2>4. i - 1 \in Nat /\ (i - 1) + 1 = i /\ i - 1 \notin bad
    BY <2>2, <2>3
  <2>5. Table(events)[i - 1] \in SUBSET Nat
    BY <2>4
  <2>6. Table(events)[i] = Changed(events, Table(events)[i - 1], i)
    BY <1>5, <2>4
  <2>7. Changed(events, Table(events)[i - 1], i) \in SUBSET Nat
    BY <2>2, <2>5 DEF Changed
  <2> QED
    BY <2>2, <2>6, <2>7
<1> QED
  <2>1. Table(events) = [n \in Nat |-> Table(events)[n]]
    BY <1>4
  <2>2. Table(events) \in [Nat -> SUBSET Nat]
    BY <1>7, <2>1
  <2> QED
    BY <1>5, <1>6, <2>2

LEMMA TableStep ==
  ASSUME NEW events, NEW n \in Nat, n # 0
  PROVE  /\ n - 1 \in Nat
         /\ Table(events)[n - 1] \in SUBSET Nat
         /\ Table(events)[n] = Changed(events, Table(events)[n - 1], n)
<1>1. n - 1 \in Nat /\ (n - 1) + 1 = n
  OBVIOUS
<1> QED
  BY <1>1, TableSteps

\* A row is the index of a creation among the first n events.
LEMMA RowsAreCreations ==
  ASSUME NEW events, NEW n \in Nat
  PROVE  Table(events)[n] \subseteq {i \in 1..n : events[i].type = "RelationCreated"}
<1> DEFINE creations(m) == {i \in 1..m : events[i].type = "RelationCreated"}
           bad == {m \in Nat : ~(Table(events)[m] \subseteq creations(m))}
<1>1. SUFFICES ASSUME bad # {} PROVE FALSE
  OBVIOUS
<1>2. PICK m \in bad : \A k \in bad : m <= k
  <2> HIDE DEF bad
  <2>1. bad \in SUBSET Nat
    BY DEF bad
  <2> QED
    BY <1>1, <2>1, Least
<1>3. m # 0
  BY <1>2, TableSteps
<1>4. Table(events)[m - 1] \subseteq creations(m - 1)
  <2>1. m - 1 \in Nat /\ m - 1 \notin bad
    BY <1>2, <1>3
  <2> QED
    BY <2>1
<1>5. creations(m - 1) \subseteq creations(m)
  BY <1>2, <1>3
<1>6. Table(events)[m] \subseteq creations(m)
  <2>1. ASSUME NEW r \in Changed(events, Table(events)[m - 1], m), r \notin Table(events)[m - 1]
        PROVE  r = m /\ events[m].type = "RelationCreated"
    BY <2>1 DEF Changed
  <2>2. m \in 1..m
    BY <1>2, <1>3
  <2> QED
    BY <1>2, <1>3, <1>4, <1>5, <2>1, <2>2, TableStep
<1> QED
  BY <1>2, <1>6

\* The table follows from the events it stands for.
LEMMA SamePrefix ==
  ASSUME NEW events, NEW others, NEW n \in Nat, \A i \in 1..n : events[i] = others[i]
  PROVE  \A m \in 0..n : Table(events)[m] = Table(others)[m]
<1> DEFINE bad == {m \in 0..n : Table(events)[m] # Table(others)[m]}
<1>1. SUFFICES ASSUME bad # {} PROVE FALSE
  OBVIOUS
<1>2. PICK m \in bad : \A k \in bad : m <= k
  <2> HIDE DEF bad
  <2>1. bad \in SUBSET Nat
    BY DEF bad
  <2> QED
    BY <1>1, <2>1, Least
<1>3. m \in Nat /\ m # 0
  <2>1. Table(events)[0] = {} /\ Table(others)[0] = {}
    BY TableSteps
  <2>2. m \in 0..n /\ Table(events)[m] # Table(others)[m]
    BY <1>2
  <2>3. m # 0
    BY <2>1, <2>2
  <2> QED
    BY <2>2, <2>3
<1>4. m - 1 \in 0..n /\ m - 1 \notin bad
  BY <1>2, <1>3
<1> DEFINE rows == Table(events)[m - 1]
<1>5. rows = Table(others)[m - 1]
  BY <1>4
<1>6. rows \subseteq 1..n
  BY <1>3, <1>4, RowsAreCreations
<1>7. Table(events)[m] = Changed(events, rows, m) /\ Table(others)[m] = Changed(others, rows, m)
  BY <1>3, <1>5, TableStep
<1>8. Changed(events, rows, m) = Changed(others, rows, m)
  <2> HIDE DEF rows
  <2>1. events[m] = others[m] /\ \A r \in rows : events[r] = others[r]
    BY <1>2, <1>3, <1>6
  <2> QED
    BY <2>1 DEF Changed
<1> QED
  BY <1>2, <1>7, <1>8

\* A row was there ever since its creation.
LEMMA RowsWereThere ==
  ASSUME NEW events, NEW n \in Nat, NEW m \in 0..n, NEW r \in Table(events)[n], r <= m
  PROVE  r \in Table(events)[m]
<1> DEFINE again == {k \in m..n : r \in Table(events)[k]}
<1>1. n \in again
  OBVIOUS
<1>2. PICK k \in again : \A l \in again : k <= l
  <2> HIDE DEF again
  <2>1. again \in SUBSET Nat
    BY DEF again
  <2> QED
    BY <1>1, <2>1, Least
<1>3. SUFFICES ASSUME k # m PROVE FALSE
  BY <1>2
<1>4. k \in Nat /\ k # 0 /\ k - 1 \in m..n /\ k - 1 \notin again
  BY <1>2, <1>3
<1>5. r \notin Table(events)[k - 1] /\ r # k
  BY <1>3, <1>4
<1>6. r \notin Changed(events, Table(events)[k - 1], k)
  BY <1>5 DEF Changed
<1> QED
  BY <1>2, <1>4, <1>6, TableStep

\* A row stays until its removal.
LEMMA RowsStay ==
  ASSUME NEW events, NEW n \in Nat, NEW m \in 0..n, NEW r \in Table(events)[m]
  PROVE  \/ r \in Table(events)[n]
         \/ \E i \in m + 1..n : events[i].type # "RelationCreated" /\ events[i].relation = r
<1> DEFINE gone == {k \in m..n : r \notin Table(events)[k]}
<1>1. SUFFICES ASSUME n \in gone
               PROVE  \E i \in m + 1..n : events[i].type # "RelationCreated" /\ events[i].relation = r
  OBVIOUS
<1>2. PICK k \in gone : \A l \in gone : k <= l
  <2> HIDE DEF gone
  <2>1. gone \in SUBSET Nat
    BY DEF gone
  <2> QED
    BY <1>1, <2>1, Least
<1>3. k # m /\ k \in m..n
  BY <1>2
<1>4. k \in Nat /\ k # 0 /\ k - 1 \in m..n /\ k - 1 \notin gone
  BY <1>2, <1>3
<1>5. r \in Table(events)[k - 1]
  BY <1>4
<1>6. r \notin Changed(events, Table(events)[k - 1], k)
  BY <1>2, <1>4, TableStep
<1>7. events[k].type # "RelationCreated" /\ events[k].relation = r
  BY <1>5, <1>6 DEF Changed
<1>8. k \in m + 1..n
  BY <1>3
<1> QED
  BY <1>7, <1>8

\* A relation that is not one of parent and child gets its row.
LEMMA RowsAppear ==
  ASSUME NEW events, NEW r \in Nat, r # 0,
         events[r].type = "RelationCreated", events[r].edge.kind # "parentChild"
  PROVE  r \in Table(events)[r]
<1>1. Table(events)[r] = Changed(events, Table(events)[r - 1], r)
  BY TableStep
<1>2. \A rows : r \in Changed(events, rows, r)
  BY DEF Changed
<1> QED
  BY <1>1, <1>2

\* An object has one parent in the table.
LEMMA TableHasOneParent ==
  ASSUME NEW events, NEW n \in Nat,
         NEW r \in Table(events)[n], NEW s \in Table(events)[n],
         events[r].edge.kind = "parentChild", events[s].edge.kind = "parentChild",
         events[r].edge.to = events[s].edge.to
  PROVE  r = s
<1>1. r \in 1..n /\ s \in 1..n /\ events[r].type = "RelationCreated" /\ events[s].type = "RelationCreated"
  BY RowsAreCreations
<1>2. ASSUME NEW p \in 1..n, NEW q \in 1..n, p < q, p \in Table(events)[n], q \in Table(events)[n],
             events[q].type = "RelationCreated",
             events[p].edge.kind = "parentChild", events[q].edge.kind = "parentChild",
             events[p].edge.to = events[q].edge.to
      PROVE  FALSE
  <2>1. q \in Nat /\ q # 0 /\ q \in 0..n /\ q - 1 \in 0..n
    OBVIOUS
  <2>2. q \in Table(events)[q] /\ p \in Table(events)[q - 1]
    BY <1>2, <2>1, RowsWereThere
  <2>3. q \notin Table(events)[q - 1]
    BY <2>1, RowsAreCreations
  <2>4. Table(events)[q] = Table(events)[q - 1]
    <3> DEFINE rows == Table(events)[q - 1]
    <3>1. Table(events)[q] = Changed(events, rows, q)
      BY <2>1, TableStep
    <3>2. p \in rows
      BY <2>2
    <3> HIDE DEF rows
    <3>3. Changed(events, rows, q) = rows
      BY <1>2, <3>2 DEF Changed
    <3> QED
      BY <3>1, <3>3 DEF rows
  <2> QED
    BY <2>2, <2>3, <2>4
<1> QED
  BY <1>1, <1>2

-------------------------------------------------------------------------------
\* The searches.

\* One round more.
Beyond(edges, nodes) == nodes \union {e.to : e \in {e \in edges : e.from \in nodes}}

\* visited holds the nodes after each of n rounds.
Rounds(visited, edges, start, n) ==
  visited = [i \in 0..n |-> IF i = 0 THEN start
                            ELSE visited[i - 1]
                                   \union {e.to : e \in {e \in edges : e.from \in visited[i - 1]}}]

LEMMA WithinHasRounds ==
  ASSUME NEW edges, NEW start, NEW n \in Nat
  PROVE  \E v : /\ v[0] = start /\ Within(edges, start, n) = v[n]
                /\ \A i \in 0..n - 1 : v[i + 1] = Beyond(edges, v[i])
<1> DEFINE sets == SUBSET (start \union {e.to : e \in edges})
           step == [x \in sets \X Nat |-> Beyond(edges, x[1])]
<1>1. step \in [sets \X Nat -> sets]
  <2>1. ASSUME NEW nodes \in sets PROVE Beyond(edges, nodes) \in sets
    BY DEF Beyond
  <2> QED
    BY <2>1
<1>2. start \in sets
  OBVIOUS
<1>3. PICK g : Iterates(g, sets, start, step)
  <2> HIDE DEF sets, step
  <2> QED
    BY <1>1, <1>2, IterationExists
<1>4. /\ g[0] = start
      /\ \A i \in Nat : g[i] \in sets /\ g[i + 1] = Beyond(edges, g[i])
  <2>1. \A i \in Nat : g[i] \in sets /\ g[i + 1] = step[<<g[i], i + 1>>]
    <3> HIDE DEF sets, step
    <3> QED
      BY <1>3 DEF Iterates
  <2>2. \A x \in sets, i \in Nat : step[<<x, i + 1>>] = Beyond(edges, x)
    <3> HIDE DEF sets
    <3> QED
      OBVIOUS
  <2>3. g[0] = start
    BY <1>3 DEF Iterates
  <2> HIDE DEF sets, step
  <2> QED
    BY <2>1, <2>2, <2>3
<1> HIDE DEF sets, step
<1> DEFINE short == [i \in 0..n |-> g[i]]
<1>5. Rounds(short, edges, start, n)
  <2>1. ASSUME NEW i \in 0..n
        PROVE  short[i] = IF i = 0 THEN start
                          ELSE short[i - 1]
                                 \union {e.to : e \in {e \in edges : e.from \in short[i - 1]}}
    <3>1. CASE i = 0
      BY <1>4, <3>1
    <3>2. CASE i # 0
      <4>1. i - 1 \in Nat /\ (i - 1) + 1 = i /\ i - 1 \in 0..n
        BY <3>2
      <4>2. g[i] = Beyond(edges, g[i - 1])
        BY <1>4, <4>1
      <4> QED
        BY <3>2, <4>1, <4>2 DEF Beyond
    <3> QED
      BY <3>1, <3>2
  <2>2. short = [i \in 0..n |-> short[i]]
    OBVIOUS
  <2> HIDE DEF short
  <2> QED
    BY <2>1, <2>2 DEF Rounds
<1> DEFINE visited == CHOOSE v : Rounds(v, edges, start, n)
<1>6. Within(edges, start, n) = visited[n]
  BY DEF Within, Rounds
<1>7. Rounds(visited, edges, start, n)
  <2> HIDE DEF short
  <2> QED
    BY <1>5
<1> HIDE DEF visited
<1>8. visited[0] = start
  BY <1>7 DEF Rounds
<1>9. ASSUME NEW i \in 0..n - 1 PROVE visited[i + 1] = Beyond(edges, visited[i])
  <2>1. i + 1 \in 0..n /\ i + 1 # 0 /\ (i + 1) - 1 = i
    OBVIOUS
  <2> DEFINE value(j) == IF j = 0 THEN start
                         ELSE visited[j - 1]
                                \union {e.to : e \in {e \in edges : e.from \in visited[j - 1]}}
  <2>2. visited = [j \in 0..n |-> value(j)]
    BY <1>7 DEF Rounds
  <2>3. visited[i + 1] = value(i + 1)
    <3> HIDE DEF value
    <3> QED
      BY <2>1, <2>2
  <2> QED
    BY <2>1, <2>3 DEF Beyond
<1> QED
  BY <1>6, <1>8, <1>9

Closed(edges, nodes) == \A e \in edges : e.from \in nodes => e.to \in nodes

\* As many rounds as there are edges find all.
LEMMA WithinIsClosed ==
  ASSUME NEW edges, IsFiniteSet(edges), NEW start, NEW n \in Nat, Cardinality(edges) <= n
  PROVE  start \subseteq Within(edges, start, n) /\ Closed(edges, Within(edges, start, n))
<1>1. PICK v : /\ v[0] = start /\ Within(edges, start, n) = v[n]
               /\ \A i \in 0..n - 1 : v[i + 1] = Beyond(edges, v[i])
  BY WithinHasRounds
<1>2. ASSUME NEW i \in 0..n PROVE start \subseteq v[i] /\ (Closed(edges, v[i]) => Closed(edges, v[n]))
  <2>1. start \subseteq v[i]
    <3> DEFINE bad == {j \in 0..n : ~(start \subseteq v[j])}
    <3>1. SUFFICES ASSUME bad # {} PROVE FALSE
      OBVIOUS
    <3>2. PICK j \in bad : \A k \in bad : j <= k
      <4> HIDE DEF bad
      <4>1. bad \in SUBSET Nat
        BY DEF bad
      <4> QED
        BY <3>1, <4>1, Least
    <3>3. j # 0
      BY <1>1, <3>2
    <3>4. j - 1 \in 0..n - 1 /\ (j - 1) + 1 = j /\ j - 1 \notin bad
      BY <3>2, <3>3
    <3>5. v[j] = Beyond(edges, v[j - 1]) /\ start \subseteq v[j - 1]
      BY <1>1, <3>4
    <3> QED
      BY <3>2, <3>5 DEF Beyond
  <2>2. ASSUME Closed(edges, v[i]) PROVE v[n] = v[i]
    <3> DEFINE bad == {j \in i..n : v[j] # v[i]}
    <3>1. SUFFICES ASSUME bad # {} PROVE FALSE
      OBVIOUS
    <3>2. PICK j \in bad : \A k \in bad : j <= k
      <4> HIDE DEF bad
      <4>1. bad \in SUBSET Nat
        BY DEF bad
      <4> QED
        BY <3>1, <4>1, Least
    <3>3. j # i
      BY <3>2
    <3>4. j - 1 \in 0..n - 1 /\ j - 1 \in i..n /\ (j - 1) + 1 = j /\ j - 1 \notin bad
      BY <3>2, <3>3
    <3>5. v[j] = Beyond(edges, v[i])
      BY <1>1, <3>4
    <3>6. Beyond(edges, v[i]) = v[i]
      BY <2>2 DEF Beyond, Closed
    <3> QED
      BY <3>2, <3>5, <3>6
  <2> QED
    BY <2>1, <2>2
<1>3. Closed(edges, v[n])
  <2>1. SUFFICES ASSUME ~Closed(edges, v[n]) PROVE FALSE
    OBVIOUS
  <2> DEFINE used(i) == {e \in edges : e.to \in v[i]}
             few == {i \in 0..n : Cardinality(used(i)) < i}
  <2>2. ASSUME NEW i \in Nat PROVE IsFiniteSet(used(i)) /\ Cardinality(used(i)) \in Nat
    BY FS_Subset, FS_CardinalityType
  <2>3. few = {}
    <3>1. SUFFICES ASSUME few # {} PROVE FALSE
      OBVIOUS
    <3>2. PICK i \in few : \A k \in few : i <= k
      <4> HIDE DEF few
      <4>1. few \in SUBSET Nat
        BY DEF few
      <4> QED
        BY <3>1, <4>1, Least
    <3>3. i \in 0..n /\ i # 0
      BY <2>2, <3>2
    <3>4. i - 1 \in 0..n - 1 /\ i - 1 \in 0..n /\ i - 1 \in Nat /\ (i - 1) + 1 = i /\ i - 1 \notin few
      BY <3>2, <3>3
    <3>5. Cardinality(used(i - 1)) >= i - 1
      <4>1. Cardinality(used(i - 1)) \in Nat
        BY <2>2, <3>4
      <4>2. ~(Cardinality(used(i - 1)) < i - 1)
        BY <3>4
      <4> HIDE DEF used
      <4> QED
        BY <3>4, <4>1, <4>2
    <3>6. PICK e \in edges : e.from \in v[i - 1] /\ e.to \notin v[i - 1]
      BY <1>2, <2>1, <3>4 DEF Closed
    <3>7. v[i] = Beyond(edges, v[i - 1])
      BY <1>1, <3>4
    <3>8. used(i - 1) \union {e} \subseteq used(i) /\ e \notin used(i - 1)
      BY <3>6, <3>7 DEF Beyond
    <3> HIDE DEF used
    <3>9. /\ IsFiniteSet(used(i - 1) \union {e})
          /\ Cardinality(used(i - 1) \union {e}) = Cardinality(used(i - 1)) + 1
      BY <2>2, <3>4, <3>8, FS_AddElement
    <3>10. Cardinality(used(i - 1) \union {e}) <= Cardinality(used(i))
      BY <2>2, <3>3, <3>8, FS_Subset
    <3>11. Cardinality(used(i)) >= i
      BY <2>2, <3>3, <3>4, <3>5, <3>9, <3>10
    <3> QED
      BY <2>2, <3>2, <3>3, <3>11
  <2>4. Cardinality(used(n)) >= n
    <3>1. n \in 0..n /\ n \notin few
      BY <2>3
    <3> QED
      BY <2>2, <3>1
  <2>5. used(n) \subseteq edges
    OBVIOUS
  <2>6. used(n) = edges
    <3> HIDE DEF used
    <3> QED
      BY <2>2, <2>4, <2>5, FS_Subset, FS_CardinalityType, SMTT(30)
  <2> QED
    BY <2>1, <2>6 DEF Closed
<1> QED
  <2>1. n \in 0..n
    OBVIOUS
  <2> QED
    BY <1>1, <1>2, <1>3, <2>1

\* What the search for a cycle of dependencies does not find is not there, nor
\* among some of the edges.
LEMMA DependencySearchIsComplete ==
  ASSUME NEW edges, IsFiniteSet(edges), NEW e, ~FindDependencyCycle(edges, e),
         NEW some \in SUBSET edges
  PROVE  ~Leads(some, e.to, e.from)
<1> DEFINE found == Within(edges, {e.to}, Cardinality(edges))
           nodes == {e.to, e.from} \union {d.from : d \in some} \union {d.to : d \in some}
<1>1. e.to \in found /\ e.from \notin found /\ Closed(edges, found)
  BY WithinIsClosed, FS_CardinalityType DEF FindDependencyCycle
<1> HIDE DEF found
<1>2. found \intersect nodes \in SUBSET nodes /\ e.to \in found \intersect nodes
  BY <1>1
<1>3. \A d \in some : d.from \in found \intersect nodes => d.to \in found \intersect nodes
  BY <1>1 DEF Closed
<1>4. e.from \notin found \intersect nodes
  BY <1>1
<1> QED
  BY <1>2, <1>3, <1>4 DEF Leads

\* Nor what the search for a cycle of parents does not find.
LEMMA ParentSearchIsComplete ==
  ASSUME NEW edges, IsFiniteSet(edges), NEW e, ~FindParentCycle(edges, e),
         NEW some \in SUBSET edges
  PROVE  ~Leads(some, e.to, e.from)
<1> DEFINE Turned(d) == [from |-> d.to, to |-> d.from]
           upwards == {Turned(d) : d \in edges}
           found == Within(upwards, {e.from}, Cardinality(edges))
           nodes == {e.to, e.from} \union {d.from : d \in some} \union {d.to : d \in some}
<1>1. IsFiniteSet(upwards) /\ Cardinality(upwards) <= Cardinality(edges)
  <2> DEFINE turn == [d \in edges |-> Turned(d)]
  <2>1. turn \in Surjection(edges, upwards)
    BY DEF Surjection
  <2> HIDE DEF upwards, turn
  <2> QED
    BY <2>1, FS_Surjection
<1>2. e.to \notin found
  BY DEF FindParentCycle
<1>3. e.from \in found /\ Closed(upwards, found)
  <2> HIDE DEF upwards
  <2> QED
    BY <1>1, WithinIsClosed, FS_CardinalityType
<1>4. \A d \in edges : d.to \in found => d.from \in found
  <2>1. ASSUME NEW d \in edges PROVE Turned(d) \in upwards /\ Turned(d).from = d.to /\ Turned(d).to = d.from
    OBVIOUS
  <2> HIDE DEF upwards, found, Turned
  <2> QED
    BY <1>3, <2>1 DEF Closed
<1> HIDE DEF found, upwards
<1>5. nodes \ found \in SUBSET nodes /\ e.to \in nodes \ found /\ e.from \notin nodes \ found
  BY <1>2, <1>3
<1>6. \A d \in some : d.from \in nodes \ found => d.to \in nodes \ found
  BY <1>4
<1> QED
  BY <1>5, <1>6 DEF Leads

-------------------------------------------------------------------------------
\* The invariant.

Event == [type : {"RelationCreated"}, edge : Edge]
           \union [type : {"RelationRemoved"}, relation : Nat]

Request == [at : {"idle", "catch up remove"}]
             \union [at : {"append create"}, edge : Edge, seen : Nat]
             \union [at : {"catch up create", "own row", "append remove"}, relation : Nat]

Typed ==
  /\ TypeOK
  /\ request \in [Caller -> Request]

\* The relations are of one kind.
OneKind == \E kind \in Kind : OfTheKind(kind)

\* What Admitted says of the edges of a relation's kind.
Passes(edges, e) ==
  /\ e.kind = "parentChild" => ~FindParentCycle(edges, e)
  /\ e.kind = "dependency" => ~FindDependencyCycle(edges, e)
  /\ e.kind = "reference" => ~HasDuplicate(edges, e)

\* The edges of a kind among the rows after n events.
EdgesAfter(events, n, kind) ==
  {d \in {events[r].edge : r \in Table(events)[n]} : d.kind = kind}

\* e passes among the rows after n events.
PassesAfter(events, n, e) == Passes(EdgesAfter(events, n, e.kind), e)

\* A request knows what it checked and what it is about.
Asked ==
  \A c \in Caller :
    /\ request[c].at = "append create" =>
         request[c].seen \in 0..shown /\ PassesAfter(log, request[c].seen, request[c].edge)
    /\ request[c].at \in {"catch up create", "own row", "append remove"} =>
         request[c].relation \in 1..Len(log) /\ Created(request[c].relation)

\* A relation whose check missed no creation passed among all there were.
PassedAmongAll(r) ==
  \E n \in 0..shown :
    /\ n < r
    /\ \A s \in 1..r - 1 : Created(s) => s <= n
    /\ PassesAfter(log, n, EdgeOf(r))

Checked == \A r \in 1..Len(log) : Created(r) /\ r \notin blind => PassedAmongAll(r)

IInv == Typed /\ OneKind /\ Asked /\ Checked /\ RemovedOnce /\ AckedIsShown

\* A log that goes on.
Extends(events, others) ==
  /\ events \in Seq(Event) /\ others \in Seq(Event)
  /\ Len(events) <= Len(others)
  /\ \A i \in 1..Len(events) : others[i] = events[i]

LEMMA TableExtends ==
  ASSUME NEW events, NEW others, Extends(events, others), NEW n \in 0..Len(events)
  PROVE  /\ Table(others)[n] = Table(events)[n]
         /\ \A e : PassesAfter(others, n, e) = PassesAfter(events, n, e)
<1>1. Table(others)[n] = Table(events)[n]
  <2>1. Len(events) \in Nat /\ \A i \in 1..Len(events) : events[i] = others[i]
    BY DEF Extends
  <2> QED
    BY <2>1, SamePrefix
<1>2. Table(events)[n] \subseteq 1..Len(events)
  <2>1. n \in Nat /\ Len(events) \in Nat
    BY DEF Extends
  <2> QED
    BY <2>1, RowsAreCreations
<1>3. {others[r].edge : r \in Table(others)[n]} = {events[r].edge : r \in Table(events)[n]}
  BY <1>1, <1>2 DEF Extends
<1> QED
  BY <1>1, <1>3 DEF PassesAfter, EdgesAfter

LEMMA Appended ==
  ASSUME NEW events \in Seq(Event), NEW e \in Event
  PROVE  /\ Extends(events, Append(events, e))
         /\ Len(Append(events, e)) = Len(events) + 1
         /\ Append(events, e)[Len(events) + 1] = e
         /\ Append(events, e) \in Seq(Event)
  BY DEF Extends

LEMMA IdleRequest ==
  Idle \in Request /\ Idle.at = "idle"
<1>1. Idle \in [at : {"idle", "catch up remove"}]
  BY DEF Idle
<1> QED
  BY <1>1 DEF Request, Idle

LEMMA LastRequest ==
  ASSUME NEW q, q = [at |-> "catch up remove"]
  PROVE  q \in Request /\ q.at = "catch up remove"
<1>1. q \in [at : {"idle", "catch up remove"}]
  OBVIOUS
<1> QED
  BY <1>1 DEF Request

LEMMA CreateRequest ==
  ASSUME NEW e \in Edge, NEW n \in Nat, NEW q,
         q = [at |-> "append create", edge |-> e, seen |-> n]
  PROVE  q \in Request /\ q.at = "append create" /\ q.edge = e /\ q.seen = n
  BY DEF Request

LEMMA LaterRequest ==
  ASSUME NEW at \in {"catch up create", "own row", "append remove"}, NEW r \in Nat, NEW q,
         q = [at |-> at, relation |-> r]
  PROVE  q \in Request /\ q.at = at /\ q.relation = r
<1>1. q \in [at : {"catch up create", "own row", "append remove"}, relation : Nat]
  OBVIOUS
<1> QED
  BY <1>1 DEF Request

LEMMA RequestIs ==
  ASSUME NEW q \in Request
  PROVE  /\ q.at = "append create" => q.edge \in Edge /\ q.seen \in Nat
         /\ q.at \in {"catch up create", "own row", "append remove"} =>
              q.relation \in Nat /\ q = [at |-> q.at, relation |-> q.relation]
<1>1. ASSUME q.at \in {"catch up create", "own row", "append remove"}
      PROVE  q \in [at : {"catch up create", "own row", "append remove"}, relation : Nat]
  BY <1>1 DEF Request
<1>2. ASSUME q.at = "append create"
      PROVE  q \in [at : {"append create"}, edge : Edge, seen : Nat]
  BY <1>2 DEF Request
<1> QED
  BY <1>1, <1>2

\* What Typed says.
LEMMA Types ==
  ASSUME Typed
  PROVE  /\ log \in Seq(Event) /\ Len(log) \in Nat /\ Extends(log, log)
         /\ shown \in 0..Len(log)
         /\ \A r \in blind \union acked : r \in 1..Len(log) /\ Created(r)
         /\ request \in [Caller -> Request]
<1>1. log \in Seq(Event)
  BY DEF Typed, TypeOK, Event
<1> QED
  BY <1>1 DEF Typed, TypeOK, Extends

-------------------------------------------------------------------------------
\* What a step keeps, by what it changes.

\* What a step may do to the log, to the read model and to the histories.
Grows ==
  /\ Extends(log, log')
  /\ shown' \in 0..Len(log') /\ shown <= shown'
  /\ blind \subseteq blind'
  /\ blind' \ blind \subseteq Len(log) + 1 .. Len(log')
  /\ request' \in [Caller -> Request]

LEMMA GrowsWhenLogStays ==
  ASSUME Typed, log' = log, shown' \in {shown, Len(log)}, blind' = blind,
         request' \in [Caller -> Request]
  PROVE  Grows
  BY Types DEF Grows

LEMMA GrowsWhenLogGrows ==
  ASSUME Typed, NEW e \in Event, log' = Append(log, e), shown' = shown,
         blind' \in {blind, blind \union {Len(log) + 1}},
         request' \in [Caller -> Request]
  PROVE  /\ Grows
         /\ Len(log') = Len(log) + 1 /\ log'[Len(log) + 1] = e
<1>1. log \in Seq(Event) /\ Len(log) \in Nat /\ shown \in 0..Len(log)
  BY Types
<1>2. Extends(log, log') /\ Len(log') = Len(log) + 1 /\ log'[Len(log) + 1] = e
  BY <1>1, Appended
<1>3. Len(log) + 1 \in Len(log) + 1 .. Len(log')
  BY <1>1, <1>2
<1> QED
  BY <1>1, <1>2, <1>3 DEF Grows

\* The events that were there are there.
LEMMA EventsStay ==
  ASSUME Typed, Grows
  PROVE  /\ Len(log) \in Nat /\ Len(log') \in Nat /\ Len(log) <= Len(log')
         /\ log' \in Seq(Event)
         /\ \A i \in 1..Len(log) : /\ i \in 1..Len(log') /\ log'[i] = log[i]
                                   /\ Created(i)' = Created(i)
                                   /\ EdgeOf(i)' = EdgeOf(i)
<1>1. /\ log \in Seq(Event) /\ log' \in Seq(Event) /\ Len(log) <= Len(log')
      /\ \A i \in 1..Len(log) : log'[i] = log[i]
  BY DEF Grows, Extends
<1> QED
  BY <1>1 DEF Created, EdgeOf

LEMMA TypesStay ==
  ASSUME Typed, Grows,
         \A r \in (blind' \ blind) \union (acked' \ acked) : r \in 1..Len(log') /\ Created(r)'
  PROVE  Typed'
<1>1. /\ log' \in Seq(Event)
      /\ \A i \in 1..Len(log) : i \in 1..Len(log') /\ Created(i)' = Created(i)
  BY EventsStay
<1>2. ASSUME NEW r \in blind' \union acked' PROVE r \in 1..Len(log') /\ Created(r)'
  <2>1. CASE r \in blind \union acked
    BY <1>1, <2>1, Types
  <2>2. CASE r \notin blind \union acked
    BY <2>2
  <2> QED
    BY <2>1, <2>2
<1>3. shown' \in 0..Len(log') /\ request' \in [Caller -> Request] /\ DOMAIN request' = Caller
  BY DEF Grows
<1> QED
  BY <1>1, <1>2, <1>3 DEF Typed, TypeOK, Event

\* A request that waits is still about what it was.
LEMMA RequestStays ==
  ASSUME Typed, Grows, Asked, NEW d \in Caller, request'[d] = request[d]
  PROVE  /\ request'[d].at = "append create" =>
              request'[d].seen \in 0..shown' /\ PassesAfter(log', request'[d].seen, request'[d].edge)
         /\ request'[d].at \in {"catch up create", "own row", "append remove"} =>
              request'[d].relation \in 1..Len(log') /\ log'[request'[d].relation].type = "RelationCreated"
<1>1. shown \in 0..Len(log) /\ shown <= shown' /\ shown' \in 0..Len(log') /\ Extends(log, log')
      /\ Len(log) \in Nat /\ Len(log') \in Nat
  BY Types, EventsStay DEF Grows
<1>2. ASSUME request[d].at = "append create"
      PROVE  request[d].seen \in 0..shown' /\ PassesAfter(log', request[d].seen, request[d].edge)
  <2>1. request[d].seen \in 0..shown /\ PassesAfter(log, request[d].seen, request[d].edge)
    BY <1>2 DEF Asked
  <2>2. request[d].seen \in 0..Len(log) /\ request[d].seen \in 0..shown'
    BY <1>1, <2>1
  <2> QED
    BY <1>1, <2>1, <2>2, TableExtends
<1>3. ASSUME request[d].at \in {"catch up create", "own row", "append remove"}
      PROVE  request[d].relation \in 1..Len(log') /\ log'[request[d].relation].type = "RelationCreated"
  <2>1. request[d].relation \in 1..Len(log) /\ Created(request[d].relation)
    BY <1>3 DEF Asked
  <2> QED
    BY <2>1, EventsStay DEF Created
<1> QED
  BY <1>2, <1>3

\* The relations whose check missed nothing.
LEMMA ChecksStay ==
  ASSUME Typed, Grows, Checked, NEW r \in 1..Len(log), Created(r), r \notin blind
  PROVE  PassedAmongAll(r)'
<1>1. PICK n \in 0..shown : /\ n < r /\ \A s \in 1..r - 1 : Created(s) => s <= n
                            /\ PassesAfter(log, n, EdgeOf(r))
  BY DEF Checked, PassedAmongAll
<1>2. shown \in 0..Len(log) /\ shown <= shown' /\ shown' \in 0..Len(log') /\ Extends(log, log')
      /\ Len(log) \in Nat /\ Len(log') \in Nat
  BY Types, EventsStay DEF Grows
<1>3. n \in 0..shown' /\ n \in 0..Len(log)
  BY <1>2
<1>4. \A s \in 1..r - 1 : Created(s)' => s <= n
  <2>1. \A s \in 1..r - 1 : s \in 1..Len(log)
    BY <1>2
  <2> QED
    BY <1>1, <2>1, EventsStay
<1>5. PassesAfter(log', n, EdgeOf(r)')
  <2>1. EdgeOf(r)' = EdgeOf(r)
    BY EventsStay
  <2>2. PassesAfter(log', n, EdgeOf(r))
    BY <1>1, <1>2, <1>3, TableExtends
  <2> QED
    BY <2>1, <2>2
<1> QED
  BY <1>1, <1>3, <1>4, <1>5 DEF PassedAmongAll

\* What is acknowledged, and what has its row.
LEMMA ShownStays ==
  ASSUME Typed, Grows, NEW r \in Nat, r \in Rows \/ Removed(r)
  PROVE  (r \in Rows \/ Removed(r))'
<1>1. shown \in Nat /\ shown' \in Nat /\ shown \in 0..shown' /\ shown \in 0..Len(log)
      /\ shown' \in 0..Len(log') /\ Extends(log, log') /\ Len(log) \in Nat /\ Len(log') \in Nat
      /\ log' \in Seq(Event)
  BY Types, EventsStay DEF Grows
<1>2. CASE Removed(r)
  BY <1>2, EventsStay DEF Removed
<1>3. CASE r \in Rows
  <2>1. r \in Table(log')[shown]
    BY <1>1, <1>3, RowsAreTable, TableExtends DEF Rows
  <2>2. CASE r \in Table(log')[shown']
    BY <2>2, RowsAreTable DEF Rows
  <2>3. ASSUME NEW i \in shown + 1..shown', log'[i].type # "RelationCreated", log'[i].relation = r
        PROVE  Removed(r)'
    <3>1. i \in 1..Len(log') /\ log'[i] \in Event
      BY <1>1
    <3>2. log'[i] = [type |-> "RelationRemoved", relation |-> r]
      BY <2>3, <3>1 DEF Event
    <3> QED
      BY <3>1, <3>2 DEF Removed
  <2> QED
    BY <1>1, <2>1, <2>2, <2>3, RowsStay
<1> QED
  BY <1>2, <1>3

LEMMA AckedStays ==
  ASSUME Typed, Grows, AckedIsShown, NEW r \in acked
  PROVE  (r \in Rows \/ Removed(r))'
<1>1. r \in 1..Len(log) /\ Len(log) \in Nat
  BY Types
<1>2. r \in Nat
  BY <1>1
<1>3. r \in Rows \/ Removed(r)
  BY DEF AckedIsShown
<1> QED
  BY <1>2, <1>3, ShownStays

-------------------------------------------------------------------------------
\* The steps.

\* An invariant of the log holds of a log that stays.
LEMMA LogsInvariants ==
  ASSUME IInv, log' = log
  PROVE  RemovedOnce' /\ \A r : Removed(r)' = Removed(r)
  BY DEF IInv, RemovedOnce, Removed, Created

\* A request moves on, and appends nothing.
LEMMA QuietStep ==
  ASSUME IInv, log' = log, shown' \in {shown, Len(log)}, blind' = blind,
         NEW c \in Caller, NEW q \in Request, request' = [request EXCEPT ![c] = q],
         q.at # "append create",
         q.at \in {"catch up create", "own row", "append remove"} =>
           q.relation \in 1..Len(log) /\ Created(q.relation),
         \A r \in acked' \ acked :
           r \in 1..Len(log) /\ Created(r) /\ (r \in Rows \/ Removed(r))'
  PROVE  IInv'
<1>1. /\ Typed /\ OneKind /\ Asked /\ Checked /\ AckedIsShown /\ Len(log) \in Nat
      /\ request \in [Caller -> Request] /\ request' \in [Caller -> Request]
      /\ request'[c] = q /\ \A d \in Caller \ {c} : request'[d] = request[d]
  BY Types DEF IInv
<1>2. Grows
  BY <1>1, GrowsWhenLogStays
<1>3. \A r \in (blind' \ blind) \union (acked' \ acked) : r \in 1..Len(log') /\ Created(r)'
  BY DEF Created
<1>4. Typed'
  BY <1>1, <1>2, <1>3, TypesStay
<1>5. OneKind'
  <2>1. PICK kind \in Kind : OfTheKind(kind)
    BY <1>1 DEF OneKind
  <2>2. \A i \in 1..Len(log') : Created(i)' => EdgeOf(i)'.kind = kind
    BY <2>1 DEF OfTheKind, Created, EdgeOf
  <2>3. ASSUME NEW d \in Caller, request'[d].at = "append create"
        PROVE  request'[d].edge.kind = kind
    BY <1>1, <2>1, <2>3 DEF OfTheKind
  <2>4. OfTheKind(kind)'
    BY <2>2, <2>3 DEF OfTheKind
  <2> QED
    BY <2>4 DEF OneKind
<1>6. Asked'
  <2>1. ASSUME NEW d \in Caller
        PROVE  /\ request'[d].at = "append create" =>
                    /\ request'[d].seen \in 0..shown'
                    /\ PassesAfter(log', request'[d].seen, request'[d].edge)
               /\ request'[d].at \in {"catch up create", "own row", "append remove"} =>
                    /\ request'[d].relation \in 1..Len(log')
                    /\ log'[request'[d].relation].type = "RelationCreated"
    <3>1. CASE d = c
      BY <1>1, <3>1 DEF Created
    <3>2. CASE d # c
      <4>1. request'[d] = request[d]
        BY <1>1, <3>2
      <4> QED
        BY <1>1, <1>2, <4>1, RequestStays
    <3> QED
      BY <3>1, <3>2
  <2> QED
    BY <2>1 DEF Asked, Created
<1>7. Checked'
  <2>1. ASSUME NEW r \in 1..Len(log'), Created(r)', r \notin blind' PROVE PassedAmongAll(r)'
    <3>1. r \in 1..Len(log) /\ Created(r) /\ r \notin blind
      BY <2>1 DEF Created
    <3> QED
      BY <1>1, <1>2, <3>1, ChecksStay
  <2> QED
    BY <2>1 DEF Checked
<1>8. AckedIsShown'
  <2>1. \A r \in acked : (r \in Rows \/ Removed(r))'
    BY <1>1, <1>2, AckedStays
  <2> QED
    BY <2>1 DEF AckedIsShown
<1> QED
  BY <1>4, <1>5, <1>6, <1>7, <1>8, LogsInvariants DEF IInv

LEMMA CheckCreateStep ==
  ASSUME IInv, NEW c \in Caller, CheckCreate(c)
  PROVE  IInv'
<1>1. /\ Typed /\ OneKind /\ Asked /\ Checked /\ AckedIsShown
      /\ request \in [Caller -> Request] /\ shown \in 0..Len(log)
  BY Types DEF IInv
<1>2. log' = log /\ shown' = shown /\ blind' = blind /\ acked' = acked
  BY DEF CheckCreate
<1>3. PICK e \in Edge :
        /\ OfTheKind(e.kind) /\ Admitted(e)
        /\ request' = [request EXCEPT ![c] = [at |-> "append create", edge |-> e, seen |-> shown]]
  BY DEF CheckCreate
<1>4. PICK n \in 0..Len(log) : n = shown
  BY <1>1
<1>5. PICK q \in Request : /\ request' = [request EXCEPT ![c] = q]
                           /\ q.at = "append create" /\ q.edge = e /\ q.seen = n
  <2> DEFINE q == [at |-> "append create", edge |-> e, seen |-> n]
  <2>1. n \in Nat
    BY <1>1, <1>4
  <2>2. q \in Request /\ q.at = "append create" /\ q.edge = e /\ q.seen = n
    BY <2>1, CreateRequest
  <2>3. request' = [request EXCEPT ![c] = q]
    BY <1>3, <1>4
  <2> HIDE DEF q
  <2> QED
    BY <2>2, <2>3
<1>6. /\ request' \in [Caller -> Request] /\ request'[c] = q
      /\ \A d \in Caller \ {c} : request'[d] = request[d]
  BY <1>1, <1>5
<1>7. Grows
  BY <1>1, <1>2, <1>6, GrowsWhenLogStays
<1>8. Typed'
  BY <1>1, <1>2, <1>7, TypesStay
<1>9. PassesAfter(log, n, e)
  <2>1. EdgesAfter(log, n, e.kind) = EdgesOfKind(e.kind)
    BY <1>4, RowsAreTable DEF EdgesAfter, EdgesOfKind, Rows, EdgeOf
  <2>2. Passes(EdgesOfKind(e.kind), e)
    BY <1>3 DEF Admitted, Passes
  <2> QED
    BY <2>1, <2>2 DEF PassesAfter
<1>10. OneKind'
  <2>1. \A i \in 1..Len(log') : Created(i)' => EdgeOf(i)'.kind = e.kind
    BY <1>2, <1>3 DEF OfTheKind, Created, EdgeOf
  <2>2. ASSUME NEW d \in Caller, request'[d].at = "append create"
        PROVE  request'[d].edge.kind = e.kind
    BY <1>3, <1>5, <1>6, <2>2 DEF OfTheKind
  <2>3. OfTheKind(e.kind)'
    BY <2>1, <2>2 DEF OfTheKind
  <2>4. e.kind \in Kind
    BY DEF Edge
  <2> QED
    BY <2>3, <2>4 DEF OneKind
<1>11. Asked'
  <2>1. ASSUME NEW d \in Caller
        PROVE  /\ request'[d].at = "append create" =>
                    /\ request'[d].seen \in 0..shown'
                    /\ PassesAfter(log', request'[d].seen, request'[d].edge)
               /\ request'[d].at \in {"catch up create", "own row", "append remove"} =>
                    /\ request'[d].relation \in 1..Len(log')
                    /\ log'[request'[d].relation].type = "RelationCreated"
    <3>1. CASE d = c
      <4>1. request'[d].at = "append create" /\ request'[d].edge = e /\ request'[d].seen = n
        BY <1>5, <1>6, <3>1
      <4>2. n \in 0..shown'
        BY <1>2, <1>4
      <4> QED
        BY <1>2, <1>9, <4>1, <4>2
    <3>2. CASE d # c
      <4>1. request'[d] = request[d]
        BY <1>6, <3>2
      <4> QED
        BY <1>1, <1>7, <4>1, RequestStays
    <3> QED
      BY <3>1, <3>2
  <2> QED
    BY <2>1 DEF Asked, Created
<1>12. Checked'
  <2>1. ASSUME NEW r \in 1..Len(log'), Created(r)', r \notin blind' PROVE PassedAmongAll(r)'
    <3>1. r \in 1..Len(log) /\ Created(r) /\ r \notin blind
      BY <1>2, <2>1 DEF Created
    <3> QED
      BY <1>1, <1>7, <3>1, ChecksStay
  <2> QED
    BY <2>1 DEF Checked
<1>13. AckedIsShown'
  <2>1. \A r \in acked : (r \in Rows \/ Removed(r))'
    BY <1>1, <1>7, AckedStays
  <2> QED
    BY <1>2, <2>1 DEF AckedIsShown
<1> QED
  BY <1>2, <1>8, <1>10, <1>11, <1>12, <1>13, LogsInvariants DEF IInv

LEMMA AppendCreateStep ==
  ASSUME IInv, NEW c \in Caller, AppendCreate(c)
  PROVE  IInv'
<1> DEFINE e == [type |-> "RelationCreated", edge |-> request[c].edge]
<1>0. PICK id \in Nat : id = Len(log) + 1
  BY Types DEF IInv
<1> DEFINE q == [at |-> "catch up create", relation |-> id]
<1>1. /\ Typed /\ OneKind /\ Asked /\ Checked /\ AckedIsShown /\ RemovedOnce
      /\ request \in [Caller -> Request] /\ shown \in 0..Len(log)
      /\ log \in Seq(Event) /\ Len(log) \in Nat
  BY Types DEF IInv
<1>2. request[c] \in Request /\ request[c].at = "append create"
  BY <1>1 DEF AppendCreate
<1>3. request[c].edge \in Edge /\ request[c].seen \in Nat
  BY <1>2, RequestIs
<1>4. e \in Event /\ e.type = "RelationCreated" /\ e.edge = request[c].edge
  BY <1>3 DEF Event
<1>5. q \in Request /\ q.at = "catch up create" /\ q.relation = id
  BY LaterRequest
<1>6. /\ log' = Append(log, e) /\ request' = [request EXCEPT ![c] = q]
      /\ shown' = shown /\ acked' = acked
      /\ blind' \in {blind, blind \union {id}}
      /\ (\E i \in request[c].seen + 1 .. Len(log) : Created(i)) => id \in blind'
  BY <1>0 DEF AppendCreate
<1> HIDE DEF e, q
<1>7. /\ request' \in [Caller -> Request] /\ request'[c] = q
      /\ \A d \in Caller \ {c} : request'[d] = request[d]
  BY <1>1, <1>5, <1>6
<1>8. Grows /\ Len(log') = id /\ log'[id] = e
  BY <1>0, <1>1, <1>4, <1>6, <1>7, GrowsWhenLogGrows
<1>9. id \in 1..Len(log') /\ id \notin 1..Len(log) /\ Created(id)' /\ EdgeOf(id)' = request[c].edge
  BY <1>0, <1>1, <1>4, <1>8 DEF Created, EdgeOf
<1>10. \A i \in 1..Len(log') : i = id \/ i \in 1..Len(log)
  BY <1>0, <1>1, <1>8
<1>11. Typed'
  <2>1. \A r \in (blind' \ blind) \union (acked' \ acked) : r = id
    BY <1>6
  <2> QED
    BY <1>1, <1>8, <1>9, <2>1, TypesStay
<1>12. OneKind'
  <2>1. PICK kind \in Kind : OfTheKind(kind)
    BY <1>1 DEF OneKind
  <2>2. request[c].edge.kind = kind
    BY <1>2, <2>1 DEF OfTheKind
  <2>3. ASSUME NEW i \in 1..Len(log'), Created(i)' PROVE EdgeOf(i)'.kind = kind
    <3>1. CASE i = id
      BY <1>9, <2>2, <3>1
    <3>2. CASE i \in 1..Len(log)
      BY <1>1, <1>8, <2>1, <2>3, <3>2, EventsStay DEF OfTheKind
    <3> QED
      BY <1>10, <3>1, <3>2
  <2>4. ASSUME NEW d \in Caller, request'[d].at = "append create"
        PROVE  request'[d].edge.kind = kind
    BY <1>5, <1>7, <2>1, <2>4 DEF OfTheKind
  <2>5. OfTheKind(kind)'
    BY <2>3, <2>4 DEF OfTheKind
  <2> QED
    BY <2>5 DEF OneKind
<1>13. Asked'
  <2>1. ASSUME NEW d \in Caller
        PROVE  /\ request'[d].at = "append create" =>
                    /\ request'[d].seen \in 0..shown'
                    /\ PassesAfter(log', request'[d].seen, request'[d].edge)
               /\ request'[d].at \in {"catch up create", "own row", "append remove"} =>
                    /\ request'[d].relation \in 1..Len(log')
                    /\ log'[request'[d].relation].type = "RelationCreated"
    <3>1. CASE d = c
      <4>1. request'[d].at = "catch up create" /\ request'[d].relation = id
        BY <1>5, <1>7, <3>1
      <4> QED
        BY <1>4, <1>8, <1>9, <4>1
    <3>2. CASE d # c
      <4>1. request'[d] = request[d]
        BY <1>7, <3>2
      <4> QED
        BY <1>1, <1>8, <4>1, RequestStays
    <3> QED
      BY <3>1, <3>2
  <2> QED
    BY <2>1 DEF Asked, Created
<1>14. Checked'
  <2>1. ASSUME NEW r \in 1..Len(log'), Created(r)', r \notin blind' PROVE PassedAmongAll(r)'
    <3>1. CASE r \in 1..Len(log)
      <4>1. Created(r) /\ r \notin blind
        BY <1>1, <1>6, <1>8, <2>1, <3>1, EventsStay
      <4> QED
        BY <1>1, <1>8, <3>1, <4>1, ChecksStay
    <3>2. CASE r = id
      <4> DEFINE n == request[c].seen
      <4>1. n \in 0..shown /\ PassesAfter(log, n, request[c].edge)
        BY <1>1, <1>2 DEF Asked
      <4>2. n \in 0..shown' /\ n < r /\ n \in 0..Len(log)
        BY <1>0, <1>1, <1>6, <3>2, <4>1
      <4>3. \A s \in 1..r - 1 : Created(s)' => s <= n
        <5>1. ASSUME NEW s \in 1..r - 1, Created(s)', ~(s <= n) PROVE FALSE
          <6>1. s \in 1..Len(log) /\ s \in n + 1 .. Len(log)
            BY <1>0, <1>1, <1>3, <3>2, <5>1
          <6>2. Created(s)
            BY <1>1, <1>8, <5>1, <6>1, EventsStay
          <6> QED
            BY <1>6, <2>1, <3>2, <6>1, <6>2
        <5> QED
          BY <5>1
      <4>4. PassesAfter(log', n, EdgeOf(r)')
        <5>1. PassesAfter(log', n, request[c].edge)
          BY <1>8, <4>1, <4>2, TableExtends DEF Grows
        <5> QED
          BY <1>9, <3>2, <5>1
      <4> HIDE DEF n
      <4> QED
        BY <4>2, <4>3, <4>4 DEF PassedAmongAll
    <3> QED
      BY <1>10, <3>1, <3>2
  <2> QED
    BY <2>1 DEF Checked
<1>15. RemovedOnce'
  <2>1. ASSUME NEW i \in 1..Len(log'), ~Created(i)' PROVE i \in 1..Len(log) /\ log'[i] = log[i] /\ ~Created(i)
    BY <1>1, <1>8, <1>9, <1>10, <2>1, EventsStay
  <2>2. ASSUME NEW i \in 1..Len(log'), ~Created(i)'
        PROVE  log'[i].relation \in 1..i - 1 /\ log'[log'[i].relation].type = "RelationCreated"
    <3>1. i \in 1..Len(log) /\ log'[i] = log[i] /\ ~Created(i)
      BY <2>1, <2>2
    <3>2. log[i].relation \in 1..i - 1 /\ log[i].relation \in 1..Len(log) /\ Created(log[i].relation)
      BY <1>1, <3>1 DEF RemovedOnce
    <3>3. log'[log[i].relation] = log[log[i].relation]
      BY <1>1, <1>8, <3>2, EventsStay
    <3> QED
      BY <3>1, <3>2, <3>3 DEF Created
  <2>3. ASSUME NEW i \in 1..Len(log'), NEW j \in 1..Len(log'), ~Created(i)', log'[i] = log'[j] PROVE i = j
    <3>1. ~Created(j)'
      BY <2>3 DEF Created
    <3>2. i \in 1..Len(log) /\ j \in 1..Len(log) /\ ~Created(i) /\ log[i] = log[j]
      BY <2>1, <2>3, <3>1
    <3> QED
      BY <1>1, <3>2 DEF RemovedOnce
  <2> QED
    BY <2>2, <2>3 DEF RemovedOnce, Created
<1>16. AckedIsShown'
  <2>1. \A r \in acked : (r \in Rows \/ Removed(r))'
    BY <1>1, <1>8, AckedStays
  <2> QED
    BY <1>6, <2>1 DEF AckedIsShown
<1> QED
  BY <1>11, <1>12, <1>13, <1>14, <1>15, <1>16 DEF IInv

LEMMA AppendRemoveStep ==
  ASSUME IInv, NEW c \in Caller, AppendRemove(c)
  PROVE  IInv'
<1>1. /\ Typed /\ OneKind /\ Asked /\ Checked /\ AckedIsShown /\ RemovedOnce
      /\ request \in [Caller -> Request] /\ log \in Seq(Event) /\ Len(log) \in Nat
  BY Types DEF IInv
<1>2. PICK x \in 1..Len(log) : x = request[c].relation /\ Created(x)
  BY <1>1 DEF Asked, AppendRemove
<1>3. CASE Removed(x)
  <2>1. /\ log' = log /\ shown' = shown /\ blind' = blind /\ acked' = acked
        /\ request' = [request EXCEPT ![c] = Idle]
    BY <1>2, <1>3 DEF AppendRemove
  <2>2. Idle \in Request /\ Idle.at = "idle"
    BY IdleRequest
  <2> QED
    BY <2>1, <2>2, QuietStep
<1>4. CASE ~Removed(x)
  <2> DEFINE e == [type |-> "RelationRemoved", relation |-> x]
             q == [at |-> "catch up remove"]
  <2>1. PICK id \in Nat : id = Len(log) + 1
    BY <1>1
  <2>2. e \in Event /\ e.type = "RelationRemoved" /\ e.relation = x
    BY DEF Event
  <2>3. q \in Request /\ q.at = "catch up remove"
    BY LastRequest
  <2>4. /\ log' = Append(log, e) /\ request' = [request EXCEPT ![c] = q]
        /\ shown' = shown /\ acked' = acked /\ blind' = blind
    BY <1>2, <1>4 DEF AppendRemove
  <2>5. \A i \in 1..Len(log) : log[i] # e
    BY <1>4 DEF Removed
  <2> HIDE DEF e, q
  <2>6. /\ request' \in [Caller -> Request] /\ request'[c] = q
        /\ \A d \in Caller \ {c} : request'[d] = request[d]
    BY <1>1, <2>3, <2>4
  <2>7. Grows /\ Len(log') = id /\ log'[id] = e
    BY <1>1, <2>1, <2>2, <2>4, <2>6, GrowsWhenLogGrows
  <2>8. id \in 1..Len(log') /\ id \notin 1..Len(log) /\ ~Created(id)'
    BY <2>1, <2>2, <2>7, <1>1 DEF Created
  <2>9. \A i \in 1..Len(log') : i = id \/ i \in 1..Len(log)
    BY <1>1, <2>1, <2>7
  <2>10. Typed'
    BY <1>1, <2>4, <2>7, TypesStay
  <2>11. OneKind'
    <3>1. PICK kind \in Kind : OfTheKind(kind)
      BY <1>1 DEF OneKind
    <3>2. ASSUME NEW i \in 1..Len(log'), Created(i)' PROVE EdgeOf(i)'.kind = kind
      <4>1. i \in 1..Len(log)
        BY <2>8, <2>9, <3>2
      <4> QED
        BY <1>1, <2>7, <3>1, <3>2, <4>1, EventsStay DEF OfTheKind
    <3>3. ASSUME NEW d \in Caller, request'[d].at = "append create"
          PROVE  request'[d].edge.kind = kind
      BY <2>3, <2>6, <3>1, <3>3 DEF OfTheKind
    <3>4. OfTheKind(kind)'
      BY <3>2, <3>3 DEF OfTheKind
    <3> QED
      BY <3>4 DEF OneKind
  <2>12. Asked'
    <3>1. ASSUME NEW d \in Caller
          PROVE  /\ request'[d].at = "append create" =>
                      /\ request'[d].seen \in 0..shown'
                      /\ PassesAfter(log', request'[d].seen, request'[d].edge)
                 /\ request'[d].at \in {"catch up create", "own row", "append remove"} =>
                      /\ request'[d].relation \in 1..Len(log')
                      /\ log'[request'[d].relation].type = "RelationCreated"
      <4>1. CASE d = c
        BY <2>3, <2>6, <4>1
      <4>2. CASE d # c
        <5>1. request'[d] = request[d]
          BY <2>6, <4>2
        <5> QED
          BY <1>1, <2>7, <5>1, RequestStays
      <4> QED
        BY <4>1, <4>2
    <3> QED
      BY <3>1 DEF Asked, Created
  <2>13. Checked'
    <3>1. ASSUME NEW r \in 1..Len(log'), Created(r)', r \notin blind' PROVE PassedAmongAll(r)'
      <4>1. r \in 1..Len(log)
        BY <2>8, <2>9, <3>1
      <4>2. Created(r) /\ r \notin blind
        BY <1>1, <2>4, <2>7, <3>1, <4>1, EventsStay
      <4> QED
        BY <1>1, <2>7, <4>1, <4>2, ChecksStay
    <3> QED
      BY <3>1 DEF Checked
  <2>14. RemovedOnce'
    <3>1. ASSUME NEW i \in 1..Len(log), ~Created(i)'
          PROVE  /\ log'[i] = log[i] /\ ~Created(i)
                 /\ log'[i].relation \in 1..i - 1 /\ log'[log'[i].relation].type = "RelationCreated"
      <4>1. log'[i] = log[i] /\ ~Created(i)
        BY <1>1, <2>7, <3>1, EventsStay
      <4>2. log[i].relation \in 1..i - 1 /\ log[i].relation \in 1..Len(log) /\ Created(log[i].relation)
        BY <1>1, <4>1 DEF RemovedOnce
      <4>3. log'[log[i].relation] = log[log[i].relation]
        BY <1>1, <2>7, <4>2, EventsStay
      <4> QED
        BY <4>1, <4>2, <4>3 DEF Created
    <3>2. log'[id].relation \in 1..id - 1 /\ log'[log'[id].relation].type = "RelationCreated"
      <4>1. log'[id].relation = x /\ x \in 1..id - 1
        BY <1>1, <1>2, <2>1, <2>2, <2>7
      <4>2. log'[x].type = "RelationCreated"
        BY <1>1, <1>2, <2>7, EventsStay DEF Created
      <4> QED
        BY <4>1, <4>2
    <3>3. ASSUME NEW i \in 1..Len(log'), NEW j \in 1..Len(log'), ~Created(i)', log'[i] = log'[j] PROVE i = j
      <4>1. ~Created(j)'
        BY <3>3 DEF Created
      <4>2. CASE i \in 1..Len(log) /\ j \in 1..Len(log)
        <5>1. log[i] = log[j] /\ ~Created(i)
          BY <3>1, <3>3, <4>1, <4>2
        <5> QED
          BY <1>1, <4>2, <5>1 DEF RemovedOnce
      <4>3. CASE i \in 1..Len(log) /\ j = id
        BY <2>5, <2>7, <3>1, <3>3, <4>3
      <4>4. CASE i = id /\ j \in 1..Len(log)
        BY <2>5, <2>7, <3>1, <3>3, <4>1, <4>4
      <4> QED
        BY <2>9, <4>2, <4>3, <4>4
    <3>4. ASSUME NEW i \in 1..Len(log'), ~Created(i)'
          PROVE  log'[i].relation \in 1..i - 1 /\ log'[log'[i].relation].type = "RelationCreated"
      BY <2>9, <3>1, <3>2, <3>4
    <3> QED
      BY <3>3, <3>4 DEF RemovedOnce, Created
  <2>15. AckedIsShown'
    <3>1. \A r \in acked : (r \in Rows \/ Removed(r))'
      BY <1>1, <2>7, AckedStays
    <3> QED
      BY <2>4, <3>1 DEF AckedIsShown
  <2> QED
    BY <2>10, <2>11, <2>12, <2>13, <2>14, <2>15 DEF IInv
<1> QED
  BY <1>3, <1>4

\* The row is there once the read model has caught up, if it is not one of a
\* parent.
LEMMA OwnRow ==
  ASSUME IInv, NEW r \in 1..Len(log), Created(r), EdgeOf(r).kind # "parentChild",
         log' = log, shown' = Len(log)
  PROVE  (r \in Rows \/ Removed(r))'
<1>1. log \in Seq(Event) /\ Len(log) \in Nat
  BY Types DEF IInv
<1>2. r \in Nat /\ r # 0 /\ r \in 0..Len(log)
  BY <1>1
<1>3. r \in Table(log)[r]
  BY <1>2, RowsAppear DEF Created, EdgeOf
<1>4. CASE r \in Table(log)[Len(log)]
  BY <1>4, RowsAreTable DEF Rows
<1>5. ASSUME NEW i \in r + 1..Len(log), log[i].type # "RelationCreated", log[i].relation = r
      PROVE  Removed(r)'
  <2>1. i \in 1..Len(log) /\ log[i] \in Event
    BY <1>1, <1>2
  <2>2. log[i] = [type |-> "RelationRemoved", relation |-> r]
    BY <1>5, <2>1 DEF Event
  <2> QED
    BY <2>1, <2>2 DEF Removed
<1> QED
  BY <1>1, <1>2, <1>3, <1>4, <1>5, RowsStay

LEMMA CatchUpCreateStep ==
  ASSUME IInv, NEW c \in Caller, CatchUpCreate(c)
  PROVE  IInv'
<1>1. /\ Asked /\ request \in [Caller -> Request] /\ Len(log) \in Nat
      /\ log' = log /\ shown' = Len(log) /\ blind' = blind
  BY Types DEF IInv, CatchUpCreate
<1>2. /\ request[c] \in Request /\ request[c].at = "catch up create"
      /\ request[c].relation \in 1..Len(log) /\ Created(request[c].relation)
  BY <1>1 DEF Asked, CatchUpCreate
<1>3. PICK x \in 1..Len(log) : x = request[c].relation /\ Created(x)
  BY <1>2
<1> x \in Nat
  BY <1>1
<1>4. CASE EdgeOf(x).kind = "parentChild"
  <2> DEFINE q == [request[c] EXCEPT !.at = "own row"]
  <2>1. request[c] \in [at : {"catch up create", "own row", "append remove"}, relation : Nat]
    BY <1>2 DEF Request
  <2>2. q \in Request /\ q.at = "own row" /\ q.relation = x
    <3>1. q \in [at : {"catch up create", "own row", "append remove"}, relation : Nat]
      BY <2>1
    <3>2. q.at = "own row" /\ q.relation = x
      BY <1>3, <2>1
    <3> HIDE DEF q
    <3> QED
      BY <3>1, <3>2 DEF Request
  <2>3. request' = [request EXCEPT ![c] = q] /\ acked' = acked
    BY <1>1, <1>3, <1>4 DEF CatchUpCreate
  <2> HIDE DEF q
  <2> QED
    BY <1>1, <1>3, <2>2, <2>3, QuietStep
<1>5. CASE EdgeOf(x).kind # "parentChild"
  <2>1. request' = [request EXCEPT ![c] = Idle] /\ acked' = acked \union {x}
    BY <1>3, <1>5 DEF CatchUpCreate
  <2>2. Idle \in Request /\ Idle.at = "idle"
    BY IdleRequest
  <2>3. (x \in Rows \/ Removed(x))'
    BY <1>1, <1>3, <1>5, OwnRow
  <2>4. \A r \in acked' \ acked : r \in 1..Len(log) /\ Created(r) /\ (r \in Rows \/ Removed(r))'
    <3>1. \A r \in acked' \ acked : r = x
      BY <2>1
    <3> QED
      BY <1>3, <2>3, <3>1
  <2> QED
    BY <1>1, <2>1, <2>2, <2>4, QuietStep
<1> QED
  BY <1>4, <1>5

LEMMA ReadOwnRowStep ==
  ASSUME IInv, NEW c \in Caller, ReadOwnRow(c)
  PROVE  IInv'
<1>1. /\ log' = log /\ shown' = shown /\ blind' = blind
      /\ request' = [request EXCEPT ![c] = Idle]
      /\ acked' = IF request[c].relation \in Rows THEN acked \union {request[c].relation} ELSE acked
  BY DEF ReadOwnRow
<1>2. PICK x \in 1..Len(log) : x = request[c].relation /\ Created(x)
  BY DEF IInv, Asked, ReadOwnRow
<1>3. Idle \in Request /\ Idle.at = "idle"
  BY IdleRequest
<1>4. Rows' = Rows
  BY <1>1, RowsAreTable DEF Rows
<1>5. \A r \in acked' \ acked : r = x /\ r \in Rows
  BY <1>1, <1>2
<1>6. \A r \in acked' \ acked : r \in 1..Len(log) /\ Created(r) /\ (r \in Rows \/ Removed(r))'
  BY <1>2, <1>4, <1>5
<1> QED
  BY <1>1, <1>3, <1>6, QuietStep

LEMMA CheckRemoveStep ==
  ASSUME IInv, NEW c \in Caller, CheckRemove(c)
  PROVE  IInv'
<1>1. log' = log /\ shown' = shown /\ blind' = blind /\ acked' = acked
  BY DEF CheckRemove
<1>2. PICK x \in Rows : request' = [request EXCEPT ![c] = [at |-> "append remove", relation |-> x]]
  BY DEF CheckRemove
<1>3. x \in 1..Len(log) /\ Created(x) /\ x \in Nat
  <2>1. shown \in 0..Len(log) /\ Len(log) \in Nat /\ shown \in Nat
    BY Types DEF IInv
  <2>2. x \in 1..shown /\ log[x].type = "RelationCreated"
    BY <1>2, <2>1, RowsAreTable, RowsAreCreations DEF Rows
  <2> QED
    BY <2>1, <2>2 DEF Created
<1> DEFINE q == [at |-> "append remove", relation |-> x]
<1>4. q \in Request /\ q.at = "append remove" /\ q.relation = x
  BY <1>3, LaterRequest
<1>5. request' = [request EXCEPT ![c] = q]
  BY <1>2
<1> HIDE DEF q
<1> QED
  BY <1>1, <1>3, <1>4, <1>5, QuietStep

LEMMA LastSteps ==
  ASSUME IInv, NEW c \in Caller, CatchUpRemove(c) \/ Abandon(c)
  PROVE  IInv'
<1>1. /\ log' = log /\ shown' \in {shown, Len(log)} /\ blind' = blind /\ acked' = acked
      /\ request' = [request EXCEPT ![c] = Idle]
  BY DEF CatchUpRemove, Abandon
<1>2. Idle \in Request /\ Idle.at = "idle"
  BY IdleRequest
<1> QED
  BY <1>1, <1>2, QuietStep

LEMMA Stuttering ==
  ASSUME IInv, UNCHANGED vars
  PROVE  IInv'
<1>1. RowsAfter' = RowsAfter
  BY RowsAreTable DEF vars
<1>2. UNCHANGED <<log, shown, request, blind, acked>> /\ Rows' = Rows
  BY <1>1 DEF vars, Rows
<1>3. Typed'
  BY <1>2 DEF IInv, Typed, TypeOK, Created
<1>4. OneKind'
  BY <1>2 DEF IInv, OneKind, OfTheKind, Created, EdgeOf
<1>5. Asked'
  BY <1>2 DEF IInv, Asked, Created
<1>6. Checked'
  BY <1>2 DEF IInv, Checked, PassedAmongAll, Created, EdgeOf
<1>7. RemovedOnce' /\ AckedIsShown'
  BY <1>2 DEF IInv, RemovedOnce, AckedIsShown, Removed, Created
<1> QED
  BY <1>3, <1>4, <1>5, <1>6, <1>7 DEF IInv

LEMMA Starts == Init => IInv
<1> SUFFICES ASSUME Init PROVE IInv
  OBVIOUS
<1>1. log = << >> /\ Len(log) = 0 /\ shown = 0 /\ blind = {} /\ acked = {}
  BY DEF Init
<1>2. \A c \in Caller : request[c] = Idle
  BY DEF Init
<1>3. Typed
  <2>1. request \in [Caller -> Request]
    BY IdleRequest DEF Init
  <2>2. TypeOK
    BY <1>1 DEF TypeOK, Init
  <2> QED
    BY <2>1, <2>2 DEF Typed
<1>4. OneKind
  <2>1. \A i : i \notin 1..Len(log)
    BY <1>1
  <2>2. \A c \in Caller : request[c].at # "append create"
    BY <1>2, IdleRequest
  <2>3. OfTheKind("parentChild")
    BY <2>1, <2>2 DEF OfTheKind
  <2> QED
    BY <2>3 DEF OneKind, Kind
<1>5. Asked
  BY <1>2, IdleRequest DEF Asked
<1>6. Checked /\ RemovedOnce /\ AckedIsShown
  BY <1>1 DEF Checked, RemovedOnce, AckedIsShown
<1> QED
  BY <1>3, <1>4, <1>5, <1>6 DEF IInv

LEMMA Inductive == IInv /\ [Next]_vars => IInv'
<1> SUFFICES ASSUME IInv, [Next]_vars PROVE IInv'
  OBVIOUS
<1>1. CASE UNCHANGED vars
  BY <1>1, Stuttering
<1>2. ASSUME NEW c \in Caller,
             \/ CheckCreate(c) \/ AppendCreate(c) \/ CatchUpCreate(c) \/ ReadOwnRow(c)
             \/ CheckRemove(c) \/ AppendRemove(c) \/ CatchUpRemove(c) \/ Abandon(c)
      PROVE  IInv'
  BY <1>2, CheckCreateStep, AppendCreateStep, CatchUpCreateStep, ReadOwnRowStep,
     CheckRemoveStep, AppendRemoveStep, LastSteps
<1> QED
  BY <1>1, <1>2 DEF Next

LEMMA Invariant == Spec => []IInv
  BY Starts, Inductive, PTL DEF Spec

-------------------------------------------------------------------------------
\* What the invariant says of the read model.

\* The edges of the rows after n events are finitely many.
LEMMA FewEdges ==
  ASSUME NEW events, NEW n \in Nat, NEW kind
  PROVE  IsFiniteSet(EdgesAfter(events, n, kind))
<1> DEFINE rows == Table(events)[n]
           all == {events[r].edge : r \in rows}
           edge == [r \in rows |-> events[r].edge]
<1>1. IsFiniteSet(rows)
  <2>1. IsFiniteSet(1..n)
    BY FS_Interval
  <2>2. rows \subseteq 1..n
    BY RowsAreCreations
  <2> QED
    BY <2>1, <2>2, FS_Subset
<1>2. edge \in Surjection(rows, all)
  BY DEF Surjection
<1>3. IsFiniteSet(all)
  <2> HIDE DEF rows, all, edge
  <2> QED
    BY <1>1, <1>2, FS_Surjection
<1>4. {d \in all : d.kind = kind} \subseteq all
  OBVIOUS
<1> HIDE DEF all
<1> QED
  BY <1>3, <1>4, FS_Subset DEF all, EdgesAfter

\* A relation that is not blind passed among all the rows created before it.
LEMMA PassedEarlier ==
  ASSUME IInv, NEW r \in Rows \ blind
  PROVE  \E edges : /\ IsFiniteSet(edges)
                    /\ Earlier(r) \subseteq edges
                    /\ Passes(edges, EdgeOf(r))
<1>1. /\ shown \in 0..Len(log) /\ Len(log) \in Nat /\ shown \in Nat
      /\ Checked /\ OneKind /\ Rows = Table(log)[shown]
  BY Types, RowsAreTable DEF IInv, Rows
<1>2. \A s \in Rows : s \in 1..shown /\ s \in 1..Len(log) /\ Created(s)
  BY <1>1, RowsAreCreations DEF Created
<1>3. PICK n \in 0..shown : /\ n < r
                            /\ \A s \in 1..r - 1 : Created(s) => s <= n
                            /\ PassesAfter(log, n, EdgeOf(r))
  BY <1>1, <1>2 DEF Checked, PassedAmongAll
<1> DEFINE edges == EdgesAfter(log, n, EdgeOf(r).kind)
<1>4. IsFiniteSet(edges)
  <2>1. n \in Nat
    BY <1>1
  <2> QED
    BY <2>1, FewEdges
<1>5. Passes(edges, EdgeOf(r))
  BY <1>3 DEF PassesAfter
<1>6. ASSUME NEW s \in Rows, s < r PROVE EdgeOf(s) \in edges
  <2>1. s \in 1..r - 1 /\ s <= n
    BY <1>2, <1>3, <1>6
  <2>2. s \in Table(log)[n]
    BY <1>1, <1>6, <2>1, RowsWereThere
  <2>3. EdgeOf(s).kind = EdgeOf(r).kind
    BY <1>1, <1>2 DEF OneKind, OfTheKind
  <2> QED
    BY <2>2, <2>3 DEF EdgeOf, EdgesAfter
<1> HIDE DEF edges
<1>7. Earlier(r) \subseteq edges
  BY <1>6 DEF Earlier
<1> QED
  BY <1>4, <1>5, <1>7

LEMMA NoCycle ==
  IInv => NoCycleClosedKnowingly
<1> SUFFICES ASSUME IInv, NEW r \in Rows \ blind, EdgeOf(r).kind # "reference"
             PROVE  ~Leads(Earlier(r), EdgeOf(r).to, EdgeOf(r).from)
  BY DEF NoCycleClosedKnowingly
<1>1. PICK edges : IsFiniteSet(edges) /\ Earlier(r) \in SUBSET edges /\ Passes(edges, EdgeOf(r))
  BY PassedEarlier
<1>2. EdgeOf(r).kind \in Kind
  <2>1. OneKind /\ shown \in 0..Len(log) /\ Len(log) \in Nat /\ shown \in Nat
    BY Types DEF IInv
  <2>2. r \in 1..Len(log) /\ Created(r)
    BY <2>1, RowsAreTable, RowsAreCreations DEF Rows, Created
  <2> QED
    BY <2>1, <2>2 DEF OneKind, OfTheKind
<1>3. CASE EdgeOf(r).kind = "parentChild"
  BY <1>1, <1>3, ParentSearchIsComplete DEF Passes
<1>4. CASE EdgeOf(r).kind = "dependency"
  BY <1>1, <1>4, DependencySearchIsComplete DEF Passes
<1> QED
  BY <1>2, <1>3, <1>4 DEF Kind

LEMMA OneReference ==
  IInv => NoSecondReference
<1> SUFFICES ASSUME IInv, NEW r \in Rows \ blind, EdgeOf(r).kind = "reference",
                    NEW e \in Earlier(r)
             PROVE  {e.from, e.to} # {EdgeOf(r).from, EdgeOf(r).to}
  BY DEF NoSecondReference
<1>1. PICK edges : Earlier(r) \subseteq edges /\ Passes(edges, EdgeOf(r))
  BY PassedEarlier
<1> QED
  BY <1>1 DEF Passes, HasDuplicate

LEMMA OnlyParent ==
  IInv => OneParent
<1> SUFFICES ASSUME IInv, NEW r \in Rows, NEW s \in Rows,
                    EdgeOf(r).kind = "parentChild", EdgeOf(r).to = EdgeOf(s).to
             PROVE  r = s
  BY DEF OneParent
<1>1. OneKind /\ shown \in 0..Len(log) /\ Len(log) \in Nat /\ shown \in Nat
  BY Types DEF IInv
<1>2. r \in Table(log)[shown] /\ s \in Table(log)[shown]
  BY RowsAreTable DEF Rows
<1>3. r \in 1..Len(log) /\ Created(r) /\ s \in 1..Len(log) /\ Created(s)
  BY <1>1, <1>2, RowsAreCreations DEF Created
<1>4. EdgeOf(s).kind = "parentChild"
  BY <1>1, <1>3 DEF OneKind, OfTheKind
<1> QED
  BY <1>1, <1>2, <1>4, TableHasOneParent DEF EdgeOf

-------------------------------------------------------------------------------
\* Whatever the interleaving of the requests, an object has one parent in
\* relations_view: the projection's insert does nothing for a second one.
THEOREM OneParentAlways == Spec => []OneParent
  BY Invariant, OnlyParent, PTL

\* createRelation's searches miss no cycle, of whatever length and among
\* whatever rows: only a relation whose check did not see an earlier creation
\* closes one.
THEOREM NoCycleAlways == Spec => []NoCycleClosedKnowingly
  BY Invariant, NoCycle, PTL

\* And only such a relation is a second reference between two objects.
THEOREM OneReferenceAlways == Spec => []NoSecondReference
  BY Invariant, OneReference, PTL

\* A relation that was answered with success has its row until it is removed,
\* and a relation's stream is a creation and at most one removal.
THEOREM AnswersHold == Spec => [](AckedIsShown /\ RemovedOnce)
<1>1. IInv => AckedIsShown /\ RemovedOnce
  BY DEF IInv
<1> QED
  BY <1>1, Invariant, PTL

THEOREM TypeCorrect == Spec => []TypeOK
<1>1. IInv => TypeOK
  BY DEF IInv, Typed
<1> QED
  BY <1>1, Invariant, PTL

-------------------------------------------------------------------------------
\* The field values of a task.

CONSTANTS Refresh, MaxWrites, MaxCalls, MaxMishaps
VARIABLES timer, locked, refresh, occurrences, relations, writes, calls, mishaps, lost

O == INSTANCE ObjectFields

Change == [field : O!Raw, value : Nat]
            \union [field : {"status"}, value : {"open", "done"}]
            \union [field : {"total", "ai"}, value : [O!Raw -> Nat]]

Field == O!Raw \union {"status", "total", "ai"}
Worth(f) == IF f \in O!Raw THEN Nat ELSE IF f = "status" THEN {"open", "done"} ELSE [O!Raw -> Nat]
Setting(s, f) == {i \in DOMAIN s : s[i].field = f}

LEMMA Greatest ==
  ASSUME NEW n \in Nat, NEW some \in SUBSET (1..n), some # {}
  PROVE  \E m \in some : \A i \in some : m >= i
  <1>1. PICK less : less = {n - i : i \in some}
    OBVIOUS
  <1>2. less \in SUBSET Nat /\ less # {}
    <2>1. ASSUME NEW k \in less
          PROVE  k \in Nat
      <3>1. PICK i \in some : k = n - i
        BY <1>1, <2>1
      <3>2. i \in 1..n
        OBVIOUS
      <3> QED BY <3>1, <3>2
    <2> QED BY <1>1, <2>1
  <1>3. PICK l \in less : \A k \in less : l <= k
    BY <1>2, Least
  <1>4. PICK m \in some : l = n - m
    BY <1>1, <1>3
  <1>5. ASSUME NEW i \in some
        PROVE  m >= i
    <2>1. n - i \in less
      BY <1>1
    <2>2. n - m <= n - i
      BY <1>3, <1>4, <2>1
    <2>3. m \in Int /\ i \in Int /\ n \in Int
      OBVIOUS
    <2> QED BY <2>2, <2>3
  <1> QED BY <1>5

LEMMA LatestSetting ==
  ASSUME NEW s \in Seq(Change), NEW f, Setting(s, f) # {}
  PROVE  /\ O!Max(Setting(s, f)) \in Setting(s, f)
         /\ \A i \in Setting(s, f) : O!Max(Setting(s, f)) >= i
  <1>1. Setting(s, f) \in SUBSET (1..Len(s)) /\ Len(s) \in Nat
    BY DEF Setting
  <1>2. \E m \in Setting(s, f) : \A i \in Setting(s, f) : m >= i
    BY <1>1, Greatest
  <1> QED BY <1>2 DEF O!Max

LEMMA ValueTyped ==
  ASSUME NEW s \in Seq(Change), NEW f \in Field
  PROVE  O!ValueIn(s, f) \in Worth(f)
  <1>1. CASE Setting(s, f) = {}
    <2>1. O!ValueIn(s, f) = O!Unset(f)
      BY <1>1 DEF O!ValueIn, Setting
    <2> QED BY <2>1 DEF O!Unset, Worth, Field, O!Raw
  <1>2. CASE Setting(s, f) # {}
    <2>1. PICK i \in Setting(s, f) : i = O!Max(Setting(s, f))
      BY <1>2, LatestSetting
    <2>2. O!ValueIn(s, f) = s[i].value
      BY <1>2, <2>1 DEF O!ValueIn, Setting
    <2>3. s[i] \in Change /\ s[i].field = f
      BY DEF Setting
    <2> QED BY <2>2, <2>3 DEF Change, Worth, Field, O!Raw
  <1> QED BY <1>1, <1>2

\* A change more is the value of its field, and of no other.
LEMMA ValueAfter ==
  ASSUME NEW s \in Seq(Change), NEW e \in Change, NEW f
  PROVE  O!ValueIn(Append(s, e), f) = IF e.field = f THEN e.value ELSE O!ValueIn(s, f)
  <1>1. PICK t, n : t = Append(s, e) /\ n = Len(s) + 1
    OBVIOUS
  <1>2. /\ t \in Seq(Change) /\ n \in Nat \ {0} /\ DOMAIN t = 1..n /\ t[n] = e
        /\ DOMAIN s = 1..n - 1 /\ \A i \in 1..n - 1 : t[i] = s[i]
    BY <1>1
  <1>3. CASE e.field = f
    <2>1. n \in Setting(t, f) /\ \A i \in Setting(t, f) : i \in 1..n
      BY <1>2, <1>3 DEF Setting
    <2>2. PICK m \in Setting(t, f) : m = O!Max(Setting(t, f)) /\ m >= n
      BY <1>2, <2>1, LatestSetting
    <2>3. m = n
      <3>1. m \in 1..n
        BY <2>1
      <3> QED BY <1>2, <2>2, <3>1
    <2> QED BY <1>1, <1>2, <1>3, <2>1, <2>2, <2>3 DEF O!ValueIn, Setting
  <1>4. CASE e.field # f
    <2>1. Setting(t, f) = Setting(s, f)
      BY <1>2, <1>4 DEF Setting
    <2>2. CASE Setting(s, f) = {}
      BY <1>1, <1>4, <2>1, <2>2 DEF O!ValueIn, Setting
    <2>3. CASE Setting(s, f) # {}
      <3>1. PICK m \in Setting(s, f) : m = O!Max(Setting(s, f))
        BY <2>3, LatestSetting
      <3>2. O!ValueIn(t, f) = t[m].value /\ O!ValueIn(s, f) = s[m].value
        BY <2>1, <2>3, <3>1 DEF O!ValueIn, Setting
      <3>3. m \in 1..n - 1
        BY <1>2, <3>1 DEF Setting
      <3> QED BY <1>1, <1>2, <1>4, <3>2, <3>3
    <2> QED BY <2>2, <2>3
  <1> QED BY <1>3, <1>4

-------------------------------------------------------------------------------
\* What is in the stream stays where it is, and what was before it as well.
Continues(s, t) ==
  /\ s \in Seq(Change) /\ t \in Seq(Change)
  /\ Len(s) \in Nat /\ Len(t) \in Nat /\ Len(s) <= Len(t)
  /\ \A i \in 1..Len(s) : t[i] = s[i] /\ SubSeq(t, 1, i - 1) = SubSeq(s, 1, i - 1)

LEMMA AppendContinues ==
  ASSUME NEW s \in Seq(Change), NEW e \in Change
  PROVE  /\ Continues(s, Append(s, e))
         /\ Len(Append(s, e)) = Len(s) + 1
         /\ Append(s, e)[Len(s) + 1] = e
         /\ SubSeq(Append(s, e), 1, Len(s)) = s
  <1>1. PICK t, n : t = Append(s, e) /\ n = Len(s)
    OBVIOUS
  <1>2. /\ t \in Seq(Change) /\ Len(t) = n + 1 /\ n \in Nat
        /\ t[n + 1] = e /\ \A i \in 1..n : t[i] = s[i]
    BY <1>1
  <1>3. ASSUME NEW m \in 0..n
        PROVE  SubSeq(t, 1, m) = SubSeq(s, 1, m)
    <2>1. /\ \A i \in 1..m : t[i] \in Change /\ s[i] \in Change /\ t[i] = s[i]
          /\ m \in Int /\ 1 \in Int
      BY <1>1, <1>2
    <2>2. /\ SubSeq(t, 1, m) \in Seq(Change) /\ SubSeq(s, 1, m) \in Seq(Change)
          /\ Len(SubSeq(t, 1, m)) = m /\ Len(SubSeq(s, 1, m)) = m
          /\ \A i \in 1..m : SubSeq(t, 1, m)[i] = t[i] /\ SubSeq(s, 1, m)[i] = s[i]
      BY <2>1, SubSeqProperties
    <2>3. PICK a, b : a = SubSeq(t, 1, m) /\ b = SubSeq(s, 1, m)
      OBVIOUS
    <2>4. a \in Seq(Change) /\ b \in Seq(Change) /\ Len(a) = Len(b) /\ \A i \in 1..Len(a) : a[i] = b[i]
      BY <2>1, <2>2, <2>3
    <2>5. a = b
      BY <2>4, SeqEqual
    <2> QED BY <2>3, <2>5
  <1>4. SubSeq(s, 1, n) = s
    BY <1>1, SubSeqFull
  <1>5. ASSUME NEW i \in 1..n
        PROVE  t[i] = s[i] /\ SubSeq(t, 1, i - 1) = SubSeq(s, 1, i - 1)
    <2>1. i - 1 \in 0..n
      BY <1>2
    <2> QED BY <1>2, <1>3, <2>1
  <1>6. SubSeq(t, 1, n) = s
    BY <1>2, <1>3, <1>4
  <1> QED BY <1>1, <1>2, <1>5, <1>6 DEF Continues

LEMMA ContinuesOn ==
  ASSUME NEW s, NEW t, NEW u, Continues(s, t), Continues(t, u)
  PROVE  Continues(s, u)
  <1>1. /\ Len(s) <= Len(u)
        /\ \A i \in 1..Len(s) : i \in 1..Len(t)
    BY DEF Continues
  <1> QED BY <1>1 DEF Continues

LEMMA ItselfContinues ==
  ASSUME NEW s \in Seq(Change)
  PROVE  Continues(s, s)
  BY DEF Continues

LEMMA CompletesStill ==
  ASSUME NEW s, NEW t, Continues(s, t), NEW i \in 1..Len(s)
  PROVE  O!Completes(s, i) = O!Completes(t, i)
  BY DEF Continues, O!Completes

LEMMA CausesStill ==
  ASSUME NEW s, NEW t, Continues(s, t), NEW k, O!Causes(s, k)
  PROVE  O!Causes(t, k)
  <1>1. CASE k \in O!Elsewhere
    BY <1>1 DEF O!Causes
  <1>2. CASE k \notin O!Elsewhere
    <2>1. k \in 1..Len(s) /\ O!Completes(s, k) /\ DOMAIN t = 1..Len(t)
      BY <1>2 DEF O!Causes, Continues
    <2>2. k \in DOMAIN t
      BY <2>1 DEF Continues
    <2>3. O!Completes(t, k)
      BY <2>1, CompletesStill
    <2> QED BY <2>2, <2>3 DEF O!Causes
  <1> QED BY <1>1, <1>2

-------------------------------------------------------------------------------
\* The three kinds of writes, and what each leaves true of the stream.

Current(s) == O!ValueIn(s, "total") = O!TotalIn(s)
Faithful(s) ==
  \A i \in 1..Len(s) : s[i].field = "ai" => s[i].value = O!ValueIn(SubSeq(s, 1, i - 1), "total")

RawWrite(s, f) == O!Event(f, Len(s) + 1)
TotalWrite(s, f) == O!Event("total", [O!TotalIn(s) EXCEPT ![f] = Len(s) + 1])

LEMMA TotalTyped ==
  ASSUME NEW s \in Seq(Change)
  PROVE  O!TotalIn(s) \in [O!Raw -> Nat]
  <1>1. \A f \in O!Raw : O!ValueIn(s, f) \in Nat
    BY ValueTyped DEF Worth, Field
  <1> QED BY <1>1 DEF O!TotalIn

LEMMA EventTyped ==
  ASSUME NEW f \in Field, NEW v \in Worth(f)
  PROVE  /\ O!Event(f, v) \in Change
         /\ O!Event(f, v).field = f /\ O!Event(f, v).value = v
  BY DEF O!Event, Change, Field, Worth, O!Raw

LEMMA FaithfulOn ==
  ASSUME NEW s \in Seq(Change), NEW e \in Change, Faithful(s),
         e.field = "ai" => e.value = O!ValueIn(s, "total")
  PROVE  Faithful(Append(s, e))
  <1>1. PICK t, n : t = Append(s, e) /\ n = Len(s)
    OBVIOUS
  <1>2. /\ Continues(s, t) /\ Len(t) = n + 1 /\ t[n + 1] = e
        /\ SubSeq(t, 1, n) = s /\ n \in Nat
    BY <1>1, AppendContinues
  <1>3. ASSUME NEW i \in 1..Len(t), t[i].field = "ai"
        PROVE  t[i].value = O!ValueIn(SubSeq(t, 1, i - 1), "total")
    <2>1. CASE i \in 1..n
      BY <1>1, <1>2, <1>3, <2>1 DEF Continues, Faithful
    <2>2. CASE i = n + 1
      <3>1. i - 1 = n
        BY <1>2, <2>2
      <3> QED BY <1>2, <1>3, <2>2, <3>1
    <2> QED BY <1>2, <2>1, <2>2
  <1> QED BY <1>1, <1>3 DEF Faithful

\* A raw value and the total that it changes, in one batch.
BatchWrite(s, f, t) == t = Append(Append(s, RawWrite(s, f)), TotalWrite(s, f))

LEMMA RawWritten ==
  ASSUME NEW s \in Seq(Change), NEW f \in O!Raw, NEW t, BatchWrite(s, f, t), Faithful(s)
  PROVE  /\ Continues(s, t) /\ Len(t) = Len(s) + 2
         /\ t[Len(s) + 1].field = f /\ t[Len(s) + 2].field = "total"
         /\ Current(t) /\ Faithful(t)
         /\ O!ValueIn(t, "ai") = O!ValueIn(s, "ai")
  <1>1. PICK n, a, b, u : n = Len(s) /\ a = RawWrite(s, f) /\ b = TotalWrite(s, f) /\ u = Append(s, a)
    OBVIOUS
  <1>2. n \in Nat /\ n + 1 \in Nat
    BY <1>1
  <1>3. [O!TotalIn(s) EXCEPT ![f] = n + 1] \in [O!Raw -> Nat]
    BY <1>2, TotalTyped
  <1>4. a \in Change /\ a.field = f /\ a.value = n + 1
    BY <1>1, <1>2, EventTyped DEF Worth, Field, RawWrite
  <1>5. b \in Change /\ b.field = "total" /\ b.value = [O!TotalIn(s) EXCEPT ![f] = n + 1]
    <2>1. "total" \in Field /\ Worth("total") = [O!Raw -> Nat]
      BY DEF Worth, Field, O!Raw
    <2> QED BY <1>1, <1>3, <2>1, EventTyped DEF TotalWrite
  <1>6. u \in Seq(Change) /\ t = Append(u, b)
    BY <1>1, <1>4 DEF BatchWrite
  <1>7. Continues(s, u) /\ Continues(u, t) /\ Len(u) = n + 1 /\ Len(t) = Len(u) + 1
        /\ u[n + 1] = a /\ t[Len(u) + 1] = b
    BY <1>1, <1>4, <1>5, <1>6, AppendContinues
  <1>8. Len(t) = n + 2 /\ t[n + 2] = b /\ t[n + 1] = a
    BY <1>2, <1>7 DEF Continues
  <1>9. \A g : O!ValueIn(t, g) = IF g = "total" THEN b.value ELSE IF g = f THEN n + 1 ELSE O!ValueIn(s, g)
    <2>1. \A g : O!ValueIn(u, g) = IF a.field = g THEN a.value ELSE O!ValueIn(s, g)
      BY <1>1, <1>4, ValueAfter
    <2>2. \A g : O!ValueIn(t, g) = IF b.field = g THEN b.value ELSE O!ValueIn(u, g)
      BY <1>5, <1>6, ValueAfter
    <2> QED BY <1>4, <1>5, <2>1, <2>2
  <1>10. O!TotalIn(t) = [O!TotalIn(s) EXCEPT ![f] = n + 1]
    <2>1. "total" \notin O!Raw
      BY DEF O!Raw
    <2>2. \A g \in O!Raw : O!ValueIn(t, g) = IF g = f THEN n + 1 ELSE O!ValueIn(s, g)
      BY <1>9, <2>1
    <2> QED BY <2>2 DEF O!TotalIn
  <1>11. Current(t)
    BY <1>5, <1>9, <1>10 DEF Current
  <1>12. Faithful(t)
    <2>1. a.field # "ai" /\ b.field # "ai"
      BY <1>4, <1>5 DEF O!Raw
    <2>2. Faithful(u)
      BY <1>1, <1>4, <2>1, FaithfulOn
    <2> QED BY <1>5, <1>6, <2>1, <2>2, FaithfulOn
  <1>13. "ai" # f
    BY DEF O!Raw
  <1> QED BY <1>1, <1>4, <1>5, <1>7, <1>8, <1>9, <1>11, <1>12, <1>13, ContinuesOn

\* A status, or the model's value.
OneWrite(s, e, t) ==
  /\ t = Append(s, e)
  /\ e.field \in {"status", "ai"}
  /\ e.field = "ai" => e.value = O!ValueIn(s, "total")

LEMMA OneWritten ==
  ASSUME NEW s \in Seq(Change), NEW e \in Change, NEW t, OneWrite(s, e, t), Current(s), Faithful(s)
  PROVE  /\ Continues(s, t) /\ Len(t) = Len(s) + 1 /\ t[Len(s) + 1] = e
         /\ Current(t) /\ Faithful(t)
         /\ O!ValueIn(t, "total") = O!ValueIn(s, "total")
         /\ O!ValueIn(t, "ai") = IF e.field = "ai" THEN e.value ELSE O!ValueIn(s, "ai")
  <1>0. t = Append(s, e) /\ e.field \in {"status", "ai"} /\ (e.field = "ai" => e.value = O!ValueIn(s, "total"))
    BY DEF OneWrite
  <1>1. Continues(s, t) /\ Len(t) = Len(s) + 1 /\ t[Len(s) + 1] = e
    BY <1>0, AppendContinues
  <1>2. \A g : O!ValueIn(t, g) = IF e.field = g THEN e.value ELSE O!ValueIn(s, g)
    BY <1>0, ValueAfter
  <1>3. O!ValueIn(t, "total") = O!ValueIn(s, "total")
    BY <1>0, <1>2
  <1>4. \A g \in O!Raw : O!ValueIn(t, g) = O!ValueIn(s, g)
    BY <1>0, <1>2 DEF O!Raw
  <1>5. O!TotalIn(t) = O!TotalIn(s)
    BY <1>4 DEF O!TotalIn
  <1> QED BY <1>0, <1>1, <1>2, <1>3, <1>5, FaithfulOn DEF Current

-------------------------------------------------------------------------------
\* What holds of a task and of its requests in every state.

ObjectRequest ==
  [at : {"idle"}]
    \union [at : {"append"}, batch : Seq(Change), version : Nat, prior : {"open", "done"}]
    \union [at : {"occurrence"}, causation : Int, raw : BOOLEAN]
    \union [at : {"relation"}, causation : Int, raw : BOOLEAN, to : Nat]
    \union [at : {"schedule"}, raw : BOOLEAN]

FieldRefresh ==
  [at : {"idle", "lock", "read"}] \union [at : {"append"}, version : Nat, value : [O!Raw -> Nat]]

Ids(s) == 1..Len(s) \union O!Elsewhere

Derived == [causation : Int, object : Nat]

ObjectTypes ==
  /\ MaxWrites \in Nat /\ MaxCalls \in Nat /\ MaxMishaps \in Nat
  /\ log \in Seq(Change)
  /\ timer \in BOOLEAN /\ locked \in BOOLEAN /\ lost \in BOOLEAN
  /\ request \in [Caller -> ObjectRequest]
  /\ refresh \in [Refresh -> FieldRefresh]
  /\ occurrences \in SUBSET Derived /\ relations \in SUBSET Derived
  /\ \A s \in occurrences \union relations : s.causation \in Ids(log) /\ s.object \in 1..calls
  /\ writes \in 0..MaxWrites /\ calls \in 0..MaxCalls /\ mishaps \in 0..MaxMishaps

Drafts(s) ==
  {<<RawWrite(s, f), TotalWrite(s, f)>> : f \in O!Raw} \union {<<O!Event("status", v)>> : v \in {"open", "done"}}

\* What a request still knows of the stream that it read.
Known(q) ==
  /\ q.at = "append" =>
       /\ q.version \in 0..Len(log)
       /\ q.version = Len(log) => q.batch \in Drafts(log) /\ q.prior = O!ValueIn(log, "status")
  /\ q.at \in {"occurrence", "relation"} => O!Causes(log, q.causation)
  /\ q.at = "relation" => [causation |-> q.causation, object |-> q.to] \in occurrences

Writing == \A c \in Caller : Known(request[c])

\* The refresh that asks the model is alone.
Asks(q) == q.at \in {"read", "append"}
OneAsks == \A x \in Refresh : Asks(refresh[x]) => locked /\ \A y \in Refresh : Asks(refresh[y]) => x = y

\* What a refresh still knows.
Answer(q) ==
  q.at = "append" =>
    /\ q.version \in 0..Len(log)
    /\ q.version = Len(log) => q.value = O!ValueIn(log, "total")
    /\ \A i \in q.version + 1 .. Len(log) : log[i].field # "ai"

Answering == \A x \in Refresh : Answer(refresh[x])

OneOf(streams) == \A s, t \in streams : s.causation = t.causation => s = t

Recurring ==
  /\ \A s \in occurrences \union relations : O!Causes(log, s.causation)
  /\ OneOf(occurrences) /\ OneOf(relations)
  /\ relations \subseteq occurrences

\* While nothing went wrong, a request sees to what is missing.
Covered ==
  mishaps = 0 =>
    /\ \A i \in 1..Len(log) :
         O!Completes(log, i) =>
           \/ \E s \in occurrences : s.causation = i
           \/ \E c \in Caller : request[c].at = "occurrence" /\ request[c].causation = i
    /\ \A s \in occurrences :
         \/ s \in relations
         \/ \E c \in Caller : request[c].at = "relation" /\ request[c].causation = s.causation

\* A value that is not the one of the total will be replaced.
Owing(q) == q.at \in {"occurrence", "relation", "schedule"} /\ q.raw
WillAsk(q) == q.at \in {"lock", "read"}
WillAnswer(q) == q.at = "append" /\ \A i \in q.version + 1 .. Len(log) : log[i].field # "total"

Awaited ==
  \/ O!ValueIn(log, "ai") = O!ValueIn(log, "total")
  \/ timer \/ lost
  \/ \E c \in Caller : Owing(request[c])
  \/ \E x \in Refresh : WillAsk(refresh[x]) \/ WillAnswer(refresh[x])

ObjectInv ==
  /\ ObjectTypes
  /\ Current(log) /\ Faithful(log)
  /\ Writing /\ OneAsks /\ Answering
  /\ Recurring /\ Covered /\ Awaited

-------------------------------------------------------------------------------
\* What a step does to the stream.

WritesRaw == \E f \in O!Raw : log' = Append(Append(log, RawWrite(log, f)), TotalWrite(log, f))
WritesStatus == \E v \in {"open", "done"} : log' = Append(log, O!Event("status", v))
WritesAnswer == log' = Append(log, O!Event("ai", O!ValueIn(log, "total")))

LEMMA BatchWritten ==
  ASSUME NEW s \in Seq(Change), NEW b \in Drafts(s)
  PROVE  \/ \E f \in O!Raw : /\ b[1].field = f
                             /\ s \o b = Append(Append(s, RawWrite(s, f)), TotalWrite(s, f))
         \/ \E v \in {"open", "done"} : /\ b[1] = O!Event("status", v)
                                        /\ s \o b = Append(s, O!Event("status", v))
  <1>1. CASE b \in {<<RawWrite(s, f), TotalWrite(s, f)>> : f \in O!Raw}
    <2>1. PICK f \in O!Raw : b = <<RawWrite(s, f), TotalWrite(s, f)>>
      BY <1>1
    <2>2. PICK x, y : x = RawWrite(s, f) /\ y = TotalWrite(s, f)
      OBVIOUS
    <2>3. x \in Change /\ x.field = f
      BY <2>2, EventTyped DEF RawWrite, Worth, Field
    <2>4. y \in Change
      <3>1. [O!TotalIn(s) EXCEPT ![f] = Len(s) + 1] \in [O!Raw -> Nat]
        BY TotalTyped
      <3>2. "total" \in Field /\ Worth("total") = [O!Raw -> Nat]
        BY DEF Worth, Field, O!Raw
      <3> QED BY <2>2, <3>1, <3>2, EventTyped DEF TotalWrite
    <2>5. s \o <<x, y>> = Append(Append(s, x), y)
      BY <2>3, <2>4
    <2> QED BY <2>1, <2>2, <2>3, <2>5
  <1>2. CASE b \in {<<O!Event("status", v)>> : v \in {"open", "done"}}
    <2>1. PICK v \in {"open", "done"} : b = <<O!Event("status", v)>>
      BY <1>2
    <2>2. O!Event("status", v) \in Change
      BY EventTyped DEF Worth, Field, O!Raw
    <2>3. s \o <<O!Event("status", v)>> = Append(s, O!Event("status", v))
      BY <2>2
    <2> QED BY <2>1, <2>3
  <1> QED BY <1>1, <1>2 DEF Drafts

LEMMA DraftTyped ==
  ASSUME NEW s \in Seq(Change), NEW b \in Drafts(s)
  PROVE  b \in Seq(Change)
  <1>1. "total" \in Field /\ Worth("total") = [O!Raw -> Nat] /\ Worth("status") = {"open", "done"} /\ "status" \in Field
    BY DEF Worth, Field, O!Raw
  <1>2. \A v \in {"open", "done"} : O!Event("status", v) \in Change
    BY <1>1, EventTyped
  <1>3. ASSUME NEW f \in O!Raw
        PROVE  RawWrite(s, f) \in Change /\ TotalWrite(s, f) \in Change
    <2>1. [O!TotalIn(s) EXCEPT ![f] = Len(s) + 1] \in [O!Raw -> Nat]
      BY TotalTyped
    <2>2. f \in Field /\ Worth(f) = Nat /\ Len(s) + 1 \in Nat
      BY DEF Field, Worth
    <2> QED BY <1>1, <2>1, <2>2, EventTyped DEF RawWrite, TotalWrite
  <1>4. (\E f \in O!Raw : b = <<RawWrite(s, f), TotalWrite(s, f)>>) \/ \E v \in {"open", "done"} : b = <<O!Event("status", v)>>
    BY DEF Drafts
  <1>5. ASSUME NEW f \in O!Raw, b = <<RawWrite(s, f), TotalWrite(s, f)>>
        PROVE  b \in Seq(Change)
    <2>1. PICK x \in Change, y \in Change : x = RawWrite(s, f) /\ y = TotalWrite(s, f)
      BY <1>3
    <2> QED BY <1>5, <2>1
  <1>6. ASSUME NEW v \in {"open", "done"}, b = <<O!Event("status", v)>>
        PROVE  b \in Seq(Change)
    <2>1. PICK x \in Change : x = O!Event("status", v)
      BY <1>2
    <2> QED BY <1>6, <2>1
  <1> QED BY <1>4, <1>5, <1>6

LEMMA RequestWrites ==
  ASSUME ObjectTypes, Writing, NEW c \in Caller, O!AppendValues(c)
  PROVE  log' = log \/ WritesRaw \/ WritesStatus
  <1>1. CASE request[c].version # Len(log)
    BY <1>1 DEF O!AppendValues, O!VersionMatches
  <1>2. CASE request[c].version = Len(log)
    <2>1. request[c].batch \in Drafts(log) /\ log' = log \o request[c].batch
      BY <1>2 DEF O!AppendValues, O!VersionMatches, Writing, Known
    <2>2. PICK b : b = request[c].batch
      OBVIOUS
    <2> QED BY <2>1, <2>2, BatchWritten DEF ObjectTypes, WritesRaw, WritesStatus
  <1> QED BY <1>1, <1>2

LEMMA StreamStep ==
  ASSUME ObjectTypes, Writing, Answering, O!Next
  PROVE  log' = log \/ WritesRaw \/ WritesStatus \/ WritesAnswer
  <1>1. ASSUME NEW c \in Caller, O!AppendValues(c)
        PROVE  log' = log \/ WritesRaw \/ WritesStatus
    BY <1>1, RequestWrites
  <1>2. ASSUME NEW x \in Refresh, O!AppendValue(x)
        PROVE  log' = log \/ WritesAnswer
    BY <1>2 DEF O!AppendValue, O!VersionMatches, Answering, Answer, WritesAnswer
  <1>3. ASSUME NEW c \in Caller,
               O!ReadStream(c) \/ O!CallSkill(c) \/ O!AppendOccurrence(c) \/ O!AppendRelation(c)
                 \/ O!Schedule(c) \/ O!FailRequest(c)
        PROVE  log' = log
    BY <1>3 DEF O!ReadStream, O!CallSkill, O!AppendOccurrence, O!AppendRelation, O!Schedule,
                O!FailRequest, O!objectVars
  <1>4. ASSUME NEW x \in Refresh,
               O!StartRefresh(x) \/ O!RefreshByHand(x) \/ O!TakeLock(x) \/ O!AskModel(x) \/ O!FailRefresh(x)
        PROVE  log' = log
    BY <1>4 DEF O!StartRefresh, O!RefreshByHand, O!TakeLock, O!AskModel, O!FailRefresh, O!objectVars
  <1>5. ASSUME O!Crash
        PROVE  log' = log
    BY <1>5 DEF O!Crash, O!objectVars
  <1> QED BY <1>1, <1>2, <1>3, <1>4, <1>5 DEF O!Next

\* What may have been written, and what of it.
NewFields == {log'[i].field : i \in Len(log) + 1 .. Len(log')}

LEMMA StreamAfter ==
  ASSUME ObjectTypes, Current(log), Faithful(log), log' = log \/ WritesRaw \/ WritesStatus \/ WritesAnswer
  PROVE  /\ Continues(log, log') /\ Current(log') /\ Faithful(log')
         /\ log' = log \/ Len(log') > Len(log)
         /\ log' = log => ~WritesRaw /\ ~WritesStatus /\ ~WritesAnswer
         /\ ~(WritesRaw /\ WritesStatus) /\ ~(WritesRaw /\ WritesAnswer) /\ ~(WritesStatus /\ WritesAnswer)
         /\ WritesRaw => O!ValueIn(log', "ai") = O!ValueIn(log, "ai")
         /\ WritesStatus => /\ O!ValueIn(log', "total") = O!ValueIn(log, "total")
                            /\ O!ValueIn(log', "ai") = O!ValueIn(log, "ai")
         /\ WritesAnswer => /\ O!ValueIn(log', "total") = O!ValueIn(log, "total")
                            /\ O!ValueIn(log', "ai") = O!ValueIn(log', "total")
         /\ \A i \in Len(log) + 1 .. Len(log') :
              /\ log'[i].field = "ai" => WritesAnswer
              /\ log'[i].field = "total" => WritesRaw
              /\ O!Completes(log', i) => WritesStatus /\ i = Len(log) + 1
  <1>1. log \in Seq(Change) /\ Len(log) \in Nat
    BY DEF ObjectTypes
  <1>2. CASE log' = log
    <2>1. ~WritesRaw /\ ~WritesStatus /\ ~WritesAnswer
      <3>1. ASSUME NEW e, log' = Append(log, e)
            PROVE  FALSE
        BY <1>1, <1>2, <3>1
      <3>2. ASSUME NEW f \in O!Raw, log' = Append(Append(log, RawWrite(log, f)), TotalWrite(log, f))
            PROVE  FALSE
        BY <1>1, <1>2, <3>2, RawWritten DEF BatchWrite
      <3> QED BY <3>1, <3>2 DEF WritesRaw, WritesStatus, WritesAnswer
    <2> QED BY <1>1, <1>2, <2>1, ItselfContinues
  <1>3. CASE WritesRaw
    <2>1. PICK f \in O!Raw : log' = Append(Append(log, RawWrite(log, f)), TotalWrite(log, f))
      BY <1>3 DEF WritesRaw
    <2>2. PICK t : t = log'
      OBVIOUS
    <2>3. /\ Continues(log, t) /\ Len(t) = Len(log) + 2
          /\ t[Len(log) + 1].field = f /\ t[Len(log) + 2].field = "total"
          /\ Current(t) /\ Faithful(t) /\ O!ValueIn(t, "ai") = O!ValueIn(log, "ai")
      <3>1. BatchWrite(log, f, t)
        BY <2>1, <2>2 DEF BatchWrite
      <3> QED BY <1>1, <3>1, RawWritten
    <2>4. ~WritesStatus /\ ~WritesAnswer
      BY <1>1, <2>2, <2>3 DEF WritesStatus, WritesAnswer
    <2>5. \A i \in Len(log) + 1 .. Len(t) : t[i].field \in O!Raw \union {"total"}
      BY <1>1, <2>3
    <2>6. \A i \in Len(log) + 1 .. Len(t) : t[i].field # "ai" /\ ~O!Completes(t, i)
      BY <2>5 DEF O!Completes, O!Raw
    <2> QED BY <1>1, <1>3, <2>2, <2>3, <2>4, <2>6
  <1>4. CASE WritesStatus \/ WritesAnswer
    <2>1. PICK e : /\ log' = Append(log, e)
                   /\ \/ \E v \in {"open", "done"} : e = O!Event("status", v)
                      \/ e = O!Event("ai", O!ValueIn(log, "total"))
      BY <1>4 DEF WritesStatus, WritesAnswer
    <2>2. e \in Change /\ e.field \in {"status", "ai"} /\ (e.field = "ai" => e.value = O!ValueIn(log, "total"))
      <3>1. /\ "status" \in Field /\ Worth("status") = {"open", "done"}
            /\ "ai" \in Field /\ "total" \in Field /\ Worth("ai") = Worth("total")
        BY DEF Field, Worth, O!Raw
      <3>2. O!ValueIn(log, "total") \in Worth("ai")
        BY <1>1, <3>1, ValueTyped
      <3> QED BY <2>1, <3>1, <3>2, EventTyped
    <2>3. PICK t : t = log'
      OBVIOUS
    <2>4. /\ Continues(log, t) /\ Len(t) = Len(log) + 1 /\ t[Len(log) + 1] = e
          /\ Current(t) /\ Faithful(t)
          /\ O!ValueIn(t, "total") = O!ValueIn(log, "total")
          /\ O!ValueIn(t, "ai") = IF e.field = "ai" THEN e.value ELSE O!ValueIn(log, "ai")
      <3>1. OneWrite(log, e, t)
        BY <2>1, <2>2, <2>3 DEF OneWrite
      <3> QED BY <1>1, <2>2, <3>1, OneWritten
    <2>5. ~WritesRaw
      <3>1. ASSUME NEW f \in O!Raw, log' = Append(Append(log, RawWrite(log, f)), TotalWrite(log, f))
            PROVE  FALSE
        <4>1. BatchWrite(log, f, t)
          BY <2>3, <3>1 DEF BatchWrite
        <4> QED BY <1>1, <2>4, <4>1, RawWritten
      <3> QED BY <3>1 DEF WritesRaw
    <2>6. WritesStatus => e.field = "status"
      BY <1>1, <2>3, <2>4 DEF WritesStatus, O!Event
    <2>7. WritesAnswer => e.field = "ai"
      BY <1>1, <2>3, <2>4 DEF WritesAnswer, O!Event
    <2>8. \A i \in Len(log) + 1 .. Len(t) : i = Len(log) + 1 /\ t[i] = e
      BY <1>1, <2>4
    <2>9. \A i \in Len(log) + 1 .. Len(t) : O!Completes(t, i) => e.field = "status"
      BY <2>8 DEF O!Completes
    <2>10. Len(t) > Len(log)
      BY <1>1, <2>4
    <2> QED BY <1>4, <2>2, <2>3, <2>4, <2>5, <2>6, <2>7, <2>8, <2>9, <2>10
  <1> QED BY <1>2, <1>3, <1>4

-------------------------------------------------------------------------------
\* The types, action by action.

LEMMA ObjectTypesInit ==
  ASSUME MaxWrites \in Nat, MaxCalls \in Nat, MaxMishaps \in Nat, O!Init
  PROVE  ObjectTypes
  <1>1. log = <<>> /\ log \in Seq(Change) /\ Len(log) = 0
    BY DEF O!Init
  <1>2. request \in [Caller -> ObjectRequest]
    BY DEF O!Init, O!Idle, ObjectRequest
  <1>3. refresh \in [Refresh -> FieldRefresh]
    BY DEF O!Init, O!Idle, FieldRefresh
  <1>4. occurrences = {} /\ relations = {} /\ writes = 0 /\ calls = 0 /\ mishaps = 0
    BY DEF O!Init
  <1>5. writes \in 0..MaxWrites /\ calls \in 0..MaxCalls /\ mishaps \in 0..MaxMishaps
    BY <1>4
  <1>6. timer \in BOOLEAN /\ locked \in BOOLEAN /\ lost \in BOOLEAN
    BY DEF O!Init
  <1> QED BY <1>1, <1>2, <1>3, <1>4, <1>5, <1>6 DEF ObjectTypes

LEMMA LoggedTypes ==
  ASSUME ObjectTypes, log' \in Seq(Change), Len(log') >= Len(log),
         UNCHANGED <<occurrences, relations, calls>>
  PROVE  \A s \in (occurrences \union relations)' : s.causation \in Ids(log') /\ s.object \in 1..calls'
  <1>1. Len(log) \in Nat /\ Len(log') \in Nat
    BY DEF ObjectTypes
  <1>2. \A i \in Ids(log) : i \in Ids(log')
    BY <1>1 DEF Ids
  <1> QED BY <1>1, <1>2 DEF ObjectTypes

LEMMA RequestTypes ==
  ASSUME ObjectTypes, NEW c \in Caller, NEW q \in ObjectRequest, O!Go(c, q)
  PROVE  request' \in [Caller -> ObjectRequest]
  BY DEF ObjectTypes, O!Go

LEMMA RefreshTypes ==
  ASSUME ObjectTypes, NEW x \in Refresh, NEW q \in FieldRefresh, O!GoRefresh(x, q)
  PROVE  refresh' \in [Refresh -> FieldRefresh]
  BY DEF ObjectTypes, O!GoRefresh

LEMMA NoRequest ==
  O!Idle \in ObjectRequest /\ O!Idle \in FieldRefresh /\ O!Idle.at = "idle"
  BY DEF O!Idle, ObjectRequest, FieldRefresh

LEMMA ScheduleRequest ==
  ASSUME NEW b \in BOOLEAN
  PROVE  [at |-> "schedule", raw |-> b] \in ObjectRequest
  BY DEF ObjectRequest

LEMMA OccurrenceRequest ==
  ASSUME NEW i \in Int, NEW b \in BOOLEAN
  PROVE  [at |-> "occurrence", causation |-> i, raw |-> b] \in ObjectRequest
  BY DEF ObjectRequest

LEMMA RelationRequest ==
  ASSUME NEW i \in Int, NEW b \in BOOLEAN, NEW o \in Nat
  PROVE  [at |-> "relation", causation |-> i, raw |-> b, to |-> o] \in ObjectRequest
  BY DEF ObjectRequest

LEMMA RequestFields ==
  ASSUME ObjectTypes, NEW c \in Caller
  PROVE  /\ request[c] \in ObjectRequest
         /\ request[c].at = "append" =>
              request[c].version \in Nat /\ request[c].batch \in Seq(Change) /\ request[c].prior \in {"open", "done"}
         /\ request[c].at \in {"occurrence", "relation", "schedule"} => request[c].raw \in BOOLEAN
         /\ request[c].at \in {"occurrence", "relation"} => request[c].causation \in Int
         /\ request[c].at = "relation" => request[c].to \in Nat
  <1>1. PICK q \in ObjectRequest : q = request[c]
    BY DEF ObjectTypes
  <1>2. /\ q.at = "append" => q.version \in Nat /\ q.batch \in Seq(Change) /\ q.prior \in {"open", "done"}
        /\ q.at \in {"occurrence", "relation", "schedule"} => q.raw \in BOOLEAN
        /\ q.at \in {"occurrence", "relation"} => q.causation \in Int
        /\ q.at = "relation" => q.to \in Nat
    BY DEF ObjectRequest
  <1> QED BY <1>1, <1>2

LEMMA RefreshFields ==
  ASSUME ObjectTypes, NEW x \in Refresh
  PROVE  /\ refresh[x] \in FieldRefresh
         /\ refresh[x].at = "append" => refresh[x].version \in Nat /\ refresh[x].value \in [O!Raw -> Nat]
  <1>1. PICK q \in FieldRefresh : q = refresh[x]
    BY DEF ObjectTypes
  <1>2. q.at = "append" => q.version \in Nat /\ q.value \in [O!Raw -> Nat]
    BY DEF FieldRefresh
  <1> QED BY <1>1, <1>2

LEMMA MishapTypes ==
  ASSUME ObjectTypes, O!GoesWrong
  PROVE  mishaps' \in 0..MaxMishaps /\ mishaps' # 0
  <1>1. mishaps \in 0..MaxMishaps /\ mishaps < MaxMishaps /\ mishaps' = mishaps + 1 /\ MaxMishaps \in Nat
    BY DEF ObjectTypes, O!GoesWrong
  <1> QED BY <1>1

LEMMA AtBoundTypes ==
  ASSUME NEW n, NEW m \in Nat, n \in 0..m, n < m
  PROVE  n + 1 \in 0..m /\ n + 1 \in 1..(n + 1) /\ \A i \in 1..n : i \in 1..(n + 1)
  OBVIOUS

LEMMA ReadStreamTypes ==
  ASSUME ObjectTypes, NEW c \in Caller, O!ReadStream(c)
  PROVE  ObjectTypes'
  <1>1. log' = log /\ UNCHANGED <<timer, locked, lost, refresh, occurrences, relations, calls, mishaps>>
    BY DEF O!ReadStream, O!objectVars
  <1>2. writes' \in 0..MaxWrites
    BY AtBoundTypes DEF O!ReadStream, ObjectTypes
  <1>3. PICK d, q : /\ d \in Drafts(log) /\ O!Go(c, q)
                    /\ q = [at |-> "append", batch |-> d, version |-> Len(log), prior |-> O!ValueIn(log, "status")]
    BY DEF O!ReadStream, Drafts, RawWrite, TotalWrite
  <1>4. d \in Seq(Change)
    <2>1. log \in Seq(Change)
      BY DEF ObjectTypes
    <2> QED BY <1>3, <2>1, DraftTyped
  <1>5. Len(log) \in Nat /\ O!ValueIn(log, "status") \in {"open", "done"}
    <2>1. log \in Seq(Change) /\ "status" \in Field /\ Worth("status") = {"open", "done"}
      BY DEF ObjectTypes, Field, Worth, O!Raw
    <2> QED BY <2>1, ValueTyped
  <1>6. q \in ObjectRequest
    BY <1>3, <1>4, <1>5 DEF ObjectRequest
  <1>7. request' \in [Caller -> ObjectRequest]
    BY <1>3, <1>6, RequestTypes
  <1> QED BY <1>1, <1>2, <1>7 DEF ObjectTypes

LEMMA AppendValuesTypes ==
  ASSUME ObjectTypes, NEW c \in Caller, O!AppendValues(c), Continues(log, log')
  PROVE  ObjectTypes'
  <1>1. UNCHANGED <<timer, locked, lost, refresh, occurrences, relations, writes, calls, mishaps>>
    BY DEF O!AppendValues, O!counters
  <1>2. log' \in Seq(Change) /\ Len(log') >= Len(log) /\ Len(log) + 1 \in Int
    BY DEF Continues
  <1>3. request' \in [Caller -> ObjectRequest]
    <2>1. (request[c].batch[1].field \in O!Raw) \in BOOLEAN
      OBVIOUS
    <2>2. \/ O!Go(c, O!Idle)
          \/ O!Go(c, [at |-> "occurrence", causation |-> Len(log) + 1, raw |-> FALSE])
          \/ O!Go(c, [at |-> "schedule", raw |-> request[c].batch[1].field \in O!Raw])
      BY DEF O!AppendValues
    <2> QED BY <1>2, <2>1, <2>2, NoRequest, ScheduleRequest, OccurrenceRequest, RequestTypes
  <1>4. \A s \in (occurrences \union relations)' : s.causation \in Ids(log') /\ s.object \in 1..calls'
    BY <1>1, <1>2, LoggedTypes
  <1> QED BY <1>1, <1>2, <1>3, <1>4 DEF ObjectTypes

LEMMA CallSkillTypes ==
  ASSUME ObjectTypes, NEW c \in Caller, O!CallSkill(c)
  PROVE  ObjectTypes'
  <1>1. /\ UNCHANGED <<log, timer, locked, lost, refresh, occurrences, relations, calls, mishaps>>
        /\ writes < MaxWrites /\ writes' = writes + 1
    BY DEF O!CallSkill, O!objectVars
  <1>2. PICK i \in DOMAIN log \union O!Elsewhere :
          O!Go(c, [at |-> "occurrence", causation |-> i, raw |-> FALSE])
    BY DEF O!CallSkill
  <1>3. i \in Int
    BY DEF ObjectTypes, O!Elsewhere
  <1>4. request' \in [Caller -> ObjectRequest]
    BY <1>2, <1>3, OccurrenceRequest, RequestTypes
  <1>5. writes' \in 0..MaxWrites
    BY <1>1 DEF ObjectTypes
  <1> QED BY <1>1, <1>4, <1>5 DEF ObjectTypes

LEMMA AppendOccurrenceTypes ==
  ASSUME ObjectTypes, Writing, NEW c \in Caller, O!AppendOccurrence(c)
  PROVE  ObjectTypes'
  <1>1. UNCHANGED <<log, timer, locked, lost, refresh, relations, writes, mishaps>>
    BY DEF O!AppendOccurrence
  <1>2. calls < MaxCalls /\ calls' = calls + 1 /\ request[c].at = "occurrence"
    BY DEF O!AppendOccurrence
  <1>3. /\ calls \in Nat /\ calls' \in 0..MaxCalls /\ calls + 1 \in 1..calls'
        /\ \A i \in 1..calls : i \in 1..calls'
    BY <1>2, AtBoundTypes DEF ObjectTypes
  <1>4. PICK k, b : k = request[c].causation /\ b = request[c].raw
    OBVIOUS
  <1>5. k \in Int /\ b \in BOOLEAN /\ k \in Ids(log)
    <2>1. k \in Int /\ b \in BOOLEAN /\ O!Causes(log, k)
      BY <1>2, <1>4, RequestFields DEF Writing, Known
    <2> QED BY <2>1 DEF O!Causes, Ids, ObjectTypes
  <1>6. PICK new : new = [causation |-> k, object |-> calls + 1]
    OBVIOUS
  <1>7. new \in Derived /\ new.causation = k /\ new.object = calls + 1
    BY <1>3, <1>5, <1>6 DEF Derived
  <1>8. /\ occurrences' \in {occurrences, occurrences \union {new}}
        /\ \/ \E o \in Nat : O!Go(c, [at |-> "relation", causation |-> k, raw |-> b, to |-> o])
           \/ O!Go(c, [at |-> "schedule", raw |-> b])
    <2>1. \A s \in O!StreamOf(occurrences, k) : s.object \in Nat
      BY DEF O!StreamOf, ObjectTypes, Derived
    <2>2. \/ /\ occurrences' = occurrences \union {new}
             /\ O!Go(c, [at |-> "relation", causation |-> k, raw |-> b, to |-> new.object])
          \/ /\ \E s \in O!StreamOf(occurrences, k) :
                   O!Go(c, [at |-> "relation", causation |-> k, raw |-> b, to |-> s.object])
             /\ occurrences' = occurrences
          \/ O!Go(c, [at |-> "schedule", raw |-> b]) /\ occurrences' = occurrences
      BY <1>4, <1>6 DEF O!AppendOccurrence
    <2>3. new.object \in Nat
      BY <1>3, <1>7
    <2> QED BY <2>1, <2>2, <2>3
  <1>9. request' \in [Caller -> ObjectRequest]
    BY <1>5, <1>8, RelationRequest, ScheduleRequest, RequestTypes
  <1>10. occurrences' \in SUBSET Derived
    BY <1>7, <1>8 DEF ObjectTypes
  <1>11. \A s \in (occurrences \union relations)' : s.causation \in Ids(log') /\ s.object \in 1..calls'
    <2>1. ASSUME NEW s \in occurrences' \union relations'
          PROVE  s.causation \in Ids(log) /\ s.object \in 1..calls'
      <3>1. s = new \/ s \in occurrences \union relations
        BY <1>1, <1>8, <2>1
      <3> QED BY <1>3, <1>5, <1>7, <3>1 DEF ObjectTypes
    <2> QED BY <1>1, <2>1
  <1> QED BY <1>1, <1>3, <1>9, <1>10, <1>11 DEF ObjectTypes

LEMMA AppendRelationTypes ==
  ASSUME ObjectTypes, Writing, NEW c \in Caller, O!AppendRelation(c)
  PROVE  ObjectTypes'
  <1>1. UNCHANGED <<log, timer, locked, lost, refresh, occurrences, writes, calls, mishaps>>
    BY DEF O!AppendRelation, O!counters
  <1>2. PICK k, b, o : k = request[c].causation /\ b = request[c].raw /\ o = request[c].to
    OBVIOUS
  <1>3. request[c].at = "relation"
    BY DEF O!AppendRelation
  <1>4. k \in Int /\ b \in BOOLEAN /\ o \in Nat
    BY <1>2, <1>3, RequestFields
  <1>5. PICK new : new = [causation |-> k, object |-> o]
    OBVIOUS
  <1>6. new \in occurrences
    BY <1>2, <1>3, <1>5 DEF Writing, Known
  <1>7. relations' \in {relations, relations \union {new}} /\ O!Go(c, [at |-> "schedule", raw |-> b])
    BY <1>2, <1>5 DEF O!AppendRelation
  <1>8. request' \in [Caller -> ObjectRequest]
    BY <1>4, <1>7, ScheduleRequest, RequestTypes
  <1>9. relations' \union occurrences' \subseteq relations \union occurrences
    BY <1>1, <1>6, <1>7
  <1> QED BY <1>1, <1>8, <1>9 DEF ObjectTypes

LEMMA ScheduleTypes ==
  ASSUME ObjectTypes, NEW c \in Caller, O!Schedule(c) \/ O!FailRequest(c)
  PROVE  ObjectTypes'
  <1>1. UNCHANGED <<log, locked, refresh, occurrences, relations, writes, calls>>
    BY DEF O!Schedule, O!FailRequest, O!counters, O!objectVars
  <1>2. request[c].raw \in BOOLEAN
    BY RequestFields DEF O!Schedule, O!FailRequest
  <1>3. timer' \in BOOLEAN /\ lost' \in BOOLEAN
    BY <1>2 DEF O!Schedule, O!FailRequest, ObjectTypes
  <1>4. mishaps' \in 0..MaxMishaps
    BY MishapTypes DEF O!Schedule, O!FailRequest, O!counters, ObjectTypes
  <1>5. request' \in [Caller -> ObjectRequest]
    <2>1. O!Go(c, O!Idle) \/ O!Go(c, [at |-> "schedule", raw |-> request[c].raw])
      BY DEF O!Schedule, O!FailRequest
    <2> QED BY <1>2, <2>1, NoRequest, ScheduleRequest, RequestTypes
  <1> QED BY <1>1, <1>3, <1>4, <1>5 DEF ObjectTypes

LEMMA RefreshingTypes ==
  ASSUME ObjectTypes, NEW x \in Refresh,
         O!StartRefresh(x) \/ O!RefreshByHand(x) \/ O!TakeLock(x) \/ O!AskModel(x) \/ O!FailRefresh(x)
  PROVE  ObjectTypes'
  <1>1. UNCHANGED <<log, request, occurrences, relations, calls>>
    BY DEF O!StartRefresh, O!RefreshByHand, O!TakeLock, O!AskModel, O!FailRefresh, O!counters, O!objectVars
  <1>2. timer' \in BOOLEAN /\ lost' \in BOOLEAN /\ locked' \in BOOLEAN
    BY DEF O!StartRefresh, O!RefreshByHand, O!TakeLock, O!AskModel, O!FailRefresh, ObjectTypes
  <1>3. writes' \in 0..MaxWrites
    BY AtBoundTypes DEF O!StartRefresh, O!RefreshByHand, O!TakeLock, O!AskModel, O!FailRefresh, O!counters, ObjectTypes
  <1>4. mishaps' \in 0..MaxMishaps
    BY MishapTypes DEF O!StartRefresh, O!RefreshByHand, O!TakeLock, O!AskModel, O!FailRefresh, O!counters, ObjectTypes
  <1>5. refresh' \in [Refresh -> FieldRefresh]
    <2>1. PICK n, v : n = Len(log) /\ v = O!ValueIn(log, "total")
      OBVIOUS
    <2>2. n \in Nat /\ v \in [O!Raw -> Nat]
      <3>1. log \in Seq(Change) /\ "total" \in Field /\ Worth("total") = [O!Raw -> Nat]
        BY DEF ObjectTypes, Field, Worth, O!Raw
      <3> QED BY <2>1, <3>1, ValueTyped
    <2>3. PICK a, b, d : a = [at |-> "lock"] /\ b = [at |-> "read"] /\ d = [at |-> "append", version |-> n, value |-> v]
      OBVIOUS
    <2>4. a \in FieldRefresh /\ b \in FieldRefresh /\ d \in FieldRefresh
      BY <2>2, <2>3 DEF FieldRefresh
    <2>5. O!GoRefresh(x, O!Idle) \/ O!GoRefresh(x, a) \/ O!GoRefresh(x, b) \/ O!GoRefresh(x, d)
      BY <2>1, <2>3 DEF O!StartRefresh, O!RefreshByHand, O!TakeLock, O!AskModel, O!FailRefresh
    <2> QED BY <2>4, <2>5, NoRequest, RefreshTypes
  <1> QED BY <1>1, <1>2, <1>3, <1>4, <1>5 DEF ObjectTypes

LEMMA AppendValueTypes ==
  ASSUME ObjectTypes, NEW x \in Refresh, O!AppendValue(x), Continues(log, log')
  PROVE  ObjectTypes'
  <1>1. UNCHANGED <<timer, request, occurrences, relations, writes, calls, mishaps>>
    BY DEF O!AppendValue, O!counters
  <1>2. log' \in Seq(Change) /\ Len(log') >= Len(log)
    BY DEF Continues
  <1>3. locked' \in BOOLEAN
    BY DEF O!AppendValue
  <1>4. lost' \in BOOLEAN
    <2>1. \/ lost' = FALSE
          \/ lost' = (lost \/ \A i \in refresh[x].version + 1 .. Len(log) : log[i].field # "total")
      BY DEF O!AppendValue
    <2> QED BY <2>1
  <1>5. refresh' \in [Refresh -> FieldRefresh]
    BY NoRequest, RefreshTypes DEF O!AppendValue
  <1>6. \A s \in (occurrences \union relations)' : s.causation \in Ids(log') /\ s.object \in 1..calls'
    BY <1>1, <1>2, LoggedTypes
  <1> QED BY <1>1, <1>2, <1>3, <1>4, <1>5, <1>6 DEF ObjectTypes

LEMMA CrashTypes ==
  ASSUME ObjectTypes, O!Crash
  PROVE  ObjectTypes'
  <1>1. UNCHANGED <<log, occurrences, relations, writes, calls>>
    BY DEF O!Crash, O!objectVars
  <1>2. timer' \in BOOLEAN /\ lost' \in BOOLEAN /\ locked' \in BOOLEAN /\ mishaps' \in 0..MaxMishaps
    BY MishapTypes DEF O!Crash
  <1>3. request' \in [Caller -> ObjectRequest] /\ refresh' \in [Refresh -> FieldRefresh]
    BY NoRequest DEF O!Crash
  <1> QED BY <1>1, <1>2, <1>3 DEF ObjectTypes

LEMMA ObjectTypesStep ==
  ASSUME ObjectTypes, Writing, Continues(log, log'), O!Next
  PROVE  ObjectTypes'
  BY ReadStreamTypes, AppendValuesTypes, CallSkillTypes, AppendOccurrenceTypes, AppendRelationTypes,
     ScheduleTypes, RefreshingTypes, AppendValueTypes, CrashTypes DEF O!Next

-------------------------------------------------------------------------------
\* What requests know, action by action.

LEMMA KnownStill ==
  ASSUME NEW q, Known(q), Continues(log, log'), log' = log \/ Len(log') > Len(log),
         occurrences \subseteq occurrences'
  PROVE  Known(q)'
  <1>1. Len(log) \in Nat /\ Len(log') \in Nat /\ Len(log) <= Len(log')
    BY DEF Continues
  <1>2. q.at = "append" =>
          /\ q.version \in 0..Len(log')
          /\ q.version = Len(log') => log' = log
    BY <1>1 DEF Known
  <1>3. q.at = "append" /\ q.version = Len(log') => q.batch \in Drafts(log') /\ q.prior = O!ValueIn(log', "status")
    BY <1>2 DEF Known
  <1>4. q.at \in {"occurrence", "relation"} => O!Causes(log', q.causation)
    BY CausesStill DEF Known
  <1> QED BY <1>2, <1>3, <1>4 DEF Known

LEMMA WritingBy ==
  ASSUME ObjectTypes, Writing, Continues(log, log'), log' = log \/ Len(log') > Len(log),
         occurrences \subseteq occurrences',
         NEW c \in Caller, NEW q, O!Go(c, q), Known(q)'
  PROVE  Writing'
  <1>1. ASSUME NEW d \in Caller
        PROVE  Known(request[d])'
    <2>1. CASE d = c
      <3>1. request'[d] = q
        BY <2>1 DEF O!Go, ObjectTypes
      <3> QED BY <3>1 DEF Known
    <2>2. CASE d # c
      <3>1. PICK p : p = request[d]
        OBVIOUS
      <3>2. request'[d] = p /\ Known(p)
        BY <2>2, <3>1 DEF O!Go, ObjectTypes, Writing
      <3>3. Known(p)'
        BY <3>2, KnownStill
      <3> QED BY <3>2, <3>3 DEF Known
    <2> QED BY <2>1, <2>2
  <1> QED BY <1>1 DEF Writing

LEMMA WritingElsewhere ==
  ASSUME Writing, Continues(log, log'), log' = log \/ Len(log') > Len(log),
         UNCHANGED <<request, occurrences>>
  PROVE  Writing'
  <1>1. ASSUME NEW d \in Caller
        PROVE  Known(request[d])'
    <2>1. PICK p : p = request[d]
      OBVIOUS
    <2>2. request'[d] = p /\ Known(p)
      BY <2>1 DEF Writing
    <2>3. Known(p)'
      BY <2>2, KnownStill
    <2> QED BY <2>2, <2>3 DEF Known
  <1> QED BY <1>1 DEF Writing

LEMMA OpenEnded ==
  ASSUME NEW q, q.at \in {"idle", "schedule"}
  PROVE  Known(q)'
  BY DEF Known

\* The completion that a write makes.
LEMMA Completed ==
  ASSUME ObjectTypes, Writing, NEW c \in Caller, O!AppendValues(c), O!VersionMatches(request[c].version),
         O!IsTransition(request[c])
  PROVE  /\ WritesStatus
         /\ O!Completes(log', Len(log) + 1)
  <1>1. PICK q : q = request[c]
    OBVIOUS
  <1>2. q.batch \in Drafts(log) /\ q.prior = O!ValueIn(log, "status") /\ log' = log \o q.batch
    BY <1>1 DEF Writing, Known, O!AppendValues, O!VersionMatches
  <1>3. q.batch[1].field = "status" /\ q.batch[1].value = "done" /\ q.prior # "done"
    BY <1>1 DEF O!IsTransition
  <1>4. log \in Seq(Change)
    BY DEF ObjectTypes
  <1>5. PICK v \in {"open", "done"} : q.batch[1] = O!Event("status", v) /\ log \o q.batch = Append(log, O!Event("status", v))
    <2>1. PICK b : b = q.batch
      OBVIOUS
    <2>2. b \in Drafts(log) /\ b[1].field \notin O!Raw
      BY <1>2, <1>3, <2>1 DEF O!Raw
    <2> QED BY <1>4, <2>1, <2>2, BatchWritten
  <1>6. PICK e : e = O!Event("status", v)
    OBVIOUS
  <1>7. e \in Change
    BY <1>6, EventTyped DEF Worth, Field, O!Raw
  <1>8. log' = Append(log, e) /\ e = q.batch[1]
    BY <1>2, <1>5, <1>6
  <1>9. Append(log, e)[Len(log) + 1] = e /\ SubSeq(Append(log, e), 1, Len(log)) = log
    BY <1>4, <1>7, AppendContinues
  <1>10. PICK t, i : t = log' /\ i = Len(log) + 1
    OBVIOUS
  <1>11. t[i] = e /\ SubSeq(t, 1, i - 1) = log
    <2>1. i - 1 = Len(log)
      BY <1>4, <1>10
    <2> QED BY <1>8, <1>9, <1>10, <2>1
  <1>12. O!Completes(t, i)
    BY <1>2, <1>3, <1>8, <1>11 DEF O!Completes
  <1> QED BY <1>2, <1>5, <1>10, <1>12 DEF WritesStatus

LEMMA ReadStreamKnows ==
  ASSUME ObjectTypes, Writing, NEW c \in Caller, O!ReadStream(c)
  PROVE  Writing'
  <1>1. log' = log /\ occurrences' = occurrences
    BY DEF O!ReadStream, O!objectVars
  <1>2. Continues(log, log') /\ Len(log) \in Nat
    BY <1>1, ItselfContinues DEF ObjectTypes
  <1>3. PICK d, q : /\ d \in Drafts(log) /\ O!Go(c, q)
                    /\ q = [at |-> "append", batch |-> d, version |-> Len(log), prior |-> O!ValueIn(log, "status")]
    BY DEF O!ReadStream, Drafts, RawWrite, TotalWrite
  <1>4. Known(q)'
    BY <1>1, <1>2, <1>3 DEF Known
  <1> QED BY <1>1, <1>2, <1>3, <1>4, WritingBy

LEMMA AppendValuesKnows ==
  ASSUME ObjectTypes, Writing, NEW c \in Caller, O!AppendValues(c),
         Continues(log, log'), log' = log \/ Len(log') > Len(log)
  PROVE  Writing'
  <1>1. occurrences' = occurrences
    BY DEF O!AppendValues
  <1>2. \E q : O!Go(c, q) /\ Known(q)'
    <2>1. CASE O!VersionMatches(request[c].version) /\ O!IsTransition(request[c])
      <3>1. PICK q : q = [at |-> "occurrence", causation |-> Len(log) + 1, raw |-> FALSE]
        OBVIOUS
      <3>2. O!Go(c, q)
        BY <2>1, <3>1 DEF O!AppendValues
      <3>3. q.at = "occurrence" /\ q.causation = Len(log) + 1
        BY <3>1
      <3>4. O!Completes(log', q.causation) /\ log' # log
        <4>1. WritesStatus /\ O!Completes(log', Len(log) + 1)
          BY <2>1, Completed
        <4>2. log' # log
          BY <4>1 DEF WritesStatus, ObjectTypes
        <4> QED BY <3>3, <4>1, <4>2
      <3>5. O!Causes(log', q.causation)
        BY <3>3, <3>4 DEF Continues, O!Causes
      <3>6. Known(q)'
        BY <3>3, <3>4, <3>5 DEF Known
      <3> QED BY <3>2, <3>6
    <2>2. CASE ~(O!VersionMatches(request[c].version) /\ O!IsTransition(request[c]))
      <3>1. PICK q : O!Go(c, q) /\ q.at \in {"idle", "schedule"}
        BY <2>2, NoRequest DEF O!AppendValues
      <3> QED BY <3>1, OpenEnded
    <2> QED BY <2>1, <2>2
  <1> QED BY <1>1, <1>2, WritingBy

LEMMA CallSkillKnows ==
  ASSUME ObjectTypes, Writing, NEW c \in Caller, O!CallSkill(c)
  PROVE  Writing'
  <1>1. log' = log /\ occurrences' = occurrences
    BY DEF O!CallSkill, O!objectVars
  <1>2. Continues(log, log')
    BY <1>1, ItselfContinues DEF ObjectTypes
  <1>3. PICK i, q : /\ O!Causes(log, i) /\ O!Go(c, q)
                    /\ q = [at |-> "occurrence", causation |-> i, raw |-> FALSE]
    BY DEF O!CallSkill
  <1>5. Known(q)'
    BY <1>1, <1>3 DEF Known
  <1> QED BY <1>1, <1>2, <1>3, <1>5, WritingBy

LEMMA AppendOccurrenceKnows ==
  ASSUME ObjectTypes, Writing, NEW c \in Caller, O!AppendOccurrence(c)
  PROVE  Writing'
  <1>1. log' = log /\ occurrences \subseteq occurrences'
    BY DEF O!AppendOccurrence
  <1>2. Continues(log, log')
    BY <1>1, ItselfContinues DEF ObjectTypes
  <1>3. PICK k, b : k = request[c].causation /\ b = request[c].raw
    OBVIOUS
  <1>4. request[c].at = "occurrence" /\ O!Causes(log, k)
    BY <1>3 DEF O!AppendOccurrence, Writing, Known
  <1>5. \/ \E o : /\ O!Go(c, [at |-> "relation", causation |-> k, raw |-> b, to |-> o])
                  /\ [causation |-> k, object |-> o] \in occurrences'
        \/ O!Go(c, [at |-> "schedule", raw |-> b])
    <2>1. PICK new : new = [causation |-> k, object |-> calls + 1]
      OBVIOUS
    <2>2. \/ /\ occurrences' = occurrences \union {new}
             /\ O!Go(c, [at |-> "relation", causation |-> k, raw |-> b, to |-> new.object])
          \/ /\ \E s \in O!StreamOf(occurrences, k) :
                   O!Go(c, [at |-> "relation", causation |-> k, raw |-> b, to |-> s.object])
             /\ occurrences' = occurrences
          \/ O!Go(c, [at |-> "schedule", raw |-> b])
      BY <1>3, <2>1 DEF O!AppendOccurrence
    <2>3. new.object = calls + 1
      BY <2>1
    <2>4. \A s \in O!StreamOf(occurrences, k) : s \in occurrences /\ s = [causation |-> k, object |-> s.object]
      BY DEF O!StreamOf, ObjectTypes, Derived
    <2> QED BY <2>1, <2>2, <2>3, <2>4
  <1>6. ASSUME NEW o, O!Go(c, [at |-> "relation", causation |-> k, raw |-> b, to |-> o]),
               [causation |-> k, object |-> o] \in occurrences'
        PROVE  Writing'
    <2>1. PICK q : q = [at |-> "relation", causation |-> k, raw |-> b, to |-> o]
      OBVIOUS
    <2>2. q.at = "relation" /\ q.causation = k /\ q.to = o
      BY <2>1
    <2>3. Known(q)'
      BY <1>1, <1>4, <1>6, <2>2 DEF Known
    <2> QED BY <1>1, <1>2, <1>6, <2>1, <2>3, WritingBy
  <1>7. ASSUME O!Go(c, [at |-> "schedule", raw |-> b])
        PROVE  Writing'
    <2>1. PICK q : q = [at |-> "schedule", raw |-> b]
      OBVIOUS
    <2>2. Known(q)'
      BY <2>1, OpenEnded
    <2> QED BY <1>1, <1>2, <1>7, <2>1, <2>2, WritingBy
  <1> QED BY <1>5, <1>6, <1>7

LEMMA EndingKnows ==
  ASSUME ObjectTypes, Writing, NEW c \in Caller, O!AppendRelation(c) \/ O!Schedule(c) \/ O!FailRequest(c)
  PROVE  Writing'
  <1>1. log' = log /\ occurrences' = occurrences
    BY DEF O!AppendRelation, O!Schedule, O!FailRequest, O!objectVars
  <1>2. Continues(log, log')
    BY <1>1, ItselfContinues DEF ObjectTypes
  <1>3. PICK q : O!Go(c, q) /\ q.at \in {"idle", "schedule"}
    BY NoRequest DEF O!AppendRelation, O!Schedule, O!FailRequest
  <1>4. Known(q)'
    BY <1>3, OpenEnded
  <1> QED BY <1>1, <1>2, <1>3, <1>4, WritingBy

LEMMA WritingStep ==
  ASSUME ObjectTypes, Writing, Continues(log, log'), log' = log \/ Len(log') > Len(log), O!Next
  PROVE  Writing'
  <1>1. ASSUME NEW x \in Refresh,
               O!StartRefresh(x) \/ O!RefreshByHand(x) \/ O!TakeLock(x) \/ O!AskModel(x)
                 \/ O!AppendValue(x) \/ O!FailRefresh(x)
        PROVE  Writing'
    <2>1. UNCHANGED <<request, occurrences>>
      BY <1>1 DEF O!StartRefresh, O!RefreshByHand, O!TakeLock, O!AskModel, O!AppendValue, O!FailRefresh, O!objectVars
    <2> QED BY <2>1, WritingElsewhere
  <1>2. ASSUME O!Crash
        PROVE  Writing'
    <2>1. \A d \in Caller : request'[d].at = "idle"
      BY <1>2, NoRequest DEF O!Crash
    <2> QED BY <2>1 DEF Writing, Known
  <1> QED BY <1>1, <1>2, ReadStreamKnows, AppendValuesKnows, CallSkillKnows, AppendOccurrenceKnows,
             EndingKnows DEF O!Next

-------------------------------------------------------------------------------
\* The refreshes, action by action.

LEMMA AnswerStill ==
  ASSUME NEW q, Answer(q), Continues(log, log'), log' = log \/ Len(log') > Len(log),
         \A i \in Len(log) + 1 .. Len(log') : log'[i].field # "ai"
  PROVE  Answer(q)'
  <1>1. SUFFICES ASSUME q.at = "append"
                 PROVE  Answer(q)'
    BY DEF Answer
  <1>2. PICK v \in Nat : v = q.version /\ v \in 0..Len(log)
    BY <1>1 DEF Answer, Continues
  <1>3. PICK n, m : n = Len(log) /\ m = Len(log') /\ n \in Nat /\ m \in Nat /\ n <= m
    BY DEF Continues
  <1>4. v \in 0..m /\ (v = m => log' = log)
    BY <1>2, <1>3
  <1>5. v = m => q.value = O!ValueIn(log', "total")
    BY <1>1, <1>2, <1>3, <1>4 DEF Answer
  <1>6. ASSUME NEW i \in v + 1 .. m
        PROVE  log'[i].field # "ai"
    <2>1. CASE i <= n
      <3>1. i \in v + 1 .. n /\ i \in 1..n
        BY <1>2, <1>3, <2>1
      <3> QED BY <1>1, <1>2, <1>3, <3>1 DEF Answer, Continues
    <2>2. CASE i > n
      <3>1. i \in n + 1 .. m
        BY <1>2, <1>3, <2>2
      <3> QED BY <1>3, <3>1
    <2> QED BY <1>2, <1>3, <2>1, <2>2
  <1> QED BY <1>2, <1>3, <1>4, <1>5, <1>6 DEF Answer

LEMMA AnsweringElsewhere ==
  ASSUME Answering, Continues(log, log'), log' = log \/ Len(log') > Len(log), UNCHANGED refresh,
         \A i \in Len(log) + 1 .. Len(log') : log'[i].field # "ai"
  PROVE  Answering'
  <1>1. ASSUME NEW x \in Refresh
        PROVE  Answer(refresh[x])'
    <2>1. PICK p : p = refresh[x]
      OBVIOUS
    <2>2. refresh'[x] = p /\ Answer(p)
      BY <2>1 DEF Answering
    <2>3. Answer(p)'
      BY <2>2, AnswerStill
    <2> QED BY <2>2, <2>3 DEF Answer
  <1> QED BY <1>1 DEF Answering

LEMMA AnsweringBy ==
  ASSUME ObjectTypes, Answering, log' = log, NEW x \in Refresh, NEW q, O!GoRefresh(x, q), Answer(q)
  PROVE  Answering'
  <1>1. ASSUME NEW y \in Refresh
        PROVE  Answer(refresh[y])'
    <2>1. PICK p : p = refresh'[y] /\ Answer(p)
      BY DEF O!GoRefresh, ObjectTypes, Answering
    <2> QED BY <2>1 DEF Answer
  <1> QED BY <1>1 DEF Answering

LEMMA OneAsksElsewhere ==
  ASSUME OneAsks, UNCHANGED <<refresh, locked>>
  PROVE  OneAsks'
  BY DEF OneAsks, Asks

\* Whoever asks is the only one: without it nobody does.
LEMMA NobodyAsks ==
  ASSUME ObjectTypes, OneAsks, NEW x \in Refresh, Asks(refresh[x]), O!GoRefresh(x, O!Idle)
  PROVE  \A y \in Refresh : refresh'[y].at \in {"idle", "lock"}
  <1>1. ASSUME NEW y \in Refresh
        PROVE  refresh'[y].at \in {"idle", "lock"}
    <2>1. CASE y = x
      BY <2>1, NoRequest DEF O!GoRefresh, ObjectTypes
    <2>2. CASE y # x
      <3>1. PICK p \in FieldRefresh : p = refresh[y] /\ refresh'[y] = p
        BY <2>2 DEF O!GoRefresh, ObjectTypes
      <3>2. ~Asks(p)
        BY <2>2, <3>1 DEF OneAsks
      <3>3. p.at \in {"idle", "lock", "read", "append"}
        BY DEF FieldRefresh
      <3> QED BY <3>1, <3>2, <3>3 DEF Asks
    <2> QED BY <2>1, <2>2
  <1> QED BY <1>1

LEMMA NobodyAsksThen ==
  ASSUME \A y \in Refresh : refresh'[y].at \in {"idle", "lock"}
  PROVE  OneAsks' /\ Answering'
  BY DEF OneAsks, Asks, Answering, Answer

LEMMA AnsweringStep ==
  ASSUME ObjectTypes, Writing, OneAsks, Answering, Continues(log, log'), log' = log \/ Len(log') > Len(log),
         \A i \in Len(log) + 1 .. Len(log') : log'[i].field = "ai" => WritesAnswer,
         ~(WritesRaw /\ WritesAnswer), ~(WritesStatus /\ WritesAnswer), log' = log => ~WritesAnswer,
         O!Next
  PROVE  OneAsks' /\ Answering'
  <1>1. ASSUME NEW c \in Caller, O!AppendValues(c)
        PROVE  OneAsks' /\ Answering'
    <2>1. UNCHANGED <<refresh, locked>>
      BY <1>1 DEF O!AppendValues
    <2>2. ~WritesAnswer
      BY <1>1, RequestWrites
    <2> QED BY <2>1, <2>2, OneAsksElsewhere, AnsweringElsewhere
  <1>2. ASSUME NEW c \in Caller,
               O!ReadStream(c) \/ O!CallSkill(c) \/ O!AppendOccurrence(c) \/ O!AppendRelation(c)
                 \/ O!Schedule(c) \/ O!FailRequest(c)
        PROVE  OneAsks' /\ Answering'
    <2>1. UNCHANGED <<refresh, locked, log>>
      BY <1>2 DEF O!ReadStream, O!CallSkill, O!AppendOccurrence, O!AppendRelation, O!Schedule,
                  O!FailRequest, O!objectVars
    <2>2. ~WritesAnswer
      BY <2>1
    <2> QED BY <2>1, <2>2, OneAsksElsewhere, AnsweringElsewhere
  <1>3. ASSUME NEW x \in Refresh, O!StartRefresh(x) \/ O!RefreshByHand(x)
        PROVE  OneAsks' /\ Answering'
    <2>1. PICK q : q = [at |-> "lock"]
      OBVIOUS
    <2>2. log' = log /\ locked' = locked /\ O!GoRefresh(x, q)
      BY <1>3, <2>1 DEF O!StartRefresh, O!RefreshByHand, O!objectVars
    <2>3. Answer(q) /\ ~Asks(q)
      BY <2>1 DEF Answer, Asks
    <2>4. \A y \in Refresh : Asks(refresh'[y]) => y # x /\ refresh'[y] = refresh[y]
      BY <2>2, <2>3 DEF O!GoRefresh, ObjectTypes
    <2>5. OneAsks'
      BY <2>2, <2>4 DEF OneAsks, Asks
    <2> QED BY <2>2, <2>3, <2>5, AnsweringBy
  <1>4. ASSUME NEW x \in Refresh, O!TakeLock(x)
        PROVE  OneAsks' /\ Answering'
    <2>1. PICK q : q = [at |-> "read"]
      OBVIOUS
    <2>2. log' = log /\ ~locked /\ locked' = TRUE /\ O!GoRefresh(x, q)
      BY <1>4, <2>1 DEF O!TakeLock, O!objectVars
    <2>3. Answer(q)
      BY <2>1 DEF Answer
    <2>4. \A y \in Refresh : Asks(refresh'[y]) => y = x
      BY <2>2 DEF O!GoRefresh, ObjectTypes, OneAsks
    <2>5. OneAsks'
      BY <2>2, <2>4 DEF OneAsks, Asks
    <2> QED BY <2>2, <2>3, <2>5, AnsweringBy
  <1>5. ASSUME NEW x \in Refresh, O!AskModel(x)
        PROVE  OneAsks' /\ Answering'
    <2>1. PICK q : q = [at |-> "append", version |-> Len(log), value |-> O!ValueIn(log, "total")]
      OBVIOUS
    <2>2. log' = log /\ locked' = locked /\ O!GoRefresh(x, q) /\ refresh[x].at = "read"
      BY <1>5, <2>1 DEF O!AskModel, O!objectVars
    <2>3. Answer(q)
      <3>1. q.version = Len(log) /\ q.value = O!ValueIn(log, "total")
        BY <2>1
      <3>2. Len(log) \in Nat
        BY DEF ObjectTypes
      <3> QED BY <3>1, <3>2 DEF Answer
    <2>4. \A y \in Refresh : Asks(refresh'[y]) => Asks(refresh[y])
      BY <2>2 DEF O!GoRefresh, ObjectTypes, Asks
    <2>5. OneAsks'
      BY <2>2, <2>4 DEF OneAsks, Asks
    <2> QED BY <2>2, <2>3, <2>5, AnsweringBy
  <1>6. ASSUME NEW x \in Refresh, O!AppendValue(x)
        PROVE  OneAsks' /\ Answering'
    <2>1. Asks(refresh[x]) /\ O!GoRefresh(x, O!Idle)
      BY <1>6 DEF O!AppendValue, Asks
    <2> QED BY <2>1, NobodyAsks, NobodyAsksThen
  <1>7. ASSUME NEW x \in Refresh, O!FailRefresh(x)
        PROVE  OneAsks' /\ Answering'
    <2>1. log' = log /\ O!GoRefresh(x, O!Idle) /\ locked' = (locked /\ refresh[x].at = "lock") /\ refresh[x].at # "idle"
      BY <1>7 DEF O!FailRefresh, O!objectVars
    <2>2. CASE Asks(refresh[x])
      BY <2>1, <2>2, NobodyAsks, NobodyAsksThen
    <2>3. CASE ~Asks(refresh[x])
      <3>1. PICK p \in FieldRefresh : p = refresh[x]
        BY DEF ObjectTypes
      <3>2. p.at \in {"idle", "lock", "read", "append"}
        BY DEF FieldRefresh
      <3>3. locked' = locked
        BY <2>1, <2>3, <3>1, <3>2 DEF Asks, ObjectTypes
      <3>4. \A y \in Refresh : Asks(refresh'[y]) => Asks(refresh[y])
        BY <2>1, NoRequest DEF O!GoRefresh, ObjectTypes, Asks
      <3>5. OneAsks'
        BY <3>3, <3>4 DEF OneAsks, Asks
      <3>6. Answer(O!Idle)
        BY NoRequest DEF Answer
      <3> QED BY <2>1, <3>5, <3>6, AnsweringBy
    <2> QED BY <2>2, <2>3
  <1>8. ASSUME O!Crash
        PROVE  OneAsks' /\ Answering'
    <2>1. \A y \in Refresh : refresh'[y].at \in {"idle", "lock"}
      BY <1>8, NoRequest DEF O!Crash
    <2> QED BY <2>1, NobodyAsksThen
  <1> QED BY <1>1, <1>2, <1>3, <1>4, <1>5, <1>6, <1>7, <1>8 DEF O!Next

-------------------------------------------------------------------------------
\* The occurrences, action by action.

LEMMA OneOfOn ==
  ASSUME NEW streams, OneOf(streams), NEW new, \A s \in streams : s.causation # new.causation
  PROVE  OneOf(streams \union {new})
  BY DEF OneOf

LEMMA DerivedStill ==
  ASSUME ObjectTypes, Recurring, Continues(log, log'), NEW s \in occurrences \union relations
  PROVE  O!Causes(log', s.causation)
  BY CausesStill DEF Recurring

LEMMA RecurringElsewhere ==
  ASSUME ObjectTypes, Recurring, Continues(log, log'), UNCHANGED <<occurrences, relations>>
  PROVE  Recurring'
  BY DerivedStill DEF Recurring

\* What an append of an occurrence leaves.
LEMMA OccurrenceAppended ==
  ASSUME NEW c \in Caller, O!AppendOccurrence(c), NEW k, k = request[c].causation, NEW b, b = request[c].raw
  PROVE  \/ \E new : /\ occurrences' = occurrences \union {new} /\ new.causation = k
                     /\ \A s \in occurrences : s.causation # k
                     /\ O!Go(c, [at |-> "relation", causation |-> k, raw |-> b, to |-> new.object])
         \/ /\ occurrences' = occurrences
            /\ \E s \in occurrences : s.causation = k
            /\ \/ \E o : O!Go(c, [at |-> "relation", causation |-> k, raw |-> b, to |-> o])
               \/ O!Go(c, [at |-> "schedule", raw |-> b])
  <1>1. PICK new : new = [causation |-> k, object |-> calls + 1]
    OBVIOUS
  <1>2. new.causation = k
    BY <1>1
  <1>3. \/ /\ O!StreamOf(occurrences, k) = {}
           /\ occurrences' = occurrences \union {new}
           /\ O!Go(c, [at |-> "relation", causation |-> k, raw |-> b, to |-> new.object])
        \/ /\ \E s \in O!StreamOf(occurrences, k) :
                 O!Go(c, [at |-> "relation", causation |-> k, raw |-> b, to |-> s.object])
           /\ occurrences' = occurrences
        \/ /\ O!StreamOf(occurrences, k) # {}
           /\ O!Go(c, [at |-> "schedule", raw |-> b]) /\ occurrences' = occurrences
    BY <1>1 DEF O!AppendOccurrence
  <1> QED BY <1>2, <1>3 DEF O!StreamOf

\* What an append of a relation leaves.
LEMMA RelationAppended ==
  ASSUME Writing, NEW c \in Caller, O!AppendRelation(c), NEW k, k = request[c].causation
  PROVE  \/ /\ relations' = relations
            /\ \E s \in relations : s.causation = k
         \/ \E new \in occurrences : /\ relations' = relations \union {new} /\ new.causation = k
                                     /\ \A s \in relations : s.causation # k
  <1>1. PICK new : new = [causation |-> k, object |-> request[c].to]
    OBVIOUS
  <1>2. new.causation = k /\ new \in occurrences
    BY <1>1 DEF Writing, Known, O!AppendRelation
  <1>3. relations' = IF O!StreamOf(relations, k) = {} THEN relations \union {new} ELSE relations
    BY <1>1 DEF O!AppendRelation
  <1> QED BY <1>2, <1>3 DEF O!StreamOf

LEMMA RecurringStep ==
  ASSUME ObjectTypes, Writing, Recurring, Continues(log, log'), O!Next
  PROVE  Recurring'
  <1>1. ASSUME NEW c \in Caller, O!AppendOccurrence(c)
        PROVE  Recurring'
    <2>1. PICK k, b : k = request[c].causation /\ b = request[c].raw
      OBVIOUS
    <2>2. log' = log /\ relations' = relations /\ O!Causes(log, k)
      BY <1>1, <2>1 DEF O!AppendOccurrence, Writing, Known
    <2>3. \/ occurrences' = occurrences
          \/ \E new : /\ occurrences' = occurrences \union {new} /\ new.causation = k
                      /\ \A s \in occurrences : s.causation # k
      BY <1>1, <2>1, OccurrenceAppended
    <2>4. CASE occurrences' = occurrences
      BY <2>2, <2>4, RecurringElsewhere
    <2>5. ASSUME NEW new, occurrences' = occurrences \union {new}, new.causation = k,
                 \A s \in occurrences : s.causation # k
          PROVE  Recurring'
      <3>1. OneOf(occurrences \union {new})
        BY <2>5, OneOfOn DEF Recurring
      <3>2. OneOf(occurrences')
        BY <2>5, <3>1
      <3> QED BY <2>2, <2>5, <3>2 DEF Recurring, OneOf
    <2> QED BY <2>3, <2>4, <2>5
  <1>2. ASSUME NEW c \in Caller, O!AppendRelation(c)
        PROVE  Recurring'
    <2>1. PICK k : k = request[c].causation
      OBVIOUS
    <2>2. log' = log /\ occurrences' = occurrences
      BY <1>2 DEF O!AppendRelation
    <2>3. \/ relations' = relations
          \/ \E new \in occurrences : /\ relations' = relations \union {new} /\ new.causation = k
                                      /\ \A s \in relations : s.causation # k
      BY <1>2, <2>1, RelationAppended
    <2>4. CASE relations' = relations
      BY <2>2, <2>4, RecurringElsewhere
    <2>5. ASSUME NEW new \in occurrences, relations' = relations \union {new}, new.causation = k,
                 \A s \in relations : s.causation # k
          PROVE  Recurring'
      <3>1. OneOf(relations \union {new})
        BY <2>5, OneOfOn DEF Recurring
      <3>2. OneOf(relations')
        BY <2>5, <3>1
      <3> QED BY <2>2, <2>5, <3>2 DEF Recurring, OneOf
    <2> QED BY <2>3, <2>4, <2>5
  <1>3. ASSUME NEW c \in Caller,
               O!ReadStream(c) \/ O!AppendValues(c) \/ O!CallSkill(c) \/ O!Schedule(c) \/ O!FailRequest(c)
        PROVE  Recurring'
    <2>1. UNCHANGED <<occurrences, relations>>
      BY <1>3 DEF O!ReadStream, O!AppendValues, O!CallSkill, O!Schedule, O!FailRequest, O!objectVars
    <2> QED BY <2>1, RecurringElsewhere
  <1>4. ASSUME NEW x \in Refresh,
               O!StartRefresh(x) \/ O!RefreshByHand(x) \/ O!TakeLock(x) \/ O!AskModel(x)
                 \/ O!AppendValue(x) \/ O!FailRefresh(x)
        PROVE  Recurring'
    <2>1. UNCHANGED <<occurrences, relations>>
      BY <1>4 DEF O!StartRefresh, O!RefreshByHand, O!TakeLock, O!AskModel, O!AppendValue, O!FailRefresh,
                  O!objectVars
    <2> QED BY <2>1, RecurringElsewhere
  <1>5. ASSUME O!Crash
        PROVE  Recurring'
    <2>1. UNCHANGED <<occurrences, relations>>
      BY <1>5 DEF O!Crash, O!objectVars
    <2> QED BY <2>1, RecurringElsewhere
  <1> QED BY <1>1, <1>2, <1>3, <1>4, <1>5 DEF O!Next

-------------------------------------------------------------------------------
\* While nothing goes wrong, what is missing is seen to.

Seeks(q, i) == q.at = "occurrence" /\ q.causation = i
Relates(q, i) == q.at = "relation" /\ q.causation = i

CompletionSeen(i) == (\E s \in occurrences : s.causation = i) \/ \E c \in Caller : Seeks(request[c], i)
OccurrenceSeen(s) == s \in relations \/ \E c \in Caller : Relates(request[c], s.causation)

LEMMA CoveredIs ==
  Covered <=> (mishaps = 0 =>
                 /\ \A i \in 1..Len(log) : O!Completes(log, i) => CompletionSeen(i)
                 /\ \A s \in occurrences : OccurrenceSeen(s))
  BY DEF Covered, CompletionSeen, OccurrenceSeen, Seeks, Relates

LEMMA CoveredSteps ==
  ASSUME Covered, mishaps' = 0, mishaps = 0, Continues(log, log'),
         \A i \in 1..Len(log) : CompletionSeen(i) => CompletionSeen(i)',
         \A i \in Len(log) + 1 .. Len(log') : O!Completes(log', i) => CompletionSeen(i)',
         \A s \in occurrences' : (s \in occurrences /\ (OccurrenceSeen(s) => OccurrenceSeen(s)')) \/ OccurrenceSeen(s)'
  PROVE  Covered'
  <1>1. ASSUME NEW i \in 1..Len(log'), O!Completes(log', i)
        PROVE  CompletionSeen(i)'
    <2>1. CASE i \in 1..Len(log)
      <3>1. O!Completes(log, i)
        BY <1>1, <2>1, CompletesStill
      <3> QED BY <2>1, <3>1, CoveredIs
    <2>2. CASE i \notin 1..Len(log)
      <3>1. i \in Len(log) + 1 .. Len(log')
        BY <2>2 DEF Continues
      <3> QED BY <1>1, <3>1
    <2> QED BY <2>1, <2>2
  <1>2. ASSUME NEW s \in occurrences'
        PROVE  OccurrenceSeen(s)'
    BY CoveredIs
  <1> QED BY <1>1, <1>2 DEF Covered, CompletionSeen, OccurrenceSeen, Seeks, Relates

\* Whoever neither seeks nor relates may go anywhere.
LEMMA CoveredBy ==
  ASSUME ObjectTypes, Covered, Continues(log, log'), UNCHANGED <<occurrences, relations, mishaps>>,
         NEW c \in Caller, request[c].at \notin {"occurrence", "relation"}, NEW q, O!Go(c, q),
         \A i \in Len(log) + 1 .. Len(log') : O!Completes(log', i) => Seeks(q, i)
  PROVE  Covered'
  <1>0. SUFFICES ASSUME mishaps' = 0
                 PROVE  Covered'
    BY DEF Covered
  <1>1. request'[c] = q /\ \A d \in Caller : d # c => request'[d] = request[d]
    BY DEF O!Go, ObjectTypes
  <1>2. \A d \in Caller : \A i : (Seeks(request[d], i) => Seeks(request'[d], i)) /\ (Relates(request[d], i) => Relates(request'[d], i))
    BY <1>1 DEF Seeks, Relates
  <1>3. \A i : CompletionSeen(i) => CompletionSeen(i)'
    BY <1>2 DEF CompletionSeen, Seeks
  <1>4. \A s : OccurrenceSeen(s) => OccurrenceSeen(s)'
    BY <1>2 DEF OccurrenceSeen, Relates
  <1>5. ASSUME NEW i \in Len(log) + 1 .. Len(log'), O!Completes(log', i)
        PROVE  CompletionSeen(i)'
    BY <1>1, <1>5 DEF CompletionSeen, Seeks
  <1> QED BY <1>0, <1>3, <1>4, <1>5, CoveredSteps

LEMMA CoveredElsewhere ==
  ASSUME Covered, Continues(log, log'), UNCHANGED <<occurrences, relations, mishaps, request>>,
         \A i \in Len(log) + 1 .. Len(log') : ~O!Completes(log', i)
  PROVE  Covered'
  <1>0. SUFFICES ASSUME mishaps' = 0
                 PROVE  Covered'
    BY DEF Covered
  <1>1. \A i : CompletionSeen(i) => CompletionSeen(i)'
    BY DEF CompletionSeen, Seeks
  <1>2. \A s : OccurrenceSeen(s) => OccurrenceSeen(s)'
    BY DEF OccurrenceSeen, Relates
  <1> QED BY <1>0, <1>1, <1>2, CoveredSteps

LEMMA AppendValuesCovers ==
  ASSUME ObjectTypes, Writing, Covered, NEW c \in Caller, O!AppendValues(c), Continues(log, log'),
         \A i \in Len(log) + 1 .. Len(log') : O!Completes(log', i) => WritesStatus /\ i = Len(log) + 1,
         log' = log => ~WritesStatus
  PROVE  Covered'
  <1>1. request[c].at = "append" /\ UNCHANGED <<occurrences, relations, mishaps>>
    BY DEF O!AppendValues, O!counters
  <1>2. PICK q : O!Go(c, q)
    BY DEF O!AppendValues
  <1>3. ASSUME NEW i \in Len(log) + 1 .. Len(log'), O!Completes(log', i)
        PROVE  Seeks(q, i)
    <2>1. WritesStatus /\ i = Len(log) + 1 /\ log' # log
      BY <1>3
    <2>2. /\ O!VersionMatches(request[c].version) /\ log' = log \o request[c].batch
          /\ request[c].batch \in Drafts(log) /\ request[c].prior = O!ValueIn(log, "status")
      BY <1>1, <2>1 DEF O!AppendValues, O!VersionMatches, Writing, Known
    <2>3. PICK b, v : /\ b = request[c].batch /\ v \in {"open", "done"} /\ b[1] = O!Event("status", v)
                      /\ log' = Append(log, O!Event("status", v))
      <3>1. PICK b : b = request[c].batch
        OBVIOUS
      <3>2. log \in Seq(Change) /\ b \in Drafts(log)
        BY <2>2, <3>1 DEF ObjectTypes
      <3>3. CASE \E f \in O!Raw : /\ b[1].field = f
                                  /\ log \o b = Append(Append(log, RawWrite(log, f)), TotalWrite(log, f))
        <4>0. PICK f \in O!Raw : log \o b = Append(Append(log, RawWrite(log, f)), TotalWrite(log, f))
          BY <3>3
        <4>1. PICK t : t = log' /\ BatchWrite(log, f, t)
          BY <2>2, <3>1, <4>0 DEF BatchWrite
        <4>2. PICK e : log' = Append(log, e) /\ \E v \in {"open", "done"} : e = O!Event("status", v)
          BY <2>1 DEF WritesStatus
        <4>3. e \in Change
          <5>1. "status" \in Field /\ Worth("status") = {"open", "done"}
            BY DEF Worth, Field, O!Raw
          <5> QED BY <4>2, <5>1, EventTyped
        <4>4. PICK u, a, d : /\ a = RawWrite(log, f) /\ d = TotalWrite(log, f)
                             /\ u = Append(log, a) /\ t = Append(u, d)
          BY <4>1 DEF BatchWrite
        <4>5. a \in Change /\ d \in Change
          <5>1. "total" \in Field /\ Worth("total") = [O!Raw -> Nat] /\ f \in Field /\ Worth(f) = Nat /\ Len(log) + 1 \in Nat
            BY <3>2 DEF Field, Worth, O!Raw
          <5>2. [O!TotalIn(log) EXCEPT ![f] = Len(log) + 1] \in [O!Raw -> Nat]
            BY <3>2, TotalTyped
          <5> QED BY <4>4, <5>1, <5>2, EventTyped DEF RawWrite, TotalWrite
        <4>6. u \in Seq(Change) /\ Len(u) = Len(log) + 1
          BY <3>2, <4>4, <4>5
        <4>7. Len(t) = Len(u) + 1
          BY <4>4, <4>5, <4>6
        <4>8. Len(t) = Len(log) + 1
          BY <3>2, <4>1, <4>2, <4>3
        <4> QED BY <3>2, <4>6, <4>7, <4>8
      <3> QED BY <2>2, <3>1, <3>2, <3>3, BatchWritten
    <2>4. O!Event("status", v) \in Change /\ O!Event("status", v).field = "status" /\ O!Event("status", v).value = v
      <3>1. "status" \in Field /\ Worth("status") = {"open", "done"}
        BY DEF Worth, Field, O!Raw
      <3> QED BY <2>3, <3>1, EventTyped
    <2>5. PICK t, e : t = log' /\ e = O!Event("status", v)
      OBVIOUS
    <2>6. t[i] = e /\ SubSeq(t, 1, i - 1) = log
      <3>1. log \in Seq(Change) /\ e \in Change /\ t = Append(log, e)
        BY <2>3, <2>4, <2>5 DEF ObjectTypes
      <3>2. t[Len(log) + 1] = e /\ SubSeq(t, 1, Len(log)) = log
        BY <3>1, AppendContinues
      <3>3. i - 1 = Len(log)
        BY <2>1, <3>1
      <3> QED BY <2>1, <3>2, <3>3
    <2>7. v = "done" /\ O!ValueIn(log, "status") # "done"
      BY <1>3, <2>4, <2>5, <2>6 DEF O!Completes
    <2>8. O!IsTransition(request[c])
      BY <2>2, <2>3, <2>4, <2>7 DEF O!IsTransition
    <2>9. O!Go(c, [at |-> "occurrence", causation |-> Len(log) + 1, raw |-> FALSE])
      BY <2>2, <2>8 DEF O!AppendValues
    <2>10. q = [at |-> "occurrence", causation |-> Len(log) + 1, raw |-> FALSE]
      <3>1. request'[c] = q
        BY <1>2 DEF O!Go, ObjectTypes
      <3>2. request'[c] = [at |-> "occurrence", causation |-> Len(log) + 1, raw |-> FALSE]
        BY <2>9 DEF O!Go, ObjectTypes
      <3> QED BY <3>1, <3>2
    <2> QED BY <2>1, <2>10 DEF Seeks
  <1> QED BY <1>1, <1>2, <1>3, CoveredBy

LEMMA AppendOccurrenceCovers ==
  ASSUME ObjectTypes, Writing, Covered, NEW c \in Caller, O!AppendOccurrence(c)
  PROVE  Covered'
  <1>0. SUFFICES ASSUME mishaps' = 0
                 PROVE  Covered'
    BY DEF Covered
  <1>1. /\ request[c].at = "occurrence" /\ log' = log /\ relations' = relations /\ mishaps' = mishaps
        /\ occurrences \subseteq occurrences'
    BY DEF O!AppendOccurrence
  <1>2. Continues(log, log')
    BY <1>1, ItselfContinues DEF ObjectTypes
  <1>3. PICK k, b : k = request[c].causation /\ b = request[c].raw
    OBVIOUS
  <1>4. PICK q : /\ O!Go(c, q)
                 /\ \/ \E new : /\ occurrences' = occurrences \union {new} /\ new.causation = k
                                /\ q = [at |-> "relation", causation |-> k, raw |-> b, to |-> new.object]
                    \/ occurrences' = occurrences /\ \E s \in occurrences : s.causation = k
    <2>1. \/ \E new : /\ occurrences' = occurrences \union {new} /\ new.causation = k
                       /\ O!Go(c, [at |-> "relation", causation |-> k, raw |-> b, to |-> new.object])
          \/ /\ occurrences' = occurrences
             /\ \E s \in occurrences : s.causation = k
             /\ \E q : O!Go(c, q)
      BY <1>3, OccurrenceAppended
    <2> QED BY <2>1
  <1>5. request'[c] = q /\ \A d \in Caller : d # c => request'[d] = request[d]
    BY <1>4 DEF O!Go, ObjectTypes
  <1>6. \A d \in Caller : \A i : Relates(request[d], i) => Relates(request'[d], i)
    BY <1>1, <1>5 DEF Relates
  <1>7. \A s : OccurrenceSeen(s) => OccurrenceSeen(s)'
    BY <1>1, <1>6 DEF OccurrenceSeen, Relates
  <1>8. ASSUME NEW i, CompletionSeen(i)
        PROVE  CompletionSeen(i)'
    <2>1. CASE \E s \in occurrences : s.causation = i
      BY <1>1, <2>1 DEF CompletionSeen
    <2>2. CASE \E d \in Caller : Seeks(request[d], i)
      <3>1. PICK d \in Caller : Seeks(request[d], i)
        BY <2>2
      <3>2. CASE d = c
        <4>1. i = k
          BY <1>3, <3>1, <3>2 DEF Seeks
        <4> QED BY <1>4, <4>1 DEF CompletionSeen
      <3>3. CASE d # c
        BY <1>5, <3>1, <3>3 DEF CompletionSeen, Seeks
      <3> QED BY <3>2, <3>3
    <2> QED BY <1>8, <2>1, <2>2 DEF CompletionSeen
  <1>9. ASSUME NEW s \in occurrences', s \notin occurrences
        PROVE  OccurrenceSeen(s)'
    <2>1. PICK new : /\ occurrences' = occurrences \union {new} /\ new.causation = k
                     /\ q = [at |-> "relation", causation |-> k, raw |-> b, to |-> new.object]
      BY <1>4, <1>9
    <2>2. s = new /\ Relates(q, k)
      BY <1>9, <2>1 DEF Relates
    <2> QED BY <1>5, <2>1, <2>2 DEF OccurrenceSeen, Relates
  <1>10. \A i \in Len(log) + 1 .. Len(log') : FALSE
    BY <1>1 DEF ObjectTypes
  <1> QED BY <1>0, <1>1, <1>2, <1>7, <1>8, <1>9, <1>10, CoveredSteps

LEMMA AppendRelationCovers ==
  ASSUME ObjectTypes, Writing, Recurring, Covered, NEW c \in Caller, O!AppendRelation(c)
  PROVE  Covered'
  <1>0. SUFFICES ASSUME mishaps' = 0
                 PROVE  Covered'
    BY DEF Covered
  <1>1. /\ request[c].at = "relation" /\ log' = log /\ occurrences' = occurrences /\ mishaps' = mishaps
        /\ relations \subseteq relations'
    BY DEF O!AppendRelation, O!counters
  <1>2. Continues(log, log')
    BY <1>1, ItselfContinues DEF ObjectTypes
  <1>3. PICK k, q : k = request[c].causation /\ O!Go(c, q)
    BY DEF O!AppendRelation
  <1>4. request'[c] = q /\ \A d \in Caller : d # c => request'[d] = request[d]
    BY <1>3 DEF O!Go, ObjectTypes
  <1>5. \A d \in Caller : \A i : Seeks(request[d], i) => Seeks(request'[d], i)
    BY <1>1, <1>4 DEF Seeks
  <1>6. \A i : CompletionSeen(i) => CompletionSeen(i)'
    BY <1>1, <1>5 DEF CompletionSeen, Seeks
  <1>7. PICK r \in relations' : r.causation = k /\ r \in occurrences
    BY <1>1, <1>3, RelationAppended DEF Recurring
  <1>8. ASSUME NEW s \in occurrences, OccurrenceSeen(s)
        PROVE  OccurrenceSeen(s)'
    <2>1. CASE s \in relations
      BY <1>1, <2>1 DEF OccurrenceSeen
    <2>2. CASE \E d \in Caller : Relates(request[d], s.causation)
      <3>1. PICK d \in Caller : Relates(request[d], s.causation)
        BY <2>2
      <3>2. CASE d = c
        <4>1. s.causation = k
          BY <1>3, <3>1, <3>2 DEF Relates
        <4>2. s = r
          BY <1>7, <1>8, <4>1 DEF Recurring, OneOf
        <4> QED BY <1>7, <4>2 DEF OccurrenceSeen
      <3>3. CASE d # c
        BY <1>4, <3>1, <3>3 DEF OccurrenceSeen, Relates
      <3> QED BY <3>2, <3>3
    <2> QED BY <1>8, <2>1, <2>2 DEF OccurrenceSeen
  <1>9. \A i \in Len(log) + 1 .. Len(log') : FALSE
    BY <1>1 DEF ObjectTypes
  <1> QED BY <1>0, <1>1, <1>2, <1>6, <1>8, <1>9, CoveredSteps

LEMMA CoveredStep ==
  ASSUME ObjectTypes, Writing, Answering, Recurring, Covered, Continues(log, log'),
         \A i \in Len(log) + 1 .. Len(log') : O!Completes(log', i) => WritesStatus /\ i = Len(log) + 1,
         log' = log => ~WritesStatus, ~(WritesStatus /\ WritesAnswer), O!Next
  PROVE  Covered'
  <1>1. ASSUME NEW c \in Caller, O!ReadStream(c) \/ O!CallSkill(c) \/ O!Schedule(c)
        PROVE  Covered'
    <2>1. UNCHANGED <<log, occurrences, relations, mishaps>>
      BY <1>1 DEF O!ReadStream, O!CallSkill, O!Schedule, O!objectVars, O!counters
    <2>2. request[c].at \notin {"occurrence", "relation"}
      BY <1>1 DEF O!ReadStream, O!CallSkill, O!Schedule
    <2>3. PICK q : O!Go(c, q)
      BY <1>1 DEF O!ReadStream, O!CallSkill, O!Schedule
    <2>4. \A i \in Len(log) + 1 .. Len(log') : FALSE
      BY <2>1 DEF ObjectTypes
    <2> QED BY <2>1, <2>2, <2>3, <2>4, CoveredBy
  <1>2. ASSUME NEW x \in Refresh,
               O!StartRefresh(x) \/ O!RefreshByHand(x) \/ O!TakeLock(x) \/ O!AskModel(x)
        PROVE  Covered'
    <2>1. UNCHANGED <<log, occurrences, relations, mishaps, request>>
      BY <1>2 DEF O!StartRefresh, O!RefreshByHand, O!TakeLock, O!AskModel, O!objectVars, O!counters
    <2>2. \A i \in Len(log) + 1 .. Len(log') : FALSE
      BY <2>1 DEF ObjectTypes
    <2> QED BY <2>1, <2>2, CoveredElsewhere
  <1>3. ASSUME NEW x \in Refresh, O!AppendValue(x)
        PROVE  Covered'
    <2>1. UNCHANGED <<occurrences, relations, mishaps, request>>
      BY <1>3 DEF O!AppendValue, O!counters
    <2>2. log' = log \/ WritesAnswer
      BY <1>3 DEF O!AppendValue, O!VersionMatches, Answering, Answer, WritesAnswer
    <2>3. ~WritesStatus
      BY <2>2
    <2> QED BY <2>1, <2>3, CoveredElsewhere
  <1>4. ASSUME O!GoesWrong
        PROVE  Covered'
    BY <1>4, MishapTypes DEF Covered
  <1>5. ASSUME NEW c \in Caller, O!FailRequest(c)
        PROVE  Covered'
    BY <1>4, <1>5 DEF O!FailRequest
  <1>6. ASSUME NEW x \in Refresh, O!FailRefresh(x)
        PROVE  Covered'
    BY <1>4, <1>6 DEF O!FailRefresh
  <1>7. ASSUME O!Crash
        PROVE  Covered'
    BY <1>4, <1>7 DEF O!Crash
  <1> QED BY <1>1, <1>2, <1>3, <1>5, <1>6, <1>7, AppendValuesCovers, AppendOccurrenceCovers,
             AppendRelationCovers DEF O!Next

-------------------------------------------------------------------------------
\* Somebody will see to a value that is not the one of the total.

LEMMA AwaitedBy ==
  ASSUME ObjectTypes, Awaited, NEW c \in Caller, NEW q, O!Go(c, q), UNCHANGED refresh,
         timer => timer', lost => lost',
         Owing(request[c]) => Owing(q) \/ timer' \/ lost',
         O!ValueIn(log', "ai") = O!ValueIn(log, "ai"), O!ValueIn(log', "total") = O!ValueIn(log, "total"),
         \A x \in Refresh : WillAnswer(refresh[x]) => WillAnswer(refresh[x])'
  PROVE  Awaited'
  <1>1. request'[c] = q /\ \A d \in Caller : d # c => request'[d] = request[d]
    BY DEF O!Go, ObjectTypes
  <1>2. CASE timer \/ lost \/ O!ValueIn(log, "ai") = O!ValueIn(log, "total")
    BY <1>2 DEF Awaited
  <1>3. ASSUME NEW d \in Caller, Owing(request[d])
        PROVE  Awaited'
    <2>1. CASE d = c
      BY <1>1, <1>3, <2>1 DEF Awaited, Owing
    <2>2. CASE d # c
      BY <1>1, <1>3, <2>2 DEF Awaited, Owing
    <2> QED BY <2>1, <2>2
  <1>4. ASSUME NEW x \in Refresh, WillAsk(refresh[x]) \/ WillAnswer(refresh[x])
        PROVE  Awaited'
    BY <1>4 DEF Awaited, WillAsk
  <1> QED BY <1>2, <1>3, <1>4 DEF Awaited

\* A raw value that is written makes its request owe a refresh.
LEMMA RawIsOwed ==
  ASSUME ObjectTypes, Writing, NEW c \in Caller, O!AppendValues(c)
  PROVE  \/ log' = log
         \/ WritesStatus
         \/ \E q : O!Go(c, q) /\ Owing(q)
  <1>1. CASE ~O!VersionMatches(request[c].version)
    BY <1>1 DEF O!AppendValues
  <1>2. CASE O!VersionMatches(request[c].version)
    <2>1. PICK b : b = request[c].batch
      OBVIOUS
    <2>2. b \in Drafts(log) /\ log' = log \o b /\ log \in Seq(Change)
      BY <1>2, <2>1 DEF O!AppendValues, O!VersionMatches, Writing, Known, ObjectTypes
    <2>3. CASE b[1].field \in O!Raw
      <3>1. ~O!IsTransition(request[c])
        BY <2>1, <2>3 DEF O!IsTransition, O!Raw
      <3>2. PICK q : q = [at |-> "schedule", raw |-> request[c].batch[1].field \in O!Raw]
        OBVIOUS
      <3>3. O!Go(c, q)
        BY <1>2, <3>1, <3>2 DEF O!AppendValues
      <3>4. q.at = "schedule" /\ q.raw
        BY <2>1, <2>3, <3>2
      <3> QED BY <3>3, <3>4 DEF Owing
    <2>4. CASE b[1].field \notin O!Raw
      BY <2>2, <2>4, BatchWritten DEF WritesStatus
    <2> QED BY <2>3, <2>4
  <1> QED BY <1>1, <1>2

LEMMA AnswerAwaited ==
  ASSUME ObjectTypes, UNCHANGED refresh, Continues(log, log'), NEW x \in Refresh, WillAnswer(refresh[x]),
         \A i \in Len(log) + 1 .. Len(log') : log'[i].field # "total"
  PROVE  WillAnswer(refresh[x])'
  <1>1. PICK v \in Nat : v = refresh[x].version /\ refresh[x].at = "append"
    BY RefreshFields DEF WillAnswer
  <1>2. PICK n \in Nat, m \in Nat : n = Len(log) /\ m = Len(log')
    BY DEF Continues
  <1>3. ASSUME NEW i \in v + 1 .. m
        PROVE  log'[i].field # "total"
    <2>1. CASE i <= n
      <3>1. i \in v + 1 .. n /\ i \in 1..n
        BY <1>2, <1>3, <2>1
      <3> QED BY <1>1, <1>2, <3>1 DEF WillAnswer, Continues
    <2>2. CASE i > n
      <3>1. i \in n + 1 .. m
        BY <1>2, <1>3, <2>2
      <3> QED BY <1>2, <3>1
    <2> QED BY <1>2, <2>1, <2>2
  <1> QED BY <1>1, <1>2, <1>3 DEF WillAnswer

LEMMA AwaitedStep ==
  ASSUME ObjectTypes, Writing, Answering, Awaited, Continues(log, log'),
         log' = log => ~WritesAnswer,
         ~(WritesStatus /\ WritesRaw),
         WritesStatus => /\ O!ValueIn(log', "total") = O!ValueIn(log, "total")
                         /\ O!ValueIn(log', "ai") = O!ValueIn(log, "ai"),
         WritesAnswer => O!ValueIn(log', "ai") = O!ValueIn(log', "total"),
         \A i \in Len(log) + 1 .. Len(log') : log'[i].field = "total" => WritesRaw,
         O!Next
  PROVE  Awaited'
  <1>1. ASSUME log' = log, UNCHANGED refresh
        PROVE  \A x \in Refresh : WillAnswer(refresh[x]) => WillAnswer(refresh[x])'
    BY <1>1 DEF WillAnswer
  <1>2. ASSUME NEW c \in Caller, O!AppendValues(c)
        PROVE  Awaited'
    <2>1. UNCHANGED <<timer, lost, refresh>> /\ ~Owing(request[c])
      BY <1>2 DEF O!AppendValues, O!counters, Owing
    <2>2. CASE log' = log
      <3>1. PICK q : O!Go(c, q)
        BY <1>2 DEF O!AppendValues
      <3> QED BY <1>1, <2>1, <2>2, <3>1, AwaitedBy
    <2>3. CASE WritesStatus
      <3>1. PICK q : O!Go(c, q)
        BY <1>2 DEF O!AppendValues
      <3>2. \A i \in Len(log) + 1 .. Len(log') : log'[i].field # "total"
        BY <2>3
      <3>3. \A x \in Refresh : WillAnswer(refresh[x]) => WillAnswer(refresh[x])'
        BY <2>1, <3>2, AnswerAwaited
      <3> QED BY <2>1, <2>3, <3>1, <3>3, AwaitedBy
    <2>4. ASSUME NEW q, O!Go(c, q), Owing(q)
          PROVE  Awaited'
      <3>1. request'[c] = q
        BY <2>4 DEF O!Go, ObjectTypes
      <3> QED BY <2>4, <3>1 DEF Awaited, Owing
    <2> QED BY <1>2, <2>2, <2>3, <2>4, RawIsOwed
  <1>3. ASSUME NEW c \in Caller,
               O!ReadStream(c) \/ O!CallSkill(c) \/ O!AppendOccurrence(c) \/ O!AppendRelation(c)
                 \/ O!Schedule(c) \/ O!FailRequest(c)
        PROVE  Awaited'
    <2>1. UNCHANGED <<log, refresh>>
      BY <1>3 DEF O!ReadStream, O!CallSkill, O!AppendOccurrence, O!AppendRelation, O!Schedule,
                  O!FailRequest, O!objectVars
    <2>2. (timer => timer') /\ (lost => lost')
      <3>1. CASE O!ReadStream(c) \/ O!CallSkill(c) \/ O!AppendOccurrence(c) \/ O!AppendRelation(c)
        <4>1. UNCHANGED <<timer, lost>>
          BY <3>1 DEF O!ReadStream, O!CallSkill, O!AppendOccurrence, O!AppendRelation
        <4> QED BY <4>1
      <3>2. CASE O!Schedule(c)
        <4>1. timer' = (timer \/ request[c].raw) /\ lost' = lost
          BY <3>2 DEF O!Schedule
        <4> QED BY <4>1
      <3>3. CASE O!FailRequest(c)
        <4>1. timer' = timer
          BY <3>3 DEF O!FailRequest
        <4>2. CASE lost' = lost
          BY <4>1, <4>2
        <4>3. CASE lost' = (lost \/ request[c].raw)
          BY <4>1, <4>3
        <4> QED BY <3>3, <4>2, <4>3 DEF O!FailRequest
      <3> QED BY <1>3, <3>1, <3>2, <3>3
    <2>3. \E q : O!Go(c, q) /\ (Owing(request[c]) => Owing(q) \/ timer' \/ lost')
      <3>1. CASE O!ReadStream(c) \/ O!CallSkill(c)
        <4>1. ~Owing(request[c])
          BY <3>1 DEF O!ReadStream, O!CallSkill, Owing
        <4> QED BY <3>1, <4>1 DEF O!ReadStream, O!CallSkill
      <3>2. CASE O!AppendOccurrence(c)
        <4>1. PICK k, b : k = request[c].causation /\ b = request[c].raw
          OBVIOUS
        <4>2. PICK q : O!Go(c, q) /\ \/ \E o : q = [at |-> "relation", causation |-> k, raw |-> b, to |-> o]
                                     \/ q = [at |-> "schedule", raw |-> b]
          <5>1. \/ \E o : O!Go(c, [at |-> "relation", causation |-> k, raw |-> b, to |-> o])
                \/ O!Go(c, [at |-> "schedule", raw |-> b])
            BY <3>2, <4>1, OccurrenceAppended
          <5> QED BY <5>1
        <4>3. q.at \in {"relation", "schedule"} /\ q.raw = b
          BY <4>2
        <4> QED BY <4>1, <4>2, <4>3 DEF Owing
      <3>3. CASE O!AppendRelation(c)
        <4>1. PICK q : O!Go(c, q) /\ q = [at |-> "schedule", raw |-> request[c].raw]
          BY <3>3 DEF O!AppendRelation
        <4>2. q.at = "schedule" /\ q.raw = request[c].raw
          BY <4>1
        <4> QED BY <4>1, <4>2 DEF Owing
      <3>4. CASE O!Schedule(c)
        <4>1. O!Go(c, O!Idle) /\ timer' = (timer \/ request[c].raw)
          BY <3>4 DEF O!Schedule
        <4> QED BY <4>1 DEF Owing
      <3>5. CASE O!FailRequest(c)
        <4>1. CASE O!Go(c, [at |-> "schedule", raw |-> request[c].raw])
          <5>1. PICK q : O!Go(c, q) /\ q = [at |-> "schedule", raw |-> request[c].raw]
            BY <4>1
          <5>2. q.at = "schedule" /\ q.raw = request[c].raw
            BY <5>1
          <5> QED BY <5>1, <5>2 DEF Owing
        <4>2. CASE O!Go(c, O!Idle) /\ lost' = (lost \/ request[c].raw)
          BY <4>2 DEF Owing
        <4> QED BY <3>5, <4>1, <4>2 DEF O!FailRequest
      <3> QED BY <1>3, <3>1, <3>2, <3>3, <3>4, <3>5
    <2> QED BY <1>1, <2>1, <2>2, <2>3, AwaitedBy
  <1>4. ASSUME NEW x \in Refresh, O!StartRefresh(x) \/ O!RefreshByHand(x) \/ O!TakeLock(x)
        PROVE  Awaited'
    <2>1. PICK q : O!GoRefresh(x, q) /\ q.at \in {"lock", "read"}
      BY <1>4 DEF O!StartRefresh, O!RefreshByHand, O!TakeLock
    <2>2. refresh'[x] = q
      BY <2>1 DEF O!GoRefresh, ObjectTypes
    <2> QED BY <2>1, <2>2 DEF Awaited, WillAsk
  <1>5. ASSUME NEW x \in Refresh, O!AskModel(x)
        PROVE  Awaited'
    <2>1. PICK q : O!GoRefresh(x, q) /\ q = [at |-> "append", version |-> Len(log), value |-> O!ValueIn(log, "total")]
      BY <1>5 DEF O!AskModel
    <2>2. refresh'[x] = q /\ q.at = "append" /\ q.version = Len(log) /\ log' = log
      BY <1>5, <2>1 DEF O!GoRefresh, ObjectTypes, O!AskModel, O!objectVars
    <2>3. \A i \in Len(log) + 1 .. Len(log) : FALSE
      BY DEF ObjectTypes
    <2> QED BY <2>2, <2>3 DEF Awaited, WillAnswer
  <1>6. ASSUME NEW x \in Refresh, O!AppendValue(x)
        PROVE  Awaited'
    <2>1. CASE O!VersionMatches(refresh[x].version)
      <3>1. WritesAnswer
        BY <1>6, <2>1 DEF O!AppendValue, O!VersionMatches, Answering, Answer, WritesAnswer
      <3> QED BY <3>1 DEF Awaited
    <2>2. CASE ~O!VersionMatches(refresh[x].version)
      <3>1. /\ log' = log /\ request' = request /\ timer' = timer /\ O!GoRefresh(x, O!Idle) /\ refresh[x].at = "append"
            /\ lost' = (lost \/ \A i \in refresh[x].version + 1 .. Len(log) : log[i].field # "total")
        BY <1>6, <2>2 DEF O!AppendValue
      <3>2. \A y \in Refresh : y # x => refresh'[y] = refresh[y]
        BY <3>1 DEF O!GoRefresh, ObjectTypes
      <3>3. CASE timer \/ lost \/ O!ValueIn(log, "ai") = O!ValueIn(log, "total") \/ \E c \in Caller : Owing(request[c])
        BY <3>1, <3>3 DEF Awaited, Owing
      <3>4. ASSUME NEW y \in Refresh, WillAsk(refresh[y]) \/ WillAnswer(refresh[y])
            PROVE  Awaited'
        <4>1. CASE y = x
          BY <3>1, <3>4, <4>1 DEF Awaited, WillAsk, WillAnswer
        <4>2. CASE y # x
          BY <3>1, <3>2, <3>4, <4>2 DEF Awaited, WillAsk, WillAnswer
        <4> QED BY <4>1, <4>2
      <3> QED BY <3>3, <3>4 DEF Awaited
    <2> QED BY <2>1, <2>2
  <1>7. ASSUME O!Crash \/ \E x \in Refresh : O!FailRefresh(x)
        PROVE  Awaited'
    BY <1>7 DEF O!Crash, O!FailRefresh, Awaited
  <1> QED BY <1>2, <1>3, <1>4, <1>5, <1>6, <1>7 DEF O!Next

-------------------------------------------------------------------------------
\* The invariant, and what it implies.

LEMMA ObjectInit ==
  ASSUME MaxWrites \in Nat, MaxCalls \in Nat, MaxMishaps \in Nat, O!Init
  PROVE  ObjectInv
  <1>1. ObjectTypes
    BY ObjectTypesInit
  <1>2. log = <<>> /\ Len(log) = 0 /\ DOMAIN log = {}
    BY DEF O!Init
  <1>3. \A f : O!ValueIn(log, f) = O!Unset(f)
    BY <1>2 DEF O!ValueIn
  <1>4. O!ValueIn(log, "total") = [r \in O!Raw |-> 0] /\ O!ValueIn(log, "ai") = [r \in O!Raw |-> 0]
    BY <1>3 DEF O!Unset, O!Raw
  <1>5. \A f \in O!Raw : O!ValueIn(log, f) = 0
    BY <1>3 DEF O!Unset, O!Raw
  <1>6. Current(log) /\ Awaited
    BY <1>4, <1>5 DEF Current, O!TotalIn, Awaited
  <1>7. Faithful(log) /\ Covered /\ Recurring
    BY <1>2 DEF O!Init, Faithful, Covered, Recurring, OneOf
  <1>8. (\A c \in Caller : request[c].at = "idle") /\ \A x \in Refresh : refresh[x].at = "idle"
    BY NoRequest DEF O!Init
  <1>9. Writing /\ OneAsks /\ Answering
    BY <1>8 DEF Writing, Known, OneAsks, Asks, Answering, Answer
  <1> QED BY <1>1, <1>6, <1>7, <1>9 DEF ObjectInv

LEMMA ObjectStep ==
  ASSUME ObjectInv, [O!Next]_O!vars
  PROVE  ObjectInv'
  <1>1. CASE UNCHANGED O!vars
    BY <1>1 DEF O!vars, O!objectVars, O!counters, ObjectInv, ObjectTypes, Current, Faithful, Writing, Known,
                OneAsks, Asks, Answering, Answer, Recurring, OneOf, Covered, Awaited, Owing, WillAsk, WillAnswer
  <1>2. CASE O!Next
    <2>1. /\ ObjectTypes /\ Current(log) /\ Faithful(log) /\ Writing /\ OneAsks /\ Answering
          /\ Recurring /\ Covered /\ Awaited
      BY DEF ObjectInv
    <2>2. log' = log \/ WritesRaw \/ WritesStatus \/ WritesAnswer
      BY <1>2, <2>1, StreamStep
    <2>3. /\ Continues(log, log') /\ Current(log') /\ Faithful(log')
          /\ log' = log \/ Len(log') > Len(log)
          /\ log' = log => ~WritesRaw /\ ~WritesStatus /\ ~WritesAnswer
          /\ ~(WritesRaw /\ WritesStatus) /\ ~(WritesRaw /\ WritesAnswer) /\ ~(WritesStatus /\ WritesAnswer)
          /\ WritesStatus => /\ O!ValueIn(log', "total") = O!ValueIn(log, "total")
                             /\ O!ValueIn(log', "ai") = O!ValueIn(log, "ai")
          /\ WritesAnswer => O!ValueIn(log', "ai") = O!ValueIn(log', "total")
          /\ \A i \in Len(log) + 1 .. Len(log') :
               /\ log'[i].field = "ai" => WritesAnswer
               /\ log'[i].field = "total" => WritesRaw
               /\ O!Completes(log', i) => WritesStatus /\ i = Len(log) + 1
      BY <2>1, <2>2, StreamAfter
    <2>4. ObjectTypes' /\ Writing'
      BY <1>2, <2>1, <2>3, ObjectTypesStep, WritingStep
    <2>5. OneAsks' /\ Answering'
      BY <1>2, <2>1, <2>3, AnsweringStep
    <2>6. Recurring'
      BY <1>2, <2>1, <2>3, RecurringStep
    <2>7. Covered'
      BY <1>2, <2>1, <2>3, CoveredStep
    <2>8. Awaited'
      BY <1>2, <2>1, <2>3, AwaitedStep
    <2>9. Current(log)' /\ Faithful(log)'
      BY <2>3 DEF Current, Faithful
    <2> QED BY <2>4, <2>5, <2>6, <2>7, <2>8, <2>9 DEF ObjectInv
  <1> QED BY <1>1, <1>2

LEMMA ObjectImplies ==
  ASSUME ObjectInv
  PROVE  /\ O!TotalIsCurrent /\ O!ComputedFromItsState /\ O!RefreshedWhenQuiet
         /\ O!OneOccurrence /\ O!CompletionsRecur /\ O!TypeOK
  <1>1. /\ ObjectTypes /\ Current(log) /\ Faithful(log) /\ Recurring /\ Covered /\ Awaited
        /\ log \in Seq(Change) /\ DOMAIN log = 1..Len(log)
    BY DEF ObjectInv, ObjectTypes
  <1>2. O!TotalIsCurrent /\ O!ComputedFromItsState
    BY <1>1 DEF O!TotalIsCurrent, Current, O!ComputedFromItsState, Faithful
  <1>3. O!OneOccurrence
    BY <1>1 DEF O!OneOccurrence, Recurring, OneOf
  <1>4. O!RefreshedWhenQuiet
    BY <1>1, NoRequest DEF O!RefreshedWhenQuiet, Awaited, Owing, WillAsk, WillAnswer
  <1>5. O!CompletionsRecur
    <2>1. SUFFICES ASSUME mishaps = 0, \A c \in Caller : request[c] = O!Idle,
                          NEW i \in DOMAIN log, O!Completes(log, i)
                   PROVE  O!StreamOf(relations, i) # {}
      BY DEF O!CompletionsRecur
    <2>2. PICK s \in occurrences : s.causation = i
      BY <1>1, <2>1, NoRequest DEF Covered
    <2>3. s \in relations
      BY <1>1, <2>1, <2>2, NoRequest DEF Covered
    <2> QED BY <2>2, <2>3 DEF O!StreamOf
  <1>6. O!TypeOK
    <2>1. \A i \in DOMAIN log : log[i].field \in O!Raw \union {"status", "total", "ai"}
      BY <1>1 DEF Change
    <2>2. \A c \in Caller : request[c].at \in {"idle", "append", "occurrence", "relation", "schedule"}
      BY <1>1, RequestFields DEF ObjectRequest
    <2>3. \A x \in Refresh : refresh[x].at \in {"idle", "lock", "read", "append"}
      BY <1>1, RefreshFields DEF FieldRefresh
    <2>4. \A s \in occurrences \union relations :
            s.causation \in DOMAIN log \union O!Elsewhere /\ s.object \in 1..calls
      <3>1. DOMAIN log = 1..Len(log)
        BY <1>1 DEF ObjectTypes
      <3> QED BY <1>1, <3>1 DEF ObjectTypes, Ids
    <2> QED BY <1>1, <2>1, <2>2, <2>3, <2>4 DEF O!TypeOK, ObjectTypes
  <1> QED BY <1>2, <1>3, <1>4, <1>5, <1>6

\* Who is overtaken was overtaken by a user: its own events are not among the new.
LEMMA DroppedForUser ==
  ASSUME ObjectInv
  PROVE  O!ValueDroppedForUser
  <1>1. SUFFICES ASSUME NEW x \in Refresh, O!AppendValue(x), ~O!VersionMatches(refresh[x].version)
                 PROVE  \E i \in refresh[x].version + 1 .. Len(log) : log[i].field # "ai"
    BY DEF O!ValueDroppedForUser
  <1>2. PICK v \in Nat : v = refresh[x].version
    BY <1>1, RefreshFields DEF ObjectInv, O!AppendValue
  <1>3. v \in 0..Len(log) /\ \A i \in v + 1 .. Len(log) : log[i].field # "ai"
    BY <1>1, <1>2 DEF ObjectInv, Answering, Answer, O!AppendValue
  <1>4. Len(log) \in v + 1 .. Len(log)
    <2>1. Len(log) \in Nat /\ v # Len(log)
      BY <1>1, <1>2 DEF O!VersionMatches, ObjectInv, ObjectTypes
    <2> QED BY <1>3, <2>1
  <1> QED BY <1>2, <1>3, <1>4

ObjectBounds == MaxWrites \in Nat /\ MaxCalls \in Nat /\ MaxMishaps \in Nat

LEMMA ObjectAlways ==
  ASSUME ObjectBounds
  PROVE  O!Spec => []ObjectInv
  <1>1. O!Init => ObjectInv
    BY ObjectInit DEF ObjectBounds
  <1>2. ObjectInv /\ [O!Next]_O!vars => ObjectInv'
    BY ObjectStep
  <1> QED BY <1>1, <1>2, PTL DEF O!Spec

\* The total that is stored is the one of the stored raw values, and each value
\* of the model stands behind the state it was computed from; when all is quiet
\* it is the current one unless its last refresh failed.
THEOREM ValuesAreCurrent ==
  ASSUME ObjectBounds
  PROVE  O!Spec => [](O!TotalIsCurrent /\ O!ComputedFromItsState /\ O!RefreshedWhenQuiet)
  <1>1. ObjectInv => O!TotalIsCurrent /\ O!ComputedFromItsState /\ O!RefreshedWhenQuiet
    BY ObjectImplies
  <1> QED BY <1>1, ObjectAlways, PTL

\* Every completion has one next occurrence and one relation to it, however
\* often and by however many it is asked for.
THEOREM OneNextOccurrence ==
  ASSUME ObjectBounds
  PROVE  O!Spec => [](O!OneOccurrence /\ O!CompletionsRecur)
  <1>1. ObjectInv => O!OneOccurrence /\ O!CompletionsRecur
    BY ObjectImplies
  <1> QED BY <1>1, ObjectAlways, PTL

\* A refresh is in vain only because a user wrote meanwhile.
THEOREM RefreshLosesToUsers ==
  ASSUME ObjectBounds
  PROVE  O!Spec => O!OvertakenByUsersOnly
  <1>1. ObjectInv => [O!ValueDroppedForUser]_O!vars
    BY DroppedForUser
  <1> QED BY <1>1, ObjectAlways, PTL DEF O!OvertakenByUsersOnly

-------------------------------------------------------------------------------
\* Accounts: sessions, a new workspace, and what the page shows of both.

CONSTANTS Browser, Seeds, MaxTries, MaxFetches
VARIABLES password, sessions, workspace, cookie, call, gate, tries, fetches, closed, seeded

U == INSTANCE Accounts WITH calls <- tries, MaxCalls <- MaxTries

PageFetch ==
  [at : {"idle"}] \union [at : {"asked"}, sid : Nat, doubtful : BOOLEAN]
    \union [at : {"answered"}, doubtful : BOOLEAN, listed : BOOLEAN, status : {"success", "unauthorized"}]

PageQuery ==
  [status : {"pending", "success", "unauthorized", "error"}, data : BOOLEAN, listed : BOOLEAN,
   doubtful : BOOLEAN, fetch : PageFetch]

PageGate == [query : PageQuery, loggedOut : BOOLEAN]

CallKind == {"login", "logout", "refresh", "change password", "create workspace"}
CallStep ==
  {"guard", "find user", "update password", "revoke all", "revoke", "create session",
   "insert workspace", "seed", "answer"}
AccountCall ==
  [at : {"idle"}]
    \union [kind : CallKind, at : CallStep, sid : Nat, typed : Nat, new : Nat, found : SUBSET Nat]

AccountTypes ==
  /\ password \in Nat
  /\ sessions \in Seq(BOOLEAN)
  /\ workspace \in -1..Seeds
  /\ cookie \in [Browser -> Nat] /\ \A b \in Browser : cookie[b] \in 0..Len(sessions)
  /\ call \in [Browser -> AccountCall]
  /\ gate \in [Browser -> PageGate]
  /\ tries \in Nat /\ mishaps \in Nat
  /\ closed \subseteq 1..Len(sessions) /\ seeded \in BOOLEAN

Under(cl, kind) == cl.at # "idle" /\ cl.kind = kind

\* While a call has ended the browser's own session and its answer is not there,
\* or has created a workspace, the page does not know.
SessionStale(cl) ==
  /\ Under(cl, "logout") \/ Under(cl, "refresh") \/ Under(cl, "change password")
  /\ cl.at \in {"create session", "answer"}
ListStale(cl) == Under(cl, "create workspace") /\ cl.at \in {"seed", "answer"}

\* What an answer says is so, for a browser with cookie k.
Right(status, listed, k, cl) ==
  /\ ~SessionStale(cl) => (status = "success" <=> U!Active(k))
  /\ status = "success" /\ ~ListStale(cl) => (listed <=> workspace # U!NoWorkspace)

\* The page of a browser: what it shows, and what it will be shown.
PageFits(g, k, cl) ==
  /\ g.loggedOut => k = 0 /\ (cl.at = "idle" \/ cl.kind = "login")
  /\ g.query.fetch.at = "idle" => g.query.status # "pending"
  /\ g.query.status = "error" => g.query.doubtful
  /\ g.query.fetch.at = "asked" /\ ~g.query.fetch.doubtful => g.query.fetch.sid = k
  /\ g.query.fetch.at = "answered" /\ ~g.query.fetch.doubtful =>
       Right(g.query.fetch.status, g.query.fetch.listed, k, cl)
  /\ g.query.fetch.at = "idle" /\ ~g.query.doubtful =>
       Right(g.query.status, g.query.listed, k, cl)

Pages == \A b \in Browser : PageFits(gate[b], cookie[b], call[b])

StepsOf(kind) ==
  CASE kind = "login" -> {"find user", "create session", "answer"}
    [] kind = "logout" -> {"revoke", "answer"}
    [] kind = "refresh" -> {"guard", "revoke", "create session", "answer"}
    [] kind = "change password" ->
         {"guard", "find user", "update password", "revoke all", "create session", "answer"}
    [] kind = "create workspace" -> {"guard", "insert workspace", "seed", "answer"}

\* The sessions that a call found, once it has ended them; the session it was
\* given; the fields that a workspace has.
CallFits(cl) ==
  cl.at # "idle" =>
    /\ cl.at \in StepsOf(cl.kind)
    /\ cl.found \subseteq 1..Len(sessions)
    /\ cl.kind = "change password" /\ cl.at \in {"create session", "answer"} =>
         \A s \in cl.found : ~sessions[s]
    /\ cl.kind # "create workspace" /\ cl.kind # "logout" /\ cl.at = "answer" => cl.sid \in 1..Len(sessions)
    /\ cl.at = "seed" => workspace \in 0..Seeds - 1
    /\ cl.kind = "create workspace" /\ cl.at = "answer" => workspace = Seeds

Calls == \A b \in Browser : CallFits(call[b])

Seeding(b) == call[b].at = "seed"

Seeded ==
  /\ \A b, c \in Browser : Seeding(b) /\ Seeding(c) => b = c
  /\ seeded => workspace = Seeds
  /\ workspace \in 0..Seeds - 1 => mishaps > 0 \/ \E b \in Browser : Seeding(b)

AccountInv == AccountTypes /\ Pages /\ Calls /\ Seeded /\ U!FoundSessionsEnded

-------------------------------------------------------------------------------
\* Calls and pages.

LEMMA CallShape ==
  ASSUME NEW cl \in AccountCall
  PROVE  cl.at # "idle" =>
           /\ cl.kind \in CallKind /\ cl.at \in CallStep /\ cl.sid \in Nat /\ cl.typed \in Nat
           /\ cl.new \in Nat /\ cl.found \subseteq Nat
           /\ cl = [kind |-> cl.kind, at |-> cl.at, sid |-> cl.sid, typed |-> cl.typed,
                    new |-> cl.new, found |-> cl.found]
  BY DEF AccountCall

LEMMA NoCall ==
  /\ U!Idle \in AccountCall /\ U!Idle.at = "idle"
  /\ \A cl \in AccountCall : cl.at = "idle" <=> cl = U!Idle
  <1>1. U!Idle \in [at : {"idle"}] /\ U!Idle.at = "idle"
    BY DEF U!Idle
  <1>2. ASSUME NEW cl \in AccountCall, cl.at = "idle"
        PROVE  cl = U!Idle
    <2>1. cl \in [at : {"idle"}]
      BY <1>2 DEF AccountCall, CallStep
    <2> QED BY <2>1 DEF U!Idle
  <1> QED BY <1>1, <1>2 DEF AccountCall

LEMMA PageShape ==
  ASSUME NEW g \in PageGate
  PROVE  /\ g.query \in PageQuery /\ g.loggedOut \in BOOLEAN
         /\ g.query.status \in {"pending", "success", "unauthorized", "error"}
         /\ g.query.data \in BOOLEAN /\ g.query.listed \in BOOLEAN /\ g.query.doubtful \in BOOLEAN
         /\ g.query.fetch \in PageFetch /\ g.query.fetch.at \in {"idle", "asked", "answered"}
         /\ g.query.fetch.at = "asked" => g.query.fetch.sid \in Nat /\ g.query.fetch.doubtful \in BOOLEAN
         /\ g.query.fetch.at = "answered" =>
              /\ g.query.fetch.doubtful \in BOOLEAN /\ g.query.fetch.listed \in BOOLEAN
              /\ g.query.fetch.status \in {"success", "unauthorized"}
  <1>1. g.query \in PageQuery /\ g.loggedOut \in BOOLEAN
    BY DEF PageGate
  <1>2. /\ g.query.status \in {"pending", "success", "unauthorized", "error"}
        /\ g.query.data \in BOOLEAN /\ g.query.listed \in BOOLEAN /\ g.query.doubtful \in BOOLEAN
        /\ g.query.fetch \in PageFetch
    BY <1>1 DEF PageQuery
  <1>3. PICK f \in PageFetch : f = g.query.fetch
    BY <1>2
  <1>4. /\ f.at \in {"idle", "asked", "answered"}
        /\ f.at = "asked" => f.sid \in Nat /\ f.doubtful \in BOOLEAN
        /\ f.at = "answered" => /\ f.doubtful \in BOOLEAN /\ f.listed \in BOOLEAN
                                /\ f.status \in {"success", "unauthorized"}
    BY DEF PageFetch
  <1> QED BY <1>1, <1>2, <1>3, <1>4

\* What doubt leaves as it is, and what it doubts.
LEMMA DoubtedQuery ==
  ASSUME NEW q \in PageQuery
  PROVE  /\ U!Doubted(q) \in PageQuery
         /\ U!Doubted(q).doubtful
         /\ U!Doubted(q).status = q.status /\ U!Doubted(q).listed = q.listed /\ U!Doubted(q).data = q.data
         /\ U!Doubted(q).fetch.at = q.fetch.at
         /\ U!Doubted(q).fetch.at # "idle" => U!Doubted(q).fetch.doubtful
  <1>1. PICK d : d = U!Doubted(q)
    OBVIOUS
  <1>2. PICK f \in PageFetch : f = q.fetch
    BY DEF PageQuery
  <1>3. PICK e : e = IF f.at = "idle" THEN f ELSE [f EXCEPT !.doubtful = TRUE]
    OBVIOUS
  <1>4. e \in PageFetch /\ e.at = f.at /\ (e.at # "idle" => e.doubtful)
    <2>1. CASE f.at = "idle"
      BY <1>3, <2>1
    <2>2. CASE f.at # "idle"
      <3>1. CASE f \in [at : {"asked"}, sid : Nat, doubtful : BOOLEAN]
        <4>1. e \in [at : {"asked"}, sid : Nat, doubtful : BOOLEAN] /\ e.at = f.at /\ e.doubtful
          BY <1>3, <2>2, <3>1
        <4> QED BY <4>1 DEF PageFetch
      <3>2. CASE f \in [at : {"answered"}, doubtful : BOOLEAN, listed : BOOLEAN, status : {"success", "unauthorized"}]
        <4>1. /\ e \in [at : {"answered"}, doubtful : BOOLEAN, listed : BOOLEAN, status : {"success", "unauthorized"}]
              /\ e.at = f.at /\ e.doubtful
          BY <1>3, <2>2, <3>2
        <4> QED BY <4>1 DEF PageFetch
      <3> QED BY <2>2, <3>1, <3>2 DEF PageFetch
    <2> QED BY <2>1, <2>2
  <1>5. d = [q EXCEPT !.doubtful = TRUE, !.fetch = e]
    BY <1>1, <1>2, <1>3 DEF U!Doubted
  <1>6. d \in PageQuery /\ d.doubtful /\ d.status = q.status /\ d.listed = q.listed /\ d.data = q.data /\ d.fetch = e
    BY <1>4, <1>5 DEF PageQuery
  <1> QED BY <1>1, <1>2, <1>4, <1>6

-------------------------------------------------------------------------------
\* What a page shows stays so, and what is doubted claims nothing.

LEMMA PageStill ==
  ASSUME NEW g, NEW k, NEW cl, PageFits(g, k, cl), U!Active(k)' <=> U!Active(k),
         workspace' # U!NoWorkspace <=> workspace # U!NoWorkspace
  PROVE  PageFits(g, k, cl)'
  <1>1. \A status, listed : Right(status, listed, k, cl) => Right(status, listed, k, cl)'
    BY DEF Right, U!NoWorkspace
  <1> QED BY <1>1 DEF PageFits

\* A call that goes on.
LEMMA PageGoes ==
  ASSUME NEW g, NEW k, NEW cl, NEW dl, PageFits(g, k, cl),
         g.loggedOut => dl.at = "idle" \/ dl.kind = "login",
         SessionStale(cl) => SessionStale(dl), ListStale(cl) => ListStale(dl)
  PROVE  PageFits(g, k, dl)
  BY DEF PageFits, Right

DoubtedGate(g) == [g EXCEPT !.query = U!Doubted(@)]

LEMMA GateDoubted ==
  ASSUME NEW g \in PageGate
  PROVE  /\ DoubtedGate(g) \in PageGate
         /\ DoubtedGate(g).query = U!Doubted(g.query) /\ DoubtedGate(g).loggedOut = g.loggedOut
  <1>1. U!Doubted(g.query) \in PageQuery
    BY PageShape, DoubtedQuery
  <1> QED BY <1>1 DEF DoubtedGate, PageGate

LEMMA PageDoubted ==
  ASSUME NEW g \in PageGate, NEW k, NEW cl, NEW dl, PageFits(g, k, cl),
         g.loggedOut => dl.at = "idle" \/ dl.kind = "login"
  PROVE  PageFits(DoubtedGate(g), k, dl)'
  <1>1. PICK d \in PageGate : d = DoubtedGate(g) /\ d.query = U!Doubted(g.query) /\ d.loggedOut = g.loggedOut
    BY GateDoubted
  <1>2. /\ d.query.doubtful /\ d.query.status = g.query.status /\ d.query.fetch.at = g.query.fetch.at
        /\ d.query.fetch.at # "idle" => d.query.fetch.doubtful
    BY <1>1, PageShape, DoubtedQuery
  <1>3. PageFits(d, k, dl)'
    BY <1>1, <1>2 DEF PageFits
  <1> QED BY <1>1, <1>3

\* Sessions end, and are added, and never begin again.
SessionsGoOn ==
  /\ Len(sessions) <= Len(sessions')
  /\ \A s \in 1..Len(sessions) : sessions'[s] => sessions[s]

LEMMA CallStill ==
  ASSUME AccountTypes, AccountTypes', SessionsGoOn, NEW cl \in AccountCall, CallFits(cl), workspace' = workspace
  PROVE  CallFits(cl)'
  <1>1. SUFFICES ASSUME cl.at # "idle"
                 PROVE  CallFits(cl)'
    BY DEF CallFits
  <1>2. PICK n \in Nat, m \in Nat : n = Len(sessions) /\ m = Len(sessions')
    BY DEF AccountTypes
  <1>3. n <= m /\ \A s \in 1..n : s \in 1..m /\ (sessions'[s] => sessions[s])
    BY <1>2 DEF SessionsGoOn
  <1>4. cl.found \subseteq 1..n
    BY <1>1, <1>2 DEF CallFits
  <1>5. cl.found \subseteq 1..m
    BY <1>3, <1>4
  <1>6. cl.kind = "change password" /\ cl.at \in {"create session", "answer"} => \A s \in cl.found : ~sessions'[s]
    BY <1>1, <1>3, <1>4 DEF CallFits
  <1>7. cl.kind # "create workspace" /\ cl.kind # "logout" /\ cl.at = "answer" => cl.sid \in 1..m
    BY <1>1, <1>2, <1>3 DEF CallFits
  <1>8. /\ cl.at \in StepsOf(cl.kind)
        /\ cl.at = "seed" => workspace \in 0..Seeds - 1
        /\ cl.kind = "create workspace" /\ cl.at = "answer" => workspace = Seeds
    BY <1>1 DEF CallFits
  <1> QED BY <1>2, <1>5, <1>6, <1>7, <1>8 DEF CallFits

\* A step that leaves the workspace as it is.
LEMMA AccountGoesOn ==
  ASSUME AccountInv, AccountTypes', SessionsGoOn, workspace' = workspace, mishaps <= mishaps',
         \A c \in Browser : PageFits(gate[c], cookie[c], call[c])',
         \A c \in Browser : call'[c] = call[c] \/ CallFits(call[c])',
         \A c \in Browser : call'[c].at = "seed" => Seeding(c),
         \A c \in Browser : Seeding(c) => call'[c].at = "seed" \/ mishaps' > 0,
         seeded' => seeded \/ workspace = Seeds,
         \A s \in closed' : ~sessions'[s]
  PROVE  AccountInv'
  <1>1. Calls'
    <2>1. ASSUME NEW c \in Browser
          PROVE  CallFits(call[c])'
      <3>1. CASE call'[c] = call[c]
        <4>1. PICK cl \in AccountCall : cl = call[c]
          BY DEF AccountInv, AccountTypes
        <4>2. CallFits(cl)'
          BY <4>1, CallStill DEF AccountInv, Calls
        <4> QED BY <3>1, <4>1, <4>2 DEF CallFits
      <3> QED BY <3>1
    <2> QED BY <2>1 DEF Calls
  <1>2. Seeded'
    <2>1. \A b, c \in Browser : Seeding(b)' /\ Seeding(c)' => b = c
      BY DEF AccountInv, Seeded, Seeding
    <2>2. seeded' => workspace' = Seeds
      BY DEF AccountInv, Seeded
    <2>3. mishaps > 0 => mishaps' > 0
      <3>1. mishaps \in Nat /\ mishaps' \in Nat
        BY DEF AccountInv, AccountTypes
      <3> QED BY <3>1
    <2>4. workspace \in 0..Seeds - 1 => mishaps' > 0 \/ \E b \in Browser : Seeding(b)'
      BY <2>3 DEF AccountInv, Seeded, Seeding
    <2> QED BY <2>1, <2>2, <2>4 DEF Seeded
  <1>3. U!FoundSessionsEnded'
    BY DEF U!FoundSessionsEnded
  <1> QED BY <1>1, <1>2, <1>3 DEF AccountInv, Pages

-------------------------------------------------------------------------------
\* The session query: a step of one page.

LEMMA SessionsSame ==
  ASSUME AccountTypes, sessions' = sessions
  PROVE  SessionsGoOn /\ \A k : U!Active(k)' <=> U!Active(k)
  BY DEF AccountTypes, SessionsGoOn, U!Active, U!None

LEMMA PageActs ==
  ASSUME AccountInv, NEW b \in Browser, NEW g \in PageGate, gate' = [gate EXCEPT ![b] = g],
         PageFits(g, cookie[b], call[b]), mishaps' \in Nat, mishaps <= mishaps',
         UNCHANGED <<password, sessions, workspace, cookie, call, tries, closed, seeded>>
  PROVE  AccountInv'
  <1>1. AccountTypes'
    BY DEF AccountInv, AccountTypes
  <1>2. SessionsGoOn /\ \A k : U!Active(k)' <=> U!Active(k)
    BY SessionsSame DEF AccountInv
  <1>3. ASSUME NEW c \in Browser
        PROVE  PageFits(gate[c], cookie[c], call[c])'
    <2>1. PICK h, k, cl : h = gate'[c] /\ k = cookie[c] /\ cl = call[c]
      OBVIOUS
    <2>2. PageFits(h, k, cl)
      BY <2>1 DEF AccountInv, AccountTypes, Pages
    <2>3. PageFits(h, k, cl)'
      BY <1>2, <2>2, PageStill
    <2> QED BY <2>1, <2>3 DEF PageFits, Right
  <1>4. \A s \in closed' : ~sessions'[s]
    BY DEF AccountInv, U!FoundSessionsEnded
  <1> QED BY <1>1, <1>2, <1>3, <1>4, AccountGoesOn DEF Seeding

\* The gate of a browser with another query.
Querying(g, q) == [g EXCEPT !.query = q]

LEMMA GateOf ==
  ASSUME NEW g \in PageGate, NEW q \in PageQuery
  PROVE  Querying(g, q) \in PageGate /\ Querying(g, q).query = q /\ Querying(g, q).loggedOut = g.loggedOut
  BY DEF Querying, PageGate

LEMMA QueryActs ==
  ASSUME AccountInv, NEW b \in Browser, NEW q \in PageQuery, gate' = [gate EXCEPT ![b].query = q],
         PageFits(Querying(gate[b], q), cookie[b], call[b]), mishaps' \in Nat, mishaps <= mishaps',
         UNCHANGED <<password, sessions, workspace, cookie, call, tries, closed, seeded>>
  PROVE  AccountInv'
  <1>1. PICK g : g = Querying(gate[b], q)
    OBVIOUS
  <1>2. gate' = [gate EXCEPT ![b] = g]
    BY <1>1 DEF Querying
  <1>3. g \in PageGate
    BY <1>1, GateOf DEF AccountInv, AccountTypes
  <1> QED BY <1>1, <1>2, <1>3, PageActs

LEMMA AnswerFetchStep ==
  ASSUME AccountInv, NEW b \in Browser, U!AnswerFetch(b)
  PROVE  AccountInv'
  <1>1. PICK g, k, cl : g \in PageGate /\ g = gate[b] /\ k = cookie[b] /\ cl = call[b]
    BY DEF AccountInv, AccountTypes
  <1>2. PICK f : f = [at |-> "answered", doubtful |-> g.query.fetch.doubtful, listed |-> workspace # U!NoWorkspace,
                      status |-> IF U!Active(g.query.fetch.sid) THEN "success" ELSE "unauthorized"]
    OBVIOUS
  <1>3. PICK q : q = [g.query EXCEPT !.fetch = f]
    OBVIOUS
  <1>4. g.query \in PageQuery /\ g.query.fetch.at = "asked" /\ g.query.fetch.doubtful \in BOOLEAN
    BY <1>1, PageShape DEF U!AnswerFetch
  <1>5. f \in PageFetch
    <2>1. f \in [at : {"answered"}, doubtful : BOOLEAN, listed : BOOLEAN, status : {"success", "unauthorized"}]
      BY <1>2, <1>4
    <2> QED BY <2>1 DEF PageFetch
  <1>6. q \in PageQuery /\ q.fetch = f /\ q.status = g.query.status /\ q.doubtful = g.query.doubtful
    BY <1>3, <1>4, <1>5 DEF PageQuery
  <1>7. PICK h \in PageGate : h = Querying(g, q) /\ h.query = q /\ h.loggedOut = g.loggedOut
    BY <1>1, <1>6, GateOf
  <1>8. PageFits(g, k, cl)
    BY <1>1 DEF AccountInv, Pages
  <1>9. ~f.doubtful => Right(f.status, f.listed, k, cl)
    BY <1>2, <1>4, <1>8 DEF PageFits, Right
  <1>10. PageFits(h, k, cl)
    <2>1. f.at = "answered"
      BY <1>2
    <2> QED BY <1>6, <1>7, <1>8, <1>9, <2>1 DEF PageFits
  <1>11. gate' = [gate EXCEPT ![b].query = q]
    BY <1>1, <1>2, <1>3 DEF U!AnswerFetch
  <1>12. mishaps' \in Nat /\ mishaps <= mishaps'
    BY DEF AccountInv, AccountTypes, U!AnswerFetch
  <1> QED BY <1>1, <1>6, <1>7, <1>10, <1>11, <1>12, QueryActs DEF U!AnswerFetch

LEMMA ShowFetchedStep ==
  ASSUME AccountInv, NEW b \in Browser, U!ShowFetched(b)
  PROVE  AccountInv'
  <1>1. PICK g, k, cl : g \in PageGate /\ g = gate[b] /\ k = cookie[b] /\ cl = call[b]
    BY DEF AccountInv, AccountTypes
  <1>2. PICK f \in PageFetch : f = g.query.fetch
    BY <1>1, PageShape
  <1>3. PICK q : q = [g.query EXCEPT
                        !.fetch = U!NotAsked, !.doubtful = f.doubtful, !.status = f.status,
                        !.data = @ \/ f.status = "success",
                        !.listed = IF f.status = "success" THEN f.listed ELSE @]
    OBVIOUS
  <1>4. /\ g.query \in PageQuery /\ f.at = "answered" /\ f.doubtful \in BOOLEAN /\ f.listed \in BOOLEAN
        /\ f.status \in {"success", "unauthorized"} /\ g.query.listed \in BOOLEAN
    BY <1>1, <1>2, PageShape DEF U!ShowFetched
  <1>5. U!NotAsked \in PageFetch /\ U!NotAsked.at = "idle"
    BY DEF U!NotAsked, PageFetch
  <1>6. /\ q \in PageQuery /\ q.fetch = U!NotAsked /\ q.status = f.status /\ q.doubtful = f.doubtful
        /\ f.status = "success" => q.listed = f.listed
    BY <1>3, <1>4, <1>5 DEF PageQuery
  <1>7. PICK h \in PageGate : h = Querying(g, q) /\ h.query = q /\ h.loggedOut = g.loggedOut
    BY <1>1, <1>6, GateOf
  <1>8. PageFits(g, k, cl)
    BY <1>1 DEF AccountInv, Pages
  <1>9. ~f.doubtful => Right(q.status, q.listed, k, cl)
    BY <1>2, <1>4, <1>6, <1>8 DEF PageFits, Right
  <1>10. PageFits(h, k, cl)
    BY <1>4, <1>5, <1>6, <1>7, <1>8, <1>9 DEF PageFits
  <1>11. gate' = [gate EXCEPT ![b].query = q]
    BY <1>1, <1>2, <1>3 DEF U!ShowFetched, U!SetQuery
  <1>12. mishaps' \in Nat /\ mishaps <= mishaps'
    BY DEF AccountInv, AccountTypes, U!ShowFetched
  <1> QED BY <1>1, <1>6, <1>7, <1>10, <1>11, <1>12, QueryActs DEF U!ShowFetched

LEMMA FailFetchStep ==
  ASSUME AccountInv, NEW b \in Browser, U!FailFetch(b)
  PROVE  AccountInv'
  <1>1. PICK g, k, cl : g \in PageGate /\ g = gate[b] /\ k = cookie[b] /\ cl = call[b]
    BY DEF AccountInv, AccountTypes
  <1>2. PICK q : q = [g.query EXCEPT !.fetch = U!NotAsked, !.status = "error", !.doubtful = TRUE]
    OBVIOUS
  <1>3. U!NotAsked \in PageFetch /\ U!NotAsked.at = "idle"
    BY DEF U!NotAsked, PageFetch
  <1>4. q \in PageQuery /\ q.fetch = U!NotAsked /\ q.status = "error" /\ q.doubtful
    BY <1>1, <1>2, <1>3, PageShape DEF PageQuery
  <1>5. PICK h \in PageGate : h = Querying(g, q) /\ h.query = q /\ h.loggedOut = g.loggedOut
    BY <1>1, <1>4, GateOf
  <1>6. PageFits(g, k, cl)
    BY <1>1 DEF AccountInv, Pages
  <1>7. PageFits(h, k, cl)
    BY <1>3, <1>4, <1>5, <1>6 DEF PageFits
  <1>8. gate' = [gate EXCEPT ![b].query = q]
    BY <1>1, <1>2 DEF U!FailFetch, U!SetQuery
  <1>9. mishaps \in Nat /\ mishaps' \in Nat /\ mishaps <= mishaps'
    BY DEF AccountInv, AccountTypes, U!FailFetch
  <1> QED BY <1>1, <1>4, <1>5, <1>7, <1>8, <1>9, QueryActs DEF U!FailFetch

LEMMA FetchingQuery ==
  ASSUME NEW q \in PageQuery, NEW sid \in Nat
  PROVE  /\ U!Fetching(q, sid) \in PageQuery
         /\ U!Fetching(q, sid).fetch = [at |-> "asked", sid |-> sid, doubtful |-> FALSE]
         /\ U!Fetching(q, sid).status = "error" => q.status = "error"
         /\ U!Fetching(q, sid).doubtful = q.doubtful
  <1>1. PICK f : f = [at |-> "asked", sid |-> sid, doubtful |-> FALSE]
    OBVIOUS
  <1>2. f \in PageFetch
    BY <1>1 DEF PageFetch
  <1>3. PICK d : d = [q EXCEPT !.status = IF q.data THEN q.status ELSE "pending", !.fetch = f]
    OBVIOUS
  <1>4. d = U!Fetching(q, sid)
    BY <1>1, <1>3 DEF U!Fetching
  <1>5. d \in PageQuery /\ d.fetch = f /\ d.doubtful = q.doubtful /\ (d.status = "error" => q.status = "error")
    BY <1>2, <1>3 DEF PageQuery
  <1> QED BY <1>1, <1>4, <1>5

LEMMA RefetchStep ==
  ASSUME AccountInv, NEW b \in Browser, U!Refetch(b)
  PROVE  AccountInv'
  <1>1. PICK g, k, cl : g \in PageGate /\ k \in Nat /\ g = gate[b] /\ k = cookie[b] /\ cl = call[b]
    BY DEF AccountInv, AccountTypes
  <1>2. PICK q : q = U!Fetching(g.query, k)
    OBVIOUS
  <1>3. /\ q \in PageQuery /\ q.fetch = [at |-> "asked", sid |-> k, doubtful |-> FALSE]
        /\ q.status = "error" => g.query.status = "error"
        /\ q.doubtful = g.query.doubtful
    BY <1>1, <1>2, PageShape, FetchingQuery
  <1>4. PICK h \in PageGate : h = Querying(g, q) /\ h.query = q /\ h.loggedOut = g.loggedOut
    BY <1>1, <1>3, GateOf
  <1>5. PageFits(g, k, cl)
    BY <1>1 DEF AccountInv, Pages
  <1>6. PageFits(h, k, cl)
    BY <1>3, <1>4, <1>5 DEF PageFits
  <1>7. gate' = [gate EXCEPT ![b].query = q]
    BY <1>1, <1>2 DEF U!Refetch, U!SetQuery
  <1>8. mishaps' \in Nat /\ mishaps <= mishaps'
    BY DEF AccountInv, AccountTypes, U!Refetch
  <1> QED BY <1>1, <1>3, <1>4, <1>6, <1>7, <1>8, QueryActs DEF U!Refetch

-------------------------------------------------------------------------------
\* Calls that change nothing but themselves.

LEMMA CallActs ==
  ASSUME AccountInv, NEW b \in Browser, NEW dl \in AccountCall, call' = [call EXCEPT ![b] = dl],
         CallFits(dl), dl.at # "seed", call[b].at # "seed",
         gate[b].loggedOut => dl.at = "idle" \/ dl.kind = "login",
         ~SessionStale(call[b]), ~ListStale(call[b]), password' \in Nat, tries' \in Nat,
         UNCHANGED <<sessions, workspace, cookie, gate, mishaps, closed, seeded>>
  PROVE  AccountInv'
  <1>1. AccountTypes'
    BY DEF AccountInv, AccountTypes
  <1>2. SessionsGoOn /\ \A k : U!Active(k)' <=> U!Active(k)
    BY SessionsSame DEF AccountInv
  <1>3. \A c \in Browser : call'[c] = IF c = b THEN dl ELSE call[c]
    BY DEF AccountInv, AccountTypes
  <1>4. ASSUME NEW c \in Browser
        PROVE  PageFits(gate[c], cookie[c], call[c])'
    <2>1. PICK h, k, cl, el : h = gate'[c] /\ k = cookie[c] /\ cl = call[c] /\ el = call'[c]
      OBVIOUS
    <2>2. PageFits(h, k, cl)
      BY <2>1 DEF AccountInv, AccountTypes, Pages
    <2>3. PageFits(h, k, el)
      BY <1>3, <2>1, <2>2, PageGoes
    <2>4. PageFits(h, k, el)'
      BY <1>2, <2>3, PageStill
    <2> QED BY <2>1, <2>4 DEF PageFits, Right
  <1>5. \A s \in closed' : ~sessions'[s]
    BY DEF AccountInv, U!FoundSessionsEnded
  <1>6. CallFits(dl)'
    BY <1>1, <1>2, CallStill DEF AccountInv
  <1>7. \A c \in Browser : call'[c] = call[c] \/ CallFits(call[c])'
    <2>1. ASSUME NEW c \in Browser, c = b
          PROVE  CallFits(call[c])'
      BY <1>3, <1>6, <2>1 DEF CallFits
    <2> QED BY <1>3, <2>1
  <1>8. mishaps \in Nat /\ mishaps <= mishaps'
    BY DEF AccountInv, AccountTypes
  <1>9. \A c \in Browser : call'[c].at = "seed" <=> Seeding(c)
    BY <1>3 DEF Seeding
  <1> QED BY <1>1, <1>2, <1>4, <1>5, <1>7, <1>8, <1>9, AccountGoesOn

\* A call at another step.
AtStep(cl, step) == [cl EXCEPT !.at = step]

LEMMA CallAtStep ==
  ASSUME NEW cl \in AccountCall, cl.at # "idle", NEW step \in CallStep
  PROVE  /\ AtStep(cl, step) \in AccountCall /\ AtStep(cl, step).at = step /\ AtStep(cl, step).at # "idle"
         /\ AtStep(cl, step).kind = cl.kind /\ AtStep(cl, step).sid = cl.sid
         /\ AtStep(cl, step).typed = cl.typed /\ AtStep(cl, step).new = cl.new
         /\ AtStep(cl, step).found = cl.found
  <1>1. cl \in [kind : CallKind, at : CallStep, sid : Nat, typed : Nat, new : Nat, found : SUBSET Nat]
    BY DEF AccountCall
  <1>2. PICK d : d = AtStep(cl, step)
    OBVIOUS
  <1>3. /\ d \in [kind : CallKind, at : CallStep, sid : Nat, typed : Nat, new : Nat, found : SUBSET Nat]
        /\ d.at = step /\ d.kind = cl.kind /\ d.sid = cl.sid /\ d.typed = cl.typed /\ d.new = cl.new
        /\ d.found = cl.found
    BY <1>1, <1>2 DEF AtStep
  <1>4. step # "idle"
    BY DEF CallStep
  <1> QED BY <1>2, <1>3, <1>4 DEF AccountCall

\* A refusal.
LEMMA RefuseStep ==
  ASSUME AccountInv, NEW b \in Browser, U!Refuse(b), call[b].at # "seed",
         ~SessionStale(call[b]), ~ListStale(call[b]), U!UnchangedButCall
  PROVE  AccountInv'
  <1>1. CallFits(U!Idle) /\ U!Idle.at # "seed"
    BY NoCall DEF CallFits
  <1>2. password' \in Nat /\ tries' \in Nat
    BY DEF AccountInv, AccountTypes, U!UnchangedButCall
  <1> QED BY <1>1, <1>2, NoCall, CallActs DEF U!Refuse, U!UnchangedButCall

\* A call goes from one of its first steps to another.
LEMMA GoStep ==
  ASSUME AccountInv, NEW b \in Browser, NEW step \in StepsOf(call[b].kind), step \in CallStep, U!Go(b, step),
         call[b].at # "idle", step \notin {"seed", "answer"}, call[b].at \notin {"seed", "answer"},
         call[b].kind = "change password" => step # "create session",
         ~SessionStale(call[b]), password' \in Nat,
         UNCHANGED <<sessions, workspace, cookie, gate, tries, fetches, mishaps, closed, seeded>>
  PROVE  AccountInv'
  <1>1. PICK cl \in AccountCall : cl = call[b]
    BY DEF AccountInv, AccountTypes
  <1>2. PICK dl : dl = AtStep(cl, step)
    OBVIOUS
  <1>3. /\ dl \in AccountCall /\ dl.at = step /\ dl.at # "idle" /\ dl.kind = cl.kind /\ dl.sid = cl.sid
        /\ dl.found = cl.found
    BY <1>1, <1>2, CallAtStep
  <1>4. call' = [call EXCEPT ![b] = dl]
    BY <1>1, <1>2 DEF U!Go, AtStep
  <1>5. CallFits(cl) /\ PageFits(gate[b], cookie[b], cl)
    BY <1>1 DEF AccountInv, Calls, Pages
  <1>6. CallFits(dl)
    BY <1>1, <1>3, <1>5 DEF CallFits
  <1>7. gate[b].loggedOut => dl.kind = "login"
    BY <1>1, <1>3, <1>5 DEF PageFits
  <1>8. ~ListStale(cl) /\ cl.at # "seed" /\ tries \in Nat
    BY <1>1 DEF ListStale, AccountInv, AccountTypes
  <1> QED BY <1>1, <1>3, <1>4, <1>6, <1>7, <1>8, CallActs

LEMMA StartStep ==
  ASSUME AccountInv, NEW b \in Browser, U!Start(b)
  PROVE  AccountInv'
  <1>1. PICK kind \in U!Kinds(b) :
          call' = [call EXCEPT ![b] = [kind |-> kind, at |-> U!FirstStep(kind), sid |-> cookie[b],
                                       typed |-> password, new |-> tries + 1, found |-> DOMAIN sessions]]
    BY DEF U!Start
  <1>2. kind \in CallKind
    BY DEF U!Kinds, CallKind
  <1>3. U!FirstStep(kind) \in StepsOf(kind) /\ U!FirstStep(kind) \in {"find user", "revoke", "guard"}
    BY <1>2 DEF CallKind, U!FirstStep, StepsOf
  <1>4. PICK dl : dl = [kind |-> kind, at |-> U!FirstStep(kind), sid |-> cookie[b],
                        typed |-> password, new |-> tries + 1, found |-> DOMAIN sessions]
    OBVIOUS
  <1>5. /\ cookie[b] \in Nat /\ password \in Nat /\ tries \in Nat /\ tries + 1 \in Nat
        /\ DOMAIN sessions = 1..Len(sessions) /\ DOMAIN sessions \subseteq Nat
    BY DEF AccountInv, AccountTypes
  <1>6. /\ dl \in [kind : CallKind, at : CallStep, sid : Nat, typed : Nat, new : Nat, found : SUBSET Nat]
        /\ dl.kind = kind /\ dl.at = U!FirstStep(kind) /\ dl.found = 1..Len(sessions)
    BY <1>2, <1>3, <1>4, <1>5 DEF CallStep
  <1>7. dl \in AccountCall
    BY <1>6 DEF AccountCall
  <1>8. dl.at \notin {"idle", "seed", "answer", "create session"} /\ dl.at \in StepsOf(dl.kind)
    BY <1>3, <1>6
  <1>9. CallFits(dl)
    BY <1>6, <1>8 DEF CallFits
  <1>10. gate[b].loggedOut => dl.kind = "login"
    <2>1. gate[b].loggedOut => U!Screen(b) = "login"
      BY DEF U!Screen
    <2>2. U!Screen(b) = "login" => kind = "login"
      BY DEF U!Kinds
    <2> QED BY <1>6, <2>1, <2>2
  <1>11. call[b].at = "idle"
    BY NoCall DEF U!Start
  <1>12. ~SessionStale(call[b]) /\ ~ListStale(call[b])
    BY <1>11 DEF SessionStale, ListStale, Under
  <1>13. call' = [call EXCEPT ![b] = dl] /\ tries' \in Nat /\ password' \in Nat
    BY <1>1, <1>4, <1>5 DEF U!Start
  <1> QED BY <1>7, <1>8, <1>9, <1>10, <1>11, <1>12, <1>13, CallActs DEF U!Start

LEMMA GuardStep ==
  ASSUME AccountInv, NEW b \in Browser, U!Guard(b)
  PROVE  AccountInv'
  <1>1. call[b].at = "guard" /\ U!UnchangedButCall
    BY DEF U!Guard
  <1>2. PICK cl \in AccountCall : cl = call[b]
    BY DEF AccountInv, AccountTypes
  <1>3. cl.kind \in CallKind /\ cl.at \in StepsOf(cl.kind)
    BY <1>1, <1>2, CallShape DEF AccountInv, Calls, CallFits
  <1>4. ~SessionStale(call[b]) /\ ~ListStale(call[b])
    BY <1>1 DEF SessionStale, ListStale
  <1>5. CASE ~U!Active(call[b].sid)
    BY <1>1, <1>4, <1>5, RefuseStep DEF U!Guard
  <1>6. CASE U!Active(call[b].sid)
    <2>1. cl.kind \in {"change password", "refresh", "create workspace"}
      BY <1>1, <1>2, <1>3 DEF CallKind, StepsOf
    <2>2. PICK step : /\ step = IF cl.kind = "change password" THEN "find user"
                                ELSE IF cl.kind = "refresh" THEN "revoke" ELSE "insert workspace"
      OBVIOUS
    <2>3. U!Go(b, step)
      BY <1>1, <1>2, <1>6, <2>1, <2>2 DEF U!Guard
    <2>4. step \in StepsOf(cl.kind) /\ step \in CallStep /\ step \notin {"seed", "answer", "create session"}
      BY <2>1, <2>2 DEF StepsOf, CallStep
    <2>5. password' \in Nat
      BY <1>1 DEF AccountInv, AccountTypes, U!UnchangedButCall
    <2> QED BY <1>1, <1>2, <1>4, <2>3, <2>4, <2>5, GoStep DEF U!UnchangedButCall
  <1> QED BY <1>5, <1>6

LEMMA FindUserStep ==
  ASSUME AccountInv, NEW b \in Browser, U!FindUser(b)
  PROVE  AccountInv'
  <1>1. call[b].at = "find user" /\ U!UnchangedButCall
    BY DEF U!FindUser
  <1>2. PICK cl \in AccountCall : cl = call[b]
    BY DEF AccountInv, AccountTypes
  <1>3. cl.kind \in CallKind /\ cl.at \in StepsOf(cl.kind)
    BY <1>1, <1>2, CallShape DEF AccountInv, Calls, CallFits
  <1>4. ~SessionStale(call[b]) /\ ~ListStale(call[b])
    BY <1>1 DEF SessionStale, ListStale
  <1>5. CASE call[b].typed # password
    BY <1>1, <1>4, <1>5, RefuseStep DEF U!FindUser
  <1>6. CASE call[b].typed = password
    <2>1. cl.kind \in {"change password", "login"}
      BY <1>1, <1>2, <1>3 DEF CallKind, StepsOf
    <2>2. PICK step : step = IF cl.kind = "login" THEN "create session" ELSE "update password"
      OBVIOUS
    <2>3. U!Go(b, step)
      BY <1>1, <1>2, <1>6, <2>2 DEF U!FindUser
    <2>4. /\ step \in StepsOf(cl.kind) /\ step \in CallStep /\ step \notin {"seed", "answer"}
          /\ cl.kind = "change password" => step # "create session"
      BY <2>1, <2>2 DEF StepsOf, CallStep
    <2>5. password' \in Nat
      BY <1>1 DEF AccountInv, AccountTypes, U!UnchangedButCall
    <2> QED BY <1>1, <1>2, <1>4, <2>3, <2>4, <2>5, GoStep DEF U!UnchangedButCall
  <1> QED BY <1>5, <1>6

LEMMA UpdatePasswordStep ==
  ASSUME AccountInv, NEW b \in Browser, U!UpdatePassword(b)
  PROVE  AccountInv'
  <1>1. call[b].at = "update password" /\ U!Go(b, "revoke all") /\ password' = call[b].new
    BY DEF U!UpdatePassword
  <1>2. PICK cl \in AccountCall : cl = call[b]
    BY DEF AccountInv, AccountTypes
  <1>3. cl.kind \in CallKind /\ cl.at \in StepsOf(cl.kind) /\ cl.new \in Nat
    BY <1>1, <1>2, CallShape DEF AccountInv, Calls, CallFits
  <1>4. ~SessionStale(call[b])
    BY <1>1 DEF SessionStale
  <1>5. cl.kind = "change password"
    BY <1>1, <1>2, <1>3 DEF CallKind, StepsOf
  <1>6. "revoke all" \in StepsOf(cl.kind) /\ "revoke all" \in CallStep
    BY <1>5 DEF StepsOf, CallStep
  <1> QED BY <1>1, <1>2, <1>3, <1>4, <1>6, GoStep DEF U!UpdatePassword

-------------------------------------------------------------------------------
\* Sessions that end.

LEMMA CountsAre ==
  ASSUME AccountInv
  PROVE  /\ \E n \in Nat : n = Len(sessions)
         /\ DOMAIN sessions = 1..Len(sessions)
         /\ mishaps' = mishaps => mishaps <= mishaps'
  BY DEF AccountInv, AccountTypes

LEMMA SessionsEndFacts ==
  ASSUME AccountTypes, NEW others, NEW ended, U!SessionsEnd(others, ended)
  PROVE  /\ sessions' \in Seq(BOOLEAN) /\ Len(sessions') = Len(sessions) /\ SessionsGoOn
         /\ \A k \in 0..Len(sessions) : U!Active(k)' <=> U!Active(k) /\ k \notin ended
         /\ \A s \in 1..Len(sessions) : sessions'[s] => s \notin ended
         /\ gate' \in [Browser -> PageGate]
         /\ \A c \in Browser :
              \/ gate'[c] = DoubtedGate(gate[c])
              \/ gate'[c] = gate[c] /\ (c \in others => ~(U!Active(cookie[c]) /\ cookie[c] \in ended))
  <1>1. PICK n \in Nat : n = Len(sessions)
    BY DEF AccountTypes
  <1>2. sessions \in [1..n -> BOOLEAN] /\ DOMAIN sessions = 1..n
    BY <1>1 DEF AccountTypes
  <1>3. sessions' = [s \in 1..n |-> sessions[s] /\ s \notin ended]
    BY <1>2 DEF U!SessionsEnd
  <1>4. sessions' \in [1..n -> BOOLEAN]
    BY <1>3
  <1>5. sessions' \in Seq(BOOLEAN) /\ Len(sessions') = n
    BY <1>4
  <1>6. \A s \in 1..n : sessions'[s] <=> sessions[s] /\ s \notin ended
    BY <1>3
  <1>7. SessionsGoOn
    BY <1>1, <1>5, <1>6 DEF SessionsGoOn
  <1>8. \A k \in 0..n : U!Active(k)' <=> U!Active(k) /\ k \notin ended
    BY <1>6 DEF U!Active, U!None
  <1>9. ASSUME NEW c \in Browser
        PROVE  /\ gate'[c] \in PageGate
               /\ \/ gate'[c] = DoubtedGate(gate[c])
                  \/ gate'[c] = gate[c] /\ (c \in others => ~(U!Active(cookie[c]) /\ cookie[c] \in ended))
    <2>1. gate[c] \in PageGate /\ DoubtedGate(gate[c]) \in PageGate
      BY GateDoubted DEF AccountTypes
    <2>2. gate'[c] = IF c \in others /\ U!Active(cookie[c]) /\ cookie[c] \in ended
                     THEN DoubtedGate(gate[c]) ELSE gate[c]
      BY DEF U!SessionsEnd, DoubtedGate
    <2> QED BY <2>1, <2>2
  <1>10. gate' \in [Browser -> PageGate]
    <2>1. \E G : gate' = [c \in Browser |-> G[c]]
      <3>1. gate' = [c \in Browser |-> gate'[c]]
        BY DEF U!SessionsEnd
      <3> QED BY <3>1
    <2> QED BY <1>9, <2>1
  <1> QED BY <1>1, <1>5, <1>6, <1>7, <1>8, <1>9, <1>10

\* A page whose session is as it was, and one that was told to doubt.
LEMMA OthersSee ==
  ASSUME AccountInv, NEW others, NEW ended, U!SessionsEnd(others, ended),
         NEW c \in others, c \in Browser, cookie' = cookie, workspace' = workspace, call'[c] = call[c]
  PROVE  PageFits(gate[c], cookie[c], call[c])'
  <1>1. AccountTypes
    BY DEF AccountInv
  <1>2. PICK g, k, cl : g = gate[c] /\ k = cookie[c] /\ cl = call[c]
    OBVIOUS
  <1>3. PageFits(g, k, cl) /\ g \in PageGate /\ k \in 0..Len(sessions)
    BY <1>2 DEF AccountInv, AccountTypes, Pages
  <1>4. PICK h : h = gate'[c]
    OBVIOUS
  <1>5. PageFits(h, k, cl)'
    <2>1. CASE h = DoubtedGate(g)
      <3>1. g.loggedOut => cl.at = "idle" \/ cl.kind = "login"
        BY <1>3 DEF PageFits
      <3>2. PageFits(DoubtedGate(g), k, cl)'
        BY <1>3, <3>1, PageDoubted
      <3> QED BY <2>1, <3>2
    <2>2. CASE h = g /\ ~(U!Active(k) /\ k \in ended)
      <3>1. U!Active(k)' <=> U!Active(k)
        BY <1>1, <1>3, <2>2, SessionsEndFacts
      <3>2. PageFits(g, k, cl)'
        BY <1>3, <3>1, PageStill
      <3> QED BY <2>2, <3>2
    <2> QED BY <1>1, <1>2, <1>4, <2>1, <2>2, SessionsEndFacts
  <1> QED BY <1>2, <1>4, <1>5 DEF PageFits, Right

\* A page whose own call ended the session, and has not been answered.
LEMMA PageStale ==
  ASSUME NEW g, NEW k, NEW cl, NEW dl, PageFits(g, k, cl), SessionStale(dl), cl.at # "idle",
         dl.kind = cl.kind, workspace' = workspace
  PROVE  PageFits(g, k, dl)'
  <1>1. ~g.loggedOut /\ ~ListStale(cl)
    BY DEF PageFits, SessionStale, ListStale, Under
  <1>2. \A status, listed : Right(status, listed, k, cl) => Right(status, listed, k, dl)'
    BY <1>1 DEF Right, U!NoWorkspace, SessionStale, Under
  <1> QED BY <1>1, <1>2 DEF PageFits

LEMMA EndsStep ==
  ASSUME AccountInv, NEW b \in Browser, NEW others, others = Browser \ {b}, NEW ended, U!SessionsEnd(others, ended),
         NEW step \in CallStep, step # "seed", U!Go(b, step),
         SessionStale(AtStep(call[b], step)),
         call[b].at # "idle", call[b].at # "seed", step \in StepsOf(call[b].kind),
         call[b].kind \in {"logout", "refresh", "change password"},
         call[b].kind # "logout" => step = "create session",
         call[b].kind = "change password" => DOMAIN sessions \subseteq ended,
         UNCHANGED <<password, workspace, cookie, tries, fetches, mishaps, closed, seeded>>
  PROVE  AccountInv'
  <1>1. PICK cl \in AccountCall : cl = call[b]
    BY DEF AccountInv, AccountTypes
  <1>3. PICK dl : dl = AtStep(cl, step)
    OBVIOUS
  <1>4. /\ dl \in AccountCall /\ dl.at = step /\ dl.at # "idle" /\ dl.kind = cl.kind /\ dl.sid = cl.sid
        /\ dl.found = cl.found
    BY <1>1, <1>3, CallAtStep
  <1>5. call' = [call EXCEPT ![b] = dl]
    BY <1>1, <1>3 DEF U!Go, AtStep
  <1>6. \A c \in Browser : call'[c] = IF c = b THEN dl ELSE call[c]
    BY <1>5 DEF AccountInv, AccountTypes
  <1>7. AccountTypes
    BY DEF AccountInv
  <1>8. PICK n \in Nat : n = Len(sessions)
    BY CountsAre
  <1>9. /\ sessions' \in Seq(BOOLEAN) /\ Len(sessions') = n /\ SessionsGoOn
        /\ \A s \in 1..n : sessions'[s] => s \notin ended
        /\ gate' \in [Browser -> PageGate]
    BY <1>7, <1>8, SessionsEndFacts
  <1>10. AccountTypes'
    BY <1>4, <1>5, <1>7, <1>8, <1>9 DEF AccountTypes
  <1>11. CallFits(cl) /\ PageFits(gate[b], cookie[b], cl)
    BY <1>1 DEF AccountInv, Calls, Pages
  <1>12. CallFits(dl)'
    <2>1. cl.found \subseteq 1..n
      BY <1>1, <1>8, <1>11 DEF CallFits
    <2>2. cl.kind = "change password" => \A s \in cl.found : ~sessions'[s]
      <3>1. DOMAIN sessions = 1..n
        BY <1>8, CountsAre
      <3> QED BY <1>1, <1>9, <2>1, <3>1
    <2>3. dl.at # "seed" /\ dl.kind # "create workspace" /\ dl.at \in StepsOf(dl.kind)
      BY <1>1, <1>4
    <2>4. dl.kind # "logout" => dl.at # "answer"
      BY <1>1, <1>4
    <2> QED BY <1>4, <1>8, <1>9, <2>1, <2>2, <2>3, <2>4 DEF CallFits
  <1>13. SessionStale(dl)
    BY <1>1, <1>3
  <1>14. ASSUME NEW c \in Browser
         PROVE  PageFits(gate[c], cookie[c], call[c])'
    <2>1. CASE c # b
      <3>1. call'[c] = call[c] /\ c \in others
        BY <1>6, <2>1
      <3> QED BY <3>1, OthersSee
    <2>2. CASE c = b
      <3>1. PICK g, k : g = gate[b] /\ k = cookie[b]
        OBVIOUS
      <3>2. gate'[b] = g
        BY <3>1 DEF U!SessionsEnd
      <3>3. PageFits(g, k, dl)'
        BY <1>1, <1>4, <1>11, <1>13, <3>1, PageStale
      <3>4. call'[b] = dl /\ cookie'[b] = k
        BY <1>6, <3>1
      <3> QED BY <2>2, <3>2, <3>3, <3>4 DEF PageFits, Right
    <2> QED BY <2>1, <2>2
  <1>15. \A s \in closed' : ~sessions'[s]
    BY <1>7, <1>8, <1>9 DEF AccountInv, AccountTypes, U!FoundSessionsEnded, SessionsGoOn
  <1>16. \A c \in Browser : call'[c] = call[c] \/ CallFits(call[c])'
    <2>1. ASSUME NEW c \in Browser, c = b
          PROVE  CallFits(call[c])'
      BY <1>6, <1>12, <2>1 DEF CallFits
    <2> QED BY <1>6, <2>1
  <1>17. mishaps <= mishaps'
    BY CountsAre
  <1>18. \A c \in Browser : call'[c].at = "seed" <=> Seeding(c)
    BY <1>4, <1>6 DEF Seeding
  <1> QED BY <1>9, <1>10, <1>14, <1>15, <1>16, <1>17, <1>18, AccountGoesOn

LEMMA RevokeAllStep ==
  ASSUME AccountInv, NEW b \in Browser, U!RevokeAll(b)
  PROVE  AccountInv'
  <1>1. PICK cl \in AccountCall : cl = call[b]
    BY DEF AccountInv, AccountTypes
  <1>2. cl.at = "revoke all" /\ cl.kind \in CallKind /\ cl.at \in StepsOf(cl.kind)
    BY <1>1, CallShape DEF AccountInv, Calls, CallFits, U!RevokeAll
  <1>3. cl.kind = "change password"
    BY <1>2 DEF CallKind, StepsOf
  <1>4. "create session" \in StepsOf(cl.kind)
    BY <1>3 DEF StepsOf
  <1>5. PICK others, ended : /\ others = Browser \ {b} /\ ended = DOMAIN sessions
                             /\ U!SessionsEnd(others, ended)
    BY DEF U!RevokeAll
  <1>6. "create session" \in CallStep
    BY DEF CallStep
  <1>7. SessionStale(AtStep(cl, "create session"))
    BY <1>2, <1>3, <1>6, CallAtStep DEF SessionStale, Under
  <1> QED BY <1>1, <1>2, <1>3, <1>4, <1>5, <1>6, <1>7, EndsStep DEF U!RevokeAll

LEMMA RevokeStep ==
  ASSUME AccountInv, NEW b \in Browser, U!Revoke(b)
  PROVE  AccountInv'
  <1>1. PICK cl \in AccountCall : cl = call[b]
    BY DEF AccountInv, AccountTypes
  <1>2. cl.at = "revoke" /\ cl.kind \in CallKind /\ cl.at \in StepsOf(cl.kind)
    BY <1>1, CallShape DEF AccountInv, Calls, CallFits, U!Revoke
  <1>3. cl.kind \in {"logout", "refresh"}
    BY <1>2 DEF CallKind, StepsOf
  <1>4. PICK step : step = IF cl.kind = "logout" THEN "answer" ELSE "create session"
    OBVIOUS
  <1>5. step \in StepsOf(cl.kind) /\ (step = "create session" \/ step = "answer")
    BY <1>3, <1>4 DEF StepsOf
  <1>6. U!Go(b, step)
    BY <1>1, <1>4 DEF U!Revoke
  <1>7. PICK others, ended : others = Browser \ {b} /\ U!SessionsEnd(others, ended)
    BY DEF U!Revoke
  <1>8. step \in CallStep
    BY <1>5 DEF CallStep
  <1>9. SessionStale(AtStep(cl, step))
    BY <1>2, <1>3, <1>4, <1>8, CallAtStep DEF SessionStale, Under
  <1> QED BY <1>1, <1>2, <1>3, <1>4, <1>5, <1>6, <1>7, <1>8, <1>9, EndsStep DEF U!Revoke

LEMMA ExpireStep ==
  ASSUME AccountInv, NEW s, U!Expire(s)
  PROVE  AccountInv'
  <1>1. AccountTypes
    BY DEF AccountInv
  <1>2. U!SessionsEnd(Browser, {s}) /\ mishaps' = mishaps + 1
    BY DEF U!Expire
  <1>3. PICK n \in Nat : n = Len(sessions)
    BY <1>1 DEF AccountTypes
  <1>4. /\ sessions' \in Seq(BOOLEAN) /\ Len(sessions') = n /\ SessionsGoOn
        /\ gate' \in [Browser -> PageGate]
    BY <1>1, <1>2, <1>3, SessionsEndFacts
  <1>5. AccountTypes'
    BY <1>1, <1>2, <1>3, <1>4 DEF AccountTypes, U!Expire
  <1>6. ASSUME NEW c \in Browser
        PROVE  PageFits(gate[c], cookie[c], call[c])'
    BY <1>2, OthersSee DEF U!Expire
  <1>7. \A t \in closed' : ~sessions'[t]
    BY <1>1, <1>3, <1>4 DEF AccountInv, AccountTypes, U!FoundSessionsEnded, SessionsGoOn, U!Expire
  <1>8. mishaps \in Nat /\ mishaps <= mishaps'
    BY <1>1, <1>2 DEF AccountTypes
  <1> QED BY <1>4, <1>5, <1>6, <1>7, <1>8, AccountGoesOn DEF Seeding, U!Expire

-------------------------------------------------------------------------------
\* A session is created; the workspace and its fields; a failure.

LEMMA CreateSessionStep ==
  ASSUME AccountInv, NEW b \in Browser, U!CreateSession(b)
  PROVE  AccountInv'
  <1>1. PICK cl \in AccountCall : cl = call[b]
    BY DEF AccountInv, AccountTypes
  <1>2. cl.at = "create session" /\ cl.kind \in CallKind /\ CallFits(cl)
    BY <1>1, CallShape DEF AccountInv, Calls, U!CreateSession
  <1>3. cl.kind \in {"login", "refresh", "change password"}
    BY <1>2 DEF CallKind, CallFits, StepsOf
  <1>4. AccountTypes
    BY DEF AccountInv
  <1>5. PICK n \in Nat : n = Len(sessions)
    BY CountsAre
  <1>6. /\ sessions' \in Seq(BOOLEAN) /\ Len(sessions') = n + 1
        /\ \A s \in 1..n : sessions'[s] = sessions[s]
    <2>1. sessions \in Seq(BOOLEAN) /\ sessions' = Append(sessions, TRUE)
      BY <1>4 DEF AccountTypes, U!CreateSession
    <2>2. TRUE \in BOOLEAN
      OBVIOUS
    <2> QED BY <1>5, <2>1, <2>2, AppendProperties
  <1>7. SessionsGoOn
    BY <1>5, <1>6 DEF SessionsGoOn
  <1>8. PICK dl : dl = [cl EXCEPT !.at = "answer", !.sid = n + 1]
    OBVIOUS
  <1>9. /\ dl \in AccountCall /\ dl.at = "answer" /\ dl.sid = n + 1 /\ dl.kind = cl.kind
        /\ dl.found = cl.found
    <2>1. cl \in [kind : CallKind, at : CallStep, sid : Nat, typed : Nat, new : Nat, found : SUBSET Nat]
      BY <1>2 DEF AccountCall
    <2>2. n + 1 \in Nat /\ "answer" \in CallStep
      BY DEF CallStep
    <2>3. /\ dl \in [kind : CallKind, at : CallStep, sid : Nat, typed : Nat, new : Nat, found : SUBSET Nat]
          /\ dl.at = "answer" /\ dl.sid = n + 1 /\ dl.kind = cl.kind /\ dl.found = cl.found
      BY <1>8, <2>1, <2>2
    <2> QED BY <2>3 DEF AccountCall
  <1>10. call' = [call EXCEPT ![b] = dl]
    BY <1>1, <1>4, <1>5, <1>8 DEF U!CreateSession, AccountTypes
  <1>11. \A c \in Browser : call'[c] = IF c = b THEN dl ELSE call[c]
    BY <1>4, <1>10 DEF AccountTypes
  <1>12. AccountTypes'
    <2>1. \A i \in 0..n : i \in 0..n + 1
      OBVIOUS
    <2>2. \A c \in Browser : cookie[c] \in 0..n + 1
      BY <1>4, <1>5, <2>1 DEF AccountTypes
    <2>3. closed \subseteq 1..n + 1
      BY <1>4, <1>5 DEF AccountTypes
    <2>4. call' \in [Browser -> AccountCall]
      BY <1>4, <1>9, <1>10 DEF AccountTypes
    <2> QED BY <1>4, <1>6, <2>2, <2>3, <2>4 DEF AccountTypes, U!CreateSession
  <1>13. CallFits(dl)'
    <2>1. cl.found \subseteq 1..n
      BY <1>2, <1>5 DEF CallFits
    <2>2. cl.kind = "change password" => \A s \in cl.found : ~sessions'[s]
      BY <1>2, <1>6, <2>1 DEF CallFits
    <2>3. cl.found \subseteq 1..n + 1 /\ n + 1 \in 1..n + 1
      BY <2>1
    <2>4. "answer" \in StepsOf(cl.kind)
      BY <1>3 DEF StepsOf
    <2> QED BY <1>3, <1>6, <1>9, <2>2, <2>3, <2>4 DEF CallFits
  <1>14. \A k \in 0..n : U!Active(k)' <=> U!Active(k)
    BY <1>6 DEF U!Active, U!None
  <1>15. ASSUME NEW c \in Browser
         PROVE  PageFits(gate[c], cookie[c], call[c])'
    <2>1. PICK h, k, ol, el : h = gate[c] /\ k = cookie[c] /\ ol = call[c] /\ el = call'[c]
      OBVIOUS
    <2>2. PageFits(h, k, ol) /\ k \in 0..n
      BY <1>5, <2>1 DEF AccountInv, AccountTypes, Pages
    <2>3. PageFits(h, k, el)
      <3>1. CASE c = b
        <4>1. ol = cl /\ el = dl
          BY <1>1, <1>11, <2>1, <3>1
        <4>2. h.loggedOut => dl.kind = "login"
          BY <1>2, <1>9, <2>2, <4>1 DEF PageFits
        <4>3. (SessionStale(cl) => SessionStale(dl)) /\ ~ListStale(cl)
          BY <1>2, <1>3, <1>9 DEF SessionStale, ListStale, Under
        <4> QED BY <2>2, <4>1, <4>2, <4>3, PageGoes
      <3>2. CASE c # b
        BY <1>11, <2>1, <2>2, <3>2
      <3> QED BY <3>1, <3>2
    <2>4. PageFits(h, k, el)'
      BY <1>14, <2>2, <2>3, PageStill DEF U!CreateSession
    <2>5. gate'[c] = h /\ cookie'[c] = k
      BY <2>1 DEF U!CreateSession
    <2> QED BY <2>1, <2>4, <2>5 DEF PageFits, Right
  <1>16. \A s \in closed' : ~sessions'[s]
    BY <1>4, <1>5, <1>6 DEF AccountInv, AccountTypes, U!FoundSessionsEnded, U!CreateSession
  <1>17. \A c \in Browser : call'[c] = call[c] \/ CallFits(call[c])'
    <2>1. ASSUME NEW c \in Browser, c = b
          PROVE  CallFits(call[c])'
      BY <1>11, <1>13, <2>1 DEF CallFits
    <2> QED BY <1>11, <2>1
  <1>18. \A c \in Browser : call'[c].at = "seed" <=> Seeding(c)
    BY <1>1, <1>2, <1>9, <1>11 DEF Seeding
  <1>19. mishaps <= mishaps'
    BY CountsAre DEF U!CreateSession
  <1> QED BY <1>7, <1>12, <1>15, <1>16, <1>17, <1>18, <1>19, AccountGoesOn DEF U!CreateSession

\* One call has the workspace to itself while its fields are missing.
LEMMA WorkspaceActs ==
  ASSUME AccountInv, AccountTypes', NEW b \in Browser, NEW dl \in AccountCall, call' = [call EXCEPT ![b] = dl],
         CallFits(dl)', workspace # Seeds, \A c \in Browser : Seeding(c) => c = b,
         workspace' \in 0..Seeds - 1 => dl.at = "seed",
         \A c \in Browser : PageFits(gate[c], cookie[c], call[c])',
         UNCHANGED <<sessions, mishaps, closed, seeded>>
  PROVE  AccountInv'
  <1>1. AccountTypes
    BY DEF AccountInv
  <1>2. \A c \in Browser : call'[c] = IF c = b THEN dl ELSE call[c]
    BY <1>1 DEF AccountTypes
  <1>3. Calls'
    <2>1. ASSUME NEW c \in Browser
          PROVE  CallFits(call[c])'
      <3>1. CASE c = b
        BY <1>2, <3>1 DEF CallFits
      <3>2. CASE c # b
        <4>1. PICK cl : cl = call[c]
          OBVIOUS
        <4>2. CallFits(cl) /\ cl.at # "seed"
          BY <3>2, <4>1 DEF AccountInv, Calls, Seeding
        <4>3. ~(cl.kind = "create workspace" /\ cl.at = "answer")
          BY <4>2 DEF CallFits
        <4>4. CallFits(cl)'
          BY <4>2, <4>3 DEF CallFits
        <4> QED BY <1>2, <3>2, <4>1, <4>4 DEF CallFits
      <3> QED BY <3>1, <3>2
    <2> QED BY <2>1 DEF Calls
  <1>4. Seeded'
    <2>1. \A c \in Browser : Seeding(c)' => c = b
      BY <1>2 DEF Seeding
    <2>2. ~seeded'
      BY DEF AccountInv, Seeded
    <2>3. dl.at = "seed" => Seeding(b)'
      BY <1>2 DEF Seeding
    <2> QED BY <2>1, <2>2, <2>3 DEF Seeded
  <1>5. U!FoundSessionsEnded'
    BY DEF AccountInv, U!FoundSessionsEnded
  <1> QED BY <1>3, <1>4, <1>5 DEF AccountInv, Pages

\* The page of the browser that has just created the workspace.
LEMMA PageLists ==
  ASSUME NEW g, NEW k, NEW cl, NEW dl, PageFits(g, k, cl), ListStale(dl), cl.at # "idle", dl.kind = cl.kind,
         ~SessionStale(cl), U!Active(k)' <=> U!Active(k)
  PROVE  PageFits(g, k, dl)'
  <1>1. ~g.loggedOut /\ ~SessionStale(dl)
    BY DEF PageFits, SessionStale, ListStale, Under
  <1>2. \A status, listed : Right(status, listed, k, cl) => Right(status, listed, k, dl)'
    BY <1>1 DEF Right
  <1> QED BY <1>1, <1>2 DEF PageFits

LEMMA InsertWorkspaceStep ==
  ASSUME AccountInv, Seeds \in Nat \ {0}, NEW b \in Browser, U!InsertWorkspace(b)
  PROVE  AccountInv'
  <1>1. PICK cl \in AccountCall : cl = call[b]
    BY DEF AccountInv, AccountTypes
  <1>2. cl.at = "insert workspace" /\ cl.kind \in CallKind /\ CallFits(cl)
    BY <1>1, CallShape DEF AccountInv, Calls, U!InsertWorkspace
  <1>3. cl.kind = "create workspace"
    BY <1>2 DEF CallKind, CallFits, StepsOf
  <1>4. AccountTypes
    BY DEF AccountInv
  <1>5. ~SessionStale(cl) /\ ~ListStale(cl)
    BY <1>2 DEF SessionStale, ListStale
  <1>6. CASE workspace # U!NoWorkspace
    <2>1. U!Refuse(b) /\ U!UnchangedButCall
      BY <1>6 DEF U!InsertWorkspace, U!UnchangedButCall
    <2> QED BY <1>1, <1>2, <1>5, <2>1, RefuseStep
  <1>7. CASE workspace = U!NoWorkspace
    <2>1. /\ workspace' = 0 /\ U!Go(b, "seed")
          /\ gate' = [c \in Browser |-> IF c # b THEN DoubtedGate(gate[c]) ELSE gate[c]]
      BY <1>7 DEF U!InsertWorkspace, DoubtedGate
    <2>2. PICK dl : dl = AtStep(cl, "seed")
      OBVIOUS
    <2>3. /\ dl \in AccountCall /\ dl.at = "seed" /\ dl.at # "idle" /\ dl.kind = cl.kind
          /\ dl.found = cl.found
      <3>1. "seed" \in CallStep
        BY DEF CallStep
      <3> QED BY <1>2, <2>2, <3>1, CallAtStep
    <2>4. call' = [call EXCEPT ![b] = dl]
      BY <1>1, <2>1, <2>2 DEF U!Go, AtStep
    <2>5. \A c \in Browser : call'[c] = IF c = b THEN dl ELSE call[c]
      BY <1>4, <2>4 DEF AccountTypes
    <2>6. gate' \in [Browser -> PageGate]
      <3>1. \A c \in Browser : gate[c] \in PageGate /\ DoubtedGate(gate[c]) \in PageGate
        BY <1>4, GateDoubted DEF AccountTypes
      <3> QED BY <2>1, <3>1
    <2>7. workspace' \in -1..Seeds /\ workspace' \in 0..Seeds - 1 /\ workspace # Seeds
      BY <1>7, <2>1 DEF U!NoWorkspace
    <2>8. AccountTypes'
      BY <1>4, <2>3, <2>4, <2>6, <2>7 DEF AccountTypes, U!InsertWorkspace
    <2>9. CallFits(dl)'
      <3>1. /\ dl.found \subseteq 1..Len(sessions') /\ "seed" \in StepsOf(dl.kind)
        BY <1>2, <1>3, <2>3 DEF CallFits, StepsOf, U!InsertWorkspace
      <3> QED BY <2>3, <2>7, <3>1 DEF CallFits
    <2>10. \A c \in Browser : Seeding(c) => c = b
      <3>1. ASSUME NEW c \in Browser
            PROVE  ~Seeding(c)
        <4>1. call[c].at = "seed" => workspace \in 0..Seeds - 1
          BY DEF AccountInv, Calls, CallFits
        <4>2. workspace \notin 0..Seeds - 1
          BY <1>7 DEF U!NoWorkspace
        <4> QED BY <4>1, <4>2 DEF Seeding
      <3> QED BY <3>1
    <2>11. \A k : U!Active(k)' <=> U!Active(k)
      BY <1>4, SessionsSame DEF U!InsertWorkspace
    <2>12. ASSUME NEW c \in Browser
           PROVE  PageFits(gate[c], cookie[c], call[c])'
      <3>1. PICK g, k, ol : g = gate[c] /\ k = cookie[c] /\ ol = call[c]
        OBVIOUS
      <3>2. PageFits(g, k, ol) /\ g \in PageGate
        BY <3>1 DEF AccountInv, AccountTypes, Pages
      <3>3. cookie'[c] = k
        BY <3>1 DEF U!InsertWorkspace
      <3>4. CASE c = b
        <4>1. ListStale(dl)
          BY <1>3, <2>3 DEF ListStale, Under
        <4>2. PageFits(g, k, dl)'
          BY <1>1, <1>2, <1>5, <2>3, <2>11, <3>1, <3>2, <3>4, <4>1, PageLists
        <4>3. gate'[c] = g /\ call'[c] = dl
          BY <2>1, <2>5, <3>1, <3>4
        <4> QED BY <3>3, <4>2, <4>3 DEF PageFits, Right
      <3>5. CASE c # b
        <4>1. g.loggedOut => ol.at = "idle" \/ ol.kind = "login"
          BY <3>2 DEF PageFits
        <4>2. PICK h : h = DoubtedGate(g)
          OBVIOUS
        <4>3. PageFits(h, k, ol)'
          BY <3>2, <4>1, <4>2, PageDoubted
        <4>4. gate'[c] = h /\ call'[c] = ol
          BY <2>1, <2>5, <3>1, <3>5, <4>2
        <4> QED BY <3>3, <4>3, <4>4 DEF PageFits, Right
      <3> QED BY <3>4, <3>5
    <2> QED BY <2>3, <2>4, <2>7, <2>8, <2>9, <2>10, <2>12, WorkspaceActs DEF U!InsertWorkspace
  <1> QED BY <1>6, <1>7

LEMMA SeedFieldStep ==
  ASSUME AccountInv, Seeds \in Nat \ {0}, NEW b \in Browser, U!SeedField(b)
  PROVE  AccountInv'
  <1>1. PICK cl \in AccountCall : cl = call[b]
    BY DEF AccountInv, AccountTypes
  <1>2. cl.at = "seed" /\ cl.kind \in CallKind /\ CallFits(cl)
    BY <1>1, CallShape DEF AccountInv, Calls, U!SeedField
  <1>3. cl.kind = "create workspace"
    BY <1>2 DEF CallKind, CallFits, StepsOf
  <1>4. AccountTypes
    BY DEF AccountInv
  <1>5. PICK w \in 0..Seeds - 1 : w = workspace
    BY <1>2 DEF CallFits
  <1>6. PICK step : step = IF w + 1 = Seeds THEN "answer" ELSE "seed"
    OBVIOUS
  <1>7. U!Go(b, step) /\ workspace' = w + 1
    BY <1>5, <1>6 DEF U!SeedField
  <1>8. step \in CallStep /\ step \in StepsOf(cl.kind)
    BY <1>3, <1>6 DEF CallStep, StepsOf
  <1>9. PICK dl : dl = AtStep(cl, step)
    OBVIOUS
  <1>10. dl \in AccountCall /\ dl.at = step /\ dl.at # "idle" /\ dl.kind = cl.kind /\ dl.found = cl.found
    BY <1>2, <1>8, <1>9, CallAtStep
  <1>11. call' = [call EXCEPT ![b] = dl]
    BY <1>1, <1>7, <1>9 DEF U!Go, AtStep
  <1>12. \A c \in Browser : call'[c] = IF c = b THEN dl ELSE call[c]
    BY <1>4, <1>11 DEF AccountTypes
  <1>13. /\ w + 1 \in -1..Seeds /\ w # Seeds /\ w # -1 /\ w + 1 # -1
         /\ w + 1 \in 0..Seeds - 1 <=> w + 1 # Seeds
    BY <1>5
  <1>14. AccountTypes'
    BY <1>4, <1>7, <1>10, <1>11, <1>13 DEF AccountTypes, U!SeedField
  <1>15. CallFits(dl)'
    <2>1. dl.found \subseteq 1..Len(sessions')
      BY <1>2, <1>10 DEF CallFits, U!SeedField
    <2>2. (dl.at = "seed" => w + 1 \in 0..Seeds - 1) /\ (dl.at = "answer" => w + 1 = Seeds)
      BY <1>6, <1>10, <1>13
    <2> QED BY <1>3, <1>7, <1>8, <1>10, <2>1, <2>2 DEF CallFits
  <1>16. \A c \in Browser : Seeding(c) => c = b
    <2>1. Seeding(b)
      BY <1>1, <1>2 DEF Seeding
    <2> QED BY <2>1 DEF AccountInv, Seeded
  <1>17. \A k : U!Active(k)' <=> U!Active(k)
    BY <1>4, SessionsSame DEF U!SeedField
  <1>18. ASSUME NEW c \in Browser
         PROVE  PageFits(gate[c], cookie[c], call[c])'
    <2>1. PICK h, k, ol, el : h = gate[c] /\ k = cookie[c] /\ ol = call[c] /\ el = call'[c]
      OBVIOUS
    <2>2. PageFits(h, k, ol)
      BY <2>1 DEF AccountInv, Pages
    <2>3. PageFits(h, k, el)
      <3>1. CASE c = b
        <4>1. ol = cl /\ el = dl
          BY <1>1, <1>12, <2>1, <3>1
        <4>2. ~h.loggedOut
          BY <1>2, <1>3, <2>2, <4>1 DEF PageFits
        <4>3. ListStale(dl) /\ ~SessionStale(cl)
          BY <1>2, <1>3, <1>6, <1>10 DEF SessionStale, ListStale, Under
        <4> QED BY <2>2, <4>1, <4>2, <4>3, PageGoes
      <3>2. CASE c # b
        BY <1>12, <2>1, <2>2, <3>2
      <3> QED BY <3>1, <3>2
    <2>4. workspace' # U!NoWorkspace <=> workspace # U!NoWorkspace
      BY <1>5, <1>7, <1>13 DEF U!NoWorkspace
    <2>5. PageFits(h, k, el)'
      BY <1>17, <2>3, <2>4, PageStill
    <2>6. gate'[c] = h /\ cookie'[c] = k
      BY <2>1 DEF U!SeedField
    <2> QED BY <2>1, <2>5, <2>6 DEF PageFits, Right
  <1>19. workspace' \in 0..Seeds - 1 => dl.at = "seed"
    BY <1>6, <1>7, <1>10, <1>13
  <1>20. workspace # Seeds
    BY <1>5, <1>13
  <1> QED BY <1>10, <1>11, <1>14, <1>15, <1>16, <1>18, <1>19, <1>20, WorkspaceActs DEF U!SeedField

LEMMA FailStep ==
  ASSUME AccountInv, NEW b \in Browser, U!Fail(b)
  PROVE  AccountInv'
  <1>1. AccountTypes
    BY DEF AccountInv
  <1>2. PICK g, k, cl : g \in PageGate /\ g = gate[b] /\ k = cookie[b] /\ cl = call[b]
    BY <1>1 DEF AccountTypes
  <1>3. PICK h \in PageGate : h = DoubtedGate(g)
    BY <1>2, GateDoubted
  <1>4. gate' = [gate EXCEPT ![b] = h]
    BY <1>2, <1>3 DEF U!Fail, U!SetQuery, DoubtedGate
  <1>5. PICK dl \in AccountCall : dl = U!Idle /\ dl.at = "idle"
    BY NoCall
  <1>6. call' = [call EXCEPT ![b] = dl]
    BY <1>5 DEF U!Fail, U!Refuse
  <1>7. PICK m \in Nat : m = mishaps /\ mishaps' = m + 1
    BY <1>1 DEF AccountTypes, U!Fail
  <1>8. AccountTypes'
    BY <1>1, <1>4, <1>6, <1>7 DEF AccountTypes, U!Fail
  <1>9. SessionsGoOn /\ \A j : U!Active(j)' <=> U!Active(j)
    BY <1>1, SessionsSame DEF U!Fail
  <1>10. ASSUME NEW c \in Browser
         PROVE  PageFits(gate[c], cookie[c], call[c])'
    <2>1. CASE c = b
      <3>1. PageFits(g, k, cl)
        BY <1>2 DEF AccountInv, Pages
      <3>2. PageFits(h, k, dl)'
        BY <1>2, <1>3, <1>5, <3>1, PageDoubted
      <3>3. gate'[c] = h /\ cookie'[c] = k /\ call'[c] = dl
        BY <1>1, <1>2, <1>4, <1>6, <2>1 DEF AccountTypes, U!Fail
      <3> QED BY <3>2, <3>3 DEF PageFits, Right
    <2>2. CASE c # b
      <3>1. PICK i, j, el : i = gate[c] /\ j = cookie[c] /\ el = call[c]
        OBVIOUS
      <3>2. PageFits(i, j, el)
        BY <3>1 DEF AccountInv, Pages
      <3>3. PageFits(i, j, el)'
        BY <1>9, <3>2, PageStill DEF U!Fail
      <3>4. gate'[c] = i /\ cookie'[c] = j /\ call'[c] = el
        BY <1>1, <1>4, <1>6, <2>2, <3>1 DEF AccountTypes, U!Fail
      <3> QED BY <3>3, <3>4 DEF PageFits, Right
    <2> QED BY <2>1, <2>2
  <1>11. \A c \in Browser : call'[c] = IF c = b THEN dl ELSE call[c]
    BY <1>1, <1>6 DEF AccountTypes
  <1>12. \A c \in Browser : call'[c] = call[c] \/ CallFits(call[c])'
    BY <1>5, <1>11 DEF CallFits
  <1>13. \A c \in Browser : call'[c].at = "seed" => Seeding(c)
    BY <1>5, <1>11 DEF Seeding
  <1>14. mishaps <= mishaps' /\ mishaps' > 0
    BY <1>7
  <1>15. \A s \in closed' : ~sessions'[s]
    BY DEF AccountInv, U!FoundSessionsEnded, U!Fail
  <1> QED BY <1>8, <1>9, <1>10, <1>12, <1>13, <1>14, <1>15, AccountGoesOn DEF U!Fail

-------------------------------------------------------------------------------
\* The answers.

LEMMA AnswerActs ==
  ASSUME AccountInv, NEW b \in Browser, call[b].at = "answer",
         NEW g \in PageGate, gate' = [gate EXCEPT ![b] = g],
         NEW k \in Nat, k \in 0..Len(sessions), cookie' = [cookie EXCEPT ![b] = k],
         call' = [call EXCEPT ![b] = U!Idle], PageFits(g, k, U!Idle),
         closed' \subseteq 1..Len(sessions), \A s \in closed' : ~sessions[s],
         seeded' \in BOOLEAN, seeded' => seeded \/ workspace = Seeds,
         UNCHANGED <<password, sessions, workspace, tries, mishaps>>
  PROVE  AccountInv'
  <1>1. AccountTypes
    BY DEF AccountInv
  <1>2. PICK dl \in AccountCall : dl = U!Idle /\ dl.at = "idle"
    BY NoCall
  <1>3. /\ \A c \in Browser : call'[c] = IF c = b THEN dl ELSE call[c]
        /\ \A c \in Browser : gate'[c] = IF c = b THEN g ELSE gate[c]
        /\ \A c \in Browser : cookie'[c] = IF c = b THEN k ELSE cookie[c]
    BY <1>1, <1>2 DEF AccountTypes
  <1>4. AccountTypes'
    <2>1. call' \in [Browser -> AccountCall] /\ gate' \in [Browser -> PageGate] /\ cookie' \in [Browser -> Nat]
      BY <1>1, <1>2 DEF AccountTypes
    <2>2. \A c \in Browser : cookie'[c] \in 0..Len(sessions)
      BY <1>1, <1>3 DEF AccountTypes
    <2> QED BY <1>1, <2>1, <2>2 DEF AccountTypes
  <1>5. SessionsGoOn /\ \A j : U!Active(j)' <=> U!Active(j)
    BY <1>1, SessionsSame
  <1>6. ASSUME NEW c \in Browser
        PROVE  PageFits(gate[c], cookie[c], call[c])'
    <2>1. PICK h, j, el : h = gate'[c] /\ j = cookie'[c] /\ el = call'[c]
      OBVIOUS
    <2>2. PageFits(h, j, el)
      <3>1. CASE c = b
        BY <1>2, <1>3, <2>1, <3>1
      <3>2. CASE c # b
        BY <1>3, <2>1, <3>2 DEF AccountInv, Pages
      <3> QED BY <3>1, <3>2
    <2>3. PageFits(h, j, el)'
      BY <1>5, <2>2, PageStill
    <2> QED BY <2>1, <2>3 DEF PageFits, Right
  <1>7. \A c \in Browser : call'[c] = call[c] \/ CallFits(call[c])'
    BY <1>2, <1>3 DEF CallFits
  <1>8. \A c \in Browser : call'[c].at = "seed" <=> Seeding(c)
    BY <1>2, <1>3 DEF Seeding
  <1>9. mishaps <= mishaps'
    BY CountsAre
  <1> QED BY <1>4, <1>5, <1>6, <1>7, <1>8, <1>9, AccountGoesOn

\* A query asked anew, or doubted, says nothing until it is answered.
LEMMA InvalidatedQuery ==
  ASSUME NEW q \in PageQuery, NEW sid \in Nat, q.status = "error" => q.doubtful
  PROVE  /\ U!Invalidated(q, sid) \in PageQuery
         /\ U!Invalidated(q, sid).fetch.at # "idle"
         /\ U!Invalidated(q, sid).fetch.at = "asked" /\ ~U!Invalidated(q, sid).fetch.doubtful =>
              U!Invalidated(q, sid).fetch.sid = sid
         /\ U!Invalidated(q, sid).fetch.at = "answered" => U!Invalidated(q, sid).fetch.doubtful
         /\ U!Invalidated(q, sid).status = "error" => U!Invalidated(q, sid).doubtful
  <1>1. PICK r : r = U!Invalidated(q, sid)
    OBVIOUS
  <1>2. CASE q.fetch.at = "idle" \/ q.data
    <2>1. r = U!Fetching(q, sid)
      BY <1>1, <1>2 DEF U!Invalidated
    <2>2. /\ r \in PageQuery /\ r.fetch = [at |-> "asked", sid |-> sid, doubtful |-> FALSE]
          /\ r.status = "error" => q.status = "error"
          /\ r.doubtful = q.doubtful
      BY <2>1, FetchingQuery
    <2>3. r.fetch.at = "asked" /\ r.fetch.sid = sid
      BY <2>2
    <2> QED BY <1>1, <2>2, <2>3
  <1>3. CASE ~(q.fetch.at = "idle" \/ q.data)
    <2>1. r = U!Doubted(q)
      BY <1>1, <1>3 DEF U!Invalidated
    <2>2. r \in PageQuery /\ r.doubtful /\ r.fetch.at # "idle" /\ r.fetch.doubtful
      BY <1>3, <2>1, DoubtedQuery
    <2> QED BY <1>1, <2>2
  <1> QED BY <1>2, <1>3

\* The answer of a call under way.
LEMMA AnswerShape ==
  ASSUME AccountInv, NEW b \in Browser, U!Answered(b)
  PROVE  /\ call[b].at = "answer" /\ call' = [call EXCEPT ![b] = U!Idle]
         /\ call[b] \in AccountCall /\ call[b].kind \in CallKind /\ call[b].sid \in Nat
         /\ CallFits(call[b]) /\ gate[b] \in PageGate /\ PageFits(gate[b], cookie[b], call[b])
         /\ cookie[b] \in Nat /\ cookie[b] \in 0..Len(sessions)
         /\ U!Idle.at = "idle"
         /\ closed \subseteq 1..Len(sessions) /\ seeded \in BOOLEAN /\ \A s \in closed : ~sessions[s]
  <1>1. /\ call[b] \in AccountCall /\ gate[b] \in PageGate /\ cookie[b] \in Nat /\ cookie[b] \in 0..Len(sessions)
        /\ closed \subseteq 1..Len(sessions) /\ seeded \in BOOLEAN
    BY DEF AccountInv, AccountTypes
  <1>2. call[b].at = "answer" /\ call' = [call EXCEPT ![b] = U!Idle]
    BY DEF U!Answered
  <1>3. CallFits(call[b]) /\ PageFits(gate[b], cookie[b], call[b]) /\ \A s \in closed : ~sessions[s]
    BY DEF AccountInv, Calls, Pages, U!FoundSessionsEnded
  <1> QED BY <1>1, <1>2, <1>3, CallShape, NoCall

LEMMA AnswerLoginStep ==
  ASSUME AccountInv, NEW b \in Browser, U!AnswerLogin(b)
  PROVE  AccountInv'
  <1>1. U!Answered(b) /\ call[b].kind = "login"
    BY DEF U!AnswerLogin
  <1>2. PICK g, k, cl : g = gate[b] /\ cl = call[b] /\ k = cl.sid
    OBVIOUS
  <1>3. cl.at = "answer" /\ CallFits(cl) /\ g \in PageGate /\ PageFits(g, cookie[b], cl) /\ k \in Nat
    BY <1>1, <1>2, AnswerShape
  <1>4. PICK n \in Nat : n = Len(sessions)
    BY CountsAre
  <1>5. k \in 1..n
    BY <1>1, <1>2, <1>3, <1>4 DEF CallFits
  <1>6. k \in 0..Len(sessions)
    BY <1>4, <1>5
  <1>7. PICK q : q = U!Invalidated(g.query, k)
    OBVIOUS
  <1>8. g.query.status = "error" => g.query.doubtful
    BY <1>3 DEF PageFits
  <1>9. /\ q \in PageQuery /\ q.fetch.at # "idle"
        /\ q.fetch.at = "asked" /\ ~q.fetch.doubtful => q.fetch.sid = k
        /\ q.fetch.at = "answered" => q.fetch.doubtful
        /\ q.status = "error" => q.doubtful
    BY <1>3, <1>7, <1>8, PageShape, InvalidatedQuery
  <1>10. PICK h : h = [loggedOut |-> FALSE, query |-> q]
    OBVIOUS
  <1>11. h \in PageGate /\ h.query = q /\ ~h.loggedOut
    BY <1>9, <1>10 DEF PageGate
  <1>12. PageFits(h, k, U!Idle)
    BY <1>9, <1>11 DEF PageFits
  <1>13. gate' = [gate EXCEPT ![b] = h] /\ cookie' = [cookie EXCEPT ![b] = k]
    BY <1>2, <1>7, <1>10 DEF U!AnswerLogin
  <1> QED BY <1>1, <1>3, <1>6, <1>11, <1>12, <1>13, AnswerShape, AnswerActs DEF U!AnswerLogin

LEMMA AnswerLogoutStep ==
  ASSUME AccountInv, NEW b \in Browser, U!AnswerLogout(b)
  PROVE  AccountInv'
  <1>1. U!Answered(b)
    BY DEF U!AnswerLogout
  <1>2. PICK n \in Nat : n = Len(sessions)
    BY CountsAre
  <1>3. 0 \in Nat /\ 0 \in 0..Len(sessions)
    BY <1>2
  <1>4. PICK f : f = [at |-> "asked", sid |-> 0, doubtful |-> FALSE]
    OBVIOUS
  <1>5. f \in PageFetch /\ f.at = "asked" /\ f.sid = 0
    BY <1>4 DEF PageFetch
  <1>6. PICK q : q = [status |-> "pending", data |-> FALSE, listed |-> FALSE, doubtful |-> FALSE, fetch |-> f]
    OBVIOUS
  <1>7. q \in PageQuery /\ q.fetch = f /\ q.status = "pending"
    BY <1>5, <1>6 DEF PageQuery
  <1>8. PICK h : h = [query |-> q, loggedOut |-> TRUE]
    OBVIOUS
  <1>9. h \in PageGate /\ h.query = q
    BY <1>7, <1>8 DEF PageGate
  <1>10. PageFits(h, 0, U!Idle)
    BY <1>5, <1>7, <1>9, NoCall DEF PageFits
  <1>11. gate' = [gate EXCEPT ![b] = h] /\ cookie' = [cookie EXCEPT ![b] = 0]
    BY <1>4, <1>6, <1>8 DEF U!AnswerLogout, U!NewGate, U!NewQuery, U!None
  <1> QED BY <1>1, <1>3, <1>9, <1>10, <1>11, AnswerShape, AnswerActs DEF U!AnswerLogout

LEMMA AnswerChangeStep ==
  ASSUME AccountInv, NEW b \in Browser, U!AnswerChange(b)
  PROVE  AccountInv'
  <1>1. U!Answered(b) /\ (call[b].kind = "change password" \/ call[b].kind = "refresh")
    BY DEF U!AnswerChange
  <1>2. PICK g, k, cl : g = gate[b] /\ cl = call[b] /\ k = cl.sid
    OBVIOUS
  <1>3. /\ cl.at = "answer" /\ cl.at # "idle" /\ CallFits(cl) /\ g \in PageGate /\ PageFits(g, cookie[b], cl)
        /\ k \in Nat /\ closed \subseteq 1..Len(sessions) /\ \A s \in closed : ~sessions[s]
    BY <1>1, <1>2, AnswerShape
  <1>4. PICK n \in Nat : n = Len(sessions)
    BY CountsAre
  <1>5. k \in 1..n
    BY <1>1, <1>2, <1>3, <1>4 DEF CallFits
  <1>6. k \in 0..Len(sessions) /\ k # 0
    BY <1>4, <1>5
  <1>7. g.query \in PageQuery
    BY <1>3, PageShape
  <1>8. PICK p : p = U!Doubted(g.query)
    OBVIOUS
  <1>9. /\ p \in PageQuery /\ p.status = g.query.status /\ p.listed = g.query.listed
        /\ p.fetch.at = g.query.fetch.at /\ (p.fetch.at # "idle" => p.fetch.doubtful)
    BY <1>7, <1>8, DoubtedQuery
  <1>10. PICK d \in BOOLEAN : d <=> g.query.doubtful \/ g.query.status = "unauthorized" \/ ~sessions[k]
    <2>1. \E d \in BOOLEAN : d = (g.query.doubtful \/ g.query.status = "unauthorized" \/ ~sessions[k])
      OBVIOUS
    <2> QED BY <2>1
  <1>11. d = (g.query.doubtful \/ g.query.status = "unauthorized" \/ ~sessions[k])
    BY <1>10
  <1>12. PICK q : q = [p EXCEPT !.doubtful = d]
    OBVIOUS
  <1>13. /\ q \in PageQuery /\ q.status = g.query.status /\ q.listed = g.query.listed /\ q.fetch = p.fetch
         /\ q.doubtful = d
    BY <1>9, <1>12 DEF PageQuery
  <1>14. PICK h \in PageGate : h = Querying(g, q) /\ h.query = q /\ h.loggedOut = g.loggedOut
    BY <1>3, <1>13, GateOf
  <1>15. ~g.loggedOut /\ ~ListStale(cl)
    BY <1>1, <1>2, <1>3 DEF PageFits, ListStale, Under
  <1>16. q.fetch.at = "idle" /\ ~d => Right(q.status, q.listed, k, U!Idle)
    <2>1. SUFFICES ASSUME g.query.fetch.at = "idle", ~d
                   PROVE  Right(q.status, q.listed, k, U!Idle)
      BY <1>9, <1>13
    <2>2. ~g.query.doubtful /\ g.query.status # "unauthorized" /\ sessions[k]
      BY <1>10, <2>1
    <2>3. g.query.status \notin {"pending", "error"}
      BY <1>3, <2>1, <2>2 DEF PageFits
    <2>4. g.query.status = "success"
      BY <1>3, <2>2, <2>3, PageShape
    <2>5. g.query.listed <=> workspace # U!NoWorkspace
      BY <1>3, <1>15, <2>1, <2>2, <2>4 DEF PageFits, Right
    <2>6. U!Active(k)
      BY <1>6, <2>2 DEF U!Active, U!None
    <2> QED BY <1>13, <2>4, <2>5, <2>6 DEF Right
  <1>17. PageFits(h, k, U!Idle)
    <2>1. q.status = "error" => q.doubtful
      BY <1>3, <1>10, <1>13 DEF PageFits
    <2>2. q.fetch.at = "idle" => q.status # "pending"
      BY <1>3, <1>9, <1>13 DEF PageFits
    <2>3. q.fetch.at # "idle" => q.fetch.doubtful
      BY <1>9, <1>13
    <2> QED BY <1>13, <1>14, <1>15, <1>16, <2>1, <2>2, <2>3 DEF PageFits
  <1>18. gate' = [gate EXCEPT ![b] = h] /\ cookie' = [cookie EXCEPT ![b] = k]
    BY <1>2, <1>8, <1>11, <1>12, <1>14 DEF U!AnswerChange, U!SetQuery, Querying
  <1>19. cl.found \subseteq 1..Len(sessions) /\ (cl.kind = "change password" => \A s \in cl.found : ~sessions[s])
    BY <1>3 DEF CallFits
  <1>20. closed' \subseteq 1..Len(sessions) /\ \A s \in closed' : ~sessions[s]
    BY <1>1, <1>2, <1>3, <1>19 DEF U!AnswerChange
  <1>21. seeded' \in BOOLEAN /\ (seeded' => seeded \/ workspace = Seeds)
    BY <1>1, AnswerShape DEF U!AnswerChange
  <1> QED BY <1>1, <1>2, <1>3, <1>6, <1>14, <1>17, <1>18, <1>20, <1>21, AnswerShape, AnswerActs DEF U!AnswerChange

LEMMA AnswerWorkspaceStep ==
  ASSUME AccountInv, NEW b \in Browser, U!AnswerWorkspace(b)
  PROVE  AccountInv'
  <1>1. U!Answered(b) /\ call[b].kind = "create workspace"
    BY DEF U!AnswerWorkspace
  <1>2. PICK g, k, cl : g = gate[b] /\ cl = call[b] /\ k = cookie[b]
    OBVIOUS
  <1>3. /\ cl.at = "answer" /\ cl.at # "idle" /\ CallFits(cl) /\ g \in PageGate /\ PageFits(g, k, cl)
        /\ k \in Nat /\ k \in 0..Len(sessions)
    BY <1>1, <1>2, AnswerShape
  <1>4. PICK q : q = U!Invalidated(g.query, k)
    OBVIOUS
  <1>5. (g.query.status = "error" => g.query.doubtful) /\ ~g.loggedOut
    BY <1>1, <1>2, <1>3 DEF PageFits
  <1>6. /\ q \in PageQuery /\ q.fetch.at # "idle"
        /\ q.fetch.at = "asked" /\ ~q.fetch.doubtful => q.fetch.sid = k
        /\ q.fetch.at = "answered" => q.fetch.doubtful
        /\ q.status = "error" => q.doubtful
    BY <1>3, <1>4, <1>5, PageShape, InvalidatedQuery
  <1>7. PICK h \in PageGate : h = Querying(g, q) /\ h.query = q /\ h.loggedOut = g.loggedOut
    BY <1>3, <1>6, GateOf
  <1>8. PageFits(h, k, U!Idle)
    BY <1>5, <1>6, <1>7 DEF PageFits
  <1>9. gate' = [gate EXCEPT ![b] = h]
    BY <1>2, <1>4, <1>7 DEF U!AnswerWorkspace, U!SetQuery, Querying
  <1>10. cookie' = [cookie EXCEPT ![b] = k]
    BY <1>2 DEF AccountInv, AccountTypes, U!AnswerWorkspace
  <1>11. workspace = Seeds
    BY <1>1, <1>2, <1>3 DEF CallFits
  <1> QED BY <1>1, <1>2, <1>3, <1>7, <1>8, <1>9, <1>10, <1>11, AnswerShape, AnswerActs DEF U!AnswerWorkspace

-------------------------------------------------------------------------------
\* Every state, and what it says.

LEMMA AccountInit ==
  ASSUME U!Init, Seeds \in Nat \ {0}
  PROVE  AccountInv
  <1>1. PICK f : f = [at |-> "asked", sid |-> 0, doubtful |-> FALSE]
    OBVIOUS
  <1>2. f \in PageFetch /\ f.at = "asked" /\ f.sid = 0
    BY <1>1 DEF PageFetch
  <1>3. PICK q : q = [status |-> "pending", data |-> FALSE, listed |-> FALSE, doubtful |-> FALSE, fetch |-> f]
    OBVIOUS
  <1>4. q \in PageQuery /\ q.fetch = f /\ q.status = "pending"
    BY <1>2, <1>3 DEF PageQuery
  <1>5. PICK h : h = [query |-> q, loggedOut |-> FALSE]
    OBVIOUS
  <1>6. h \in PageGate /\ h.query = q /\ ~h.loggedOut
    BY <1>4, <1>5 DEF PageGate
  <1>7. PICK dl \in AccountCall : dl = U!Idle /\ dl.at = "idle"
    BY NoCall
  <1>8. /\ gate = [b \in Browser |-> h] /\ call = [b \in Browser |-> dl] /\ cookie = [b \in Browser |-> 0]
    BY <1>1, <1>3, <1>5, <1>7 DEF U!Init, U!NewGate, U!NewQuery, U!None
  <1>9. workspace \in {-1, Seeds} /\ -1 \in -1..Seeds /\ Seeds \in -1..Seeds /\ -1 \notin 0..Seeds - 1 /\ Seeds \notin 0..Seeds - 1
    BY DEF U!Init, U!NoWorkspace
  <1>10. /\ sessions \in Seq(BOOLEAN) /\ Len(sessions) = 0 /\ password = 0 /\ tries = 0 /\ mishaps = 0
         /\ closed = {} /\ seeded = FALSE
    BY DEF U!Init
  <1>11. AccountTypes
    <2>1. \A b \in Browser : cookie[b] \in 0..Len(sessions)
      BY <1>8, <1>10
    <2>2. workspace \in -1..Seeds
      BY <1>9
    <2>3. /\ cookie \in [Browser -> Nat] /\ call \in [Browser -> AccountCall]
          /\ gate \in [Browser -> PageGate]
      BY <1>6, <1>7, <1>8
    <2> QED BY <1>10, <2>1, <2>2, <2>3 DEF AccountTypes
  <1>12. PageFits(h, 0, dl)
    BY <1>2, <1>4, <1>6 DEF PageFits
  <1>13. Pages
    BY <1>8, <1>12 DEF Pages
  <1>14. Calls
    BY <1>7, <1>8 DEF Calls, CallFits
  <1>15. Seeded
    BY <1>7, <1>8, <1>9, <1>10 DEF Seeded, Seeding
  <1> QED BY <1>10, <1>11, <1>13, <1>14, <1>15 DEF AccountInv, U!FoundSessionsEnded

LEMMA AccountStep ==
  ASSUME AccountInv, Seeds \in Nat \ {0}, [U!Next]_(U!vars)
  PROVE  AccountInv'
  <1>1. CASE UNCHANGED U!vars
    BY <1>1 DEF U!vars, AccountInv, AccountTypes, Pages, PageFits, Right, Calls, CallFits, Seeded, Seeding,
                U!FoundSessionsEnded, U!Active
  <1>2. CASE U!Next
    <2>1. ASSUME NEW b \in Browser, U!AnswerFetch(b) \/ U!ShowFetched(b) \/ U!FailFetch(b) \/ U!Refetch(b)
          PROVE  AccountInv'
      BY <2>1, AnswerFetchStep, ShowFetchedStep, FailFetchStep, RefetchStep
    <2>2. ASSUME NEW b \in Browser,
                 U!Start(b) \/ U!Guard(b) \/ U!FindUser(b) \/ U!UpdatePassword(b) \/ U!RevokeAll(b) \/ U!Revoke(b)
          PROVE  AccountInv'
      BY <2>2, StartStep, GuardStep, FindUserStep, UpdatePasswordStep, RevokeAllStep, RevokeStep
    <2>3. ASSUME NEW b \in Browser,
                 U!CreateSession(b) \/ U!InsertWorkspace(b) \/ U!SeedField(b) \/ U!Fail(b)
          PROVE  AccountInv'
      BY <2>3, CreateSessionStep, InsertWorkspaceStep, SeedFieldStep, FailStep
    <2>4. ASSUME NEW b \in Browser, U!Answer(b)
          PROVE  AccountInv'
      BY <2>4, AnswerLoginStep, AnswerLogoutStep, AnswerChangeStep, AnswerWorkspaceStep DEF U!Answer
    <2>5. ASSUME NEW s, U!Expire(s)
          PROVE  AccountInv'
      BY <2>5, ExpireStep
    <2> QED BY <1>2, <2>1, <2>2, <2>3, <2>4, <2>5 DEF U!Next
  <1> QED BY <1>1, <1>2

LEMMA AccountImplies ==
  ASSUME AccountInv
  PROVE  U!FoundSessionsEnded /\ U!PageIsTrue /\ U!SeededUnlessFailed
  <1>1. U!PageIsTrue
    <2>1. SUFFICES ASSUME NEW b \in Browser, call[b] = U!Idle, gate[b].query.fetch.at = "idle",
                          ~gate[b].query.doubtful
                   PROVE  U!Screen(b) = IF ~U!Active(cookie[b]) THEN "login"
                                        ELSE IF workspace = U!NoWorkspace THEN "first workspace"
                                        ELSE "workspace"
      BY DEF U!PageIsTrue
    <2>2. PICK g, k, cl : g \in PageGate /\ g = gate[b] /\ k = cookie[b] /\ cl = call[b]
      BY DEF AccountInv, AccountTypes
    <2>3. PageFits(g, k, cl) /\ cl.at = "idle"
      BY <2>1, <2>2, NoCall DEF AccountInv, Pages
    <2>4. ~SessionStale(cl) /\ ~ListStale(cl)
      BY <2>3 DEF SessionStale, ListStale, Under
    <2>5. Right(g.query.status, g.query.listed, k, cl)
      BY <2>1, <2>2, <2>3 DEF PageFits
    <2>6. /\ g.query.status = "success" <=> U!Active(k)
          /\ g.query.status = "success" => (g.query.listed <=> workspace # U!NoWorkspace)
      BY <2>4, <2>5 DEF Right
    <2>7. g.loggedOut => ~U!Active(k)
      BY <2>3 DEF PageFits, U!Active, U!None
    <2>8. g.query.status \in {"success", "unauthorized"}
      BY <2>1, <2>2, <2>3, PageShape DEF PageFits
    <2> QED BY <2>2, <2>6, <2>7, <2>8 DEF U!Screen
  <1>2. U!SeededUnlessFailed
    <2>1. workspace \in 0..Seeds - 1 => workspace # Seeds
      BY DEF AccountInv, AccountTypes
    <2> QED BY <2>1 DEF AccountInv, Seeded, Seeding, U!SeededUnlessFailed
  <1> QED BY <1>1, <1>2 DEF AccountInv

LEMMA AccountAlways ==
  ASSUME Seeds \in Nat \ {0}
  PROVE  U!Spec => []AccountInv
  <1>1. U!Init => AccountInv
    BY AccountInit
  <1>2. AccountInv /\ [U!Next]_(U!vars) => AccountInv'
    BY AccountStep
  <1> QED BY <1>1, <1>2, PTL DEF U!Spec

\* A password that was changed with success leaves none of the sessions it found:
\* those that were begun before the change was asked for end with it, whatever the
\* other browser does meanwhile.
THEOREM ChangedPasswordEnds ==
  ASSUME Seeds \in Nat \ {0}
  PROVE  U!Spec => []U!FoundSessionsEnded
  BY AccountAlways, AccountImplies, PTL

\* A page whose calls and reloads are all answered, and that nothing elsewhere has
\* outdated, shows what the account is: the login without a session, the workspace
\* if there is one.
THEOREM PageTellsTheTruth ==
  ASSUME Seeds \in Nat \ {0}
  PROVE  U!Spec => []U!PageIsTrue
  BY AccountAlways, AccountImplies, PTL

\* A workspace without all of its fields is being created, or its creation failed
\* and was not answered.
THEOREM WorkspaceHasItsFields ==
  ASSUME Seeds \in Nat \ {0}
  PROVE  U!Spec => []U!SeededUnlessFailed
  BY AccountAlways, AccountImplies, PTL

-------------------------------------------------------------------------------
\* Records: the event-sourced services that append and catch up alike.

VARIABLES kind, seen, answered

C == INSTANCE RecordCommands

Entry == [type : {"Created", "Updated", "Closed"}, record : Nat]

ReadRequest == [at : {"read"}, type : {"Updated", "Closed"}, record : Nat, seen : Nat]
AppendRequest ==
  [at : {"append"}, type : {"Created", "Updated", "Closed"}, record : Nat, version : Nat, seen : Nat]
RecordRequest ==
  [at : {"idle"}] \union ReadRequest \union AppendRequest \union [at : {"catch up"}, event : Nat]

RecordTypes ==
  /\ kind \in C!Services
  /\ log \in Seq(Entry)
  /\ seen \in Seq(Nat) /\ Len(seen) = Len(log)
  /\ shown \in 0..Len(log)
  /\ answered \subseteq 1..shown
  /\ request \in [Caller -> RecordRequest]

\* A record's first event is its creation, whose index it has for an id; where a
\* key determines the stream there are no creations.
FirstIsCreated ==
  \A i \in 1..Len(log) :
    IF kind.keyed THEN log[i].record = 0 /\ log[i].type \in {"Updated", "Closed"}
                  ELSE log[i].record \in 1..i /\ (log[i].type = "Created" <=> log[i].record = i)

\* Whatever had a name when it was given again was seen to be closed.
NameIsFree(n) == kind.unique => \A r \in 1..n : log[r].type = "Created" => C!Closed(r, n)

Changing(q) == q.at = "read" \/ (q.at = "append" /\ q.type # "Created")

\* What a request still knows.
RecordKnown(q) ==
  /\ q.at \in {"read", "append"} => q.seen \in 0..shown
  /\ q.at = "append" /\ q.type = "Created" => ~kind.keyed /\ NameIsFree(q.seen)
  /\ Changing(q) =>
       /\ q.type \in {"Updated", "Closed"}
       /\ kind.keyed => q.record = 0
       /\ ~kind.keyed => q.record \in 1..Len(log)
       /\ kind.find = "current" => ~C!Closed(q.record, q.seen)
  /\ q.at = "append" /\ q.type # "Created" =>
       /\ q.version <= Cardinality(C!Stream(q.record))
       /\ kind.replay /\ q.version = Cardinality(C!Stream(q.record)) => ~C!Closed(q.record, Len(log))
  /\ q.at = "catch up" => q.event \in 1..Len(log)

RecordsKnown == \A c \in Caller : RecordKnown(request[c])

NamesWereFree ==
  \A s \in 1..Len(log) : seen[s] \in 0..shown /\ (log[s].type = "Created" => NameIsFree(seen[s]))

RecordInv ==
  /\ RecordTypes /\ FirstIsCreated /\ RecordsKnown /\ NamesWereFree
  /\ C!NothingAfterClosed

-------------------------------------------------------------------------------
\* The services, and their streams.

KindFits(k) ==
  /\ k.keyed \in BOOLEAN
  /\ k.keyed <=> k.find = "key"
  /\ k.keyed => ~k.replay /\ ~k.unique
  /\ k.find \in {"key", "current", "any"}
  /\ k.changes \subseteq {"Updated", "Closed"}

LEMMA KindFacts ==
  ASSUME NEW k \in C!Services
  PROVE  KindFits(k)
  <1>1. KindFits(C!AutomationTriggers)
    BY DEF KindFits, C!AutomationTriggers, C!Asks, C!Changes
  <1>2. KindFits(C!SavedViews)
    BY DEF KindFits, C!SavedViews, C!Asks, C!Changes
  <1>3. KindFits(C!MemoryRecords)
    BY DEF KindFits, C!MemoryRecords, C!Asks, C!Changes
  <1>4. KindFits(C!AgentDirectory)
    BY DEF KindFits, C!AgentDirectory, C!Asks, C!Changes
  <1>5. KindFits(C!AgentPermissionManifests)
    BY DEF KindFits, C!AgentPermissionManifests, C!Asks, C!Changes
  <1>6. KindFits(C!MemoryAccessPolicies)
    BY DEF KindFits, C!MemoryAccessPolicies, C!Asks, C!Changes
  <1>7. KindFits(C!AutonomyTierSettings)
    BY DEF KindFits, C!AutonomyTierSettings, C!Asks, C!Changes
  <1>8. KindFits(C!NotificationPreferences)
    BY DEF KindFits, C!NotificationPreferences, C!Asks, C!Changes
  <1>9. KindFits(C!UserAvailability)
    BY DEF KindFits, C!UserAvailability, C!Asks, C!Changes
  <1>10. KindFits(C!ObjectComments)
    BY DEF KindFits, C!ObjectComments, C!Asks, C!Changes
  <1> QED BY <1>1, <1>2, <1>3, <1>4, <1>5, <1>6, <1>7, <1>8, <1>9, <1>10 DEF C!Services

LEMMA StreamFinite ==
  ASSUME log \in Seq(Entry), NEW r
  PROVE  /\ C!Stream(r) \in SUBSET (1..Len(log))
         /\ IsFiniteSet(C!Stream(r)) /\ Cardinality(C!Stream(r)) \in Nat
         /\ C!Cardinality(C!Stream(r)) = Cardinality(C!Stream(r))
  <1>1. C!Stream(r) \in SUBSET (1..Len(log)) /\ Len(log) \in Nat
    BY DEF C!Stream
  <1>2. IsFiniteSet(1..Len(log))
    BY <1>1, FS_Interval
  <1>3. IsFiniteSet(C!Stream(r))
    BY <1>1, <1>2, FS_Subset
  <1>4. Cardinality(C!Stream(r)) \in Nat
    BY <1>3, FS_CardinalityType
  <1>5. C!Cardinality(C!Stream(r)) = Cardinality(C!Stream(r))
    BY DEF C!Cardinality, Cardinality
  <1> QED BY <1>1, <1>3, <1>4, <1>5

\* An event more, and what it adds to its own stream and to no other.
Logged(e) == log' = Append(log, e)
EntryAdded == log' = log \/ \E e \in Entry : Logged(e)

LEMMA EntryFacts ==
  ASSUME log \in Seq(Entry), NEW e \in Entry, Logged(e)
  PROVE  /\ log' \in Seq(Entry) /\ Len(log) \in Nat /\ Len(log') = Len(log) + 1
         /\ log'[Len(log) + 1] = e /\ \A i \in 1..Len(log) : log'[i] = log[i]
  BY DEF Logged

LEMMA StreamsAfter ==
  ASSUME log \in Seq(Entry), NEW e \in Entry, Logged(e), NEW r
  PROVE  /\ e.record # r => C!Stream(r)' = C!Stream(r)
         /\ e.record = r => /\ C!Stream(r)' = C!Stream(r) \union {Len(log) + 1}
                            /\ Len(log) + 1 \notin C!Stream(r)
  <1>1. PICK t, n : t = log' /\ n = Len(log)
    OBVIOUS
  <1>2. /\ t \in Seq(Entry) /\ n \in Nat /\ Len(t) = n + 1 /\ t[n + 1] = e
        /\ \A i \in 1..n : t[i] = log[i]
    BY <1>1, EntryFacts
  <1>3. C!Stream(r)' = {i \in 1..n + 1 : t[i].record = r} /\ C!Stream(r) = {i \in 1..n : log[i].record = r}
    BY <1>1, <1>2 DEF C!Stream
  <1> QED BY <1>1, <1>2, <1>3

LEMMA ClosedStill ==
  ASSUME log \in Seq(Entry), EntryAdded, NEW r, NEW n \in 0..Len(log)
  PROVE  C!Closed(r, n)' <=> C!Closed(r, n)
  <1>1. CASE log' = log
    BY <1>1 DEF C!Closed, C!Stream, C!Is
  <1>2. ASSUME NEW e \in Entry, Logged(e)
        PROVE  C!Closed(r, n)' <=> C!Closed(r, n)
    <2>1. PICK t, m : t = log' /\ m = Len(log)
      OBVIOUS
    <2>2. /\ t \in Seq(Entry) /\ m \in Nat /\ Len(t) = m + 1
          /\ \A i \in 1..m : t[i] = log[i]
      BY <1>2, <2>1, EntryFacts
    <2>3. C!Closed(r, n)' <=> \E i \in 1..n : t[i].record = r /\ t[i].type = "Closed"
      BY <2>1, <2>2 DEF C!Closed, C!Stream, C!Is
    <2>4. C!Closed(r, n) <=> \E i \in 1..n : log[i].record = r /\ log[i].type = "Closed"
      BY <2>1, <2>2 DEF C!Closed, C!Stream, C!Is
    <2> QED BY <2>1, <2>2, <2>3, <2>4
  <1> QED BY <1>1, <1>2 DEF EntryAdded

LEMMA ClosedAfter ==
  ASSUME log \in Seq(Entry), NEW e \in Entry, Logged(e), NEW r, e.record # r, ~C!Closed(r, Len(log))
  PROVE  ~C!Closed(r, Len(log))'
  <1>1. C!Stream(r)' = C!Stream(r)
    BY StreamsAfter
  <1>2. C!Stream(r) \in SUBSET (1..Len(log))
    BY StreamFinite
  <1>3. \A i \in 1..Len(log) : log'[i] = log[i]
    BY EntryFacts
  <1> QED BY <1>1, <1>2, <1>3 DEF C!Closed, C!Is

LEMMA ClosedMore ==
  ASSUME NEW r, NEW n \in Nat, NEW m \in Nat, n <= m, log \in Seq(Entry), C!Closed(r, n)
  PROVE  C!Closed(r, m)
  BY DEF C!Closed, C!Stream

-------------------------------------------------------------------------------
\* What a request knows stays true.

LEMMA RecordShape ==
  ASSUME NEW q \in RecordRequest
  PROVE  /\ q.at \in {"idle", "read", "append", "catch up"}
         /\ q.at = "read" => q.type \in {"Updated", "Closed"} /\ q.record \in Nat /\ q.seen \in Nat
         /\ q.at = "append" => /\ q.type \in {"Created", "Updated", "Closed"} /\ q.record \in Nat
                               /\ q.version \in Nat /\ q.seen \in Nat
         /\ q.at = "catch up" => q.event \in Nat
  BY DEF RecordRequest, ReadRequest, AppendRequest

\* A step of some request: at most one event more, and the read model goes on.
RecordsGoOn ==
  /\ RecordTypes /\ RecordTypes' /\ kind' = kind
  /\ EntryAdded /\ shown <= shown'

LEMMA Lengths ==
  ASSUME RecordsGoOn
  PROVE  /\ Len(log) \in Nat /\ Len(log') \in Nat /\ Len(log) <= Len(log')
         /\ shown \in 0..Len(log) /\ shown' \in 0..Len(log')
         /\ \A i \in 1..Len(log) : log'[i] = log[i]
  <1>1. CASE log' = log
    BY <1>1 DEF RecordsGoOn, RecordTypes
  <1>2. ASSUME NEW e \in Entry, Logged(e)
        PROVE  Len(log) <= Len(log') /\ \A i \in 1..Len(log) : log'[i] = log[i]
    BY <1>2, EntryFacts DEF RecordsGoOn, RecordTypes
  <1> QED BY <1>1, <1>2 DEF RecordsGoOn, RecordTypes, EntryAdded

LEMMA NameStill ==
  ASSUME RecordsGoOn, NEW n \in 0..Len(log)
  PROVE  NameIsFree(n)' <=> NameIsFree(n)
  <1>1. \A r \in 1..n : C!Closed(r, n)' <=> C!Closed(r, n)
    BY ClosedStill DEF RecordsGoOn, RecordTypes
  <1>2. \A r \in 1..n : log'[r] = log[r]
    BY Lengths
  <1> QED BY <1>1, <1>2 DEF NameIsFree, RecordsGoOn

LEMMA Farther ==
  ASSUME NEW a \in Nat, NEW b \in Nat, a <= b
  PROVE  \A x : (x \in 0..a => x \in 0..b) /\ (x \in 1..a => x \in 1..b)
  OBVIOUS

LEMMA RecordStill ==
  ASSUME RecordsGoOn, NEW q \in RecordRequest, RecordKnown(q)
  PROVE  RecordKnown(q)'
  <1>1. /\ log \in Seq(Entry) /\ Len(log) \in Nat /\ Len(log') \in Nat /\ Len(log) <= Len(log')
        /\ shown \in 0..Len(log) /\ shown' \in 0..Len(log') /\ shown <= shown' /\ kind' = kind
    BY Lengths DEF RecordsGoOn, RecordTypes
  <1>2. \A x : /\ x \in 0..shown => x \in 0..shown' /\ x \in 0..Len(log)
              /\ x \in 1..Len(log) => x \in 1..Len(log')
    <2>1. PICK a \in Nat, b \in Nat, m \in Nat, n \in Nat :
            a = shown /\ b = shown' /\ m = Len(log) /\ n = Len(log')
      BY <1>1
    <2>2. a <= b /\ a <= m /\ m <= n
      BY <1>1, <2>1
    <2> QED BY <2>1, <2>2, Farther
  <1>8. q.at \in {"read", "append"} => q.seen \in 0..shown' /\ q.seen \in 0..Len(log)
    <2>1. SUFFICES ASSUME q.at \in {"read", "append"}
                   PROVE  q.seen \in 0..shown' /\ q.seen \in 0..Len(log)
      OBVIOUS
    <2>2. PICK k \in Nat : k = q.seen
      BY <2>1, RecordShape
    <2>3. q.seen \in 0..shown
      BY <2>1 DEF RecordKnown
    <2>4. k \in 0..shown
      BY <1>2, <2>2, <2>3
    <2>5. k \in 0..shown' /\ k \in 0..Len(log)
      BY <1>1, <1>2, <2>4
    <2> QED BY <2>2, <2>5
  <1>3. q.at \in {"read", "append"} => q.seen \in 0..shown'
    BY <1>8
  <1>4. q.at = "append" /\ q.type = "Created" => ~kind'.keyed /\ NameIsFree(q.seen)'
    BY <1>1, NameStill DEF RecordKnown
  <1>5. Changing(q) =>
         /\ q.type \in {"Updated", "Closed"}
         /\ kind'.keyed => q.record = 0
         /\ ~kind'.keyed => q.record \in 1..Len(log')
         /\ kind'.find = "current" => ~C!Closed(q.record, q.seen)'
    <2>1. SUFFICES ASSUME Changing(q)
                   PROVE  /\ q.type \in {"Updated", "Closed"}
                          /\ kind'.keyed => q.record = 0
                          /\ ~kind'.keyed => q.record \in 1..Len(log')
                          /\ kind'.find = "current" => ~C!Closed(q.record, q.seen)'
      OBVIOUS
    <2>2. q.seen \in 0..Len(log)
      BY <1>8, <2>1 DEF Changing
    <2>3. C!Closed(q.record, q.seen)' <=> C!Closed(q.record, q.seen)
      BY <1>1, <2>2, ClosedStill DEF RecordsGoOn
    <2>4. ~kind.keyed => q.record \in 1..Len(log')
      <3>1. ASSUME ~kind.keyed
            PROVE  q.record \in 1..Len(log')
        <4>1. PICK k \in Nat : k = q.record
          BY <2>1, RecordShape DEF Changing
        <4>2. q.record \in 1..Len(log)
          BY <2>1, <3>1 DEF RecordKnown
        <4>3. k \in 1..Len(log)
          BY <1>2, <4>1, <4>2
        <4>4. k \in 1..Len(log')
          BY <1>1, <1>2, <4>3
        <4> QED BY <4>1, <4>4
      <3> QED BY <3>1
    <2>5. /\ q.type \in {"Updated", "Closed"} /\ (kind.keyed => q.record = 0)
          /\ kind.find = "current" => ~C!Closed(q.record, q.seen)
      BY <2>1 DEF RecordKnown
    <2> QED BY <1>1, <2>3, <2>4, <2>5
  <1>6. q.at = "append" /\ q.type # "Created" =>
         /\ q.version <= Cardinality(C!Stream(q.record)')
         /\ kind'.replay /\ q.version = Cardinality(C!Stream(q.record)') => ~C!Closed(q.record, Len(log))'
    <2>1. SUFFICES ASSUME q.at = "append", q.type # "Created"
                   PROVE  /\ q.version <= Cardinality(C!Stream(q.record)')
                          /\ kind'.replay /\ q.version = Cardinality(C!Stream(q.record)') => ~C!Closed(q.record, Len(log))'
      OBVIOUS
    <2>2. /\ q.version \in Nat /\ q.version <= Cardinality(C!Stream(q.record))
          /\ kind.replay /\ q.version = Cardinality(C!Stream(q.record)) => ~C!Closed(q.record, Len(log))
      BY <2>1, RecordShape DEF RecordKnown
    <2>3. CASE log' = log
      BY <1>1, <2>2, <2>3 DEF C!Stream, C!Closed, C!Is
    <2>4. ASSUME NEW e \in Entry, Logged(e)
          PROVE  /\ q.version <= Cardinality(C!Stream(q.record)')
                 /\ kind'.replay /\ q.version = Cardinality(C!Stream(q.record)') => ~C!Closed(q.record, Len(log))'
      <3>1. CASE e.record # q.record
        <4>1. C!Stream(q.record)' = C!Stream(q.record)
          BY <1>1, <2>4, <3>1, StreamsAfter
        <4>2. ~C!Closed(q.record, Len(log)) => ~C!Closed(q.record, Len(log))'
          BY <1>1, <2>4, <3>1, ClosedAfter
        <4> QED BY <1>1, <2>2, <4>1, <4>2
      <3>2. CASE e.record = q.record
        <4>1. /\ C!Stream(q.record)' = C!Stream(q.record) \union {Len(log) + 1}
              /\ Len(log) + 1 \notin C!Stream(q.record)
          BY <1>1, <2>4, <3>2, StreamsAfter
        <4>2. IsFiniteSet(C!Stream(q.record)) /\ Cardinality(C!Stream(q.record)) \in Nat
          BY <1>1, StreamFinite
        <4>3. Cardinality(C!Stream(q.record)') = Cardinality(C!Stream(q.record)) + 1
          BY <4>1, <4>2, FS_AddElement
        <4> QED BY <2>2, <4>2, <4>3
      <3> QED BY <3>1, <3>2
    <2> QED BY <2>3, <2>4 DEF RecordsGoOn, EntryAdded
  <1>7. q.at = "catch up" => q.event \in 1..Len(log')
    <2>1. SUFFICES ASSUME q.at = "catch up"
                   PROVE  q.event \in 1..Len(log')
      OBVIOUS
    <2>2. PICK k \in Nat : k = q.event
      BY <2>1, RecordShape
    <2>3. q.event \in 1..Len(log)
      BY <2>1 DEF RecordKnown
    <2>4. k \in 1..Len(log)
      BY <1>2, <2>2, <2>3
    <2>5. k \in 1..Len(log')
      BY <1>1, <1>2, <2>4
    <2> QED BY <2>2, <2>5
  <1> QED BY <1>3, <1>4, <1>5, <1>6, <1>7 DEF RecordKnown

LEMMA RecordsKnownAfter ==
  ASSUME RecordsGoOn, RecordsKnown, NEW c \in Caller, NEW p \in RecordRequest,
         request' = [request EXCEPT ![c] = p], RecordKnown(p)'
  PROVE  RecordsKnown'
  <1>1. \A d \in Caller : request'[d] = IF d = c THEN p ELSE request[d]
    BY DEF RecordsGoOn, RecordTypes
  <1>2. ASSUME NEW d \in Caller
        PROVE  RecordKnown(request[d])'
    <2>1. CASE d = c
      BY <1>1, <2>1 DEF RecordKnown, Changing
    <2>2. CASE d # c
      <3>1. PICK q \in RecordRequest : q = request[d]
        BY DEF RecordsGoOn, RecordTypes
      <3>2. RecordKnown(q)'
        BY <3>1, RecordStill DEF RecordsKnown
      <3>3. request'[d] = q
        BY <1>1, <2>2, <3>1
      <3> QED BY <3>2, <3>3 DEF RecordKnown, Changing
    <2> QED BY <2>1, <2>2
  <1> QED BY <1>2 DEF RecordsKnown

-------------------------------------------------------------------------------
\* The steps.

\* A request goes on, or ends, and nothing is appended.
LEMMA RecordGoes ==
  ASSUME RecordInv, NEW c \in Caller, NEW p \in RecordRequest,
         request' = [request EXCEPT ![c] = p], RecordKnown(p),
         UNCHANGED <<kind, log, shown, seen, answered>>
  PROVE  RecordInv'
  <1>1. RecordTypes'
    BY DEF RecordInv, RecordTypes
  <1>2. RecordsGoOn
    BY <1>1 DEF RecordInv, RecordsGoOn, EntryAdded, RecordTypes
  <1>3. RecordKnown(p)'
    BY <1>2, RecordStill
  <1>4. RecordsKnown'
    BY <1>2, <1>3, RecordsKnownAfter DEF RecordInv
  <1>5. FirstIsCreated' /\ C!NothingAfterClosed'
    BY DEF RecordInv, FirstIsCreated, C!NothingAfterClosed, C!Is
  <1>6. NamesWereFree'
    BY DEF RecordInv, NamesWereFree, NameIsFree, C!Closed, C!Stream, C!Is
  <1> QED BY <1>1, <1>4, <1>5, <1>6 DEF RecordInv

LEMMA CreatedOwn ==
  ASSUME RecordTypes, FirstIsCreated, ~kind.keyed, NEW r \in 1..Len(log), C!Is(r, "Created")
  PROVE  r \in C!Stream(r)
  BY DEF RecordTypes, FirstIsCreated, C!Stream, C!Is

\* Of records that no key determines, what is not alive was closed.
LEMMA AliveIsOpen ==
  ASSUME RecordTypes, FirstIsCreated, ~kind.keyed, NEW n \in 0..Len(log), NEW r \in 1..n, C!Is(r, "Created")
  PROVE  C!Alive(r, n) <=> ~C!Closed(r, n)
  <1>1. r \in C!Stream(r)
    BY CreatedOwn DEF RecordTypes
  <1> QED BY <1>1 DEF C!Alive

LEMMA BeginCreateStep ==
  ASSUME RecordInv, NEW c \in Caller, C!BeginCreate(c)
  PROVE  RecordInv'
  <1> DEFINE p == [at |-> "append", type |-> "Created", record |-> Len(log) + 1, version |-> 0, seen |-> shown]
  <1>1. request' = [request EXCEPT ![c] = p] /\ C!MayCreate /\ UNCHANGED <<kind, log, shown, seen, answered>>
    BY DEF C!BeginCreate, C!Go
  <1>2. Len(log) \in Nat /\ shown \in 0..Len(log) /\ RecordTypes /\ FirstIsCreated
    BY DEF RecordInv, RecordTypes
  <1>3. p \in RecordRequest
    <2>1. p \in AppendRequest
      BY <1>2 DEF AppendRequest
    <2> QED BY <2>1 DEF RecordRequest
  <1>4. NameIsFree(shown)
    <2>1. SUFFICES ASSUME kind.unique, NEW r \in 1..shown, log[r].type = "Created"
                   PROVE  C!Closed(r, shown)
      BY DEF NameIsFree
    <2>2. ~kind.keyed /\ ~C!Alive(r, shown)
      BY <1>1, <2>1 DEF C!MayCreate, C!Rows, C!Is
    <2> QED BY <1>2, <2>1, <2>2, AliveIsOpen DEF C!Is
  <1>5. ~kind.keyed
    BY <1>1 DEF C!MayCreate
  <1>6. RecordKnown(p)
    BY <1>2, <1>4, <1>5 DEF RecordKnown, Changing
  <1> QED BY <1>1, <1>3, <1>6, RecordGoes

LEMMA FindRowStep ==
  ASSUME RecordInv, NEW c \in Caller, C!FindRow(c)
  PROVE  RecordInv'
  <1>1. PICK r \in C!Findable, type \in kind.changes :
          request' = [request EXCEPT ![c] = [at |-> "read", type |-> type, record |-> r, seen |-> shown]]
    BY DEF C!FindRow, C!Go
  <1> DEFINE p == [at |-> "read", type |-> type, record |-> r, seen |-> shown]
  <1>2. /\ Len(log) \in Nat /\ shown \in 0..Len(log) /\ RecordTypes /\ FirstIsCreated
        /\ KindFits(kind) /\ type \in {"Updated", "Closed"}
    BY KindFacts DEF RecordInv, RecordTypes, KindFits
  <1>3. CASE kind.find = "key"
    <2>1. r = 0 /\ kind.keyed
      BY <1>1, <1>2, <1>3 DEF C!Findable, KindFits
    <2>2. p \in RecordRequest
      <3>1. p \in ReadRequest
        BY <1>2, <2>1 DEF ReadRequest
      <3> QED BY <3>1 DEF RecordRequest
    <2>3. RecordKnown(p)
      BY <1>2, <1>3, <2>1 DEF RecordKnown, Changing
    <2> QED BY <1>1, <2>2, <2>3, RecordGoes DEF C!FindRow
  <1>4. CASE kind.find # "key"
    <2>1. r \in C!Rows /\ (kind.find = "current" => C!Alive(r, shown)) /\ ~kind.keyed
      BY <1>1, <1>2, <1>4 DEF C!Findable, KindFits
    <2>2. r \in 1..shown /\ C!Is(r, "Created")
      BY <2>1 DEF C!Rows
    <2>3. r \in 1..Len(log) /\ r \in Nat
      BY <1>2, <2>2
    <2>4. p \in RecordRequest
      <3>1. p \in ReadRequest
        BY <1>2, <2>3 DEF ReadRequest
      <3> QED BY <3>1 DEF RecordRequest
    <2>5. kind.find = "current" => ~C!Closed(r, shown)
      BY <1>2, <2>1, <2>2, AliveIsOpen
    <2>6. RecordKnown(p)
      BY <1>2, <2>1, <2>3, <2>5 DEF RecordKnown, Changing
    <2> QED BY <1>1, <2>4, <2>6, RecordGoes DEF C!FindRow
  <1> QED BY <1>3, <1>4

LEMMA ReadRecordStep ==
  ASSUME RecordInv, NEW c \in Caller, C!ReadStream(c)
  PROVE  RecordInv'
  <1>1. PICK q \in RecordRequest : q = request[c]
    BY DEF RecordInv, RecordTypes
  <1>2. q.at = "read" /\ RecordKnown(q) /\ UNCHANGED <<kind, log, shown, seen, answered>>
    BY <1>1 DEF RecordInv, RecordsKnown, C!ReadStream
  <1>3. PICK n \in Nat : n = Cardinality(C!Stream(q.record)) /\ n = C!Cardinality(C!Stream(q.record))
    BY StreamFinite DEF RecordInv, RecordTypes
  <1> DEFINE p == [at |-> "append", type |-> q.type, record |-> q.record, version |-> n, seen |-> q.seen]
  <1>4. q.type \in {"Updated", "Closed"} /\ q.record \in Nat /\ q.seen \in Nat
    BY <1>2, RecordShape
  <1>5. CASE C!CommandPasses(q.record)
    <2>1. request' = [request EXCEPT ![c] = p]
      BY <1>1, <1>3, <1>5 DEF C!ReadStream, C!Go
    <2>2. p \in RecordRequest
      <3>1. p \in AppendRequest
        BY <1>4 DEF AppendRequest
      <3> QED BY <3>1 DEF RecordRequest
    <2>3. kind.replay => ~C!Closed(q.record, Len(log))
      BY <1>5 DEF C!CommandPasses
    <2>4. /\ q.seen \in 0..shown /\ (kind.keyed => q.record = 0) /\ (~kind.keyed => q.record \in 1..Len(log))
          /\ kind.find = "current" => ~C!Closed(q.record, q.seen)
      BY <1>2 DEF RecordKnown, Changing
    <2>5. RecordKnown(p)
      <3>0. p.at = "append" /\ p.type = q.type /\ p.record = q.record /\ p.seen = q.seen /\ p.version = n
        OBVIOUS
      <3> HIDE DEF p
      <3>1. /\ p.at = "append" /\ p.type = q.type /\ p.type # "Created" /\ p.record = q.record /\ p.seen = q.seen
            /\ p.version <= Cardinality(C!Stream(p.record))
        <4>1. C!Stream(p.record) = C!Stream(q.record)
          BY <3>0
        <4>2. Cardinality(C!Stream(p.record)) = n
          BY <1>3, <4>1
        <4>3. p.version <= n
          BY <1>3, <3>0
        <4> QED BY <1>4, <3>0, <4>2, <4>3
      <3>2. Changing(p) /\ p.type \in {"Updated", "Closed"}
        BY <1>4, <3>1 DEF Changing
      <3> QED BY <2>3, <2>4, <3>1, <3>2 DEF RecordKnown
    <2> QED BY <1>2, <2>1, <2>2, <2>5, RecordGoes
  <1>6. CASE ~C!CommandPasses(q.record)
    <2>1. request' = [request EXCEPT ![c] = C!Idle] /\ C!Idle \in RecordRequest /\ RecordKnown(C!Idle)
      BY <1>1, <1>6 DEF C!ReadStream, C!Go, C!Idle, RecordRequest, RecordKnown, Changing
    <2> QED BY <1>2, <2>1, RecordGoes
  <1> QED BY <1>5, <1>6

\* What was in the log is as it was, and the new event is its creation or one of
\* what was created.
LEMMA EntryFits ==
  ASSUME RecordInv, NEW c \in Caller, request[c].at = "append", NEW e \in Entry, Logged(e),
         e.type = request[c].type,
         e.record = IF e.type = "Created" THEN Len(log) + 1 ELSE request[c].record,
         kind' = kind
  PROVE  FirstIsCreated'
  <1>1. PICK n \in Nat : n = Len(log)
    BY DEF RecordInv, RecordTypes
  <1>2. PICK t : t = log'
    OBVIOUS
  <1>3. Len(t) = n + 1 /\ t[n + 1] = e /\ \A i \in 1..n : t[i] = log[i]
    BY <1>1, <1>2, EntryFacts DEF RecordInv, RecordTypes
  <1>4. RecordKnown(request[c]) /\ FirstIsCreated /\ e.type \in {"Created", "Updated", "Closed"}
    BY DEF RecordInv, RecordsKnown, Entry
  <1>5. IF kind.keyed THEN e.record = 0 /\ e.type \in {"Updated", "Closed"}
                      ELSE e.record \in 1..n + 1 /\ (e.type = "Created" <=> e.record = n + 1)
    <2>1. CASE e.type = "Created"
      <3>1. ~kind.keyed /\ e.record = n + 1
        BY <1>1, <1>4, <2>1 DEF RecordKnown
      <3> QED BY <2>1, <3>1
    <2>2. CASE e.type # "Created"
      <3>1. /\ Changing(request[c]) /\ e.record = request[c].record
        BY <2>2 DEF Changing
      <3>2. (kind.keyed => e.record = 0) /\ (~kind.keyed => e.record \in 1..Len(log))
        BY <1>4, <3>1 DEF RecordKnown
      <3>3. CASE kind.keyed
        BY <1>4, <2>2, <3>2, <3>3
      <3>4. CASE ~kind.keyed
        <4>1. e.record \in 1..n
          BY <1>1, <3>2, <3>4
        <4> QED BY <2>2, <3>4, <4>1
      <3> QED BY <3>3, <3>4
    <2> QED BY <2>1, <2>2
  <1>6. ASSUME NEW i \in 1..n + 1
        PROVE  IF kind.keyed THEN t[i].record = 0 /\ t[i].type \in {"Updated", "Closed"}
                             ELSE t[i].record \in 1..i /\ (t[i].type = "Created" <=> t[i].record = i)
    <2>1. CASE i = n + 1
      BY <1>3, <1>5, <2>1
    <2>2. CASE i # n + 1
      <3>1. i \in 1..Len(log) /\ t[i] = log[i]
        BY <1>1, <1>3, <2>2
      <3> QED BY <1>4, <3>1 DEF FirstIsCreated
    <2> QED BY <2>1, <2>2
  <1> QED BY <1>2, <1>3, <1>6 DEF FirstIsCreated

LEMMA AppendStep ==
  ASSUME RecordInv, NEW c \in Caller, C!AppendEvent(c)
  PROVE  RecordInv'
  <1>1. PICK q \in RecordRequest : q = request[c]
    BY DEF RecordInv, RecordTypes
  <1>2. q.at = "append" /\ RecordKnown(q) /\ UNCHANGED <<kind, shown, answered>>
    BY <1>1 DEF RecordInv, RecordsKnown, C!AppendEvent
  <1>3. CASE ~C!VersionMatches(q)
    <2>1. request' = [request EXCEPT ![c] = C!Idle] /\ C!Idle \in RecordRequest /\ RecordKnown(C!Idle)
      BY <1>1, <1>3 DEF C!AppendEvent, C!Go, C!Idle, RecordRequest, RecordKnown, Changing
    <2>2. UNCHANGED <<log, seen>>
      BY <1>1, <1>3 DEF C!AppendEvent
    <2> QED BY <1>2, <2>1, <2>2, RecordGoes
  <1>4. CASE C!VersionMatches(q)
    <2>1. PICK n \in Nat : n = Len(log)
      BY DEF RecordInv, RecordTypes
    <2>2. /\ log \in Seq(Entry) /\ seen \in Seq(Nat) /\ Len(seen) = n /\ KindFits(kind)
          /\ shown \in 0..n /\ FirstIsCreated
      BY <2>1, KindFacts DEF RecordInv, RecordTypes
    <2>3. q.type \in {"Created", "Updated", "Closed"} /\ q.record \in Nat /\ q.seen \in Nat
      BY <1>2, RecordShape
    <2>4. PICK e : e = [type |-> q.type, record |-> IF q.type = "Created" THEN n + 1 ELSE q.record]
      OBVIOUS
    <2>5. e \in Entry /\ e.type = q.type /\ e.record = IF q.type = "Created" THEN n + 1 ELSE q.record
      BY <2>1, <2>3, <2>4 DEF Entry
    <2>6. PICK p : p = [at |-> "catch up", event |-> n + 1]
      OBVIOUS
    <2>7. /\ Logged(e) /\ seen' = Append(seen, q.seen)
          /\ request' = [request EXCEPT ![c] = p]
      BY <1>1, <1>4, <2>1, <2>4, <2>6 DEF C!AppendEvent, C!Go, Logged
    <2>8. /\ log' \in Seq(Entry) /\ Len(log') = n + 1 /\ log'[n + 1] = e
          /\ \A i \in 1..n : log'[i] = log[i]
      BY <2>1, <2>2, <2>5, <2>7, EntryFacts
    <2>9. /\ seen' \in Seq(Nat) /\ Len(seen') = n + 1 /\ seen'[n + 1] = q.seen
          /\ \A i \in 1..n : seen'[i] = seen[i]
      BY <2>1, <2>2, <2>3, <2>7
    <2>10. p \in RecordRequest /\ p.at = "catch up" /\ p.event = n + 1
      <3>1. p \in [at : {"catch up"}, event : Nat] /\ p.at = "catch up" /\ p.event = n + 1
        <4>1. PICK m \in Nat : m = n + 1
          BY <2>1
        <4>2. p = [at |-> "catch up", event |-> m]
          BY <2>6, <4>1
        <4> QED BY <4>1, <4>2
      <3> QED BY <3>1 DEF RecordRequest
    <2>11. RecordTypes'
      <3>1. request' \in [Caller -> RecordRequest]
        BY <2>7, <2>10 DEF RecordInv, RecordTypes
      <3>2. shown' \in 0..Len(log') /\ answered' \subseteq 1..shown' /\ kind' \in C!Services
        BY <1>2, <2>2, <2>8 DEF RecordInv, RecordTypes
      <3> QED BY <2>8, <2>9, <3>1, <3>2 DEF RecordTypes
    <2>12. RecordsGoOn
      BY <1>2, <2>2, <2>5, <2>7, <2>11 DEF RecordsGoOn, EntryAdded, RecordInv
    <2>13. RecordKnown(p)'
      <3>1. p.event \in 1..Len(log')
        <4>1. n + 1 \in 1..n + 1
          BY <2>1
        <4> QED BY <2>8, <2>10, <4>1
      <3> QED BY <2>10, <3>1 DEF RecordKnown, Changing
    <2>14. RecordsKnown'
      BY <2>7, <2>10, <2>12, <2>13, RecordsKnownAfter DEF RecordInv
    <2>15. FirstIsCreated'
      BY <1>1, <1>2, <2>1, <2>5, <2>7, EntryFits
    <2>16. NamesWereFree'
      <3>1. q.seen \in 0..shown /\ (q.type = "Created" => NameIsFree(q.seen))
        BY <1>2 DEF RecordKnown
      <3>2. \A k \in 0..n : NameIsFree(k)' <=> NameIsFree(k)
        BY <2>1, <2>12, NameStill
      <3>3. ASSUME NEW s \in 1..n + 1
            PROVE  seen'[s] \in 0..shown' /\ (log'[s].type = "Created" => NameIsFree(seen[s])')
        <4>1. CASE s = n + 1
          <5>1. seen'[s] = q.seen /\ log'[s].type = q.type
            BY <2>5, <2>8, <2>9, <4>1
          <5>2. PICK k \in Nat : k = q.seen
            BY <2>3
          <5>3. k \in 0..n /\ k \in 0..shown
            BY <2>1, <2>2, <3>1, <5>2
          <5>4. q.type = "Created" => NameIsFree(k)'
            BY <3>1, <3>2, <5>2, <5>3
          <5> QED BY <1>2, <3>1, <5>1, <5>2, <5>4 DEF NameIsFree
        <4>2. CASE s # n + 1
          <5>1. s \in 1..n /\ seen'[s] = seen[s] /\ log'[s] = log[s]
            BY <2>1, <2>8, <2>9, <4>2
          <5>2. seen[s] \in 0..shown /\ (log[s].type = "Created" => NameIsFree(seen[s]))
            BY <2>1, <5>1 DEF RecordInv, NamesWereFree
          <5>3. PICK k \in 0..n : k = seen[s]
            BY <2>1, <2>2, <5>2
          <5>4. log[s].type = "Created" => NameIsFree(k)'
            BY <3>2, <5>2, <5>3
          <5> QED BY <1>2, <5>1, <5>2, <5>3, <5>4 DEF NameIsFree
        <4> QED BY <4>1, <4>2
      <3> QED BY <2>8, <3>3 DEF NamesWereFree
    <2>17. C!NothingAfterClosed'
      <3>1. SUFFICES ASSUME NEW i \in 1..n + 1, NEW j \in 1..n + 1, log'[i].type = "Closed", i < j,
                            log'[i].record = log'[j].record
                     PROVE  ~kind.replay /\ (kind.find = "current" => seen'[j] < i)
        BY <1>2, <2>8 DEF C!NothingAfterClosed, C!Is
      <3>2. i \in 1..n /\ log'[i] = log[i]
        BY <2>1, <2>8, <3>1
      <3>3. CASE j # n + 1
        <4>1. j \in 1..n /\ log'[j] = log[j] /\ seen'[j] = seen[j]
          BY <2>1, <2>8, <2>9, <3>3
        <4>2. i \in DOMAIN log /\ j \in DOMAIN log
          BY <2>1, <2>2, <3>2, <4>1
        <4> QED BY <3>1, <3>2, <4>1, <4>2 DEF RecordInv, C!NothingAfterClosed, C!Is
      <3>4. CASE j = n + 1
        <4>1. log[i].record = e.record /\ log[i].type = "Closed" /\ seen'[j] = q.seen
          BY <2>8, <2>9, <3>1, <3>2, <3>4
        <4>2. q.type # "Created"
          <5>1. SUFFICES ASSUME q.type = "Created" PROVE FALSE
            OBVIOUS
          <5>2. ~kind.keyed /\ e.record = n + 1
            BY <1>2, <2>5, <5>1 DEF RecordKnown
          <5>3. log[i].record \in 1..i
            BY <2>1, <2>2, <3>2, <5>2 DEF FirstIsCreated
          <5> QED BY <2>1, <3>2, <4>1, <5>2, <5>3
        <4>3. i \in C!Stream(q.record) /\ C!Is(i, "Closed")
          BY <2>1, <2>2, <2>5, <3>2, <4>1, <4>2 DEF C!Stream, C!Is
        <4>4. C!Closed(q.record, n)
          BY <2>1, <3>2, <4>3 DEF C!Closed
        <4>5. ~kind.replay
          <5>1. q.version = Cardinality(C!Stream(q.record))
            BY <1>4, <2>2, <4>2, StreamFinite DEF C!VersionMatches
          <5> QED BY <1>2, <2>1, <4>2, <4>4, <5>1 DEF RecordKnown
        <4>6. ASSUME kind.find = "current"
              PROVE  seen'[j] < i
          <5>1. ~C!Closed(q.record, q.seen)
            BY <1>2, <4>2, <4>6 DEF RecordKnown, Changing
          <5>2. ~(i <= q.seen)
            BY <4>3, <5>1 DEF C!Closed
          <5>3. PICK k \in Nat : k = q.seen
            BY <2>3
          <5>4. k < i
            BY <2>1, <3>2, <5>2, <5>3
          <5> QED BY <4>1, <5>3, <5>4
        <4> QED BY <4>5, <4>6
      <3> QED BY <3>3, <3>4
    <2> QED BY <2>11, <2>14, <2>15, <2>16, <2>17 DEF RecordInv
  <1> QED BY <1>3, <1>4

LEMMA RecordCatchUpStep ==
  ASSUME RecordInv, NEW c \in Caller, C!CatchUp(c)
  PROVE  RecordInv'
  <1>1. PICK q \in RecordRequest : q = request[c]
    BY DEF RecordInv, RecordTypes
  <1>2. /\ q.at = "catch up" /\ RecordKnown(q) /\ shown' = Len(log) /\ UNCHANGED <<kind, log, seen>>
        /\ answered' = answered \union {q.event} /\ request' = [request EXCEPT ![c] = C!Idle]
    BY <1>1 DEF RecordInv, RecordsKnown, C!CatchUp, C!Go
  <1>3. PICK n \in Nat : n = Len(log) /\ shown \in 0..n
    BY DEF RecordInv, RecordTypes
  <1>4. C!Idle \in RecordRequest /\ C!Idle.at = "idle"
    BY DEF C!Idle, RecordRequest
  <1>5. RecordTypes'
    <2>1. request' \in [Caller -> RecordRequest]
      BY <1>2, <1>4 DEF RecordInv, RecordTypes
    <2>2. q.event \in 1..n
      BY <1>2, <1>3 DEF RecordKnown
    <2>3. \A a \in answered : a \in 1..shown
      BY DEF RecordInv, RecordTypes
    <2>4. \A a \in answered : a \in 1..n
      BY <1>3, <2>3
    <2>5. answered' \subseteq 1..n
      BY <1>2, <2>2, <2>4
    <2>6. shown' \in 0..n /\ shown' = n
      <3>1. shown' = n
        BY <1>2, <1>3
      <3>2. n \in 0..n
        OBVIOUS
      <3> QED BY <3>1, <3>2
    <2>7. kind \in C!Services /\ log \in Seq(Entry) /\ seen \in Seq(Nat) /\ Len(seen) = Len(log)
      BY DEF RecordInv, RecordTypes
    <2> QED BY <1>2, <1>3, <2>1, <2>5, <2>6, <2>7 DEF RecordTypes
  <1>6. RecordsGoOn
    <2>1. shown <= shown'
      <3>1. PICK k \in 0..n : k = shown
        BY <1>3
      <3>2. shown' = n
        BY <1>2, <1>3
      <3>3. k <= n
        OBVIOUS
      <3> QED BY <3>1, <3>2, <3>3
    <2> QED BY <1>2, <1>5, <2>1 DEF RecordInv, RecordsGoOn, EntryAdded
  <1>7. RecordsKnown'
    <2>1. RecordKnown(C!Idle)'
      BY <1>4 DEF RecordKnown, Changing
    <2> QED BY <1>2, <1>4, <1>6, <2>1, RecordsKnownAfter DEF RecordInv
  <1>8. FirstIsCreated' /\ C!NothingAfterClosed'
    BY <1>2 DEF RecordInv, FirstIsCreated, C!NothingAfterClosed, C!Is
  <1>9. NamesWereFree'
    <2>1. ASSUME NEW s \in 1..n
          PROVE  \E k \in 0..n : k = seen[s] /\ (log[s].type = "Created" => NameIsFree(k)')
      <3>1. seen[s] \in 0..shown /\ (log[s].type = "Created" => NameIsFree(seen[s]))
        BY <1>3 DEF RecordInv, NamesWereFree
      <3>2. PICK k \in 0..n : k = seen[s]
        BY <1>3, <3>1
      <3>3. NameIsFree(k)' <=> NameIsFree(k)
        BY <1>3, <1>6, NameStill
      <3> QED BY <3>1, <3>2, <3>3
    <2>2. ASSUME NEW s \in 1..n
          PROVE  seen'[s] \in 0..n /\ (log'[s].type = "Created" => NameIsFree(seen[s])')
      BY <1>2, <2>1, <2>2 DEF NameIsFree
    <2> QED BY <1>2, <1>3, <2>2 DEF NamesWereFree
  <1> QED BY <1>5, <1>7, <1>8, <1>9 DEF RecordInv

LEMMA RecordInit ==
  ASSUME C!Init
  PROVE  RecordInv
  <1>1. /\ kind \in C!Services /\ log = <<>> /\ shown = 0 /\ seen = <<>> /\ answered = {}
        /\ request = [c \in Caller |-> C!Idle] /\ C!Idle \in RecordRequest /\ C!Idle.at = "idle"
    BY DEF C!Init, C!Idle, RecordRequest
  <1>2. Len(log) = 0 /\ Len(seen) = 0 /\ DOMAIN log = {}
    BY <1>1
  <1>3. RecordTypes
    BY <1>1, <1>2 DEF RecordTypes
  <1>4. RecordsKnown
    BY <1>1 DEF RecordsKnown, RecordKnown, Changing
  <1> QED BY <1>2, <1>3, <1>4 DEF RecordInv, FirstIsCreated, NamesWereFree, C!NothingAfterClosed

LEMMA RecordStep ==
  ASSUME RecordInv, [C!Next]_C!vars
  PROVE  RecordInv'
  <1>1. CASE UNCHANGED C!vars
    <2>1. UNCHANGED <<kind, log, shown, seen, answered, request>>
      BY <1>1 DEF C!vars
    <2>2. RecordTypes' /\ FirstIsCreated' /\ C!NothingAfterClosed'
      BY <2>1 DEF RecordInv, RecordTypes, FirstIsCreated, C!NothingAfterClosed, C!Is
    <2>3. NamesWereFree'
      BY <2>1 DEF RecordInv, NamesWereFree, NameIsFree, C!Closed, C!Stream, C!Is
    <2>4. RecordsGoOn
      BY <2>1, <2>2 DEF RecordInv, RecordsGoOn, EntryAdded, RecordTypes
    <2>5. ASSUME NEW c \in Caller
          PROVE  RecordKnown(request[c])'
      <3>1. PICK q \in RecordRequest : q = request[c]
        BY DEF RecordInv, RecordTypes
      <3>2. RecordKnown(q)'
        BY <2>4, <3>1, RecordStill DEF RecordInv, RecordsKnown
      <3> QED BY <2>1, <3>1, <3>2 DEF RecordKnown, Changing
    <2>6. RecordsKnown'
      BY <2>5 DEF RecordsKnown
    <2> QED BY <2>2, <2>3, <2>6 DEF RecordInv
  <1>2. ASSUME NEW c \in Caller, C!Abandon(c)
        PROVE  RecordInv'
    BY <1>2, RecordGoes DEF C!Abandon, C!Go, C!Idle, RecordRequest, RecordKnown, Changing
  <1> QED BY <1>1, <1>2, BeginCreateStep, FindRowStep, ReadRecordStep, AppendStep, RecordCatchUpStep DEF C!Next

-------------------------------------------------------------------------------
\* What follows.

LEMMA RecordImplies ==
  ASSUME RecordInv
  PROVE  C!NothingAfterClosed /\ C!ClosedIsClosed /\ C!NamesSharedByRaceOnly /\ C!TypeOK
  <1>1. PICK n \in Nat : n = Len(log)
    BY DEF RecordInv, RecordTypes
  <1>2. /\ RecordTypes /\ FirstIsCreated /\ NamesWereFree /\ KindFits(kind)
        /\ shown \in 0..n /\ answered \subseteq 1..shown /\ log \in Seq(Entry)
    BY <1>1, KindFacts DEF RecordInv, RecordTypes
  <1>3. C!ClosedIsClosed
    <2>1. SUFFICES ASSUME NEW i \in answered, C!Is(i, "Closed"), C!Alive(log[i].record, shown)
                   PROVE  kind.keyed /\ \E j \in C!Stream(0) : j > i /\ C!Is(j, "Updated")
      BY DEF C!ClosedIsClosed
    <2>2. i \in 1..shown /\ i \in 1..n /\ i \in C!Stream(log[i].record)
      BY <1>1, <1>2 DEF C!Stream
    <2>3. C!Closed(log[i].record, shown)
      BY <1>2, <2>1, <2>2 DEF C!Closed
    <2>4. kind.keyed
      BY <2>1, <2>3 DEF C!Alive
    <2>5. log[i].record = 0
      BY <1>1, <1>2, <2>2, <2>4 DEF FirstIsCreated
    <2> DEFINE past == {j \in C!Stream(0) : j <= shown}
    <2>6. i \in past /\ past \in SUBSET (1..n)
      BY <1>1, <1>2, <2>2, <2>5 DEF C!Stream
    <2>7. ~C!Is(CHOOSE j \in past : \A k \in past : k <= j, "Closed")
      BY <2>1, <2>4, <2>5 DEF C!Alive
    <2>8. PICK j \in past : j = (CHOOSE m \in past : \A k \in past : k <= m) /\ \A k \in past : k <= j
      <3>1. PICK m \in past : \A k \in past : m >= k
        BY <1>1, <2>6, Greatest
      <3>2. \A k \in past : k <= m
        BY <2>6, <3>1
      <3> HIDE DEF past
      <3> QED BY <3>2
    <2>9. j \in C!Stream(0) /\ j \in 1..n /\ i <= j /\ ~C!Is(j, "Closed")
      BY <2>6, <2>7, <2>8
    <2>10. j > i
      BY <1>1, <2>1, <2>2, <2>9
    <2>11. C!Is(j, "Updated")
      BY <1>1, <1>2, <2>4, <2>9 DEF FirstIsCreated, C!Is
    <2> QED BY <2>4, <2>9, <2>10, <2>11
  <1>4. C!NamesSharedByRaceOnly
    <2>1. SUFFICES ASSUME kind.unique, NEW r \in C!Rows, NEW s \in C!Rows, r < s,
                          C!Alive(r, shown), C!Alive(s, shown)
                   PROVE  seen[s] < r
      BY DEF C!NamesSharedByRaceOnly
    <2>2. ~kind.keyed
      BY <1>2, <2>1 DEF KindFits
    <2>3. /\ r \in 1..shown /\ s \in 1..shown /\ r \in 1..n /\ s \in 1..n
          /\ C!Is(r, "Created") /\ C!Is(s, "Created")
      BY <1>1, <1>2 DEF C!Rows
    <2>4. ~C!Closed(r, shown)
      BY <1>1, <1>2, <2>1, <2>2, <2>3, AliveIsOpen
    <2>5. PICK k \in 0..shown : k = seen[s]
      BY <1>1, <2>3 DEF RecordInv, NamesWereFree
    <2>6. NameIsFree(k)
      BY <1>1, <2>3, <2>5 DEF RecordInv, NamesWereFree, C!Is
    <2>7. ASSUME r <= k
          PROVE  FALSE
      <3>1. r \in 1..k
        BY <1>1, <1>2, <2>3, <2>5, <2>7
      <3>2. C!Closed(r, k)
        BY <2>1, <2>3, <2>6, <3>1 DEF NameIsFree, C!Is
      <3>3. C!Closed(r, shown)
        BY <1>1, <1>2, <2>5, <3>2, ClosedMore
      <3> QED BY <2>4, <3>3
    <2> QED BY <1>1, <1>2, <2>3, <2>5, <2>7
  <1>5. C!TypeOK
    <2>1. \A c \in Caller : request[c].at \in {"idle", "read", "append", "catch up"}
      BY <1>2, RecordShape DEF RecordTypes
    <2>2. answered \subseteq DOMAIN log
      BY <1>1, <1>2
    <2> QED BY <1>2, <2>1, <2>2 DEF C!TypeOK, RecordTypes, Entry
  <1> QED BY <1>3, <1>4, <1>5 DEF RecordInv

LEMMA RecordAlways == C!Spec => []RecordInv
  <1>1. C!Init => RecordInv
    BY RecordInit
  <1>2. RecordInv /\ [C!Next]_C!vars => RecordInv'
    BY RecordStep
  <1> QED BY <1>1, <1>2, PTL DEF C!Spec

\* Whatever its row still says, nothing follows the deletion of a trigger or of a
\* saved view, and a memory record only by a request that looked before; no row
\* says otherwise once a deletion was answered, but for a grant after it.
THEOREM DeletedIsDeleted == C!Spec => [](C!NothingAfterClosed /\ C!ClosedIsClosed)
  <1>1. RecordInv => C!NothingAfterClosed /\ C!ClosedIsClosed
    BY RecordImplies
  <1> QED BY <1>1, RecordAlways, PTL

\* Two active agents share a name only if the later one's check missed the other.
THEOREM NamesSharedByRaceAlways == C!Spec => []C!NamesSharedByRaceOnly
  <1>1. RecordInv => C!NamesSharedByRaceOnly
    BY RecordImplies
  <1> QED BY <1>1, RecordAlways, PTL

===============================================================================
