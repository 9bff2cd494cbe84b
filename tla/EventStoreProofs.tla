--------------------------- MODULE EventStoreProofs ---------------------------
(***************************************************************************)
(* Proofs about EventStore for every set of writers, streams, ids and      *)
(* batches.  The invariants a caller sees (GapFree,                        *)
(* PositionsFollowVersions, AckedIsStored) are not inductive: they say     *)
(* nothing of what the open transactions hold.  IInv adds that a           *)
(* transaction's rows are its own batch, that their slots and ids are held *)
(* by nobody else, and that the stream below them is complete and older.   *)
(* The last parts are about what is folded from the events of the store:   *)
(* ContextGraph, a read model, and ObjectCommands, whose requests replay   *)
(* the stream of their object.                                             *)
(***************************************************************************)
EXTENDS EventStore, FiniteSets, FiniteSetTheorems, WellFoundedInduction, TLAPS

\* A writer that is building a row has rows left to build; outside of the
\* INSERT it holds none.
Progress(w) ==
  /\ pc[w] \in {"draw", "place"} => done[w] < Len(call[w].ids)
  /\ pc[w] \notin Inserting => pending[w] = {} /\ done[w] = 0

\* The rows a writer holds are rows of its own batch, already dealt with.
OwnRows(w) ==
  \A r \in pending[w] : \E i \in DOMAIN call[w].ids :
    /\ i <= done[w]
    /\ r.stream = call[w].stream
    /\ r.version = VersionOf(w, i)
    /\ r.id = call[w].ids[i]

\* No committed row has the slot or the id of a row writer w holds.
NotCommitted(w) ==
  \A r \in pending[w], q \in events :
    r.id # q.id /\ ~(r.stream = q.stream /\ r.version = q.version)

\* No two writers hold the same slot or the same id.
Exclusive(w, v) ==
  \A r \in pending[w], q \in pending[v] :
    r.id # q.id /\ ~(r.stream = q.stream /\ r.version = q.version)

\* A writer past the head check has the whole stream before it committed.
PrefixStored(w) ==
  pc[w] \in Inserting =>
    \A v \in 1..call[w].expected :
      \E q \in events : q.stream = call[w].stream /\ q.version = v

\* Those rows are older than every position the writer has drawn.
PrefixOlder(w) ==
  \A q \in events :
    (q.stream = call[w].stream /\ q.version <= call[w].expected) =>
      /\ \A r \in pending[w] : q.pos < r.pos
      /\ pc[w] = "place" => q.pos < pos[w]

\* A writer draws the positions of its rows in the order of its batch.
DrawnInOrder(w) ==
  /\ \A q, r \in pending[w] : q.version < r.version => q.pos < r.pos
  /\ pc[w] = "place" => \A r \in pending[w] : r.pos < pos[w]

\* Every position in use has been drawn.
Drawn ==
  /\ \A r \in events : r.pos < nextPos
  /\ \A w \in Writer : pos[w] < nextPos /\ \A r \in pending[w] : r.pos < nextPos

IInv ==
  /\ TypeOK
  /\ \A w \in Writer : Progress(w)
  /\ \A w \in Writer : OwnRows(w)
  /\ \A w \in Writer : NotCommitted(w)
  /\ \A w, v \in Writer : w # v => Exclusive(w, v)
  /\ \A w \in Writer : PrefixStored(w)
  /\ \A w \in Writer : PrefixOlder(w)
  /\ \A w \in Writer : DrawnInOrder(w)
  /\ Drawn
  /\ GapFree
  /\ PositionsFollowVersions
  /\ AckedIsStored

-------------------------------------------------------------------------------
\* A batch is a non-empty sequence of distinct event ids.
LEMMA BatchShape ==
  ASSUME NEW c \in Call
  PROVE  /\ c.ids \in Seq(EventId)
         /\ Len(c.ids) \in Nat \ {0}
         /\ DOMAIN c.ids = 1..Len(c.ids)
         /\ \A i, j \in DOMAIN c.ids : c.ids[i] = c.ids[j] => i = j
         /\ c.expected \in Nat
<1>1. c.ids \in Batch /\ c.expected \in 0..MaxVersion
  BY DEF Call
<1>2. c.ids \in Seq(EventId) /\ c.ids # <<>>
  BY <1>1, BatchAssumption
<1>3. Len(c.ids) # 0
  BY <1>2
<1> QED
  BY <1>1, <1>2, <1>3, BatchAssumption, BoundAssumption

\* Giving the connection back keeps the types, whatever was answered.
LEMMA EndKeepsTypes ==
  ASSUME TypeOK, NEW w \in Writer, NEW a \in Answers, End(w, a),
         events' \subseteq Row
  PROVE  TypeOK'
BY DEF TypeOK, End, Idle, Inserting

\* Going on to the next row keeps the types.
LEMMA NextRowKeepsTypes ==
  ASSUME TypeOK, NEW w \in Writer, NextRow(w),
         pending' \in [Writer -> SUBSET Row]
  PROVE  TypeOK'
<1>1. pc' \in [Writer -> {Idle, "head", "stale"} \union Inserting]
  BY DEF TypeOK, NextRow, Inserting
<1>2. done' \in [Writer -> Nat] /\ pos' \in [Writer -> Nat]
  BY DEF TypeOK, NextRow
<1> QED
  BY <1>1, <1>2 DEF TypeOK, NextRow

\* The row InsertRow builds is a row of the table.
LEMMA NewRowIsRow ==
  ASSUME TypeOK, NEW w \in Writer, done[w] < Len(call[w].ids)
  PROVE  [pos |-> pos[w], stream |-> call[w].stream,
          version |-> VersionOf(w, done[w] + 1),
          id |-> call[w].ids[done[w] + 1]] \in Row
<1>1. call[w] \in Call /\ done[w] \in Nat /\ pos[w] \in Nat
  BY DEF TypeOK
<1>2. done[w] + 1 \in 1..Len(call[w].ids)
  BY <1>1, BatchShape
<1>3. call[w].ids[done[w] + 1] \in EventId
  BY <1>1, <1>2, BatchShape
<1>4. call[w].stream \in Stream
  BY <1>1 DEF Call
<1>5. VersionOf(w, done[w] + 1) \in Nat
  BY <1>1, BatchShape DEF VersionOf
<1> QED
  BY <1>1, <1>3, <1>4, <1>5 DEF Row

-------------------------------------------------------------------------------
\* Every step keeps the types and the progress of the writers.
LEMMA StepKeepsTypes ==
  ASSUME TypeOK, \A w \in Writer : Progress(w),
         NEW w \in Writer, Step(w)
  PROVE  TypeOK'
<1>1. ASSUME NEW c \in Call, Start(w, c) PROVE TypeOK'
  BY <1>1 DEF TypeOK, Start, Inserting, Answers
<1>2. CASE ReadHead(w)
  BY <1>2 DEF TypeOK, ReadHead, Inserting
<1>3. CASE CheckStale(w)
  BY <1>3, EndKeepsTypes DEF CheckStale, Answers, TypeOK
<1>4. CASE DrawPosition(w)
  BY <1>4 DEF TypeOK, DrawPosition, Inserting
<1>5. CASE SkipRow(w)
  BY <1>5, NextRowKeepsTypes DEF SkipRow, TypeOK
<1>6. CASE InsertRow(w)
  <2>1. done[w] < Len(call[w].ids)
    BY <1>6 DEF InsertRow, Progress
  <2>2. pending' \in [Writer -> SUBSET Row]
    BY <1>6, <2>1, NewRowIsRow DEF InsertRow, TypeOK
  <2> QED
    BY <1>6, <2>2, NextRowKeepsTypes DEF InsertRow
<1>7. CASE VersionTaken(w)
  BY <1>7, EndKeepsTypes DEF VersionTaken, Answers, TypeOK
<1>8. CASE CheckAllSkipped(w)
  BY <1>8, EndKeepsTypes DEF CheckAllSkipped, Answers, TypeOK
<1>9. CASE RefusePartial(w)
  BY <1>9, EndKeepsTypes DEF RefusePartial, Answers, TypeOK
<1>10. CASE Commit(w)
  <2>1. PICK a \in {"stored", "unknown"} : End(w, a)
    BY <1>10 DEF Commit
  <2>2. events' \subseteq Row
    BY <1>10 DEF Commit, TypeOK
  <2> QED
    BY <2>1, <2>2, EndKeepsTypes DEF Answers
<1>11. CASE Fail(w)
  BY <1>11, EndKeepsTypes DEF Fail, Answers, TypeOK
<1> QED
  BY <1>1, <1>2, <1>3, <1>4, <1>5, <1>6, <1>7, <1>8, <1>9, <1>10, <1>11
     DEF Step

\* Every step keeps Progress: of the writer that moves, and of the others,
\* none of whose variables it touches.
LEMMA StepKeepsProgress ==
  ASSUME TypeOK, \A w \in Writer : Progress(w),
         NEW w \in Writer, Step(w), NEW v \in Writer
  PROVE  Progress(v)'
<1>0. call[w] \in Call /\ Len(call[w].ids) \in Nat \ {0} /\ done[w] \in Nat
  BY BatchShape DEF TypeOK
<1>1. ASSUME NEW a \in Answers, End(w, a) PROVE Progress(v)'
  BY <1>1 DEF TypeOK, End, Progress, Idle, Inserting
<1>2. ASSUME NextRow(w), pc[w] = "place",
             \A u \in Writer \ {w} : pending'[u] = pending[u]
      PROVE  Progress(v)'
  BY <1>0, <1>2 DEF TypeOK, NextRow, Progress, Inserting
<1>3. ASSUME NEW c \in Call, Start(w, c) PROVE Progress(v)'
  BY <1>3 DEF TypeOK, Start, Progress, Idle, Inserting
<1>4. CASE ReadHead(w)
  BY <1>0, <1>4 DEF TypeOK, ReadHead, Progress, Inserting
<1>5. CASE DrawPosition(w)
  BY <1>5 DEF TypeOK, DrawPosition, Progress, Inserting
<1>6. CASE SkipRow(w)
  BY <1>2, <1>6 DEF SkipRow
<1>7. CASE InsertRow(w)
  BY <1>2, <1>7 DEF InsertRow, TypeOK
<1> QED
  BY <1>1, <1>3, <1>4, <1>5, <1>6, <1>7
     DEF Step, CheckStale, VersionTaken, CheckAllSkipped, RefusePartial,
         Commit, Fail, Answers

\* The variables have their types in every reachable state.  The index of
\* the row being built stays inside the batch (Progress), or a row's id
\* would have no type.
THEOREM TypesHold == Spec => []TypeOK
<1> DEFINE Typed == TypeOK /\ \A w \in Writer : Progress(w)
<1>1. Init => Typed
  BY BoundAssumption DEF Init, TypeOK, Progress, Idle, Inserting, Answers
<1>2. Typed /\ [Next]_vars => Typed'
  <2> SUFFICES ASSUME Typed, [Next]_vars PROVE Typed'
    OBVIOUS
  <2>1. ASSUME NEW w \in Writer, Step(w) PROVE Typed'
    BY <2>1, StepKeepsTypes, StepKeepsProgress
  <2>2. CASE UNCHANGED vars
    BY <2>2 DEF vars, TypeOK, Progress
  <2> QED
    BY <2>1, <2>2 DEF Next
<1>3. Typed => TypeOK
  OBVIOUS
<1> QED
  BY <1>1, <1>2, <1>3, PTL DEF Spec

-------------------------------------------------------------------------------
\* The parts of IInv about one writer, and about two.
Held(w) ==
  /\ OwnRows(w)
  /\ NotCommitted(w)
  /\ PrefixStored(w)
  /\ PrefixOlder(w)
  /\ DrawnInOrder(w)

\* What a step must not disturb when it commits nothing.
LogGood == GapFree /\ PositionsFollowVersions /\ AckedIsStored

LEMMA LogUntouched ==
  ASSUME LogGood, UNCHANGED events,
         \A c \in acked' : c \in acked \/ IsReplay(c)
  PROVE  LogGood'
BY DEF LogGood, GapFree, PositionsFollowVersions, AckedIsStored, IsReplay

\* A writer that does not move, while the log stands still.
LEMMA HeldByOthers ==
  ASSUME NEW v \in Writer, Held(v), UNCHANGED events,
         pc'[v] = pc[v], call'[v] = call[v], pending'[v] = pending[v],
         done'[v] = done[v], pos'[v] = pos[v]
  PROVE  Held(v)'
BY DEF Held, OwnRows, NotCommitted, PrefixStored, PrefixOlder, DrawnInOrder,
       VersionOf

\* A writer that holds nothing and is not inserting.
LEMMA HeldByNobody ==
  ASSUME NEW v \in Writer, pending'[v] = {}, pc'[v] \notin Inserting
  PROVE  Held(v)'
BY DEF Held, OwnRows, NotCommitted, PrefixStored, PrefixOlder, DrawnInOrder,
       Inserting

\* A call that ends without committing.
LEMMA EndKeeps ==
  ASSUME IInv, NEW w \in Writer, NEW a \in Answers, End(w, a),
         UNCHANGED events, a = "stored" => IsReplay(call[w])
  PROVE  /\ \A v \in Writer : Held(v)'
         /\ \A u, v \in Writer : u # v => Exclusive(u, v)'
         /\ Drawn'
         /\ LogGood'
<1>1. TypeOK
  BY DEF IInv
<1>2. pending'[w] = {} /\ pc'[w] \notin Inserting /\ pos'[w] = 0
  BY <1>1 DEF TypeOK, End, Idle, Inserting
<1>3. \A v \in Writer \ {w} :
        /\ pc'[v] = pc[v] /\ call'[v] = call[v] /\ pending'[v] = pending[v]
        /\ done'[v] = done[v] /\ pos'[v] = pos[v]
  BY <1>1 DEF TypeOK, End
<1>4. \A v \in Writer : Held(v)
  BY DEF IInv, Held
<1>5. \A v \in Writer : Held(v)'
  BY <1>2, <1>3, <1>4, HeldByOthers, HeldByNobody
<1>6. \A u, v \in Writer : u # v => Exclusive(u, v)'
  BY <1>2, <1>3 DEF IInv, Exclusive
<1>7. Drawn'
  BY <1>1, <1>2, <1>3 DEF IInv, Drawn, End, TypeOK
<1>8. LogGood'
  <2>1. \A c \in acked' : c \in acked \/ IsReplay(c)
    BY DEF End
  <2> QED
    BY <2>1, LogUntouched DEF IInv, LogGood
<1> QED
  BY <1>5, <1>6, <1>7, <1>8

\* A call starts, or reads the head of its stream.
LEMMA BeginKeeps ==
  ASSUME IInv, NEW w \in Writer,
         (\E c \in Call : Start(w, c)) \/ ReadHead(w)
  PROVE  /\ \A v \in Writer : Held(v)'
         /\ \A u, v \in Writer : u # v => Exclusive(u, v)'
         /\ Drawn'
         /\ LogGood'
<1>1. TypeOK /\ Progress(w)
  BY DEF IInv
<1>2. pending'[w] = {} /\ UNCHANGED <<events, nextPos, pending, pos, acked>>
  BY <1>1 DEF Start, ReadHead, Progress, Idle, Inserting
<1>3. \A v \in Writer \ {w} :
        pc'[v] = pc[v] /\ call'[v] = call[v] /\ done'[v] = done[v]
  BY <1>1 DEF TypeOK, Start, ReadHead
<1>4. \A v \in Writer : Held(v)
  BY DEF IInv, Held
<1>5. Held(w)'
  <2>1. ASSUME NEW c \in Call, Start(w, c) PROVE Held(w)'
    BY <1>1, <1>2, <2>1, HeldByNobody DEF Start, TypeOK, Inserting
  <2>2. CASE ReadHead(w)
    <3>1. CASE HeadIs(call[w].stream, call[w].expected)
      <4>1. pc'[w] = "draw" /\ call' = call
        BY <1>1, <2>2, <3>1 DEF ReadHead, TypeOK
      <4>2. call[w] \in Call /\ call[w].expected \in Nat
        BY <1>1, BatchShape DEF TypeOK
      <4>3. \A u \in 1..call[w].expected :
              \E q \in events : q.stream = call[w].stream /\ q.version = u
        BY <3>1, <4>2 DEF HeadIs, IInv, GapFree
      <4> QED
        BY <1>2, <4>1, <4>3
           DEF Held, OwnRows, NotCommitted, PrefixStored, PrefixOlder,
               DrawnInOrder
    <3>2. CASE ~HeadIs(call[w].stream, call[w].expected)
      BY <1>1, <1>2, <2>2, <3>2, HeldByNobody DEF ReadHead, TypeOK, Inserting
    <3> QED
      BY <3>1, <3>2
  <2> QED
    BY <2>1, <2>2
<1>6. \A v \in Writer : Held(v)'
  BY <1>2, <1>3, <1>4, <1>5, HeldByOthers
<1>7. \A u, v \in Writer : u # v => Exclusive(u, v)'
  BY <1>2 DEF IInv, Exclusive
<1>8. Drawn'
  BY <1>2 DEF IInv, Drawn
<1>9. LogGood'
  BY <1>2, LogUntouched DEF IInv, LogGood
<1> QED
  BY <1>6, <1>7, <1>8, <1>9

\* A position is drawn: it is above every position in use.
LEMMA DrawKeeps ==
  ASSUME IInv, NEW w \in Writer, DrawPosition(w)
  PROVE  /\ \A v \in Writer : Held(v)'
         /\ \A u, v \in Writer : u # v => Exclusive(u, v)'
         /\ Drawn'
         /\ LogGood'
<1>1. TypeOK
  BY DEF IInv
<1>2. /\ UNCHANGED <<events, call, pending, done, acked>>
      /\ pos'[w] = nextPos /\ nextPos' = nextPos + 1
      /\ pc[w] = "draw" /\ pc'[w] = "place"
  BY <1>1 DEF DrawPosition, TypeOK
<1>3. \A v \in Writer \ {w} : pc'[v] = pc[v] /\ pos'[v] = pos[v]
  BY <1>1 DEF TypeOK, DrawPosition
<1>4. \A v \in Writer : Held(v)
  BY DEF IInv, Held
<1>5. Held(w)'
  BY <1>2, <1>4
     DEF Held, OwnRows, NotCommitted, PrefixStored, PrefixOlder, DrawnInOrder,
         VersionOf, IInv, Drawn, Inserting
<1>6. \A v \in Writer : Held(v)'
  BY <1>2, <1>3, <1>4, <1>5, HeldByOthers
<1>7. \A u, v \in Writer : u # v => Exclusive(u, v)'
  BY <1>2 DEF IInv, Exclusive
<1>8. Drawn'
  <2>1. \A v \in Writer : pos[v] \in Nat /\ \A r \in pending[v] : r.pos \in Nat
    BY <1>1 DEF TypeOK, Row
  <2>2. nextPos \in Nat /\ \A r \in events : r.pos \in Nat
    BY <1>1 DEF TypeOK, Row
  <2> QED
    BY <1>2, <1>3, <2>1, <2>2 DEF IInv, Drawn
<1>9. LogGood'
  BY <1>2, LogUntouched DEF IInv, LogGood
<1> QED
  BY <1>6, <1>7, <1>8, <1>9

\* A row is skipped: its position is lost, nothing else changes.
LEMMA SkipKeeps ==
  ASSUME IInv, NEW w \in Writer, SkipRow(w)
  PROVE  /\ \A v \in Writer : Held(v)'
         /\ \A u, v \in Writer : u # v => Exclusive(u, v)'
         /\ Drawn'
         /\ LogGood'
<1>1. TypeOK
  BY DEF IInv
<1>2. /\ UNCHANGED <<events, nextPos, call, pending, acked>>
      /\ pos'[w] = 0 /\ done'[w] = done[w] + 1
      /\ pc[w] = "place" /\ pc'[w] \in {"draw", "inserted"}
  BY <1>1 DEF SkipRow, NextRow, TypeOK
<1>3. \A v \in Writer \ {w} :
        pc'[v] = pc[v] /\ pos'[v] = pos[v] /\ done'[v] = done[v]
  BY <1>1 DEF TypeOK, SkipRow, NextRow
<1>4. \A v \in Writer : Held(v)
  BY DEF IInv, Held
<1>5. Held(w)'
  <2>1. call[w] \in Call /\ done[w] \in Nat
    BY <1>1 DEF TypeOK
  <2>2. OwnRows(w)'
    BY <1>2, <1>4, <2>1, BatchShape DEF Held, OwnRows, VersionOf
  <2> QED
    BY <1>2, <1>4, <2>2
       DEF Held, NotCommitted, PrefixStored, PrefixOlder, DrawnInOrder,
           Inserting
<1>6. \A v \in Writer : Held(v)'
  BY <1>2, <1>3, <1>4, <1>5, HeldByOthers
<1>7. \A u, v \in Writer : u # v => Exclusive(u, v)'
  BY <1>2 DEF IInv, Exclusive
<1>8. Drawn'
  BY <1>1, <1>2, <1>3 DEF IInv, Drawn, TypeOK
<1>9. LogGood'
  BY <1>2, LogUntouched DEF IInv, LogGood
<1> QED
  BY <1>6, <1>7, <1>8, <1>9

\* A row is inserted: its slot and its id were free among the committed rows
\* and among the rows of every other open transaction.
LEMMA InsertKeeps ==
  ASSUME IInv, NEW w \in Writer, InsertRow(w)
  PROVE  /\ \A v \in Writer : Held(v)'
         /\ \A u, v \in Writer : u # v => Exclusive(u, v)'
         /\ Drawn'
         /\ LogGood'
<1> DEFINE i == done[w] + 1
           row == [pos |-> pos[w], stream |-> call[w].stream,
                   version |-> VersionOf(w, i), id |-> call[w].ids[i]]
<1>1. TypeOK /\ Progress(w)
  BY DEF IInv
<1>2. /\ UNCHANGED <<events, nextPos, call, acked>>
      /\ pending'[w] = pending[w] \union {row}
      /\ pos'[w] = 0 /\ done'[w] = i
      /\ pc[w] = "place" /\ pc'[w] \in {"draw", "inserted"}
  BY <1>1 DEF InsertRow, NextRow, TypeOK
<1>3. \A v \in Writer \ {w} :
        /\ pc'[v] = pc[v] /\ pos'[v] = pos[v] /\ done'[v] = done[v]
        /\ pending'[v] = pending[v]
  BY <1>1 DEF TypeOK, InsertRow, NextRow
<1>4. \A v \in Writer : Held(v)
  BY DEF IInv, Held
<1>5. /\ call[w] \in Call /\ done[w] \in Nat /\ call[w].expected \in Nat
      /\ i \in DOMAIN call[w].ids
  <2>1. call[w] \in Call /\ done[w] \in Nat /\ done[w] < Len(call[w].ids)
    BY <1>1, <1>2 DEF TypeOK, Progress
  <2> QED
    BY <2>1, BatchShape
<1>6. \A q \in events :
        row.id # q.id /\ ~(row.stream = q.stream /\ row.version = q.version)
  BY DEF InsertRow, RowIsFree, SameSlot
<1>7. \A v \in Writer \ {w} : \A q \in pending[v] :
        row.id # q.id /\ ~(row.stream = q.stream /\ row.version = q.version)
  BY DEF InsertRow, RowIsFree, SameSlot, OthersPending
<1>8. Held(w)'
  <2>1. OwnRows(w)'
    <3>1. ASSUME NEW r \in pending[w]
          PROVE  \E j \in DOMAIN call[w].ids :
                   /\ j <= i /\ r.stream = call[w].stream
                   /\ r.version = VersionOf(w, j) /\ r.id = call[w].ids[j]
      BY <1>4, <1>5, BatchShape DEF Held, OwnRows
    <3> QED
      BY <1>2, <1>5, <3>1 DEF OwnRows, VersionOf
  <2>2. NotCommitted(w)'
    BY <1>2, <1>4, <1>6 DEF Held, NotCommitted
  <2>3. PrefixStored(w)'
    BY <1>2, <1>4 DEF Held, PrefixStored, Inserting
  <2>4. PrefixOlder(w)'
    BY <1>2, <1>4 DEF Held, PrefixOlder
  <2>5. DrawnInOrder(w)'
    <3>1. ASSUME NEW r \in pending[w]
          PROVE  r.version < row.version /\ r.pos < row.pos
      <4>1. PICK j \in DOMAIN call[w].ids : j <= done[w] /\ r.version = VersionOf(w, j)
        BY <1>4 DEF Held, OwnRows
      <4>2. j \in Nat
        BY <1>5, BatchShape
      <4>3. r.version < row.version
        BY <1>5, <4>1, <4>2 DEF VersionOf
      <4>4. r.pos < row.pos
        BY <1>2, <1>4 DEF Held, DrawnInOrder
      <4> QED
        BY <4>3, <4>4
    <3>2. \A r \in pending[w] : r.version \in Nat
      BY <1>1 DEF TypeOK, Row
    <3>3. row.version \in Nat
      BY <1>5 DEF VersionOf
    <3> QED
      BY <1>2, <1>4, <3>1, <3>2, <3>3 DEF Held, DrawnInOrder
  <2> QED
    BY <2>1, <2>2, <2>3, <2>4, <2>5 DEF Held
<1>9. \A v \in Writer : Held(v)'
  BY <1>2, <1>3, <1>4, <1>8, HeldByOthers
<1>10. \A u, v \in Writer : u # v => Exclusive(u, v)'
  <2> SUFFICES ASSUME NEW u \in Writer, NEW v \in Writer, u # v
               PROVE  Exclusive(u, v)'
    OBVIOUS
  <2>1. Exclusive(u, v)
    BY DEF IInv
  <2>2. CASE u = w
    BY <1>2, <1>3, <1>7, <2>1, <2>2 DEF Exclusive
  <2>3. CASE v = w
    BY <1>2, <1>3, <1>7, <2>1, <2>3 DEF Exclusive
  <2>4. CASE u # w /\ v # w
    BY <1>3, <2>1, <2>4 DEF Exclusive
  <2> QED
    BY <2>2, <2>3, <2>4
<1>11. Drawn'
  BY <1>1, <1>2, <1>3 DEF IInv, Drawn, TypeOK
<1>12. LogGood'
  BY <1>2, LogUntouched DEF IInv, LogGood
<1> QED
  BY <1>9, <1>10, <1>11, <1>12

-------------------------------------------------------------------------------
\* What a writer whose whole batch is inserted holds: exactly the row of each
\* of its events, at the version it asked for.
LEMMA WholeBatch ==
  ASSUME IInv, NEW w \in Writer, pc[w] = "inserted", WholeBatchInserted(w),
         NEW i \in DOMAIN call[w].ids
  PROVE  \E r \in pending[w] : /\ r.stream = call[w].stream
                               /\ r.version = call[w].expected + i
                               /\ r.id = call[w].ids[i]
<1>1. call[w] \in Call
  BY DEF IInv, TypeOK
<1>2. PICK r \in pending[w] : r.id = call[w].ids[i]
  BY DEF WholeBatchInserted
<1>3. PICK j \in DOMAIN call[w].ids :
        /\ r.stream = call[w].stream
        /\ r.version = VersionOf(w, j)
        /\ r.id = call[w].ids[j]
  BY DEF IInv, OwnRows
<1>4. i = j
  BY <1>1, <1>2, <1>3, BatchShape
<1> QED
  BY <1>2, <1>3, <1>4 DEF VersionOf

\* The stream of a writer about to commit ends at the version it expected:
\* a later event would sit on the slot of its first row.
LEMMA NothingAbove ==
  ASSUME IInv, NEW w \in Writer, pc[w] = "inserted", WholeBatchInserted(w),
         NEW q \in events, q.stream = call[w].stream
  PROVE  q.version <= call[w].expected
<1>1. call[w] \in Call /\ call[w].expected \in Nat /\ 1 \in DOMAIN call[w].ids
  <2>1. call[w] \in Call
    BY DEF IInv, TypeOK
  <2> QED
    BY <2>1, BatchShape
<1>2. q.version \in Nat
  BY DEF IInv, TypeOK, Row
<1>3. PICK r \in pending[w] : /\ r.stream = call[w].stream
                              /\ r.version = call[w].expected + 1
  BY <1>1, WholeBatch
<1>4. SUFFICES ASSUME q.version > call[w].expected PROVE FALSE
  BY <1>1, <1>2
<1>5. call[w].expected + 1 \in 1..q.version
  BY <1>1, <1>2, <1>4
<1>6. PICK p \in events : /\ p.stream = q.stream
                          /\ p.version = call[w].expected + 1
  BY <1>5 DEF IInv, GapFree
<1> QED
  BY <1>3, <1>6 DEF IInv, NotCommitted

\* The rows of a commit complete their stream and come after it.
LEMMA CommitKeepsLog ==
  ASSUME IInv, NEW w \in Writer, Commit(w)
  PROVE  LogGood'
<1>0. PICK a \in {"stored", "unknown"} : End(w, a)
  BY DEF Commit
<1>1. /\ pc[w] = "inserted" /\ WholeBatchInserted(w)
      /\ events' = events \union pending[w]
  BY DEF Commit
<1>2. /\ events \subseteq Row /\ pending[w] \subseteq Row
      /\ call[w] \in Call /\ call[w].expected \in Nat
  BY BatchShape DEF IInv, TypeOK
<1>3. ASSUME NEW r \in pending[w]
      PROVE  \E i \in DOMAIN call[w].ids :
               r.stream = call[w].stream /\ r.version = call[w].expected + i
  BY DEF IInv, OwnRows, VersionOf
<1>4. GapFree'
  <2> SUFFICES ASSUME NEW r \in events', NEW v \in 1..r.version
               PROVE  \E q \in events' : q.stream = r.stream /\ q.version = v
    BY DEF GapFree
  <2>1. CASE r \in events
    BY <1>1, <2>1 DEF IInv, GapFree
  <2>2. CASE r \in pending[w]
    <3>1. PICK i \in DOMAIN call[w].ids :
            r.stream = call[w].stream /\ r.version = call[w].expected + i
      BY <1>3, <2>2
    <3>2. CASE v <= call[w].expected
      <4>1. v \in 1..call[w].expected
        BY <1>2, <3>2
      <4> QED
        BY <1>1, <3>1, <4>1 DEF IInv, PrefixStored, Inserting
    <3>3. CASE v > call[w].expected
      <4>1. /\ v - call[w].expected \in DOMAIN call[w].ids
            /\ call[w].expected + (v - call[w].expected) = v
        BY <1>2, <3>1, <3>3, BatchShape
      <4> QED
        BY <1>1, <3>1, <4>1, WholeBatch
    <3> QED
      BY <1>2, <3>2, <3>3
  <2> QED
    BY <1>1, <2>1, <2>2
<1>5. PositionsFollowVersions'
  <2> SUFFICES ASSUME NEW q \in events', NEW r \in events',
                      q.stream = r.stream, q.version < r.version
               PROVE  q.pos < r.pos
    BY DEF PositionsFollowVersions
  <2>1. CASE q \in events /\ r \in events
    BY <2>1 DEF IInv, PositionsFollowVersions
  <2>2. CASE q \in pending[w] /\ r \in pending[w]
    BY <2>2 DEF IInv, DrawnInOrder
  <2>3. CASE q \in events /\ r \in pending[w]
    <3>1. q.stream = call[w].stream
      BY <1>3, <2>3
    <3> QED
      BY <1>1, <2>3, <3>1, NothingAbove DEF IInv, PrefixOlder
  <2>4. CASE q \in pending[w] /\ r \in events
    <3>1. PICK i \in DOMAIN call[w].ids :
            q.stream = call[w].stream /\ q.version = call[w].expected + i
      BY <1>3, <2>4
    <3>2. r.version <= call[w].expected
      BY <1>1, <2>4, <3>1, NothingAbove
    <3>3. r.version \in Nat /\ i \in Nat \ {0}
      BY <1>2, <2>4, <3>1, BatchShape DEF Row
    <3> QED
      BY <1>2, <3>1, <3>2, <3>3
  <2> QED
    BY <1>1, <2>1, <2>2, <2>3, <2>4
<1>6. AckedIsStored'
  <2> SUFFICES ASSUME NEW c \in acked' PROVE IsReplay(c)'
    BY DEF AckedIsStored
  <2>1. CASE c \in acked
    BY <1>1, <2>1 DEF IInv, AckedIsStored, IsReplay
  <2>2. CASE c = call[w]
    BY <1>1, <2>2, WholeBatch DEF IsReplay
  <2> QED
    BY <1>0, <2>1, <2>2 DEF End
<1> QED
  BY <1>4, <1>5, <1>6 DEF LogGood

\* The rows of a commit are rows no other writer holds, above the prefix
\* every other writer relies on.
LEMMA CommitKeepsHeld ==
  ASSUME IInv, NEW w \in Writer, Commit(w)
  PROVE  /\ \A v \in Writer : Held(v)'
         /\ \A u, v \in Writer : u # v => Exclusive(u, v)'
         /\ Drawn'
<1>0. PICK a \in {"stored", "unknown"} : End(w, a)
  BY DEF Commit
<1>1. TypeOK /\ events' = events \union pending[w]
  BY DEF Commit, IInv
<1>2. pending'[w] = {} /\ pc'[w] \notin Inserting /\ pos'[w] = 0
  BY <1>0, <1>1 DEF TypeOK, End, Idle, Inserting
<1>3. \A v \in Writer \ {w} :
        /\ pc'[v] = pc[v] /\ call'[v] = call[v] /\ pending'[v] = pending[v]
        /\ done'[v] = done[v] /\ pos'[v] = pos[v]
  BY <1>0, <1>1 DEF TypeOK, End
<1>4. ASSUME NEW v \in Writer \ {w} PROVE Held(v)'
  <2>1. Held(v) /\ Exclusive(v, w)
    BY DEF IInv, Held
  <2>2. OwnRows(v)'
    BY <1>3, <2>1 DEF Held, OwnRows, VersionOf
  <2>3. NotCommitted(v)'
    BY <1>1, <1>3, <2>1 DEF Held, NotCommitted, Exclusive
  <2>4. PrefixStored(v)'
    BY <1>1, <1>3, <2>1 DEF Held, PrefixStored
  <2>5. PrefixOlder(v)'
    <3>1. ASSUME pc[v] \in Inserting, NEW q \in pending[w],
                 q.stream = call[v].stream, q.version <= call[v].expected
          PROVE  FALSE
      <4>1. PICK i \in DOMAIN call[w].ids : q.version = call[w].expected + i
        BY DEF IInv, OwnRows, VersionOf
      <4>2. /\ call[w].expected \in Nat /\ i \in Nat \ {0}
            /\ call[v].expected \in Nat
        BY <1>1, BatchShape DEF TypeOK
      <4>3. q.version \in 1..call[v].expected
        BY <3>1, <4>1, <4>2
      <4>4. PICK p \in events : p.stream = q.stream /\ p.version = q.version
        BY <2>1, <3>1, <4>3 DEF Held, PrefixStored
      <4> QED
        BY <4>4 DEF IInv, NotCommitted
    <3>2. CASE pc[v] \in Inserting
      BY <1>1, <1>3, <2>1, <3>1, <3>2 DEF Held, PrefixOlder
    <3>3. CASE pc[v] \notin Inserting
      BY <1>3, <3>3 DEF IInv, Progress, PrefixOlder, Inserting
    <3> QED
      BY <3>2, <3>3
  <2>6. DrawnInOrder(v)'
    BY <1>3, <2>1 DEF Held, DrawnInOrder
  <2> QED
    BY <2>2, <2>3, <2>4, <2>5, <2>6 DEF Held
<1>5. \A v \in Writer : Held(v)'
  BY <1>2, <1>4, HeldByNobody
<1>6. \A u, v \in Writer : u # v => Exclusive(u, v)'
  BY <1>2, <1>3 DEF IInv, Exclusive
<1>7. Drawn'
  BY <1>0, <1>1, <1>2, <1>3 DEF IInv, Drawn, End, TypeOK
<1> QED
  BY <1>5, <1>6, <1>7

-------------------------------------------------------------------------------
\* IInv is inductive: one case per action of a writer.
LEMMA StepKeepsIInv ==
  ASSUME IInv, NEW w \in Writer, Step(w)
  PROVE  IInv'
<1>1. TypeOK' /\ \A v \in Writer : Progress(v)'
  BY StepKeepsTypes, StepKeepsProgress DEF IInv
<1> DEFINE Kept == /\ \A v \in Writer : Held(v)'
                   /\ \A u, v \in Writer : u # v => Exclusive(u, v)'
                   /\ Drawn'
                   /\ LogGood'
<1>2. Kept
  <2>1. CASE (\E c \in Call : Start(w, c)) \/ ReadHead(w)
    BY <2>1, BeginKeeps
  <2>2. CASE CheckStale(w)
    BY <2>2, EndKeeps DEF CheckStale, Answers
  <2>3. CASE DrawPosition(w)
    BY <2>3, DrawKeeps
  <2>4. CASE SkipRow(w)
    BY <2>4, SkipKeeps
  <2>5. CASE InsertRow(w)
    BY <2>5, InsertKeeps
  <2>6. CASE VersionTaken(w)
    BY <2>6, EndKeeps DEF VersionTaken, Answers
  <2>7. CASE CheckAllSkipped(w)
    BY <2>7, EndKeeps DEF CheckAllSkipped, Answers
  <2>8. CASE RefusePartial(w)
    BY <2>8, EndKeeps DEF RefusePartial, Answers
  <2>9. CASE Commit(w)
    BY <2>9, CommitKeepsHeld, CommitKeepsLog
  <2>10. CASE Fail(w)
    BY <2>10, EndKeeps DEF Fail, Answers
  <2> QED
    BY <2>1, <2>2, <2>3, <2>4, <2>5, <2>6, <2>7, <2>8, <2>9, <2>10 DEF Step
<1> QED
  BY <1>1, <1>2 DEF IInv, Held, LogGood

LEMMA InitIInv == Init => IInv
<1> SUFFICES ASSUME Init PROVE IInv
  OBVIOUS
<1>1. TypeOK
  BY BoundAssumption DEF Init, TypeOK, Idle, Answers
<1>2. \A w \in Writer : Progress(w) /\ OwnRows(w) /\ DrawnInOrder(w)
  BY DEF Init, Progress, OwnRows, DrawnInOrder, Idle, Inserting
<1>3. \A w \in Writer : NotCommitted(w) /\ PrefixStored(w) /\ PrefixOlder(w)
  BY DEF Init, NotCommitted, PrefixStored, PrefixOlder, Idle, Inserting
<1>4. \A w, v \in Writer : Exclusive(w, v)
  BY DEF Init, Exclusive
<1>5. Drawn /\ GapFree /\ PositionsFollowVersions /\ AckedIsStored
  BY DEF Init, Drawn, GapFree, PositionsFollowVersions, AckedIsStored
<1> QED
  BY <1>1, <1>2, <1>3, <1>4, <1>5 DEF IInv

LEMMA NextKeepsIInv == IInv /\ [Next]_vars => IInv'
<1> SUFFICES ASSUME IInv, [Next]_vars PROVE IInv'
  OBVIOUS
<1>1. CASE Next
  BY <1>1, StepKeepsIInv DEF Next
<1>2. CASE UNCHANGED vars
  <2>1. TypeOK' /\ \A w \in Writer : Progress(w)'
    BY <1>2 DEF IInv, vars, TypeOK, Progress
  <2>2. \A w \in Writer : Held(w)'
    BY <1>2, HeldByOthers DEF IInv, Held, vars
  <2>3. \A w, v \in Writer : w # v => Exclusive(w, v)'
    BY <1>2 DEF IInv, vars, Exclusive
  <2>4. Drawn' /\ LogGood'
    BY <1>2, LogUntouched DEF IInv, vars, Drawn, LogGood
  <2> QED
    BY <2>1, <2>2, <2>3, <2>4 DEF IInv, Held, LogGood
<1> QED
  BY <1>1, <1>2

LEMMA IInvHolds == Spec => []IInv
BY InitIInv, NextKeepsIInv, PTL DEF Spec

\* Streams have no gaps, whatever batches race, fail or collide.
THEOREM StreamsAreGapFree == Spec => []GapFree
<1>1. IInv => GapFree
  BY DEF IInv
<1> QED
  BY <1>1, IInvHolds, PTL

\* Inside a stream, position order is version order.
THEOREM PositionOrderIsVersionOrder == Spec => []PositionsFollowVersions
<1>1. IInv => PositionsFollowVersions
  BY DEF IInv
<1> QED
  BY <1>1, IInvHolds, PTL

\* What a caller was told is stored stays stored where it was told.
THEOREM AcknowledgedIsStored == Spec => []AckedIsStored
<1>1. IInv => AckedIsStored
  BY DEF IInv
<1> QED
  BY <1>1, IInvHolds, PTL

\* No retry of a recorded batch is refused.
THEOREM RetryIsNeverRefused == Spec => RefusedOnlyIfAbsent
<1> DEFINE Refused(w) == /\ pc[w] # Idle
                         /\ pc'[w] = Idle
                         /\ answer'[w] \in {"conflict", "inconsistent"}
<1>1. IInv /\ [Next]_vars => [\A w \in Writer : Refused(w) => ~IsReplay(call[w])]_vars
  <2> SUFFICES ASSUME IInv, Next, NEW w \in Writer, Refused(w)
               PROVE  ~IsReplay(call[w])
    BY DEF vars
  <2>1. PICK v \in Writer : Step(v)
    BY DEF Next
  <2>2. TypeOK /\ Progress(w)
    BY DEF IInv
  <2>3. v = w
    BY <2>1, <2>2
       DEF Step, TypeOK, Idle, Start, ReadHead, CheckStale, DrawPosition,
           SkipRow, InsertRow, NextRow, VersionTaken, CheckAllSkipped,
           RefusePartial, Commit, Fail, End
  <2>4. ASSUME NEW a \in Answers, End(w, a) PROVE answer'[w] = a
    BY <2>2, <2>4 DEF End, TypeOK
  <2>5. CASE CheckStale(w) \/ CheckAllSkipped(w)
    BY <2>4, <2>5 DEF CheckStale, CheckAllSkipped, Answers
  <2>6. CASE VersionTaken(w)
    <3>1. pc[w] = "place" /\ \A r \in events : r.id # call[w].ids[done[w] + 1]
      BY <2>6 DEF VersionTaken, RowIsFree
    <3>2. done[w] + 1 \in DOMAIN call[w].ids
      BY <2>2, <3>1, BatchShape DEF Progress, TypeOK
    <3> QED
      BY <3>1, <3>2 DEF IsReplay
  <2>7. CASE RefusePartial(w)
    <3>1. PICK r \in pending[w] : TRUE
      BY <2>7 DEF RefusePartial
    <3>2. PICK i \in DOMAIN call[w].ids : r.id = call[w].ids[i]
      BY <3>1 DEF IInv, OwnRows
    <3> QED
      BY <3>1, <3>2 DEF IInv, NotCommitted, IsReplay
  <2>8. CASE Commit(w) \/ Fail(w)
    BY <2>4, <2>8 DEF Commit, Fail, Answers
  <2>9. CASE \/ (\E c \in Call : Start(w, c)) \/ ReadHead(w)
             \/ DrawPosition(w) \/ SkipRow(w) \/ InsertRow(w)
    BY <2>2, <2>9
       DEF Start, ReadHead, DrawPosition, SkipRow, InsertRow, NextRow, TypeOK,
           Idle
  <2> QED
    BY <2>1, <2>3, <2>5, <2>6, <2>7, <2>8, <2>9 DEF Step
<1> QED
  BY <1>1, IInvHolds, PTL DEF Spec, RefusedOnlyIfAbsent

-------------------------------------------------------------------------------
(***************************************************************************)
(* EventStore implements StreamLog and GlobalFeed, for every set of        *)
(* writers, streams, ids and batches.  For the callers, a commit is the    *)
(* one step in which the log changes and an acknowledged replay is an      *)
(* Acknowledge; for the readers, a step draws, drops or publishes          *)
(* positions; everything else is invisible.                                *)
(***************************************************************************)

\* The entry of the abstract log a row of the table stands for.
EntryOf(r) == [stream |-> r.stream, version |-> r.version, id |-> r.id]

LogEntries == {EntryOf(r) : r \in events}

\* A commit records the batch at the end of its stream.
LEMMA CommitRecords ==
  ASSUME IInv, NEW w \in Writer, Commit(w)
  PROVE  Log!Record(call[w].stream, call[w].expected, call[w].ids)
<1> DEFINE c == call[w]
           new == {[stream |-> c.stream, version |-> c.expected + i,
                    id |-> c.ids[i]] : i \in DOMAIN c.ids}
<1>1. /\ pc[w] = "inserted" /\ WholeBatchInserted(w)
      /\ events' = events \union pending[w]
      /\ c \in Call /\ c.expected \in Nat
  BY BatchShape DEF Commit, IInv, TypeOK
<1>2. \A e \in LogEntries : e.stream = c.stream => e.version <= c.expected
  BY <1>1, NothingAbove DEF LogEntries, EntryOf
<1>3. \/ c.expected = 0
      \/ \E e \in LogEntries : e.stream = c.stream /\ e.version = c.expected
  <2> SUFFICES ASSUME c.expected # 0
               PROVE  \E e \in LogEntries :
                        e.stream = c.stream /\ e.version = c.expected
    OBVIOUS
  <2>1. c.expected \in 1..c.expected
    BY <1>1
  <2>2. PICK q \in events : q.stream = c.stream /\ q.version = c.expected
    BY <1>1, <2>1 DEF IInv, PrefixStored, Inserting
  <2>3. EntryOf(q) \in LogEntries
    BY DEF LogEntries
  <2> QED
    BY <2>2, <2>3 DEF EntryOf
<1>4. \A e \in LogEntries, i \in DOMAIN c.ids : e.id # c.ids[i]
  <2> SUFFICES ASSUME NEW q \in events, NEW i \in DOMAIN c.ids
               PROVE  q.id # c.ids[i]
    BY DEF LogEntries, EntryOf
  <2>1. PICK r \in pending[w] : r.id = c.ids[i]
    BY <1>1, WholeBatch
  <2> QED
    BY <2>1 DEF IInv, NotCommitted
<1>5. {EntryOf(r) : r \in pending[w]} = new
  <2>1. ASSUME NEW r \in pending[w] PROVE EntryOf(r) \in new
    <3>1. PICK i \in DOMAIN c.ids :
            r.stream = c.stream /\ r.version = c.expected + i /\ r.id = c.ids[i]
      BY DEF IInv, OwnRows, VersionOf
    <3> QED
      BY <3>1 DEF EntryOf
  <2>2. ASSUME NEW i \in DOMAIN c.ids
        PROVE  \E r \in pending[w] :
                 EntryOf(r) = [stream |-> c.stream, version |-> c.expected + i,
                               id |-> c.ids[i]]
    BY <1>1, WholeBatch DEF EntryOf
  <2> QED
    BY <2>1, <2>2
<1>6. LogEntries' = LogEntries \union new
  <2>1. LogEntries' = LogEntries \union {EntryOf(r) : r \in pending[w]}
    BY <1>1 DEF LogEntries, EntryOf
  <2> QED
    BY <1>5, <2>1
<1>7. \/ UNCHANGED acked
      \/ acked' = acked \union {c}
  BY DEF Commit, End
<1>8. c = [stream |-> c.stream, expected |-> c.expected, ids |-> c.ids]
  BY <1>1 DEF Call
<1> QED
  BY <1>2, <1>3, <1>4, <1>6, <1>7, <1>8
     DEF Log!Record, Log!EndsAt, Log!EntriesOf, LogEntries, EntryOf

\* A call that ends without committing is acknowledged or invisible.
LEMMA EndAcknowledges ==
  ASSUME IInv, NEW w \in Writer, NEW a, End(w, a), UNCHANGED events,
         a = "stored" => IsReplay(call[w])
  PROVE  \/ Log!Acknowledge(call[w].stream, call[w].expected, call[w].ids)
         \/ UNCHANGED Log!logVars
<1> DEFINE c == call[w]
<1>1. LogEntries' = LogEntries
  BY DEF LogEntries, EntryOf
<1>2. c = [stream |-> c.stream, expected |-> c.expected, ids |-> c.ids]
  BY DEF IInv, TypeOK, Call
<1>3. CASE a = "stored"
  <2>1. ASSUME NEW i \in DOMAIN c.ids
        PROVE  [stream |-> c.stream, version |-> c.expected + i,
                id |-> c.ids[i]] \in LogEntries
    <3>1. PICK q \in events : /\ q.stream = c.stream
                              /\ q.version = c.expected + i
                              /\ q.id = c.ids[i]
      BY <1>3 DEF IsReplay
    <3> QED
      BY <3>1 DEF LogEntries, EntryOf
  <2>2. acked' = acked \union {c}
    BY <1>3 DEF End
  <2> QED
    BY <1>1, <1>2, <2>1, <2>2
       DEF Log!Acknowledge, Log!EntriesOf, LogEntries, EntryOf
<1>4. CASE a # "stored"
  BY <1>1, <1>4 DEF End, Log!logVars, LogEntries, EntryOf
<1> QED
  BY <1>3, <1>4

\* Every step of a writer is a step of the log, or invisible to it.
LEMMA StepImplementsLog ==
  ASSUME IInv, NEW w \in Writer, Step(w)
  PROVE  Log!Next \/ UNCHANGED Log!logVars
<1>1. /\ call[w].stream \in Stream
      /\ call[w].expected \in 0..MaxVersion
      /\ call[w].ids \in Batch
  BY DEF IInv, TypeOK, Call
<1>2. CASE Commit(w)
  <2>1. Log!Record(call[w].stream, call[w].expected, call[w].ids)
    BY <1>2, CommitRecords
  <2> QED
    BY <1>1, <2>1 DEF Log!Next, Log!Record
<1>3. CASE CheckStale(w) \/ VersionTaken(w) \/ CheckAllSkipped(w)
             \/ RefusePartial(w) \/ Fail(w)
  <2>1. PICK a : /\ End(w, a) /\ UNCHANGED events
                 /\ a = "stored" => IsReplay(call[w])
    BY <1>3 DEF CheckStale, VersionTaken, CheckAllSkipped, RefusePartial, Fail
  <2> QED
    BY <1>1, <2>1, EndAcknowledges DEF Log!Next
<1>4. CASE \/ (\E c \in Call : Start(w, c)) \/ ReadHead(w)
           \/ DrawPosition(w) \/ SkipRow(w) \/ InsertRow(w)
  <2>1. UNCHANGED <<events, acked>>
    BY <1>4 DEF Start, ReadHead, DrawPosition, SkipRow, InsertRow, NextRow
  <2> QED
    BY <2>1 DEF Log!logVars
<1> QED
  BY <1>2, <1>3, <1>4 DEF Step

\* The transactions of EventStore implement the atomic log.
THEOREM StoreImplementsLog == Spec => ImplementsStreamLog
<1>1. Init => Log!Init
  BY DEF Init, Log!Init
<1>2. IInv /\ [Next]_vars => [Log!Next]_(Log!logVars)
  <2> SUFFICES ASSUME IInv, [Next]_vars
               PROVE  Log!Next \/ UNCHANGED Log!logVars
    OBVIOUS
  <2>1. CASE Next
    BY <2>1, StepImplementsLog DEF Next
  <2>2. CASE UNCHANGED vars
    BY <2>2 DEF vars, Log!logVars
  <2> QED
    BY <2>1, <2>2
<1> QED
  BY <1>1, <1>2, IInvHolds, PTL DEF Spec, ImplementsStreamLog, Log!Spec

-------------------------------------------------------------------------------
\* The positions writer w has drawn and neither lost nor committed, and the
\* committed ones: what Feed is instantiated with.
Open(w) ==
  {r.pos : r \in pending[w]} \union (IF pc[w] = "place" THEN {pos[w]} ELSE {})

OpenMap == [w \in Writer |-> Open(w)]
Visible == {r.pos : r \in events}

\* A step of w leaves what the other writers have drawn alone.
LEMMA OthersKeepOpen ==
  ASSUME TypeOK, NEW w \in Writer, Step(w)
  PROVE  OpenMap' = [OpenMap EXCEPT ![w] = Open(w)']
<1>1. ASSUME NEW v \in Writer \ {w}
      PROVE  pending'[v] = pending[v] /\ pc'[v] = pc[v] /\ pos'[v] = pos[v]
  BY DEF TypeOK, Step, Start, ReadHead, CheckStale, DrawPosition, SkipRow,
         InsertRow, NextRow, VersionTaken, CheckAllSkipped, RefusePartial,
         Commit, Fail, End
<1>2. \A v \in Writer \ {w} : Open(v)' = Open(v)
  BY <1>1 DEF Open
<1> QED
  BY <1>2 DEF OpenMap

\* Every step of a writer draws, drops or publishes positions, or is
\* invisible to a reader.
LEMMA StepImplementsFeed ==
  ASSUME IInv, NEW w \in Writer, Step(w)
  PROVE  Feed!FeedStep \/ UNCHANGED Feed!feedVars
<1>0. TypeOK
  BY DEF IInv
<1>1. OpenMap' = [OpenMap EXCEPT ![w] = Open(w)']
  BY <1>0, OthersKeepOpen
<1>2. OpenMap[w] = Open(w)
  BY DEF OpenMap
<1>3. ASSUME Open(w)' = Open(w), UNCHANGED <<nextPos, events>>
      PROVE  UNCHANGED Feed!feedVars
  <2>1. OpenMap' = OpenMap
    BY <1>1, <1>2, <1>3 DEF OpenMap
  <2> QED
    BY <1>3, <2>1 DEF OpenMap, Open, Feed!feedVars
<1>4. ASSUME NEW P \in SUBSET Open(w), P # {}, Open(w)' = Open(w) \ P,
             UNCHANGED <<nextPos, events>>
      PROVE  Feed!FeedStep
  <2>1. OpenMap' = [OpenMap EXCEPT ![w] = @ \ P]
    BY <1>1, <1>2, <1>4
  <2>2. Feed!Drop(w, P)
    BY <1>4, <2>1 DEF Feed!Drop, OpenMap, Open
  <2> QED
    BY <1>2, <1>4, <2>2 DEF Feed!FeedStep, Feed!Drop, OpenMap, Open
<1>5. CASE DrawPosition(w)
  <2>1. Open(w)' = Open(w) \union {nextPos}
    BY <1>0, <1>5 DEF DrawPosition, Open, TypeOK
  <2>2. OpenMap' = [OpenMap EXCEPT ![w] = @ \union {nextPos}]
    BY <1>1, <1>2, <2>1
  <2> QED
    BY <1>5, <2>2 DEF DrawPosition, OpenMap, Open, Feed!FeedStep, Feed!Draw
<1>6. CASE SkipRow(w)
  <2>1. /\ pc[w] = "place" /\ pc'[w] # "place" /\ pending' = pending
        /\ UNCHANGED <<nextPos, events>>
    BY <1>0, <1>6 DEF SkipRow, NextRow, TypeOK
  <2>2. pos[w] \notin {r.pos : r \in pending[w]}
    <3>1. \A r \in pending[w] : r.pos < pos[w]
      BY <2>1 DEF IInv, DrawnInOrder
    <3>2. pos[w] \in Nat
      BY <1>0 DEF TypeOK
    <3> QED
      BY <3>1, <3>2
  <2>3. Open(w)' = Open(w) \ {pos[w]} /\ pos[w] \in Open(w)
    BY <2>1, <2>2 DEF Open
  <2> QED
    BY <1>4, <2>1, <2>3
<1>7. CASE InsertRow(w)
  <2>1. /\ pc[w] = "place" /\ pc'[w] # "place"
        /\ {r.pos : r \in pending'[w]} = {r.pos : r \in pending[w]} \union {pos[w]}
        /\ UNCHANGED <<nextPos, events>>
    <3> DEFINE row == [pos |-> pos[w], stream |-> call[w].stream,
                       version |-> VersionOf(w, done[w] + 1),
                       id |-> call[w].ids[done[w] + 1]]
    <3>1. pending'[w] = pending[w] \union {row} /\ row.pos = pos[w]
      BY <1>0, <1>7 DEF InsertRow, TypeOK
    <3>2. {r.pos : r \in pending'[w]} = {r.pos : r \in pending[w]} \union {row.pos}
      BY <3>1
    <3> QED
      BY <1>0, <1>7, <3>1, <3>2 DEF InsertRow, NextRow, TypeOK
  <2>2. Open(w)' = Open(w)
    BY <2>1 DEF Open
  <2> QED
    BY <1>3, <2>1, <2>2
<1>8. CASE Commit(w)
  <2>1. /\ pc[w] = "inserted" /\ WholeBatchInserted(w)
        /\ events' = events \union pending[w]
        /\ pending'[w] = {} /\ pc'[w] = Idle /\ nextPos' = nextPos
    BY <1>0, <1>8 DEF Commit, End, TypeOK
  <2>2. Open(w) = {r.pos : r \in pending[w]} /\ Open(w)' = {}
    BY <2>1 DEF Open, Idle
  <2>3. Visible' = Visible \union Open(w)
    BY <2>1, <2>2 DEF Visible
  <2>4. Open(w) # {}
    <3>1. 1 \in DOMAIN call[w].ids
      BY <1>0, BatchShape DEF TypeOK
    <3>2. PICK r \in pending[w] : TRUE
      BY <2>1, <3>1 DEF WholeBatchInserted
    <3> QED
      BY <2>2, <3>2
  <2>5. OpenMap' = [OpenMap EXCEPT ![w] = {}]
    BY <1>1, <2>2
  <2> QED
    BY <1>2, <2>1, <2>3, <2>4, <2>5
       DEF Visible, OpenMap, Open, Feed!FeedStep, Feed!Publish
<1>9. CASE \/ CheckStale(w) \/ VersionTaken(w) \/ CheckAllSkipped(w)
           \/ RefusePartial(w) \/ Fail(w)
  <2>1. /\ pending'[w] = {} /\ pc'[w] = Idle
        /\ UNCHANGED <<nextPos, events>>
    BY <1>0, <1>9 DEF CheckStale, VersionTaken, CheckAllSkipped,
                      RefusePartial, Fail, End, TypeOK
  <2>2. Open(w)' = {}
    BY <2>1 DEF Open, Idle
  <2>3. CASE Open(w) = {}
    BY <1>3, <2>1, <2>2, <2>3
  <2>4. CASE Open(w) # {}
    BY <1>4, <2>1, <2>2, <2>4
  <2> QED
    BY <2>3, <2>4
<1>10. CASE (\E c \in Call : Start(w, c)) \/ ReadHead(w)
  <2>1. /\ pending' = pending /\ pc[w] # "place" /\ pc'[w] # "place"
        /\ UNCHANGED <<nextPos, events>>
    BY <1>0, <1>10 DEF Start, ReadHead, Idle, TypeOK
  <2>2. Open(w)' = Open(w)
    BY <2>1 DEF Open
  <2> QED
    BY <1>3, <2>1, <2>2
<1> QED
  BY <1>5, <1>6, <1>7, <1>8, <1>9, <1>10 DEF Step

\* The transactions of EventStore implement the feed the projections read.
THEOREM StoreImplementsFeed == Spec => ImplementsGlobalFeed
<1>1. Init => Feed!FeedInit
  BY DEF Init, Idle, Feed!FeedInit
<1>2. IInv /\ [Next]_vars => [Feed!FeedStep]_(Feed!feedVars)
  <2> SUFFICES ASSUME IInv, [Next]_vars
               PROVE  Feed!FeedStep \/ UNCHANGED Feed!feedVars
    OBVIOUS
  <2>1. CASE Next
    BY <2>1, StepImplementsFeed DEF Next
  <2>2. CASE UNCHANGED vars
    BY <2>2 DEF vars, Feed!feedVars
  <2> QED
    BY <2>1, <2>2
<1> QED
  BY <1>1, <1>2, IInvHolds, PTL DEF Spec, ImplementsGlobalFeed, Feed!FeedSpec

(***************************************************************************)
(* The context graph, folded from the events (ContextGraph).               *)
(***************************************************************************)
CONSTANTS Object, Caller, MaxEvents, MaxMishaps
VARIABLES log, shown, synced, request, asked, calendar, mapping, mishaps, overlaps

G == INSTANCE ContextGraph
D == INSTANCE ObjectCommands

\* A set of numbers that is not empty has a least one.
LEMMA LessThan ==
  OpToRel(<, Nat) = {p \in Nat \X Nat : p[1] < p[2]}
  BY DEF OpToRel

LEMMA Least ==
  ASSUME NEW some \in SUBSET Nat, some # {}
  PROVE  \E n \in some : \A m \in some : n <= m
<1> DEFINE less == {p \in Nat \X Nat : p[1] < p[2]}
<1>1. IsWellFoundedOn(less, Nat)
  BY NatLessThanWellFounded, LessThan
<1>2. PICK n \in some : \A m \in some : ~(<<m, n>> \in less)
  <2> HIDE DEF less
  <2> QED
    BY <1>1, WFMin
<1>3. ASSUME NEW m \in some PROVE n <= m
  <2>1. m \in Nat /\ n \in Nat
    OBVIOUS
  <2>2. <<m, n>> \in Nat \X Nat /\ <<m, n>> \notin less
    BY <1>2, <2>1
  <2>3. ~(m < n)
    BY <2>2
  <2> QED
    BY <2>1, <2>3
<1> QED
  BY <1>3

\* A set of numbers up to n has a greatest one, and that is Max.
LEMMA Greatest ==
  ASSUME NEW n \in Nat, NEW s \in SUBSET (1..n), s # {}
  PROVE  G!Max(s) \in s /\ \A i \in s : i <= G!Max(s)
<1> DEFINE above == {b \in Nat : \A i \in s : i <= b}
<1>1. PICK b \in above : \A c \in above : b <= c
  <2>1. above \in SUBSET Nat /\ n \in above
    OBVIOUS
  <2> HIDE DEF above
  <2> QED
    BY <2>1, Least
<1>2. b \in s
  <2>1. SUFFICES ASSUME ~(b \in s) PROVE FALSE
    OBVIOUS
  <2>2. b # 0
    <3>1. PICK i \in s : TRUE
      OBVIOUS
    <3>2. i \in 1..n /\ i <= b
      OBVIOUS
    <3> QED
      BY <3>2
  <2>3. b - 1 \in above
    BY <2>1, <2>2
  <2> QED
    BY <1>1, <2>2, <2>3
<1>3. \A i \in s : b >= i
  OBVIOUS
<1>4. G!Max(s) \in s /\ \A i \in s : G!Max(s) >= i
  BY <1>2, <1>3 DEF G!Max
<1>5. ASSUME NEW i \in s PROVE i <= G!Max(s)
  BY <1>4
<1> QED
  BY <1>4, <1>5

(***************************************************************************)
(* A fold over 1..n: FoldLeft is a recursive function on its subsets.  The *)
(* folds in question are named by a record k, so that they share lemmas.   *)
(***************************************************************************)
Graphing == [of |-> "graph"]
Replaying == [of |-> "replay"]
Projecting == [of |-> "row"]
Removing(items, id) == [of |-> "items", items |-> items, id |-> id]

First(k) ==
  CASE k.of = "graph" -> G!NewGraph
    [] k.of \in {"replay", "row"} -> D!NewObject
    [] OTHER -> << >>

Folded(k, s, i) ==
  CASE k.of = "graph" -> G!ApplyEvent(s, i)
    [] k.of = "replay" -> D!ReplayEvent(s, i)
    [] k.of = "row" -> D!ProjectEvent(s, i)
    [] OTHER -> IF k.items[i].id = k.id THEN s ELSE Append(s, k.items[i])

Upto(n) == [i \in 1..n |-> i]

Subsets(n, f) == f = [s \in SUBSET (1..n) |-> f[s]]

\* What a fold is on the subsets of 1..n, one by one.
IsFold(k, n, f) ==
  /\ f[{}] = First(k)
  /\ \A s \in SUBSET (1..n) : s # {} => f[s] = Folded(k, f[s \ {G!Max(s)}], G!Max(s))

\* The equation that FoldLeft chooses a solution of.
FoldOf(k, n, f) ==
  [s \in SUBSET (1..n) |->
     IF s = {} THEN First(k) ELSE Folded(k, f[s \ {G!Max(s)}], G!Max(s))]

LEMMA FoldIs ==
  ASSUME NEW k, NEW n \in Nat, NEW f, Subsets(n, f)
  PROVE  f = FoldOf(k, n, f) <=> IsFold(k, n, f)
<1> DEFINE g == FoldOf(k, n, f)
<1>1. ASSUME NEW s \in SUBSET (1..n), s # {}
      PROVE  g[s] = Folded(k, f[s \ {G!Max(s)}], G!Max(s))
  BY <1>1 DEF FoldOf
<1>2. g[{}] = First(k) /\ {} \in SUBSET (1..n)
  BY DEF FoldOf
<1>3. g = [s \in SUBSET (1..n) |-> g[s]]
  BY DEF FoldOf
<1> HIDE DEF g
<1>4. f = g <=> \A s \in SUBSET (1..n) : f[s] = g[s]
  <2>1. ASSUME \A s \in SUBSET (1..n) : f[s] = g[s] PROVE f = g
    <3>1. [s \in SUBSET (1..n) |-> f[s]] = [s \in SUBSET (1..n) |-> g[s]]
      BY <2>1
    <3> QED
      BY <1>3, <3>1 DEF Subsets
  <2> QED
    BY <2>1
<1>5. ASSUME f = g PROVE IsFold(k, n, f)
  BY <1>1, <1>2, <1>5 DEF IsFold
<1>6. ASSUME IsFold(k, n, f) PROVE \A s \in SUBSET (1..n) : f[s] = g[s]
  <2>1. ASSUME NEW s \in SUBSET (1..n) PROVE f[s] = g[s]
    <3>1. CASE s = {}
      BY <1>2, <1>6, <3>1 DEF IsFold
    <3>2. CASE s # {}
      <4>1. g[s] = Folded(k, f[s \ {G!Max(s)}], G!Max(s))
        BY <1>1, <3>2
      <4>2. f[s] = Folded(k, f[s \ {G!Max(s)}], G!Max(s))
        BY <1>6, <3>2 DEF IsFold
      <4> QED
        BY <4>1, <4>2
    <3> QED
      BY <3>1, <3>2
  <2> QED
    BY <2>1
<1> QED
  BY <1>4, <1>5, <1>6 DEF g

\* Such a function exists: one on 1..m - 1 gives one on 1..m.
LEMMA FoldExists ==
  ASSUME NEW k, NEW n \in Nat
  PROVE  \E f : Subsets(n, f) /\ IsFold(k, n, f)
<1> DEFINE short == {m \in Nat : ~\E f : Subsets(m, f) /\ IsFold(k, m, f)}
<1>1. SUFFICES ASSUME short # {} PROVE FALSE
  OBVIOUS
<1>2. PICK m \in short : \A j \in short : m <= j
  <2>1. short \in SUBSET Nat
    OBVIOUS
  <2> HIDE DEF short
  <2> QED
    BY <1>1, <2>1, Least
<1>3. m # 0
  <2> DEFINE f == [s \in SUBSET (1..0) |-> First(k)]
  <2>1. SUBSET (1..0) = {{}}
    OBVIOUS
  <2>2. f[{}] = First(k) /\ Subsets(0, f)
    BY <2>1 DEF Subsets
  <2>3. IsFold(k, 0, f)
    <3> HIDE DEF f
    <3> QED
      BY <2>1, <2>2 DEF IsFold
  <2> QED
    BY <2>2, <2>3
<1>4. PICK f : Subsets(m - 1, f) /\ IsFold(k, m - 1, f)
  <2>1. m - 1 \in Nat /\ ~(m <= m - 1)
    BY <1>3
  <2> QED
    BY <1>2, <2>1
<1> DEFINE g == [s \in SUBSET (1..m) |->
                   IF s = {} THEN First(k) ELSE Folded(k, f[s \ {G!Max(s)}], G!Max(s))]
<1>5. Subsets(m, g) /\ g[{}] = First(k)
  BY DEF Subsets
<1>6. ASSUME NEW s \in SUBSET (1..m), s # {}
      PROVE  g[s] = Folded(k, f[s \ {G!Max(s)}], G!Max(s))
  BY <1>6
<1> HIDE DEF g
<1>7. ASSUME NEW t \in SUBSET (1..m - 1) PROVE g[t] = f[t]
  <2>1. CASE t = {}
    BY <1>4, <1>5, <2>1 DEF IsFold
  <2>2. CASE t # {}
    <3>1. t \in SUBSET (1..m)
      BY <1>3
    <3>2. g[t] = Folded(k, f[t \ {G!Max(t)}], G!Max(t))
      BY <1>6, <2>2, <3>1
    <3>3. f[t] = Folded(k, f[t \ {G!Max(t)}], G!Max(t))
      BY <1>4, <2>2 DEF IsFold
    <3> QED
      BY <3>2, <3>3
  <2> QED
    BY <2>1, <2>2
<1>8. ASSUME NEW s \in SUBSET (1..m), s # {}
      PROVE  g[s] = Folded(k, g[s \ {G!Max(s)}], G!Max(s))
  <2>1. /\ G!Max(s) \in 1..m
        /\ \A i \in s : i <= G!Max(s)
    BY <1>8, Greatest
  <2>2. ASSUME NEW i \in s \ {G!Max(s)} PROVE i \in 1..m - 1
    <3>1. i \in 1..m /\ i <= G!Max(s) /\ i # G!Max(s)
      BY <2>1
    <3> QED
      BY <2>1, <3>1
  <2>3. s \ {G!Max(s)} \in SUBSET (1..m - 1)
    BY <2>2
  <2> QED
    BY <1>6, <1>7, <1>8, <2>3
<1> QED
  BY <1>2, <1>5, <1>8 DEF IsFold

\* The equation of FoldLeft has a solution, and that is a fold.
LEMMA FoldIsChosen ==
  ASSUME NEW k, NEW n \in Nat
  PROVE  /\ \E f : f = FoldOf(k, n, f)
         /\ \A f : f = FoldOf(k, n, f) => IsFold(k, n, f)
<1>1. PICK g : Subsets(n, g) /\ IsFold(k, n, g)
  BY FoldExists
<1>2. g = FoldOf(k, n, g)
  BY <1>1, FoldIs
<1>3. ASSUME NEW f, f = FoldOf(k, n, f) PROVE IsFold(k, n, f)
  <2>1. Subsets(n, f)
    BY <1>3 DEF Subsets, FoldOf
  <2> QED
    BY <1>3, <2>1, FoldIs
<1> QED
  BY <1>2, <1>3

LEMMA FoldPart ==
  ASSUME NEW k, NEW n \in Nat, NEW f, IsFold(k, n, f), NEW i \in 1..n
  PROVE  f[1..i] = Folded(k, f[1..i - 1], i)
<1>1. 1..i \in SUBSET (1..n) /\ 1..i # {} /\ i \in 1..i
  OBVIOUS
<1>2. G!Max(1..i) \in 1..i /\ \A j \in 1..i : j <= G!Max(1..i)
  BY <1>1, Greatest
<1>3. G!Max(1..i) = i
  BY <1>1, <1>2
<1>4. (1..i) \ {i} = 1..i - 1
  OBVIOUS
<1>5. f[1..i] = Folded(k, f[(1..i) \ {G!Max(1..i)}], G!Max(1..i))
  BY <1>1 DEF IsFold
<1> QED
  BY <1>3, <1>4, <1>5

\* What is folded so far does not depend on how far the fold goes.
LEMMA FoldsAgree ==
  ASSUME NEW k, NEW n \in Nat, NEW f, IsFold(k, n, f), NEW m \in Nat, NEW g, IsFold(k, m, g), n <= m
  PROVE  f[1..n] = g[1..n]
<1> DEFINE apart == {i \in 0..n : f[1..i] # g[1..i]}
<1>1. SUFFICES ASSUME apart # {} PROVE FALSE
  OBVIOUS
<1>2. PICK i \in apart : \A j \in apart : i <= j
  <2>1. apart \in SUBSET Nat
    OBVIOUS
  <2> HIDE DEF apart
  <2> QED
    BY <1>1, <2>1, Least
<1>3. i # 0
  <2>1. 1..0 = {}
    OBVIOUS
  <2> QED
    BY <2>1 DEF IsFold
<1>4. f[1..i - 1] = g[1..i - 1]
  BY <1>2, <1>3
<1>5. f[1..i] = Folded(k, f[1..i - 1], i)
  BY <1>3, FoldPart
<1>6. g[1..i] = Folded(k, g[1..i - 1], i)
  BY <1>3, FoldPart
<1> QED
  BY <1>4, <1>5, <1>6

LEMMA FoldGoesOn ==
  ASSUME NEW k, NEW n \in Nat, NEW f, IsFold(k, n, f), NEW g, IsFold(k, n + 1, g)
  PROVE  g[1..n + 1] = Folded(k, f[1..n], n + 1)
<1>1. PICK m : m = n + 1
  OBVIOUS
<1>2. m \in Nat /\ m \in 1..m /\ m - 1 = n /\ n <= m
  BY <1>1
<1>3. IsFold(k, m, g)
  BY <1>1
<1>4. f[1..n] = g[1..n]
  BY <1>2, <1>3, FoldsAgree
<1>5. g[1..m] = Folded(k, g[1..m - 1], m)
  BY <1>2, <1>3, FoldPart
<1> QED
  BY <1>1, <1>2, <1>4, <1>5

LEMMA FoldBegins ==
  ASSUME NEW k, NEW f, IsFold(k, 0, f)
  PROVE  f[1..0] = First(k)
<1>1. 1..0 = {}
  OBVIOUS
<1> QED
  BY <1>1 DEF IsFold

-------------------------------------------------------------------------------
GraphAt(n) == G!FoldLeft(G!ApplyEvent, G!NewGraph, Upto(n))

LEMMA GraphIsFold ==
  ASSUME NEW n \in Nat
  PROVE  \E f : IsFold(Graphing, n, f) /\ GraphAt(n) = f[1..n]
<1> DEFINE folds(f) ==
      f = [s \in SUBSET (DOMAIN Upto(n)) |->
             IF s = {} THEN G!NewGraph ELSE G!ApplyEvent(f[s \ {G!Max(s)}], Upto(n)[G!Max(s)])]
<1>1. GraphAt(n) = (CHOOSE f : folds(f))[DOMAIN Upto(n)]
  BY Zenon DEF GraphAt, G!FoldLeft, G!MapThenFoldSet
<1>2. DOMAIN Upto(n) = 1..n
  BY DEF Upto
<1>3. ASSUME NEW f PROVE folds(f) <=> f = FoldOf(Graphing, n, f)
  <2>1. ASSUME NEW s \in SUBSET (1..n), s # {}
        PROVE  G!ApplyEvent(f[s \ {G!Max(s)}], Upto(n)[G!Max(s)]) = Folded(Graphing, f[s \ {G!Max(s)}], G!Max(s))
    <3>1. G!Max(s) \in 1..n
      BY <2>1, Greatest
    <3>2. Upto(n)[G!Max(s)] = G!Max(s)
      BY <3>1 DEF Upto
    <3> QED
      BY <3>2 DEF Folded, Graphing
  <2>2. First(Graphing) = G!NewGraph
    BY DEF First, Graphing
  <2>3. [s \in SUBSET (DOMAIN Upto(n)) |->
             IF s = {} THEN G!NewGraph ELSE G!ApplyEvent(f[s \ {G!Max(s)}], Upto(n)[G!Max(s)])]
        = FoldOf(Graphing, n, f)
    BY <1>2, <2>1, <2>2 DEF FoldOf
  <2> QED
    BY <2>3
<1> HIDE DEF folds
<1>4. PICK f : folds(f) /\ f = CHOOSE h : folds(h)
  BY <1>3, FoldIsChosen
<1>5. IsFold(Graphing, n, f)
  BY <1>3, <1>4, FoldIsChosen
<1> QED
  BY <1>1, <1>2, <1>4, <1>5

\* The graph is the first one, with one event after the other.
LEMMA GraphSteps ==
  /\ GraphAt(0) = G!NewGraph
  /\ \A n \in Nat : GraphAt(n + 1) = G!ApplyEvent(GraphAt(n), n + 1)
<1>1. GraphAt(0) = G!NewGraph
  BY GraphIsFold, FoldBegins DEF First, Graphing
<1>2. ASSUME NEW n \in Nat PROVE GraphAt(n + 1) = G!ApplyEvent(GraphAt(n), n + 1)
  <2>1. PICK f : IsFold(Graphing, n, f) /\ GraphAt(n) = f[1..n]
    BY GraphIsFold
  <2>2. PICK g : IsFold(Graphing, n + 1, g) /\ GraphAt(n + 1) = g[1..n + 1]
    BY GraphIsFold
  <2>3. g[1..n + 1] = Folded(Graphing, f[1..n], n + 1)
    BY <2>1, <2>2, FoldGoesOn
  <2> QED
    BY <2>1, <2>2, <2>3 DEF Folded, Graphing
<1> QED
  BY <1>1, <1>2

-------------------------------------------------------------------------------
Changes == {"ObjectSoftDeleted", "ObjectRestored", "FieldValueChanged"}
Signals == {"DesktopSignalConsentGranted", "DesktopSignalConsentRevoked", "DesktopSignalCaptured"}
Events ==
  [type : Changes, object : Object]
    \union [type : {"RelationCreated"}, from : Object, to : Object]
    \union [type : {"RelationRemoved"}, relation : Nat]
    \union [type : Signals]

\* What is removed was created before.
RemovedAfter ==
  \A i \in DOMAIN log :
    log[i].type = "RelationRemoved" => log[i].relation \in 1..i - 1

Grant == {"DesktopSignalConsentGranted"}
Revocation == {"DesktopSignalConsentRevoked"}

\* Who asked when n events were applied found a grant and no later revocation.
Consented(n, i) ==
  \E g \in G!Past(Grant, i) : \A r \in G!Past(Revocation, i) : g < r => n < r

CapturesConsented ==
  \A i \in DOMAIN log :
    log[i].type = "DesktopSignalCaptured" => Consented(asked[i], i - 1)

GraphLog == log \in Seq(Events) /\ RemovedAfter

Created(n) == G!Past({"RelationCreated"}, n)
Removed(n) == G!Past({"RelationRemoved"}, n)
Deleted(n) == G!Past({"ObjectSoftDeleted"}, n)

\* Declared, after n events.
DeclaredAt(n) ==
  {r \in Created(n) :
     /\ \A i \in Removed(n) : log[i].relation # r
     /\ \A o \in {log[r].from, log[r].to} :
          /\ ~G!Gone(o, r)
          /\ \A i \in Deleted(n) : i > r => log[i].object # o}

Graphs ==
  [nodes : SUBSET Object, typed : SUBSET Object,
   related : SUBSET [from : Object, to : Object, relation : Nat],
   tags : SUBSET [object : Object, topic : Nat], signal : Nat]

NodesFit(g, n) ==
  /\ g.nodes = {o \in Object : ~G!Gone(o, n)}
  /\ g.typed = {o \in Object : \A i \in Deleted(n) : log[i].object # o}

EdgesFit(g, n) ==
  \A e \in g.related :
    e.relation \in DeclaredAt(n) /\ e.from = log[e.relation].from /\ e.to = log[e.relation].to

\* A declared relation has an edge that is not younger than it is.
DeclaredFit(g, n) ==
  \A r \in DeclaredAt(n) :
    \/ \E e \in g.related : G!SamePair(e.relation, r) /\ e.relation <= r
    \/ \E s \in Created(r - 1), i \in Removed(n) : G!SamePair(s, r) /\ log[i].relation = s /\ i > r

Written(o, n) == {i \in G!Past({"FieldValueChanged"}, n) : log[i].object = o}
TagsFit(g, n) ==
  \A o \in Object :
    {t.topic : t \in {t \in g.tags : t.object = o}}
      = IF \E i \in Deleted(n) : log[i].object = o THEN {}
        ELSE {i \in Written(o, n) : \A j \in Written(o, n) : j <= i}

SignalFits(g, n) == g.signal # 0 => g.signal \in G!Past({"DesktopSignalCaptured"}, n)

Fits(g, n) ==
  /\ g \in Graphs
  /\ NodesFit(g, n) /\ EdgesFit(g, n) /\ DeclaredFit(g, n) /\ TagsFit(g, n) /\ SignalFits(g, n)

LEMMA PastGrows ==
  ASSUME NEW n \in Nat, NEW types
  PROVE  G!Past(types, n + 1)
           = IF log[n + 1].type \in types THEN G!Past(types, n) \union {n + 1} ELSE G!Past(types, n)
<1>1. 1..n + 1 = (1..n) \union {n + 1}
  OBVIOUS
<1> QED
  BY <1>1 DEF G!Past

LEMMA FirstFits == Fits(G!NewGraph, 0)
<1>1. \A types : G!Past(types, 0) = {}
  BY DEF G!Past
<1>2. G!NewGraph = [nodes |-> Object, typed |-> Object, related |-> {}, tags |-> {}, signal |-> 0]
  BY DEF G!NewGraph
<1> DEFINE g == G!NewGraph
<1>3. /\ g.nodes = Object /\ g.typed = Object /\ g.related = {} /\ g.tags = {} /\ g.signal = 0
      /\ g \in Graphs
  BY <1>2 DEF Graphs
<1> HIDE DEF g
<1>4. NodesFit(g, 0)
  BY <1>1, <1>3 DEF NodesFit, G!Gone, Deleted
<1>5. EdgesFit(g, 0) /\ SignalFits(g, 0)
  BY <1>3 DEF EdgesFit, SignalFits
<1>6. DeclaredFit(g, 0)
  BY <1>1 DEF DeclaredFit, DeclaredAt, Created
<1>7. TagsFit(g, 0)
  BY <1>1, <1>3 DEF TagsFit, Deleted, Written
<1> QED
  BY <1>3, <1>4, <1>5, <1>6, <1>7 DEF Fits, g

LEMMA EventOf ==
  ASSUME GraphLog, NEW i \in DOMAIN log
  PROVE  /\ i \in Nat \ {0}
         /\ log[i] \in Events
         /\ log[i].type \in Changes => log[i].object \in Object
         /\ log[i].type = "RelationCreated" => log[i].from \in Object /\ log[i].to \in Object
         /\ log[i].type = "RelationRemoved" => log[i].relation \in Nat
         /\ log[i].type \in Changes \union Signals \union {"RelationCreated", "RelationRemoved"}
<1>1. log[i] \in Events /\ i \in 1..Len(log) /\ Len(log) \in Nat
  BY DEF GraphLog
<1> QED
  BY <1>1 DEF Events, Changes, Signals

LEMMA GoneStep ==
  ASSUME NEW n \in Nat, NEW o
  PROVE  /\ log[n + 1].type = "ObjectSoftDeleted" /\ log[n + 1].object = o => G!Gone(o, n + 1)
         /\ log[n + 1].type = "ObjectRestored" /\ log[n + 1].object = o => ~G!Gone(o, n + 1)
         /\ log[n + 1].type \notin {"ObjectSoftDeleted", "ObjectRestored"} \/ log[n + 1].object # o
              => (G!Gone(o, n + 1) <=> G!Gone(o, n))
<1>1. /\ \A i \in G!Past({"ObjectSoftDeleted"}, n) : i \in 1..n
      /\ \A i \in G!Past({"ObjectRestored"}, n) : i \in 1..n
  BY DEF G!Past
<1>2. /\ G!Past({"ObjectSoftDeleted"}, n + 1)
           = IF log[n + 1].type = "ObjectSoftDeleted" THEN G!Past({"ObjectSoftDeleted"}, n) \union {n + 1}
             ELSE G!Past({"ObjectSoftDeleted"}, n)
      /\ G!Past({"ObjectRestored"}, n + 1)
           = IF log[n + 1].type = "ObjectRestored" THEN G!Past({"ObjectRestored"}, n) \union {n + 1}
             ELSE G!Past({"ObjectRestored"}, n)
  BY PastGrows
<1>3. CASE log[n + 1].type = "ObjectSoftDeleted"
  <2>1. /\ G!Past({"ObjectSoftDeleted"}, n + 1) = G!Past({"ObjectSoftDeleted"}, n) \union {n + 1}
        /\ G!Past({"ObjectRestored"}, n + 1) = G!Past({"ObjectRestored"}, n)
    BY <1>2, <1>3
  <2>2. ASSUME log[n + 1].object = o PROVE G!Gone(o, n + 1)
    <3>1. \A j \in G!Past({"ObjectRestored"}, n) : j < n + 1
      BY <1>1
    <3> QED
      BY <2>1, <2>2, <3>1 DEF G!Gone
  <2>3. ASSUME log[n + 1].object # o PROVE G!Gone(o, n + 1) <=> G!Gone(o, n)
    BY <2>1, <2>3 DEF G!Gone
  <2> QED
    BY <1>3, <2>2, <2>3
<1>4. CASE log[n + 1].type = "ObjectRestored"
  <2>1. /\ G!Past({"ObjectSoftDeleted"}, n + 1) = G!Past({"ObjectSoftDeleted"}, n)
        /\ G!Past({"ObjectRestored"}, n + 1) = G!Past({"ObjectRestored"}, n) \union {n + 1}
    BY <1>2, <1>4
  <2>2. ASSUME log[n + 1].object = o PROVE ~G!Gone(o, n + 1)
    <3>1. \A j \in G!Past({"ObjectSoftDeleted"}, n) : ~(n + 1 < j)
      BY <1>1
    <3> QED
      BY <2>1, <2>2, <3>1 DEF G!Gone
  <2>3. ASSUME log[n + 1].object # o PROVE G!Gone(o, n + 1) <=> G!Gone(o, n)
    BY <2>1, <2>3 DEF G!Gone
  <2> QED
    BY <1>4, <2>2, <2>3
<1>5. CASE log[n + 1].type \notin {"ObjectSoftDeleted", "ObjectRestored"}
  BY <1>2, <1>5 DEF G!Gone
<1> QED
  BY <1>3, <1>4, <1>5

\* What is declared of older relations changes only by a removal or a deletion.
LEMMA DeclaredStep ==
  ASSUME GraphLog, NEW n \in Nat, n + 1 \in DOMAIN log
  PROVE  /\ \A r \in DeclaredAt(n + 1) : r # n + 1 => r \in DeclaredAt(n)
         /\ \A r \in DeclaredAt(n) :
              r \in DeclaredAt(n + 1)
                \/ (log[n + 1].type = "RelationRemoved" /\ log[n + 1].relation = r)
                \/ (log[n + 1].type = "ObjectSoftDeleted" /\ log[n + 1].object \in {log[r].from, log[r].to})
         /\ \A r \in DeclaredAt(n + 1) :
              /\ log[n + 1].type = "RelationRemoved" => log[n + 1].relation # r
              /\ log[n + 1].type = "ObjectSoftDeleted" => log[n + 1].object \notin {log[r].from, log[r].to}
         /\ \A r \in DeclaredAt(n) : r \in 1..n /\ log[r].type = "RelationCreated"
         /\ n + 1 \in DeclaredAt(n + 1) <=>
              /\ log[n + 1].type = "RelationCreated"
              /\ ~G!Gone(log[n + 1].from, n) /\ ~G!Gone(log[n + 1].to, n)
<1>1. /\ Created(n + 1) = IF log[n + 1].type = "RelationCreated" THEN Created(n) \union {n + 1} ELSE Created(n)
      /\ Removed(n + 1) = IF log[n + 1].type = "RelationRemoved" THEN Removed(n) \union {n + 1} ELSE Removed(n)
      /\ Deleted(n + 1) = IF log[n + 1].type = "ObjectSoftDeleted" THEN Deleted(n) \union {n + 1} ELSE Deleted(n)
  BY PastGrows DEF Created, Removed, Deleted
<1>2. /\ \A r \in Created(n) : r \in 1..n /\ log[r].type = "RelationCreated"
      /\ \A i \in Removed(n) : i \in 1..n /\ log[i].type = "RelationRemoved"
      /\ \A i \in Deleted(n) : i \in 1..n
  BY DEF Created, Removed, Deleted, G!Past
<1>3. \A r \in Created(n) : r # n + 1 /\ n + 1 > r
  BY <1>2
<1>4. \A r \in DeclaredAt(n + 1) : r # n + 1 => r \in DeclaredAt(n)
  BY <1>1 DEF DeclaredAt
<1>5. ASSUME NEW r \in DeclaredAt(n),
             ~(log[n + 1].type = "RelationRemoved" /\ log[n + 1].relation = r),
             ~(log[n + 1].type = "ObjectSoftDeleted" /\ log[n + 1].object \in {log[r].from, log[r].to})
      PROVE  r \in DeclaredAt(n + 1)
  BY <1>1, <1>5 DEF DeclaredAt
<1>6. ASSUME NEW r \in DeclaredAt(n + 1), log[n + 1].type = "RelationRemoved"
      PROVE  log[n + 1].relation # r
  BY <1>1, <1>6 DEF DeclaredAt
<1>7. ASSUME NEW r \in DeclaredAt(n + 1), log[n + 1].type = "ObjectSoftDeleted"
      PROVE  log[n + 1].object \notin {log[r].from, log[r].to}
  <2>1. r \in Created(n) /\ n + 1 \in Deleted(n + 1) /\ n + 1 > r
    BY <1>1, <1>3, <1>7 DEF DeclaredAt
  <2> QED
    BY <2>1 DEF DeclaredAt
<1>8. n + 1 \in DeclaredAt(n + 1) <=>
              /\ log[n + 1].type = "RelationCreated"
              /\ ~G!Gone(log[n + 1].from, n) /\ ~G!Gone(log[n + 1].to, n)
  <2>1. CASE log[n + 1].type # "RelationCreated"
    <3>1. n + 1 \notin Created(n + 1)
      BY <1>1, <1>3, <2>1
    <3> QED
      BY <2>1, <3>1 DEF DeclaredAt
  <2>2. CASE log[n + 1].type = "RelationCreated"
    <3>1. n + 1 \in Created(n + 1) /\ Removed(n + 1) = Removed(n) /\ Deleted(n + 1) = Deleted(n)
      BY <1>1, <2>2
    <3>2. ASSUME NEW i \in Removed(n) PROVE log[i].relation # n + 1
      <4>1. i \in 1..n /\ log[i].type = "RelationRemoved" /\ i \in DOMAIN log
        <5>1. i \in 1..n /\ log[i].type = "RelationRemoved"
          BY <1>2
        <5>2. n + 1 \in 1..Len(log) /\ DOMAIN log = 1..Len(log) /\ Len(log) \in Nat
          BY DEF GraphLog
        <5> QED
          BY <5>1, <5>2
      <4>2. log[i].relation \in 1..i - 1
        BY <4>1 DEF GraphLog, RemovedAfter
      <4> QED
        BY <4>1, <4>2
    <3>3. \A i \in Deleted(n) : ~(i > n + 1)
      BY <1>2
    <3>4. \A o : G!Gone(o, n + 1) <=> G!Gone(o, n)
      BY <2>2, GoneStep
    <3> QED
      BY <2>2, <3>1, <3>2, <3>3, <3>4 DEF DeclaredAt
  <2> QED
    BY <2>1, <2>2
<1> QED
  BY <1>2, <1>4, <1>5, <1>6, <1>7, <1>8 DEF DeclaredAt

Topics(g, o) == {t.topic : t \in {t \in g.tags : t.object = o}}
LastWritten(o, n) == {i \in Written(o, n) : \A j \in Written(o, n) : j <= i}

LEMMA WrittenStep ==
  ASSUME NEW n \in Nat, NEW o
  PROVE  IF log[n + 1].type = "FieldValueChanged" /\ log[n + 1].object = o
           THEN LastWritten(o, n + 1) = {n + 1}
           ELSE LastWritten(o, n + 1) = LastWritten(o, n)
<1>1. G!Past({"FieldValueChanged"}, n + 1)
        = IF log[n + 1].type = "FieldValueChanged" THEN G!Past({"FieldValueChanged"}, n) \union {n + 1}
          ELSE G!Past({"FieldValueChanged"}, n)
  BY PastGrows
<1>2. \A i \in Written(o, n) : i \in 1..n
  BY DEF Written, G!Past
<1>3. CASE log[n + 1].type = "FieldValueChanged" /\ log[n + 1].object = o
  <2>1. Written(o, n + 1) = Written(o, n) \union {n + 1}
    BY <1>1, <1>3 DEF Written
  <2>2. \A i \in Written(o, n) : i <= n + 1 /\ ~(n + 1 <= i)
    BY <1>2
  <2> QED
    BY <1>3, <2>1, <2>2 DEF LastWritten
<1>4. CASE ~(log[n + 1].type = "FieldValueChanged" /\ log[n + 1].object = o)
  <2>1. Written(o, n + 1) = Written(o, n)
    BY <1>1, <1>4 DEF Written
  <2> QED
    BY <1>4, <2>1 DEF LastWritten
<1> QED
  BY <1>3, <1>4

\* An event that is none of the graph's.
LEMMA OthersFit ==
  ASSUME GraphLog, NEW n \in Nat, n + 1 \in DOMAIN log, NEW g, Fits(g, n),
         NEW h, h \in Graphs, h.nodes = g.nodes, h.typed = g.typed, h.related = g.related, h.tags = g.tags,
         log[n + 1].type \in Signals
  PROVE  NodesFit(h, n + 1) /\ EdgesFit(h, n + 1) /\ DeclaredFit(h, n + 1) /\ TagsFit(h, n + 1)
<1>1. /\ Created(n + 1) = Created(n) /\ Removed(n + 1) = Removed(n) /\ Deleted(n + 1) = Deleted(n)
  BY PastGrows DEF Created, Removed, Deleted, Signals
<1>2. \A o : G!Gone(o, n + 1) <=> G!Gone(o, n)
  BY GoneStep DEF Signals
<1>3. DeclaredAt(n + 1) = DeclaredAt(n)
  BY <1>1 DEF DeclaredAt
<1>4. \A o : LastWritten(o, n + 1) = LastWritten(o, n)
  BY WrittenStep DEF Signals
<1>5. NodesFit(h, n + 1)
  BY <1>1, <1>2 DEF NodesFit, Fits
<1>6. EdgesFit(h, n + 1) /\ DeclaredFit(h, n + 1)
  BY <1>1, <1>3 DEF EdgesFit, DeclaredFit, Fits
<1>7. TagsFit(h, n + 1)
  BY <1>1, <1>4 DEF TagsFit, Fits, LastWritten
<1> QED
  BY <1>5, <1>6, <1>7

LEMMA SignalsFit ==
  ASSUME GraphLog, NEW n \in Nat, n + 1 \in DOMAIN log, NEW g, Fits(g, n),
         log[n + 1].type \in Signals
  PROVE  Fits(G!ApplyEvent(g, n + 1), n + 1)
<1>1. G!Past({"DesktopSignalCaptured"}, n + 1)
        = IF log[n + 1].type = "DesktopSignalCaptured" THEN G!Past({"DesktopSignalCaptured"}, n) \union {n + 1}
          ELSE G!Past({"DesktopSignalCaptured"}, n)
  BY PastGrows
<1>2. PICK v \in {0, g.signal, n + 1} :
        /\ G!ApplyEvent(g, n + 1) = [g EXCEPT !.signal = v]
        /\ v = n + 1 => log[n + 1].type = "DesktopSignalCaptured"
  <2>1. CASE log[n + 1].type = "DesktopSignalCaptured"
    <3>1. G!ApplyEvent(g, n + 1) = [g EXCEPT !.signal = n + 1]
      BY <2>1 DEF G!ApplyEvent
    <3> QED
      BY <2>1, <3>1
  <2>2. CASE log[n + 1].type = "DesktopSignalConsentRevoked"
    <3>1. G!ApplyEvent(g, n + 1) = [g EXCEPT !.signal = 0]
      BY <2>2 DEF G!ApplyEvent
    <3> QED
      BY <3>1
  <2>3. CASE log[n + 1].type = "DesktopSignalConsentGranted"
    <3>1. G!ApplyEvent(g, n + 1) = g
      BY <2>3 DEF G!ApplyEvent
    <3>2. g = [g EXCEPT !.signal = g.signal]
      BY DEF Fits, Graphs
    <3>3. g.signal # n + 1
      BY DEF Fits, SignalFits, G!Past
    <3> QED
      BY <3>1, <3>2, <3>3
  <2> QED
    BY <2>1, <2>2, <2>3 DEF Signals
<1> DEFINE h == [g EXCEPT !.signal = v]
<1>3. /\ h \in Graphs /\ h.nodes = g.nodes /\ h.typed = g.typed /\ h.related = g.related /\ h.tags = g.tags
      /\ h.signal = v
  BY <1>2 DEF Fits, Graphs
<1> HIDE DEF h
<1>4. SignalFits(h, n + 1)
  BY <1>1, <1>2, <1>3 DEF SignalFits, Fits
<1>5. NodesFit(h, n + 1) /\ EdgesFit(h, n + 1) /\ DeclaredFit(h, n + 1) /\ TagsFit(h, n + 1)
  BY <1>3, OthersFit
<1> QED
  BY <1>2, <1>3, <1>4, <1>5 DEF Fits, h

LEMMA DeletionFits ==
  ASSUME GraphLog, NEW n \in Nat, n + 1 \in DOMAIN log, NEW g, Fits(g, n),
         log[n + 1].type = "ObjectSoftDeleted"
  PROVE  Fits(G!ApplyEvent(g, n + 1), n + 1)
<1>1. PICK o : o = log[n + 1].object /\ o \in Object
  BY EventOf DEF Changes
<1> DEFINE h == G!DropNode(g, o)
<1>2. G!ApplyEvent(g, n + 1) = h
  BY <1>1 DEF G!ApplyEvent
<1>3. /\ h \in Graphs
      /\ h.nodes = g.nodes \ {o} /\ h.typed = g.typed \ {o}
      /\ h.related = {e \in g.related : o \notin {e.from, e.to}}
      /\ h.tags = {t \in g.tags : t.object # o}
      /\ h.signal = g.signal
  BY DEF G!DropNode, Fits, Graphs
<1> HIDE DEF h
<1>4. /\ Created(n + 1) = Created(n) /\ Removed(n + 1) = Removed(n)
      /\ Deleted(n + 1) = Deleted(n) \union {n + 1}
      /\ G!Past({"DesktopSignalCaptured"}, n + 1) = G!Past({"DesktopSignalCaptured"}, n)
  BY PastGrows DEF Created, Removed, Deleted
<1>5. NodesFit(h, n + 1)
  <2>1. \A p \in Object : G!Gone(p, n + 1) <=> p = o \/ G!Gone(p, n)
    BY <1>1, GoneStep
  <2>2. h.nodes = {p \in Object : ~G!Gone(p, n + 1)}
    BY <1>3, <2>1 DEF Fits, NodesFit
  <2>3. h.typed = {p \in Object : \A i \in Deleted(n + 1) : log[i].object # p}
    BY <1>1, <1>3, <1>4 DEF Fits, NodesFit
  <2> QED
    BY <2>2, <2>3 DEF NodesFit
<1>6. EdgesFit(h, n + 1)
  <2>1. ASSUME NEW e \in h.related
        PROVE  /\ e.relation \in DeclaredAt(n + 1)
               /\ e.from = log[e.relation].from /\ e.to = log[e.relation].to
    <3>1. /\ e \in g.related /\ o \notin {e.from, e.to}
      BY <1>3
    <3>2. e.relation \in DeclaredAt(n) /\ e.from = log[e.relation].from /\ e.to = log[e.relation].to
      BY <3>1 DEF Fits, EdgesFit
    <3> QED
      BY <1>1, <3>1, <3>2, DeclaredStep
  <2> QED
    BY <2>1 DEF EdgesFit
<1>7. DeclaredFit(h, n + 1)
  <2>1. ASSUME NEW r \in DeclaredAt(n + 1), NEW e \in g.related, G!SamePair(e.relation, r)
        PROVE  e \in h.related
    <3>1. e.from = log[e.relation].from /\ e.to = log[e.relation].to
      BY DEF Fits, EdgesFit
    <3>2. o \notin {log[r].from, log[r].to}
      BY <1>1, DeclaredStep
    <3> QED
      BY <1>3, <2>1, <3>1, <3>2 DEF G!SamePair
  <2>2. ASSUME NEW r \in DeclaredAt(n + 1) PROVE r \in DeclaredAt(n)
    <3>1. r # n + 1
      BY DeclaredStep
    <3> QED
      BY <3>1, DeclaredStep
  <2> QED
    BY <1>4, <2>1, <2>2 DEF Fits, DeclaredFit
<1>8. TagsFit(h, n + 1)
  <2>1. \A p \in Object : LastWritten(p, n + 1) = LastWritten(p, n)
    BY WrittenStep
  <2>2. ASSUME NEW p \in Object
        PROVE  Topics(h, p) = IF \E i \in Deleted(n + 1) : log[i].object = p THEN {} ELSE LastWritten(p, n + 1)
    <3>1. CASE p = o
      BY <1>1, <1>3, <1>4, <3>1 DEF Topics
    <3>2. CASE p # o
      <4>1. {t \in h.tags : t.object = p} = {t \in g.tags : t.object = p}
        BY <1>3, <3>2
      <4>2. Topics(g, p) = IF \E i \in Deleted(n) : log[i].object = p THEN {} ELSE LastWritten(p, n)
        BY DEF Fits, TagsFit, Topics, LastWritten
      <4>3. (\E i \in Deleted(n + 1) : log[i].object = p) <=> (\E i \in Deleted(n) : log[i].object = p)
        BY <1>1, <1>4, <3>2
      <4> QED
        BY <2>1, <4>1, <4>2, <4>3 DEF Topics
    <3> QED
      BY <3>1, <3>2
  <2> QED
    BY <2>2 DEF TagsFit, Topics, LastWritten
<1>9. SignalFits(h, n + 1)
  BY <1>3, <1>4 DEF Fits, SignalFits
<1> QED
  BY <1>2, <1>3, <1>5, <1>6, <1>7, <1>8, <1>9 DEF Fits

LEMMA RestorationFits ==
  ASSUME GraphLog, NEW n \in Nat, n + 1 \in DOMAIN log, NEW g, Fits(g, n),
         log[n + 1].type = "ObjectRestored"
  PROVE  Fits(G!ApplyEvent(g, n + 1), n + 1)
<1>1. PICK o : o = log[n + 1].object /\ o \in Object
  BY EventOf DEF Changes
<1> DEFINE h == [g EXCEPT !.nodes = @ \union {o}]
<1>2. G!ApplyEvent(g, n + 1) = h
  BY <1>1 DEF G!ApplyEvent
<1>3. /\ h \in Graphs
      /\ h.nodes = g.nodes \union {o} /\ h.typed = g.typed
      /\ h.related = g.related /\ h.tags = g.tags /\ h.signal = g.signal
  BY <1>1 DEF Fits, Graphs
<1> HIDE DEF h
<1>4. /\ Created(n + 1) = Created(n) /\ Removed(n + 1) = Removed(n) /\ Deleted(n + 1) = Deleted(n)
      /\ G!Past({"DesktopSignalCaptured"}, n + 1) = G!Past({"DesktopSignalCaptured"}, n)
  BY PastGrows DEF Created, Removed, Deleted
<1>5. NodesFit(h, n + 1)
  <2>1. \A p \in Object : G!Gone(p, n + 1) <=> p # o /\ G!Gone(p, n)
    BY <1>1, GoneStep
  <2> QED
    BY <1>1, <1>3, <1>4, <2>1 DEF Fits, NodesFit
<1>6. DeclaredAt(n + 1) = DeclaredAt(n)
  BY <1>4 DEF DeclaredAt
<1>7. EdgesFit(h, n + 1) /\ DeclaredFit(h, n + 1)
  BY <1>3, <1>4, <1>6 DEF Fits, EdgesFit, DeclaredFit
<1>8. TagsFit(h, n + 1)
  <2>1. \A p \in Object : LastWritten(p, n + 1) = LastWritten(p, n)
    BY WrittenStep
  <2> QED
    BY <1>3, <1>4, <2>1 DEF Fits, TagsFit, LastWritten
<1>9. SignalFits(h, n + 1)
  BY <1>3, <1>4 DEF Fits, SignalFits
<1> QED
  BY <1>2, <1>3, <1>5, <1>7, <1>8, <1>9 DEF Fits

LEMMA ValueFits ==
  ASSUME GraphLog, NEW n \in Nat, n + 1 \in DOMAIN log, NEW g, Fits(g, n),
         log[n + 1].type = "FieldValueChanged"
  PROVE  Fits(G!ApplyEvent(g, n + 1), n + 1)
<1>1. PICK o : o = log[n + 1].object /\ o \in Object
  BY EventOf DEF Changes
<1> DEFINE h == G!SetTag(g, o, n + 1)
<1>2. G!ApplyEvent(g, n + 1) = h
  BY <1>1 DEF G!ApplyEvent
<1>3. /\ h \in Graphs
      /\ h.nodes = g.nodes /\ h.typed = g.typed
      /\ h.related = g.related /\ h.signal = g.signal
      /\ o \in g.typed => h.tags = {t \in g.tags : t.object # o} \union {[object |-> o, topic |-> n + 1]}
      /\ o \notin g.typed => h.tags = g.tags
  BY <1>1 DEF G!SetTag, Fits, Graphs
<1> HIDE DEF h
<1>4. /\ Created(n + 1) = Created(n) /\ Removed(n + 1) = Removed(n) /\ Deleted(n + 1) = Deleted(n)
      /\ G!Past({"DesktopSignalCaptured"}, n + 1) = G!Past({"DesktopSignalCaptured"}, n)
  BY PastGrows DEF Created, Removed, Deleted
<1>5. NodesFit(h, n + 1)
  <2>1. \A p \in Object : G!Gone(p, n + 1) <=> G!Gone(p, n)
    BY GoneStep
  <2> QED
    BY <1>1, <1>3, <1>4, <2>1 DEF Fits, NodesFit
<1>6. DeclaredAt(n + 1) = DeclaredAt(n)
  BY <1>4 DEF DeclaredAt
<1>7. EdgesFit(h, n + 1) /\ DeclaredFit(h, n + 1)
  BY <1>3, <1>4, <1>6 DEF Fits, EdgesFit, DeclaredFit
<1>8. TagsFit(h, n + 1)
  <2>1. ASSUME NEW p \in Object
        PROVE  Topics(h, p) = IF \E i \in Deleted(n + 1) : log[i].object = p THEN {} ELSE LastWritten(p, n + 1)
    <3>1. Topics(g, p) = IF \E i \in Deleted(n) : log[i].object = p THEN {} ELSE LastWritten(p, n)
      BY DEF Fits, TagsFit, Topics, LastWritten
    <3>2. p \in g.typed <=> ~\E i \in Deleted(n) : log[i].object = p
      BY DEF Fits, NodesFit
    <3>3. CASE p # o
      <4>1. {t \in h.tags : t.object = p} = {t \in g.tags : t.object = p}
        BY <1>3, <3>3
      <4>2. LastWritten(p, n + 1) = LastWritten(p, n)
        BY <1>1, <3>3, WrittenStep
      <4> QED
        BY <1>4, <3>1, <4>1, <4>2 DEF Topics
    <3>4. CASE p = o /\ o \in g.typed
      <4>1. {t \in h.tags : t.object = p} = {[object |-> o, topic |-> n + 1]}
        BY <1>3, <3>4
      <4>2. Topics(h, p) = {n + 1}
        <5>1. PICK t : t = [object |-> o, topic |-> n + 1]
          OBVIOUS
        <5>2. t.topic = n + 1 /\ {u \in h.tags : u.object = p} = {t}
          BY <4>1, <5>1
        <5> QED
          BY <5>2 DEF Topics
      <4>3. LastWritten(p, n + 1) = {n + 1}
        BY <1>1, <3>4, WrittenStep
      <4> QED
        BY <1>4, <3>2, <3>4, <4>2, <4>3
    <3>5. CASE p = o /\ o \notin g.typed
      BY <1>3, <1>4, <3>1, <3>2, <3>5 DEF Topics
    <3> QED
      BY <3>3, <3>4, <3>5
  <2> QED
    BY <2>1 DEF TagsFit, Topics, LastWritten
<1>9. SignalFits(h, n + 1)
  BY <1>3, <1>4 DEF Fits, SignalFits
<1> QED
  BY <1>2, <1>3, <1>5, <1>7, <1>8, <1>9 DEF Fits

LEMMA CreationFits ==
  ASSUME GraphLog, NEW n \in Nat, n + 1 \in DOMAIN log, NEW g, Fits(g, n),
         log[n + 1].type = "RelationCreated"
  PROVE  Fits(G!ApplyEvent(g, n + 1), n + 1)
<1>1. PICK a, b : a = log[n + 1].from /\ b = log[n + 1].to /\ a \in Object /\ b \in Object
  BY EventOf
<1> DEFINE h == G!AddRelation(g, log[n + 1], n + 1)
           new == [from |-> a, to |-> b, relation |-> n + 1]
           fits == {a, b} \subseteq g.nodes /\ \A r \in g.related : r.from # a \/ r.to # b
<1>2. G!ApplyEvent(g, n + 1) = h
  BY DEF G!ApplyEvent
<1>3. /\ h \in Graphs
      /\ h.nodes = g.nodes /\ h.typed = g.typed /\ h.tags = g.tags /\ h.signal = g.signal
      /\ fits => h.related = g.related \union {new}
      /\ ~fits => h.related = g.related
  <2>1. g \in Graphs /\ new \in [from : Object, to : Object, relation : Nat]
    BY <1>1 DEF Fits
  <2>2. CASE fits
    <3>1. h = [g EXCEPT !.related = @ \union {new}]
      BY <1>1, <2>2 DEF G!AddRelation
    <3> HIDE DEF new, h
    <3> QED
      BY <2>1, <2>2, <3>1 DEF Graphs
  <2>3. CASE ~fits
    <3>1. h = g
      BY <1>1, <2>3 DEF G!AddRelation
    <3> QED
      BY <2>1, <2>3, <3>1
  <2> QED
    BY <2>2, <2>3
<1>4. new.from = a /\ new.to = b /\ new.relation = n + 1
  OBVIOUS
<1> HIDE DEF h, new
<1>5. /\ Created(n + 1) = Created(n) \union {n + 1} /\ Removed(n + 1) = Removed(n)
      /\ Deleted(n + 1) = Deleted(n)
      /\ G!Past({"DesktopSignalCaptured"}, n + 1) = G!Past({"DesktopSignalCaptured"}, n)
  BY PastGrows DEF Created, Removed, Deleted
<1>6. \A p : G!Gone(p, n + 1) <=> G!Gone(p, n)
  BY GoneStep
<1>7. NodesFit(h, n + 1)
  BY <1>3, <1>5, <1>6 DEF Fits, NodesFit
<1>8. \A r \in DeclaredAt(n) : r \in DeclaredAt(n + 1)
  BY DeclaredStep
<1>9. {a, b} \subseteq g.nodes <=> n + 1 \in DeclaredAt(n + 1)
  <2>1. n + 1 \in DeclaredAt(n + 1) <=> ~G!Gone(a, n) /\ ~G!Gone(b, n)
    BY <1>1, DeclaredStep
  <2>2. \A p \in Object : p \in g.nodes <=> ~G!Gone(p, n)
    BY DEF Fits, NodesFit
  <2> QED
    BY <1>1, <2>1, <2>2
<1>10. EdgesFit(h, n + 1)
  <2>1. ASSUME NEW e \in g.related
        PROVE  /\ e.relation \in DeclaredAt(n + 1)
               /\ e.from = log[e.relation].from /\ e.to = log[e.relation].to
    BY <1>8 DEF Fits, EdgesFit
  <2>2. CASE ~fits
    BY <1>3, <2>1, <2>2 DEF EdgesFit
  <2>3. CASE fits
    <3>1. /\ new.relation \in DeclaredAt(n + 1)
          /\ new.from = log[new.relation].from /\ new.to = log[new.relation].to
      BY <1>1, <1>4, <1>9, <2>3
    <3> QED
      BY <1>3, <2>1, <2>3, <3>1 DEF EdgesFit
  <2> QED
    BY <2>2, <2>3
<1>11. \A e \in g.related : e \in h.related
  BY <1>3
<1>12. DeclaredFit(h, n + 1)
  <2>1. ASSUME NEW r \in DeclaredAt(n + 1), r # n + 1
        PROVE  \/ \E e \in h.related : G!SamePair(e.relation, r) /\ e.relation <= r
               \/ \E s \in Created(r - 1), i \in Removed(n + 1) :
                    G!SamePair(s, r) /\ log[i].relation = s /\ i > r
    <3>1. r \in DeclaredAt(n)
      BY <2>1, DeclaredStep
    <3> QED
      BY <1>5, <1>11, <3>1 DEF Fits, DeclaredFit
  <2>2. ASSUME n + 1 \in DeclaredAt(n + 1)
        PROVE  \E e \in h.related : G!SamePair(e.relation, n + 1) /\ e.relation <= n + 1
    <3>1. {a, b} \subseteq g.nodes
      BY <1>9, <2>2
    <3>2. CASE fits
      <4>1. new \in h.related
        BY <1>3, <3>2
      <4> QED
        BY <1>4, <4>1 DEF G!SamePair
    <3>3. CASE ~fits
      <4>1. PICK e \in g.related : e.from = a /\ e.to = b
        BY <3>1, <3>3
      <4>2. e.relation \in DeclaredAt(n) /\ e.from = log[e.relation].from /\ e.to = log[e.relation].to
        BY DEF Fits, EdgesFit
      <4>3. e.relation \in 1..n
        BY <4>2, DeclaredStep
      <4> QED
        BY <1>1, <1>11, <4>1, <4>2, <4>3 DEF G!SamePair
    <3> QED
      BY <3>2, <3>3
  <2>3. ASSUME NEW r \in DeclaredAt(n + 1)
        PROVE  \/ \E e \in h.related : G!SamePair(e.relation, r) /\ e.relation <= r
               \/ \E s \in Created(r - 1), i \in Removed(n + 1) :
                    G!SamePair(s, r) /\ log[i].relation = s /\ i > r
    BY <2>1, <2>2
  <2> QED
    BY <2>3 DEF DeclaredFit
<1>13. TagsFit(h, n + 1)
  <2>1. \A p \in Object : LastWritten(p, n + 1) = LastWritten(p, n)
    BY WrittenStep
  <2> QED
    BY <1>3, <1>5, <2>1 DEF Fits, TagsFit, LastWritten
<1>14. SignalFits(h, n + 1)
  BY <1>3, <1>5 DEF Fits, SignalFits
<1> QED
  BY <1>2, <1>3, <1>7, <1>10, <1>12, <1>13, <1>14 DEF Fits

LEMMA RemovalFits ==
  ASSUME GraphLog, NEW n \in Nat, n + 1 \in DOMAIN log, NEW g, Fits(g, n),
         log[n + 1].type = "RelationRemoved"
  PROVE  Fits(G!ApplyEvent(g, n + 1), n + 1)
<1>1. PICK x : x = log[n + 1].relation /\ x \in Nat
  BY EventOf
<1> DEFINE h == [g EXCEPT !.related = {r \in @ : r.relation # x}]
<1>2. G!ApplyEvent(g, n + 1) = h
  BY <1>1 DEF G!ApplyEvent
<1>3. /\ h \in Graphs
      /\ h.nodes = g.nodes /\ h.typed = g.typed /\ h.tags = g.tags /\ h.signal = g.signal
      /\ h.related = {r \in g.related : r.relation # x}
  BY DEF Fits, Graphs
<1> HIDE DEF h
<1>4. /\ Created(n + 1) = Created(n) /\ Removed(n + 1) = Removed(n) \union {n + 1}
      /\ Deleted(n + 1) = Deleted(n)
      /\ G!Past({"DesktopSignalCaptured"}, n + 1) = G!Past({"DesktopSignalCaptured"}, n)
  BY PastGrows DEF Created, Removed, Deleted
<1>5. NodesFit(h, n + 1)
  <2>1. \A p \in Object : G!Gone(p, n + 1) <=> G!Gone(p, n)
    BY GoneStep
  <2> QED
    BY <1>3, <1>4, <2>1 DEF Fits, NodesFit
<1>6. EdgesFit(h, n + 1)
  <2>1. ASSUME NEW e \in h.related
        PROVE  /\ e.relation \in DeclaredAt(n + 1)
               /\ e.from = log[e.relation].from /\ e.to = log[e.relation].to
    <3>1. e \in g.related /\ e.relation # x
      BY <1>3
    <3>2. e.relation \in DeclaredAt(n) /\ e.from = log[e.relation].from /\ e.to = log[e.relation].to
      BY <3>1 DEF Fits, EdgesFit
    <3> QED
      BY <1>1, <3>1, <3>2, DeclaredStep
  <2> QED
    BY <2>1 DEF EdgesFit
<1>7. DeclaredFit(h, n + 1)
  <2>1. ASSUME NEW r \in DeclaredAt(n + 1)
        PROVE  \/ \E e \in h.related : G!SamePair(e.relation, r) /\ e.relation <= r
               \/ \E s \in Created(r - 1), i \in Removed(n + 1) :
                    G!SamePair(s, r) /\ log[i].relation = s /\ i > r
    <3>1. r # n + 1 /\ r # x
      BY <1>1, DeclaredStep
    <3>2. r \in DeclaredAt(n)
      BY <3>1, DeclaredStep
    <3>3. CASE \E s \in Created(r - 1), i \in Removed(n) : G!SamePair(s, r) /\ log[i].relation = s /\ i > r
      BY <1>4, <3>3
    <3>4. CASE \E e \in g.related : G!SamePair(e.relation, r) /\ e.relation <= r
      <4>1. PICK e \in g.related : G!SamePair(e.relation, r) /\ e.relation <= r
        BY <3>4
      <4>2. CASE e.relation # x
        BY <1>3, <4>1, <4>2
      <4>3. CASE e.relation = x
        <5>1. x \in DeclaredAt(n)
          BY <4>3 DEF Fits, EdgesFit
        <5>2. x \in 1..n /\ r \in 1..n /\ log[x].type = "RelationCreated"
          BY <3>2, <5>1, DeclaredStep
        <5>3. x \in 1..r - 1
          BY <3>1, <4>1, <4>3, <5>2
        <5>4. x \in Created(r - 1)
          BY <5>2, <5>3 DEF Created, G!Past
        <5>5. n + 1 \in Removed(n + 1) /\ n + 1 > r
          BY <1>4, <5>2
        <5> QED
          BY <1>1, <4>1, <4>3, <5>4, <5>5
      <4> QED
        BY <4>2, <4>3
    <3> QED
      BY <3>2, <3>3, <3>4 DEF Fits, DeclaredFit
  <2> QED
    BY <2>1 DEF DeclaredFit
<1>8. TagsFit(h, n + 1)
  <2>1. \A p \in Object : LastWritten(p, n + 1) = LastWritten(p, n)
    BY WrittenStep
  <2> QED
    BY <1>3, <1>4, <2>1 DEF Fits, TagsFit, LastWritten
<1>9. SignalFits(h, n + 1)
  BY <1>3, <1>4 DEF Fits, SignalFits
<1> QED
  BY <1>2, <1>3, <1>5, <1>6, <1>7, <1>8, <1>9 DEF Fits

LEMMA EveryGraphFits ==
  ASSUME GraphLog, NEW n \in 0..Len(log)
  PROVE  Fits(GraphAt(n), n)
<1>1. log \in Seq(Events) /\ Len(log) \in Nat /\ DOMAIN log = 1..Len(log)
  BY DEF GraphLog
<1> DEFINE unfit == {m \in 0..Len(log) : ~Fits(GraphAt(m), m)}
<1>2. SUFFICES ASSUME unfit # {} PROVE FALSE
  BY <1>1
<1>3. PICK m \in unfit : \A k \in unfit : m <= k
  <2>1. unfit \in SUBSET Nat
    BY <1>1
  <2> HIDE DEF unfit
  <2> QED
    BY <1>2, <2>1, Least
<1>4. m # 0
  BY FirstFits, GraphSteps
<1>5. PICK k \in Nat : m = k + 1
  <2>1. m \in Nat /\ m - 1 \in Nat /\ m = (m - 1) + 1
    BY <1>1, <1>4
  <2> QED
    BY <2>1
<1>6. k + 1 \in DOMAIN log /\ Fits(GraphAt(k), k)
  BY <1>1, <1>3, <1>5
<1>7. GraphAt(k + 1) = G!ApplyEvent(GraphAt(k), k + 1)
  BY GraphSteps
<1>8. log[k + 1].type \in Changes \union Signals \union {"RelationCreated", "RelationRemoved"}
  BY <1>6, EventOf
<1>9. Fits(G!ApplyEvent(GraphAt(k), k + 1), k + 1)
  BY <1>6, <1>8, DeletionFits, RestorationFits, ValueFits, SignalsFit, CreationFits, RemovalFits DEF Changes
<1> QED
  BY <1>3, <1>5, <1>7, <1>9

-------------------------------------------------------------------------------
\* The row said, when n events were applied, that there is a consent.
Asks(n) == \E g \in G!Past(Grant, n) : \A r \in G!Past(Revocation, n) : ~(g < r)

Asking ==
  \A c \in Caller :
    /\ request[c].at \in {"idle", "read", "append", "catch up"}
    /\ request[c].at = "append" => request[c].type \in Signals
    /\ \/ request[c].at = "read"
       \/ request[c].at = "append" /\ request[c].type = "DesktopSignalCaptured"
       => request[c].asked \in 0..shown /\ Asks(request[c].asked)

GraphTypes ==
  /\ shown \in 0..Len(log) /\ synced \in 0..Len(log)
  /\ request = [c \in Caller |-> request[c]]
  /\ \E f : asked = [i \in 1..Len(log) |-> f[i]]
  /\ Len(asked) = Len(log)

GraphInv == GraphLog /\ GraphTypes /\ CapturesConsented /\ Asking

LEMMA GraphStarts == G!Init => GraphInv
<1> SUFFICES ASSUME G!Init PROVE GraphInv
  OBVIOUS
<1>1. log = << >> /\ asked = << >> /\ shown = 0 /\ synced = 0 /\ request = [c \in Caller |-> [at |-> "idle"]]
  BY DEF G!Init, G!Idle
<1>2. log \in Seq(Events) /\ Len(log) = 0 /\ DOMAIN log = {}
  BY <1>1
<1>3. GraphLog /\ CapturesConsented
  BY <1>2 DEF GraphLog, RemovedAfter, CapturesConsented
<1>4. GraphTypes
  BY <1>1, <1>2 DEF GraphTypes
<1>5. Asking
  BY <1>1 DEF Asking
<1> QED
  BY <1>3, <1>4, <1>5 DEF GraphInv

LEMMA PastStays ==
  ASSUME log \in Seq(Events), NEW e, log' = Append(log, e), NEW n \in 0..Len(log), NEW types
  PROVE  G!Past(types, n)' = G!Past(types, n)
<1>1. \A i \in 1..n : log'[i] = log[i]
  OBVIOUS
<1> QED
  BY <1>1 DEF G!Past

\* An event is appended; what a capture asked goes with it.
LEMMA LogGrows ==
  ASSUME GraphInv, NEW e \in Events, log' = Append(log, e), NEW a, asked' = Append(asked, a),
         e.type = "RelationRemoved" => e.relation \in 1..Len(log),
         e.type = "DesktopSignalCaptured" => a \in 0..shown /\ Asks(a)
  PROVE  /\ GraphLog' /\ CapturesConsented'
         /\ \E f : asked' = [i \in 1..Len(log') |-> f[i]]
         /\ Len(asked') = Len(log') /\ Len(log') = Len(log) + 1
         /\ \A n \in 0..Len(log) : Asks(n)' <=> Asks(n)
<1>1. /\ log \in Seq(Events) /\ Len(log) \in Nat /\ DOMAIN log = 1..Len(log)
      /\ Len(asked) = Len(log) /\ shown \in 0..Len(log)
  BY DEF GraphInv, GraphLog, GraphTypes
<1>2. PICK f : asked = [i \in 1..Len(log) |-> f[i]]
  BY DEF GraphInv, GraphTypes
<1>3. /\ log' \in Seq(Events) /\ Len(log') = Len(log) + 1 /\ DOMAIN log' = 1..Len(log) + 1
      /\ \A i \in 1..Len(log) : log'[i] = log[i]
      /\ log'[Len(log) + 1] = e
  BY <1>1
<1>4. asked' = [i \in 1..Len(log) + 1 |-> IF i = Len(log) + 1 THEN a ELSE asked[i]]
  BY <1>1, <1>2
<1>5. RemovedAfter'
  <2>1. ASSUME NEW i \in 1..Len(log) + 1, log'[i].type = "RelationRemoved"
        PROVE  log'[i].relation \in 1..i - 1
    <3>1. CASE i = Len(log) + 1
      BY <1>1, <1>3, <2>1, <3>1
    <3>2. CASE i # Len(log) + 1
      <4>1. i \in 1..Len(log)
        BY <1>1, <3>2
      <4> QED
        BY <1>1, <1>3, <2>1, <4>1 DEF GraphInv, GraphLog, RemovedAfter
    <3> QED
      BY <3>1, <3>2
  <2> QED
    BY <1>3, <2>1 DEF RemovedAfter
<1>6. \A n \in 0..Len(log) : \A types : G!Past(types, n)' = G!Past(types, n)
  BY <1>1, PastStays
<1>7. CapturesConsented'
  <2>1. ASSUME NEW i \in 1..Len(log) + 1, log'[i].type = "DesktopSignalCaptured"
        PROVE  Consented(asked[i], i - 1)'
    <3>1. i - 1 \in 0..Len(log)
      BY <1>1
    <3>2. G!Past(Grant, i - 1)' = G!Past(Grant, i - 1) /\ G!Past(Revocation, i - 1)' = G!Past(Revocation, i - 1)
      BY <1>6, <3>1
    <3>3. CASE i = Len(log) + 1
      <4>1. a \in 0..shown /\ Asks(a) /\ asked'[i] = a /\ i - 1 = Len(log)
        BY <1>1, <1>3, <1>4, <2>1, <3>3
      <4>2. PICK g \in G!Past(Grant, a) : \A r \in G!Past(Revocation, a) : ~(g < r)
        BY <4>1 DEF Asks
      <4>3. g \in G!Past(Grant, Len(log))
        BY <1>1, <4>1, <4>2 DEF G!Past
      <4>4. ASSUME NEW r \in G!Past(Revocation, Len(log)), g < r PROVE a < r
        <5>1. r \notin G!Past(Revocation, a) /\ r \in 1..Len(log) /\ log[r].type \in Revocation
          BY <4>2, <4>4 DEF G!Past
        <5> QED
          BY <1>1, <4>1, <5>1 DEF G!Past
      <4>5. \E h \in G!Past(Grant, i - 1)' : \A r \in G!Past(Revocation, i - 1)' : h < r => asked'[i] < r
        BY <3>2, <4>1, <4>3, <4>4
      <4> QED
        BY <4>5 DEF Consented
    <3>4. CASE i # Len(log) + 1
      <4>1. i \in DOMAIN log /\ asked'[i] = asked[i] /\ log[i].type = "DesktopSignalCaptured"
        BY <1>1, <1>3, <1>4, <2>1, <3>4
      <4>2. Consented(asked[i], i - 1)
        BY <4>1 DEF GraphInv, CapturesConsented
      <4>3. \E h \in G!Past(Grant, i - 1)' : \A r \in G!Past(Revocation, i - 1)' : h < r => asked'[i] < r
        BY <3>2, <4>1, <4>2 DEF Consented
      <4> QED
        BY <4>3 DEF Consented
    <3> QED
      BY <3>3, <3>4
  <2> QED
    BY <1>3, <2>1 DEF CapturesConsented
<1>8. ASSUME NEW n \in 0..Len(log) PROVE Asks(n)' <=> Asks(n)
  BY <1>6 DEF Asks
<1>9. \E h : asked' = [i \in 1..Len(log') |-> h[i]]
  <2>1. asked' = [i \in 1..Len(log') |-> asked'[i]]
    BY <1>3, <1>4
  <2> QED
    BY <2>1
<1>10. Len(asked') = Len(log')
  BY <1>1, <1>2, <1>3
<1> QED
  BY <1>3, <1>5, <1>7, <1>8, <1>9, <1>10 DEF GraphLog

LEMMA AppendOfObjectFits ==
  ASSUME GraphInv, G!AppendOfObject
  PROVE  GraphInv'
<1>1. PICK e \in G!OfObjects : log' = Append(log, e)
  BY DEF G!AppendOfObject
<1>2. /\ asked' = Append(asked, 0) /\ shown' = shown /\ synced' = synced /\ request' = request
  BY DEF G!AppendOfObject
<1>3. log \in Seq(Events) /\ DOMAIN log = 1..Len(log) /\ Len(log) \in Nat
  BY DEF GraphInv, GraphLog
<1>4. /\ e \in Events /\ e.type # "DesktopSignalCaptured"
      /\ e.type = "RelationRemoved" => e.relation \in 1..Len(log)
  <2>1. CASE e \in [type : {"ObjectSoftDeleted"}, object : {o \in Object : ~G!Gone(o, Len(log))}]
                    \union [type : {"ObjectRestored", "FieldValueChanged"}, object : Object]
    BY <2>1 DEF Events, Changes
  <2>2. CASE e \in [type : {"RelationCreated"}, from : Object, to : Object]
    BY <2>2 DEF Events
  <2>3. CASE e \in [type : {"RelationRemoved"}, relation : {r \in DOMAIN log : G!Removable(r)}]
    BY <1>3, <2>3 DEF Events
  <2> QED
    BY <1>1, <2>1, <2>2, <2>3 DEF G!OfObjects
<1>5. /\ GraphLog' /\ CapturesConsented' /\ \E f : asked' = [i \in 1..Len(log') |-> f[i]]
      /\ Len(asked') = Len(log') /\ Len(log') = Len(log) + 1
      /\ \A n \in 0..Len(log) : Asks(n)' <=> Asks(n)
  BY <1>1, <1>2, <1>4, LogGrows
<1>6. shown \in 0..Len(log) /\ synced \in 0..Len(log)
  BY DEF GraphInv, GraphTypes
<1>7. GraphTypes'
  <2>1. request = [c \in Caller |-> request[c]]
    BY DEF GraphInv, GraphTypes
  <2>2. request' = [c \in Caller |-> request'[c]]
    BY <1>2, <2>1
  <2>3. shown' \in 0..Len(log') /\ synced' \in 0..Len(log')
    BY <1>2, <1>3, <1>5, <1>6
  <2> QED
    BY <1>5, <2>2, <2>3 DEF GraphTypes
<1>8. Asking'
  <2>1. \A n \in 0..shown : Asks(n) => Asks(n)'
    BY <1>3, <1>5, <1>6
  <2>2. ASSUME NEW c \in Caller,
               request[c].at = "read"
                 \/ (request[c].at = "append" /\ request[c].type = "DesktopSignalCaptured")
        PROVE  request[c].asked \in 0..shown /\ Asks(request[c].asked)'
    <3>1. request[c].asked \in 0..shown /\ Asks(request[c].asked)
      BY <2>2 DEF GraphInv, Asking
    <3>2. \A a \in 0..shown : a = request[c].asked => Asks(a)'
      BY <2>1, <3>1
    <3>3. PICK a \in 0..shown : a = request[c].asked
      BY <3>1
    <3>4. Asks(a)' /\ request'[c].asked = a
      BY <1>2, <3>2, <3>3
    <3> QED
      BY <1>2, <3>1, <3>3, <3>4 DEF Asks
  <2> QED
    BY <1>2, <2>2 DEF GraphInv, Asking
<1> QED
  BY <1>5, <1>7, <1>8 DEF GraphInv

\* What a request may be.
Proper(q) ==
  /\ q.at \in {"idle", "read", "append", "catch up"}
  /\ q.at = "append" => q.type \in Signals
  /\ \/ q.at = "read"
     \/ q.at = "append" /\ q.type = "DesktopSignalCaptured"
     => q.asked \in 0..shown /\ Asks(q.asked)

Becomes(c, q) == request' = [request EXCEPT ![c] = q]

\* A request goes on, and the log is left alone.
LEMMA RequestGoesOn ==
  ASSUME GraphInv, NEW c \in Caller, NEW q, Proper(q), Becomes(c, q),
         UNCHANGED <<log, synced, asked>>, shown' = shown \/ shown' = Len(log)
  PROVE  GraphInv'
<1>1. /\ shown \in 0..Len(log) /\ Len(log) \in Nat /\ Len(log') = Len(log)
      /\ shown' \in shown..Len(log)
  <2>1. shown \in 0..Len(log) /\ log' = log
    BY DEF GraphInv, GraphTypes
  <2>2. log \in Seq(Events)
    BY DEF GraphInv, GraphLog
  <2>3. Len(log) \in Nat
    BY <2>2
  <2> QED
    BY <2>1, <2>3
<1>2. request = [d \in Caller |-> request[d]]
  BY DEF GraphInv, GraphTypes
<1>3. request' = [d \in Caller |-> IF d = c THEN q ELSE request[d]]
  BY <1>2 DEF Becomes
<1>4. GraphLog' /\ CapturesConsented'
  BY DEF GraphInv, GraphLog, RemovedAfter, CapturesConsented, Consented, G!Past
<1>5. GraphTypes'
  <2>1. request' = [d \in Caller |-> request'[d]]
    BY <1>3
  <2>2. shown' \in 0..Len(log)
    BY <1>1
  <2> QED
    BY <2>1, <2>2 DEF GraphInv, GraphTypes
<1>6. Asking'
  <2>1. ASSUME NEW d \in Caller
        PROVE  /\ request'[d].at \in {"idle", "read", "append", "catch up"}
               /\ request'[d].at = "append" => request'[d].type \in Signals
               /\ \/ request'[d].at = "read"
                  \/ request'[d].at = "append" /\ request'[d].type = "DesktopSignalCaptured"
                  => request'[d].asked \in 0..shown /\ Asks(request'[d].asked)
    <3>1. CASE d = c
      BY <1>3, <3>1 DEF Proper
    <3>2. CASE d # c
      <4>1. request'[d] = request[d]
        BY <1>3, <3>2
      <4> QED
        BY <4>1 DEF GraphInv, Asking
    <3> QED
      BY <3>1, <3>2
  <2>2. \A n : Asks(n)' <=> Asks(n)
    BY DEF Asks, G!Past
  <2>3. \A n \in 0..shown : n \in 0..shown'
    BY <1>1
  <2>4. ASSUME NEW d \in Caller
        PROVE  /\ request'[d].at \in {"idle", "read", "append", "catch up"}
               /\ request'[d].at = "append" => request'[d].type \in Signals
               /\ \/ request'[d].at = "read"
                  \/ request'[d].at = "append" /\ request'[d].type = "DesktopSignalCaptured"
                  => request'[d].asked \in 0..shown' /\ Asks(request[d].asked)'
    BY <2>1, <2>2, <2>3 DEF Asks, G!Past
  <2> QED
    BY <2>4 DEF Asking
<1> QED
  BY <1>4, <1>5, <1>6 DEF GraphInv

LEMMA AppendSignalFits ==
  ASSUME GraphInv, NEW c \in Caller, G!AppendSignal(c)
  PROVE  GraphInv'
<1>1. request[c].at = "append" /\ request[c].type \in Signals /\ shown' = shown /\ synced' = synced
  BY DEF G!AppendSignal, GraphInv, Asking
<1>2. Len(log) \in Nat /\ shown \in 0..Len(log) /\ log \in Seq(Events) /\ synced \in 0..Len(log)
  BY DEF GraphInv, GraphTypes, GraphLog
<1>3. PICK q : Becomes(c, q) /\ q.at \in {"idle", "catch up"}
  <2>1. Becomes(c, [at |-> "idle"]) \/ Becomes(c, [at |-> "catch up"])
    BY DEF G!AppendSignal, G!Go, G!Idle, Becomes
  <2>2. PICK i : i = [at |-> "idle"]
    OBVIOUS
  <2>3. PICK j : j = [at |-> "catch up"]
    OBVIOUS
  <2>4. i.at \in {"idle", "catch up"} /\ j.at \in {"idle", "catch up"}
    BY <2>2, <2>3
  <2>5. Becomes(c, i) \/ Becomes(c, j)
    BY <2>1, <2>2, <2>3
  <2> QED
    BY <2>4, <2>5
<1>4. CASE log' = log /\ asked' = asked
  <2>1. UNCHANGED <<log, synced, asked>> /\ shown' = shown
    BY <1>1, <1>4
  <2>2. Proper(q)
    BY <1>3 DEF Proper
  <2> QED
    BY <1>3, <2>1, <2>2, RequestGoesOn
<1>5. CASE /\ log' = Append(log, [type |-> request[c].type])
           /\ asked' = Append(asked, request[c].asked)
  <2>1. PICK e : e = [type |-> request[c].type]
    OBVIOUS
  <2>2. e \in Events /\ e.type = request[c].type /\ e.type # "RelationRemoved"
    BY <1>1, <2>1 DEF Events, Signals
  <2>3. e.type = "DesktopSignalCaptured" => request[c].asked \in 0..shown /\ Asks(request[c].asked)
    BY <1>1, <2>2 DEF GraphInv, Asking
  <2>4. /\ GraphLog' /\ CapturesConsented' /\ \E f : asked' = [i \in 1..Len(log') |-> f[i]]
        /\ Len(asked') = Len(log') /\ Len(log') = Len(log) + 1
        /\ \A n \in 0..Len(log) : Asks(n)' <=> Asks(n)
    <3>1. PICK a : a = request[c].asked
      OBVIOUS
    <3> QED
      BY <1>5, <2>1, <2>2, <2>3, <3>1, LogGrows
  <2>5. request' = [d \in Caller |-> IF d = c THEN q ELSE request[d]]
    BY <1>3 DEF GraphInv, GraphTypes, Becomes
  <2>6. GraphTypes'
    <3>1. request' = [d \in Caller |-> request'[d]]
      BY <2>5
    <3> QED
      BY <1>1, <1>2, <2>4, <3>1 DEF GraphTypes
  <2>7. Asking'
    <3>1. ASSUME NEW d \in Caller
          PROVE  /\ request'[d].at \in {"idle", "read", "append", "catch up"}
                 /\ request'[d].at = "append" => request'[d].type \in Signals
                 /\ \/ request'[d].at = "read"
                    \/ request'[d].at = "append" /\ request'[d].type = "DesktopSignalCaptured"
                    => request'[d].asked \in 0..shown' /\ Asks(request[d].asked)' /\ d # c
      <4>1. CASE d = c
        BY <1>3, <2>5, <4>1
      <4>2. CASE d # c
        <5>1. request'[d] = request[d]
          BY <2>5, <4>2
        <5>2. ASSUME \/ request[d].at = "read"
                     \/ request[d].at = "append" /\ request[d].type = "DesktopSignalCaptured"
              PROVE  request[d].asked \in 0..shown /\ Asks(request[d].asked)'
          <6>1. request[d].asked \in 0..shown /\ Asks(request[d].asked)
            BY <5>2 DEF GraphInv, Asking
          <6>2. PICK a \in 0..shown : a = request[d].asked
            BY <6>1
          <6>3. Asks(a)' /\ request'[d].asked = a
            BY <1>2, <2>4, <5>1, <6>1, <6>2
          <6> QED
            BY <5>1, <6>1, <6>2, <6>3 DEF Asks
        <5> QED
          BY <1>1, <4>2, <5>1, <5>2 DEF GraphInv, Asking
      <4> QED
        BY <4>1, <4>2
    <3>2. ASSUME NEW d \in Caller, d # c PROVE request'[d] = request[d]
      BY <2>5, <3>2
    <3> QED
      BY <3>1, <3>2 DEF Asking
  <2> QED
    BY <2>4, <2>6, <2>7 DEF GraphInv
<1> QED
  BY <1>4, <1>5 DEF G!AppendSignal

LEMMA GraphMoves ==
  ASSUME GraphInv, G!Next
  PROVE  GraphInv'
<1>1. ASSUME G!AppendOfObject PROVE GraphInv'
  BY <1>1, AppendOfObjectFits
<1>2. ASSUME G!SyncOnce PROVE GraphInv'
  <2>1. UNCHANGED <<log, shown, request, asked>> /\ synced' = Len(log)
    BY <1>2 DEF G!SyncOnce
  <2>2. Len(log) \in Nat
    BY DEF GraphInv, GraphLog
  <2>3. GraphLog' /\ CapturesConsented'
    BY <2>1 DEF GraphInv, GraphLog, RemovedAfter, CapturesConsented, Consented, G!Past
  <2>4. Asking'
    BY <2>1 DEF GraphInv, Asking, Asks, G!Past
  <2>5. GraphTypes'
    <3>1. synced' \in 0..Len(log)
      BY <2>1, <2>2
    <3> QED
      BY <2>1, <3>1 DEF GraphInv, GraphTypes
  <2> QED
    BY <2>3, <2>4, <2>5 DEF GraphInv
<1>3. ASSUME NEW c \in Caller, G!Decide(c) PROVE GraphInv'
  <2>1. UNCHANGED <<log, synced, asked>> /\ shown' = shown
    BY <1>3 DEF G!Decide
  <2>2. PICK q : Becomes(c, q) /\ q.at = "append" /\ q.type \in G!Consents
    <3>1. PICK t \in G!Consents :
            Becomes(c, [at |-> "append", type |-> t,
                        version |-> G!Cardinality(G!Past(G!Consents, Len(log))), asked |-> 0])
      BY <1>3 DEF G!Decide, G!Go, Becomes
    <3>2. PICK q : q = [at |-> "append", type |-> t,
                        version |-> G!Cardinality(G!Past(G!Consents, Len(log))), asked |-> 0]
      OBVIOUS
    <3>3. Becomes(c, q) /\ q.at = "append" /\ q.type \in G!Consents
      BY <3>1, <3>2
    <3> QED
      BY <3>3
  <2>3. Proper(q)
    BY <2>2 DEF Proper, G!Consents, Signals
  <2> QED
    BY <2>1, <2>2, <2>3, RequestGoesOn
<1>4. ASSUME NEW c \in Caller, G!AskConsent(c) PROVE GraphInv'
  <2>1. UNCHANGED <<log, synced, asked>> /\ shown' = shown /\ G!Granted(shown)
    BY <1>4 DEF G!AskConsent
  <2>2. PICK q : Becomes(c, q) /\ q.at = "read" /\ q.asked = shown
    <3>1. Becomes(c, [at |-> "read", asked |-> shown])
      BY <1>4 DEF G!AskConsent, G!Go, Becomes
    <3>2. PICK q : q = [at |-> "read", asked |-> shown]
      OBVIOUS
    <3>3. Becomes(c, q) /\ q.at = "read" /\ q.asked = shown
      BY <3>1, <3>2
    <3> QED
      BY <3>3
  <2>3. Asks(shown) /\ shown \in 0..shown
    <3>1. PICK i \in G!Past(Grant, shown) : \A j \in G!Past(G!Consents, shown) : j <= i
      BY <2>1 DEF G!Granted, G!LastIs, Grant
    <3>2. ASSUME NEW r \in G!Past(Revocation, shown) PROVE ~(i < r)
      <4>1. r \in G!Past(G!Consents, shown)
        BY DEF G!Past, Revocation, G!Consents
      <4>2. r <= i /\ r \in Int /\ i \in Int
        BY <3>1, <4>1 DEF G!Past
      <4> QED
        BY <4>2
    <3>3. shown \in 0..Len(log)
      BY DEF GraphInv, GraphTypes
    <3> QED
      BY <3>1, <3>2, <3>3 DEF Asks
  <2>4. Proper(q)
    BY <2>2, <2>3 DEF Proper
  <2> QED
    BY <2>1, <2>2, <2>4, RequestGoesOn
<1>5. ASSUME NEW c \in Caller, G!ReadSignals(c) PROVE GraphInv'
  <2>1. UNCHANGED <<log, synced, asked>> /\ shown' = shown /\ request[c].at = "read"
    BY <1>5 DEF G!ReadSignals
  <2>2. PICK q : Becomes(c, q) /\ q.at = "append" /\ q.type = "DesktopSignalCaptured" /\ q.asked = request[c].asked
    <3>1. PICK v, a :
            /\ a = request[c].asked
            /\ Becomes(c, [at |-> "append", type |-> "DesktopSignalCaptured", version |-> v, asked |-> a])
      BY <1>5 DEF G!ReadSignals, G!Go, Becomes
    <3>2. PICK q : q = [at |-> "append", type |-> "DesktopSignalCaptured", version |-> v, asked |-> a]
      OBVIOUS
    <3>3. Becomes(c, q) /\ q.at = "append" /\ q.type = "DesktopSignalCaptured" /\ q.asked = request[c].asked
      BY <3>1, <3>2
    <3> QED
      BY <3>3
  <2>3. request[c].asked \in 0..shown /\ Asks(request[c].asked)
    BY <2>1 DEF GraphInv, Asking
  <2>4. Proper(q)
    BY <2>2, <2>3 DEF Proper, Signals
  <2> QED
    BY <2>1, <2>2, <2>4, RequestGoesOn
<1>6. ASSUME NEW c \in Caller, G!AppendSignal(c) PROVE GraphInv'
  BY <1>6, AppendSignalFits
<1>7. ASSUME NEW c \in Caller, G!CatchUp(c) \/ G!Die(c) PROVE GraphInv'
  <2>1. UNCHANGED <<log, synced, asked>> /\ (shown' = shown \/ shown' = Len(log))
    BY <1>7 DEF G!CatchUp, G!Die
  <2>2. PICK q : Becomes(c, q) /\ q.at = "idle"
    <3>1. Becomes(c, [at |-> "idle"])
      BY <1>7 DEF G!CatchUp, G!Die, G!Go, G!Idle, Becomes
    <3>2. PICK q : q = [at |-> "idle"]
      OBVIOUS
    <3>3. Becomes(c, q) /\ q.at = "idle"
      BY <3>1, <3>2
    <3> QED
      BY <3>3
  <2>3. Proper(q)
    BY <2>2 DEF Proper
  <2> QED
    BY <2>1, <2>2, <2>3, RequestGoesOn
<1> QED
  BY <1>1, <1>2, <1>3, <1>4, <1>5, <1>6, <1>7 DEF G!Next

LEMMA GraphStays ==
  ASSUME GraphInv, UNCHANGED G!vars
  PROVE  GraphInv'
BY DEF G!vars, GraphInv, GraphLog, RemovedAfter, GraphTypes, CapturesConsented, Consented, G!Past, Asking, Asks

LEMMA GraphPromises ==
  ASSUME GraphInv
  PROVE  G!RelatedAsDeclared /\ G!TaggedAsWritten /\ G!SignalsOnConsent
<1>1. GraphLog /\ synced \in 0..Len(log) /\ CapturesConsented
  BY DEF GraphInv, GraphTypes
<1>2. G!Graph = GraphAt(synced)
  BY DEF G!Graph, GraphAt, Upto
<1>3. PICK g : g = G!Graph /\ Fits(g, synced)
  BY <1>1, <1>2, EveryGraphFits
<1>4. DeclaredAt(synced) = G!Declared
  BY DEF DeclaredAt, G!Declared, Created, Removed, Deleted
<1>5. G!RelatedAsDeclared
  <2>1. \A e \in g.related :
          e.relation \in G!Declared /\ e.from = log[e.relation].from /\ e.to = log[e.relation].to
    BY <1>3, <1>4 DEF Fits, EdgesFit
  <2>2. ASSUME NEW r \in G!Declared
        PROVE  \/ \E e \in g.related : G!SamePair(e.relation, r)
               \/ \E s \in Created(r - 1), i \in Removed(synced) :
                    G!SamePair(s, r) /\ log[i].relation = s /\ i > r
    BY <1>3, <1>4 DEF Fits, DeclaredFit
  <2> QED
    BY <1>3, <2>1, <2>2 DEF G!RelatedAsDeclared, Created, Removed
<1>6. G!TaggedAsWritten
  BY <1>3 DEF Fits, TagsFit, G!TaggedAsWritten, Written, Deleted
<1>7. G!SignalsOnConsent
  <2>1. SUFFICES ASSUME g.signal # 0
                 PROVE  \E h \in G!Past(Grant, g.signal - 1) :
                          \A r \in G!Past(Revocation, g.signal - 1) : h < r => asked[g.signal] < r
    BY <1>3 DEF G!SignalsOnConsent, Grant, Revocation
  <2>2. PICK i : i = g.signal
    OBVIOUS
  <2>3. i \in DOMAIN log /\ log[i].type = "DesktopSignalCaptured"
    <3>1. i \in G!Past({"DesktopSignalCaptured"}, synced)
      BY <1>3, <2>1, <2>2 DEF Fits, SignalFits
    <3>2. log \in Seq(Events)
      BY <1>1 DEF GraphLog
    <3> QED
      BY <1>1, <3>1, <3>2 DEF G!Past
  <2> QED
    BY <1>1, <2>2, <2>3 DEF CapturesConsented, Consented
<1> QED
  BY <1>5, <1>6, <1>7

\* Promises of the context graph, for every set of objects and of concurrent requests:
\* a relation edge is that of a declared relation and a declared relation has
\* one, or lost the one that was there; objects are tagged with the value that was last
\* written; a signal that shows was captured under a consent (ContextGraph).
THEOREM GraphFollowsTheLog ==
  G!Spec => [](G!RelatedAsDeclared /\ G!TaggedAsWritten /\ G!SignalsOnConsent)
<1>1. GraphInv /\ [G!Next]_G!vars => GraphInv'
  BY GraphMoves, GraphStays
<1>2. GraphInv => G!RelatedAsDeclared /\ G!TaggedAsWritten /\ G!SignalsOnConsent
  BY GraphPromises
<1> QED
  BY GraphStarts, <1>1, <1>2, PTL DEF G!Spec

(***************************************************************************)
(* The commands on one object (ObjectCommands): what a command appends is  *)
(* a draft of the object it found, so the replay refuses nothing; and what *)
(* a push leaves in the calendar.                                          *)
(***************************************************************************)
LEMMA ReplayIsFold ==
  ASSUME NEW n \in Nat
  PROVE  \E f : IsFold(Replaying, n, f) /\ D!Replay(n) = f[1..n]
<1> DEFINE folds(f) ==
      f = [s \in SUBSET (DOMAIN Upto(n)) |->
             IF s = {} THEN D!NewObject ELSE D!ReplayEvent(f[s \ {D!Max(s)}], Upto(n)[D!Max(s)])]
<1>1. D!Replay(n) = (CHOOSE f : folds(f))[DOMAIN Upto(n)]
  BY Zenon DEF D!Replay, D!FoldLeft, D!MapThenFoldSet, Upto
<1>2. DOMAIN Upto(n) = 1..n
  BY DEF Upto
<1>3. ASSUME NEW f PROVE folds(f) <=> f = FoldOf(Replaying, n, f)
  <2>1. ASSUME NEW s \in SUBSET (1..n), s # {}
        PROVE  D!ReplayEvent(f[s \ {D!Max(s)}], Upto(n)[D!Max(s)]) = Folded(Replaying, f[s \ {G!Max(s)}], G!Max(s))
    <3>1. D!Max(s) = G!Max(s) /\ G!Max(s) \in 1..n
      BY <2>1, Greatest DEF D!Max, G!Max
    <3>2. Upto(n)[G!Max(s)] = G!Max(s)
      BY <3>1 DEF Upto
    <3> QED
      BY <3>1, <3>2 DEF Folded, Replaying
  <2>2. First(Replaying) = D!NewObject
    BY DEF First, Replaying
  <2>3. [s \in SUBSET (DOMAIN Upto(n)) |->
             IF s = {} THEN D!NewObject ELSE D!ReplayEvent(f[s \ {D!Max(s)}], Upto(n)[D!Max(s)])]
        = FoldOf(Replaying, n, f)
    BY <1>2, <2>1, <2>2 DEF FoldOf
  <2> QED
    BY <2>3
<1> HIDE DEF folds
<1>4. PICK f : folds(f) /\ f = CHOOSE h : folds(h)
  BY <1>3, FoldIsChosen
<1>5. IsFold(Replaying, n, f)
  BY <1>3, <1>4, FoldIsChosen
<1> QED
  BY <1>1, <1>2, <1>4, <1>5

LEMMA RowIsFold ==
  ASSUME NEW n \in Nat
  PROVE  \E f : IsFold(Projecting, n, f) /\ D!Row(n) = f[1..n]
<1> DEFINE folds(f) ==
      f = [s \in SUBSET (DOMAIN Upto(n)) |->
             IF s = {} THEN D!NewObject ELSE D!ProjectEvent(f[s \ {D!Max(s)}], Upto(n)[D!Max(s)])]
<1>1. D!Row(n) = (CHOOSE f : folds(f))[DOMAIN Upto(n)]
  BY Zenon DEF D!Row, D!FoldLeft, D!MapThenFoldSet, Upto
<1>2. DOMAIN Upto(n) = 1..n
  BY DEF Upto
<1>3. ASSUME NEW f PROVE folds(f) <=> f = FoldOf(Projecting, n, f)
  <2>1. ASSUME NEW s \in SUBSET (1..n), s # {}
        PROVE  D!ProjectEvent(f[s \ {D!Max(s)}], Upto(n)[D!Max(s)]) = Folded(Projecting, f[s \ {G!Max(s)}], G!Max(s))
    <3>1. D!Max(s) = G!Max(s) /\ G!Max(s) \in 1..n
      BY <2>1, Greatest DEF D!Max, G!Max
    <3>2. Upto(n)[G!Max(s)] = G!Max(s)
      BY <3>1 DEF Upto
    <3> QED
      BY <3>1, <3>2 DEF Folded, Projecting
  <2>2. First(Projecting) = D!NewObject
    BY DEF First, Projecting
  <2>3. [s \in SUBSET (DOMAIN Upto(n)) |->
             IF s = {} THEN D!NewObject ELSE D!ProjectEvent(f[s \ {D!Max(s)}], Upto(n)[D!Max(s)])]
        = FoldOf(Projecting, n, f)
    BY <1>2, <2>1, <2>2 DEF FoldOf
  <2> QED
    BY <2>3
<1> HIDE DEF folds
<1>4. PICK f : folds(f) /\ f = CHOOSE h : folds(h)
  BY <1>3, FoldIsChosen
<1>5. IsFold(Projecting, n, f)
  BY <1>3, <1>4, FoldIsChosen
<1> QED
  BY <1>1, <1>2, <1>4, <1>5

LEMMA WithoutIsFold ==
  ASSUME NEW n \in Nat, NEW items, DOMAIN items = 1..n, NEW id
  PROVE  \E f : IsFold(Removing(items, id), n, f) /\ D!Without(items, id) = f[1..n]
<1> DEFINE k == Removing(items, id)
<1> DEFINE folds(f) ==
      f = [s \in SUBSET (DOMAIN items) |->
             IF s = {} THEN << >>
             ELSE IF items[D!Max(s)].id = id THEN f[s \ {D!Max(s)}]
                  ELSE Append(f[s \ {D!Max(s)}], items[D!Max(s)])]
<1>1. D!Without(items, id) = (CHOOSE f : folds(f))[DOMAIN items]
  BY Zenon DEF D!Without, D!FoldLeft, D!MapThenFoldSet
<1>2. ASSUME NEW f PROVE folds(f) <=> f = FoldOf(k, n, f)
  <2>1. ASSUME NEW s \in SUBSET (1..n), s # {}
        PROVE  (IF items[D!Max(s)].id = id THEN f[s \ {D!Max(s)}]
                ELSE Append(f[s \ {D!Max(s)}], items[D!Max(s)]))
               = Folded(k, f[s \ {G!Max(s)}], G!Max(s))
    <3>1. D!Max(s) = G!Max(s)
      BY DEF D!Max, G!Max
    <3>2. k.of = "items" /\ k.items = items /\ k.id = id
      BY DEF Removing
    <3> QED
      BY <3>1, <3>2 DEF Folded
  <2>2. First(k) = << >>
    BY DEF First, Removing
  <2>3. [s \in SUBSET (DOMAIN items) |->
             IF s = {} THEN << >>
             ELSE IF items[D!Max(s)].id = id THEN f[s \ {D!Max(s)}]
                  ELSE Append(f[s \ {D!Max(s)}], items[D!Max(s)])]
        = FoldOf(k, n, f)
    <3> HIDE DEF k
    <3> QED
      BY <2>1, <2>2 DEF FoldOf
  <2> QED
    BY <2>3
<1> HIDE DEF folds, k
<1>3. PICK f : folds(f) /\ f = CHOOSE h : folds(h)
  BY <1>2, FoldIsChosen
<1>4. IsFold(k, n, f)
  BY <1>2, <1>3, FoldIsChosen
<1> QED
  BY <1>1, <1>3, <1>4 DEF k

LEMMA ReplaySteps ==
  /\ D!Replay(0) = D!NewObject
  /\ \A n \in Nat : D!Replay(n + 1) = D!ReplayEvent(D!Replay(n), n + 1)
<1>1. D!Replay(0) = D!NewObject
  BY ReplayIsFold, FoldBegins DEF First, Replaying
<1>2. ASSUME NEW n \in Nat PROVE D!Replay(n + 1) = D!ReplayEvent(D!Replay(n), n + 1)
  <2>1. PICK f : IsFold(Replaying, n, f) /\ D!Replay(n) = f[1..n]
    BY ReplayIsFold
  <2>2. PICK g : IsFold(Replaying, n + 1, g) /\ D!Replay(n + 1) = g[1..n + 1]
    BY ReplayIsFold
  <2>3. g[1..n + 1] = Folded(Replaying, f[1..n], n + 1)
    BY <2>1, <2>2, FoldGoesOn
  <2> QED
    BY <2>1, <2>2, <2>3 DEF Folded, Replaying
<1> QED
  BY <1>1, <1>2

LEMMA RowSteps ==
  /\ D!Row(0) = D!NewObject
  /\ \A n \in Nat : D!Row(n + 1) = D!ProjectEvent(D!Row(n), n + 1)
<1>1. D!Row(0) = D!NewObject
  BY RowIsFold, FoldBegins DEF First, Projecting
<1>2. ASSUME NEW n \in Nat PROVE D!Row(n + 1) = D!ProjectEvent(D!Row(n), n + 1)
  <2>1. PICK f : IsFold(Projecting, n, f) /\ D!Row(n) = f[1..n]
    BY RowIsFold
  <2>2. PICK g : IsFold(Projecting, n + 1, g) /\ D!Row(n + 1) = g[1..n + 1]
    BY RowIsFold
  <2>3. g[1..n + 1] = Folded(Projecting, f[1..n], n + 1)
    BY <2>1, <2>2, FoldGoesOn
  <2> QED
    BY <2>1, <2>2, <2>3 DEF Folded, Projecting
<1> QED
  BY <1>1, <1>2

-------------------------------------------------------------------------------
Lifecycles == {"active", "archived", "deleted"}
Items(n) == [id : 1..n, done : BOOLEAN]
AfterDeletion == {"ObjectRestored", "FieldValueChanged"}
Types ==
  {"ObjectRenamed", "ObjectArchived", "ObjectRestored", "ObjectSoftDeleted", "ChecklistItemAdded",
   "ChecklistItemToggled", "ChecklistItemRemoved", "ChecklistItemReordered", "RecurrenceRuleSet",
   "RecurrenceRuleCleared", "TimeBlockScheduled", "TimeBlockCleared", "FieldValueChanged"}

\* An object after n events that were asked for: no event was refused.
Objects(n) ==
  [lifecycle : Lifecycles, title : Nat, checklist : Seq(Items(n)), rule : Nat, block : Nat,
   refused : {FALSE}]

LEMMA IdsOf ==
  ASSUME NEW n \in Nat, NEW s \in Objects(n)
  PROVE  D!ItemIds(s) \subseteq 1..n /\ D!Cardinality(D!ItemIds(s)) \in Nat
<1>1. s.checklist \in Seq(Items(n))
  BY DEF Objects
<1>2. ASSUME NEW i \in DOMAIN s.checklist PROVE s.checklist[i].id \in 1..n
  <2>1. s.checklist[i] \in Items(n)
    BY <1>1
  <2> QED
    BY <2>1 DEF Items
<1>3. D!ItemIds(s) \subseteq 1..n
  BY <1>2 DEF D!ItemIds
<1>4. IsFiniteSet(1..n)
  BY FS_Interval
<1>5. Cardinality(D!ItemIds(s)) \in Nat
  BY <1>3, <1>4, FS_Subset, FS_CardinalityType
<1>6. D!Cardinality(D!ItemIds(s)) = Cardinality(D!ItemIds(s))
  BY DEF D!Cardinality, Cardinality
<1> QED
  BY <1>3, <1>5, <1>6

\* What a command of an object may append.
LEMMA DraftShape ==
  ASSUME NEW n \in Nat, NEW s \in Objects(n), NEW d \in D!Drafts(s)
  PROVE  /\ d.type \in Types
         /\ s.lifecycle = "deleted" => d.type \in AfterDeletion
         /\ d.type = "ChecklistItemToggled" => d.done \in BOOLEAN
         /\ d.type = "ChecklistItemReordered" => \E k \in Nat : d.ids \in [1..k -> D!ItemIds(s)]
<1>1. CASE d \in D!Transitions(s)
  BY <1>1 DEF D!Transitions, Types, AfterDeletion
<1>2. CASE d \in D!ValueCommands(s)
  BY <1>2 DEF D!ValueCommands, Types, AfterDeletion
<1>3. CASE d \in {[type |-> "FieldValueChanged"]}
  BY <1>3 DEF Types, AfterDeletion
<1>4. CASE d \in D!ChecklistCommands(s)
  <2>1. s.lifecycle # "deleted"
    BY <1>4 DEF D!ChecklistCommands
  <2>2. CASE d \in {[type |-> "ChecklistItemAdded"]}
    BY <2>1, <2>2 DEF Types
  <2>3. CASE d \in {[type |-> "ChecklistItemToggled", item |-> i.id, done |-> ~i.done] : i \in D!ToSet(s.checklist)}
    <3>1. PICK i : d = [type |-> "ChecklistItemToggled", item |-> i.id, done |-> ~i.done]
      BY <2>3
    <3>2. d.type = "ChecklistItemToggled" /\ d.done \in BOOLEAN
      BY <3>1
    <3> QED
      BY <2>1, <3>2 DEF Types
  <2>4. CASE d \in [type : {"ChecklistItemRemoved"}, item : D!ItemIds(s)]
    BY <2>1, <2>4 DEF Types
  <2>5. CASE d \in [type : {"ChecklistItemReordered"}, ids : D!SetToSeqs(D!ItemIds(s))]
    <3>1. d.type = "ChecklistItemReordered" /\ d.ids \in D!SetToSeqs(D!ItemIds(s))
      BY <2>5
    <3>2. d.ids \in [1..D!Cardinality(D!ItemIds(s)) -> D!ItemIds(s)]
      BY <3>1 DEF D!SetToSeqs
    <3>3. \E k \in Nat : d.ids \in [1..k -> D!ItemIds(s)]
      BY <3>2, IdsOf
    <3> QED
      BY <2>1, <3>1, <3>3 DEF Types
  <2> QED
    BY <1>4, <2>1, <2>2, <2>3, <2>4, <2>5 DEF D!ChecklistCommands
<1> QED
  BY <1>1, <1>2, <1>3, <1>4 DEF D!Drafts

LEMMA ObjectsGrow ==
  ASSUME NEW n \in Nat, NEW m \in Nat, n <= m
  PROVE  Objects(n) \subseteq Objects(m)
<1>1. Items(n) \subseteq Items(m)
  BY DEF Items
<1>2. Seq(Items(n)) \subseteq Seq(Items(m))
  BY <1>1
<1> QED
  BY <1>2 DEF Objects

\* Removing an item leaves items that were there.
LEMMA WithoutLeaves ==
  ASSUME NEW S, NEW items \in Seq(S), NEW id
  PROVE  D!Without(items, id) \in Seq(S)
<1>1. Len(items) \in Nat /\ DOMAIN items = 1..Len(items)
  OBVIOUS
<1>2. PICK k : k = Removing(items, id)
  OBVIOUS
<1>3. PICK f : IsFold(k, Len(items), f) /\ D!Without(items, id) = f[1..Len(items)]
  BY <1>1, <1>2, WithoutIsFold
<1>4. First(k) = << >>
  BY <1>2 DEF First, Removing
<1>5. ASSUME NEW i \in 1..Len(items), NEW t \in Seq(S) PROVE Folded(k, t, i) \in Seq(S)
  <2>1. k.of = "items" /\ k.items = items /\ k.id = id
    BY <1>2 DEF Removing
  <2>2. Folded(k, t, i) = IF items[i].id = id THEN t ELSE Append(t, items[i])
    BY <2>1 DEF Folded
  <2>3. items[i] \in S
    BY <1>1
  <2> QED
    BY <2>2, <2>3
<1> DEFINE bad == {i \in 0..Len(items) : f[1..i] \notin Seq(S)}
<1>6. SUFFICES ASSUME bad # {} PROVE FALSE
  BY <1>1, <1>3
<1>7. PICK i \in bad : \A j \in bad : i <= j
  <2>1. bad \in SUBSET Nat
    BY <1>1
  <2> HIDE DEF bad
  <2> QED
    BY <1>6, <2>1, Least
<1>8. i # 0
  <2>1. 1..0 = {}
    OBVIOUS
  <2>2. f[{}] = << >> /\ << >> \in Seq(S)
    BY <1>3, <1>4 DEF IsFold
  <2> QED
    BY <1>7, <2>1, <2>2
<1>9. i \in 1..Len(items) /\ f[1..i - 1] \in Seq(S)
  BY <1>1, <1>7, <1>8
<1>10. f[1..i] = Folded(k, f[1..i - 1], i)
  BY <1>1, <1>3, <1>9, FoldPart
<1> QED
  BY <1>5, <1>7, <1>9, <1>10

\* A draft of the object as it is after n events leaves such an object.
LEMMA EventKeepsObject ==
  ASSUME NEW n \in Nat, NEW s \in Objects(n), log[n + 1] \in D!Drafts(s)
  PROVE  /\ D!ReplayEvent(s, n + 1) \in Objects(n + 1)
         /\ D!ReplayEvent(s, n + 1).block = CASE log[n + 1].type = "TimeBlockScheduled" -> n + 1
                                             [] log[n + 1].type = "TimeBlockCleared" -> 0
                                             [] OTHER -> s.block
<1>1. PICK d : d = log[n + 1]
  OBVIOUS
<1>2. /\ d.type \in Types
      /\ d.type = "ChecklistItemToggled" => d.done \in BOOLEAN
      /\ d.type = "ChecklistItemReordered" => \E k \in Nat : d.ids \in [1..k -> D!ItemIds(s)]
  BY <1>1, DraftShape
<1>3. PICK m : m = n + 1
  OBVIOUS
<1>4. m \in Nat /\ m \in 1..m /\ n <= m
  BY <1>3
<1>5. s \in Objects(m)
  BY <1>4, ObjectsGrow
<1>6. PICK t : t = D!ReplayEvent(s, m)
  OBVIOUS
<1>7. d.type = "ObjectRenamed" => t = [s EXCEPT !.title = m]
  BY <1>1, <1>3, <1>6 DEF D!ReplayEvent
<1>8. d.type = "ObjectArchived" => t = [s EXCEPT !.lifecycle = "archived"]
  BY <1>1, <1>3, <1>6 DEF D!ReplayEvent
<1>9. d.type = "ObjectRestored" => t = [s EXCEPT !.lifecycle = "active"]
  BY <1>1, <1>3, <1>6 DEF D!ReplayEvent
<1>10. d.type = "ObjectSoftDeleted" => t = [s EXCEPT !.lifecycle = "deleted"]
  BY <1>1, <1>3, <1>6 DEF D!ReplayEvent
<1>11. d.type = "RecurrenceRuleSet" => t = [s EXCEPT !.rule = m]
  BY <1>1, <1>3, <1>6 DEF D!ReplayEvent
<1>12. d.type = "RecurrenceRuleCleared" => t = [s EXCEPT !.rule = 0]
  BY <1>1, <1>3, <1>6 DEF D!ReplayEvent
<1>13. d.type = "TimeBlockScheduled" => t = [s EXCEPT !.block = m]
  BY <1>1, <1>3, <1>6 DEF D!ReplayEvent
<1>14. d.type = "TimeBlockCleared" => t = [s EXCEPT !.block = 0]
  BY <1>1, <1>3, <1>6 DEF D!ReplayEvent
<1>15. d.type = "FieldValueChanged" => t = s
  BY <1>1, <1>3, <1>6 DEF D!ReplayEvent
<1> DEFINE Listing(items) == t = [s EXCEPT !.checklist = items] /\ items \in Seq(Items(m))
<1>16. s.checklist \in Seq(Items(m))
  BY <1>5 DEF Objects
<1>17. d.type = "ChecklistItemAdded" => \E items : Listing(items)
  <2>1. [id |-> m, done |-> FALSE] \in Items(m)
    BY <1>4 DEF Items
  <2>2. d.type = "ChecklistItemAdded" => t = [s EXCEPT !.checklist = Append(s.checklist, [id |-> m, done |-> FALSE])]
    BY <1>1, <1>3, <1>6 DEF D!ReplayEvent
  <2>3. Append(s.checklist, [id |-> m, done |-> FALSE]) \in Seq(Items(m))
    BY <1>16, <2>1
  <2> QED
    BY <2>2, <2>3
<1>18. d.type = "ChecklistItemToggled" => \E items : Listing(items)
  <2> DEFINE toggled(i) == IF i.id = d.item THEN [i EXCEPT !.done = d.done] ELSE i
             items == [i \in DOMAIN s.checklist |-> toggled(s.checklist[i])]
  <2>1. d.type = "ChecklistItemToggled" => t = [s EXCEPT !.checklist = items]
    BY <1>1, <1>3, <1>6 DEF D!ReplayEvent, D!EachItem
  <2>2. ASSUME d.type = "ChecklistItemToggled" PROVE items \in Seq(Items(m))
    <3>1. ASSUME NEW i \in DOMAIN s.checklist PROVE toggled(s.checklist[i]) \in Items(m)
      <4>1. s.checklist[i] \in Items(m)
        BY <1>16
      <4> QED
        BY <1>2, <2>2, <4>1 DEF Items
    <3>2. DOMAIN s.checklist = 1..Len(s.checklist) /\ Len(s.checklist) \in Nat
      BY <1>16
    <3> QED
      BY <3>1, <3>2
  <2> HIDE DEF items
  <2> QED
    BY <2>1, <2>2
<1>19. d.type = "ChecklistItemRemoved" => \E items : Listing(items)
  <2>1. d.type = "ChecklistItemRemoved" => t = [s EXCEPT !.checklist = D!Without(s.checklist, d.item)]
    BY <1>1, <1>3, <1>6 DEF D!ReplayEvent
  <2>2. D!Without(s.checklist, d.item) \in Seq(Items(m))
    BY <1>16, WithoutLeaves
  <2> QED
    BY <2>1, <2>2
<1>20. d.type = "ChecklistItemReordered" => \E items : Listing(items)
  <2>1. SUFFICES ASSUME d.type = "ChecklistItemReordered" PROVE \E items : Listing(items)
    OBVIOUS
  <2>2. PICK k \in Nat : d.ids \in [1..k -> D!ItemIds(s)]
    BY <1>2, <2>1
  <2> DEFINE items == [i \in DOMAIN d.ids |-> D!ItemOf(s, d.ids[i])]
  <2>3. D!ToSet(d.ids) \subseteq D!ItemIds(s)
    BY <2>2 DEF D!ToSet
  <2>4. t = [s EXCEPT !.checklist = items]
    <3>1. t = D!Reordered(s, d.ids)
      BY <1>1, <1>3, <1>6, <2>1 DEF D!ReplayEvent
    <3> QED
      BY <2>3, <3>1 DEF D!Reordered
  <2>5. ASSUME NEW id \in D!ItemIds(s) PROVE D!ItemOf(s, id) \in Items(m)
    <3>1. PICK i \in DOMAIN s.checklist : s.checklist[i].id = id
      BY DEF D!ItemIds
    <3>2. s.checklist[i] \in D!ToSet(s.checklist)
      BY DEF D!ToSet
    <3>3. D!ItemOf(s, id) \in D!ToSet(s.checklist)
      BY <3>1, <3>2 DEF D!ItemOf
    <3> QED
      BY <1>16, <3>3 DEF D!ToSet
  <2>6. items \in Seq(Items(m))
    BY <2>2, <2>5
  <2> HIDE DEF items
  <2> QED
    BY <2>4, <2>6
<1>21. \/ d.type \in Types \ {"TimeBlockScheduled", "TimeBlockCleared"} /\ t \in Objects(m) /\ t.block = s.block
       \/ d.type = "TimeBlockScheduled" /\ t \in Objects(m) /\ t.block = m
       \/ d.type = "TimeBlockCleared" /\ t \in Objects(m) /\ t.block = 0
  <2>1. ASSUME NEW items, Listing(items) PROVE t \in Objects(m) /\ t.block = s.block
    BY <1>5, <2>1 DEF Objects
  <2>2. CASE d.type \in {"ChecklistItemAdded", "ChecklistItemToggled", "ChecklistItemRemoved", "ChecklistItemReordered"}
    <3>1. PICK items : Listing(items)
      BY <1>17, <1>18, <1>19, <1>20, <2>2
    <3> HIDE DEF Listing
    <3> QED
      BY <1>2, <2>1, <2>2, <3>1
  <2>3. CASE d.type \in {"ObjectArchived", "ObjectRestored", "ObjectSoftDeleted", "FieldValueChanged"}
    BY <1>2, <1>5, <1>8, <1>9, <1>10, <1>15, <2>3, ZenonT(60) DEF Objects, Lifecycles
  <2>4. CASE d.type \in {"ObjectRenamed", "RecurrenceRuleSet", "RecurrenceRuleCleared"}
    <3>1. ASSUME d.type = "ObjectRenamed" PROVE t \in Objects(m) /\ t.block = s.block
      BY <1>4, <1>5, <1>7, <3>1 DEF Objects
    <3>2. ASSUME d.type = "RecurrenceRuleSet" PROVE t \in Objects(m) /\ t.block = s.block
      BY <1>4, <1>5, <1>11, <3>2 DEF Objects
    <3>3. ASSUME d.type = "RecurrenceRuleCleared" PROVE t \in Objects(m) /\ t.block = s.block
      <4>1. PICK z \in Nat : z = 0
        OBVIOUS
      <4>2. t = [s EXCEPT !.rule = z]
        BY <1>12, <3>3, <4>1
      <4> QED
        BY <1>5, <4>2 DEF Objects
    <3> QED
      BY <1>2, <2>4, <3>1, <3>2, <3>3
  <2>5. CASE d.type \in {"TimeBlockScheduled", "TimeBlockCleared"}
    <3>1. ASSUME d.type = "TimeBlockScheduled" PROVE t \in Objects(m) /\ t.block = m
      BY <1>4, <1>5, <1>13, <3>1 DEF Objects
    <3>2. ASSUME d.type = "TimeBlockCleared" PROVE t \in Objects(m) /\ t.block = 0
      <4>1. PICK z \in Nat : z = 0
        OBVIOUS
      <4>2. t = [s EXCEPT !.block = z]
        BY <1>14, <3>2, <4>1
      <4>3. t \in Objects(m) /\ t.block = z
        BY <1>5, <4>2 DEF Objects
      <4> QED
        BY <4>1, <4>3
    <3> QED
      BY <2>5, <3>1, <3>2
  <2> QED
    BY <1>2, <2>2, <2>3, <2>4, <2>5 DEF Types
<1> QED
  BY <1>1, <1>3, <1>6, <1>21

-------------------------------------------------------------------------------
IsBlock(i) == D!OfBlock(log[i])
BlockOf(i) == IF log[i].type = "TimeBlockScheduled" THEN i ELSE 0
\* The last event about the time block, of n.
LastBlock(i, n) == i \in 1..n /\ IsBlock(i) /\ \A j \in i + 1..n : ~IsBlock(j)
BlockFits(b, n) ==
  \/ b = 0 /\ \A i \in 1..n : ~IsBlock(i)
  \/ \E i : LastBlock(i, n) /\ b = BlockOf(i)

\* Every event was asked for by a command of the object it found.
Commanded == \A i \in DOMAIN log : log[i] \in D!Drafts(D!Replay(i - 1))
ObjectLog ==
  /\ \E f : log = [i \in 1..Len(log) |-> f[i]]
  /\ Len(log) \in Nat
  /\ Commanded

LEMMA ReplayKnown ==
  ASSUME ObjectLog, NEW n \in 0..Len(log)
  PROVE  D!Replay(n) \in Objects(n) /\ BlockFits(D!Replay(n).block, n)
<1>1. Len(log) \in Nat /\ DOMAIN log = 1..Len(log)
  BY DEF ObjectLog
<1> DEFINE Known(i) == D!Replay(i) \in Objects(i) /\ BlockFits(D!Replay(i).block, i)
<1>2. Known(0)
  <2>1. D!Replay(0) = D!NewObject
    BY ReplaySteps
  <2>2. D!NewObject \in Objects(0) /\ D!NewObject.block = 0
    BY DEF D!NewObject, Objects, Lifecycles
  <2> QED
    BY <2>1, <2>2 DEF BlockFits
<1>3. ASSUME NEW i \in Nat, i + 1 \in 1..Len(log), Known(i) PROVE Known(i + 1)
  <2>1. PICK s : s = D!Replay(i) /\ s \in Objects(i) /\ BlockFits(s.block, i)
    BY <1>3
  <2>2. log[i + 1] \in D!Drafts(s)
    <3>1. i + 1 \in DOMAIN log /\ (i + 1) - 1 = i
      BY <1>1, <1>3
    <3> QED
      BY <2>1, <3>1 DEF ObjectLog, Commanded
  <2>3. PICK t : t = D!ReplayEvent(s, i + 1)
    OBVIOUS
  <2>4. /\ t \in Objects(i + 1)
        /\ t.block = CASE log[i + 1].type = "TimeBlockScheduled" -> i + 1
                      [] log[i + 1].type = "TimeBlockCleared" -> 0
                      [] OTHER -> s.block
    BY <2>1, <2>2, <2>3, EventKeepsObject
  <2>5. BlockFits(t.block, i + 1)
    <3>1. CASE IsBlock(i + 1)
      <4>1. t.block = BlockOf(i + 1)
        BY <2>4, <3>1 DEF IsBlock, D!OfBlock, BlockOf
      <4>2. LastBlock(i + 1, i + 1)
        BY <1>3, <3>1 DEF LastBlock
      <4> QED
        BY <4>1, <4>2 DEF BlockFits
    <3>2. CASE ~IsBlock(i + 1)
      <4>1. t.block = s.block
        BY <2>4, <3>2 DEF IsBlock, D!OfBlock
      <4>2. ASSUME NEW j, LastBlock(j, i) PROVE LastBlock(j, i + 1)
        BY <3>2, <4>2 DEF LastBlock
      <4>3. ASSUME \A j \in 1..i : ~IsBlock(j) PROVE \A j \in 1..i + 1 : ~IsBlock(j)
        BY <3>2, <4>3
      <4> QED
        BY <2>1, <4>1, <4>2, <4>3 DEF BlockFits
    <3> QED
      BY <3>1, <3>2
  <2>6. D!Replay(i + 1) = t
    BY <2>1, <2>3, ReplaySteps
  <2> QED
    BY <2>4, <2>5, <2>6
<1> HIDE DEF Known
<1> DEFINE odd == {i \in 0..Len(log) : ~Known(i)}
<1>4. SUFFICES ASSUME odd # {} PROVE FALSE
  BY DEF Known
<1>5. PICK m \in odd : \A k \in odd : m <= k
  <2>1. odd \in SUBSET Nat
    BY <1>1
  <2> HIDE DEF odd
  <2> QED
    BY <1>4, <2>1, Least
<1>6. PICK k \in Nat : m = k + 1
  <2>1. m \in Nat /\ m # 0 /\ m - 1 \in Nat /\ m = (m - 1) + 1
    BY <1>1, <1>2, <1>5
  <2> QED
    BY <2>1
<1>7. k + 1 \in 1..Len(log) /\ Known(k)
  BY <1>1, <1>5, <1>6
<1> QED
  BY <1>3, <1>5, <1>6, <1>7

\* The row is the replay: no item is in the list before the event that adds it.
LEMMA RowFollows ==
  ASSUME ObjectLog, NEW n \in 0..Len(log)
  PROVE  D!Row(n) = D!Replay(n)
<1>1. Len(log) \in Nat
  BY DEF ObjectLog
<1> DEFINE odd == {i \in 0..Len(log) : D!Row(i) # D!Replay(i)}
<1>2. SUFFICES ASSUME odd # {} PROVE FALSE
  OBVIOUS
<1>3. PICK m \in odd : \A k \in odd : m <= k
  <2>1. odd \in SUBSET Nat
    BY <1>1
  <2> HIDE DEF odd
  <2> QED
    BY <1>2, <2>1, Least
<1>4. m # 0
  BY <1>3, RowSteps, ReplaySteps
<1>5. PICK k \in Nat : m = k + 1
  <2>1. m \in Nat /\ m - 1 \in Nat /\ m = (m - 1) + 1
    BY <1>1, <1>3, <1>4
  <2> QED
    BY <2>1
<1>6. k \in 0..Len(log) /\ D!Row(k) = D!Replay(k)
  BY <1>1, <1>3, <1>5
<1>7. PICK s : s = D!Replay(k) /\ s \in Objects(k)
  BY <1>6, ReplayKnown
<1>8. k + 1 \notin D!ItemIds(s)
  BY <1>7, IdsOf
<1>9. D!ProjectEvent(s, k + 1) = D!ReplayEvent(s, k + 1)
  BY <1>8 DEF D!ProjectEvent
<1>10. D!Row(k + 1) = D!Replay(k + 1)
  BY <1>6, <1>7, <1>9, RowSteps, ReplaySteps
<1> QED
  BY <1>3, <1>5, <1>10

LEMMA ObjectPromises ==
  ASSUME ObjectLog, shown \in 0..Len(log)
  PROVE  D!RowIsReplay /\ D!NothingAfterDeletion
<1>1. Len(log) \in Nat /\ DOMAIN log = 1..Len(log)
  BY DEF ObjectLog
<1>2. D!RowIsReplay
  <2>1. D!Replay(Len(log)) \in Objects(Len(log))
    BY <1>1, ReplayKnown
  <2>2. D!Replay(Len(log)).refused = FALSE
    BY <2>1 DEF Objects
  <2> QED
    BY <2>2, RowFollows DEF D!RowIsReplay
<1>3. ASSUME NEW i \in 1..(Len(log) - 1), D!Replay(i).lifecycle = "deleted"
      PROVE  log[i + 1].type \in {"ObjectRestored", "FieldValueChanged"}
  <2>1. i \in Nat /\ i \in 0..Len(log) /\ i + 1 \in DOMAIN log /\ (i + 1) - 1 = i
    BY <1>1
  <2>2. log[i + 1] \in D!Drafts(D!Replay(i)) /\ D!Replay(i) \in Objects(i)
    BY <2>1, ReplayKnown DEF ObjectLog, Commanded
  <2> QED
    BY <1>3, <2>1, <2>2, DraftShape DEF AfterDeletion
<1> QED
  BY <1>2, <1>3 DEF D!NothingAfterDeletion
\*END2

-------------------------------------------------------------------------------
\* Replaying the first events gives the same object when others are appended.
LEMMA ReplaySteps2 ==
  /\ D!Replay(0) = D!NewObject
  /\ \A n \in Nat : \A s : D!Replay(n) = s => D!Replay(n + 1) = D!ReplayEvent(s, n + 1)
  BY ReplaySteps

LEMMA ReplayStepsNext ==
  (/\ D!Replay(0) = D!NewObject
   /\ \A n \in Nat : \A s : D!Replay(n) = s => D!Replay(n + 1) = D!ReplayEvent(s, n + 1))'
  BY ReplaySteps2, PTL

LEMMA EventStays ==
  ASSUME NEW i, log'[i] = log[i], NEW s
  PROVE  D!ReplayEvent(s, i)' = D!ReplayEvent(s, i)
  BY DEF D!ReplayEvent

LEMMA ReplayStays ==
  ASSUME Len(log) \in Nat, \A i \in 1..Len(log) : log'[i] = log[i], NEW n \in 0..Len(log)
  PROVE  D!Replay(n)' = D!Replay(n)
<1> DEFINE odd == {i \in 0..Len(log) : D!Replay(i)' # D!Replay(i)}
<1>2. SUFFICES ASSUME odd # {} PROVE FALSE
  OBVIOUS
<1>3. PICK m \in odd : \A k \in odd : m <= k
  <2>1. PICK bad : bad = odd
    OBVIOUS
  <2>2. bad \in SUBSET Nat /\ bad # {}
    BY <1>2, <2>1
  <2> HIDE DEF odd
  <2> QED
    BY <2>1, <2>2, Least
<1>4. m # 0
  BY <1>3, ReplaySteps2, ReplayStepsNext
<1>5. PICK k \in Nat : m = k + 1
  <2>1. m \in Nat /\ m - 1 \in Nat /\ m = (m - 1) + 1
    BY <1>3, <1>4
  <2> QED
    BY <2>1
<1>6. k \in 0..Len(log) /\ D!Replay(k)' = D!Replay(k) /\ log'[k + 1] = log[k + 1]
  BY <1>3, <1>5
<1>7. PICK s : s = D!Replay(k)
  OBVIOUS
<1>8. D!Replay(k + 1) = D!ReplayEvent(s, k + 1)
  BY <1>7, ReplaySteps2
<1>9. D!Replay(k + 1)' = D!ReplayEvent(s, k + 1)'
  BY <1>6, <1>7, ReplayStepsNext
<1>10. D!ReplayEvent(s, k + 1)' = D!ReplayEvent(s, k + 1)
  BY <1>6, EventStays
<1> QED
  BY <1>3, <1>5, <1>8, <1>9, <1>10

-------------------------------------------------------------------------------
\* What requests hold.
Early == {"catch up", "look", "create"}
Making == {"create", "insert"}
Eventful == {"update", "delete", "drop"}
Stages == {"idle", "append", "insert"} \union Early \union Eventful

Shaped(q) ==
  /\ q.at \in {"append", "catch up", "look"} => q = [at |-> q.at, draft |-> q.draft, version |-> q.version]
  /\ q.at \in Making \union Eventful =>
       q = [at |-> q.at, draft |-> q.draft, version |-> q.version, event |-> q.event]

\* A request that appended its draft.
Owns(q) == q.at \notin {"idle", "append"}

Sound(q) ==
  /\ q.at \in Stages /\ Shaped(q)
  /\ q.at = "append" =>
       /\ q.version \in 1..Len(log) + 1
       /\ q.draft \in D!Drafts(D!Replay(q.version - 1))
  /\ Owns(q) => q.version \in 1..Len(log) /\ q.draft = log[q.version]
  /\ Owns(q) /\ q.at # "catch up" => D!OfBlock(q.draft)
  /\ q.at \in Making \union {"update"} => q.draft.type = "TimeBlockScheduled"
  /\ q.at \in {"delete", "drop"} => q.draft.type = "TimeBlockCleared"

ObjectTypes ==
  /\ shown \in 0..Len(log)
  /\ request = [c \in Caller |-> request[c]]
  /\ overlaps \in Nat /\ mishaps \in Nat
  /\ mapping \in 0..Len(log)

\* The events of the calendar: each is named by the version that made it.
Event(id, v) == [id |-> id, block |-> v]
CalendarKnown ==
  /\ IsFiniteSet(calendar)
  /\ \A x \in calendar : x.id \in 1..Len(log) /\ x = Event(x.id, x.block)
  /\ \A x, y \in calendar : x.id = y.id => x = y

\* No two requests appended one event, and nobody knows the event in the
\* calendar that a request has yet to make, or to insert.
Used(v) == mapping = v \/ \E b \in Caller : request[b].at \in Eventful /\ request[b].event = v
Apart ==
  /\ \A b, c \in Caller :
       b # c /\ Owns(request[b]) /\ Owns(request[c]) => request[b].version # request[c].version
  /\ \A c \in Caller : request[c].at \in Early \union {"insert"} => ~Used(request[c].version)
  /\ \A c \in Caller : request[c].at \in Early => \A x \in calendar : x.id # request[c].version
  /\ \A c \in Caller : request[c].at \in Eventful => request[c].event \in 1..Len(log)
  /\ \A c \in Caller : request[c].at = "drop" => \A x \in calendar : x.id # request[c].event

\* Of the requests that make events one may find the mapping free.
Makers == {c \in Caller : request[c].at \in Making}
Free == IF mapping = 0 THEN 1 ELSE 0
OrphansPaid ==
  /\ Cardinality(D!Orphans) <= overlaps + mishaps
  /\ Cardinality(D!Orphans) + Cardinality(Makers) <= overlaps + mishaps + Free

-------------------------------------------------------------------------------
\* While nothing has overlapped or failed.
Waits(c) == request[c].at \in {"catch up", "look"} /\ D!OfBlock(request[c].draft)
Pushes(c) == request[c].at \in Making \union Eventful
NoneWaits == \A c \in Caller : ~Waits(c)
NonePushes == \A c \in Caller : ~Pushes(c)

Mapped == mapping # 0 /\ \E v : calendar = {Event(mapping, v)}
Unmapped == calendar = {} /\ mapping = 0
Pushed(c) ==
  LET q == request[c] IN
  \/ q.at = "create" /\ Unmapped
  \/ q.at = "insert" /\ calendar = {Event(q.version, q.version)} /\ mapping = 0
  \/ q.at \in {"update", "delete"} /\ q.event = mapping /\ Mapped
  \/ q.at = "drop" /\ q.event = mapping /\ calendar = {} /\ mapping # 0

Shows(b) == {x.block : x \in calendar} = IF b = 0 THEN {} ELSE {b}

\* One push at a time, of the last time block if nobody waits; the last block
\* waits, is being pushed or shows.
Calm ==
  overlaps = 0 /\ mishaps = 0 =>
    /\ \A b, c \in Caller : Pushes(b) /\ Pushes(c) => b = c
    /\ \A c \in Caller : Pushes(c) => Pushed(c)
    /\ NonePushes => Mapped \/ Unmapped
    /\ NoneWaits => \A c \in Caller : Pushes(c) => LastBlock(request[c].version, Len(log))
    /\ NoneWaits \/ \E c \in Caller : Waits(c) /\ LastBlock(request[c].version, Len(log))
    /\ NoneWaits /\ NonePushes => \E b : BlockFits(b, Len(log)) /\ Shows(b)

ObjectInv ==
  /\ ObjectLog /\ ObjectTypes
  /\ \A c \in Caller : Sound(request[c])
  /\ CalendarKnown /\ Apart /\ OrphansPaid /\ Calm

\* Events may have been appended.
Continues == Len(log) \in Nat /\ Len(log') \in Nat /\ Len(log) <= Len(log') /\ \A i \in 1..Len(log) : log'[i] = log[i]

LEMMA SoundStays ==
  ASSUME Continues, NEW q, Sound(q)
  PROVE  Sound(q)'
<1>1. Len(log) \in Nat /\ Len(log') \in Nat /\ Len(log) <= Len(log') /\ \A i \in 1..Len(log) : log'[i] = log[i]
  BY DEF Continues
<1>2. ASSUME q.at = "append"
      PROVE  q.version \in 1..Len(log') + 1 /\ q.draft \in (D!Drafts(D!Replay(q.version - 1)))'
  <2>1. q.version \in 1..Len(log) + 1 /\ q.draft \in D!Drafts(D!Replay(q.version - 1))
    BY <1>2 DEF Sound
  <2>2. PICK n \in 0..Len(log) : n = q.version - 1
    BY <1>1, <2>1
  <2>3. PICK s : s = D!Replay(n)
    OBVIOUS
  <2>4. D!Replay(n)' = s
    BY <1>1, <2>3, ReplayStays
  <2>5. q.draft \in D!Drafts(s)
    BY <2>1, <2>2, <2>3
  <2>6. q.draft \in (D!Drafts(D!Replay(n)))'
    BY <2>4, <2>5
  <2> QED
    BY <1>1, <2>1, <2>2, <2>6
<1>3. ASSUME Owns(q) PROVE q.version \in 1..Len(log') /\ q.draft = log'[q.version]
  <2>1. q.version \in 1..Len(log) /\ q.draft = log[q.version]
    BY <1>3 DEF Sound
  <2> QED
    BY <1>1, <2>1
<1> QED
  BY <1>2, <1>3 DEF Sound

LEMMA BecomesOf ==
  ASSUME request = [c \in Caller |-> request[c]], NEW c \in Caller, NEW q, Becomes(c, q)
  PROVE  /\ request'[c] = q
         /\ \A b \in Caller : b # c => request'[b] = request[b]
         /\ request' = [b \in Caller |-> request'[b]]
<1>1. request' = [request EXCEPT ![c] = q]
  BY DEF Becomes
<1>2. DOMAIN request = Caller
  OBVIOUS
<1> QED
  BY <1>1, <1>2

\* What a step that appends nothing does to what is not counted.
LEMMA RequestsStay ==
  ASSUME ObjectInv, NEW c \in Caller, NEW q, Becomes(c, q), Continues, Sound(q)'
  PROVE  /\ \A b \in Caller : Sound(request[b])'
         /\ request' = [b \in Caller |-> request'[b]]
<1>1. request = [b \in Caller |-> request[b]]
  BY DEF ObjectInv, ObjectTypes
<1>2. request'[c] = q /\ \A b \in Caller : b # c => request'[b] = request[b]
  BY <1>1, BecomesOf
<1>3. ASSUME NEW b \in Caller PROVE Sound(request[b])'
  <2>1. CASE b = c
    <3>1. PICK p : p = request'[b] /\ p = q
      BY <1>2, <2>1
    <3> QED
      BY <3>1
  <2>2. CASE b # c
    <3>1. PICK p : p = request[b] /\ p = request'[b]
      BY <1>2, <2>2
    <3>2. Sound(p)
      BY <3>1 DEF ObjectInv
    <3>3. Sound(p)'
      BY <3>2, SoundStays
    <3> QED
      BY <3>1, <3>3
  <2> QED
    BY <2>1, <2>2
<1> QED
  BY <1>1, <1>3, BecomesOf

\* How a request goes on whose event is in the log.
Follows(p, q) ==
  /\ Owns(q) => Owns(p) /\ q.version = p.version
  /\ q.at \in Early \union {"insert"} => p.at \in Early \union {"insert"}
  /\ q.at \in Early => p.at \in Early
  /\ q.at \in Eventful => (p.at \in Eventful /\ q.event = p.event) \/ (mapping # 0 /\ q.event = mapping)
  /\ q.at = "drop" => \A x \in calendar' : x.id # q.event

\* Only a request at its create makes an event, only one at its insert maps one.
Touches(p, q) ==
  /\ \A x \in calendar' :
       (\E y \in calendar : y.id = x.id) \/ (p.at = "create" /\ q.at = "insert" /\ x.id = p.version)
  /\ mapping' = 0 \/ mapping' = mapping \/ (p.at = "insert" /\ q.at = "idle" /\ mapping' = p.version)

LEMMA ApartStays ==
  ASSUME ObjectInv, NEW c \in Caller, NEW p, p = request[c], NEW q, Becomes(c, q), UNCHANGED log,
         Follows(p, q), Touches(p, q)
  PROVE  Apart'
<1>1. request'[c] = q /\ \A b \in Caller : b # c => request'[b] = request[b]
  BY BecomesOf DEF ObjectInv, ObjectTypes
<1>2. /\ mapping \in 0..Len(log) /\ Len(log) \in Nat
      /\ \A b \in Caller : Owns(request[b]) => request[b].version \in 1..Len(log)
  BY DEF ObjectInv, ObjectTypes, ObjectLog, Sound
<1>3. Apart
  BY DEF ObjectInv
<1>4. ASSUME NEW v \in 1..Len(log), Used(v)', ~Used(v) PROVE p.at = "insert" /\ q.at = "idle" /\ v = p.version
  <2>1. CASE mapping' = v
    BY <1>4, <2>1 DEF Touches, Used
  <2>2. ASSUME NEW b \in Caller, request'[b].at \in Eventful, request'[b].event = v PROVE FALSE
    <3>1. CASE b = c
      BY <1>1, <1>4, <2>2, <3>1 DEF Follows, Used
    <3>2. CASE b # c
      BY <1>1, <1>4, <2>2, <3>2 DEF Used
    <3> QED
      BY <3>1, <3>2
  <2> QED
    BY <1>4, <2>1, <2>2 DEF Used
<1>5. \A a, b \in Caller :
        a # b /\ Owns(request'[a]) /\ Owns(request'[b]) => request'[a].version # request'[b].version
  BY <1>1, <1>3 DEF Apart, Follows
<1>6. ASSUME NEW b \in Caller, request'[b].at \in Early \union {"insert"} PROVE ~Used(request[b].version)'
  <2>1. PICK v : v = request'[b].version
    OBVIOUS
  <2>2. request[b].at \in Early \union {"insert"} /\ request[b].version = v
    <3>1. Owns(request'[b])
      BY <1>6 DEF Owns, Early
    <3> QED
      BY <1>1, <1>6, <2>1, <3>1 DEF Follows
  <2>3. v \in 1..Len(log) /\ ~Used(v)
    <3>1. Owns(request[b])
      BY <2>2 DEF Owns, Early
    <3> QED
      BY <1>2, <1>3, <2>2, <3>1 DEF Apart
  <2>4. ~(p.at = "insert" /\ q.at = "idle" /\ v = p.version)
    <3>1. SUFFICES ASSUME p.at = "insert", q.at = "idle", v = p.version PROVE FALSE
      OBVIOUS
    <3>2. b # c
      BY <1>1, <1>6, <3>1 DEF Early
    <3>3. Owns(request[b]) /\ Owns(request[c])
      BY <2>2, <3>1 DEF Owns, Early
    <3> QED
      BY <1>3, <2>2, <3>1, <3>2, <3>3 DEF Apart
  <2>5. ~Used(v)'
    BY <1>4, <2>3, <2>4
  <2> QED
    BY <2>1, <2>5
<1>7. ASSUME NEW b \in Caller, request'[b].at \in Early, NEW x \in calendar' PROVE x.id # request'[b].version
  <2>1. request[b].at \in Early /\ request'[b].version = request[b].version
    <3>1. Owns(request'[b])
      BY <1>7 DEF Owns, Early
    <3> QED
      BY <1>1, <1>7, <3>1 DEF Follows
  <2>2. CASE \E y \in calendar : y.id = x.id
    BY <1>3, <2>1, <2>2 DEF Apart
  <2>3. CASE p.at = "create" /\ q.at = "insert" /\ x.id = p.version
    <3>1. b # c
      BY <1>1, <1>7, <2>3 DEF Early
    <3>2. Owns(request[b]) /\ Owns(request[c])
      BY <2>1, <2>3 DEF Owns, Early
    <3> QED
      BY <1>3, <2>1, <2>3, <3>1, <3>2 DEF Apart
  <2> QED
    BY <2>2, <2>3 DEF Touches
<1>8. ASSUME NEW b \in Caller, request'[b].at \in Eventful PROVE request'[b].event \in 1..Len(log)
  BY <1>1, <1>2, <1>3, <1>8 DEF Apart, Follows
<1>9. ASSUME NEW b \in Caller, request'[b].at = "drop", NEW x \in calendar' PROVE x.id # request'[b].event
  <2>1. CASE b = c
    BY <1>1, <1>9, <2>1 DEF Follows
  <2>2. CASE b # c
    <3>1. request'[b] = request[b]
      BY <1>1, <2>2
    <3>2. CASE \E y \in calendar : y.id = x.id
      BY <1>3, <1>9, <3>1, <3>2 DEF Apart
    <3>3. CASE p.at = "create" /\ q.at = "insert" /\ x.id = p.version
      <4>1. ~Used(p.version)
        BY <1>3, <3>3 DEF Apart, Early
      <4>2. request[b].at \in Eventful
        BY <1>9, <3>1 DEF Eventful
      <4> QED
        BY <3>1, <3>3, <4>1, <4>2 DEF Used
    <3> QED
      BY <3>2, <3>3 DEF Touches
  <2> QED
    BY <2>1, <2>2
<1> QED
  BY <1>5, <1>6, <1>7, <1>8, <1>9 DEF Apart

\* The event that is appended is nobody's.
Appended(q) ==
  /\ Continues /\ Len(log') = Len(log) + 1
  /\ q.at = "catch up" /\ q.version = Len(log) + 1
  /\ UNCHANGED <<calendar, mapping>>

LEMMA AppendKeepsApart ==
  ASSUME ObjectInv, NEW c \in Caller, NEW q, Becomes(c, q), Appended(q)
  PROVE  Apart'
<1>1. request'[c] = q /\ \A b \in Caller : b # c => request'[b] = request[b]
  BY BecomesOf DEF ObjectInv, ObjectTypes
<1>2. /\ mapping \in 0..Len(log) /\ Len(log) \in Nat
      /\ \A b \in Caller : Owns(request[b]) => request[b].version \in 1..Len(log)
      /\ \A x \in calendar : x.id \in 1..Len(log)
  BY DEF ObjectInv, ObjectTypes, ObjectLog, Sound, CalendarKnown
<1>3. Apart
  BY DEF ObjectInv
<1>4. PICK n \in Nat : n = Len(log)
  BY <1>2
<1>5. /\ mapping \in 0..n
      /\ \A b \in Caller : Owns(request[b]) => request[b].version \in 1..n
      /\ \A x \in calendar : x.id \in 1..n
      /\ \A b \in Caller : request[b].at \in Eventful => request[b].event \in 1..n
  BY <1>4, <1>2, <1>3 DEF Apart
<1>6. Len(log') = n + 1 /\ q.version = n + 1 /\ q.at = "catch up" /\ calendar' = calendar /\ mapping' = mapping
  BY <1>4 DEF Appended
<1>7. ASSUME NEW v, Used(v)' PROVE Used(v) /\ v # n + 1
  <2>1. q.at \notin Eventful
    BY <1>6 DEF Eventful
  <2>2. Used(v)
    BY <1>1, <1>7, <1>6, <2>1 DEF Used
  <2>3. v \in 0..n
    BY <1>5, <2>2 DEF Used
  <2> QED
    BY <2>2, <2>3
<1>8. \A b \in Caller : Owns(request[b]) => request[b].version # n + 1
  BY <1>5
<1>9. \A a, b \in Caller :
        a # b /\ Owns(request'[a]) /\ Owns(request'[b]) => request'[a].version # request'[b].version
  BY <1>1, <1>3, <1>8, <1>6, Zenon DEF Apart
<1>10. ASSUME NEW b \in Caller, request'[b].at \in Early \union {"insert"} PROVE ~Used(request[b].version)'
  <2>1. PICK v : v = request'[b].version
    OBVIOUS
  <2>2. ~Used(v) \/ v = n + 1
    BY <1>1, <1>3, <1>10, <1>6, <2>1 DEF Apart
  <2>3. ~Used(v)'
    BY <1>7, <2>2
  <2> QED
    BY <2>1, <2>3
<1>11. ASSUME NEW b \in Caller, request'[b].at \in Early, NEW x \in calendar' PROVE x.id # request'[b].version
  <2>1. x \in calendar /\ x.id # n + 1
    <3>1. x \in calendar
      BY <1>6
    <3>2. x.id \in 1..n
      BY <1>5, <3>1
    <3> QED
      BY <3>1, <3>2
  <2> QED
    BY <1>1, <1>3, <1>11, <1>6, <2>1 DEF Apart
<1>12. ASSUME NEW b \in Caller, request'[b].at \in Eventful PROVE request'[b].event \in 1..Len(log')
  <2>1. request'[b] = request[b]
    BY <1>1, <1>12, <1>6 DEF Eventful
  <2>2. request[b].event \in 1..n
    BY <1>5, <1>12, <2>1
  <2>3. request[b].event \in 1..n + 1
    BY <2>2
  <2> QED
    BY <1>6, <2>1, <2>3
<1>13. ASSUME NEW b \in Caller, request'[b].at = "drop", NEW x \in calendar' PROVE x.id # request'[b].event
  BY <1>1, <1>3, <1>13, <1>6 DEF Apart
<1> QED
  BY <1>9, <1>10, <1>11, <1>12, <1>13 DEF Apart

-------------------------------------------------------------------------------
\* Counting orphans and makers.
LEMMA MakersCounted ==
  ASSUME IsFiniteSet(Caller), ObjectInv, NEW c \in Caller, NEW p, p = request[c], NEW q, Becomes(c, q)
  PROVE  /\ Cardinality(Makers) \in Nat /\ Cardinality(Makers') \in Nat
         /\ (p.at \in Making <=> q.at \in Making) => Cardinality(Makers') = Cardinality(Makers)
         /\ p.at \in Making /\ q.at \notin Making => Cardinality(Makers') = Cardinality(Makers) - 1
         /\ p.at \notin Making /\ q.at \in Making => Cardinality(Makers') = Cardinality(Makers) + 1
<1>1. request'[c] = q /\ \A b \in Caller : b # c => request'[b] = request[b]
  BY BecomesOf DEF ObjectInv, ObjectTypes
<1>2. PICK m : m = Makers
  OBVIOUS
<1>3. PICK n : n = Makers'
  OBVIOUS
<1>4. n \subseteq Caller /\ m \subseteq Caller
  BY <1>2, <1>3 DEF Makers
<1>5. IsFiniteSet(m) /\ IsFiniteSet(n)
  BY <1>4, FS_Subset
<1>6. \A b \in Caller \ {c} : b \in n <=> b \in m
  BY <1>1, <1>2, <1>3 DEF Makers
<1>7. (c \in m <=> p.at \in Making) /\ (c \in n <=> q.at \in Making)
  BY <1>1, <1>2, <1>3 DEF Makers
<1>8. (c \in m <=> c \in n) => m = n
  BY <1>4, <1>6
<1>9. c \in m /\ c \notin n => n = m \ {c}
  BY <1>4, <1>6
<1>10. c \notin m /\ c \in n => n = m \union {c}
  BY <1>4, <1>6
<1>11. Cardinality(m) \in Nat /\ Cardinality(n) \in Nat
  BY <1>5, FS_CardinalityType
<1>12. c \in m => Cardinality(m \ {c}) = Cardinality(m) - 1
  BY <1>5, FS_RemoveElement
<1>13. c \notin m => Cardinality(m \union {c}) = Cardinality(m) + 1
  BY <1>5, FS_AddElement
<1> QED
  BY <1>2, <1>3, <1>7, <1>8, <1>9, <1>10, <1>11, <1>12, <1>13

LEMMA OrphansFinite ==
  ASSUME CalendarKnown
  PROVE  IsFiniteSet(D!Orphans) /\ Cardinality(D!Orphans) \in Nat
<1>1. D!Orphans \subseteq calendar
  BY DEF D!Orphans
<1>2. IsFiniteSet(D!Orphans)
  BY <1>1, FS_Subset DEF CalendarKnown
<1> QED
  BY <1>2, FS_CardinalityType

\* Fewer orphans.
LEMMA FewerOrphans ==
  ASSUME CalendarKnown, D!Orphans' \subseteq D!Orphans
  PROVE  Cardinality(D!Orphans') \in Nat /\ Cardinality(D!Orphans') <= Cardinality(D!Orphans)
<1>1. IsFiniteSet(D!Orphans)
  BY OrphansFinite
<1>2. PICK s : s = D!Orphans
  OBVIOUS
<1>3. PICK t : t = D!Orphans'
  OBVIOUS
<1>4. t \subseteq s /\ IsFiniteSet(s)
  BY <1>1, <1>2, <1>3
<1>5. IsFiniteSet(t) /\ Cardinality(t) <= Cardinality(s)
  BY <1>4, FS_Subset
<1>6. Cardinality(t) \in Nat
  BY <1>5, FS_CardinalityType
<1> QED
  BY <1>2, <1>3, <1>5, <1>6

\* One orphan more.
LEMMA OneOrphanMore ==
  ASSUME CalendarKnown, NEW v, \A x \in D!Orphans' : x \in D!Orphans \/ (x \in calendar /\ x.id = v)
  PROVE  Cardinality(D!Orphans') \in Nat /\ Cardinality(D!Orphans') <= Cardinality(D!Orphans) + 1
<1>1. IsFiniteSet(D!Orphans)
  BY OrphansFinite
<1>2. PICK s : s = D!Orphans
  OBVIOUS
<1>3. PICK t : t = D!Orphans'
  OBVIOUS
<1>4. IsFiniteSet(s) /\ Cardinality(s) \in Nat
  BY <1>1, <1>2, FS_CardinalityType
<1>5. PICK y : t \subseteq s \union {y}
  <2>1. CASE \E y \in calendar : y.id = v
    <3>1. PICK y \in calendar : y.id = v
      BY <2>1
    <3>2. \A x \in calendar : x.id = v => x = y
      BY <3>1 DEF CalendarKnown
    <3>3. t \subseteq s \union {y}
      BY <1>2, <1>3, <3>2
    <3> QED
      BY <3>3
  <2>2. CASE ~\E y \in calendar : y.id = v
    BY <1>2, <1>3, <2>2
  <2> QED
    BY <2>1, <2>2
<1>6. IsFiniteSet(s \union {y}) /\ Cardinality(s \union {y}) <= Cardinality(s) + 1
  BY <1>4, FS_AddElement
<1>7. IsFiniteSet(t) /\ Cardinality(t) <= Cardinality(s \union {y})
  BY <1>5, <1>6, FS_Subset
<1>8. Cardinality(t) \in Nat /\ Cardinality(s \union {y}) \in Nat
  BY <1>6, <1>7, FS_CardinalityType
<1> QED
  BY <1>2, <1>3, <1>4, <1>6, <1>7, <1>8

\* As many orphans, if none is renamed.
LEMMA OrphansRenamed ==
  ASSUME CalendarKnown, NEW F, \A x \in D!Orphans' : \E y \in D!Orphans : x = F[y],
         F = [y \in D!Orphans |-> F[y]]
  PROVE  Cardinality(D!Orphans') \in Nat /\ Cardinality(D!Orphans') <= Cardinality(D!Orphans)
<1>1. IsFiniteSet(D!Orphans)
  BY OrphansFinite
<1>2. PICK s : s = D!Orphans
  OBVIOUS
<1>3. PICK t : t = D!Orphans'
  OBVIOUS
<1>4. IsFiniteSet(s) /\ Cardinality(s) \in Nat
  BY <1>1, <1>2, FS_CardinalityType
<1> DEFINE image == {F[y] : y \in s}
<1>5. F \in Surjection(s, image)
  BY <1>2 DEF Surjection
<1>6. IsFiniteSet(image) /\ Cardinality(image) <= Cardinality(s)
  BY <1>4, <1>5, FS_Surjection
<1>7. t \subseteq image
  BY <1>2, <1>3
<1> HIDE DEF image
<1>8. IsFiniteSet(t) /\ Cardinality(t) <= Cardinality(image)
  BY <1>6, <1>7, FS_Subset
<1>9. Cardinality(t) \in Nat /\ Cardinality(image) \in Nat
  BY <1>6, <1>8, FS_CardinalityType
<1> QED
  BY <1>2, <1>3, <1>4, <1>6, <1>8, <1>9

-------------------------------------------------------------------------------
\* What every step that appends nothing has to show.
LEMMA Same == ASSUME Len(log) \in Nat, UNCHANGED log PROVE Continues
  BY DEF Continues

LEMMA LogStaysCommanded ==
  ASSUME ObjectLog, UNCHANGED log
  PROVE  ObjectLog'
<1>1. Len(log) \in Nat /\ DOMAIN log = 1..Len(log)
  BY DEF ObjectLog
<1>2. ASSUME NEW i \in DOMAIN log PROVE log[i] \in (D!Drafts(D!Replay(i - 1)))'
  <2>1. PICK n \in 0..Len(log) : n = i - 1
    BY <1>1
  <2>2. PICK s : s = D!Replay(n)
    OBVIOUS
  <2>3. D!Replay(n)' = s
    BY <1>1, <2>2, ReplayStays
  <2>4. log[i] \in D!Drafts(s)
    BY <2>1, <2>2 DEF ObjectLog, Commanded
  <2>5. log[i] \in (D!Drafts(D!Replay(n)))'
    BY <2>3, <2>4
  <2> QED
    BY <2>1, <2>5
<1>3. Commanded'
  BY <1>2 DEF Commanded
<1> QED
  BY <1>1, <1>3 DEF ObjectLog

LEMMA StepKeeps ==
  ASSUME ObjectInv, NEW c \in Caller, NEW p, p = request[c], NEW q, Becomes(c, q),
         UNCHANGED log, shown' \in 0..Len(log), overlaps' \in Nat, mishaps' \in Nat,
         Sound(q), Follows(p, q), Touches(p, q), CalendarKnown', OrphansPaid', Calm'
  PROVE  ObjectInv'
<1>1. Len(log) \in Nat /\ ObjectLog
  BY DEF ObjectInv, ObjectLog
<1>2. Continues
  BY <1>1, Same
<1>3. Sound(q)'
  BY <1>2, SoundStays
<1>4. (\A b \in Caller : Sound(request[b])') /\ request' = [b \in Caller |-> request'[b]]
  BY <1>2, <1>3, RequestsStay
<1>5. mapping' \in 0..Len(log)
  <2>1. mapping \in 0..Len(log) /\ 0 \in 0..Len(log)
    BY <1>1 DEF ObjectInv, ObjectTypes
  <2>2. Owns(p) => p.version \in 0..Len(log)
    <3>1. Owns(p) => p.version \in 1..Len(log)
      BY DEF ObjectInv, Sound
    <3> QED
      BY <1>1, <3>1
  <2>3. p.at = "insert" => Owns(p)
    BY DEF Owns
  <2> QED
    BY <2>1, <2>2, <2>3 DEF Touches
<1>6. ObjectTypes'
  BY <1>4, <1>5 DEF ObjectTypes
<1>7. Apart'
  BY ApartStays
<1>8. ObjectLog'
  BY <1>1, LogStaysCommanded
<1> QED
  BY <1>4, <1>6, <1>7, <1>8 DEF ObjectInv

\* A request at its next step.
Moves(p, q, a) == q = [p EXCEPT !.at = a]

Unsent == {"append", "catch up", "look"}
LEMMA Moved ==
  ASSUME NEW p, NEW a, NEW q, Shaped(p), p.at \in Unsent \union Making \union Eventful, Moves(p, q, a)
  PROVE  q.at = a /\ q.draft = p.draft /\ q.version = p.version
<1>1. CASE p.at \in Unsent
  <2>1. p = [at |-> p.at, draft |-> p.draft, version |-> p.version]
    BY <1>1 DEF Shaped, Making, Eventful, Unsent
  <2> QED
    BY <2>1 DEF Moves
<1>2. CASE p.at \in Making \union Eventful
  <2>1. p = [at |-> p.at, draft |-> p.draft, version |-> p.version, event |-> p.event]
    BY <1>2 DEF Shaped
  <2> QED
    BY <2>1 DEF Moves
<1> QED
  BY <1>1, <1>2

LEMMA MovedUnsent ==
  ASSUME NEW p, NEW a, NEW q, Shaped(p), p.at \in Unsent, a \in Unsent, Moves(p, q, a)
  PROVE  Shaped(q)
<1>1. p = [at |-> p.at, draft |-> p.draft, version |-> p.version]
  BY DEF Shaped, Unsent
<1>2. q = [at |-> a, draft |-> q.draft, version |-> q.version] /\ q.at = a
  BY <1>1 DEF Moves
<1> QED
  BY <1>2 DEF Shaped, Unsent, Making, Eventful

LEMMA MovedSent ==
  ASSUME NEW p, NEW a, NEW q, Shaped(p), p.at \in Making \union Eventful, a \in Making \union Eventful, Moves(p, q, a)
  PROVE  Shaped(q) /\ q.event = p.event
<1>1. p = [at |-> p.at, draft |-> p.draft, version |-> p.version, event |-> p.event]
  BY DEF Shaped
<1>2. q = [at |-> a, draft |-> q.draft, version |-> q.version, event |-> q.event] /\ q.at = a /\ q.event = p.event
  BY <1>1 DEF Moves
<1> QED
  BY <1>2 DEF Shaped, Making, Eventful

\* Nothing moves but one request that is not pushing.
Neutral(p, q) ==
  /\ UNCHANGED <<calendar, mapping, overlaps, mishaps>>
  /\ p.at \notin Making \union Eventful /\ q.at \notin Making \union Eventful
  /\ p.at \in {"catch up", "look"} /\ D!OfBlock(p.draft)
       <=> q.at \in {"catch up", "look"} /\ D!OfBlock(q.draft)
  /\ q.at \in {"catch up", "look"} => q.version = p.version
  /\ \A i : LastBlock(i, Len(log)) => LastBlock(i, Len(log))'
  /\ \A b : BlockFits(b, Len(log)) => BlockFits(b, Len(log))'

LEMMA CalmStays ==
  ASSUME ObjectInv, NEW c \in Caller, NEW p, p = request[c], NEW q, Becomes(c, q), Neutral(p, q)
  PROVE  Calm'
<1>1. request'[c] = q /\ \A b \in Caller : b # c => request'[b] = request[b]
  BY BecomesOf DEF ObjectInv, ObjectTypes
<1>2. UNCHANGED <<calendar, mapping, overlaps, mishaps>>
  BY DEF Neutral
<1>3. SUFFICES ASSUME overlaps = 0, mishaps = 0 PROVE Calm'
  BY <1>2 DEF Calm
<1>4. \A b \in Caller : Pushes(b)' => Pushes(b) /\ b # c /\ request'[b] = request[b]
  BY <1>1 DEF Neutral, Pushes
<1>5. \A b \in Caller : Pushes(b) => Pushes(b)'
  BY <1>1 DEF Neutral, Pushes
<1>6. \A b \in Caller : (Waits(b)' <=> Waits(b)) /\ (Waits(b) => request'[b].version = request[b].version)
  BY <1>1 DEF Neutral, Waits
<1>7. /\ \A b, d \in Caller : Pushes(b) /\ Pushes(d) => b = d
      /\ \A d \in Caller : Pushes(d) => Pushed(d)
      /\ NonePushes => Mapped \/ Unmapped
      /\ NoneWaits => \A d \in Caller : Pushes(d) => LastBlock(request[d].version, Len(log))
      /\ NoneWaits \/ \E d \in Caller : Waits(d) /\ LastBlock(request[d].version, Len(log))
      /\ NoneWaits /\ NonePushes => \E b : BlockFits(b, Len(log)) /\ Shows(b)
  BY <1>3 DEF ObjectInv, Calm
<1>8. /\ \A i : LastBlock(i, Len(log)) => LastBlock(i, Len(log))'
      /\ \A b : BlockFits(b, Len(log)) => BlockFits(b, Len(log))'
  BY DEF Neutral
<1>9. (NoneWaits' <=> NoneWaits) /\ (NonePushes' <=> NonePushes)
  BY <1>4, <1>5, <1>6 DEF NoneWaits, NonePushes
<1>10. (Mapped' <=> Mapped) /\ (Unmapped' <=> Unmapped) /\ \A b : Shows(b)' <=> Shows(b)
  BY <1>2 DEF Mapped, Unmapped, Shows
<1>11. ASSUME NEW b \in Caller, Pushes(b)' PROVE Pushed(b)'
  <2>1. Pushed(b)
    BY <1>4, <1>7, <1>11
  <2>2. request'[b] = request[b]
    BY <1>4, <1>11
  <2> QED
    BY <1>2, <1>10, <2>1, <2>2 DEF Pushed
<1>12. ASSUME NoneWaits', NEW d \in Caller, Pushes(d)' PROVE LastBlock(request[d].version, Len(log))'
  <2>1. PICK i : i = request[d].version /\ i = request'[d].version
    BY <1>4, <1>12
  <2>2. LastBlock(i, Len(log))'
    BY <1>4, <1>7, <1>8, <1>9, <1>12, <2>1
  <2> QED
    BY <2>1, <2>2
<1>13. NoneWaits' \/ \E d \in Caller : Waits(d)' /\ LastBlock(request[d].version, Len(log))'
  <2>1. SUFFICES ASSUME ~NoneWaits PROVE \E d \in Caller : Waits(d)' /\ LastBlock(request[d].version, Len(log))'
    BY <1>9
  <2>2. PICK d \in Caller : Waits(d) /\ LastBlock(request[d].version, Len(log))
    BY <1>7, <2>1
  <2>3. PICK i : i = request[d].version /\ i = request'[d].version
    BY <1>6, <2>2
  <2>4. LastBlock(i, Len(log))'
    BY <1>8, <2>2, <2>3
  <2> QED
    BY <1>6, <2>2, <2>3, <2>4
<1>14. NoneWaits' /\ NonePushes' => \E b : BlockFits(b, Len(log))' /\ Shows(b)'
  BY <1>7, <1>8, <1>9, <1>10
<1> QED
  BY <1>4, <1>7, <1>9, <1>10, <1>11, <1>12, <1>13, <1>14 DEF Calm

LEMMA BlocksStay ==
  ASSUME UNCHANGED log
  PROVE  /\ \A i : LastBlock(i, Len(log)) => LastBlock(i, Len(log))'
         /\ \A b : BlockFits(b, Len(log)) => BlockFits(b, Len(log))'
<1>1. \A i : IsBlock(i)' <=> IsBlock(i)
  BY DEF IsBlock
<1>2. \A i : LastBlock(i, Len(log)) <=> LastBlock(i, Len(log))'
  BY <1>1 DEF LastBlock
<1>3. \A i : BlockOf(i)' = BlockOf(i)
  BY DEF BlockOf
<1>4. ASSUME NEW b, BlockFits(b, Len(log)) PROVE BlockFits(b, Len(log))'
  BY <1>1, <1>2, <1>3, <1>4 DEF BlockFits
<1> QED
  BY <1>2, <1>4

LEMMA PaidStays ==
  ASSUME IsFiniteSet(Caller), ObjectInv, NEW c \in Caller, NEW p, p = request[c], NEW q, Becomes(c, q),
         UNCHANGED <<calendar, mapping>>, p.at # "insert", q.at # "insert", q.at \in Making => p.at \in Making,
         overlaps' \in Nat, mishaps' \in Nat, overlaps + mishaps <= overlaps' + mishaps'
  PROVE  OrphansPaid'
<1>1. request'[c] = q /\ \A b \in Caller : b # c => request'[b] = request[b]
  BY BecomesOf DEF ObjectInv, ObjectTypes
<1>2. D!Orphans' \subseteq D!Orphans
  BY <1>1 DEF D!Orphans
<1>3. Cardinality(D!Orphans') \in Nat /\ Cardinality(D!Orphans') <= Cardinality(D!Orphans) /\ Cardinality(D!Orphans) \in Nat
  BY <1>2, FewerOrphans, OrphansFinite DEF ObjectInv
<1>4. Cardinality(Makers) \in Nat /\ Cardinality(Makers') \in Nat /\ Cardinality(Makers') <= Cardinality(Makers)
  BY MakersCounted
<1>5. Free' = Free /\ Free \in Nat
  BY DEF Free
<1>6. overlaps \in Nat /\ mishaps \in Nat /\ OrphansPaid
  BY DEF ObjectInv, ObjectTypes
<1>7. PICK o, o1, m, m1 \in Nat :
        /\ o = Cardinality(D!Orphans) /\ o1 = Cardinality(D!Orphans') /\ o1 <= o
        /\ m = Cardinality(Makers) /\ m1 = Cardinality(Makers') /\ m1 <= m
  BY <1>3, <1>4
<1>8. o <= overlaps + mishaps /\ o + m <= overlaps + mishaps + Free
  BY <1>6, <1>7 DEF OrphansPaid
<1>9. PICK f, a, b \in Nat : f = Free /\ f = Free' /\ a = overlaps + mishaps /\ b = overlaps' + mishaps' /\ a <= b
  <2>1. PICK x, y, x1, y1 \in Nat : x = overlaps /\ y = mishaps /\ x1 = overlaps' /\ y1 = mishaps'
    BY <1>6, Zenon
  <2>2. x + y \in Nat /\ x1 + y1 \in Nat
    OBVIOUS
  <2>3. x + y <= x1 + y1
    BY <2>1, Zenon
  <2> QED
    BY <1>5, <2>1, <2>2, <2>3, Zenon
<1>10. o <= a /\ o + m <= a + f
  BY <1>8, <1>9
<1>11. o1 <= b /\ o1 + m1 <= b + f
  BY <1>7, <1>9, <1>10
<1> QED
  BY <1>7, <1>9, <1>11 DEF OrphansPaid

LEMMA KeepsCalendar ==
  ASSUME ObjectInv, UNCHANGED <<log, calendar>>
  PROVE  CalendarKnown'
  BY DEF ObjectInv, CalendarKnown

LEMMA CommandKeeps ==
  ASSUME IsFiniteSet(Caller), ObjectInv, NEW c \in Caller, D!Command(c)
  PROVE  ObjectInv'
<1>1. UNCHANGED <<log, shown, calendar, mapping, mishaps, overlaps>> /\ request[c].at = "idle"
  BY DEF D!Command, D!streams, D!outside
<1>2. PICK d \in D!Drafts(D!Replay(Len(log))) :
        Becomes(c, [at |-> "append", draft |-> d, version |-> Len(log) + 1])
  BY DEF D!Command, D!Go, Becomes
<1>3. PICK v : v = Len(log) + 1
  OBVIOUS
<1>4. PICK q : q = [at |-> "append", draft |-> d, version |-> v]
  OBVIOUS
<1>5. Becomes(c, q) /\ q.at = "append" /\ q.draft = d /\ q.version = v
  BY <1>2, <1>3, <1>4
<1>6. PICK p : p = request[c]
  OBVIOUS
<1>7. Len(log) \in Nat
  BY DEF ObjectInv, ObjectLog
<1>8. Sound(q)
  <2>1. Shaped(q)
    BY <1>4 DEF Shaped, Making, Eventful
  <2>2. v \in 1..Len(log) + 1 /\ v - 1 = Len(log)
    BY <1>3, <1>7
  <2>3. q.draft \in D!Drafts(D!Replay(q.version - 1))
    BY <1>2, <1>5, <2>2
  <2> QED
    BY <1>5, <2>1, <2>2, <2>3 DEF Sound, Stages, Owns, Making
<1>9. Follows(p, q)
  BY <1>5 DEF Follows, Owns, Early, Eventful
<1>10. Touches(p, q)
  BY <1>1 DEF Touches
<1>11. Neutral(p, q)
  BY <1>1, <1>5, <1>6, BlocksStay DEF Neutral, Making, Eventful
<1>12. CalendarKnown'
  BY <1>1, KeepsCalendar
<1>13. shown' \in 0..Len(log) /\ overlaps' \in Nat /\ mishaps' \in Nat /\ overlaps + mishaps <= overlaps' + mishaps'
  BY <1>1 DEF ObjectInv, ObjectTypes
<1>14. OrphansPaid'
  <2>1. p.at # "insert" /\ q.at # "insert" /\ (q.at \in Making => p.at \in Making)
    BY <1>1, <1>5, <1>6 DEF Making
  <2> QED
    BY <1>1, <1>5, <1>6, <1>13, <2>1, PaidStays
<1>15. Calm'
  BY <1>5, <1>6, <1>11, CalmStays
<1> QED
  BY <1>1, <1>5, <1>6, <1>8, <1>9, <1>10, <1>12, <1>13, <1>14, <1>15, StepKeeps

\* A request ends and nothing else changes, or not that anyone counts.
EndsUncounted(c) ==
  /\ Becomes(c, [at |-> "idle"])
  /\ UNCHANGED <<log, shown, calendar, mapping, mishaps, overlaps>>
  /\ \/ request[c].at = "append"
     \/ request[c].at = "catch up" /\ ~D!OfBlock(request[c].draft)

LEMMA EndKeepsObject ==
  ASSUME IsFiniteSet(Caller), ObjectInv, NEW c \in Caller, EndsUncounted(c)
  PROVE  ObjectInv'
<1>1. PICK q : Becomes(c, q) /\ q.at = "idle"
  <2>1. PICK q : q = [at |-> "idle"]
    OBVIOUS
  <2>2. Becomes(c, q) /\ q.at = "idle"
    BY <2>1 DEF EndsUncounted
  <2> QED
    BY <2>2
<1>2. UNCHANGED <<log, shown, calendar, mapping, mishaps, overlaps>>
  BY DEF EndsUncounted
<1>3. PICK p : /\ p = request[c]
               /\ p.at = "append" \/ (p.at = "catch up" /\ ~D!OfBlock(p.draft))
  BY DEF EndsUncounted
<1>4. Sound(q)
  BY <1>1 DEF Sound, Stages, Shaped, Owns, Making, Eventful
<1>5. Follows(p, q)
  BY <1>1 DEF Follows, Owns, Early, Eventful
<1>6. Touches(p, q)
  BY <1>2 DEF Touches
<1>7. Neutral(p, q)
  BY <1>1, <1>2, <1>3, BlocksStay DEF Neutral, Making, Eventful
<1>8. CalendarKnown'
  BY <1>2, KeepsCalendar
<1>9. shown' \in 0..Len(log) /\ overlaps' \in Nat /\ mishaps' \in Nat /\ overlaps + mishaps <= overlaps' + mishaps'
  <2>1. shown \in 0..Len(log) /\ overlaps \in Nat /\ mishaps \in Nat
    BY DEF ObjectInv, ObjectTypes
  <2> QED
    BY <1>2, <2>1
<1>10. OrphansPaid'
  <2>1. p.at # "insert" /\ q.at # "insert" /\ (q.at \in Making => p.at \in Making)
    BY <1>1, <1>3 DEF Making
  <2> QED
    BY <1>1, <1>2, <1>3, <1>9, <2>1, PaidStays
<1>11. Calm'
  BY <1>1, <1>3, <1>7, CalmStays
<1> QED
  BY <1>1, <1>2, <1>3, <1>4, <1>5, <1>6, <1>8, <1>9, <1>10, <1>11, StepKeeps

\* The draft d is appended.
Appends(d) ==
  /\ Continues /\ Len(log') = Len(log) + 1 /\ log'[Len(log) + 1] = d
  /\ \E f : log' = [i \in 1..Len(log') |-> f[i]]

LEMMA AppendOf ==
  ASSUME ObjectLog, NEW d, log' = Append(log, d)
  PROVE  Appends(d)
<1>1. Len(log) \in Nat
  BY DEF ObjectLog
<1>2. PICK f : log = [i \in 1..Len(log) |-> f[i]]
  BY DEF ObjectLog
<1>3. PICK n \in Nat : n = Len(log)
  BY <1>1
<1> DEFINE some == {f[i] : i \in 1..n} \union {d}
<1>4. log \in Seq(some) /\ d \in some
  BY <1>2, <1>3
<1> HIDE DEF some
<1>5. log' \in Seq(some) /\ Len(log') = n + 1 /\ log'[n + 1] = d /\ \A i \in 1..n : log'[i] = log[i]
  BY <1>3, <1>4
<1>6. log' = [i \in 1..Len(log') |-> log'[i]]
  <2>1. PICK t : t = log'
    OBVIOUS
  <2>2. t \in Seq(some)
    BY <1>5, <2>1
  <2>3. DOMAIN t = 1..Len(t) /\ t = [i \in DOMAIN t |-> t[i]]
    BY <2>2
  <2> QED
    BY <2>1, <2>3
<1>7. \E f1 : log' = [i \in 1..Len(log') |-> f1[i]]
  BY <1>6
<1> QED
  BY <1>3, <1>5, <1>7 DEF Appends, Continues

LEMMA AppendedCommanded ==
  ASSUME ObjectLog, NEW d, Appends(d), d \in D!Drafts(D!Replay(Len(log)))
  PROVE  ObjectLog'
<1>1. PICK n \in Nat : n = Len(log)
  BY DEF ObjectLog
<1>2. DOMAIN log = 1..n
  BY <1>1 DEF ObjectLog
<1>3. /\ Len(log') = n + 1 /\ log'[n + 1] = d /\ \A i \in 1..n : log'[i] = log[i]
      /\ \E f : log' = [i \in 1..Len(log') |-> f[i]]
  BY <1>1 DEF Appends, Continues
<1>4. DOMAIN log' = 1..n + 1
  BY <1>3
<1>5. ASSUME NEW i \in 1..n + 1 PROVE log'[i] \in (D!Drafts(D!Replay(i - 1)))'
  <2>1. PICK k \in 0..n : k = i - 1
    OBVIOUS
  <2>2. PICK s : s = D!Replay(k)
    OBVIOUS
  <2>3. D!Replay(k)' = s
    BY <1>1, <1>3, <2>1, <2>2, ReplayStays
  <2>4. log'[i] \in D!Drafts(s)
    <3>1. CASE i = n + 1
      <4>1. k = n
        BY <2>1, <3>1
      <4> QED
        BY <1>1, <1>3, <2>2, <3>1, <4>1
    <3>2. CASE i \in 1..n
      <4>1. i \in DOMAIN log /\ log'[i] = log[i]
        BY <1>2, <1>3, <3>2
      <4>2. log[i] \in D!Drafts(D!Replay(i - 1))
        BY <4>1 DEF ObjectLog, Commanded
      <4> QED
        BY <2>1, <2>2, <4>1, <4>2
    <3> QED
      BY <3>1, <3>2
  <2>5. log'[i] \in (D!Drafts(D!Replay(k)))'
    BY <2>3, <2>4
  <2> QED
    BY <2>1, <2>5
<1>6. Commanded'
  BY <1>4, <1>5 DEF Commanded
<1>7. Len(log') \in Nat
  BY <1>3
<1> QED
  BY <1>3, <1>6, <1>7, SMTT(60) DEF ObjectLog

\* An event about something else changes no time block; one about the time block is the last.
LEMMA BlocksAfter ==
  ASSUME ObjectLog, NEW d, Appends(d)
  PROVE  /\ ~D!OfBlock(d) => /\ \A i : LastBlock(i, Len(log)) => LastBlock(i, Len(log))'
                             /\ \A b : BlockFits(b, Len(log)) => BlockFits(b, Len(log))'
         /\ D!OfBlock(d) => \A n : n = Len(log) + 1 => LastBlock(n, n)'
<1>1. PICK n \in Nat : n = Len(log)
  BY DEF ObjectLog
<1>2. Len(log') = n + 1 /\ log'[n + 1] = d /\ \A i \in 1..n : log'[i] = log[i]
  BY <1>1 DEF Appends, Continues
<1>3. /\ \A i \in 1..n : IsBlock(i)' <=> IsBlock(i)
      /\ IsBlock(n + 1)' <=> D!OfBlock(d)
      /\ \A i \in 1..n : BlockOf(i)' = BlockOf(i)
  BY <1>2 DEF IsBlock, BlockOf
<1>4. ASSUME ~D!OfBlock(d), NEW i, LastBlock(i, n) PROVE LastBlock(i, n + 1)'
  <2>1. i \in 1..n /\ IsBlock(i) /\ \A j \in i + 1..n : ~IsBlock(j)
    BY <1>4 DEF LastBlock
  <2>2. \A j \in i + 1..n + 1 : ~IsBlock(j)'
    BY <1>3, <1>4, <2>1
  <2> QED
    BY <1>3, <2>1, <2>2 DEF LastBlock
<1>5. ASSUME ~D!OfBlock(d), NEW b, BlockFits(b, n) PROVE BlockFits(b, n + 1)'
  <2>1. CASE b = 0 /\ \A i \in 1..n : ~IsBlock(i)
    <3>1. \A i \in 1..n + 1 : ~IsBlock(i)'
      BY <1>3, <1>5, <2>1
    <3> QED
      BY <2>1, <3>1 DEF BlockFits
  <2>2. CASE \E i : LastBlock(i, n) /\ b = BlockOf(i)
    <3>1. PICK i : LastBlock(i, n) /\ b = BlockOf(i)
      BY <2>2
    <3>2. i \in 1..n /\ LastBlock(i, n + 1)'
      BY <1>4, <1>5, <3>1 DEF LastBlock
    <3>3. b = BlockOf(i)'
      BY <1>3, <3>1, <3>2
    <3> QED
      BY <3>2, <3>3 DEF BlockFits
  <2> QED
    BY <1>5, <2>1, <2>2 DEF BlockFits
<1>6. D!OfBlock(d) => LastBlock(n + 1, n + 1)'
  BY <1>3 DEF LastBlock
<1>7. PICK m : m = n + 1 /\ m = Len(log')
  BY <1>2
<1>8. ~D!OfBlock(d) => /\ \A i : LastBlock(i, Len(log)) => LastBlock(i, m)'
                       /\ \A b : BlockFits(b, Len(log)) => BlockFits(b, m)'
  BY <1>1, <1>4, <1>5, <1>7
<1>9. ~D!OfBlock(d) => /\ \A i : LastBlock(i, Len(log)) => LastBlock(i, Len(log))'
                       /\ \A b : BlockFits(b, Len(log)) => BlockFits(b, Len(log))'
  BY <1>7, <1>8
<1> QED
  BY <1>1, <1>6, <1>9, SMTT(60)

LEMMA AppendKeepsObject ==
  ASSUME IsFiniteSet(Caller), ObjectInv, NEW c \in Caller, D!AppendDraft(c)
  PROVE  ObjectInv'
<1>1. UNCHANGED <<shown, calendar, mapping, mishaps, overlaps>> /\ request[c].at = "append"
  BY DEF D!AppendDraft, D!outside
<1>2. PICK p : p = request[c]
  OBVIOUS
<1>3. p.at = "append" /\ Sound(p)
  BY <1>1, <1>2 DEF ObjectInv
<1>4. ObjectLog /\ Len(log) \in Nat
  BY DEF ObjectInv, ObjectLog
<1>5. CASE ~D!VersionMatches(p)
  <2>1. Becomes(c, [at |-> "idle"]) /\ UNCHANGED log
    BY <1>2, <1>5 DEF D!AppendDraft, D!Go, D!Idle, Becomes
  <2>2. EndsUncounted(c)
    BY <1>1, <2>1 DEF EndsUncounted
  <2> QED
    BY <2>2, EndKeepsObject
<1>6. CASE D!VersionMatches(p)
  <2>1. log' = Append(log, p.draft) /\ Becomes(c, [p EXCEPT !.at = "catch up"]) /\ p.version = Len(log) + 1
    BY <1>2, <1>6 DEF D!AppendDraft, D!Go, D!VersionMatches, Becomes
  <2>2. PICK d : d = p.draft
    OBVIOUS
  <2>3. PICK q : q = [p EXCEPT !.at = "catch up"]
    OBVIOUS
  <2>4. Becomes(c, q) /\ q.at = "catch up" /\ q.draft = d /\ q.version = p.version /\ Shaped(q)
    <3>1. Shaped(p) /\ p.at \in Unsent
      BY <1>3 DEF Sound, Unsent
    <3>2. Moves(p, q, "catch up")
      BY <2>3 DEF Moves
    <3>3. "catch up" \in Unsent
      BY DEF Unsent
    <3>4. q.at = "catch up" /\ q.draft = p.draft /\ q.version = p.version
      BY <3>1, <3>2, Moved
    <3>5. Shaped(q)
      BY <3>1, <3>2, <3>3, MovedUnsent
    <3> QED
      BY <2>1, <2>2, <2>3, <3>4, <3>5
  <2>5. Appends(d)
    BY <1>4, <2>1, <2>2, AppendOf
  <2>6. PICK n \in Nat : n = Len(log)
    BY <1>4
  <2>7. d \in D!Drafts(D!Replay(n))
    <3>1. p.version - 1 = n
      <4>1. p.version = n + 1
        BY <2>1, <2>6
      <4> QED
        BY <4>1
    <3> QED
      BY <1>3, <2>2, <3>1 DEF Sound
  <2>8. ObjectLog'
    BY <1>4, <2>5, <2>6, <2>7, AppendedCommanded
  <2>9. Continues /\ Len(log') = n + 1 /\ log'[n + 1] = d /\ q.version = n + 1
    BY <2>1, <2>4, <2>5, <2>6 DEF Appends
  <2>10. Sound(q)'
    <3>1. Shaped(q)
      BY <2>4
    <3>2. q.version \in 1..Len(log') /\ q.draft = log'[q.version]
      <4>1. n + 1 \in 1..n + 1
        OBVIOUS
      <4>2. log'[n + 1] = q.draft
        BY <2>4, <2>9
      <4> QED
        BY <2>9, <4>1, <4>2
    <3> QED
      BY <2>4, <3>1, <3>2 DEF Sound, Stages, Early, Owns, Making
  <2>11. (\A b \in Caller : Sound(request[b])') /\ request' = [b \in Caller |-> request'[b]]
    BY <2>4, <2>9, <2>10, RequestsStay
  <2>12. ObjectTypes'
    <3>1. shown \in 0..n /\ mapping \in 0..n /\ overlaps \in Nat /\ mishaps \in Nat
      BY <2>6 DEF ObjectInv, ObjectTypes
    <3>2. shown' \in 0..Len(log') /\ mapping' \in 0..Len(log')
      BY <1>1, <2>9, <3>1
    <3> QED
      BY <1>1, <2>11, <3>1, <3>2 DEF ObjectTypes
  <2>13. CalendarKnown'
    <3>1. CalendarKnown /\ calendar' = calendar
      BY <1>1 DEF ObjectInv
    <3>2. ASSUME NEW x \in calendar PROVE x.id \in 1..Len(log')
      <4>1. x.id \in 1..n
        BY <2>6, <3>1 DEF CalendarKnown
      <4> QED
        BY <2>9, <4>1
    <3> QED
      BY <3>1, <3>2 DEF CalendarKnown
  <2>14. Apart'
    <3>1. Appended(q)
      BY <1>1, <2>4, <2>6, <2>9 DEF Appended
    <3> QED
      BY <2>4, <3>1, AppendKeepsApart
  <2>15. OrphansPaid'
    <3>1. overlaps' \in Nat /\ mishaps' \in Nat /\ overlaps + mishaps <= overlaps' + mishaps'
      BY <1>1 DEF ObjectInv, ObjectTypes
    <3>2. p.at # "insert" /\ q.at # "insert" /\ (q.at \in Making => p.at \in Making)
      BY <1>3, <2>4 DEF Making
    <3> QED
      BY <1>1, <1>2, <2>4, <3>1, <3>2, PaidStays
  <2>16. Calm'
    <3>1. CASE ~D!OfBlock(d)
      <4>1. Neutral(p, q)
        BY <1>1, <1>3, <1>4, <2>2, <2>4, <2>5, <3>1, BlocksAfter DEF Neutral, Making, Eventful
      <4> QED
        BY <1>2, <2>4, <4>1, CalmStays
    <3>2. CASE D!OfBlock(d)
      <4>1. request'[c] = q /\ \A b \in Caller : b # c => request'[b] = request[b]
        BY <2>4, BecomesOf DEF ObjectInv, ObjectTypes
      <4>2. Waits(c)'
        BY <2>4, <3>2, <4>1 DEF Waits
      <4>3. LastBlock(request[c].version, Len(log))'
        <5>1. PICK m : m = n + 1
          OBVIOUS
        <5>2. LastBlock(m, m)'
          BY <1>4, <2>5, <2>6, <3>2, <5>1, BlocksAfter
        <5>3. request'[c].version = m /\ Len(log') = m
          BY <2>9, <4>1, <5>1
        <5> QED
          BY <5>2, <5>3
      <4>4. ~NoneWaits'
        BY <4>2 DEF NoneWaits
      <4>5. \A b \in Caller : (Pushes(b)' <=> Pushes(b)) /\ (Pushes(b) => b # c /\ request'[b] = request[b])
        BY <1>2, <1>3, <2>4, <4>1 DEF Pushes, Making, Eventful
      <4>6. SUFFICES ASSUME overlaps = 0, mishaps = 0 PROVE Calm'
        BY <1>1 DEF Calm
      <4>7. /\ \A b, e \in Caller : Pushes(b) /\ Pushes(e) => b = e
            /\ \A b \in Caller : Pushes(b) => Pushed(b)
            /\ NonePushes => Mapped \/ Unmapped
        BY <4>6 DEF ObjectInv, Calm
      <4>8. ASSUME NEW b \in Caller, Pushes(b)' PROVE Pushed(b)'
        <5>1. Pushed(b) /\ request'[b] = request[b]
          BY <4>5, <4>7, <4>8
        <5> QED
          BY <1>1, <5>1 DEF Pushed, Mapped, Unmapped
      <4>9. NonePushes' => Mapped' \/ Unmapped'
        BY <1>1, <4>5, <4>7 DEF NonePushes, Mapped, Unmapped
      <4> QED
        BY <4>2, <4>3, <4>4, <4>5, <4>7, <4>8, <4>9 DEF Calm
    <3> QED
      BY <3>1, <3>2
  <2> QED
    BY <2>8, <2>11, <2>12, <2>13, <2>14, <2>15, <2>16 DEF ObjectInv
<1> QED
  BY <1>5, <1>6

LEMMA CatchUpKeepsObject ==
  ASSUME IsFiniteSet(Caller), ObjectInv, NEW c \in Caller, D!CatchUp(c)
  PROVE  ObjectInv'
<1>1. UNCHANGED <<log, calendar, mapping, mishaps, overlaps>> /\ request[c].at = "catch up"
  BY DEF D!CatchUp, D!outside
<1>2. PICK p : p = request[c]
  OBVIOUS
<1>3. p.at = "catch up" /\ Sound(p)
  BY <1>1, <1>2 DEF ObjectInv
<1>4. ObjectLog /\ Len(log) \in Nat
  BY DEF ObjectInv, ObjectLog
<1>5. ~D!Row(Len(log)).refused
  <2>1. Len(log) \in 0..Len(log)
    BY <1>4
  <2>2. D!Row(Len(log)) \in Objects(Len(log))
    BY <1>4, <2>1, RowFollows, ReplayKnown
  <2> QED
    BY <2>2 DEF Objects
<1>6. /\ shown' = Len(log)
      /\ Becomes(c, IF D!OfBlock(p.draft) THEN [p EXCEPT !.at = "look"] ELSE [at |-> "idle"])
  BY <1>2, <1>5 DEF D!CatchUp, D!Go, D!Idle, Becomes
<1>7. PICK q : /\ Becomes(c, q)
               /\ \/ D!OfBlock(p.draft) /\ q = [p EXCEPT !.at = "look"]
                  \/ ~D!OfBlock(p.draft) /\ q = [at |-> "idle"]
  BY <1>6
<1>8. \/ /\ D!OfBlock(p.draft) /\ q.at = "look" /\ q.draft = p.draft /\ q.version = p.version
         /\ Shaped(q)
      \/ ~D!OfBlock(p.draft) /\ q.at = "idle"
  <2>1. Shaped(p) /\ p.at \in Unsent
    BY <1>3 DEF Sound, Unsent
  <2>2. CASE D!OfBlock(p.draft) /\ q = [p EXCEPT !.at = "look"]
    <3>1. Moves(p, q, "look")
      BY <2>2 DEF Moves
    <3>2. "look" \in Unsent
      BY DEF Unsent
    <3>3. q.at = "look" /\ q.draft = p.draft /\ q.version = p.version
      BY <2>1, <3>1, Moved
    <3>4. Shaped(q)
      BY <2>1, <3>1, <3>2, MovedUnsent
    <3> QED
      BY <2>2, <3>3, <3>4
  <2>3. CASE ~D!OfBlock(p.draft) /\ q = [at |-> "idle"]
    BY <2>3
  <2> QED
    BY <1>7, <2>2, <2>3
<1>9. Sound(q)
  <2>1. CASE q.at = "idle"
    BY <2>1 DEF Sound, Stages, Shaped, Owns, Making, Eventful
  <2>2. CASE q.at = "look"
    <3>1. Shaped(q)
      BY <1>8, <2>2
    <3>2. q.version \in 1..Len(log) /\ q.draft = log[q.version] /\ D!OfBlock(q.draft)
      BY <1>3, <1>8, <2>2 DEF Sound, Owns
    <3> QED
      BY <2>2, <3>1, <3>2 DEF Sound, Stages, Early, Owns, Making
  <2> QED
    BY <1>8, <2>1, <2>2
<1>10. Follows(p, q)
  BY <1>3, <1>8 DEF Follows, Owns, Early, Eventful
<1>11. Touches(p, q)
  BY <1>1 DEF Touches
<1>12. Neutral(p, q)
  <2>1. /\ \A i : LastBlock(i, Len(log)) => LastBlock(i, Len(log))'
        /\ \A b : BlockFits(b, Len(log)) => BlockFits(b, Len(log))'
    BY <1>1, BlocksStay
  <2> QED
    BY <1>1, <1>3, <1>8, <2>1 DEF Neutral, Making, Eventful
<1>13. CalendarKnown'
  BY <1>1, KeepsCalendar
<1>14. shown' \in 0..Len(log) /\ overlaps' \in Nat /\ mishaps' \in Nat /\ overlaps + mishaps <= overlaps' + mishaps'
  <2>1. overlaps \in Nat /\ mishaps \in Nat
    BY DEF ObjectInv, ObjectTypes
  <2>2. shown' \in 0..Len(log)
    BY <1>4, <1>6
  <2>3. overlaps' = overlaps /\ mishaps' = mishaps
    BY <1>1
  <2>4. overlaps + mishaps <= overlaps' + mishaps'
    BY <2>1, <2>3
  <2> QED
    BY <2>1, <2>2, <2>3, <2>4
<1>15. OrphansPaid'
  <2>1. p.at # "insert" /\ q.at # "insert" /\ (q.at \in Making => p.at \in Making)
    BY <1>3, <1>8 DEF Making
  <2> QED
    BY <1>1, <1>2, <1>7, <1>14, <2>1, PaidStays
<1>16. Calm'
  BY <1>2, <1>7, <1>12, CalmStays
<1> QED
  BY <1>1, <1>2, <1>7, <1>9, <1>10, <1>11, <1>13, <1>14, <1>15, <1>16, StepKeeps

-------------------------------------------------------------------------------
\* A request looks for the mapping.
Found(p, q) ==
  /\ q.at \in {"create", "update", "delete", "idle"}
  /\ q.at # "idle" => Shaped(q) /\ q.draft = p.draft /\ q.version = p.version /\ q.event = mapping
  /\ q.at \in {"create", "update"} => p.draft.type = "TimeBlockScheduled"
  /\ q.at \in {"delete", "idle"} => p.draft.type = "TimeBlockCleared"
  /\ mapping = 0 <=> q.at \in {"create", "idle"}

Others(c) == {b \in Caller \ {c} : D!UnderWay(b)}

LEMMA FindsMapping ==
  ASSUME ObjectInv, NEW c \in Caller, D!FindMapping(c)
  PROVE  /\ \E q : Becomes(c, q) /\ Found(request[c], q)
         /\ request[c].at = "look" /\ overlaps' = overlaps + Cardinality(Others(c))
         /\ UNCHANGED <<log, shown, calendar, mapping, mishaps>>
<1>1. /\ request[c].at = "look" /\ UNCHANGED <<log, shown, calendar, mapping, mishaps>>
      /\ overlaps' = overlaps + D!Cardinality(Others(c))
  BY DEF D!FindMapping, D!streams, D!outside, Others
<1>2. D!Cardinality(Others(c)) = Cardinality(Others(c))
  BY DEF D!Cardinality, Cardinality
<1>3. PICK p : p = request[c]
  OBVIOUS
<1>4. p.draft.type \in {"TimeBlockScheduled", "TimeBlockCleared"}
  BY <1>1, <1>3 DEF ObjectInv, Sound, Owns, D!OfBlock
<1> DEFINE With(at) == [at |-> at, draft |-> p.draft, version |-> p.version, event |-> mapping]
<1>5. Becomes(c, CASE p.draft.type = "TimeBlockScheduled" /\ mapping = 0 -> With("create")
                   [] p.draft.type = "TimeBlockScheduled" /\ mapping # 0 -> With("update")
                   [] p.draft.type = "TimeBlockCleared" /\ mapping # 0 -> With("delete")
                   [] OTHER -> [at |-> "idle"])
  BY <1>3 DEF D!FindMapping, D!Go, D!Idle, Becomes
<1>6. PICK q : /\ Becomes(c, q)
               /\ \/ p.draft.type = "TimeBlockScheduled" /\ mapping = 0 /\ q = With("create")
                  \/ p.draft.type = "TimeBlockScheduled" /\ mapping # 0 /\ q = With("update")
                  \/ p.draft.type = "TimeBlockCleared" /\ mapping # 0 /\ q = With("delete")
                  \/ p.draft.type = "TimeBlockCleared" /\ mapping = 0 /\ q = [at |-> "idle"]
  BY <1>4, <1>5
<1>7. Found(p, q)
  <2>1. ASSUME NEW at \in {"create", "update", "delete"}, q = With(at)
        PROVE  q.at = at /\ Shaped(q) /\ q.draft = p.draft /\ q.version = p.version /\ q.event = mapping
    BY <2>1 DEF Shaped, Making, Eventful
  <2> HIDE DEF With
  <2>2. CASE q.at = "idle" /\ p.draft.type = "TimeBlockCleared" /\ mapping = 0
    BY <2>2 DEF Found
  <2>3. CASE q = [at |-> "idle"]
    BY <1>6, <2>1, <2>2, <2>3
  <2>4. CASE p.draft.type = "TimeBlockScheduled" /\ mapping = 0 /\ q = With("create")
    BY <2>1, <2>4 DEF Found
  <2>5. CASE p.draft.type = "TimeBlockScheduled" /\ mapping # 0 /\ q = With("update")
    BY <2>1, <2>5 DEF Found
  <2>6. CASE p.draft.type = "TimeBlockCleared" /\ mapping # 0 /\ q = With("delete")
    BY <2>1, <2>6 DEF Found
  <2> QED
    BY <1>6, <2>3, <2>4, <2>5, <2>6
<1> QED
  BY <1>1, <1>2, <1>3, <1>6, <1>7

\* Every other maker is under way.
LEMMA OthersCounted ==
  ASSUME IsFiniteSet(Caller), ObjectInv, NEW c \in Caller, request[c].at = "look"
  PROVE  /\ Cardinality(Others(c)) \in Nat
         /\ Cardinality(Makers) <= Cardinality(Others(c))
         /\ Cardinality(Others(c)) = 0 => \A b \in Caller \ {c} : ~Waits(b) /\ ~Pushes(b)
<1>1. ASSUME NEW b \in Caller \ {c}, Waits(b) \/ Pushes(b) PROVE b \in Others(c)
  <2>1. b \in Caller /\ Sound(request[b])
    BY DEF ObjectInv
  <2>2. Owns(request[b]) /\ D!OfBlock(request[b].draft)
    BY <1>1, <2>1 DEF Waits, Pushes, Sound, Owns, Making, Eventful
  <2> QED
    BY <1>1, <2>2 DEF Others, D!UnderWay, Owns
<1>2. Makers \subseteq Others(c)
  <2>1. \A b \in Makers : b \in Caller \ {c} /\ Pushes(b)
    BY DEF Makers, Pushes, Making
  <2> QED
    BY <1>1, <2>1
<1>3. IsFiniteSet(Others(c))
  BY FS_Subset DEF Others
<1>4. Cardinality(Others(c)) \in Nat /\ Cardinality(Makers) <= Cardinality(Others(c))
  BY <1>2, <1>3, FS_CardinalityType, FS_Subset
<1>5. Cardinality(Others(c)) = 0 => Others(c) = {}
  BY <1>3, FS_EmptySet
<1> QED
  BY <1>1, <1>4, <1>5

LEMMA FindPays ==
  ASSUME IsFiniteSet(Caller), ObjectInv, NEW c \in Caller, NEW q, Becomes(c, q), Found(request[c], q),
         request[c].at = "look", overlaps' = overlaps + Cardinality(Others(c)),
         UNCHANGED <<log, shown, calendar, mapping, mishaps>>
  PROVE  OrphansPaid' /\ overlaps' \in Nat
<1>1. PICK p : p = request[c] /\ p.at = "look"
  OBVIOUS
<1>2. PICK k \in Nat : k = Cardinality(Others(c)) /\ Cardinality(Makers) <= k
  BY OthersCounted
<1>3. overlaps \in Nat /\ mishaps \in Nat /\ overlaps' = overlaps + k /\ mishaps' = mishaps /\ OrphansPaid
  BY <1>2 DEF ObjectInv, ObjectTypes
<1>4. overlaps' \in Nat /\ mishaps' \in Nat /\ overlaps + mishaps <= overlaps' + mishaps'
  BY <1>3
<1>5. CASE q.at # "create"
  <2>1. p.at # "insert" /\ q.at # "insert" /\ (q.at \in Making => p.at \in Making)
    BY <1>1, <1>5 DEF Found, Making
  <2> QED
    BY <1>1, <1>4, <2>1, PaidStays
<1>6. CASE q.at = "create"
  <2>1. request'[c] = q /\ \A b \in Caller : b # c => request'[b] = request[b]
    BY BecomesOf DEF ObjectInv, ObjectTypes
  <2>2. D!Orphans' \subseteq D!Orphans
    BY <1>1, <1>6, <2>1 DEF D!Orphans
  <2>3. Cardinality(D!Orphans') \in Nat /\ Cardinality(D!Orphans') <= Cardinality(D!Orphans) /\ Cardinality(D!Orphans) \in Nat
    BY <2>2, FewerOrphans, OrphansFinite DEF ObjectInv
  <2>4. /\ Cardinality(Makers) \in Nat /\ Cardinality(Makers') \in Nat
        /\ Cardinality(Makers') = Cardinality(Makers) + 1
    BY <1>1, <1>6, MakersCounted DEF Making
  <2>5. Free' = 1
    BY <1>6 DEF Free, Found
  <2>6. PICK o, o1, m, m1 \in Nat :
          /\ o = Cardinality(D!Orphans) /\ o1 = Cardinality(D!Orphans') /\ o1 <= o
          /\ m = Cardinality(Makers) /\ m1 = Cardinality(Makers') /\ m1 = m + 1
    BY <2>3, <2>4
  <2>7. o <= overlaps + mishaps /\ m <= k
    BY <1>2, <1>3, <2>6 DEF OrphansPaid
  <2>8. o1 <= overlaps' + mishaps' /\ o1 + m1 <= overlaps' + mishaps' + Free'
    BY <1>3, <2>5, <2>6, <2>7
  <2> QED
    BY <1>4, <2>6, <2>8 DEF OrphansPaid
<1> QED
  BY <1>4, <1>5, <1>6

LEMMA FindCalm ==
  ASSUME IsFiniteSet(Caller), ObjectInv, NEW c \in Caller, NEW q, Becomes(c, q), Found(request[c], q),
         request[c].at = "look", overlaps' = overlaps + Cardinality(Others(c)),
         UNCHANGED <<log, shown, calendar, mapping, mishaps>>
  PROVE  Calm'
<1>1. SUFFICES ASSUME overlaps' = 0, mishaps' = 0 PROVE Calm'
  BY DEF Calm
<1>2. PICK k \in Nat : k = Cardinality(Others(c)) /\ overlaps' = overlaps + k
  BY OthersCounted
<1>3. overlaps = 0 /\ mishaps = 0 /\ k = 0
  BY <1>1, <1>2 DEF ObjectInv, ObjectTypes
<1>4. \A b \in Caller : b # c => ~Waits(b) /\ ~Pushes(b)
  BY <1>2, <1>3, OthersCounted
<1>5. PICK p : p = request[c] /\ p.at = "look" /\ Sound(p)
  BY DEF ObjectInv
<1>6. D!OfBlock(p.draft) /\ p.draft = log[p.version] /\ ~Pushes(c) /\ Waits(c)
  BY <1>5 DEF Sound, Owns, Pushes, Waits, Making, Eventful
<1>7. LastBlock(p.version, Len(log)) /\ (Mapped \/ Unmapped)
  <2>1. ~NoneWaits /\ NonePushes
    BY <1>4, <1>6 DEF NoneWaits, NonePushes
  <2>2. (NonePushes => Mapped \/ Unmapped) /\ (NoneWaits \/ \E b \in Caller : Waits(b) /\ LastBlock(request[b].version, Len(log)))
    BY <1>3 DEF ObjectInv, Calm
  <2> QED
    BY <1>4, <1>5, <2>1, <2>2
<1>8. request'[c] = q /\ \A b \in Caller : b # c => request'[b] = request[b]
  BY BecomesOf DEF ObjectInv, ObjectTypes
<1>9. Found(p, q)
  BY <1>5
<1>10. \A b \in Caller : ~Waits(b)' /\ (Pushes(b)' => b = c)
  BY <1>4, <1>8, <1>9 DEF Waits, Pushes, Found
<1>11. NoneWaits'
  BY <1>10 DEF NoneWaits
<1>12. PICK i : i = p.version
  OBVIOUS
<1>13. LastBlock(i, Len(log))' /\ \A b : BlockFits(b, Len(log)) => BlockFits(b, Len(log))'
  BY <1>7, <1>12, BlocksStay
<1>14. ASSUME Pushes(c)' PROVE Pushed(c)' /\ LastBlock(request[c].version, Len(log))'
  <2>1. q.at \in {"create", "update", "delete"} /\ q.version = p.version /\ q.event = mapping
    BY <1>8, <1>9, <1>14 DEF Pushes, Found, Making, Eventful
  <2>2. LastBlock(request[c].version, Len(log))'
    BY <1>8, <1>12, <1>13, <2>1
  <2>3. Pushed(c)'
    <3>1. CASE q.at = "create"
      <4>1. Unmapped'
        BY <1>7, <1>9, <3>1 DEF Found, Mapped, Unmapped
      <4> QED
        BY <1>8, <3>1, <4>1 DEF Pushed
    <3>2. CASE q.at # "create"
      <4>1. Mapped' /\ mapping' = mapping
        BY <1>7, <1>9, <2>1, <3>2 DEF Found, Mapped, Unmapped
      <4> QED
        BY <1>8, <2>1, <3>2, <4>1 DEF Pushed
    <3> QED
      BY <3>1, <3>2
  <2> QED
    BY <2>2, <2>3
<1>15. Mapped' \/ Unmapped'
  BY <1>7 DEF Mapped, Unmapped
<1>16. ASSUME NonePushes' PROVE \E b : BlockFits(b, Len(log))' /\ Shows(b)'
  <2>1. q.at = "idle"
    BY <1>8, <1>9, <1>16 DEF NonePushes, Pushes, Found, Making, Eventful
  <2>2. mapping = 0 /\ log[i].type = "TimeBlockCleared"
    BY <1>6, <1>9, <1>12, <2>1 DEF Found
  <2>3. BlockOf(i) = 0
    BY <2>2 DEF BlockOf
  <2>4. BlockFits(0, Len(log))
    BY <1>7, <1>12, <2>3 DEF BlockFits
  <2>5. calendar = {}
    BY <1>7, <2>2 DEF Mapped, Unmapped
  <2>6. Shows(0)'
    BY <2>5 DEF Shows
  <2>7. BlockFits(0, Len(log))'
    BY <1>13, <2>4
  <2> QED
    BY <2>6, <2>7
<1> QED
  BY <1>10, <1>11, <1>14, <1>15, <1>16 DEF Calm

LEMMA FindKeepsObject ==
  ASSUME IsFiniteSet(Caller), ObjectInv, NEW c \in Caller, D!FindMapping(c)
  PROVE  ObjectInv'
<1>1. /\ \E q : Becomes(c, q) /\ Found(request[c], q)
      /\ request[c].at = "look" /\ overlaps' = overlaps + Cardinality(Others(c))
      /\ UNCHANGED <<log, shown, calendar, mapping, mishaps>>
  BY FindsMapping
<1>2. PICK q : Becomes(c, q) /\ Found(request[c], q)
  BY <1>1
<1>3. OrphansPaid' /\ overlaps' \in Nat
  BY <1>1, <1>2, FindPays
<1>4. Calm'
  BY <1>1, <1>2, FindCalm
<1>5. CalendarKnown'
  BY <1>1, KeepsCalendar
<1>6. PICK p : p = request[c] /\ p.at = "look" /\ Sound(p) /\ Found(p, q)
  BY <1>1, <1>2 DEF ObjectInv
<1>7. Sound(q)
  <2>1. CASE q.at = "idle"
    BY <2>1 DEF Sound, Stages, Shaped, Owns, Making, Eventful
  <2>2. CASE q.at # "idle"
    BY <1>6, <2>2 DEF Sound, Found, Stages, Owns, Making, Eventful, Early
  <2> QED
    BY <2>1, <2>2
<1>8. Follows(p, q)
  BY <1>6 DEF Follows, Found, Owns, Early, Eventful
<1>9. Touches(p, q)
  BY <1>1 DEF Touches
<1>10. shown' \in 0..Len(log) /\ mishaps' \in Nat
  BY <1>1 DEF ObjectInv, ObjectTypes
<1> QED
  BY <1>1, <1>2, <1>3, <1>4, <1>5, <1>6, <1>7, <1>8, <1>9, <1>10, StepKeeps

-------------------------------------------------------------------------------
\* The push of one request goes on, or ends.
PushOn(c, p, q) ==
  /\ UNCHANGED <<log, overlaps, mishaps>>
  /\ p.at \in Making \union Eventful /\ q.at \in Making \union Eventful \union {"idle"}
  /\ q.at # "idle" => q.version = p.version
  /\ Pushed(c) =>
       /\ q.at # "idle" => Pushed(c)'
       /\ q.at = "idle" => Mapped' \/ Unmapped'
       /\ q.at = "idle" /\ LastBlock(p.version, Len(log)) => \E b : BlockFits(b, Len(log)) /\ Shows(b)'

LEMMA PushKeepsCalm ==
  ASSUME ObjectInv, NEW c \in Caller, NEW p, p = request[c], NEW q, Becomes(c, q), PushOn(c, p, q)
  PROVE  Calm'
<1>1. SUFFICES ASSUME overlaps' = 0, mishaps' = 0 PROVE Calm'
  BY DEF Calm
<1>2. overlaps = 0 /\ mishaps = 0
  BY <1>1 DEF PushOn
<1>3. Pushes(c)
  BY DEF PushOn, Pushes
<1>4. /\ \A b \in Caller : Pushes(b) => b = c
      /\ Pushed(c)
      /\ NoneWaits => LastBlock(p.version, Len(log))
      /\ NoneWaits \/ \E b \in Caller : Waits(b) /\ LastBlock(request[b].version, Len(log))
  BY <1>2, <1>3 DEF ObjectInv, Calm
<1>5. request'[c] = q /\ \A b \in Caller : b # c => request'[b] = request[b]
  BY BecomesOf DEF ObjectInv, ObjectTypes
<1>6. /\ \A b \in Caller : Pushes(b)' => b = c
      /\ Pushes(c)' <=> q.at # "idle"
      /\ \A b \in Caller : (Waits(b)' <=> Waits(b)) /\ (Waits(b) => request'[b] = request[b])
  <2>1. p.at \in Making \union Eventful /\ q.at \in Making \union Eventful \union {"idle"}
    BY DEF PushOn
  <2>2. ~Waits(c) /\ ~Waits(c)' /\ (Pushes(c)' <=> q.at # "idle")
    BY <1>5, <2>1 DEF Waits, Pushes, Making, Eventful
  <2>3. \A b \in Caller : b # c => (Waits(b)' <=> Waits(b)) /\ (Pushes(b)' <=> Pushes(b))
    BY <1>5 DEF Waits, Pushes
  <2> QED
    BY <1>4, <1>5, <2>2, <2>3
<1>7. NoneWaits' <=> NoneWaits
  BY <1>6 DEF NoneWaits
<1>8. /\ \A i : LastBlock(i, Len(log)) => LastBlock(i, Len(log))'
      /\ \A b : BlockFits(b, Len(log)) => BlockFits(b, Len(log))'
  BY BlocksStay DEF PushOn
<1>9. ASSUME Pushes(c)' PROVE Pushed(c)' /\ (NoneWaits' => LastBlock(request[c].version, Len(log))')
  <2>1. Pushed(c)' /\ q.version = p.version
    BY <1>4, <1>6, <1>9 DEF PushOn
  <2>2. PICK i : i = p.version
    OBVIOUS
  <2>3. NoneWaits => LastBlock(i, Len(log))'
    BY <1>4, <1>8, <2>2
  <2> QED
    BY <1>5, <1>7, <2>1, <2>2, <2>3
<1>10. ASSUME NonePushes' PROVE Mapped' \/ Unmapped'
  BY <1>4, <1>6, <1>10 DEF NonePushes, PushOn
<1>11. ASSUME NonePushes', NoneWaits' PROVE \E b : BlockFits(b, Len(log))' /\ Shows(b)'
  <2>1. q.at = "idle" /\ LastBlock(p.version, Len(log))
    BY <1>4, <1>6, <1>7, <1>11 DEF NonePushes
  <2>2. PICK b : BlockFits(b, Len(log)) /\ Shows(b)'
    BY <1>4, <2>1 DEF PushOn
  <2> QED
    BY <1>8, <2>2
<1>12. NoneWaits' \/ \E b \in Caller : Waits(b)' /\ LastBlock(request[b].version, Len(log))'
  <2>1. SUFFICES ASSUME ~NoneWaits PROVE \E b \in Caller : Waits(b)' /\ LastBlock(request[b].version, Len(log))'
    BY <1>7
  <2>2. PICK b \in Caller : Waits(b) /\ LastBlock(request[b].version, Len(log))
    BY <1>4, <2>1
  <2>3. PICK i : i = request[b].version /\ i = request'[b].version
    BY <1>6, <2>2
  <2>4. LastBlock(i, Len(log))'
    BY <1>8, <2>2, <2>3
  <2> QED
    BY <1>6, <2>2, <2>3, <2>4
<1> QED
  BY <1>6, <1>9, <1>10, <1>11, <1>12 DEF Calm

\* What a push shows of the last time block.
LEMMA BlockShown ==
  ASSUME NEW v, LastBlock(v, Len(log))
  PROVE  /\ log[v].type = "TimeBlockScheduled" => BlockFits(v, Len(log))
         /\ log[v].type = "TimeBlockCleared" => BlockFits(0, Len(log))
<1>1. log[v].type = "TimeBlockScheduled" => BlockOf(v) = v
  BY DEF BlockOf
<1>2. log[v].type = "TimeBlockCleared" => BlockOf(v) = 0
  BY DEF BlockOf
<1> QED
  BY <1>1, <1>2 DEF BlockFits

\* No orphan more, and no maker.
LEMMA PaidEasily ==
  ASSUME IsFiniteSet(Caller), ObjectInv, NEW c \in Caller, NEW p, p = request[c], NEW q, Becomes(c, q),
         q.at \in Making => p.at \in Making, Free' \in Nat, Free <= Free',
         Cardinality(D!Orphans') \in Nat, Cardinality(D!Orphans') <= Cardinality(D!Orphans),
         UNCHANGED <<overlaps, mishaps>>
  PROVE  OrphansPaid'
<1>1. Cardinality(D!Orphans) \in Nat
  BY OrphansFinite DEF ObjectInv
<1>2. Cardinality(Makers) \in Nat /\ Cardinality(Makers') \in Nat /\ Cardinality(Makers') <= Cardinality(Makers)
  BY MakersCounted
<1>3. overlaps \in Nat /\ mishaps \in Nat /\ OrphansPaid
  BY DEF ObjectInv, ObjectTypes
<1>4. PICK o, o1, m, m1 \in Nat :
        /\ o = Cardinality(D!Orphans) /\ o1 = Cardinality(D!Orphans') /\ o1 <= o
        /\ m = Cardinality(Makers) /\ m1 = Cardinality(Makers') /\ m1 <= m
  BY <1>1, <1>2
<1>5. o <= overlaps + mishaps /\ o + m <= overlaps + mishaps + Free
  BY <1>3, <1>4 DEF OrphansPaid
<1>6. Free \in Nat
  BY DEF Free
<1>7. o1 <= overlaps + mishaps /\ o1 + m1 <= overlaps + mishaps + Free'
  BY <1>3, <1>4, <1>5, <1>6
<1>8. overlaps' + mishaps' = overlaps + mishaps
  OBVIOUS
<1> QED
  BY <1>4, <1>7, <1>8 DEF OrphansPaid

\* What a request that pushes holds.
LEMMA Pushing ==
  ASSUME ObjectInv, NEW c \in Caller, NEW p, p = request[c], p.at \in Making \union Eventful
  PROVE  /\ Shaped(p) /\ Sound(p) /\ p.version \in 1..Len(log) /\ p.draft = log[p.version]
         /\ p.at \in Making \union {"update"} => log[p.version].type = "TimeBlockScheduled"
         /\ p.at \in {"delete", "drop"} => log[p.version].type = "TimeBlockCleared"
         /\ p.at \in Eventful => p.event \in 1..Len(log)
<1>1. Sound(p)
  BY DEF ObjectInv
<1>2. Owns(p)
  BY DEF Owns, Making, Eventful
<1>3. p.at \in Eventful => p.event \in 1..Len(log)
  BY DEF ObjectInv, Apart
<1> QED
  BY <1>1, <1>2, <1>3 DEF Sound

LEMMA CreateKeepsObject ==
  ASSUME IsFiniteSet(Caller), ObjectInv, NEW c \in Caller, D!CreateEvent(c)
  PROVE  ObjectInv'
<1>1. /\ UNCHANGED <<log, shown, mapping, mishaps, overlaps>> /\ request[c].at = "create"
      /\ calendar' = calendar \union {Event(request[c].version, request[c].version)}
      /\ Becomes(c, [request[c] EXCEPT !.at = "insert"])
  BY DEF D!CreateEvent, D!streams, D!Go, Becomes, Event
<1>2. PICK p : p = request[c] /\ p.at = "create"
  BY <1>1
<1>3. PICK q : Becomes(c, q) /\ Moves(p, q, "insert")
  BY <1>1, <1>2 DEF Moves
<1>4. Shaped(p) /\ p.version \in 1..Len(log) /\ p.draft = log[p.version] /\ Sound(p)
  BY <1>2, Pushing DEF Making
<1>5. q.at = "insert" /\ q.version = p.version /\ q.draft = p.draft /\ Shaped(q)
  BY <1>2, <1>3, <1>4, Moved, MovedSent DEF Making
<1>6. Sound(q)
  BY <1>2, <1>4, <1>5 DEF Sound, Stages, Owns, Making
<1>7. PICK v : v = p.version
  OBVIOUS
<1>8. calendar' = calendar \union {Event(v, v)} /\ Event(v, v).id = v
  BY <1>1, <1>2, <1>7 DEF Event
<1>9. \A x \in calendar : x.id # v
  BY <1>2, <1>7 DEF ObjectInv, Apart, Early
<1>10. CalendarKnown'
  <2>1. CalendarKnown
    BY DEF ObjectInv
  <2>2. IsFiniteSet(calendar \union {Event(v, v)})
    BY <2>1, FS_AddElement DEF CalendarKnown
  <2>3. Event(v, v) = Event(Event(v, v).id, Event(v, v).block)
    BY DEF Event
  <2>4. ASSUME NEW x \in calendar' PROVE x.id \in 1..Len(log) /\ x = Event(x.id, x.block)
    BY <1>4, <1>7, <1>8, <2>1, <2>3 DEF CalendarKnown
  <2>5. ASSUME NEW x \in calendar', NEW y \in calendar', x.id = y.id PROVE x = y
    BY <1>8, <1>9, <2>1, <2>5 DEF CalendarKnown
  <2> QED
    BY <1>1, <1>8, <2>2, <2>4, <2>5 DEF CalendarKnown
<1>11. Follows(p, q)
  BY <1>2, <1>5 DEF Follows, Owns, Early, Eventful
<1>12. Touches(p, q)
  BY <1>1, <1>2, <1>5, <1>7, <1>8 DEF Touches
<1>13. request'[c] = q /\ \A b \in Caller : b # c => request'[b] = request[b]
  BY <1>3, BecomesOf DEF ObjectInv, ObjectTypes
<1>14. OrphansPaid'
  <2>1. D!Orphans' \subseteq D!Orphans
    BY <1>1, <1>2, <1>5, <1>7, <1>8, <1>13 DEF D!Orphans
  <2>2. Cardinality(D!Orphans') \in Nat /\ Cardinality(D!Orphans') <= Cardinality(D!Orphans)
    BY <2>1, FewerOrphans DEF ObjectInv
  <2>3. Free' \in Nat /\ Free <= Free'
    BY <1>1 DEF Free
  <2> QED
    BY <1>1, <1>2, <1>3, <2>2, <2>3, PaidEasily DEF Making
<1>15. Calm'
  <2>1. ASSUME Pushed(c) PROVE Pushed(c)'
    <3>1. Unmapped
      BY <1>1, <2>1 DEF Pushed, Eventful
    <3> QED
      BY <1>1, <1>5, <1>7, <1>8, <1>13, <3>1 DEF Pushed, Unmapped
  <2>2. PushOn(c, p, q)
    BY <1>1, <1>2, <1>5, <2>1 DEF PushOn, Making
  <2> QED
    BY <1>2, <1>3, <2>2, PushKeepsCalm
<1>16. shown' \in 0..Len(log) /\ overlaps' \in Nat /\ mishaps' \in Nat
  BY <1>1 DEF ObjectInv, ObjectTypes
<1> QED
  BY <1>1, <1>2, <1>3, <1>6, <1>10, <1>11, <1>12, <1>14, <1>15, <1>16, StepKeeps

LEMMA EndsWell ==
  ASSUME NEW p, NEW q, q.at = "idle"
  PROVE  Sound(q) /\ Follows(p, q)
<1>1. Sound(q)
  BY DEF Sound, Stages, Shaped, Owns, Making, Eventful
<1>2. Follows(p, q)
  BY DEF Follows, Owns, Early, Eventful
<1> QED
  BY <1>1, <1>2

\* No maker more, and one orphan, if a maker ends or a mishap pays.
LEMMA PaidOnce ==
  ASSUME IsFiniteSet(Caller), ObjectInv, NEW c \in Caller, NEW p, p = request[c], NEW q, Becomes(c, q),
         p.at = "insert", q.at = "idle", mapping' = mapping, UNCHANGED <<calendar, overlaps>>,
         (mapping # 0 /\ mishaps' = mishaps) \/ mishaps' = mishaps + 1
  PROVE  OrphansPaid'
<1>1. request'[c] = q /\ \A b \in Caller : b # c => request'[b] = request[b]
  BY BecomesOf DEF ObjectInv, ObjectTypes
<1>2. PICK v : v = p.version
  OBVIOUS
<1>3. \A x \in D!Orphans' : x \in D!Orphans \/ (x \in calendar /\ x.id = v)
  BY <1>1, <1>2 DEF D!Orphans
<1>4. /\ Cardinality(D!Orphans') \in Nat /\ Cardinality(D!Orphans') <= Cardinality(D!Orphans) + 1
      /\ Cardinality(D!Orphans) \in Nat
  BY <1>3, OneOrphanMore, OrphansFinite DEF ObjectInv
<1>5. Cardinality(Makers) \in Nat /\ Cardinality(Makers') \in Nat /\ Cardinality(Makers') = Cardinality(Makers) - 1
  BY MakersCounted DEF Making
<1>6. overlaps \in Nat /\ mishaps \in Nat /\ OrphansPaid
  BY DEF ObjectInv, ObjectTypes
<1>7. Free' = Free /\ Free \in Nat /\ (mapping # 0 => Free = 0)
  BY DEF Free
<1>8. PICK o, o1, m, m1 \in Nat :
        /\ o = Cardinality(D!Orphans) /\ o1 = Cardinality(D!Orphans') /\ o1 <= o + 1
        /\ m = Cardinality(Makers) /\ m1 = Cardinality(Makers') /\ m1 = m - 1
  BY <1>4, <1>5
<1>9. o <= overlaps + mishaps /\ o + m <= overlaps + mishaps + Free
  BY <1>6, <1>8 DEF OrphansPaid
<1>10. PICK k \in Nat : k = mishaps' /\ ((mapping # 0 /\ k = mishaps) \/ k = mishaps + 1)
  BY <1>6
<1>11. o1 <= overlaps + k /\ o1 + m1 <= overlaps + k + Free
  BY <1>6, <1>7, <1>8, <1>9, <1>10
<1>12. overlaps' = overlaps /\ mishaps' = k
  BY <1>10
<1> QED
  BY <1>7, <1>8, <1>11, <1>12 DEF OrphansPaid

LEMMA InsertKeepsObject ==
  ASSUME IsFiniteSet(Caller), ObjectInv, NEW c \in Caller, D!InsertMapping(c)
  PROVE  ObjectInv'
<1>1. /\ UNCHANGED <<log, shown, calendar, mishaps, overlaps>> /\ request[c].at = "insert"
      /\ mapping' = IF mapping = 0 THEN request[c].version ELSE mapping
      /\ Becomes(c, [at |-> "idle"])
  BY DEF D!InsertMapping, D!streams, D!Go, D!Idle, Becomes
<1>2. PICK p : p = request[c] /\ p.at = "insert"
  BY <1>1
<1>3. PICK q : Becomes(c, q) /\ q.at = "idle"
  <2>1. PICK q : q = [at |-> "idle"]
    OBVIOUS
  <2>2. Becomes(c, q) /\ q.at = "idle"
    BY <1>1, <2>1
  <2> QED
    BY <2>2
<1>4. p.version \in 1..Len(log) /\ log[p.version].type = "TimeBlockScheduled"
  BY <1>2, Pushing DEF Making
<1>5. PICK v : v = p.version /\ v \in 1..Len(log) /\ v # 0
  BY <1>4 DEF ObjectInv, ObjectLog
<1>6. \/ mapping = 0 /\ mapping' = v
      \/ mapping # 0 /\ mapping' = mapping
  BY <1>1, <1>2, <1>5
<1>7. Sound(q) /\ Follows(p, q)
  BY <1>3, EndsWell
<1>8. CalendarKnown'
  BY <1>1, KeepsCalendar
<1>9. Touches(p, q)
  BY <1>1, <1>2, <1>3, <1>5, <1>6 DEF Touches
<1>10. request'[c] = q /\ \A b \in Caller : b # c => request'[b] = request[b]
  BY <1>3, BecomesOf DEF ObjectInv, ObjectTypes
<1>11. OrphansPaid'
  <2>1. CASE mapping = 0 /\ mapping' = v
    <3>1. D!Orphans' \subseteq D!Orphans
      <4>1. \A x \in calendar : x.id # 0
        <5>1. Len(log) \in Nat /\ \A x \in calendar : x.id \in 1..Len(log)
          BY DEF ObjectInv, CalendarKnown, ObjectLog
        <5> QED
          BY <5>1
      <4> QED
        BY <1>1, <1>2, <1>5, <1>10, <2>1, <4>1 DEF D!Orphans
    <3>2. /\ Cardinality(D!Orphans') \in Nat /\ Cardinality(D!Orphans') <= Cardinality(D!Orphans)
          /\ Cardinality(D!Orphans) \in Nat
      BY <3>1, FewerOrphans, OrphansFinite DEF ObjectInv
    <3>3. Cardinality(Makers) \in Nat /\ Cardinality(Makers') \in Nat /\ Cardinality(Makers') = Cardinality(Makers) - 1
      BY <1>2, <1>3, MakersCounted DEF Making
    <3>4. Free = 1 /\ Free' = 0
      BY <1>5, <2>1 DEF Free
    <3>5. overlaps \in Nat /\ mishaps \in Nat /\ OrphansPaid
      BY DEF ObjectInv, ObjectTypes
    <3>6. PICK o, o1, m, m1 \in Nat :
            /\ o = Cardinality(D!Orphans) /\ o1 = Cardinality(D!Orphans') /\ o1 <= o
            /\ m = Cardinality(Makers) /\ m1 = Cardinality(Makers') /\ m1 = m - 1
      BY <3>2, <3>3
    <3>7. o <= overlaps + mishaps /\ o + m <= overlaps + mishaps + 1
      BY <3>4, <3>5, <3>6 DEF OrphansPaid
    <3>8. o1 <= overlaps + mishaps /\ o1 + m1 <= overlaps + mishaps + 0
      BY <3>5, <3>6, <3>7
    <3>9. overlaps' = overlaps /\ mishaps' = mishaps
      BY <1>1
    <3> QED
      BY <3>4, <3>6, <3>8, <3>9 DEF OrphansPaid
  <2>2. CASE mapping # 0 /\ mapping' = mapping
    BY <1>1, <1>2, <1>3, <2>2, PaidOnce
  <2> QED
    BY <1>6, <2>1, <2>2
<1>12. Calm'
  <2>1. ASSUME Pushed(c)
        PROVE  Mapped' /\ (LastBlock(v, Len(log)) => BlockFits(v, Len(log)) /\ Shows(v)')
    <3>1. calendar = {Event(v, v)} /\ mapping = 0
      BY <1>1, <1>2, <1>5, <2>1 DEF Pushed, Eventful
    <3>2. calendar' = {Event(v, v)} /\ mapping' = v
      BY <1>1, <1>6, <3>1
    <3>3. Mapped'
      BY <1>5, <3>2 DEF Mapped, Event
    <3>4. Shows(v)'
      BY <1>5, <3>2 DEF Shows, Event
    <3>5. LastBlock(v, Len(log)) => BlockFits(v, Len(log))
      BY <1>4, <1>5, BlockShown
    <3> QED
      BY <3>3, <3>4, <3>5
  <2>2. PushOn(c, p, q)
    BY <1>1, <1>2, <1>3, <1>5, <2>1 DEF PushOn, Making
  <2> QED
    BY <1>2, <1>3, <2>2, PushKeepsCalm
<1>13. shown' \in 0..Len(log) /\ overlaps' \in Nat /\ mishaps' \in Nat
  BY <1>1 DEF ObjectInv, ObjectTypes
<1> QED
  BY <1>1, <1>2, <1>3, <1>7, <1>8, <1>9, <1>11, <1>12, <1>13, StepKeeps

LEMMA UpdateKeepsObject ==
  ASSUME IsFiniteSet(Caller), ObjectInv, NEW c \in Caller, D!UpdateEvent(c)
  PROVE  ObjectInv'
<1>1. UNCHANGED <<log, shown, mapping, mishaps, overlaps>> /\ request[c].at = "update"
  BY DEF D!UpdateEvent, D!streams
<1>2. PICK p : p = request[c] /\ p.at = "update"
  BY <1>1
<1>3. /\ Becomes(c, [at |-> "idle"])
      /\ calendar' = {IF x.id = p.event THEN [x EXCEPT !.block = p.version] ELSE x : x \in calendar}
  BY <1>2 DEF D!UpdateEvent, D!Go, D!Idle, Becomes
<1>4. PICK q : Becomes(c, q) /\ q.at = "idle"
  <2>1. PICK q : q = [at |-> "idle"]
    OBVIOUS
  <2>2. Becomes(c, q) /\ q.at = "idle"
    BY <1>3, <2>1
  <2> QED
    BY <2>2
<1>5. p.version \in 1..Len(log) /\ log[p.version].type = "TimeBlockScheduled"
  BY <1>2, Pushing DEF Making, Eventful
<1>6. PICK v : v = p.version /\ v \in 1..Len(log) /\ v # 0
  BY <1>5 DEF ObjectInv, ObjectLog
<1>7. CalendarKnown
  BY DEF ObjectInv
<1> DEFINE Now(x) == IF x.id = p.event THEN Event(x.id, v) ELSE x
<1>8. ASSUME NEW x \in calendar
      PROVE  (IF x.id = p.event THEN [x EXCEPT !.block = p.version] ELSE x) = Now(x)
  <2>1. x = [id |-> x.id, block |-> x.block]
    BY <1>7 DEF CalendarKnown, Event
  <2>2. [x EXCEPT !.block = v] = Event(x.id, v)
    BY <2>1 DEF Event
  <2> QED
    BY <1>6, <2>2
<1>9. calendar' = {Now(x) : x \in calendar}
  BY <1>3, <1>8
<1>10. \A x \in calendar : Now(x).id = x.id
  BY DEF Event
<1>11. CalendarKnown'
  <2>1. IsFiniteSet(calendar')
    <3>1. PICK F : F = [x \in calendar |-> Now(x)]
      OBVIOUS
    <3>2. F \in Surjection(calendar, {Now(x) : x \in calendar})
      BY <3>1 DEF Surjection
    <3>3. IsFiniteSet({Now(x) : x \in calendar})
      BY <1>7, <3>2, FS_Surjection DEF CalendarKnown
    <3> QED
      BY <1>9, <3>3
  <2>2. ASSUME NEW x \in calendar' PROVE x.id \in 1..Len(log) /\ x = Event(x.id, x.block)
    <3>1. PICK y \in calendar : x = Now(y)
      BY <1>9
    <3>2. y.id \in 1..Len(log) /\ y = Event(y.id, y.block)
      BY <1>7 DEF CalendarKnown
    <3>3. Event(y.id, v) = Event(Event(y.id, v).id, Event(y.id, v).block)
      BY DEF Event
    <3> QED
      BY <1>10, <3>1, <3>2, <3>3
  <2>3. ASSUME NEW x \in calendar', NEW y \in calendar', x.id = y.id PROVE x = y
    <3>1. PICK x1 \in calendar : x = Now(x1)
      BY <1>9
    <3>2. PICK y1 \in calendar : y = Now(y1)
      BY <1>9
    <3>3. x1 = y1
      BY <1>7, <1>10, <2>3, <3>1, <3>2 DEF CalendarKnown
    <3> QED
      BY <3>1, <3>2, <3>3
  <2> QED
    BY <1>1, <2>1, <2>2, <2>3 DEF CalendarKnown
<1>12. Sound(q) /\ Follows(p, q)
  BY <1>4, EndsWell
<1>13. Touches(p, q)
  BY <1>1, <1>9, <1>10 DEF Touches
<1>14. request'[c] = q /\ \A b \in Caller : b # c => request'[b] = request[b]
  BY <1>4, BecomesOf DEF ObjectInv, ObjectTypes
<1>15. OrphansPaid'
  <2>1. PICK F : F = [x \in D!Orphans |-> Now(x)]
    OBVIOUS
  <2>2. \A x \in D!Orphans : F[x] = Now(x)
    BY <2>1
  <2>3. F = [x \in D!Orphans |-> F[x]]
    BY <2>1
  <2>4. ASSUME NEW x \in D!Orphans' PROVE \E y \in D!Orphans : x = F[y]
    <3>1. x \in calendar' /\ x.id # mapping /\ \A b \in Caller : request'[b].at = "insert" => request'[b].version # x.id
      BY <1>1 DEF D!Orphans
    <3>2. PICK y \in calendar : x = Now(y)
      BY <1>9, <3>1
    <3>3. y.id = x.id
      BY <1>10, <3>2
    <3>4. \A b \in Caller : request[b].at = "insert" => request[b].version # y.id
      BY <1>2, <1>14, <3>1, <3>3
    <3>5. y \in D!Orphans
      BY <3>1, <3>3, <3>4 DEF D!Orphans
    <3> QED
      BY <2>2, <3>2, <3>5
  <2>5. Cardinality(D!Orphans') \in Nat /\ Cardinality(D!Orphans') <= Cardinality(D!Orphans)
    BY <1>7, <2>3, <2>4, OrphansRenamed
  <2>6. Free' \in Nat /\ Free <= Free'
    BY <1>1 DEF Free
  <2> QED
    BY <1>1, <1>2, <1>4, <2>5, <2>6, PaidEasily DEF Making
<1>16. Calm'
  <2>1. ASSUME Pushed(c)
        PROVE  Mapped' /\ (LastBlock(v, Len(log)) => BlockFits(v, Len(log)) /\ Shows(v)')
    <3>1. p.event = mapping /\ Mapped
      BY <1>1, <1>2, <2>1 DEF Pushed, Eventful
    <3>2. PICK w : calendar = {Event(mapping, w)} /\ mapping # 0
      BY <3>1 DEF Mapped
    <3>3. Now(Event(mapping, w)) = Event(mapping, v)
      BY <3>1 DEF Event
    <3>4. calendar' = {Event(mapping, v)} /\ mapping' = mapping
      <4> HIDE DEF Now
      <4> QED
        BY <1>1, <1>9, <3>2, <3>3
    <3>5. Mapped'
      BY <3>2, <3>4 DEF Mapped, Event
    <3>6. Shows(v)'
      BY <1>6, <3>4 DEF Shows, Event
    <3>7. LastBlock(v, Len(log)) => BlockFits(v, Len(log))
      BY <1>5, <1>6, BlockShown
    <3> QED
      BY <3>5, <3>6, <3>7
  <2>2. PushOn(c, p, q)
    BY <1>1, <1>2, <1>4, <1>6, <2>1 DEF PushOn, Eventful
  <2> QED
    BY <1>2, <1>4, <2>2, PushKeepsCalm
<1>17. shown' \in 0..Len(log) /\ overlaps' \in Nat /\ mishaps' \in Nat
  BY <1>1 DEF ObjectInv, ObjectTypes
<1> QED
  BY <1>1, <1>2, <1>4, <1>11, <1>12, <1>13, <1>15, <1>16, <1>17, StepKeeps

LEMMA DeleteKeepsObject ==
  ASSUME IsFiniteSet(Caller), ObjectInv, NEW c \in Caller, D!DeleteEvent(c)
  PROVE  ObjectInv'
<1>1. /\ UNCHANGED <<log, shown, mapping, mishaps, overlaps>> /\ request[c].at = "delete"
      /\ calendar' = {x \in calendar : x.id # request[c].event}
      /\ Becomes(c, [request[c] EXCEPT !.at = "drop"])
  BY DEF D!DeleteEvent, D!streams, D!Go, Becomes
<1>2. PICK p : p = request[c] /\ p.at = "delete"
  BY <1>1
<1>3. PICK q : Becomes(c, q) /\ Moves(p, q, "drop")
  BY <1>1, <1>2 DEF Moves
<1>4. Shaped(p) /\ p.version \in 1..Len(log) /\ p.draft = log[p.version] /\ Sound(p)
  BY <1>2, Pushing DEF Eventful
<1>5. q.at = "drop" /\ q.version = p.version /\ q.draft = p.draft /\ Shaped(q) /\ q.event = p.event
  BY <1>2, <1>3, <1>4, Moved, MovedSent DEF Eventful
<1>6. Sound(q)
  BY <1>2, <1>4, <1>5 DEF Sound, Stages, Owns, Making, Eventful
<1>7. calendar' = {x \in calendar : x.id # p.event}
  BY <1>1, <1>2
<1>8. CalendarKnown'
  <2>1. CalendarKnown /\ calendar' \subseteq calendar
    BY <1>7 DEF ObjectInv
  <2>2. IsFiniteSet(calendar')
    BY <2>1, FS_Subset DEF CalendarKnown
  <2> QED
    BY <1>1, <2>1, <2>2 DEF CalendarKnown
<1>9. Follows(p, q)
  BY <1>2, <1>5, <1>7 DEF Follows, Owns, Early, Eventful
<1>10. Touches(p, q)
  BY <1>1, <1>7 DEF Touches
<1>11. request'[c] = q /\ \A b \in Caller : b # c => request'[b] = request[b]
  BY <1>3, BecomesOf DEF ObjectInv, ObjectTypes
<1>12. OrphansPaid'
  <2>1. D!Orphans' \subseteq D!Orphans
    BY <1>1, <1>2, <1>7, <1>11 DEF D!Orphans
  <2>2. Cardinality(D!Orphans') \in Nat /\ Cardinality(D!Orphans') <= Cardinality(D!Orphans)
    BY <2>1, FewerOrphans DEF ObjectInv
  <2>3. Free' \in Nat /\ Free <= Free'
    BY <1>1 DEF Free
  <2>4. q.at \notin Making
    BY <1>5 DEF Making
  <2> QED
    BY <1>1, <1>2, <1>3, <2>2, <2>3, <2>4, PaidEasily
<1>13. Calm'
  <2>1. ASSUME Pushed(c) PROVE Pushed(c)'
    <3>1. p.event = mapping /\ Mapped
      BY <1>1, <1>2, <2>1 DEF Pushed, Eventful
    <3>2. PICK w : calendar = {Event(mapping, w)} /\ mapping # 0
      BY <3>1 DEF Mapped
    <3>3. calendar' = {} /\ mapping' = mapping
      BY <1>1, <1>7, <3>1, <3>2 DEF Event
    <3> QED
      BY <1>5, <1>11, <3>1, <3>2, <3>3 DEF Pushed
  <2>2. PushOn(c, p, q)
    BY <1>1, <1>2, <1>5, <2>1 DEF PushOn, Eventful
  <2> QED
    BY <1>2, <1>3, <2>2, PushKeepsCalm
<1>14. shown' \in 0..Len(log) /\ overlaps' \in Nat /\ mishaps' \in Nat
  BY <1>1 DEF ObjectInv, ObjectTypes
<1> QED
  BY <1>1, <1>2, <1>3, <1>6, <1>8, <1>9, <1>10, <1>12, <1>13, <1>14, StepKeeps

LEMMA DropKeepsObject ==
  ASSUME IsFiniteSet(Caller), ObjectInv, NEW c \in Caller, D!DropMapping(c)
  PROVE  ObjectInv'
<1>1. /\ UNCHANGED <<log, shown, calendar, mishaps, overlaps>> /\ request[c].at = "drop"
      /\ mapping' = IF mapping = request[c].event THEN 0 ELSE mapping
      /\ Becomes(c, [at |-> "idle"])
  BY DEF D!DropMapping, D!streams, D!Go, D!Idle, Becomes
<1>2. PICK p : p = request[c] /\ p.at = "drop"
  BY <1>1
<1>3. PICK q : Becomes(c, q) /\ q.at = "idle"
  <2>1. PICK q : q = [at |-> "idle"]
    OBVIOUS
  <2>2. Becomes(c, q) /\ q.at = "idle"
    BY <1>1, <2>1
  <2> QED
    BY <2>2
<1>4. p.version \in 1..Len(log) /\ log[p.version].type = "TimeBlockCleared"
  BY <1>2, Pushing DEF Eventful
<1>5. \/ mapping = p.event /\ mapping' = 0
      \/ mapping # p.event /\ mapping' = mapping
  BY <1>1, <1>2
<1>6. \A x \in calendar : x.id # p.event
  BY <1>2 DEF ObjectInv, Apart
<1>7. Sound(q) /\ Follows(p, q)
  BY <1>3, EndsWell
<1>8. CalendarKnown'
  BY <1>1, KeepsCalendar
<1>9. Touches(p, q)
  BY <1>1, <1>5 DEF Touches
<1>10. request'[c] = q /\ \A b \in Caller : b # c => request'[b] = request[b]
  BY <1>3, BecomesOf DEF ObjectInv, ObjectTypes
<1>11. OrphansPaid'
  <2>1. D!Orphans' \subseteq D!Orphans
    BY <1>1, <1>2, <1>5, <1>6, <1>10 DEF D!Orphans
  <2>2. Cardinality(D!Orphans') \in Nat /\ Cardinality(D!Orphans') <= Cardinality(D!Orphans)
    BY <2>1, FewerOrphans DEF ObjectInv
  <2>3. Free' \in Nat /\ Free <= Free'
    BY <1>5 DEF Free
  <2>4. q.at \notin Making
    BY <1>3 DEF Making
  <2> QED
    BY <1>1, <1>2, <1>3, <2>2, <2>3, <2>4, PaidEasily
<1>12. Calm'
  <2>1. ASSUME Pushed(c)
        PROVE  Unmapped' /\ (LastBlock(p.version, Len(log)) => BlockFits(0, Len(log)) /\ Shows(0)')
    <3>1. p.event = mapping /\ calendar = {}
      BY <1>1, <1>2, <2>1 DEF Pushed, Eventful
    <3>2. calendar' = {} /\ mapping' = 0
      BY <1>1, <1>5, <3>1
    <3>3. Unmapped' /\ Shows(0)'
      BY <3>2 DEF Unmapped, Shows
    <3>4. LastBlock(p.version, Len(log)) => BlockFits(0, Len(log))
      BY <1>4, BlockShown
    <3> QED
      BY <3>3, <3>4
  <2>2. PushOn(c, p, q)
    BY <1>1, <1>2, <1>3, <2>1 DEF PushOn, Eventful
  <2> QED
    BY <1>2, <1>3, <2>2, PushKeepsCalm
<1>13. shown' \in 0..Len(log) /\ overlaps' \in Nat /\ mishaps' \in Nat
  BY <1>1 DEF ObjectInv, ObjectTypes
<1> QED
  BY <1>1, <1>2, <1>3, <1>7, <1>8, <1>9, <1>11, <1>12, <1>13, StepKeeps

LEMMA FailKeepsObject ==
  ASSUME IsFiniteSet(Caller), ObjectInv, NEW c \in Caller, D!Fail(c)
  PROVE  ObjectInv'
<1>1. /\ UNCHANGED <<log, shown, calendar, mapping, overlaps>> /\ request[c].at \notin {"idle", "append"}
      /\ mishaps' = mishaps + 1 /\ Becomes(c, [at |-> "idle"])
  BY DEF D!Fail, D!streams, D!outside, D!GoesWrong, D!Go, D!Idle, Becomes
<1>2. PICK p : p = request[c]
  OBVIOUS
<1>3. PICK q : Becomes(c, q) /\ q.at = "idle"
  <2>1. PICK q : q = [at |-> "idle"]
    OBVIOUS
  <2>2. Becomes(c, q) /\ q.at = "idle"
    BY <1>1, <2>1
  <2> QED
    BY <2>2
<1>4. overlaps \in Nat /\ mishaps \in Nat /\ shown \in 0..Len(log)
  BY DEF ObjectInv, ObjectTypes
<1>5. overlaps' \in Nat /\ mishaps' \in Nat /\ overlaps + mishaps <= overlaps' + mishaps' /\ mishaps' # 0
  <2>1. overlaps' = overlaps /\ mishaps' = mishaps + 1
    BY <1>1
  <2> QED
    BY <1>4, <2>1
<1>6. Calm'
  BY <1>5 DEF Calm
<1>7. Sound(q) /\ Follows(p, q)
  BY <1>3, EndsWell
<1>8. CalendarKnown'
  BY <1>1, KeepsCalendar
<1>9. Touches(p, q)
  BY <1>1 DEF Touches
<1>10. OrphansPaid'
  <2>1. CASE p.at = "insert"
    BY <1>1, <1>2, <1>3, <2>1, PaidOnce
  <2>2. CASE p.at # "insert"
    <3>1. q.at # "insert" /\ q.at \notin Making
      BY <1>3 DEF Making
    <3> QED
      BY <1>1, <1>2, <1>3, <1>5, <2>2, <3>1, PaidStays
  <2> QED
    BY <2>1, <2>2
<1>11. shown' \in 0..Len(log)
  BY <1>1, <1>4
<1> QED
  BY <1>1, <1>2, <1>3, <1>5, <1>6, <1>7, <1>8, <1>9, <1>10, <1>11, StepKeeps

-------------------------------------------------------------------------------
LEMMA ObjectBegins ==
  ASSUME D!Init
  PROVE  ObjectInv
<1>1. /\ log = << >> /\ shown = 0 /\ calendar = {} /\ mapping = 0 /\ mishaps = 0 /\ overlaps = 0
      /\ request = [c \in Caller |-> [at |-> "idle"]]
  BY DEF D!Init, D!Idle
<1>2. Len(log) = 0 /\ DOMAIN log = {}
  BY <1>1
<1>3. ObjectLog
  <2>1. log = [i \in 1..Len(log) |-> 0]
    BY <1>1, <1>2
  <2> QED
    BY <1>2, <2>1 DEF ObjectLog, Commanded
<1>4. \A c \in Caller : request[c].at = "idle"
  BY <1>1
<1>5. request = [c \in Caller |-> request[c]]
  BY <1>1
<1>6. ObjectTypes
  BY <1>1, <1>2, <1>5 DEF ObjectTypes
<1>7. \A c \in Caller : Sound(request[c])
  BY <1>4 DEF Sound, Stages, Shaped, Owns, Making, Eventful
<1>8. CalendarKnown
  BY <1>1, FS_EmptySet DEF CalendarKnown
<1>9. Apart
  BY <1>4 DEF Apart, Owns, Early, Eventful
<1>10. OrphansPaid
  <2>1. D!Orphans = {} /\ Makers = {}
    BY <1>1, <1>4 DEF D!Orphans, Makers, Making
  <2>2. Cardinality(D!Orphans) = 0 /\ Cardinality(Makers) = 0
    BY <2>1, FS_EmptySet
  <2>3. Free = 1
    BY <1>1 DEF Free
  <2> QED
    BY <1>1, <2>2, <2>3 DEF OrphansPaid
<1>11. Calm
  <2>1. \A c \in Caller : ~Waits(c) /\ ~Pushes(c)
    BY <1>4 DEF Waits, Pushes, Making, Eventful
  <2>2. NoneWaits /\ NonePushes /\ Unmapped /\ Shows(0)
    BY <1>1, <2>1 DEF NoneWaits, NonePushes, Unmapped, Shows
  <2>3. BlockFits(0, Len(log))
    BY <1>2 DEF BlockFits
  <2> QED
    BY <2>1, <2>2, <2>3 DEF Calm
<1> QED
  BY <1>3, <1>6, <1>7, <1>8, <1>9, <1>10, <1>11 DEF ObjectInv

LEMMA ObjectStutters ==
  ASSUME ObjectInv, UNCHANGED D!vars
  PROVE  ObjectInv'
<1>1. UNCHANGED <<log, shown, request, calendar, mapping, mishaps, overlaps>>
  BY DEF D!vars, D!streams, D!outside
<1>2. Len(log) \in Nat /\ ObjectLog
  BY DEF ObjectInv, ObjectLog
<1>3. Continues
  BY <1>1, <1>2, Same
<1>4. ObjectLog'
  BY <1>1, <1>2, LogStaysCommanded
<1>5. ASSUME NEW c \in Caller PROVE Sound(request[c])'
  <2>1. PICK p : p = request[c] /\ p = request'[c]
    BY <1>1
  <2>2. Sound(p)
    BY <2>1 DEF ObjectInv
  <2>3. Sound(p)'
    BY <1>3, <2>2, SoundStays
  <2> QED
    BY <2>1, <2>3
<1>6. ObjectTypes' /\ CalendarKnown'
  BY <1>1, KeepsCalendar DEF ObjectInv, ObjectTypes
<1>7. Apart'
  BY <1>1 DEF ObjectInv, Apart, Used
<1>8. OrphansPaid'
  <2>1. D!Orphans' = D!Orphans /\ Makers' = Makers /\ Free' = Free
    BY <1>1 DEF D!Orphans, Makers, Free
  <2> QED
    BY <1>1, <2>1 DEF ObjectInv, OrphansPaid
<1>9. Calm'
  <2>1. /\ \A i : LastBlock(i, Len(log))' <=> LastBlock(i, Len(log))
        /\ \A b : BlockFits(b, Len(log))' <=> BlockFits(b, Len(log))
    BY <1>1 DEF LastBlock, BlockFits, IsBlock, BlockOf
  <2>2. \A c \in Caller : (Waits(c)' <=> Waits(c)) /\ (Pushes(c)' <=> Pushes(c)) /\ (Pushed(c)' <=> Pushed(c))
    BY <1>1 DEF Waits, Pushes, Pushed, Mapped, Unmapped
  <2>3. /\ NoneWaits' <=> NoneWaits
        /\ NonePushes' <=> NonePushes
        /\ Mapped' <=> Mapped
        /\ Unmapped' <=> Unmapped
        /\ \A b : Shows(b)' <=> Shows(b)
    BY <1>1, <2>2 DEF NoneWaits, NonePushes, Mapped, Unmapped, Shows
  <2>4. ASSUME NEW c \in Caller PROVE LastBlock(request[c].version, Len(log))' <=> LastBlock(request[c].version, Len(log))
    BY <1>1, <2>1
  <2>5. Calm
    BY DEF ObjectInv
  <2> QED
    BY <1>1, <2>1, <2>2, <2>3, <2>4, <2>5 DEF Calm
<1> QED
  BY <1>4, <1>5, <1>6, <1>7, <1>8, <1>9 DEF ObjectInv

LEMMA ObjectSteps ==
  ASSUME IsFiniteSet(Caller), ObjectInv, [D!Next]_(D!vars)
  PROVE  ObjectInv'
<1>1. CASE UNCHANGED D!vars
  BY <1>1, ObjectStutters
<1>2. CASE D!Next
  <2>1. PICK c \in Caller :
          \/ D!Command(c) \/ D!AppendDraft(c) \/ D!CatchUp(c) \/ D!FindMapping(c) \/ D!CreateEvent(c)
          \/ D!InsertMapping(c) \/ D!UpdateEvent(c) \/ D!DeleteEvent(c) \/ D!DropMapping(c) \/ D!Fail(c)
    BY <1>2 DEF D!Next
  <2>2. CASE D!Command(c)
    BY <2>2, CommandKeeps
  <2>3. CASE D!AppendDraft(c)
    BY <2>3, AppendKeepsObject
  <2>4. CASE D!CatchUp(c)
    BY <2>4, CatchUpKeepsObject
  <2>5. CASE D!FindMapping(c)
    BY <2>5, FindKeepsObject
  <2>6. CASE D!CreateEvent(c)
    BY <2>6, CreateKeepsObject
  <2>7. CASE D!InsertMapping(c)
    BY <2>7, InsertKeepsObject
  <2>8. CASE D!UpdateEvent(c)
    BY <2>8, UpdateKeepsObject
  <2>9. CASE D!DeleteEvent(c)
    BY <2>9, DeleteKeepsObject
  <2>10. CASE D!DropMapping(c)
    BY <2>10, DropKeepsObject
  <2>11. CASE D!Fail(c)
    BY <2>11, FailKeepsObject
  <2> QED
    BY <2>1, <2>2, <2>3, <2>4, <2>5, <2>6, <2>7, <2>8, <2>9, <2>10, <2>11
<1> QED
  BY <1>1, <1>2

LEMMA LastBlockIsOne ==
  ASSUME NEW n \in Nat, NEW i, LastBlock(i, n), NEW j, LastBlock(j, n)
  PROVE  i = j
<1>1. i \in 1..n /\ j \in 1..n /\ IsBlock(i) /\ IsBlock(j)
  BY DEF LastBlock
<1>2. ~(i < j) /\ ~(j < i)
  <2>1. (\A k \in i + 1..n : ~IsBlock(k)) /\ \A k \in j + 1..n : ~IsBlock(k)
    BY DEF LastBlock
  <2> QED
    BY <1>1, <2>1
<1> QED
  BY <1>1, <1>2

LEMMA OneBlockFits ==
  ASSUME NEW n \in Nat, NEW a, BlockFits(a, n), NEW b, BlockFits(b, n)
  PROVE  a = b
<1>1. ASSUME NEW i, LastBlock(i, n) PROVE i \in 1..n /\ IsBlock(i)
  BY <1>1 DEF LastBlock
<1> QED
  BY <1>1, LastBlockIsOne DEF BlockFits

LEMMA CalendarPromise ==
  ASSUME ObjectInv
  PROVE  D!CalendarFollows
<1>1. D!Cardinality(D!Orphans) <= overlaps + mishaps
  <2>1. D!Cardinality(D!Orphans) = Cardinality(D!Orphans)
    BY DEF D!Cardinality, Cardinality
  <2> QED
    BY <2>1 DEF ObjectInv, OrphansPaid
<1>2. ASSUME \A c \in Caller : request[c] = D!Idle, overlaps = 0, mishaps = 0
      PROVE  LET b == D!Replay(Len(log)).block IN {x.block : x \in calendar} = (IF b = 0 THEN {} ELSE {b})
  <2>1. PICK n \in Nat : n = Len(log) /\ n \in 0..Len(log)
    <3>1. Len(log) \in Nat
      BY DEF ObjectInv, ObjectLog
    <3>2. Len(log) \in 0..Len(log)
      BY <3>1
    <3> QED
      BY <3>1, <3>2
  <2>2. PICK b : b = D!Replay(n).block
    OBVIOUS
  <2>3. BlockFits(b, n)
    BY <2>1, <2>2, ReplayKnown DEF ObjectInv
  <2>4. \A c \in Caller : request[c].at = "idle"
    BY <1>2 DEF D!Idle
  <2>5. NoneWaits /\ NonePushes
    BY <2>4 DEF NoneWaits, NonePushes, Waits, Pushes, Making, Eventful
  <2>6. PICK a : BlockFits(a, n) /\ Shows(a)
    BY <1>2, <2>1, <2>5 DEF ObjectInv, Calm
  <2>7. a = b
    BY <2>3, <2>6, OneBlockFits
  <2> QED
    BY <2>1, <2>2, <2>6, <2>7 DEF Shows
<1> QED
  BY <1>1, <1>2 DEF D!CalendarFollows

\* The row of an object is the replay of its stream as far as it was applied,
\* and neither meets an event that it refuses (applyEvent of replay.ts, apply
\* of objects-view.projection.ts); only a restoration or a field value follows
\* a deletion; events of the calendar that nothing will update or delete are
\* paid for by pushes that overlapped and by failures, and without these the
\* calendar shows the time block when no request is under way
\* (timeblock-push.service.ts).
THEOREM ObjectsFollowTheirStreams ==
  ASSUME IsFiniteSet(Caller)
  PROVE  D!Spec => [](D!RowIsReplay /\ D!NothingAfterDeletion /\ D!CalendarFollows)
<1>1. D!Init => ObjectInv
  BY ObjectBegins
<1>2. ObjectInv /\ [D!Next]_(D!vars) => ObjectInv'
  BY ObjectSteps
<1>3. ObjectInv => D!RowIsReplay /\ D!NothingAfterDeletion /\ D!CalendarFollows
  <2>1. ObjectInv => ObjectLog /\ shown \in 0..Len(log)
    BY DEF ObjectInv, ObjectTypes
  <2> QED
    BY <2>1, ObjectPromises, CalendarPromise
<1> QED
  BY <1>1, <1>2, <1>3, PTL DEF D!Spec
===============================================================================
