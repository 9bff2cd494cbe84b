------------------------------ MODULE EventStore ------------------------------
(***************************************************************************)
(* EventStoreService.append (apps/server/src/event-store) as the database  *)
(* runs it: every call is a READ COMMITTED transaction of several          *)
(* statements, concurrent with the others.  The table `events` has three   *)
(* unique keys: the global primary key id, (stream_id, version), and the   *)
(* identity column global_position, drawn when a row is built, before the  *)
(* row is known to be insertable and long before it is committed.          *)
(*                                                                         *)
(* A statement that meets a row of an open transaction under the same key  *)
(* waits for that transaction to end; such a wait is a disabled action.    *)
(* A cycle of waits ends with the database aborting one of the writers,    *)
(* which is one of the outcomes of Fail.                                   *)
(***************************************************************************)
EXTENDS Integers, Sequences, TLC

CONSTANTS
  Writer,       \* concurrent append calls, each on its own connection
  Stream,       \* stream ids
  EventId,      \* event ids
  Batch,        \* the lists of event ids callers append
  MaxVersion,   \* bound: the largest expectedVersion a caller passes
  MaxPosition   \* bound: the last global position drawn

ASSUME BatchAssumption ==
  /\ Batch \subseteq Seq(EventId)
  /\ \A b \in Batch : /\ b # <<>>
                      /\ \A i, j \in DOMAIN b : b[i] = b[j] => i = j

ASSUME BoundAssumption == MaxVersion \in Nat /\ MaxPosition \in Nat

VARIABLES
  events,      \* the committed rows of the table
  nextPos,     \* the next value of the identity sequence
  pc,          \* where each writer is in append
  call,        \* the arguments of its call
  pending,     \* the rows its open transaction has inserted
  done,        \* how many rows of its batch the INSERT has dealt with
  pos,         \* the global position drawn for the row being built
  answer,      \* how its last call ended
  acked        \* history: the calls that returned stored events

vars == <<events, nextPos, pc, call, pending, done, pos, answer, acked>>

Call == [stream : Stream, expected : 0..MaxVersion, ids : Batch]
Row  == [pos : Nat, stream : Stream, version : Nat, id : EventId]

Idle == "idle"
Inserting == {"draw", "place", "inserted"}

\* The answers append can give its caller: stored events, a
\* VersionConflictError, an EventStoreConsistencyError, or any other error
\* (a lost connection, a restart), after which the caller does not know.
Answers == {"none", "stored", "conflict", "inconsistent", "unknown"}

-------------------------------------------------------------------------------
\* The version the i-th event of writer w's batch asks for.
VersionOf(w, i) == call[w].expected + i

\* Faulty variant of HeadIs: the head is only required not to be above n.
HeadNotAbove(s, n) == \A r \in events : r.stream = s => r.version <= n

\* SELECT COALESCE(MAX(version), 0) returns n for stream s.
HeadIs(s, n) ==
  /\ \A r \in events : r.stream = s => r.version <= n
  /\ n = 0 \/ \E r \in events : r.stream = s /\ r.version = n

\* tryLoadIdempotentReplay finds the whole batch, position for position.
IsReplay(c) ==
  \A i \in DOMAIN c.ids :
    \E r \in events : /\ r.stream = c.stream
                      /\ r.version = c.expected + i
                      /\ r.id = c.ids[i]

\* The unique key (stream_id, version) of a row for the i-th event is taken.
SameSlot(r, w, i) == r.stream = call[w].stream /\ r.version = VersionOf(w, i)

\* Rows of the other open transactions.
OthersPending(w) == UNION {pending[v] : v \in Writer \ {w}}

Init ==
  /\ events = {}
  /\ nextPos = 1
  /\ pc = [w \in Writer |-> Idle]
  /\ \E c \in Call : call = [w \in Writer |-> c]   \* no call yet: any value
  /\ pending = [w \in Writer |-> {}]
  /\ done = [w \in Writer |-> 0]
  /\ pos = [w \in Writer |-> 0]
  /\ answer = [w \in Writer |-> "none"]
  /\ acked = {}

\* The call ends with answer a and its connection is given back; what its
\* transaction had inserted and not committed is gone.
End(w, a) ==
  /\ pc' = [pc EXCEPT ![w] = Idle]
  /\ answer' = [answer EXCEPT ![w] = a]
  /\ pending' = [pending EXCEPT ![w] = {}]
  /\ done' = [done EXCEPT ![w] = 0]
  /\ pos' = [pos EXCEPT ![w] = 0]
  /\ acked' = IF a = "stored" THEN acked \union {call[w]} ELSE acked
  /\ UNCHANGED <<nextPos, call>>

-------------------------------------------------------------------------------
\* A caller starts append(streamId, expectedVersion, newEvents).
Start(w, c) ==
  /\ pc[w] = Idle
  /\ pc' = [pc EXCEPT ![w] = "head"]
  /\ call' = [call EXCEPT ![w] = c]
  /\ answer' = [answer EXCEPT ![w] = "none"]
  /\ UNCHANGED <<events, nextPos, pending, done, pos, acked>>

\* Faulty variant of ReadHead: the head is not compared.
ReadHeadUnchecked(w) ==
  /\ pc[w] = "head"
  /\ pc' = [pc EXCEPT ![w] = "draw"]
  /\ UNCHANGED <<events, nextPos, call, pending, done, pos, answer, acked>>

\* The head is read and compared with expectedVersion.
ReadHead(w) ==
  /\ pc[w] = "head"
  /\ pc' = [pc EXCEPT ![w] = IF HeadIs(call[w].stream, call[w].expected)
                               THEN "draw" ELSE "stale"]
  /\ UNCHANGED <<events, nextPos, call, pending, done, pos, answer, acked>>

\* Faulty variant of CheckStale: no replay is recognised.
CheckStaleNoReplay(w) ==
  /\ pc[w] = "stale"
  /\ End(w, "conflict")
  /\ UNCHANGED events

\* The head moved: an exact replay of the batch succeeds, anything else is a
\* conflict.  A later statement, so it sees rows committed since ReadHead.
CheckStale(w) ==
  /\ pc[w] = "stale"
  /\ End(w, IF IsReplay(call[w]) THEN "stored" ELSE "conflict")
  /\ UNCHANGED events

\* Faulty variant of DrawPosition: the position is not used up.
DrawWithoutAdvance(w) ==
  /\ pc[w] = "draw"
  /\ nextPos <= MaxPosition
  /\ pos' = [pos EXCEPT ![w] = nextPos]
  /\ pc' = [pc EXCEPT ![w] = "place"]
  /\ UNCHANGED <<events, nextPos, call, pending, done, answer, acked>>

\* INSERT builds its next row and draws a global position for it.
DrawPosition(w) ==
  /\ pc[w] = "draw"
  /\ nextPos <= MaxPosition
  /\ pos' = [pos EXCEPT ![w] = nextPos]
  /\ nextPos' = nextPos + 1
  /\ pc' = [pc EXCEPT ![w] = "place"]
  /\ UNCHANGED <<events, call, pending, done, answer, acked>>

\* The row has been dealt with; the statement goes on to the next one.
NextRow(w) ==
  /\ done' = [done EXCEPT ![w] = @ + 1]
  /\ pos' = [pos EXCEPT ![w] = 0]
  /\ pc' = [pc EXCEPT ![w] = IF done[w] + 1 = Len(call[w].ids)
                               THEN "inserted" ELSE "draw"]
  /\ UNCHANGED <<events, nextPos, call, answer, acked>>

\* ON CONFLICT (id) DO NOTHING: a committed row has this id, so the row is
\* skipped and its position is lost.
SkipRow(w) ==
  /\ pc[w] = "place"
  /\ \E r \in events : r.id = call[w].ids[done[w] + 1]
  /\ NextRow(w)
  /\ UNCHANGED pending

\* Neither the id nor the slot is held by an open transaction, and no
\* committed row has the id.
RowIsFree(w, i) ==
  /\ \A r \in events : r.id # call[w].ids[i]
  /\ \A r \in OthersPending(w) : r.id # call[w].ids[i] /\ ~SameSlot(r, w, i)

InsertRow(w) ==
  LET i == done[w] + 1 IN
  /\ pc[w] = "place"
  /\ RowIsFree(w, i)
  /\ \A r \in events : ~SameSlot(r, w, i)
  /\ pending' = [pending EXCEPT ![w] = @ \union
       {[pos |-> pos[w], stream |-> call[w].stream,
         version |-> VersionOf(w, i), id |-> call[w].ids[i]]}]
  /\ NextRow(w)

\* Faulty variant of VersionTaken: the database's error escapes untranslated.
VersionTakenRaw(w) ==
  LET i == done[w] + 1 IN
  /\ pc[w] = "place"
  /\ RowIsFree(w, i)
  /\ \E r \in events : SameSlot(r, w, i)
  /\ End(w, "23505")
  /\ UNCHANGED events

\* 23505 on events_stream_id_version_key: another writer won the version.
VersionTaken(w) ==
  LET i == done[w] + 1 IN
  /\ pc[w] = "place"
  /\ RowIsFree(w, i)
  /\ \E r \in events : SameSlot(r, w, i)
  /\ End(w, "conflict")
  /\ UNCHANGED events

\* Faulty variant of WholeBatchInserted: one row is enough.
SomeInserted(w) == pending[w] # {}

\* Every row of the batch was inserted by this statement.
WholeBatchInserted(w) ==
  \A i \in DOMAIN call[w].ids : \E r \in pending[w] : r.id = call[w].ids[i]

\* Faulty variant of CheckAllSkipped: known ids are taken for a replay.
CheckAllSkippedById(w) ==
  /\ pc[w] = "inserted"
  /\ pending[w] = {}
  /\ End(w, "stored")
  /\ UNCHANGED events

\* Nothing was inserted: every id existed.  Only an exact replay is answered
\* with the stored events.
CheckAllSkipped(w) ==
  /\ pc[w] = "inserted"
  /\ pending[w] = {}
  /\ End(w, IF IsReplay(call[w]) THEN "stored" ELSE "inconsistent")
  /\ UNCHANGED events

\* Part of the batch was inserted: the transaction is rolled back.
RefusePartial(w) ==
  /\ pc[w] = "inserted"
  /\ pending[w] # {}
  /\ ~WholeBatchInserted(w)
  /\ End(w, "inconsistent")
  /\ UNCHANGED events

\* COMMIT.  The rows become visible to later statements; the answer may be
\* lost with the connection.
Commit(w) ==
  /\ pc[w] = "inserted"
  /\ WholeBatchInserted(w)
  /\ events' = events \union pending[w]
  /\ \E a \in {"stored", "unknown"} : End(w, a)

\* The connection, the process or the database (a deadlock) gives up on the
\* open transaction.
Fail(w) ==
  /\ pc[w] # Idle
  /\ End(w, "unknown")
  /\ UNCHANGED events

Step(w) ==
  \/ \E c \in Call : Start(w, c)
  \/ ReadHead(w)
  \/ CheckStale(w)
  \/ DrawPosition(w)
  \/ SkipRow(w)
  \/ InsertRow(w)
  \/ VersionTaken(w)
  \/ CheckAllSkipped(w)
  \/ RefusePartial(w)
  \/ Commit(w)
  \/ Fail(w)

Next == \E w \in Writer : Step(w)

Spec == Init /\ [][Next]_vars

-------------------------------------------------------------------------------
\* The variables have the types the code gives them.
TypeOK ==
  /\ events \subseteq Row
  /\ nextPos \in Nat \ {0}
  /\ pc \in [Writer -> {Idle, "head", "stale"} \union Inserting]
  /\ call \in [Writer -> Call]
  /\ pending \in [Writer -> SUBSET Row]
  /\ done \in [Writer -> Nat]
  /\ pos \in [Writer -> Nat]
  /\ answer \in [Writer -> Answers]
  /\ acked \subseteq Call

\* Every stream is a contiguous run of versions from 1, whatever batches
\* raced, failed half way or collided (readStream and replay rely on it).
GapFree ==
  \A r \in events : \A v \in 1..r.version :
    \E q \in events : q.stream = r.stream /\ q.version = v

\* Inside a stream the order of global positions is the order of versions,
\* although positions are drawn before the race for the version is decided
\* (a projection that reads by position replays every stream in order).
PositionsFollowVersions ==
  \A q, r \in events :
    q.stream = r.stream /\ q.version < r.version => q.pos < r.pos

\* An event whose append returned stays recorded at the version its caller
\* was told, and no two callers were given the same version for different
\* events: of two racing writers exactly one wins.
AckedIsStored == \A c \in acked : IsReplay(c)

\* A caller that retries a batch that is already recorded is never refused:
\* a conflict or consistency error is only ever given for a batch that is
\* not in the log where the caller asked for it.
RefusedOnlyIfAbsent ==
  [][\A w \in Writer :
       /\ pc[w] # Idle
       /\ pc'[w] = Idle
       /\ answer'[w] \in {"conflict", "inconsistent"}
       => ~IsReplay(call[w])]_vars

\* The store implements the log its callers are promised.
Log == INSTANCE StreamLog WITH
         entries <- {[stream |-> r.stream, version |-> r.version, id |-> r.id] :
                       r \in events}

ImplementsStreamLog == Log!Spec

\* The store is the feed its readers page through: positions become visible
\* in the order of the commits, not in the order they were drawn.
Feed == INSTANCE GlobalFeed WITH
          open <- [w \in Writer |->
                     {r.pos : r \in pending[w]}
                       \union (IF pc[w] = "place" THEN {pos[w]} ELSE {})],
          visible <- {r.pos : r \in events}

ImplementsGlobalFeed == Feed!FeedSpec

-------------------------------------------------------------------------------
\* For TLC: lists of one or two events (an event id may be offered to either
\* stream, in any order, and again after it was recorded), and what is alike.
ShortLists == {<<e>> : e \in EventId}
                \union {b \in EventId \X EventId : b[1] # b[2]}

Symmetry == Permutations(Writer) \union Permutations(Stream)
              \union Permutations(EventId)
===============================================================================
