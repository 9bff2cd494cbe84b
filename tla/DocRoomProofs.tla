----------------------------- MODULE DocRoomProofs -----------------------------
(***************************************************************************)
(* Proofs about DocRoom for all connections, edits, rooms and limits.      *)
(* What the gateway promises is not inductive: it says nothing of the      *)
(* snapshot in flight, nor of the connections that are still loading.      *)
(* IInv says what each of them holds, as far as the behaviour has not been *)
(* through what makes the promise void (disturbed).  At the end, DocSync:  *)
(* what the copies of the document agree on at any number of editors       *)
(* (SyncInv).                                                              *)
(***************************************************************************)
EXTENDS DocRoom, TLAPS

NobodyLoads == \A c \in Conn : conn[c] \notin {"loading", "loaded"}

\* Open connections are in rooms that are not torn down; a flush waits for the
\* snapshot it started; a room that is torn down has nothing to save that nobody
\* will come back to.
RoomsKept ==
  /\ \A c \in Conn : conn[c] = "open" => joined[c] \in live
  /\ \A c \in Conn : conn[c] = "closing" => joined[c] \in Room
  /\ \A r \in Room : flushing[r] => snap[r] # "none"
  /\ \A r \in Room : timer[r] => r \in live
  /\ \A r \in Room \ live : dirty[r] = 0 \/ flushing[r] \/ Leavers(r) # {}

\* The room in the map is the only one, and the only one that is saved.
OneRoom ==
  Undisturbed({"close", "again"}) =>
    /\ live \subseteq {current}
    /\ \A r \in Room : snap[r] # "none" => r \in live

\* document_snapshots lags behind the stream only during a catch-up.
CaughtUp ==
  Undisturbed({"catchUp"}) =>
    projected = Len(log) \/ \E r \in Room : snap[r] = "catchUp"

\* A room holds the last snapshot and what it is about to save, and so does a
\* room that a connection is about to create.
RoomHoldsSaved ==
  Undisturbed({"close", "load", "again", "catchUp"}) =>
    /\ \A r \in Room : flushing[r] => NobodyLoads
    /\ \A c \in Conn : conn[c] = "loaded" /\ current = NoRoom => base[c] = Saved
    /\ \A r \in live : Saved \subseteq doc[r]
    /\ \A r \in Room : snap[r] # "none" => payload[r] \subseteq doc[r]
    /\ \A r \in Room : snap[r] = "append" => Saved \subseteq payload[r]

\* The room has all edits received, a clean one nothing else than the last
\* snapshot; without a room they are all saved.
NothingLost ==
  Undisturbed(LosesEdits) =>
    /\ live = {} => received \subseteq Saved
    /\ \A r \in live : received \subseteq doc[r]
    /\ \A r \in live : dirty[r] = 0 => doc[r] \subseteq Saved
    /\ \A r \in Room : snap[r] # "none" => payload[r] = doc[r]
    /\ \A r \in Room : snap[r] = "catchUp" => dirty[r] = 0

\* After the shutdown a room is clean, unless the shutdown waits for it.
FlushedAtShutdown ==
  phase # "up" /\ disturbed = {} =>
    \A r \in live : dirty[r] = 0 \/ (awaited = r /\ snap[r] # "none")

\* Once stopped, there is no waiting any more.
NoneAwaited ==
  phase = "stopped" => awaited = NoRoom

IInv ==
  /\ TypeOK
  /\ RoomsKept
  /\ OneRoom
  /\ CaughtUp
  /\ RoomHoldsSaved
  /\ NothingLost
  /\ FlushedAtShutdown
  /\ NoneAwaited

-------------------------------------------------------------------------------
\* What a new room would be loaded with is a set of edits.
LEMMA LatestIsEdits ==
  ASSUME TypeOK
  PROVE  Latest \in SUBSET Edit /\ Saved \in SUBSET Edit
<1>1. projected # 0 => projected \in 1..Len(log)
  BY DEF TypeOK
<1>2. log # <<>> => Len(log) \in 1..Len(log)
  BY DEF TypeOK
<1> QED
  BY <1>1, <1>2 DEF TypeOK, Latest, Saved

\* The room variables that starting a snapshot and tearing a room down change.
SnapshotTypes ==
  /\ snap \in [Room -> {"none", "append", "catchUp"}]
  /\ payload \in [Room -> SUBSET Edit]
  /\ flushing \in [Room -> BOOLEAN]

RoomTypes ==
  /\ current \in live \union {NoRoom}
  /\ live \subseteq Room
  /\ doc \in [Room -> SUBSET Edit]
  /\ dirty \in [Room -> Nat]
  /\ timer \in [Room -> BOOLEAN]

ConnTypes ==
  /\ conn \in [Conn -> {"closed", "loading", "loaded", "open", "closing"}]
  /\ joined \in [Conn -> Room \union {NoRoom}]
  /\ base \in [Conn -> SUBSET Edit]
  /\ joins \in 0..MaxJoins

OtherTypes ==
  /\ log \in Seq(SUBSET Edit)
  /\ projected \in 0..Len(log)
  /\ received \subseteq Edit
  /\ phase \in {"up", "stopping", "stopped"}
  /\ awaited \in Room \union {NoRoom}
  /\ failures \in 0..MaxFailures
  /\ disturbed \subseteq {"edit", "close", "load", "again", "late", "shutdown",
                          "append", "catchUp"}

LEMMA TypesSplit ==
  /\ TypeOK <=> SnapshotTypes /\ RoomTypes /\ ConnTypes /\ OtherTypes
  /\ TypeOK' <=> (SnapshotTypes /\ RoomTypes /\ ConnTypes /\ OtherTypes)'
BY DEF TypeOK, SnapshotTypes, RoomTypes, ConnTypes, OtherTypes

\* Starting a snapshot, or not.
LEMMA StartKeepsTypes ==
  ASSUME SnapshotTypes, NEW r, NEW content, NEW forFlush \in BOOLEAN,
         r \in Room => content \in SUBSET Edit,
         StartSnapshot(r, content, forFlush) \/ NoSnapshot
  PROVE  SnapshotTypes'
<1>1. CASE NoSnapshot
  BY <1>1 DEF NoSnapshot, SnapshotTypes
<1>2. CASE StartSnapshot(r, content, forFlush)
  BY <1>2 DEF StartSnapshot, SnapshotTypes
<1> QED
  BY <1>1, <1>2

\* Tearing a room down.
LEMMA DiscardKeepsTypes ==
  ASSUME RoomTypes, NEW r, Discard(r)
  PROVE  RoomTypes'
<1>1. current' = NoRoom /\ live' = live \ {r} /\ timer' = [timer EXCEPT ![r] = FALSE] /\ Forget(r)
  BY DEF Discard
<1>2. CASE Leavers(r)' = {}
  <2>1. doc' = [doc EXCEPT ![r] = {}] /\ dirty' = [dirty EXCEPT ![r] = 0]
    BY <1>1, <1>2 DEF Forget
  <2> QED
    BY <1>1, <2>1 DEF RoomTypes
<1>3. CASE Leavers(r)' # {}
  BY <1>1, <1>3 DEF Forget, RoomTypes
<1> QED
  BY <1>2, <1>3

\* The end of a snapshot, with or without tearing the room down.
LEMMA FinishKeepsTypes ==
  ASSUME SnapshotTypes, RoomTypes, NEW r \in Room, FinishSnapshot(r, dirty[r])
  PROVE  /\ SnapshotTypes' /\ RoomTypes'
         /\ awaited' \in {NoRoom, awaited}
<1>1. SnapshotTypes' /\ awaited' \in {NoRoom, awaited}
  BY DEF FinishSnapshot, SnapshotTypes
<1>2. CASE flushing[r] /\ Members(r) = {}
  BY <1>1, <1>2, DiscardKeepsTypes DEF FinishSnapshot
<1>3. CASE ~(flushing[r] /\ Members(r) = {})
  BY <1>1, <1>3 DEF FinishSnapshot, RoomTypes
<1> QED
  BY <1>2, <1>3

LEMMA OverlapKeepsTypes ==
  ASSUME OtherTypes, NEW happens, UNCHANGED storeVars, received' \subseteq Edit,
         NEW kind \in {"shutdown", "append", "catchUp"},
         Overlap(kind, happens), phase' \in {"up", "stopping", "stopped"},
         awaited' \in Room \union {NoRoom}
  PROVE  OtherTypes'
BY DEF OtherTypes, Overlap, storeVars

\* A departure changes rooms only, and what is noted of it.
LEMMA LeaveKeepsTypes ==
  ASSUME SnapshotTypes, RoomTypes, NEW c, NEW r, Leave(c, r)
  PROVE  SnapshotTypes' /\ RoomTypes'
<1>1. CASE UNCHANGED roomVars
  BY <1>1 DEF roomVars, SnapshotTypes, RoomTypes
<1>2. CASE Flush(r)
  <2>1. CASE CanSnapshot(r, dirty[r])
    BY <1>2, <2>1, StartKeepsTypes DEF Flush, RoomTypes
  <2>2. CASE ~CanSnapshot(r, dirty[r])
    BY <1>2, <2>2, DiscardKeepsTypes DEF Flush, NoSnapshot, SnapshotTypes
  <2> QED
    BY <2>1, <2>2
<1> QED
  BY <1>1, <1>2 DEF Leave

\* A room is created from what nothing refers to.
LEMMA NewRoomIsFresh == Fresh # {} => NewRoom \in Fresh
BY DEF NewRoom

\* Every step of a snapshot keeps types.
LEMMA SnapshotKeepsTypes ==
  ASSUME TypeOK, NEW r \in Room, RoomStep(r) \/ SnapshotFails(r)
  PROVE  TypeOK'
<1> USE DocRoomAssumption, TypesSplit
<1>1. CASE AppendSnapshot(r)
  <2>1. OtherTypes'
    BY <1>1 DEF AppendSnapshot, OtherTypes, SnapshotTypes
  <2>2. SnapshotTypes' /\ RoomTypes' /\ ConnTypes'
    BY <1>1 DEF AppendSnapshot, SnapshotTypes, RoomTypes, ConnTypes, connVars
  <2> QED
    BY <2>1, <2>2
<1>2. CASE CatchUpSnapshots(r)
  BY <1>2, FinishKeepsTypes DEF CatchUpSnapshots, OtherTypes, ConnTypes, connVars
<1>3. CASE SnapshotFails(r)
  BY <1>3, FinishKeepsTypes
  DEF SnapshotFails, Overlap, OtherTypes, ConnTypes, SnapshotTypes, connVars
<1>4. CASE TimerFires(r)
  <2>1. StartSnapshot(r, doc[r], FALSE) \/ NoSnapshot
    BY <1>4 DEF TimerFires
  <2>2. SnapshotTypes'
    BY <2>1, StartKeepsTypes DEF RoomTypes
  <2> QED
    BY <1>4, <2>2 DEF TimerFires, RoomTypes, ConnTypes, OtherTypes, connVars, storeVars
<1> QED
  BY <1>1, <1>2, <1>3, <1>4 DEF RoomStep

\* Every step of a connection keeps types.
LEMMA ConnectionKeepsTypes ==
  ASSUME TypeOK, NEW c \in Conn, Connect(c) \/ ConnStep(c) \/ Close(c)
  PROVE  TypeOK'
<1> USE DocRoomAssumption, TypesSplit
<1>1. CASE Connect(c)
  <2>1. ConnTypes'
    BY <1>1 DEF Connect, Place, ConnTypes, RoomTypes
  <2> QED
    BY <1>1, <2>1 DEF Connect, SnapshotTypes, RoomTypes, OtherTypes, roomVars, storeVars
<1>2. CASE Load(c)
  <2>1. ConnTypes'
    BY <1>2, LatestIsEdits DEF Load, ConnTypes
  <2> QED
    BY <1>2, <2>1 DEF Load, SnapshotTypes, RoomTypes, OtherTypes, roomVars, storeVars
<1>3. CASE JoinRaced(c)
  <2>1. ConnTypes'
    BY <1>3 DEF JoinRaced, Place, ConnTypes, RoomTypes
  <2> QED
    BY <1>3, <2>1 DEF JoinRaced, SnapshotTypes, RoomTypes, OtherTypes, roomVars, storeVars
<1>4. CASE CreateRoom(c)
  <2>1. ConnTypes' /\ RoomTypes'
    BY <1>4, NewRoomIsFresh DEF CreateRoom, Place, Fresh, ConnTypes, RoomTypes
  <2> QED
    BY <1>4, <2>1 DEF CreateRoom, SnapshotTypes, OtherTypes, storeVars
<1>5. CASE Close(c)
  <2>1. ConnTypes' /\ OtherTypes'
    BY <1>5 DEF Close, Leave, ConnTypes, OtherTypes, storeVars
  <2> QED
    BY <1>5, <2>1, LeaveKeepsTypes DEF Close
<1>6. CASE JoinClosing(c)
  <2>1. CASE current # NoRoom /\ Leave(c, current) /\ joined' = [joined EXCEPT ![c] = current]
    <3>1. ConnTypes' /\ OtherTypes'
      BY <1>6, <2>1 DEF JoinClosing, Leave, ConnTypes, RoomTypes, OtherTypes, storeVars
    <3> QED
      BY <2>1, <3>1, LeaveKeepsTypes
  <2>2. CASE UNCHANGED <<roomVars, disturbed>> /\ Fresh # {}
             /\ joined' = [joined EXCEPT ![c] = NewRoom]
    <3>1. ConnTypes' /\ OtherTypes'
      BY <1>6, <2>2, NewRoomIsFresh
      DEF JoinClosing, Fresh, ConnTypes, OtherTypes, storeVars
    <3> QED
      BY <2>2, <3>1 DEF roomVars, SnapshotTypes, RoomTypes
  <2> QED
    BY <1>6, <2>1, <2>2 DEF JoinClosing
<1> QED
  BY <1>1, <1>2, <1>3, <1>4, <1>5, <1>6 DEF ConnStep

\* So does an edit.
LEMMA ReceiveKeepsTypes ==
  ASSUME TypeOK, NEW c \in Conn, NEW e \in Edit, Receive(c, e)
  PROVE  TypeOK'
<1> USE TypesSplit
<1> DEFINE r == joined[c]
<1>1. MarkDirty(r, doc[r] \union {e}) /\ doc' = [doc EXCEPT ![r] = @ \union {e}]
      /\ UNCHANGED <<current, live, connVars, storeVars, phase, awaited>>
      /\ received' = received \union {e}
      /\ disturbed' \subseteq disturbed \union {"edit", "late"}
  BY DEF Receive
<1>2. OtherTypes'
  BY <1>1 DEF OtherTypes, storeVars
<1>3. SnapshotTypes'
  <2>1. r \in Room => doc[r] \union {e} \in SUBSET Edit
    BY DEF RoomTypes
  <2>2. StartSnapshot(r, doc[r] \union {e}, FALSE) \/ NoSnapshot
    BY <1>1 DEF MarkDirty
  <2> QED
    BY <2>1, <2>2, StartKeepsTypes
<1>4. ConnTypes'
  BY <1>1 DEF ConnTypes, connVars
<1>5. RoomTypes'
  <2>1. /\ dirty' = [dirty EXCEPT ![r] = @ + 1]
        /\ timer' = [timer EXCEPT ![r] = ~(dirty[r] + 1 >= MaxUpdates)]
    BY <1>1 DEF MarkDirty
  <2>2. dirty' \in [Room -> Nat]
    <3>1. r \in Room => dirty[r] + 1 \in Nat
      BY DEF RoomTypes
    <3> QED
      BY <2>1, <3>1 DEF RoomTypes
  <2>3. timer' \in [Room -> BOOLEAN]
    BY <2>1 DEF RoomTypes
  <2> QED
    BY <1>1, <2>2, <2>3 DEF RoomTypes
<1> QED
  BY <1>2, <1>3, <1>4, <1>5

\* And so does the shutdown.
LEMMA ShutdownKeepsTypes ==
  ASSUME TypeOK, Shutdown \/ Stop
  PROVE  TypeOK'
<1> USE DocRoomAssumption, TypesSplit
<1>1. CASE Shutdown
  <2>1. OtherTypes' /\ ConnTypes'
    BY <1>1, OverlapKeepsTypes DEF Shutdown, OtherTypes, ConnTypes, RoomTypes, connVars
  <2>2. StartSnapshot(current, doc[current], FALSE) \/ NoSnapshot
    BY <1>1 DEF Shutdown
  <2>3. SnapshotTypes'
    BY <2>2, StartKeepsTypes DEF RoomTypes
  <2>4. RoomTypes'
    BY <1>1 DEF Shutdown, RoomTypes
  <2> QED
    BY <2>1, <2>3, <2>4
<1>2. CASE Stop
  BY <1>2 DEF Stop, TypeOK, roomVars, connVars, storeVars
<1> QED
  BY <1>1, <1>2

-------------------------------------------------------------------------------
\* What has been disturbed stays disturbed.
LEMMA StaysDisturbed ==
  ASSUME NEW kinds, disturbed \subseteq disturbed', Undisturbed(kinds)'
  PROVE  Undisturbed(kinds)
BY DEF Undisturbed

\* What starting a snapshot changes.
LEMMA StartEffect ==
  ASSUME TypeOK, NEW r \in Room, NEW content, NEW forFlush,
         StartSnapshot(r, content, forFlush)
  PROVE  \A q \in Room : /\ snap'[q] = IF q = r THEN "append" ELSE snap[q]
                         /\ payload'[q] = IF q = r THEN content ELSE payload[q]
                         /\ flushing'[q] = IF q = r THEN forFlush ELSE flushing[q]
BY DEF StartSnapshot, TypeOK

\* The initial state has no room.
LEMMA InitIInv == Init => IInv
<1> SUFFICES ASSUME Init PROVE IInv
  OBVIOUS
<1>1. TypeOK
  BY DocRoomAssumption DEF Init, TypeOK
<1>2. Saved = {}
  BY DEF Init, Saved
<1>3. RoomsKept /\ OneRoom /\ CaughtUp /\ FlushedAtShutdown /\ NoneAwaited
  BY DEF Init, RoomsKept, OneRoom, CaughtUp, FlushedAtShutdown, NoneAwaited
<1>4. RoomHoldsSaved
  BY DEF Init, RoomHoldsSaved
<1>5. NothingLost
  BY <1>2 DEF Init, NothingLost
<1> QED
  BY <1>1, <1>3, <1>4, <1>5 DEF IInv

\* The stream has what the room had when the snapshot was encoded, and the room
\* counts as clean.
LEMMA AppendKeepsIInv ==
  ASSUME IInv, NEW r \in Room, AppendSnapshot(r)
  PROVE  IInv'
<1>1. TypeOK'
  BY SnapshotKeepsTypes DEF IInv, RoomStep
<1>2. /\ snap[r] = "append" /\ Running
      /\ log' = Append(log, payload[r])
      /\ \A q \in Room : dirty'[q] = IF q = r THEN 0 ELSE dirty[q]
      /\ \A q \in Room : snap'[q] = IF q = r THEN "catchUp" ELSE snap[q]
      /\ UNCHANGED <<current, live, doc, timer, payload, flushing, conn, joined, base,
                     projected, received, phase, awaited, disturbed>>
  BY DEF AppendSnapshot, IInv, TypeOK, connVars
<1>3. Saved' = payload[r]
  <2>1. log \in Seq(SUBSET Edit) /\ payload[r] \in SUBSET Edit
    BY DEF IInv, TypeOK
  <2> QED
    BY <1>2, <2>1 DEF Saved
<1>4. Undisturbed({"close", "again"}) => live = {r} /\ \A q \in Room : snap[q] # "none" => q = r
  BY <1>2 DEF IInv, OneRoom
<1>5. RoomsKept'
  <2>1. \A q \in Room : Leavers(q)' = Leavers(q)
    BY <1>2 DEF Leavers
  <2> QED
    BY <1>2, <2>1 DEF IInv, RoomsKept
<1>6. OneRoom' /\ CaughtUp'
  BY <1>2 DEF IInv, OneRoom, CaughtUp, Undisturbed
<1>7. RoomHoldsSaved'
  <2> SUFFICES ASSUME Undisturbed({"close", "load", "again", "catchUp"})
               PROVE  /\ \A q \in Room : flushing[q] => NobodyLoads
                      /\ current # NoRoom
                      /\ payload[r] \subseteq doc[r]
    BY <1>2, <1>3, <1>4 DEF RoomHoldsSaved, Undisturbed, NobodyLoads
  <2> QED
    BY <1>2, <1>4, DocRoomAssumption DEF IInv, TypeOK, RoomHoldsSaved, OneRoom, Undisturbed
<1>8. NothingLost'
  <2> SUFFICES ASSUME Undisturbed(LosesEdits)
               PROVE  received \subseteq doc[r] /\ payload[r] = doc[r]
    BY <1>2, <1>3, <1>4 DEF NothingLost, Undisturbed, LosesEdits
  <2> QED
    BY <1>2, <1>4 DEF IInv, NothingLost, Undisturbed, LosesEdits
<1>9. FlushedAtShutdown'
  BY <1>2 DEF IInv, TypeOK, FlushedAtShutdown
<1>10. NoneAwaited'
  BY <1>2 DEF Running, NoneAwaited
<1> QED
  BY <1>1, <1>5, <1>6, <1>7, <1>8, <1>9, <1>10 DEF IInv

\* What tearing a room down changes: the room in the map is gone; the room torn
\* down is as it was if a connection has still to leave it, else empty and clean.
DiscardEffect(r) ==
  /\ current' = NoRoom
  /\ live' = live \ {r}
  /\ \A q \in Room \ {r} : /\ doc'[q] = doc[q] /\ dirty'[q] = dirty[q]
                           /\ timer'[q] = timer[q]
  /\ ~timer'[r]
  /\ dirty'[r] \in {0, dirty[r]}
  /\ Leavers(r)' = {} => dirty'[r] = 0

LEMMA DiscardChanges ==
  ASSUME TypeOK, NEW r \in Room, Discard(r)
  PROVE  DiscardEffect(r)
<1>1. /\ current' = NoRoom /\ live' = live \ {r}
      /\ timer' = [timer EXCEPT ![r] = FALSE] /\ Forget(r)
  BY DEF Discard
<1>2. CASE Leavers(r)' = {}
  BY <1>1, <1>2 DEF Forget, DiscardEffect, TypeOK
<1>3. CASE Leavers(r)' # {}
  BY <1>1, <1>3 DEF Forget, DiscardEffect, TypeOK
<1> QED
  BY <1>2, <1>3

\* What the end of a snapshot changes: the room may be torn down, if a flush
\* awaited it and nobody has joined.
LEMMA FinishEffect ==
  ASSUME TypeOK, NEW r \in Room, FinishSnapshot(r, dirty[r])
  PROVE  /\ \A q \in Room : /\ snap'[q] = IF q = r THEN "none" ELSE snap[q]
                            /\ payload'[q] = IF q = r THEN {} ELSE payload[q]
                            /\ flushing'[q] = IF q = r THEN FALSE ELSE flushing[q]
         /\ awaited' = IF awaited = r THEN NoRoom ELSE awaited
         /\ \/ /\ UNCHANGED <<current, live, doc, dirty, timer>>
               /\ ~(flushing[r] /\ Members(r) = {})
            \/ /\ flushing[r] /\ Members(r) = {}
               /\ DiscardEffect(r)
<1>1. \A q \in Room : /\ snap'[q] = IF q = r THEN "none" ELSE snap[q]
                      /\ payload'[q] = IF q = r THEN {} ELSE payload[q]
                      /\ flushing'[q] = IF q = r THEN FALSE ELSE flushing[q]
  BY DEF FinishSnapshot, TypeOK
<1>2. CASE flushing[r] /\ Members(r) = {}
  <2>1. Discard(r) /\ awaited' = IF awaited = r THEN NoRoom ELSE awaited
    BY <1>2 DEF FinishSnapshot
  <2> QED
    BY <1>1, <1>2, <2>1, DiscardChanges
<1>3. CASE ~(flushing[r] /\ Members(r) = {})
  <2>1. /\ UNCHANGED <<current, live, doc, timer>> /\ dirty' = [dirty EXCEPT ![r] = dirty[r]]
        /\ awaited' = IF awaited = r THEN NoRoom ELSE awaited
    BY <1>3 DEF FinishSnapshot
  <2>2. dirty' = dirty
    BY <2>1 DEF TypeOK
  <2> QED
    BY <1>1, <1>3, <2>1, <2>2
<1> QED
  BY <1>2, <1>3

\* A snapshot ends, well or not.
LEMMA FinishKeepsIInv ==
  ASSUME IInv, NEW r \in Room, CatchUpSnapshots(r) \/ SnapshotFails(r)
  PROVE  IInv'
<1>1. TypeOK'
  BY SnapshotKeepsTypes DEF IInv, RoomStep
<1>2. /\ Running /\ snap[r] # "none"
      /\ FinishSnapshot(r, dirty[r])
      /\ UNCHANGED <<conn, joined, base, log, received, phase>>
      /\ \/ snap[r] = "catchUp" /\ projected' = Len(log) /\ disturbed' = disturbed
         \/ projected' = projected /\ disturbed' = disturbed \union {snap[r]}
  BY DEF CatchUpSnapshots, SnapshotFails, Overlap, connVars
<1>3. disturbed \subseteq disturbed' /\ Saved' = Saved
  BY <1>2 DEF Saved
<1>4. snap[r] \in {"append", "catchUp"}
  BY <1>2 DEF IInv, TypeOK
<1>5. /\ \A q \in Room : /\ snap'[q] = IF q = r THEN "none" ELSE snap[q]
                         /\ payload'[q] = IF q = r THEN {} ELSE payload[q]
                         /\ flushing'[q] = IF q = r THEN FALSE ELSE flushing[q]
      /\ awaited' = IF awaited = r THEN NoRoom ELSE awaited
      /\ \/ /\ UNCHANGED <<current, live, doc, dirty, timer>>
            /\ ~(flushing[r] /\ Members(r) = {})
         \/ flushing[r] /\ Members(r) = {} /\ DiscardEffect(r)
  BY <1>2, FinishEffect DEF IInv
<1>6. Undisturbed({"close", "again"}) => live = {r} /\ \A q \in Room : snap[q] # "none" => q = r
  BY <1>2 DEF IInv, OneRoom
<1>7. RoomsKept'
  <2>1. \A q \in Room : Leavers(q)' = Leavers(q)
    BY <1>2 DEF Leavers
  <2>2. /\ \A c \in Conn : conn[c] = "open" => joined[c] \in live
        /\ \A c \in Conn : conn[c] = "closing" => joined[c] \in Room
        /\ \A q \in Room : flushing[q] => snap[q] # "none"
        /\ \A q \in Room : timer[q] => q \in live
        /\ \A q \in Room \ live : dirty[q] = 0 \/ flushing[q] \/ Leavers(q) # {}
    BY DEF IInv, RoomsKept
  <2>3. Members(r) = {} => \A c \in Conn : conn[c] = "open" => joined[c] # r
    BY DEF Members
  <2>4. CASE UNCHANGED <<current, live, doc, dirty, timer>> /\ ~(flushing[r] /\ Members(r) = {})
    <3>1. r \notin live => Members(r) = {} /\ ~flushing[r]
      BY <2>2, <2>4 DEF Members
    <3>2. \A q \in Room \ live : dirty'[q] = 0 \/ flushing'[q] \/ Leavers(q)' # {}
      BY <1>5, <2>1, <2>2, <2>4, <3>1
    <3>3. \A q \in Room : flushing'[q] => snap'[q] # "none"
      BY <1>5, <2>2
    <3> QED
      BY <1>2, <2>2, <2>4, <3>2, <3>3 DEF RoomsKept
  <2>5. CASE Members(r) = {} /\ DiscardEffect(r)
    <3>1. /\ \A c \in Conn : conn[c] = "open" => joined[c] \in live'
          /\ \A q \in Room : timer'[q] => q \in live'
      BY <2>2, <2>3, <2>5 DEF DiscardEffect
    <3>2. ASSUME NEW q \in Room \ live'
          PROVE  dirty'[q] = 0 \/ flushing'[q] \/ Leavers(q)' # {}
      <4>1. CASE q = r
        BY <2>5, <4>1 DEF DiscardEffect
      <4>2. CASE q # r
        <5>1. q \notin live /\ dirty'[q] = dirty[q] /\ flushing'[q] = flushing[q]
          BY <1>5, <2>5, <4>2 DEF DiscardEffect
        <5> QED
          BY <2>1, <2>2, <5>1
      <4> QED
        BY <4>1, <4>2
    <3>3. \A q \in Room : flushing'[q] => snap'[q] # "none"
      BY <1>5, <2>2
    <3> QED
      BY <1>2, <2>2, <3>1, <3>2, <3>3 DEF RoomsKept
  <2> QED
    BY <1>5, <2>4, <2>5
<1>8. OneRoom'
  <2> SUFFICES ASSUME Undisturbed({"close", "again"})'
               PROVE  OneRoom'
    BY DEF OneRoom
  <2>1. live = {r} /\ live \subseteq {current} /\ \A q \in Room : snap[q] # "none" => q = r
    BY <1>3, <1>6, StaysDisturbed DEF IInv, OneRoom
  <2> QED
    BY <1>5, <2>1 DEF OneRoom, DiscardEffect
<1>9. CaughtUp'
  BY <1>2, <1>4, <1>5 DEF IInv, CaughtUp, Undisturbed
<1>10. RoomHoldsSaved'
  <2> SUFFICES ASSUME Undisturbed({"close", "load", "again", "catchUp"})'
               PROVE  RoomHoldsSaved'
    BY DEF RoomHoldsSaved
  <2>1. Undisturbed({"close", "load", "again", "catchUp"})
    BY <1>3, StaysDisturbed
  <2>2. \A q \in Room : flushing[q] => NobodyLoads
    BY <2>1 DEF IInv, RoomHoldsSaved
  <2>3. \A c \in Conn : conn[c] = "loaded" /\ current' = NoRoom => base[c] = Saved
    BY <1>5, <2>1, <2>2 DEF DiscardEffect, IInv, RoomHoldsSaved, NobodyLoads
  <2>4. \A q \in live' : Saved \subseteq doc'[q]
    BY <1>5, <2>1 DEF DiscardEffect, IInv, TypeOK, RoomHoldsSaved
  <2>5. \A q \in Room : /\ snap'[q] # "none" => payload'[q] \subseteq doc'[q]
                        /\ snap'[q] = "append" => Saved \subseteq payload'[q]
    BY <1>5, <2>1 DEF IInv, RoomHoldsSaved, DiscardEffect
  <2> QED
    BY <1>2, <1>3, <1>5, <2>2, <2>3, <2>4, <2>5 DEF RoomHoldsSaved, NobodyLoads
<1>11. Undisturbed(LosesEdits)' =>
         /\ Undisturbed(LosesEdits) /\ Undisturbed({"close", "again"})
         /\ snap[r] = "catchUp" /\ dirty[r] = 0
         /\ received \subseteq doc[r] /\ doc[r] \subseteq Saved
  <2> SUFFICES ASSUME Undisturbed(LosesEdits)'
               PROVE  /\ Undisturbed(LosesEdits) /\ Undisturbed({"close", "again"})
                      /\ snap[r] = "catchUp" /\ dirty[r] = 0
                      /\ received \subseteq doc[r] /\ doc[r] \subseteq Saved
    OBVIOUS
  <2>1. Undisturbed(LosesEdits) /\ Undisturbed({"close", "again"})
    BY <1>3, StaysDisturbed DEF Undisturbed, LosesEdits
  <2>2. snap[r] = "catchUp"
    BY <1>2, <1>4 DEF Undisturbed, LosesEdits
  <2> QED
    BY <1>6, <2>1, <2>2 DEF IInv, NothingLost
<1>12. NothingLost'
  <2> SUFFICES ASSUME Undisturbed(LosesEdits)'
               PROVE  NothingLost'
    BY DEF NothingLost
  <2>1. live = {r} /\ received \subseteq Saved
    BY <1>6, <1>11
  <2>2. \A q \in live' : q = r /\ UNCHANGED <<doc, dirty>>
    BY <1>5, <2>1 DEF DiscardEffect
  <2>3. \A q \in Room : snap'[q] = "none"
    BY <1>5, <1>6, <1>11
  <2> QED
    BY <1>2, <1>3, <1>11, <2>1, <2>2, <2>3 DEF NothingLost
<1>13. FlushedAtShutdown'
  <2> SUFFICES ASSUME disturbed' = {}, NEW q \in live'
               PROVE  dirty'[q] = 0
    BY DEF FlushedAtShutdown
  <2>1. Undisturbed(LosesEdits)'
    BY DEF Undisturbed
  <2> QED
    BY <1>5, <1>6, <1>11, <2>1 DEF DiscardEffect
<1>14. NoneAwaited'
  BY <1>2 DEF Running, NoneAwaited
<1> QED
  BY <1>1, <1>7, <1>8, <1>9, <1>10, <1>12, <1>13, <1>14 DEF IInv

-------------------------------------------------------------------------------
\* A dirty room starts to save what it holds.
LEMMA TimerKeepsIInv ==
  ASSUME IInv, NEW r \in Room, TimerFires(r)
  PROVE  IInv'
<1>1. TypeOK'
  BY SnapshotKeepsTypes DEF IInv, RoomStep
<1>2. /\ Running
      /\ UNCHANGED <<current, live, doc, dirty, conn, joined, base, log, projected,
                     received, phase, awaited, disturbed>>
  BY DEF TimerFires, connVars, storeVars
<1>3. timer[r] /\ r \in live /\ \A q \in Room : timer'[q] => timer[q]
  BY DEF TimerFires, IInv, TypeOK, RoomsKept
<1>4. RoomsKept'
  <2>1. \A q \in Room : Leavers(q)' = Leavers(q)
    BY <1>2 DEF Leavers
  <2>2. \A q \in Room : /\ flushing'[q] => snap'[q] # "none"
                        /\ flushing[q] /\ q # r => flushing'[q]
    <3>1. CASE NoSnapshot
      BY <3>1 DEF NoSnapshot, IInv, RoomsKept
    <3>2. CASE StartSnapshot(r, doc[r], FALSE)
      BY <3>2, StartEffect DEF IInv, RoomsKept
    <3> QED
      BY <3>1, <3>2 DEF TimerFires
  <2> QED
    BY <1>2, <1>3, <2>1, <2>2 DEF IInv, RoomsKept
<1>5. Saved' = Saved
  BY <1>2 DEF Saved
<1>6. CASE UNCHANGED <<snap, payload, flushing>>
  BY <1>1, <1>2, <1>5, <1>6, <1>4
  DEF IInv, OneRoom, CaughtUp, RoomHoldsSaved, NothingLost, FlushedAtShutdown,
      NoneAwaited, Undisturbed, NobodyLoads
<1>7. CASE CanSnapshot(r, dirty[r]) /\ StartSnapshot(r, doc[r], FALSE)
  <2>1. r \in live /\ snap[r] = "none"
    BY <1>7, <1>3 DEF CanSnapshot
  <2>2. \A q \in Room : /\ snap'[q] = IF q = r THEN "append" ELSE snap[q]
                        /\ payload'[q] = IF q = r THEN doc[q] ELSE payload[q]
                        /\ flushing'[q] = IF q = r THEN FALSE ELSE flushing[q]
    BY <1>7 DEF StartSnapshot, IInv, TypeOK
  <2>3. OneRoom' /\ CaughtUp'
    BY <1>2, <2>1, <2>2 DEF IInv, OneRoom, CaughtUp, Undisturbed
  <2>4. RoomHoldsSaved'
    BY <1>2, <1>5, <2>1, <2>2 DEF IInv, RoomHoldsSaved, Undisturbed, NobodyLoads
  <2>5. NothingLost'
    BY <1>2, <1>5, <2>1, <2>2 DEF IInv, NothingLost, Undisturbed
  <2>6. FlushedAtShutdown'
    <3>1. \A q \in live : q \in Room /\ (snap[q] # "none" => snap'[q] # "none")
      BY <2>2 DEF IInv, TypeOK
    <3> QED
      BY <1>2, <3>1 DEF IInv, FlushedAtShutdown
  <2>7. NoneAwaited'
    BY <1>2 DEF NoneAwaited, Running
  <2> QED
    BY <1>1, <1>4, <2>3, <2>4, <2>5, <2>6, <2>7 DEF IInv
<1> QED
  BY <1>6, <1>7 DEF TimerFires, NoSnapshot

\* A connection joins the room in the map, or begins to load.
LEMMA ConnectKeepsIInv ==
  ASSUME IInv, NEW c \in Conn, Connect(c) \/ JoinRaced(c)
  PROVE  IInv'
<1>1. TypeOK'
  BY ConnectionKeepsTypes DEF IInv, ConnStep
<1>2. /\ conn[c] \notin {"open", "closing"}
      /\ UNCHANGED <<current, live, doc, dirty, timer, snap, payload, flushing, log, projected,
                     received, phase, awaited, disturbed>>
      /\ \A d \in Conn \ {c} : conn'[d] = conn[d] /\ joined'[d] = joined[d] /\ base'[d] = base[d]
      /\ \/ current # NoRoom /\ conn'[c] = "open" /\ joined'[c] = current
         \/ current = NoRoom /\ conn'[c] = "loading"
  BY DEF Connect, JoinRaced, Place, IInv, TypeOK, roomVars, storeVars
<1>3. Saved' = Saved
  BY <1>2 DEF Saved
<1>4. RoomsKept'
  <2>1. \A q \in Room : Leavers(q)' = Leavers(q)
    BY <1>2 DEF Leavers
  <2>2. /\ \A d \in Conn : conn'[d] = "open" => joined'[d] \in live
        /\ \A d \in Conn : conn'[d] = "closing" => joined'[d] \in Room
    BY <1>2 DEF IInv, TypeOK, RoomsKept
  <2> QED
    BY <1>2, <2>1, <2>2 DEF IInv, RoomsKept
<1>5. OneRoom' /\ CaughtUp' /\ FlushedAtShutdown' /\ NoneAwaited'
  BY <1>2 DEF IInv, OneRoom, CaughtUp, FlushedAtShutdown, NoneAwaited, Undisturbed
<1>6. NothingLost'
  BY <1>2, <1>3 DEF IInv, NothingLost, Undisturbed
<1>7. RoomHoldsSaved'
  <2> SUFFICES ASSUME Undisturbed({"close", "load", "again", "catchUp"})
               PROVE  /\ \A r \in Room : flushing[r] => NobodyLoads'
                      /\ \A d \in Conn : conn'[d] = "loaded" /\ current = NoRoom
                                           => base'[d] = Saved
    BY <1>2, <1>3 DEF IInv, RoomHoldsSaved, Undisturbed
  <2>1. current = NoRoom => \A r \in Room : ~flushing[r]
    BY DocRoomAssumption DEF IInv, TypeOK, RoomsKept, OneRoom, Undisturbed
  <2> QED
    BY <1>2, <2>1 DEF IInv, RoomHoldsSaved, NobodyLoads
<1> QED
  BY <1>1, <1>4, <1>5, <1>6, <1>7 DEF IInv

\* A loading connection gets the last snapshot, when there is no room.
LEMMA LoadKeepsIInv ==
  ASSUME IInv, NEW c \in Conn, Load(c)
  PROVE  IInv'
<1>1. TypeOK'
  BY ConnectionKeepsTypes DEF IInv, ConnStep
<1>2. /\ UNCHANGED <<current, live, doc, dirty, timer, snap, payload, flushing, joined, log,
                     projected, received, phase, awaited, disturbed>>
      /\ conn[c] = "loading" /\ conn'[c] = "loaded" /\ base'[c] = Latest
      /\ \A d \in Conn \ {c} : conn'[d] = conn[d] /\ base'[d] = base[d]
  BY DEF Load, IInv, TypeOK, roomVars, storeVars
<1>3. Saved' = Saved
  BY <1>2 DEF Saved
<1>4. RoomsKept' /\ OneRoom' /\ CaughtUp' /\ FlushedAtShutdown' /\ NoneAwaited'
  <2>1. \A q \in Room : Leavers(q)' = Leavers(q)
    BY <1>2 DEF Leavers
  <2>2. RoomsKept'
    BY <1>2, <2>1 DEF IInv, RoomsKept
  <2> QED
    BY <1>2, <2>2 DEF IInv, OneRoom, CaughtUp, FlushedAtShutdown, NoneAwaited, Undisturbed
<1>5. NothingLost'
  BY <1>2, <1>3 DEF IInv, NothingLost, Undisturbed
<1>6. RoomHoldsSaved'
  <2> SUFFICES ASSUME Undisturbed({"close", "load", "again", "catchUp"})
               PROVE  /\ \A r \in Room : ~flushing[r]
                      /\ current = NoRoom => Latest = Saved
    BY <1>2, <1>3 DEF IInv, RoomHoldsSaved, Undisturbed
  <2>1. \A r \in Room : ~flushing[r]
    BY <1>2 DEF IInv, RoomHoldsSaved, NobodyLoads
  <2>2. ASSUME current = NoRoom PROVE Latest = Saved
    <3>1. \A r \in Room : snap[r] = "none"
      BY <2>2, DocRoomAssumption DEF IInv, TypeOK, OneRoom, Undisturbed
    <3>2. projected = Len(log)
      BY <3>1 DEF IInv, CaughtUp, Undisturbed
    <3>3. log = <<>> <=> Len(log) = 0
      BY DEF IInv, TypeOK
    <3> QED
      BY <3>2, <3>3 DEF Latest, Saved
  <2> QED
    BY <2>1, <2>2
<1> QED
  BY <1>1, <1>4, <1>5, <1>6 DEF IInv

\* A new room holds what the stream does.
LEMMA CreateRoomKeepsIInv ==
  ASSUME IInv, NEW c \in Conn, CreateRoom(c)
  PROVE  IInv'
<1>1. TypeOK'
  BY ConnectionKeepsTypes DEF IInv, ConnStep
<1>2. PICK r \in Fresh :
        /\ Running /\ conn[c] = "loaded" /\ current = NoRoom
        /\ current' = r /\ live' = live \union {r}
        /\ doc'[r] = base[c]
        /\ \A q \in Room \ {r} : doc'[q] = doc[q]
        /\ conn'[c] = "open" /\ joined'[c] = r
        /\ \A d \in Conn \ {c} : conn'[d] = conn[d] /\ joined'[d] = joined[d] /\ base'[d] = base[d]
        /\ UNCHANGED <<dirty, timer, snap, payload, flushing, log, projected, received, phase,
                       awaited, disturbed>>
  <2> DEFINE r == NewRoom
  <2>1. r \in Fresh /\ r \in Room
    BY NewRoomIsFresh DEF CreateRoom, Fresh
  <2> HIDE DEF r
  <2>2. /\ Running /\ conn[c] = "loaded" /\ current = NoRoom
        /\ current' = r /\ live' = live \union {r}
        /\ doc' = [doc EXCEPT ![r] = base[c]]
        /\ conn' = [conn EXCEPT ![c] = "open"] /\ joined' = [joined EXCEPT ![c] = r]
        /\ base' = [base EXCEPT ![c] = {}]
        /\ UNCHANGED <<dirty, timer, snap, payload, flushing, log, projected, received, phase,
                       awaited, disturbed>>
    BY DEF CreateRoom, Place, storeVars, r
  <2> QED
    BY <2>1, <2>2 DEF IInv, TypeOK
<1>3. r \in Room /\ r \notin live /\ snap[r] = "none" /\ dirty[r] = 0
  BY DEF Fresh, IInv, RoomsKept
<1>4. Saved' = Saved
  BY <1>2 DEF Saved
<1>5. Undisturbed({"close", "again"}) => live = {} /\ \A q \in Room : snap[q] = "none"
  BY <1>2, DocRoomAssumption DEF IInv, TypeOK, OneRoom
<1>6. Undisturbed({"close", "load", "again", "catchUp"}) => base[c] = Saved
  BY <1>2 DEF IInv, RoomHoldsSaved
<1>7. RoomsKept'
  <2>1. \A q \in Room : Leavers(q)' = Leavers(q)
    BY <1>2 DEF Leavers
  <2> QED
    BY <1>2, <1>3, <2>1 DEF IInv, RoomsKept
<1>8. OneRoom' /\ CaughtUp'
  BY <1>2, <1>3, <1>5 DEF IInv, OneRoom, CaughtUp, Undisturbed
<1>9. RoomHoldsSaved'
  <2> SUFFICES ASSUME Undisturbed({"close", "load", "again", "catchUp"})
               PROVE  RoomHoldsSaved'
    BY <1>2 DEF RoomHoldsSaved, Undisturbed
  <2>1. live = {} /\ \A q \in Room : snap[q] = "none" /\ ~flushing[q]
    BY <1>5 DEF IInv, TypeOK, RoomsKept, Undisturbed
  <2>2. current' # NoRoom
    BY <1>2, <1>3, DocRoomAssumption
  <2> QED
    BY <1>2, <1>4, <1>6, <2>1, <2>2 DEF RoomHoldsSaved
<1>10. NothingLost'
  <2> SUFFICES ASSUME Undisturbed(LosesEdits)
               PROVE  NothingLost'
    BY <1>2 DEF NothingLost, Undisturbed
  <2>1. live = {} /\ \A q \in Room : snap[q] = "none"
    BY <1>5 DEF Undisturbed, LosesEdits
  <2>2. base[c] = Saved
    BY <1>6 DEF Undisturbed, LosesEdits
  <2>3. received \subseteq Saved
    BY <2>1 DEF IInv, NothingLost
  <2> QED
    BY <1>2, <1>4, <2>1, <2>2, <2>3 DEF NothingLost
<1>11. FlushedAtShutdown'
  BY <1>2, <1>3, <1>5 DEF IInv, FlushedAtShutdown, Undisturbed
<1>12. NoneAwaited'
  BY <1>2 DEF Running, NoneAwaited
<1> QED
  BY <1>1, <1>7, <1>8, <1>9, <1>10, <1>11, <1>12 DEF IInv

\* An edit makes its room dirty, and may start a snapshot that includes it.
LEMMA ReceiveKeepsIInv ==
  ASSUME IInv, NEW c \in Conn, NEW e \in Edit, Receive(c, e)
  PROVE  IInv'
<1> DEFINE r == joined[c]
<1>1. TypeOK'
  BY ReceiveKeepsTypes DEF IInv
<1>2. /\ conn[c] = "open" /\ Running
      /\ MarkDirty(r, doc[r] \union {e}) /\ doc' = [doc EXCEPT ![r] = @ \union {e}]
      /\ received' = received \union {e}
      /\ disturbed \subseteq disturbed'
      /\ snap[r] # "none" => "edit" \in disturbed'
      /\ phase # "up" => "late" \in disturbed'
      /\ UNCHANGED <<current, live, conn, joined, base, log, projected, phase, awaited>>
  BY DEF Receive, connVars, storeVars
<1>3. r \in live /\ r \in Room
  BY <1>2 DEF IInv, TypeOK, RoomsKept
<1>4. /\ doc'[r] = doc[r] \union {e} /\ dirty'[r] # 0
      /\ \A q \in Room \ {r} : doc'[q] = doc[q] /\ dirty'[q] = dirty[q]
  BY <1>2, <1>3 DEF MarkDirty, IInv, TypeOK
<1>5. \/ UNCHANGED <<snap, payload, flushing>>
      \/ /\ snap[r] = "none"
         /\ \A q \in Room : /\ snap'[q] = IF q = r THEN "append" ELSE snap[q]
                            /\ payload'[q] = IF q = r THEN doc'[r] ELSE payload[q]
                            /\ flushing'[q] = IF q = r THEN FALSE ELSE flushing[q]
  <2>1. \/ NoSnapshot
        \/ snap[r] = "none" /\ StartSnapshot(r, doc[r] \union {e}, FALSE)
    BY <1>2 DEF MarkDirty, CanSnapshot
  <2>2. CASE NoSnapshot
    BY <2>2 DEF NoSnapshot
  <2>3. CASE snap[r] = "none" /\ StartSnapshot(r, doc'[r], FALSE)
    BY <1>3, <2>3, StartEffect DEF IInv
  <2> QED
    BY <1>4, <2>1, <2>2, <2>3
<1>6. disturbed \subseteq disturbed' /\ Saved' = Saved
  BY <1>2 DEF Saved
<1>7. RoomsKept'
  <2>1. \A q \in Room : /\ flushing'[q] => snap'[q] # "none"
                        /\ flushing[q] /\ q # r => flushing'[q]
    BY <1>5 DEF IInv, RoomsKept
  <2>2. \A q \in Room : Leavers(q)' = Leavers(q)
    BY <1>2 DEF Leavers
  <2>3. \A q \in Room \ live : dirty'[q] = 0 \/ flushing'[q] \/ Leavers(q)' # {}
    BY <1>3, <1>4, <2>1, <2>2 DEF IInv, RoomsKept
  <2>4. \A q \in Room : timer'[q] => q \in live
    <3>1. \A q \in Room \ {r} : timer'[q] = timer[q]
      BY <1>2 DEF MarkDirty, IInv, TypeOK
    <3> QED
      BY <1>3, <3>1 DEF IInv, RoomsKept
  <2> QED
    BY <1>2, <2>1, <2>3, <2>4 DEF IInv, RoomsKept
<1>8. OneRoom' /\ CaughtUp'
  <2>1. \A q \in Room : /\ snap'[q] = "catchUp" <=> snap[q] = "catchUp"
                        /\ snap'[q] # "none" => snap[q] # "none" \/ q = r
    BY <1>5
  <2> QED
    BY <1>2, <1>3, <1>6, <2>1, StaysDisturbed DEF IInv, OneRoom, CaughtUp
<1>9. RoomHoldsSaved'
  <2> SUFFICES ASSUME Undisturbed({"close", "load", "again", "catchUp"})'
               PROVE  RoomHoldsSaved'
    BY DEF RoomHoldsSaved
  <2>1. Undisturbed({"close", "load", "again", "catchUp"})
    BY <1>6, StaysDisturbed
  <2>2. \A q \in live : q \in Room /\ Saved \subseteq doc'[q]
    BY <1>3, <1>4, <2>1 DEF IInv, TypeOK, RoomHoldsSaved
  <2>3. \A q \in Room : /\ snap'[q] # "none" => payload'[q] \subseteq doc'[q]
                        /\ snap'[q] = "append" => Saved \subseteq payload'[q]
    BY <1>3, <1>4, <1>5, <2>1, <2>2 DEF IInv, RoomHoldsSaved
  <2>4. \A q \in Room : flushing'[q] => NobodyLoads
    BY <1>5, <2>1 DEF IInv, RoomHoldsSaved
  <2>5. \A d \in Conn : conn[d] = "loaded" /\ current = NoRoom => base[d] = Saved
    BY <2>1 DEF IInv, RoomHoldsSaved
  <2> QED
    BY <1>2, <1>6, <2>2, <2>3, <2>4, <2>5 DEF RoomHoldsSaved, NobodyLoads
<1>10. NothingLost'
  <2> SUFFICES ASSUME Undisturbed(LosesEdits)'
               PROVE  NothingLost'
    BY DEF NothingLost
  <2>1. Undisturbed(LosesEdits) /\ Undisturbed({"close", "again"})
    BY <1>6, StaysDisturbed DEF Undisturbed, LosesEdits
  <2>2. snap[r] = "none"
    BY <1>2 DEF Undisturbed, LosesEdits
  <2>3. live = {r} /\ \A q \in Room : snap[q] = "none"
    BY <1>3, <2>1, <2>2 DEF IInv, OneRoom
  <2>4. received' \subseteq doc'[r]
    BY <1>2, <1>3, <1>4, <2>1 DEF IInv, NothingLost
  <2>5. \A q \in Room : /\ snap'[q] # "none" => q = r /\ payload'[q] = doc'[q]
                        /\ snap'[q] # "catchUp"
    BY <1>5, <2>3
  <2> QED
    BY <1>2, <1>4, <2>3, <2>4, <2>5 DEF NothingLost
<1>11. FlushedAtShutdown' /\ NoneAwaited'
  BY <1>2 DEF FlushedAtShutdown, NoneAwaited, Running
<1> QED
  BY <1>1, <1>7, <1>8, <1>9, <1>10, <1>11 DEF IInv

\* The last to leave has the room saved and torn down, or torn down at once.
\* Whoever leaves a room a second time finds it as it was left, or another room
\* in the map.
LEMMA LeaveKeepsIInv ==
  ASSUME IInv, TypeOK', NEW c \in Conn, NEW r \in Room, Running, Leave(c, r),
         r \in live \/ conn[c] = "closing",
         conn[c] \in {"open", "closing"} => joined[c] = r,
         conn'[c] \in {"closed", "closing"},
         conn'[c] = "closing" => joined'[c] = r,
         \A d \in Conn \ {c} : conn'[d] = conn[d] /\ joined'[d] = joined[d] /\ base'[d] = base[d],
         UNCHANGED <<log, projected, received, phase, awaited>>
  PROVE  IInv'
<1> DEFINE OthersLoad == \E d \in Conn \ {c} : conn[d] \in {"loading", "loaded"}
<1>1. /\ disturbed \subseteq disturbed'
      /\ snap[r] # "none" => "close" \in disturbed'
      /\ OthersLoad => "load" \in disturbed'
      /\ Members(r) = {} /\ MeetsAnother(r) => "again" \in disturbed'
      /\ IF Members(r) \subseteq {c} THEN Flush(r) ELSE UNCHANGED roomVars
  BY DEF Leave
<1>2. Saved' = Saved
  BY DEF Saved
<1>3. ~OthersLoad => NobodyLoads'
  BY DEF NobodyLoads
<1>4. NobodyLoads => NobodyLoads'
  BY DEF NobodyLoads
<1>5. NoneAwaited'
  BY DEF NoneAwaited, Running
<1>6. \A q \in Room \ {r} : Leavers(q)' = Leavers(q)
  BY DEF Leavers
<1>7. /\ \A d \in Conn : conn'[d] = "open" => d # c /\ joined'[d] = joined[d] /\ joined[d] \in live
      /\ \A d \in Conn : conn'[d] = "closing" => joined'[d] \in Room
  BY DEF IInv, RoomsKept
<1>8. r \notin live => Members(r) = {}
  BY DEF IInv, RoomsKept, Members
<1>9. Undisturbed({"close", "again"})' =>
        /\ snap[r] = "none"
        /\ r \notin live => dirty[r] = 0 /\ current = NoRoom /\ live = {}
        /\ live \subseteq {r} /\ \A q \in Room : snap[q] = "none"
  <2> SUFFICES ASSUME Undisturbed({"close", "again"})'
               PROVE  /\ snap[r] = "none"
                      /\ r \notin live => dirty[r] = 0 /\ current = NoRoom /\ live = {}
                      /\ live \subseteq {r} /\ \A q \in Room : snap[q] = "none"
    OBVIOUS
  <2>1. snap[r] = "none" /\ ~(Members(r) = {} /\ MeetsAnother(r))
    BY <1>1 DEF Undisturbed
  <2>2. live \subseteq {current} /\ \A q \in Room : snap[q] # "none" => q \in live
    BY <1>1, StaysDisturbed DEF IInv, OneRoom
  <2>3. CASE r \in live
    BY <2>1, <2>2, <2>3
  <2>4. CASE r \notin live
    <3>1. dirty[r] = 0 /\ current = NoRoom
      BY <1>8, <2>1, <2>4 DEF MeetsAnother, IInv, TypeOK
    <3>2. live = {}
      BY <2>2, <3>1, DocRoomAssumption DEF IInv, TypeOK
    <3> QED
      BY <2>1, <2>2, <2>4, <3>1, <3>2
  <2> QED
    BY <2>3, <2>4
<1>10. CASE UNCHANGED roomVars /\ ~(Members(r) \subseteq {c})
  <2>1. UNCHANGED <<current, live, doc, dirty, timer, snap, payload, flushing>>
    BY <1>10 DEF roomVars
  <2>2. RoomsKept'
    <3>1. r \in live
      BY <1>8, <1>10
    <3> QED
      BY <1>6, <1>7, <2>1, <3>1 DEF IInv, RoomsKept
  <2>3. OneRoom' /\ CaughtUp'
    BY <1>1, <2>1, StaysDisturbed DEF IInv, OneRoom, CaughtUp
  <2>4. RoomHoldsSaved'
    <3> SUFFICES ASSUME Undisturbed({"close", "load", "again", "catchUp"})'
                 PROVE  RoomHoldsSaved'
      BY DEF RoomHoldsSaved
    <3>1. Undisturbed({"close", "load", "again", "catchUp"})
      BY <1>1, StaysDisturbed
    <3>2. \A d \in Conn : conn'[d] = "loaded" => d # c /\ conn[d] = "loaded" /\ base'[d] = base[d]
      OBVIOUS
    <3> QED
      BY <1>2, <1>4, <2>1, <3>1, <3>2 DEF IInv, RoomHoldsSaved
  <2>5. NothingLost'
    BY <1>1, <1>2, <2>1, StaysDisturbed DEF IInv, NothingLost
  <2>6. FlushedAtShutdown'
    BY <1>1, <2>1 DEF IInv, FlushedAtShutdown
  <2> QED
    BY <1>5, <2>2, <2>3, <2>4, <2>5, <2>6 DEF IInv
<1>11. CASE CanSnapshot(r, dirty[r]) /\ Flush(r)
  <2>1. /\ snap[r] = "none" /\ dirty[r] > 0
        /\ \A q \in Room : /\ snap'[q] = IF q = r THEN "append" ELSE snap[q]
                           /\ payload'[q] = IF q = r THEN doc[r] ELSE payload[q]
                           /\ flushing'[q] = IF q = r THEN TRUE ELSE flushing[q]
        /\ UNCHANGED <<current, live, doc, dirty>>
    <3>1. /\ snap[r] = "none" /\ dirty[r] > 0 /\ StartSnapshot(r, doc[r], TRUE)
          /\ UNCHANGED <<current, live, doc, dirty>>
      BY <1>11 DEF Flush, CanSnapshot
    <3> QED
      BY <3>1, StartEffect DEF IInv
  <2>2. RoomsKept'
    <3>1. \A q \in Room : timer'[q] => timer[q]
      BY <1>11 DEF Flush, IInv, TypeOK
    <3>2. ASSUME NEW q \in Room \ live
          PROVE  dirty'[q] = 0 \/ flushing'[q] \/ Leavers(q)' # {}
      <4>1. CASE q = r
        BY <2>1, <4>1
      <4>2. CASE q # r
        <5>1. Leavers(q)' = Leavers(q) /\ dirty'[q] = dirty[q] /\ flushing'[q] = flushing[q]
          BY <1>6, <2>1, <4>2
        <5> QED
          BY <5>1 DEF IInv, RoomsKept
      <4> QED
        BY <4>1, <4>2
    <3>3. \A q \in Room : flushing'[q] => snap'[q] # "none"
      <4>1. \A q \in Room : flushing[q] => snap[q] # "none"
        BY DEF IInv, RoomsKept
      <4> QED
        BY <2>1, <4>1
    <3>4. \A q \in Room : timer'[q] => q \in live
      BY <3>1 DEF IInv, RoomsKept
    <3> QED
      BY <1>7, <2>1, <3>2, <3>3, <3>4 DEF RoomsKept
  <2>3. Undisturbed({"close", "again"})' => r \in live
    BY <1>9, <2>1
  <2>4. OneRoom' /\ CaughtUp'
    BY <1>1, <2>1, <2>3, StaysDisturbed DEF IInv, OneRoom, CaughtUp
  <2>5. RoomHoldsSaved'
    <3> SUFFICES ASSUME Undisturbed({"close", "load", "again", "catchUp"})'
                 PROVE  RoomHoldsSaved'
      BY DEF RoomHoldsSaved
    <3>1. Undisturbed({"close", "load", "again", "catchUp"})
      BY <1>1, StaysDisturbed
    <3>2. NobodyLoads'
      BY <1>1, <1>3 DEF Undisturbed
    <3>3. r \in live
      BY <2>3 DEF Undisturbed
    <3>4. \A q \in Room : /\ snap'[q] # "none" => payload'[q] \subseteq doc[q]
                          /\ snap'[q] = "append" => Saved \subseteq payload'[q]
      BY <2>1, <3>1, <3>3 DEF IInv, RoomHoldsSaved
    <3>5. \A q \in live : Saved \subseteq doc[q]
      BY <3>1 DEF IInv, RoomHoldsSaved
    <3>6. \A d \in Conn : conn'[d] # "loaded"
      BY <3>2 DEF NobodyLoads
    <3> QED
      BY <1>2, <2>1, <3>2, <3>4, <3>5, <3>6 DEF RoomHoldsSaved
  <2>6. NothingLost'
    <3> SUFFICES ASSUME Undisturbed(LosesEdits)'
                 PROVE  NothingLost'
      BY DEF NothingLost
    <3>1. r \in live
      BY <2>3 DEF Undisturbed, LosesEdits
    <3> QED
      BY <1>1, <1>2, <2>1, <3>1, StaysDisturbed DEF IInv, NothingLost
  <2>7. FlushedAtShutdown'
    <3>1. \A q \in live : q \in Room /\ (snap[q] # "none" => snap'[q] # "none")
      BY <2>1 DEF IInv, TypeOK
    <3> QED
      BY <1>1, <2>1, <3>1 DEF IInv, FlushedAtShutdown
  <2> QED
    BY <1>5, <2>2, <2>4, <2>5, <2>6, <2>7 DEF IInv
<1>12. CASE ~CanSnapshot(r, dirty[r]) /\ Flush(r) /\ Members(r) \subseteq {c}
  <2>1. DiscardEffect(r) /\ UNCHANGED <<snap, payload, flushing>>
    BY <1>12, DiscardChanges DEF Flush, NoSnapshot, IInv
  <2>2. RoomsKept'
    <3>1. \A d \in Conn : conn'[d] = "open" => joined'[d] \in live'
      BY <1>7, <1>12, <2>1 DEF DiscardEffect, Members
    <3>2. ASSUME NEW q \in Room \ live'
          PROVE  dirty'[q] = 0 \/ flushing'[q] \/ Leavers(q)' # {}
      <4>1. CASE q = r
        BY <2>1, <4>1 DEF DiscardEffect
      <4>2. CASE q # r
        BY <1>6, <2>1, <4>2 DEF DiscardEffect, IInv, RoomsKept
      <4> QED
        BY <4>1, <4>2
    <3>3. \A q \in Room : timer'[q] => q \in live'
      BY <2>1 DEF DiscardEffect, IInv, RoomsKept
    <3> QED
      BY <1>7, <2>1, <3>1, <3>2, <3>3 DEF IInv, RoomsKept
  <2>3. Undisturbed({"close", "again"})' => live' = {} /\ \A q \in Room : snap[q] = "none"
    BY <1>9, <2>1 DEF DiscardEffect
  <2>4. OneRoom' /\ CaughtUp'
    BY <1>1, <2>1, <2>3, StaysDisturbed DEF IInv, OneRoom, CaughtUp
  <2>5. RoomHoldsSaved'
    <3> SUFFICES ASSUME Undisturbed({"close", "load", "again", "catchUp"})'
                 PROVE  RoomHoldsSaved'
      BY DEF RoomHoldsSaved
    <3>1. live' = {} /\ \A q \in Room : snap[q] = "none"
      BY <2>3 DEF Undisturbed
    <3>2. NobodyLoads'
      BY <1>1, <1>3 DEF Undisturbed
    <3>3. \A d \in Conn : conn'[d] # "loaded"
      BY <3>2 DEF NobodyLoads
    <3> QED
      BY <2>1, <3>1, <3>2, <3>3 DEF RoomHoldsSaved
  <2>6. NothingLost'
    <3> SUFFICES ASSUME Undisturbed(LosesEdits)'
                 PROVE  NothingLost'
      BY DEF NothingLost
    <3>1. Undisturbed(LosesEdits) /\ Undisturbed({"close", "again"})'
      BY <1>1, StaysDisturbed DEF Undisturbed, LosesEdits
    <3>2. live' = {} /\ live \subseteq {r} /\ \A q \in Room : snap[q] = "none"
      BY <1>9, <2>3, <3>1
    <3>3. r \in live => dirty[r] = 0
      BY <1>12, <3>2 DEF CanSnapshot, IInv, TypeOK
    <3>4. received \subseteq Saved
      BY <3>1, <3>2, <3>3 DEF IInv, NothingLost
    <3> QED
      BY <1>2, <2>1, <3>2, <3>4 DEF NothingLost
  <2>7. FlushedAtShutdown'
    BY <2>3 DEF FlushedAtShutdown, Undisturbed
  <2> QED
    BY <1>5, <2>2, <2>4, <2>5, <2>6, <2>7 DEF IInv
<1> QED
  BY <1>1, <1>10, <1>11, <1>12 DEF Flush

\* A connection leaves when its socket is closed, or CLOSING as its room is ready;
\* then with the room that was created for it alone.
LEMMA DepartureKeepsIInv ==
  ASSUME IInv, NEW c \in Conn, Close(c) \/ JoinClosing(c)
  PROVE  IInv'
<1>1. TypeOK'
  BY ConnectionKeepsTypes DEF IInv, ConnStep
<1>2. CASE Close(c)
  <2>1. /\ Running /\ conn[c] \in {"open", "closing"} /\ Leave(c, joined[c])
        /\ conn'[c] = "closed"
        /\ \A d \in Conn \ {c} : conn'[d] = conn[d] /\ joined'[d] = joined[d] /\ base'[d] = base[d]
        /\ UNCHANGED <<log, projected, received, phase, awaited>>
    BY <1>2 DEF Close, IInv, TypeOK, storeVars
  <2>2. PICK r \in Room : r = joined[c] /\ (r \in live \/ conn[c] = "closing")
    BY <2>1 DEF IInv, TypeOK, RoomsKept
  <2> QED
    BY <1>1, <2>1, <2>2, LeaveKeepsIInv
<1>3. CASE JoinClosing(c) /\ current # NoRoom
  <2>1. PICK r \in Room : r = current /\ r \in live
    BY <1>3 DEF IInv, TypeOK
  <2>2. /\ Running /\ conn[c] = "loaded" /\ Leave(c, r)
        /\ conn'[c] = "closing" /\ joined'[c] = r
        /\ \A d \in Conn \ {c} : conn'[d] = conn[d] /\ joined'[d] = joined[d] /\ base'[d] = base[d]
        /\ UNCHANGED <<log, projected, received, phase, awaited>>
    BY <1>3, <2>1 DEF JoinClosing, IInv, TypeOK, storeVars
  <2> QED
    BY <1>1, <2>1, <2>2, LeaveKeepsIInv
<1>4. CASE JoinClosing(c) /\ current = NoRoom
  <2>1. /\ conn[c] = "loaded" /\ conn'[c] = "closing" /\ joined'[c] \in Room
        /\ \A d \in Conn \ {c} : conn'[d] = conn[d] /\ joined'[d] = joined[d] /\ base'[d] = base[d]
        /\ UNCHANGED <<current, live, doc, dirty, timer, snap, payload, flushing, log, projected,
                       received, phase, awaited, disturbed>>
    BY <1>4, NewRoomIsFresh DEF JoinClosing, Fresh, IInv, TypeOK, roomVars, storeVars
  <2>2. Saved' = Saved
    BY <2>1 DEF Saved
  <2>3. RoomsKept'
    <3>1. \A q \in Room : Leavers(q) \subseteq Leavers(q)'
      BY <2>1 DEF Leavers
    <3>2. /\ \A d \in Conn : conn'[d] = "open" => joined'[d] \in live
          /\ \A d \in Conn : conn'[d] = "closing" => joined'[d] \in Room
      BY <2>1 DEF IInv, RoomsKept
    <3>3. \A q \in Room \ live : dirty'[q] = 0 \/ flushing'[q] \/ Leavers(q)' # {}
      BY <2>1, <3>1 DEF IInv, RoomsKept
    <3> QED
      BY <2>1, <3>2, <3>3 DEF IInv, RoomsKept
  <2>4. OneRoom' /\ CaughtUp' /\ FlushedAtShutdown' /\ NoneAwaited'
    BY <2>1 DEF IInv, OneRoom, CaughtUp, FlushedAtShutdown, NoneAwaited, Undisturbed
  <2>5. NothingLost'
    BY <2>1, <2>2 DEF IInv, NothingLost, Undisturbed
  <2>6. RoomHoldsSaved'
    <3>1. /\ NobodyLoads => NobodyLoads'
          /\ \A d \in Conn : conn'[d] = "loaded" => conn[d] = "loaded" /\ base'[d] = base[d]
      BY <2>1 DEF NobodyLoads
    <3> QED
      BY <2>1, <2>2, <3>1 DEF IInv, RoomHoldsSaved, Undisturbed
  <2> QED
    BY <1>1, <2>3, <2>4, <2>5, <2>6 DEF IInv
<1> QED
  BY <1>2, <1>3, <1>4

\* The shutdown saves the room in the map, and waits for that.
LEMMA ShutdownKeepsIInv ==
  ASSUME IInv, Shutdown
  PROVE  IInv'
<1>1. TypeOK'
  BY ShutdownKeepsTypes DEF IInv
<1>2. /\ phase = "up" /\ phase' = "stopping"
      /\ UNCHANGED <<current, live, doc, dirty, conn, joined, base, log, projected, received>>
      /\ disturbed \subseteq disturbed'
      /\ disturbed' = {} => \A r \in Room : snap[r] = "none"
  BY DEF Shutdown, Overlap, connVars, storeVars
<1>3. \/ /\ UNCHANGED <<snap, payload, flushing, awaited>>
         /\ current # NoRoom => ~CanSnapshot(current, dirty[current])
      \/ /\ current \in live /\ awaited' = current
         /\ snap[current] = "none"
         /\ \A q \in Room : /\ snap'[q] = IF q = current THEN "append" ELSE snap[q]
                            /\ payload'[q] = IF q = current THEN doc[q] ELSE payload[q]
                            /\ flushing'[q] = IF q = current THEN FALSE ELSE flushing[q]
  <2>1. CASE current # NoRoom /\ CanSnapshot(current, dirty[current])
    <3>1. /\ current \in live /\ current \in Room
          /\ StartSnapshot(current, doc[current], FALSE)
          /\ awaited' = current /\ snap[current] = "none"
      BY <2>1 DEF Shutdown, CanSnapshot, IInv, TypeOK
    <3> QED
      BY <3>1, StartEffect DEF IInv
  <2>2. CASE ~(current # NoRoom /\ CanSnapshot(current, dirty[current]))
    BY <2>2 DEF Shutdown, NoSnapshot
  <2> QED
    BY <2>1, <2>2
<1>4. Saved' = Saved
  BY <1>2 DEF Saved
<1>5. RoomsKept'
  <2>1. \A q \in Room : Leavers(q)' = Leavers(q)
    BY <1>2 DEF Leavers
  <2>2. \A q \in Room : timer'[q] => timer[q]
    BY DEF Shutdown, IInv, TypeOK
  <2>3. \A q \in Room : /\ flushing'[q] => snap'[q] # "none"
                        /\ flushing[q] => flushing'[q]
    BY <1>3 DEF IInv, RoomsKept
  <2> QED
    BY <1>2, <2>1, <2>2, <2>3 DEF IInv, RoomsKept
<1>6. OneRoom'
  BY <1>2, <1>3, StaysDisturbed DEF IInv, OneRoom
<1>7. CaughtUp'
  BY <1>2, <1>3, StaysDisturbed DEF IInv, CaughtUp
<1>8. RoomHoldsSaved'
  <2> SUFFICES ASSUME Undisturbed({"close", "load", "again", "catchUp"})'
               PROVE  RoomHoldsSaved'
    BY DEF RoomHoldsSaved
  <2>1. Undisturbed({"close", "load", "again", "catchUp"})
    BY <1>2, StaysDisturbed
  <2>2. \A q \in Room : /\ snap'[q] # "none" => payload'[q] \subseteq doc[q]
                        /\ snap'[q] = "append" => Saved \subseteq payload'[q]
                        /\ flushing'[q] => NobodyLoads
    BY <1>3, <2>1 DEF IInv, RoomHoldsSaved
  <2> QED
    BY <1>2, <1>4, <2>1, <2>2 DEF IInv, RoomHoldsSaved, NobodyLoads
<1>9. NothingLost'
  BY <1>2, <1>3, <1>4, StaysDisturbed DEF IInv, NothingLost
<1>10. FlushedAtShutdown'
  <2> SUFFICES ASSUME disturbed' = {}, NEW r \in live
               PROVE  dirty[r] = 0 \/ (awaited' = r /\ snap'[r] # "none")
    BY <1>2 DEF FlushedAtShutdown
  <2>1. r = current /\ r \in Room /\ current # NoRoom /\ dirty[r] \in Nat
    BY <1>2, DocRoomAssumption DEF IInv, TypeOK, OneRoom, Undisturbed
  <2>2. CASE ~CanSnapshot(current, dirty[current])
    BY <1>2, <2>1, <2>2 DEF CanSnapshot
  <2>3. CASE awaited' = current /\ snap'[current] = "append"
    BY <2>1, <2>3
  <2> QED
    BY <1>3, <2>1, <2>2, <2>3
<1>11. NoneAwaited'
  BY <1>2 DEF NoneAwaited
<1> QED
  BY <1>1, <1>5, <1>6, <1>7, <1>8, <1>9, <1>10, <1>11 DEF IInv

\* The process ends when what the shutdown waits for is over.
LEMMA StopKeepsIInv ==
  ASSUME IInv, Stop
  PROVE  IInv'
<1>1. TypeOK'
  BY ShutdownKeepsTypes DEF IInv
<1>2. /\ phase = "stopping" /\ awaited = NoRoom
      /\ UNCHANGED <<roomVars, connVars, storeVars, received, awaited, disturbed>>
  BY DEF Stop
<1>3. Saved' = Saved
  BY <1>2 DEF Saved, storeVars
<1> QED
  BY <1>1, <1>2, <1>3
  DEF IInv, RoomsKept, OneRoom, CaughtUp, RoomHoldsSaved, NothingLost, FlushedAtShutdown,
      NoneAwaited, Undisturbed, NobodyLoads, Leavers, roomVars, connVars, storeVars

-------------------------------------------------------------------------------
LEMMA NextKeepsTypes == TypeOK /\ [Next]_vars => TypeOK'
<1> SUFFICES ASSUME TypeOK, [Next]_vars PROVE TypeOK'
  OBVIOUS
<1>1. CASE UNCHANGED vars
  BY <1>1 DEF vars, roomVars, connVars, storeVars, TypeOK
<1> QED
  BY <1>1, SnapshotKeepsTypes, ConnectionKeepsTypes, ReceiveKeepsTypes, ShutdownKeepsTypes
  DEF Next

LEMMA NextKeepsIInv == IInv /\ [Next]_vars => IInv'
<1> SUFFICES ASSUME IInv, [Next]_vars PROVE IInv'
  OBVIOUS
<1>1. ASSUME NEW r \in Room, RoomStep(r) \/ SnapshotFails(r) PROVE IInv'
  BY <1>1, AppendKeepsIInv, FinishKeepsIInv, TimerKeepsIInv DEF RoomStep
<1>2. ASSUME NEW c \in Conn, Connect(c) \/ ConnStep(c) \/ Close(c) PROVE IInv'
  BY <1>2, ConnectKeepsIInv, LoadKeepsIInv, CreateRoomKeepsIInv, DepartureKeepsIInv DEF ConnStep
<1>3. CASE UNCHANGED vars
  BY <1>3
  DEF vars, roomVars, connVars, storeVars, IInv, TypeOK, RoomsKept, OneRoom, CaughtUp,
      RoomHoldsSaved, NothingLost, FlushedAtShutdown, NoneAwaited, Undisturbed, NobodyLoads,
      Leavers, Saved
<1> QED
  BY <1>1, <1>2, <1>3, ReceiveKeepsIInv, ShutdownKeepsIInv, StopKeepsIInv DEF Next

\* Every variable of the gateway stays in its type.
THEOREM TypesHold == Spec => []TypeOK
<1>1. Init => TypeOK
  BY InitIInv DEF IInv
<1> QED
  BY <1>1, NextKeepsTypes, PTL DEF Spec

\* The inductive invariant.
THEOREM Inductive == Spec => []IInv
BY InitIInv, NextKeepsIInv, PTL DEF Spec

\* However joins, leaves and flushes overlap, nobody is left in a room that has
\* been torn down; and all are in one room unless somebody came and left during
\* a flush, or a connection that was CLOSING when its room was ready left it twice.
THEOREM OneAuthority == Spec => []SingleAuthority
<1>1. IInv => SingleAuthority
  <2> SUFFICES ASSUME IInv, NEW c \in Conn, conn[c] = "open"
               PROVE  /\ joined[c] \in live
                      /\ Undisturbed({"close", "again"}) =>
                           \A d \in Conn : conn[d] = "open" => joined[d] = joined[c]
    BY DEF SingleAuthority
  <2>1. \A d \in Conn : conn[d] = "open" => joined[d] \in live
    BY DEF IInv, RoomsKept
  <2>2. Undisturbed({"close", "again"}) => live \subseteq {current}
    BY DEF IInv, OneRoom
  <2> QED
    BY <2>1, <2>2
<1> QED
  BY <1>1, Inductive, PTL

\* An edit the server has received is in the last snapshot or in a room's
\* memory, for as long as the process runs.
THEOREM NoEditLost == Spec => []EditsSurvive
<1>1. IInv => EditsSurvive
  <2> SUFFICES ASSUME IInv, Undisturbed(LosesEdits), NEW e \in received
               PROVE  e \in Saved \union UNION {doc[r] \union payload[r] : r \in Room}
    BY DEF EditsSurvive
  <2>1. CASE live = {}
    BY <2>1 DEF IInv, NothingLost
  <2>2. ASSUME NEW r \in live PROVE e \in doc[r] /\ r \in Room
    BY <2>2 DEF IInv, TypeOK, NothingLost
  <2> QED
    BY <2>1, <2>2
<1> QED
  BY <1>1, Inductive, PTL

\* Nothing is lost over a planned restart, when nothing failed or overlapped:
\* onModuleDestroy does not return before the room it flushes is saved.
THEOREM RestartLossless == Spec => []LosslessRestart
<1>1. IInv => LosslessRestart
  <2> SUFFICES ASSUME IInv, phase = "stopped", disturbed = {}
               PROVE  received \subseteq Saved
    BY DEF LosslessRestart, Running
  <2>1. Undisturbed(LosesEdits)
    BY DEF Undisturbed
  <2>2. CASE live = {}
    BY <2>1, <2>2 DEF IInv, NothingLost
  <2>3. ASSUME NEW r \in live PROVE received \subseteq Saved
    <3>1. r # NoRoom
      BY DocRoomAssumption DEF IInv, TypeOK
    <3>2. dirty[r] = 0
      BY <3>1 DEF IInv, FlushedAtShutdown, NoneAwaited
    <3> QED
      BY <2>1, <3>2 DEF IInv, NothingLost
  <2> QED
    BY <2>2, <2>3
<1> QED
  BY <1>1, Inductive, PTL

\* A later snapshot has everything an earlier one had.
THEOREM NeverTakenBack == Spec => SnapshotsGrow
<1>1. ASSUME IInv, [Next]_vars, Undisturbed({"close", "load", "again", "catchUp"})'
      PROVE  Saved \subseteq Saved'
  <2>1. CASE log' = log
    BY <2>1 DEF Saved
  <2>2. ASSUME NEW r \in Room, AppendSnapshot(r) PROVE Saved \subseteq Saved'
    <3>1. /\ snap[r] = "append" /\ log' = Append(log, payload[r])
          /\ Undisturbed({"close", "load", "again", "catchUp"})
      BY <1>1, <2>2 DEF AppendSnapshot, Undisturbed
    <3>2. Saved \subseteq payload[r]
      BY <1>1, <3>1 DEF IInv, RoomHoldsSaved
    <3>3. Saved' = payload[r]
      <4>1. log \in Seq(SUBSET Edit) /\ payload[r] \in SUBSET Edit
        BY <1>1 DEF IInv, TypeOK
      <4> QED
        BY <3>1, <4>1 DEF Saved
    <3> QED
      BY <3>2, <3>3
  <2>3. ASSUME NEW r \in Room, CatchUpSnapshots(r) \/ TimerFires(r) \/ SnapshotFails(r)
        PROVE  log' = log
    BY <2>3 DEF CatchUpSnapshots, TimerFires, SnapshotFails, storeVars
  <2>4. ASSUME NEW c \in Conn, Connect(c) \/ ConnStep(c) \/ Close(c)
        PROVE  log' = log
    BY <2>4 DEF Connect, ConnStep, Load, JoinRaced, CreateRoom, JoinClosing, Close, storeVars
  <2>5. ASSUME NEW c \in Conn, NEW e \in Edit, Receive(c, e) PROVE log' = log
    BY <2>5 DEF Receive, storeVars
  <2>6. ASSUME Shutdown \/ Stop PROVE log' = log
    BY <2>6 DEF Shutdown, Stop, storeVars
  <2>7. ASSUME UNCHANGED vars PROVE log' = log
    BY <2>7 DEF vars, storeVars
  <2> QED
    BY <1>1, <2>1, <2>2, <2>3, <2>4, <2>5, <2>6, <2>7 DEF Next, RoomStep
<1>2. IInv /\ [Next]_vars =>
        [Undisturbed({"close", "load", "again", "catchUp"})' => Saved \subseteq Saved']_vars
  BY <1>1
<1> QED
  BY <1>2, Inductive, PTL DEF Spec, SnapshotsGrow

-------------------------------------------------------------------------------
(***************************************************************************)
(* The copies of one document (DocSync).                                   *)
(***************************************************************************)
CONSTANTS Client, MaxMishaps

VARIABLES ws, side, text, room, saved, up, down, mishaps

Y == INSTANCE DocSync WITH conn <- side

\* The messages of a queue.
Carried(queue) == {queue[i] : i \in 1..Len(queue)}

\* What holds of one editor: its socket, how far the gateway is with it, its text,
\* the room, and what is on the wire in each direction.  An open socket has a
\* connection; what is on the wire is in the copy it comes from; while the room is
\* loaded, the editor's question waits; what an editor lacks of the room, and the
\* room of a joined editor, is on its way or is still to be asked for.
Agreeing(socket, place, own, shared, asked, answers) ==
  /\ socket = "open" => place \in {"loading", "joined"}
  /\ \A m \in asked : m.edits \subseteq own
  /\ \A m \in answers : m.edits \subseteq shared
  /\ socket = "open" /\ place = "loading" => \E m \in asked : m.kind = "step1"
  /\ socket = "open" =>
       \A e \in shared \ own :
         \/ \E m \in asked : m.kind = "step1" /\ e \notin m.edits
         \/ \E m \in answers : m.kind # "step1" /\ e \in m.edits
  /\ socket = "open" /\ place = "joined" =>
       \A e \in own \ shared :
         \/ \E m \in asked : m.kind # "step1" /\ e \in m.edits
         \/ \E m \in answers : m.kind = "step1" /\ e \notin m.edits

SyncTypes ==
  /\ ws \in [Client -> {"closed", "connecting", "open", "destroyed"}]
  /\ side \in [Client -> {"none", "loading", "joined"}]
  /\ text \in [Client -> SUBSET Edit]
  /\ room \in SUBSET Edit /\ saved \in SUBSET Edit
  /\ up \in [Client -> Seq(Y!Message)] /\ down \in [Client -> Seq(Y!Message)]

SyncInv ==
  /\ SyncTypes
  /\ \A c \in Client :
       Agreeing(ws[c], side[c], text[c], room, Carried(up[c]), Carried(down[c]))

-------------------------------------------------------------------------------
\* A message put at the end of a queue, taken from its front, or alone in it.
LEMMA CarriedQueues ==
  ASSUME NEW queue \in Seq(Y!Message), NEW m \in Y!Message
  PROVE  /\ Append(queue, m) \in Seq(Y!Message)
         /\ Carried(Append(queue, m)) = Carried(queue) \union {m}
         /\ Carried(<<m>>) = {m} /\ <<m>> \in Seq(Y!Message)
         /\ Carried(<<>>) = {} /\ <<>> \in Seq(Y!Message)
<1>1. /\ Append(queue, m) \in Seq(Y!Message)
      /\ Len(Append(queue, m)) = Len(queue) + 1
      /\ Append(queue, m)[Len(queue) + 1] = m
      /\ \A i \in 1..Len(queue) : Append(queue, m)[i] = queue[i]
  OBVIOUS
<1>2. Len(queue) \in Nat
  OBVIOUS
<1>3. Carried(Append(queue, m)) = Carried(queue) \union {m}
  <2>1. 1..(Len(queue) + 1) = 1..Len(queue) \union {Len(queue) + 1}
    BY <1>2
  <2> QED
    BY <1>1, <2>1 DEF Carried
<1>4. Carried(<<m>>) = {m} /\ <<m>> \in Seq(Y!Message)
  BY DEF Carried
<1>5. Carried(<<>>) = {} /\ <<>> \in Seq(Y!Message)
  BY DEF Carried
<1> QED
  BY <1>1, <1>3, <1>4, <1>5

LEMMA CarriedFront ==
  ASSUME NEW queue \in Seq(Y!Message), queue # <<>>
  PROVE  /\ Tail(queue) \in Seq(Y!Message) /\ Head(queue) \in Y!Message
         /\ Carried(queue) = Carried(Tail(queue)) \union {Head(queue)}
<1>1. /\ Tail(queue) \in Seq(Y!Message) /\ Head(queue) = queue[1]
      /\ Len(queue) \in Nat /\ Len(queue) >= 1 /\ Len(Tail(queue)) = Len(queue) - 1
      /\ \A i \in 1..(Len(queue) - 1) : Tail(queue)[i] = queue[i + 1]
  OBVIOUS
<1>2. \A i \in 2..Len(queue) : i - 1 \in 1..(Len(queue) - 1) /\ Tail(queue)[i - 1] = queue[i]
  BY <1>1
<1>3. Carried(Tail(queue)) = {queue[i] : i \in 2..Len(queue)}
  <2>1. ASSUME NEW m \in Carried(Tail(queue))
        PROVE  m \in {queue[i] : i \in 2..Len(queue)}
    <3>1. PICK i \in 1..Len(Tail(queue)) : m = Tail(queue)[i]
      BY <2>1 DEF Carried
    <3>2. i + 1 \in 2..Len(queue) /\ m = queue[i + 1]
      BY <1>1, <3>1
    <3> QED
      BY <3>2
  <2>2. ASSUME NEW m \in {queue[i] : i \in 2..Len(queue)}
        PROVE  m \in Carried(Tail(queue))
    <3>1. PICK i \in 2..Len(queue) : m = queue[i]
      BY <2>2
    <3>2. i - 1 \in 1..Len(Tail(queue)) /\ m = Tail(queue)[i - 1]
      BY <1>1, <1>2, <3>1
    <3> QED
      BY <3>2 DEF Carried
  <2> QED
    BY <2>1, <2>2
<1>4. 1..Len(queue) = {1} \union 2..Len(queue)
  BY <1>1
<1>5. Carried(queue) = {queue[1]} \union {queue[i] : i \in 2..Len(queue)}
  BY <1>4 DEF Carried
<1>6. Head(queue) \in Y!Message
  BY <1>1
<1> QED
  BY <1>1, <1>3, <1>5, <1>6

LEMMA CarriedAreMessages ==
  ASSUME NEW queue \in Seq(Y!Message)
  PROVE  \A m \in Carried(queue) : m \in Y!Message
BY DEF Carried

\* The messages are messages.
LEMMA MadeOfEdits ==
  ASSUME NEW content \in SUBSET Edit, NEW other \in SUBSET Edit
  PROVE  /\ Y!Step1(content) \in Y!Message /\ Y!Step1(content).kind = "step1"
         /\ Y!Step1(content).edits = content
         /\ Y!Missing(content, other) \in Y!Message
         /\ Y!Missing(content, other).kind = "step2"
         /\ Y!Missing(content, other).edits = content \ other
         /\ Y!Update(content) \in Y!Message /\ Y!Update(content).kind = "update"
         /\ Y!Update(content).edits = content
BY DEF Y!Step1, Y!Missing, Y!Update, Y!Message

LEMMA MessageFields ==
  ASSUME NEW m \in Y!Message
  PROVE  m.edits \in SUBSET Edit
BY DEF Y!Message

-------------------------------------------------------------------------------
LEMMA CopiesStart == Y!Init => SyncInv
<1> SUFFICES ASSUME Y!Init PROVE SyncInv
  OBVIOUS
<1>1. SyncTypes
  BY DEF Y!Init, SyncTypes
<1>2. Carried(<<>>) = {}
  BY DEF Carried
<1>3. ASSUME NEW c \in Client
      PROVE  Agreeing(ws[c], side[c], text[c], room, Carried(up[c]), Carried(down[c]))
  BY <1>2 DEF Y!Init, Agreeing
<1> QED
  BY <1>1, <1>3 DEF SyncInv

\* A step that is about one editor leaves the others as they were.
LEMMA OthersStay ==
  ASSUME SyncInv, SyncTypes', room' = room, NEW c \in Client,
         \A d \in Client \ {c} :
           /\ ws'[d] = ws[d] /\ side'[d] = side[d] /\ text'[d] = text[d]
           /\ up'[d] = up[d] /\ down'[d] = down[d],
         NEW asked, NEW answers, NEW own,
         asked = Carried(up'[c]), answers = Carried(down'[c]), own = text'[c],
         Agreeing(ws'[c], side'[c], own, room, asked, answers)
  PROVE  SyncInv'
<1>1. ASSUME NEW d \in Client
      PROVE  Agreeing(ws'[d], side'[d], text'[d], room', Carried(up'[d]), Carried(down'[d]))
  <2>1. CASE d = c
    BY <2>1
  <2>2. CASE d # c
    <3>1. /\ ws'[d] = ws[d] /\ side'[d] = side[d] /\ text'[d] = text[d]
          /\ up'[d] = up[d] /\ down'[d] = down[d]
      BY <2>2
    <3>2. Agreeing(ws[d], side[d], text[d], room, Carried(up[d]), Carried(down[d]))
      BY DEF SyncInv
    <3> QED
      BY <3>1, <3>2
  <2> QED
    BY <2>1, <2>2
<1> QED
  BY <1>1 DEF SyncInv

LEMMA OpenAgrees ==
  ASSUME SyncInv, NEW c \in Client, Y!Open(c)
  PROVE  SyncInv'
<1>1. SyncTypes /\ Agreeing(ws[c], side[c], text[c], room, Carried(up[c]), Carried(down[c]))
  BY DEF SyncInv
<1>2. PICK m \in Y!Message : m = Y!Step1(text[c]) /\ m.kind = "step1" /\ m.edits = text[c]
  BY <1>1, MadeOfEdits DEF SyncTypes
<1>3. up[c] \in Seq(Y!Message)
  BY <1>1 DEF SyncTypes
<1>4. Carried(<<m>>) = {m} /\ <<m>> \in Seq(Y!Message)
  BY <1>2, <1>3, CarriedQueues
<1>5. up' = [up EXCEPT ![c] = <<m>>]
  BY <1>2 DEF Y!Open
<1>6. SyncTypes'
  BY <1>1, <1>4, <1>5 DEF SyncTypes, Y!Open
<1>7. up'[c] = <<m>> /\ ws'[c] = "open" /\ side'[c] = "loading" /\ down' = down /\ text' = text
  BY <1>1, <1>5 DEF SyncTypes, Y!Open
<1>8. Agreeing("open", "loading", text[c], room, {m}, Carried(down[c]))
  BY <1>1, <1>2 DEF Agreeing
<1>9. /\ room' = room
      /\ \A d \in Client \ {c} :
           /\ ws'[d] = ws[d] /\ side'[d] = side[d] /\ text'[d] = text[d]
           /\ up'[d] = up[d] /\ down'[d] = down[d]
  BY <1>1, <1>5 DEF SyncTypes, Y!Open
<1> QED
  BY <1>4, <1>6, <1>7, <1>8, <1>9, OthersStay

LEMMA TypeAgrees ==
  ASSUME SyncInv, NEW c \in Client, NEW e \in Edit, Y!Type(c, e)
  PROVE  SyncInv'
<1>1. SyncTypes /\ Agreeing(ws[c], side[c], text[c], room, Carried(up[c]), Carried(down[c]))
  BY DEF SyncInv
<1>2. PICK m \in Y!Message : m = Y!Update({e}) /\ m.kind = "update" /\ m.edits = {e}
  BY MadeOfEdits
<1>3. up[c] \in Seq(Y!Message)
  BY <1>1 DEF SyncTypes
<1>4. /\ Append(up[c], m) \in Seq(Y!Message)
      /\ Carried(Append(up[c], m)) = Carried(up[c]) \union {m}
  BY <1>2, <1>3, CarriedQueues
<1>5. /\ up' = [up EXCEPT ![c] = IF ws[c] = "open" THEN Append(up[c], m) ELSE up[c]]
      /\ text' = [text EXCEPT ![c] = @ \union {e}]
      /\ UNCHANGED <<ws, side, room, saved, down>>
      /\ e \notin room
  BY <1>2 DEF Y!Type, Y!Sent
<1>6. SyncTypes'
  BY <1>1, <1>4, <1>5 DEF SyncTypes
<1>7. text'[c] = text[c] \union {e}
  BY <1>1, <1>5 DEF SyncTypes
<1>8. Agreeing(ws[c], side[c], text[c] \union {e}, room, Carried(up'[c]), Carried(down[c]))
  <2>1. CASE ws[c] = "open"
    <3>1. Carried(up'[c]) = Carried(up[c]) \union {m}
      BY <1>1, <1>4, <1>5, <2>1 DEF SyncTypes
    <3>2. Agreeing(ws[c], side[c], text[c] \union {e}, room, Carried(up[c]) \union {m}, Carried(down[c]))
      BY <1>1, <1>2, <1>5, <2>1 DEF Agreeing
    <3> QED
      BY <3>1, <3>2
  <2>2. CASE ws[c] # "open"
    <3>1. up'[c] = up[c]
      BY <1>1, <1>5, <2>2 DEF SyncTypes
    <3> QED
      BY <1>1, <2>2, <3>1 DEF Agreeing
  <2> QED
    BY <2>1, <2>2
<1>9. \A d \in Client \ {c} :
           /\ ws'[d] = ws[d] /\ side'[d] = side[d] /\ text'[d] = text[d]
           /\ up'[d] = up[d] /\ down'[d] = down[d]
  BY <1>1, <1>5 DEF SyncTypes
<1> QED
  BY <1>5, <1>6, <1>7, <1>8, <1>9, OthersStay

LEMMA JoinAgrees ==
  ASSUME SyncInv, NEW c \in Client, Y!Join(c)
  PROVE  SyncInv'
<1>1. SyncTypes /\ Agreeing(ws[c], side[c], text[c], room, Carried(up[c]), Carried(down[c]))
  BY DEF SyncInv
<1>2. PICK m \in Y!Message : m = Y!Step1(room) /\ m.kind = "step1" /\ m.edits = room
  BY <1>1, MadeOfEdits DEF SyncTypes
<1>3. down[c] \in Seq(Y!Message)
  BY <1>1 DEF SyncTypes
<1>4. /\ Append(down[c], m) \in Seq(Y!Message)
      /\ Carried(Append(down[c], m)) = Carried(down[c]) \union {m}
  BY <1>2, <1>3, CarriedQueues
<1>5. /\ down' = [down EXCEPT ![c] = IF ws[c] = "open" THEN Append(down[c], m) ELSE down[c]]
      /\ side' = [side EXCEPT ![c] = "joined"]
      /\ side[c] = "loading"
      /\ UNCHANGED <<ws, text, room, saved, up>>
  BY <1>2 DEF Y!Join, Y!Pushed
<1>6. SyncTypes'
  BY <1>1, <1>4, <1>5 DEF SyncTypes
<1>7. side'[c] = "joined"
  BY <1>1, <1>5 DEF SyncTypes
<1>8. Agreeing(ws[c], "joined", text[c], room, Carried(up[c]), Carried(down'[c]))
  <2>1. CASE ws[c] = "open"
    <3>1. Carried(down'[c]) = Carried(down[c]) \union {m}
      BY <1>1, <1>4, <1>5, <2>1 DEF SyncTypes
    <3>2. Agreeing(ws[c], "joined", text[c], room, Carried(up[c]), Carried(down[c]) \union {m})
      BY <1>1, <1>2, <1>5, <2>1 DEF Agreeing
    <3> QED
      BY <3>1, <3>2
  <2>2. CASE ws[c] # "open"
    <3>1. down'[c] = down[c]
      BY <1>1, <1>5, <2>2 DEF SyncTypes
    <3> QED
      BY <1>1, <2>2, <3>1 DEF Agreeing
  <2> QED
    BY <2>1, <2>2
<1>9. \A d \in Client \ {c} :
           /\ ws'[d] = ws[d] /\ side'[d] = side[d] /\ text'[d] = text[d]
           /\ up'[d] = up[d] /\ down'[d] = down[d]
  BY <1>1, <1>5 DEF SyncTypes
<1> QED
  BY <1>5, <1>6, <1>7, <1>8, <1>9, OthersStay

\* The editor's side or the gateway's is gone, or one of them begins again: what
\* is on the wire is dropped or is as before.
LEMMA ApartAgrees ==
  ASSUME SyncInv, NEW c \in Client,
         Y!JoinTooLate(c) \/ Y!Reconnect(c) \/ Y!Destroy(c) \/ Y!Close(c) \/ Y!Disconnect(c)
  PROVE  SyncInv'
<1>1. SyncTypes /\ Agreeing(ws[c], side[c], text[c], room, Carried(up[c]), Carried(down[c]))
  BY DEF SyncInv
<1>2. Carried(<<>>) = {} /\ <<>> \in Seq(Y!Message)
  BY DEF Carried
<1>3. /\ UNCHANGED <<text, room, saved>>
      /\ \E q \in {<<>>, up[c]} : up' = [up EXCEPT ![c] = q]
      /\ \E q \in {<<>>, down[c]} : down' = [down EXCEPT ![c] = q]
      /\ \E w \in {"closed", "connecting", "destroyed"} : ws' = [ws EXCEPT ![c] = w]
      /\ \E s \in {"none", side[c]} : side' = [side EXCEPT ![c] = s]
  BY <1>1 DEF SyncTypes, Y!JoinTooLate, Y!Reconnect, Y!Destroy, Y!Close, Y!Disconnect, Y!Lost
<1>4. SyncTypes'
  <2>1. up[c] \in Seq(Y!Message) /\ down[c] \in Seq(Y!Message) /\ side[c] \in {"none", "loading", "joined"}
    BY <1>1 DEF SyncTypes
  <2>2. up' \in [Client -> Seq(Y!Message)]
    <3>1. PICK q \in {<<>>, up[c]} : up' = [up EXCEPT ![c] = q]
      BY <1>3
    <3>2. q \in Seq(Y!Message)
      BY <1>2, <2>1, <3>1
    <3> QED
      BY <1>1, <3>1, <3>2 DEF SyncTypes
  <2>3. down' \in [Client -> Seq(Y!Message)]
    <3>1. PICK q \in {<<>>, down[c]} : down' = [down EXCEPT ![c] = q]
      BY <1>3
    <3>2. q \in Seq(Y!Message)
      BY <1>2, <2>1, <3>1
    <3> QED
      BY <1>1, <3>1, <3>2 DEF SyncTypes
  <2>4. /\ ws' \in [Client -> {"closed", "connecting", "open", "destroyed"}]
        /\ side' \in [Client -> {"none", "loading", "joined"}]
    BY <1>1, <1>3, <2>1 DEF SyncTypes
  <2> QED
    BY <1>1, <1>3, <2>2, <2>3, <2>4 DEF SyncTypes
<1>5. /\ up'[c] \in {<<>>, up[c]} /\ down'[c] \in {<<>>, down[c]}
      /\ ws'[c] # "open"
  BY <1>1, <1>3 DEF SyncTypes
<1>6. Carried(up'[c]) \subseteq Carried(up[c]) /\ Carried(down'[c]) \subseteq Carried(down[c])
  BY <1>2, <1>5
<1>7. Agreeing(ws'[c], side'[c], text[c], room, Carried(up'[c]), Carried(down'[c]))
  BY <1>1, <1>5, <1>6 DEF Agreeing
<1>8. \A d \in Client \ {c} :
           /\ ws'[d] = ws[d] /\ side'[d] = side[d] /\ text'[d] = text[d]
           /\ up'[d] = up[d] /\ down'[d] = down[d]
  BY <1>1, <1>3 DEF SyncTypes
<1> QED
  BY <1>3, <1>4, <1>7, <1>8, OthersStay

LEMMA DeliverAgrees ==
  ASSUME SyncInv, NEW c \in Client, Y!Deliver(c)
  PROVE  SyncInv'
<1>1. SyncTypes /\ Agreeing(ws[c], side[c], text[c], room, Carried(up[c]), Carried(down[c]))
  BY DEF SyncInv
<1>2. up[c] \in Seq(Y!Message) /\ down[c] \in Seq(Y!Message) /\ down[c] # <<>>
  BY <1>1 DEF SyncTypes, Y!Deliver
<1>3. PICK m \in Y!Message :
        /\ m = Head(down[c])
        /\ Tail(down[c]) \in Seq(Y!Message)
        /\ Carried(down[c]) = Carried(Tail(down[c])) \union {m}
  BY <1>2, CarriedFront
<1>4. /\ down' = [down EXCEPT ![c] = Tail(@)] /\ ws[c] = "open"
      /\ UNCHANGED <<ws, side, room, saved>>
  BY DEF Y!Deliver
<1>5. down'[c] = Tail(down[c])
  BY <1>1, <1>4 DEF SyncTypes
<1>6. m.edits \in SUBSET Edit
  BY MessageFields
<1>7. CASE m.kind = "step1"
  <2>1. text' = text /\ up' = [up EXCEPT ![c] = Append(@, Y!Missing(text[c], m.edits))]
    BY <1>3, <1>7 DEF Y!Deliver
  <2>2. PICK n \in Y!Message :
          n = Y!Missing(text[c], m.edits) /\ n.kind = "step2" /\ n.edits = text[c] \ m.edits
    <3>1. text[c] \in SUBSET Edit
      BY <1>1 DEF SyncTypes
    <3>2. PICK n : n = Y!Missing(text[c], m.edits)
      OBVIOUS
    <3>3. n \in Y!Message /\ n.kind = "step2" /\ n.edits = text[c] \ m.edits
      <4>1. PICK own \in SUBSET Edit, had \in SUBSET Edit : own = text[c] /\ had = m.edits
        BY <1>6, <3>1
      <4>2. /\ Y!Missing(own, had) \in Y!Message /\ Y!Missing(own, had).kind = "step2"
            /\ Y!Missing(own, had).edits = own \ had
        BY <4>1, MadeOfEdits
      <4>3. n = Y!Missing(own, had)
        BY <3>2, <4>1
      <4> QED
        BY <4>1, <4>2, <4>3
    <3> QED
      BY <3>2, <3>3
  <2>3. /\ Append(up[c], n) \in Seq(Y!Message)
        /\ Carried(Append(up[c], n)) = Carried(up[c]) \union {n}
    BY <1>2, <2>2, CarriedQueues
  <2>4. SyncTypes'
    BY <1>1, <1>3, <1>4, <2>1, <2>2, <2>3 DEF SyncTypes
  <2>5. up'[c] = Append(up[c], n)
    BY <1>1, <2>1, <2>2 DEF SyncTypes
  <2>6. Agreeing(ws[c], side[c], text[c], room, Carried(up[c]) \union {n}, Carried(Tail(down[c])))
    BY <1>1, <1>3, <1>7, <2>2 DEF Agreeing
  <2>7. \A d \in Client \ {c} :
           /\ ws'[d] = ws[d] /\ side'[d] = side[d] /\ text'[d] = text[d]
           /\ up'[d] = up[d] /\ down'[d] = down[d]
    BY <1>1, <1>4, <2>1 DEF SyncTypes
  <2> QED
    BY <1>4, <1>5, <2>1, <2>3, <2>4, <2>5, <2>6, <2>7, OthersStay
<1>8. CASE m.kind # "step1"
  <2>1. up' = up /\ text' = [text EXCEPT ![c] = @ \union m.edits]
    BY <1>3, <1>8 DEF Y!Deliver
  <2>2. SyncTypes'
    BY <1>1, <1>3, <1>4, <1>6, <2>1 DEF SyncTypes
  <2>3. text'[c] = text[c] \union m.edits
    BY <1>1, <2>1 DEF SyncTypes
  <2>4. Agreeing(ws[c], side[c], text[c] \union m.edits, room, Carried(up[c]), Carried(Tail(down[c])))
    BY <1>1, <1>3, <1>8 DEF Agreeing
  <2>5. \A d \in Client \ {c} :
           /\ ws'[d] = ws[d] /\ side'[d] = side[d] /\ text'[d] = text[d]
           /\ up'[d] = up[d] /\ down'[d] = down[d]
    BY <1>1, <1>4, <2>1 DEF SyncTypes
  <2> QED
    BY <1>4, <1>5, <2>1, <2>2, <2>3, <2>4, <2>5, OthersStay
<1> QED
  BY <1>7, <1>8

\* What an update of the room does to a connection that it did not come from.
LEMMA RelayAgrees ==
  ASSUME NEW socket, NEW place, NEW own \in SUBSET Edit, NEW shared \in SUBSET Edit,
         NEW asked, NEW answers, NEW later, NEW edits \in SUBSET Edit, NEW n,
         n.kind = "update", n.edits = edits \ shared,
         Agreeing(socket, place, own, shared, asked, answers),
         \/ later = answers \union {n}
         \/ later = answers /\ (socket # "open" \/ place # "joined" \/ edits \ shared = {})
  PROVE  Agreeing(socket, place, own, shared \union edits, asked, later)
<1>1. CASE later = answers \union {n}
  BY <1>1 DEF Agreeing
<1>2. CASE later = answers /\ (socket # "open" \/ edits \ shared = {})
  BY <1>2 DEF Agreeing
<1>3. CASE later = answers /\ socket = "open" /\ place # "joined"
  BY <1>3 DEF Agreeing
<1> QED
  BY <1>1, <1>2, <1>3

LEMMA ReceiveAgrees ==
  ASSUME SyncInv, NEW c \in Client, Y!Receive(c)
  PROVE  SyncInv'
<1>1. SyncTypes /\ Agreeing(ws[c], side[c], text[c], room, Carried(up[c]), Carried(down[c]))
  BY DEF SyncInv
<1>2. up[c] \in Seq(Y!Message) /\ down[c] \in Seq(Y!Message) /\ up[c] # <<>>
  BY <1>1 DEF SyncTypes, Y!Receive
<1>3. PICK m \in Y!Message :
        /\ m = Head(up[c])
        /\ Tail(up[c]) \in Seq(Y!Message)
        /\ Carried(up[c]) = Carried(Tail(up[c])) \union {m}
  BY <1>2, CarriedFront
<1>4. /\ up' = [up EXCEPT ![c] = Tail(@)] /\ side[c] = "joined"
      /\ UNCHANGED <<ws, side, text, saved>>
  BY DEF Y!Receive
<1>5. up'[c] = Tail(up[c]) /\ \A d \in Client \ {c} : up'[d] = up[d]
  BY <1>1, <1>4 DEF SyncTypes
<1>6. m.edits \in SUBSET Edit
  BY MessageFields
<1>7. CASE m.kind = "step1"
  <2>1. PICK n \in Y!Message :
          n = Y!Missing(room, m.edits) /\ n.kind = "step2" /\ n.edits = room \ m.edits
    <3>1. room \in SUBSET Edit
      BY <1>1 DEF SyncTypes
    <3>2. PICK n : n = Y!Missing(room, m.edits)
      OBVIOUS
    <3>3. n \in Y!Message /\ n.kind = "step2" /\ n.edits = room \ m.edits
      BY <1>6, <3>1, <3>2, MadeOfEdits
    <3> QED
      BY <3>2, <3>3
  <2>2. /\ room' = room
        /\ down' = [down EXCEPT ![c] = IF ws[c] = "open" THEN Append(@, n) ELSE @]
    BY <1>3, <1>7, <2>1 DEF Y!Receive, Y!Pushed
  <2>3. /\ Append(down[c], n) \in Seq(Y!Message)
        /\ Carried(Append(down[c], n)) = Carried(down[c]) \union {n}
    BY <1>2, <2>1, CarriedQueues
  <2>4. SyncTypes'
    BY <1>1, <1>3, <1>4, <2>2, <2>3 DEF SyncTypes
  <2>5. Agreeing(ws[c], side[c], text[c], room, Carried(Tail(up[c])), Carried(down'[c]))
    <3>1. CASE ws[c] = "open"
      <4>1. down'[c] = Append(down[c], n)
        BY <1>1, <2>2, <3>1 DEF SyncTypes
      <4>2. Agreeing(ws[c], side[c], text[c], room, Carried(Tail(up[c])), Carried(down[c]) \union {n})
        BY <1>1, <1>3, <1>4, <1>7, <2>1 DEF Agreeing
      <4> QED
        BY <2>3, <4>1, <4>2
    <3>2. CASE ws[c] # "open"
      <4>1. down'[c] = down[c]
        BY <1>1, <2>2, <3>2 DEF SyncTypes
      <4> QED
        BY <1>1, <1>3, <3>2, <4>1 DEF Agreeing
    <3> QED
      BY <3>1, <3>2
  <2>6. \A d \in Client \ {c} :
           /\ ws'[d] = ws[d] /\ side'[d] = side[d] /\ text'[d] = text[d]
           /\ up'[d] = up[d] /\ down'[d] = down[d]
    BY <1>1, <1>4, <2>2 DEF SyncTypes
  <2> QED
    BY <1>4, <1>5, <2>2, <2>4, <2>5, <2>6, OthersStay
<1>8. CASE m.kind # "step1"
  <2>1. PICK n \in Y!Message :
          n = Y!Update(m.edits \ room) /\ n.kind = "update" /\ n.edits = m.edits \ room
    BY <1>1, <1>6, MadeOfEdits DEF SyncTypes
  <2>2. /\ room' = room \union m.edits
        /\ down' = [d \in Client |->
                      IF d # c /\ side[d] = "joined" /\ m.edits \ room # {} /\ ws[d] = "open"
                        THEN Append(down[d], n) ELSE down[d]]
    BY <1>3, <1>8, <2>1 DEF Y!Receive, Y!Relayed, Y!Pushed
  <2>3. ASSUME NEW d \in Client
        PROVE  /\ down[d] \in Seq(Y!Message)
               /\ Append(down[d], n) \in Seq(Y!Message)
               /\ Carried(Append(down[d], n)) = Carried(down[d]) \union {n}
    <3>1. down[d] \in Seq(Y!Message)
      BY <1>1 DEF SyncTypes
    <3> QED
      BY <2>1, <3>1, CarriedQueues
  <2>4. down' \in [Client -> Seq(Y!Message)]
    BY <2>2, <2>3
  <2>5. SyncTypes'
    BY <1>1, <1>3, <1>4, <1>6, <2>2, <2>4 DEF SyncTypes
  <2>6. ASSUME NEW d \in Client
        PROVE  Agreeing(ws[d], side[d], text[d], room \union m.edits, Carried(up'[d]), Carried(down'[d]))
    <3>1. Agreeing(ws[d], side[d], text[d], room, Carried(up[d]), Carried(down[d]))
      BY DEF SyncInv
    <3>2. CASE d = c
      <4>1. down'[c] = down[c]
        BY <2>2
      <4>2. Agreeing(ws[c], side[c], text[c], room \union m.edits, Carried(Tail(up[c])), Carried(down[c]))
        BY <1>1, <1>3, <1>4, <1>8 DEF Agreeing
      <4> QED
        BY <1>5, <3>2, <4>1, <4>2
    <3>3. CASE d # c
      <4>1. up'[d] = up[d]
        BY <1>5, <3>3
      <4>2. \/ Carried(down'[d]) = Carried(down[d]) \union {n}
            \/ /\ Carried(down'[d]) = Carried(down[d])
               /\ ws[d] # "open" \/ side[d] # "joined" \/ m.edits \ room = {}
        BY <2>2, <2>3, <3>3
      <4>3. text[d] \in SUBSET Edit /\ room \in SUBSET Edit
        BY <1>1 DEF SyncTypes
      <4>4. Agreeing(ws[d], side[d], text[d], room \union m.edits, Carried(up[d]), Carried(down'[d]))
        BY <1>6, <2>1, <3>1, <4>2, <4>3, RelayAgrees
      <4> QED
        BY <4>1, <4>4
    <3> QED
      BY <3>2, <3>3
  <2> QED
    BY <1>4, <2>2, <2>5, <2>6 DEF SyncInv
<1> QED
  BY <1>7, <1>8

LEMMA RestartAgrees == SyncInv /\ Y!Restart => SyncInv'
<1> SUFFICES ASSUME SyncInv, Y!Restart PROVE SyncInv'
  OBVIOUS
<1>1. SyncTypes
  BY DEF SyncInv
<1>2. Carried(<<>>) = {} /\ <<>> \in Seq(Y!Message)
  BY DEF Carried
<1>3. SyncTypes'
  BY <1>1, <1>2 DEF SyncTypes, Y!Restart, Y!Lost
<1>4. ASSUME NEW c \in Client
      PROVE  Agreeing(ws'[c], side'[c], text'[c], room', Carried(up'[c]), Carried(down'[c]))
  <2>1. ws'[c] # "open" /\ up'[c] = <<>> /\ down'[c] = <<>>
    BY <1>1 DEF SyncTypes, Y!Restart, Y!Lost
  <2> QED
    BY <1>2, <2>1 DEF Agreeing
<1> QED
  BY <1>3, <1>4 DEF SyncInv

LEMMA CopiesKeepAgreeing == SyncInv /\ [Y!Next]_Y!vars => SyncInv'
<1> SUFFICES ASSUME SyncInv, [Y!Next]_Y!vars PROVE SyncInv'
  OBVIOUS
<1>1. ASSUME NEW c \in Client, Y!Progress(c) PROVE SyncInv'
  BY <1>1, OpenAgrees, JoinAgrees, ReceiveAgrees, DeliverAgrees, ApartAgrees DEF Y!Progress
<1>2. ASSUME NEW c \in Client, Y!Destroy(c) \/ Y!Disconnect(c) PROVE SyncInv'
  BY <1>2, ApartAgrees
<1>3. ASSUME NEW c \in Client, NEW e \in Edit, Y!Type(c, e) PROVE SyncInv'
  BY <1>3, TypeAgrees
<1>4. ASSUME Y!Save \/ UNCHANGED Y!vars PROVE SyncInv'
  BY <1>4 DEF Y!Save, Y!vars, SyncInv, SyncTypes
<1> QED
  BY <1>1, <1>2, <1>3, <1>4, RestartAgrees DEF Y!Next

LEMMA CopiesAgreeing == Y!Spec => []SyncInv
BY CopiesStart, CopiesKeepAgreeing, PTL DEF Y!Spec

\* What a joined editor has that the room has not is on the wire, or is still to be
\* asked for: nothing typed is forgotten by both ends (NothingForgotten), for all
\* editors and edits, however often connections are lost and the server restarts.
THEOREM NothingTypedForgotten == Y!Spec => []Y!NothingForgotten
<1>1. ASSUME SyncInv PROVE Y!NothingForgotten
  <2> SUFFICES ASSUME NEW c \in Client, ws[c] = "open", side[c] = "joined",
                      NEW e \in text[c] \ room
               PROVE  \/ \E i \in 1..Len(up[c]) : e \in up[c][i].edits /\ up[c][i].kind # "step1"
                      \/ \E i \in 1..Len(down[c]) : down[c][i].kind = "step1" /\ e \notin down[c][i].edits
    BY DEF Y!NothingForgotten
  <2>1. \/ \E m \in Carried(up[c]) : m.kind # "step1" /\ e \in m.edits
        \/ \E m \in Carried(down[c]) : m.kind = "step1" /\ e \notin m.edits
    BY <1>1 DEF SyncInv, Agreeing
  <2> QED
    BY <2>1 DEF Carried
<1> QED
  BY <1>1, CopiesAgreeing, PTL

\* An editor that has joined, with nothing on the wire, shows what the room holds
\* (InSync): the handshake of both ends and the relay leave no update uncarried.
THEOREM SettledCopiesAgree == Y!Spec => []Y!InSync
<1>1. ASSUME SyncInv PROVE Y!InSync
  <2> SUFFICES ASSUME NEW c \in Client, ws[c] = "open", side[c] = "joined",
                      up[c] = <<>>, down[c] = <<>>
               PROVE  text[c] = room
    BY DEF Y!InSync
  <2>1. Carried(<<>>) = {}
    BY DEF Carried
  <2>2. text[c] \in SUBSET Edit /\ room \in SUBSET Edit
    BY <1>1 DEF SyncInv, SyncTypes
  <2>3. \A e \in room : e \in text[c]
    BY <1>1, <2>1 DEF SyncInv, Agreeing
  <2>4. \A e \in text[c] : e \in room
    BY <1>1, <2>1 DEF SyncInv, Agreeing
  <2> QED
    BY <2>3, <2>4
<1> QED
  BY <1>1, CopiesAgreeing, PTL
===============================================================================
