-------------------------------- MODULE DocRoom --------------------------------
(***************************************************************************)
(* The collaboration rooms of one document in DocCollabGateway             *)
(* (apps/server/src/docs): an in-memory Y.Doc that connections join, edit  *)
(* and leave, saved from time to time as a full snapshot in the document's *)
(* event stream.  The gateway runs on one event loop: an action is what    *)
(* runs between two awaits.                                                *)
(*                                                                         *)
(* A Y.Doc merges updates without conflict, so its content is the set of   *)
(* edits it has received.  The room map of the gateway has an entry per    *)
(* document; here there is one document, and a Room stands for an object   *)
(* created by getOrCreateRoom, in the map or not.                          *)
(***************************************************************************)
EXTENDS Integers, Sequences, FiniteSets

CONSTANTS
  Conn,         \* websocket connections
  Edit,         \* client-originated updates
  Room,         \* identities for room objects
  NoRoom,       \* rooms.get(docId) is undefined
  MaxUpdates,   \* docSnapshotMaxUpdates
  MaxFailures,  \* bound: appends and catch-ups that fail
  MaxJoins      \* bound: connections accepted

ASSUME DocRoomAssumption ==
  /\ NoRoom \notin Room
  /\ MaxUpdates \in Nat \ {0}
  /\ MaxFailures \in Nat /\ MaxJoins \in Nat

VARIABLES
  current,    \* rooms.get(docId)
  live,       \* rooms created and not torn down
  doc,        \* content of each room's Y.Doc
  dirty,      \* dirtyCount
  timer,      \* debounceTimer is armed
  snap,       \* the snapshot in flight: "none", "append" or "catchUp"
  payload,    \* content encoded for it
  flushing,   \* flushAndDiscardRoom awaits it
  conn,       \* each connection's progress
  joined,     \* the room a connection is in, or has left while CLOSING
  base,       \* the snapshot a connection has loaded
  log,        \* snapshots in the document's stream, oldest first
  projected,  \* how many of them document_snapshots holds
  received,   \* history: the edits the server has taken in
  phase,      \* "up", "stopping" or "stopped"
  awaited,    \* the room whose snapshot onModuleDestroy still awaits
  failures, joins,
  disturbed   \* history: what has overlapped or failed (see Overlap)

roomVars == <<current, live, doc, dirty, timer, snap, payload, flushing>>
connVars == <<conn, joined, base, joins>>
storeVars == <<log, projected, failures>>
vars == <<roomVars, connVars, storeVars, received, phase, awaited, disturbed>>

Running == phase # "stopped"

\* What a behaviour has been through that a promise of the gateway may depend
\* on: an edit ("edit"), a departure ("close") or the shutdown ("shutdown") that
\* met a snapshot in flight, a departure while somebody was loading ("load"), a
\* second teardown of a room that met another room ("again"), an edit taken in
\* while stopping ("late"), and a snapshot that failed ("append", "catchUp").
Overlap(kind, happens) == disturbed' = disturbed \union {k \in {kind} : happens}

Undisturbed(kinds) == disturbed \intersect kinds = {}

Members(r) == {c \in Conn : conn[c] = "open" /\ joined[c] = r}

\* Connections that have left r, and whose 'close' event will leave it again.
Leavers(r) == {c \in Conn : conn[c] = "closing" /\ joined[c] = r}

\* Faulty variant of Latest: rooms start empty.
NothingLoaded == {}

\* The content a new room would be loaded with, and what the stream holds.
Latest == IF projected = 0 THEN {} ELSE log[projected]
Saved  == IF log = <<>> THEN {} ELSE log[Len(log)]

Init ==
  /\ current = NoRoom
  /\ live = {}
  /\ doc = [r \in Room |-> {}]
  /\ dirty = [r \in Room |-> 0]
  /\ timer = [r \in Room |-> FALSE]
  /\ snap = [r \in Room |-> "none"]
  /\ payload = [r \in Room |-> {}]
  /\ flushing = [r \in Room |-> FALSE]
  /\ conn = [c \in Conn |-> "closed"]
  /\ joined = [c \in Conn |-> NoRoom]
  /\ base = [c \in Conn |-> {}]
  /\ log = <<>>
  /\ projected = 0
  /\ received = {}
  /\ phase = "up"
  /\ awaited = NoRoom
  /\ failures = 0
  /\ joins = 0
  /\ disturbed = {}

-------------------------------------------------------------------------------
\* snapshotRoom up to its first await: nothing when the room is clean or a
\* snapshot is in flight, else the content is encoded and the timer cleared.
CanSnapshot(r, count) == count > 0 /\ snap[r] = "none"

StartSnapshot(r, content, forFlush) ==
  /\ snap' = [snap EXCEPT ![r] = "append"]
  /\ payload' = [payload EXCEPT ![r] = content]
  /\ flushing' = [flushing EXCEPT ![r] = forFlush]

NoSnapshot == UNCHANGED <<snap, payload, flushing>>

\* Nobody has the room object any more, unless a 'close' is still to come.
Forget(r) ==
  IF Leavers(r)' = {} THEN /\ doc' = [doc EXCEPT ![r] = {}]
                          /\ dirty' = [dirty EXCEPT ![r] = 0]
                      ELSE UNCHANGED <<doc, dirty>>

\* Faulty variant of Discard: the entry stays in the room map.
DiscardKeepingEntry(r) ==
  /\ live' = live \ {r}
  /\ timer' = [timer EXCEPT ![r] = FALSE]
  /\ Forget(r)
  /\ UNCHANGED current

\* The end of flushAndDiscardRoom.  rooms.delete(docId) removes whatever
\* room the map has by now.
Discard(r) ==
  /\ live' = live \ {r}
  /\ current' = NoRoom
  /\ timer' = [timer EXCEPT ![r] = FALSE]
  /\ Forget(r)

\* Faulty variant of FinishSnapshot: nobody checks who has joined meanwhile.
FinishAndDiscard(r, count) ==
  /\ snap' = [snap EXCEPT ![r] = "none"]
  /\ payload' = [payload EXCEPT ![r] = {}]
  /\ flushing' = [flushing EXCEPT ![r] = FALSE]
  /\ awaited' = IF awaited = r THEN NoRoom ELSE awaited
  /\ IF flushing[r]
       THEN Discard(r)
       ELSE /\ dirty' = [dirty EXCEPT ![r] = count]
            /\ UNCHANGED <<current, live, doc, timer>>

\* snapshotRoom is over; if a flush awaited it, the room is torn down unless
\* somebody has joined meanwhile.
FinishSnapshot(r, count) ==
  /\ snap' = [snap EXCEPT ![r] = "none"]
  /\ payload' = [payload EXCEPT ![r] = {}]
  /\ flushing' = [flushing EXCEPT ![r] = FALSE]
  /\ awaited' = IF awaited = r THEN NoRoom ELSE awaited
  /\ IF flushing[r] /\ Members(r) = {}
       THEN Discard(r)
       ELSE /\ dirty' = [dirty EXCEPT ![r] = count]
            /\ UNCHANGED <<current, live, doc, timer>>

\* appendWithRetry succeeds: the event is in the stream, and the room counts
\* as clean from here on.
AppendSnapshot(r) ==
  /\ Running
  /\ snap[r] = "append"
  /\ log' = Append(log, payload[r])
  /\ dirty' = [dirty EXCEPT ![r] = 0]
  /\ snap' = [snap EXCEPT ![r] = "catchUp"]
  /\ UNCHANGED <<current, live, doc, timer, payload, flushing, connVars,
                 projected, failures, received, phase, awaited, disturbed>>

CatchUpSnapshots(r) ==
  /\ Running
  /\ snap[r] = "catchUp"
  /\ projected' = Len(log)
  /\ UNCHANGED <<connVars, log, failures, received, phase, disturbed>>
  /\ FinishSnapshot(r, dirty[r])

\* The payload is refused, the five attempts all meet a version conflict, the
\* store fails, or the catch-up throws: logged and swallowed.
SnapshotFails(r) ==
  /\ Running
  /\ snap[r] # "none"
  /\ failures < MaxFailures
  /\ failures' = failures + 1
  /\ Overlap(snap[r], TRUE)
  /\ UNCHANGED <<connVars, log, projected, received, phase>>
  /\ FinishSnapshot(r, dirty[r])

\* The debounce timer fires.
TimerFires(r) ==
  /\ Running
  /\ timer[r]
  /\ timer' = [timer EXCEPT ![r] = FALSE]
  /\ IF CanSnapshot(r, dirty[r]) THEN StartSnapshot(r, doc[r], FALSE)
                                 ELSE NoSnapshot
  /\ UNCHANGED <<current, live, doc, dirty, connVars, storeVars, received,
                 phase, awaited, disturbed>>

-------------------------------------------------------------------------------
Place(c, r) ==
  /\ conn' = [conn EXCEPT ![c] = "open"]
  /\ joined' = [joined EXCEPT ![c] = r]
  /\ base' = [base EXCEPT ![c] = {}]

\* An accepted upgrade: the existing room, or a read of the latest snapshot.
\* Upgrades are accepted until the flushes of a shutdown are over, also when
\* this document's is.
Connect(c) ==
  /\ Running
  /\ conn[c] = "closed"
  /\ joins < MaxJoins
  /\ joins' = joins + 1
  /\ IF current # NoRoom
       THEN Place(c, current)
       ELSE conn' = [conn EXCEPT ![c] = "loading"] /\ UNCHANGED <<joined, base>>
  /\ UNCHANGED <<roomVars, storeVars, received, phase, awaited, disturbed>>

\* The database answers getLatestSnapshot.
Load(c) ==
  /\ Running
  /\ conn[c] = "loading"
  /\ conn' = [conn EXCEPT ![c] = "loaded"]
  /\ base' = [base EXCEPT ![c] = Latest]
  /\ UNCHANGED <<roomVars, joined, joins, storeVars, received, phase, awaited,
                 disturbed>>

\* Back in getOrCreateRoom: somebody else's room if there is one by now.
JoinRaced(c) ==
  /\ Running
  /\ conn[c] = "loaded"
  /\ current # NoRoom
  /\ Place(c, current)
  /\ UNCHANGED <<roomVars, joins, storeVars, received, phase, awaited, disturbed>>

\* Objects that nothing refers to; which of them a new room is, does not matter.
Fresh == {r \in Room : r \notin live /\ snap[r] = "none" /\ Leavers(r) = {}}
NewRoom == CHOOSE r \in Fresh : TRUE

CreateRoom(c) ==
  /\ Running
  /\ conn[c] = "loaded"
  /\ current = NoRoom
  /\ Fresh # {}
  /\ current' = NewRoom
  /\ live' = live \union {NewRoom}
  /\ doc' = [doc EXCEPT ![NewRoom] = base[c]]
  /\ Place(c, NewRoom)
  /\ UNCHANGED <<dirty, timer, snap, payload, flushing, joins, storeVars,
                 received, phase, awaited, disturbed>>

\* Faulty variant of MarkDirty: no timer is armed.
MarkUnscheduled(r, content) ==
  LET full == dirty[r] + 1 >= MaxUpdates IN
  /\ dirty' = [dirty EXCEPT ![r] = @ + 1]
  /\ IF full /\ CanSnapshot(r, dirty[r] + 1) THEN StartSnapshot(r, content, FALSE)
                                             ELSE NoSnapshot
  /\ UNCHANGED timer

\* markRoomDirty: one update more; a full count snapshots at once, any other
\* arms the debounce timer anew.
MarkDirty(r, content) ==
  LET full == dirty[r] + 1 >= MaxUpdates IN
  /\ dirty' = [dirty EXCEPT ![r] = @ + 1]
  /\ timer' = [timer EXCEPT ![r] = ~full]
  /\ IF full /\ CanSnapshot(r, dirty[r] + 1) THEN StartSnapshot(r, content, FALSE)
                                             ELSE NoSnapshot

\* A client-originated update reaches the room.  The sockets are open until the
\* flushes of a shutdown are over.
Receive(c, e) ==
  LET r == joined[c] IN
  /\ Running
  /\ conn[c] = "open"
  /\ e \notin received
  /\ disturbed' = disturbed \union {k \in {"edit"} : snap[r] # "none"}
                              \union {k \in {"late"} : phase # "up"}
  /\ doc' = [doc EXCEPT ![r] = @ \union {e}]
  /\ received' = received \union {e}
  /\ MarkDirty(r, doc[r] \union {e})
  /\ UNCHANGED <<current, live, connVars, storeVars, phase, awaited>>

\* Faulty variant of Flush: the room is not saved.
FlushNothing(r) == Discard(r) /\ NoSnapshot

\* flushAndDiscardRoom up to its await.  snapshotRoom may return at once, and
\* then the room is torn down at once.
Flush(r) ==
  \/ /\ CanSnapshot(r, dirty[r])
     /\ StartSnapshot(r, doc[r], TRUE)
     /\ timer' = [timer EXCEPT ![r] = FALSE]
     /\ UNCHANGED <<current, live, doc, dirty>>
  \/ /\ ~CanSnapshot(r, dirty[r])
     /\ Discard(r)
     /\ NoSnapshot

\* A room that is torn down again, with nothing to save and no other room in
\* the map, stays as it is.
MeetsAnother(r) ==
  r \notin live /\ (dirty[r] > 0 \/ current # NoRoom)

\* onClose: the last to leave flushes the room.
Leave(c, r) ==
  /\ disturbed' = disturbed
       \union {k \in {"close"} : snap[r] # "none"}
       \union {k \in {"load"} : \E d \in Conn \ {c} : conn[d] \in {"loading", "loaded"}}
       \union {k \in {"again"} : Members(r) = {} /\ MeetsAnother(r)}
  /\ IF Members(r) \subseteq {c} THEN Flush(r) ELSE UNCHANGED roomVars

\* The socket has begun to close while its room was loading: it is added to the
\* room and onClose runs at once.  A room created for it is torn down with that.
\* (A socket that is closed by then joins and leaves once: a Close of its own.)
JoinClosing(c) ==
  /\ Running
  /\ conn[c] = "loaded"
  /\ conn' = [conn EXCEPT ![c] = "closing"]
  /\ base' = [base EXCEPT ![c] = {}]
  /\ \/ /\ current # NoRoom
        /\ joined' = [joined EXCEPT ![c] = current]
        /\ Leave(c, current)
     \/ /\ current = NoRoom
        /\ Fresh # {}
        /\ joined' = [joined EXCEPT ![c] = NewRoom]
        /\ UNCHANGED <<roomVars, disturbed>>
  /\ UNCHANGED <<joins, storeVars, received, phase, awaited>>

\* The 'close' event: onClose, for a CLOSING connection the second time.
Close(c) ==
  /\ Running
  /\ conn[c] \in {"open", "closing"}
  /\ conn' = [conn EXCEPT ![c] = "closed"]
  /\ joined' = [joined EXCEPT ![c] = NoRoom]
  /\ Leave(c, joined[c])
  /\ UNCHANGED <<base, joins, storeVars, received, phase, awaited>>

-------------------------------------------------------------------------------
\* Faulty variant of Shutdown: the rooms are not flushed.
ShutdownUnflushed ==
  /\ phase = "up"
  /\ Overlap("shutdown", \E r \in Room : snap[r] # "none")
  /\ phase' = "stopping"
  /\ UNCHANGED <<roomVars, connVars, storeVars, received, awaited>>

\* onModuleDestroy up to its await: every room in the map is flushed unless a
\* snapshot of it is already in flight.
Shutdown ==
  /\ phase = "up"
  /\ Overlap("shutdown", \E r \in Room : snap[r] # "none")
  /\ phase' = "stopping"
  /\ IF current # NoRoom
       THEN /\ timer' = [timer EXCEPT ![current] = FALSE]
            /\ IF CanSnapshot(current, dirty[current])
                 THEN /\ StartSnapshot(current, doc[current], FALSE)
                      /\ awaited' = current
                 ELSE NoSnapshot /\ UNCHANGED awaited
       ELSE UNCHANGED <<timer, awaited>> /\ NoSnapshot
  /\ UNCHANGED <<current, live, doc, dirty, connVars, storeVars, received>>

\* The flushes it started, of this document and of others, are over: the sockets
\* are terminated, and the process ends with whatever else was still going on.
Stop ==
  /\ phase = "stopping"
  /\ awaited = NoRoom
  /\ phase' = "stopped"
  /\ UNCHANGED <<roomVars, connVars, storeVars, received, awaited, disturbed>>

RoomStep(r) ==
  \/ AppendSnapshot(r)
  \/ CatchUpSnapshots(r)
  \/ TimerFires(r)

ConnStep(c) ==
  \/ Load(c)
  \/ JoinRaced(c)
  \/ CreateRoom(c)
  \/ JoinClosing(c)

Next ==
  \/ \E r \in Room : RoomStep(r) \/ SnapshotFails(r)
  \/ \E c \in Conn : Connect(c) \/ ConnStep(c) \/ Close(c)
  \/ \E c \in Conn, e \in Edit : Receive(c, e)
  \/ Shutdown
  \/ Stop

Spec == Init /\ [][Next]_vars

\* Awaited database calls are answered and timers fire; clients owe nothing.
FairSpec ==
  /\ Spec
  /\ \A r \in Room : WF_vars(RoomStep(r))
  /\ \A c \in Conn : WF_vars(ConnStep(c))

-------------------------------------------------------------------------------
TypeOK ==
  /\ current \in live \union {NoRoom}
  /\ live \subseteq Room
  /\ doc \in [Room -> SUBSET Edit]
  /\ dirty \in [Room -> Nat]
  /\ timer \in [Room -> BOOLEAN]
  /\ snap \in [Room -> {"none", "append", "catchUp"}]
  /\ payload \in [Room -> SUBSET Edit]
  /\ flushing \in [Room -> BOOLEAN]
  /\ conn \in [Conn -> {"closed", "loading", "loaded", "open", "closing"}]
  /\ joined \in [Conn -> Room \union {NoRoom}]
  /\ base \in [Conn -> SUBSET Edit]
  /\ log \in Seq(SUBSET Edit)
  /\ projected \in 0..Len(log)
  /\ received \subseteq Edit
  /\ phase \in {"up", "stopping", "stopped"}
  /\ awaited \in Room \union {NoRoom}
  /\ failures \in 0..MaxFailures
  /\ joins \in 0..MaxJoins
  /\ disturbed \subseteq {"edit", "close", "load", "again", "late", "shutdown",
                          "append", "catchUp"}

\* The room's Y.Doc is the single authoritative copy of the document.  No
\* connection is ever left in a room that has been torn down, however joins,
\* leaves and flushes overlap; and all open connections are in one room, unless
\* somebody came and left while the room was being flushed, or a connection that
\* was CLOSING when its room was ready left it twice: the room is then torn down
\* twice, the second time for whatever room the map has by then.
SingleAuthority ==
  \A c \in Conn : conn[c] = "open" =>
    /\ joined[c] \in live
    /\ Undisturbed({"close", "again"}) =>
         \A d \in Conn : conn[d] = "open" => joined[d] = joined[c]

LosesEdits == {"edit", "close", "load", "again", "append", "catchUp"}

\* An edit the server has received is in the stream's last snapshot or in a
\* room or a write that is still in memory.  A shutdown alone does not lose it.
EditsSurvive ==
  Undisturbed(LosesEdits) /\ Running =>
    received \subseteq Saved \union UNION {doc[r] \union payload[r] : r \in Room}

\* A planned restart is lossless, unless something failed or overlapped, or an
\* edit was taken in while the gateway was stopping: nothing saves a room again
\* between the flush of the shutdown and the end of the process.
LosslessRestart ==
  ~Running /\ disturbed = {} => received \subseteq Saved

\* The same whatever a shutdown overlaps.
EveryRestartLossless ==
  ~Running /\ disturbed \subseteq {"shutdown"} => received \subseteq Saved

\* Snapshots only ever grow: a later one never takes an edit back, unless a
\* room was loaded from a snapshot that was not the last, or two rooms save.
SnapshotsGrow ==
  [][Undisturbed({"close", "load", "again", "catchUp"})' => Saved \subseteq Saved']_vars

\* Every edit received is saved in the end, without any client's help, unless
\* something happens that loses edits.
EventuallySaved ==
  \A e \in Edit :
    e \in received ~> (e \in Saved \/ ~Running \/ ~Undisturbed(LosesEdits))
===============================================================================
