---------------------------- MODULE RecordCommands ----------------------------
(***************************************************************************)
(* The small event-sourced services of the server.  They append and catch  *)
(* up in the same way, and differ in what they ask before; the definitions *)
(* below, one for each service, say what.  A behaviour is about records of *)
(* one kind.  A record's id is the index of its creation in the log; where *)
(* a key determines the stream there is one record, 0.                     *)
(***************************************************************************)
EXTENDS Integers, FiniteSets, Sequences

CONSTANTS
  Caller,     \* concurrent requests
  MaxEvents   \* bound: events in the log

VARIABLES
  kind,      \* what the service of the records asks
  log,       \* the events, in the order they are read
  shown,     \* how many of them the read model has applied
  request,   \* locals of each request
  seen,      \* history: events the read model had applied when an event's request looked
  answered   \* history: events whose request was answered with success

vars == <<kind, log, shown, request, seen, answered>>

Idle == [at |-> "idle"]

\* find: the records whose row is looked for before a change; replay: whether the
\* command checks the replayed stream; unique: whether a creation looks for a
\* current one of the same name; keyed: whether a key determines the stream.
Asks(find, replay, unique, keyed, changes) ==
  [find |-> find, replay |-> replay, unique |-> unique, keyed |-> keyed, changes |-> changes]

Changes == {"Updated", "Closed"}

\* The row, deleted or not, then the stream, replayed for the command to check.
AutomationTriggers == Asks("any", TRUE, FALSE, FALSE, Changes)
SavedViews == Asks("any", TRUE, FALSE, FALSE, Changes)

\* A row that is not deleted, and nothing of the stream but its length.
MemoryRecords == Asks("current", FALSE, FALSE, FALSE, Changes)

\* An active agent of the same name, before one is registered; any row, before
\* one is deactivated.
AgentDirectory == Asks("any", FALSE, TRUE, FALSE, {"Closed"})

\* Nothing.
AgentPermissionManifests == Asks("key", FALSE, FALSE, TRUE, Changes)
MemoryAccessPolicies == Asks("key", FALSE, FALSE, TRUE, Changes)
AutonomyTierSettings == Asks("key", FALSE, FALSE, TRUE, {"Updated"})
NotificationPreferences == Asks("key", FALSE, FALSE, TRUE, {"Updated"})
UserAvailability == Asks("key", FALSE, FALSE, TRUE, {"Updated"})
ObjectComments == Asks("any", FALSE, FALSE, FALSE, {})

Services ==
  {AutomationTriggers, SavedViews, MemoryRecords, AgentDirectory, AgentPermissionManifests,
   MemoryAccessPolicies, AutonomyTierSettings, NotificationPreferences, UserAvailability,
   ObjectComments}

Init ==
  /\ kind \in Services
  /\ log = << >>
  /\ shown = 0
  /\ request = [c \in Caller |-> Idle]
  /\ seen = << >>
  /\ answered = {}

-------------------------------------------------------------------------------
Stream(r) == {i \in DOMAIN log : log[i].record = r}
Is(i, type) == log[i].type = type
Closed(r, n) == \E i \in Stream(r) : i <= n /\ Is(i, "Closed")

\* Faulty variant of Alive: an update makes a row current again.
AliveIfUpdated(r, n) ==
  LET past == {i \in Stream(r) : i <= n} IN
  past # {} /\ ~Is(CHOOSE i \in past : \A j \in past : j <= i, "Closed")

\* The row of r after n events: a grant stands until it is revoked, everything
\* else is deleted, or deactivated, for good.
Alive(r, n) ==
  LET past == {i \in Stream(r) : i <= n} IN
  /\ past # {}
  /\ IF kind.keyed THEN ~Is(CHOOSE i \in past : \A j \in past : j <= i, "Closed")
                 ELSE ~Closed(r, n)

\* The records with a row.
Rows == {r \in 1..shown : Is(r, "Created")}

Go(c, q) == request' = [request EXCEPT ![c] = q]

\* Bound: no more events than MaxEvents, those to be appended among them.
MayBegin == Len(log) + Cardinality({c \in Caller : request[c].at \in {"read", "append"}}) < MaxEvents

-------------------------------------------------------------------------------
MayCreate ==
  /\ ~kind.keyed
  /\ kind.unique => \A r \in Rows : ~Alive(r, shown)

\* create and register: a stream of its own.
BeginCreate(c) ==
  /\ request[c].at = "idle"
  /\ MayBegin
  /\ MayCreate
  /\ Go(c, [at |-> "append", type |-> "Created", record |-> Len(log) + 1, version |-> 0,
            seen |-> shown])
  /\ UNCHANGED <<kind, log, shown, seen, answered>>

Findable ==
  CASE kind.find = "key" -> {0}
    [] kind.find = "current" -> {r \in Rows : Alive(r, shown)}
    [] kind.find = "any" -> Rows

\* findOwnedRow, lookupStreamId or streamIdFor, for an edit, a deletion, a
\* deactivation, a grant, a revocation, a setting.
FindRow(c) ==
  /\ request[c].at = "idle"
  /\ MayBegin
  /\ \E r \in Findable, type \in kind.changes :
       Go(c, [at |-> "read", type |-> type, record |-> r, seen |-> shown])
  /\ UNCHANGED <<kind, log, shown, seen, answered>>

CommandPasses(r) == kind.replay => ~Closed(r, Len(log))

\* readStream, and perhaps the command on the replayed state.
ReadStream(c) ==
  LET q == request[c] IN
  /\ q.at = "read"
  /\ Go(c, IF CommandPasses(q.record)
             THEN [at |-> "append", type |-> q.type, record |-> q.record,
                   version |-> Cardinality(Stream(q.record)), seen |-> q.seen]
             ELSE Idle)
  /\ UNCHANGED <<kind, log, shown, seen, answered>>

VersionMatches(q) == q.type = "Created" \/ q.version = Cardinality(Stream(q.record))

AppendEvent(c) ==
  LET q == request[c]
      r == IF q.type = "Created" THEN Len(log) + 1 ELSE q.record
  IN  /\ q.at = "append"
      /\ IF VersionMatches(q)
           THEN /\ log' = Append(log, [type |-> q.type, record |-> r])
                /\ seen' = Append(seen, q.seen)
                /\ Go(c, [at |-> "catch up", event |-> Len(log) + 1])
           ELSE Go(c, Idle) /\ UNCHANGED <<log, seen>>
      /\ UNCHANGED <<kind, shown, answered>>

CatchUp(c) ==
  /\ request[c].at = "catch up"
  /\ shown' = Len(log)
  /\ answered' = answered \union {request[c].event}
  /\ Go(c, Idle)
  /\ UNCHANGED <<kind, log, seen>>

\* The call at hand is rejected, or the process dies.  Before the append this
\* is as if the request had not begun.
Abandon(c) ==
  /\ request[c].at = "catch up"
  /\ Go(c, Idle)
  /\ UNCHANGED <<kind, log, shown, seen, answered>>

Next ==
  \E c \in Caller :
    \/ BeginCreate(c) \/ FindRow(c) \/ ReadStream(c) \/ AppendEvent(c)
    \/ CatchUp(c) \/ Abandon(c)

Spec == Init /\ [][Next]_vars

-------------------------------------------------------------------------------
TypeOK ==
  /\ log \in Seq([type : {"Created", "Updated", "Closed"}, record : Nat])
  /\ Len(seen) = Len(log)
  /\ shown \in 0..Len(log)
  /\ answered \subseteq DOMAIN log
  /\ \A c \in Caller : request[c].at \in {"idle", "read", "append", "catch up"}

\* Nothing follows the deletion of a trigger or a saved view, whatever its row
\* still said; a memory record is edited after its deletion only by a request that looked
\* before the deletion was shown.
NothingAfterClosed ==
  \A i, j \in DOMAIN log :
    Is(i, "Closed") /\ i < j /\ log[i].record = log[j].record =>
      /\ ~kind.replay
      /\ kind.find = "current" => seen[j] < i

\* Once a deletion, deactivation or revocation was answered, no row says
\* otherwise, whatever requests were under way; a grant must come after it.
ClosedIsClosed ==
  \A i \in answered :
    Is(i, "Closed") /\ Alive(log[i].record, shown) =>
      kind.keyed /\ \E j \in Stream(0) : j > i /\ Is(j, "Updated")

\* Of two active agents of one name the later one's check missed the earlier.
NamesSharedByRaceOnly ==
  kind.unique =>
    \A r, s \in Rows : r < s /\ Alive(r, shown) /\ Alive(s, shown) => seen[s] < r
===============================================================================
