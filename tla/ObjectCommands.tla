---------------------------- MODULE ObjectCommands ----------------------------
(***************************************************************************)
(* The commands on one object: applyCommand of objects/objects.service.ts  *)
(* with the commands and the replay of packages/core-objects, the row that *)
(* objects/objects-view.projection.ts keeps, and the event that calendar/  *)
(* timeblock-push.service.ts keeps in the calendar of the object's         *)
(* creator.  A title, a rule or a time block is the version that set it,   *)
(* which is the index of the event in the stream.                          *)
(***************************************************************************)
EXTENDS FiniteSetsExt, SequencesExt

CONSTANTS
  Caller,      \* concurrent requests
  MaxEvents,   \* bound: events after the creation
  MaxMishaps   \* bound: calls that fail, processes that die

VARIABLES
  log,        \* the object's stream, after its creation
  shown,      \* how many of its events the read model has applied
  request,    \* locals of each request
  calendar,   \* external: the events of the connected calendar
  mapping,    \* timeblock_external_pushes: the event of this object, or 0
  mishaps,    \* what is bounded
  overlaps    \* history: pushes begun while another change of the time block was under way

streams == <<log, shown>>
outside == <<calendar, mapping>>
vars == <<streams, request, outside, mishaps, overlaps>>

Idle == [at |-> "idle"]

NewObject == [lifecycle |-> "active", title |-> 0, checklist |-> << >>, rule |-> 0, block |-> 0,
              refused |-> FALSE]

Init ==
  /\ log = << >>
  /\ shown = 0
  /\ request = [c \in Caller |-> Idle]
  /\ calendar = {} /\ mapping = 0
  /\ mishaps = 0 /\ overlaps = 0

-------------------------------------------------------------------------------
ItemIds(s) == {s.checklist[i].id : i \in DOMAIN s.checklist}
ItemOf(s, id) == CHOOSE item \in ToSet(s.checklist) : item.id = id
EachItem(s, F(_)) == [s EXCEPT !.checklist = [i \in DOMAIN @ |-> F(@[i])]]
Without(items, id) ==
  FoldLeft(LAMBDA left, i : IF i.id = id THEN left ELSE Append(left, i), << >>, items)

\* ChecklistItemReordered; an id that is not there is an error.
Reordered(s, ids) ==
  IF ToSet(ids) \subseteq ItemIds(s)
    THEN [s EXCEPT !.checklist = [i \in DOMAIN ids |-> ItemOf(s, ids[i])]]
    ELSE [s EXCEPT !.refused = TRUE]

\* applyEvent of replay.ts, for the event of version v.
ReplayEvent(s, v) ==
  LET e == log[v] IN
  CASE e.type = "ObjectRenamed" -> [s EXCEPT !.title = v]
    [] e.type = "ObjectArchived" -> [s EXCEPT !.lifecycle = "archived"]
    [] e.type = "ObjectRestored" -> [s EXCEPT !.lifecycle = "active"]
    [] e.type = "ObjectSoftDeleted" -> [s EXCEPT !.lifecycle = "deleted"]
    [] e.type = "ChecklistItemAdded" ->
         [s EXCEPT !.checklist = Append(@, [id |-> v, done |-> FALSE])]
    [] e.type = "ChecklistItemToggled" ->
         EachItem(s, LAMBDA i : IF i.id = e.item THEN [i EXCEPT !.done = e.done] ELSE i)
    [] e.type = "ChecklistItemRemoved" ->
         [s EXCEPT !.checklist = Without(@, e.item)]
    [] e.type = "ChecklistItemReordered" -> Reordered(s, e.ids)
    [] e.type = "RecurrenceRuleSet" -> [s EXCEPT !.rule = v]
    [] e.type = "RecurrenceRuleCleared" -> [s EXCEPT !.rule = 0]
    [] e.type = "TimeBlockScheduled" -> [s EXCEPT !.block = v]
    [] e.type = "TimeBlockCleared" -> [s EXCEPT !.block = 0]
    [] OTHER -> s

\* apply of the projection, which adds no item twice.
ProjectEvent(s, v) ==
  IF log[v].type = "ChecklistItemAdded" /\ v \in ItemIds(s) THEN s ELSE ReplayEvent(s, v)

Replay(n) == FoldLeft(ReplayEvent, NewObject, [v \in 1..n |-> v])
Row(n) == FoldLeft(ProjectEvent, NewObject, [v \in 1..n |-> v])

Go(c, q) == request' = [request EXCEPT ![c] = q]
GoesWrong == mishaps < MaxMishaps /\ mishaps' = mishaps + 1

\* Bound: no more events than MaxEvents, those to be appended among them.
MayBegin == Len(log) + Cardinality({c \in Caller : request[c].at = "append"}) < MaxEvents

-------------------------------------------------------------------------------
\* canTransition.
Transitions(s) ==
  [type : (IF s.lifecycle = "active" THEN {"ObjectArchived"} ELSE {})
            \union (IF s.lifecycle = "deleted" THEN {} ELSE {"ObjectSoftDeleted"})
            \union (IF s.lifecycle = "active" THEN {} ELSE {"ObjectRestored"})]

\* addChecklistItem, with a new id, toggle, remove and reorder.
ChecklistCommands(s) ==
  IF s.lifecycle = "deleted" THEN {} ELSE
  {[type |-> "ChecklistItemAdded"]}
    \union {[type |-> "ChecklistItemToggled", item |-> i.id, done |-> ~i.done] : i \in ToSet(s.checklist)}
    \union [type : {"ChecklistItemRemoved"}, item : ItemIds(s)]
    \union [type : {"ChecklistItemReordered"}, ids : SetToSeqs(ItemIds(s))]

\* The commands that set a value, and those that clear one that is set.
ValueCommands(s) ==
  IF s.lifecycle = "deleted" THEN {} ELSE
  [type : {"ObjectRenamed", "RecurrenceRuleSet", "TimeBlockScheduled"}
            \union (IF s.rule = 0 THEN {} ELSE {"RecurrenceRuleCleared"})
            \union (IF s.block = 0 THEN {} ELSE {"TimeBlockCleared"})]

\* setFieldValues asks for no lifecycle.
Drafts(s) ==
  Transitions(s) \union ChecklistCommands(s) \union ValueCommands(s)
    \union {[type |-> "FieldValueChanged"]}

\* The stream is read and replayed, and the command passes.
Command(c) ==
  /\ request[c].at = "idle"
  /\ MayBegin
  /\ \E d \in Drafts(Replay(Len(log))) :
       Go(c, [at |-> "append", draft |-> d, version |-> Len(log) + 1])
  /\ UNCHANGED <<streams, outside, mishaps, overlaps>>

VersionMatches(q) == q.version = Len(log) + 1

AppendDraft(c) ==
  LET q == request[c] IN
  /\ q.at = "append"
  /\ IF VersionMatches(q)
       THEN log' = Append(log, q.draft) /\ Go(c, [q EXCEPT !.at = "catch up"])
       ELSE Go(c, Idle) /\ UNCHANGED log
  /\ UNCHANGED <<shown, outside, mishaps, overlaps>>

OfBlock(d) == d.type \in {"TimeBlockScheduled", "TimeBlockCleared"}

\* A projection that refuses an event fails the request.
CatchUp(c) ==
  LET q == request[c] IN
  /\ q.at = "catch up"
  /\ IF Row(Len(log)).refused
       THEN Go(c, Idle) /\ UNCHANGED shown
       ELSE shown' = Len(log) /\ Go(c, IF OfBlock(q.draft) THEN [q EXCEPT !.at = "look"] ELSE Idle)
  /\ UNCHANGED <<log, outside, mishaps, overlaps>>

UnderWay(c) == request[c].at \notin {"idle", "append"} /\ OfBlock(request[c].draft)

\* pushScheduled and pushCleared look for the mapping.
FindMapping(c) ==
  LET q == request[c]
      With(at) == [at |-> at, draft |-> q.draft, version |-> q.version, event |-> mapping]
  IN
  /\ q.at = "look"
  /\ Go(c, CASE q.draft.type = "TimeBlockScheduled" /\ mapping = 0 -> With("create")
             [] q.draft.type = "TimeBlockScheduled" /\ mapping # 0 -> With("update")
             [] q.draft.type = "TimeBlockCleared" /\ mapping # 0 -> With("delete")
             [] OTHER -> Idle)
  /\ overlaps' = overlaps + Cardinality({b \in Caller \ {c} : UnderWay(b)})
  /\ UNCHANGED <<streams, outside, mishaps>>

CreateEvent(c) ==
  LET v == request[c].version IN
  /\ request[c].at = "create"
  /\ calendar' = calendar \union {[id |-> v, block |-> v]}
  /\ Go(c, [request[c] EXCEPT !.at = "insert"])
  /\ UNCHANGED <<streams, mapping, mishaps, overlaps>>

\* The unique index refuses a second mapping, which is logged.
InsertMapping(c) ==
  /\ request[c].at = "insert"
  /\ mapping' = IF mapping = 0 THEN request[c].version ELSE mapping
  /\ Go(c, Idle)
  /\ UNCHANGED <<streams, calendar, mishaps, overlaps>>

UpdateEvent(c) ==
  LET q == request[c] IN
  /\ q.at = "update"
  /\ calendar' = {IF x.id = q.event THEN [x EXCEPT !.block = q.version] ELSE x : x \in calendar}
  /\ Go(c, Idle)
  /\ UNCHANGED <<streams, mapping, mishaps, overlaps>>

DeleteEvent(c) ==
  /\ request[c].at = "delete"
  /\ calendar' = {x \in calendar : x.id # request[c].event}
  /\ Go(c, [request[c] EXCEPT !.at = "drop"])
  /\ UNCHANGED <<streams, mapping, mishaps, overlaps>>

DropMapping(c) ==
  /\ request[c].at = "drop"
  /\ mapping' = IF mapping = request[c].event THEN 0 ELSE mapping
  /\ Go(c, Idle)
  /\ UNCHANGED <<streams, calendar, mishaps, overlaps>>

\* The call at hand fails or the process dies after the append.
Fail(c) ==
  /\ request[c].at \notin {"idle", "append"}
  /\ GoesWrong
  /\ Go(c, Idle)
  /\ UNCHANGED <<streams, outside, overlaps>>

Next ==
  \E c \in Caller :
    \/ Command(c) \/ AppendDraft(c) \/ CatchUp(c) \/ FindMapping(c) \/ CreateEvent(c)
    \/ InsertMapping(c) \/ UpdateEvent(c) \/ DeleteEvent(c) \/ DropMapping(c) \/ Fail(c)

Spec == Init /\ [][Next]_vars

-------------------------------------------------------------------------------
TypeOK ==
  /\ \A c \in Caller : request[c] # Idle => request[c].version \in 1..Len(log) + 1
  /\ shown \in 0..Len(log)
  /\ calendar \subseteq [id : 1..MaxEvents, block : 1..MaxEvents]
  /\ mapping \in 0..MaxEvents
  /\ mishaps \in 0..MaxMishaps

\* The row is the replay of the stream as far as it was applied, and neither
\* ever meets an event it refuses, which would stop the read model for good.
RowIsReplay ==
  /\ Row(shown) = Replay(shown)
  /\ ~Replay(Len(log)).refused

\* Only a restoration or a field value follows a deletion.
NothingAfterDeletion ==
  \A i \in 1..(Len(log) - 1) :
    Replay(i).lifecycle = "deleted" => log[i + 1].type \in {"ObjectRestored", "FieldValueChanged"}

Orphans ==
  {x \in calendar :
     x.id # mapping /\ \A c \in Caller : request[c].at = "insert" => request[c].version # x.id}

\* Events that nothing will ever update or delete are paid for by pushes that
\* overlapped and by failures; without these the calendar shows the time block
\* whenever no request is under way.
CalendarFollows ==
  /\ Cardinality(Orphans) <= overlaps + mishaps
  /\ (\A c \in Caller : request[c] = Idle) /\ overlaps = 0 /\ mishaps = 0 =>
       LET b == Replay(Len(log)).block IN {x.block : x \in calendar} = (IF b = 0 THEN {} ELSE {b})
===============================================================================
