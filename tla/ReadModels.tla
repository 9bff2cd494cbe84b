------------------------------ MODULE ReadModels ------------------------------
(***************************************************************************)
(* The read models of the server: what each projection writes for the      *)
(* events of its kind that the services append, when it is caught up and   *)
(* when it is rebuilt.  The definitions below, one for each projection,    *)
(* say what; a behaviour is about one of them.  Catching up takes its      *)
(* events all or none, in one transaction.  An event is of one of four     *)
(* sorts: it makes a row, changes its contents, closes it (a deletion, a   *)
(* revocation, a decision) or reopens it.                                  *)
(***************************************************************************)
EXTENDS Integers, FiniteSets, SequencesExt

CONSTANTS
  Recipient,    \* subscriptions to webhooks, agents that are mentioned
  MaxEvents,    \* bound: events in the log
  MaxRebuilds,  \* bound: rebuilds, of the projection and of the one it refers to
  MaxSwitches   \* bound: recipients that are activated or deactivated

VARIABLES
  projection,  \* whose rows these are
  log,         \* the events of its kind, in the order they are read
  checkpoint,  \* how many of them it has applied
  rows,        \* its table
  referred,    \* keys of rows that rows of another table refer to
  parents,     \* whether the rows that its own refer to are there
  active,      \* recipients that are active
  since,       \* history: for each event, recipients active all the time it waited, and at some time
  switches,    \* recipients activated or deactivated so far
  rebuilds,    \* rebuilds of this table so far
  cascades,    \* rebuilds of the other table so far
  lost         \* history: whether the last of these rebuilds was of the other table

vars == <<projection, log, checkpoint, rows, referred, parents, active, since, switches,
          rebuilds, cascades, lost>>

\* writes: how a row is made.  fresh: whether each creation has a key of its own.
\* sorts: the sorts of its events.  asks: what the service asks before a change,
\* the stream, the row or neither.  own: whether the projection makes up the
\* row's id.  unfit: sorts of events with a value that the service takes and the
\* row cannot hold: a text longer than its column, or with more words than an
\* index of them may have, or with U+0000; a time of the year 0.
Table(writes, fresh, sorts, asks, own, unfit) ==
  [writes |-> writes, fresh |-> fresh, sorts |-> sorts, asks |-> asks, own |-> own,
   unfit |-> unfit, close |-> "mark", strict |-> FALSE, noted |-> FALSE, links |-> "none",
   undoes |-> FALSE, capped |-> FALSE]

Once == {"Created"}
OnOff == {"Created", "Closed"}
Edited == {"Created", "Changed", "Closed"}

\* A row of its own for each creation: insert.
AgentDirectory == Table("insert", TRUE, OnOff, "nothing", FALSE, {})
ObjectComments == Table("insert", TRUE, Once, "nothing", FALSE, {})
DmMessage == Table("insert", TRUE, Once, "nothing", FALSE, {})
MemoryRecord == Table("insert", TRUE, Edited, "row", FALSE, {})
SavedViewsView == Table("insert", TRUE, Edited, "stream", FALSE, {"Created", "Changed"})
AgentNotificationDeliveries == Table("insert", TRUE, Once, "nothing", TRUE, {})

\* The record that an undo undoes is named by the id of its row.
AgentActionRecord == [Table("insert", TRUE, Once, "nothing", TRUE, {}) EXCEPT !.undoes = TRUE]

\* A suggestion that was approved refers to its trigger, whose row then cannot be
\* deleted, not even by a rebuild; what triggers have matched goes with them.
AutomationTriggersView ==
  [Table("insert", TRUE, Edited, "stream", FALSE, {"Created", "Changed"})
     EXCEPT !.links = "referred", !.noted = TRUE]

\* Changes need the row: the text of a document, an item of a checklist.  What is
\* deleted is not deleted again, and nothing else is restored.  The words of titles
\* and documents are indexed; a block of time is one of any year.
SearchIndex ==
  [Table("insert", TRUE, {"Created", "Changed"}, "nothing", FALSE, {"Created", "Changed"})
     EXCEPT !.strict = TRUE, !.noted = TRUE]
ObjectsView ==
  [Table("insert", TRUE, Edited \union {"Reopened"}, "order", FALSE, {"Changed"})
     EXCEPT !.strict = TRUE]

\* onConflictDoNothing.  A key of a field, and the child of a parent, has one row.
DocumentSnapshots == Table("keep", TRUE, Once, "nothing", FALSE, {})
AgentActionExecutions == Table("keep", TRUE, Once, "nothing", FALSE, {})
AIUsage == Table("keep", TRUE, Once, "nothing", FALSE, {})
ActionProposal == Table("keep", TRUE, OnOff, "stream", FALSE, {"Created"})
TriggerTemplateSuggestion ==
  [Table("keep", TRUE, OnOff, "stream", FALSE, {}) EXCEPT !.links = "refers"]
FieldDefinitionsView == Table("slot", TRUE, Edited, "stream", FALSE, {"Created"})
RelationsView ==
  [Table("slot", TRUE, OnOff, "nothing", FALSE, {}) EXCEPT !.close = "delete", !.links = "cascades"]

\* onConflictDoUpdate: what a key has now.
MemoryAccessPolicy == Table("replace", FALSE, OnOff, "nothing", TRUE, {"Created"})
AgentPermissionManifest == Table("replace", FALSE, OnOff, "nothing", TRUE, {"Created"})
DesktopSignalConsent == Table("replace", FALSE, OnOff, "nothing", TRUE, {})
TaskAutonomySetting == Table("replace", FALSE, Once, "nothing", TRUE, {})
NotificationPreference == Table("replace", FALSE, Once, "nothing", TRUE, {})
UserAvailability == Table("replace", FALSE, Once, "nothing", FALSE, Once)

\* How many events a workspace has.
WorkspaceEventCounter == Table("count", FALSE, Once, "nothing", FALSE, {})

\* Jobs for those who are active when the event is applied; mentions are limited
\* to so many of a comment and so many in a while.
WebhookDeliveryEnqueue ==
  [Table("jobs", TRUE, Once, "nothing", TRUE, {}) EXCEPT !.noted = TRUE]
MentionActionEnqueue ==
  [Table("jobs", TRUE, Once, "nothing", TRUE, {}) EXCEPT !.noted = TRUE, !.capped = TRUE]

Projections ==
  {AgentDirectory, ObjectComments, DmMessage, MemoryRecord, SavedViewsView,
   AgentNotificationDeliveries, AgentActionRecord, AutomationTriggersView, SearchIndex,
   ObjectsView, DocumentSnapshots, AgentActionExecutions, AIUsage, ActionProposal,
   TriggerTemplateSuggestion, FieldDefinitionsView, RelationsView, MemoryAccessPolicy,
   AgentPermissionManifest, DesktopSignalConsent, TaskAutonomySetting,
   NotificationPreference, UserAvailability, WorkspaceEventCounter, WebhookDeliveryEnqueue,
   MentionActionEnqueue}

Init ==
  /\ projection \in Projections
  /\ log = << >>
  /\ checkpoint = 0
  /\ rows = << >>
  /\ referred = {}
  /\ parents = TRUE
  /\ active = Recipient
  /\ since = << >>
  /\ switches = 0 /\ rebuilds = 0 /\ cascades = 0
  /\ lost = FALSE

-------------------------------------------------------------------------------
Is(i, sort) == log[i].sort = sort
Of(key, n) == {i \in 1..n : log[i].key = key}
LastOf(S) == CHOOSE i \in S : \A j \in S : j <= i

\* The stream of the key was closed last.
ClosedIn(key, n) ==
  \E i \in Of(key, n) :
    Is(i, "Closed") /\ \A j \in Of(key, n) : log[j].sort \in {"Created", "Reopened"} => j < i

\* The service lets the row be changed, closed or reopened.
Admits(sort, key) ==
  CASE projection.asks = "stream" -> ~ClosedIn(key, Len(log))
    [] projection.asks = "row" -> rows[key].open
    [] projection.asks = "order" ->
         sort # "Changed" => (ClosedIn(key, Len(log)) <=> sort = "Reopened")
    [] projection.asks = "nothing" -> TRUE

\* The keys that an event may be about.  Rows are looked up first.
Keys(sort) ==
  CASE ~projection.fresh -> 1..2
    [] projection.fresh /\ sort = "Created" -> {Len(log) + 1}
    [] projection.fresh /\ sort # "Created" -> {k \in DOMAIN rows : Admits(sort, k)}

\* Fields of a key, children of a parent.
Slots == IF projection.writes = "slot" THEN 1..2 ELSE {0}

\* Rows that an undo may be about: shown, and not yet undone.
Undoable ==
  {0} \union (IF projection.undoes
                THEN {k \in DOMAIN rows : \A j \in DOMAIN rows : rows[j].undoes # rows[k].id}
                ELSE {})

\* What has to be there of the other table: the objects of a relation, the trigger
\* of an approval.
NeedsParents(sort) ==
  \/ projection.links = "cascades" /\ sort = "Created"
  \/ projection.links = "refers" /\ sort = "Closed"

Names == IF projection.writes = "jobs" THEN (SUBSET Recipient) \ {{}} ELSE {{}}

\* An event that a service of the projection's kind appends.
Write ==
  /\ Len(log) < MaxEvents
  /\ \E sort \in projection.sorts, slot \in Slots, undone \in Undoable, to \in Names,
        unfit \in BOOLEAN :
       \E k \in Keys(sort) :
         /\ unfit => sort \in projection.unfit
         /\ sort # "Created" => slot \in {0, 1}
         /\ NeedsParents(sort) => parents
         /\ log' = Append(log, [sort |-> sort, key |-> k, slot |-> slot, unfit |-> unfit,
                                undoes |-> IF undone = 0 THEN << >> ELSE rows[undone].id,
                                of |-> undone, to |-> to])
  /\ since' = Append(since, [all |-> active, some |-> active])
  /\ UNCHANGED <<projection, checkpoint, rows, referred, parents, active, switches,
                 rebuilds, cascades, lost>>

-------------------------------------------------------------------------------
\* The id of a row is that of its event, or a new one.
NewId(e) == <<e.key, IF projection.own THEN rebuilds ELSE 0>>

NewRow(e, i) ==
  [text |-> i, open |-> TRUE, id |-> NewId(e), slot |-> e.slot, undoes |-> e.undoes,
   noted |-> FALSE, to |-> {}]

\* Mentions of the first agents only, in the order of the comment.
MaxMentions == 1
FirstOf(S) ==
  IF projection.capped THEN {r \in S : \A s \in S : r <= s} ELSE S

\* Jobs made in the window; past is whether those made before still are.
MaxJobs == 2
RateLimited(t, past) ==
  /\ projection.capped
  /\ Cardinality({k \in DOMAIN t : t[k].to # {} /\ (past \/ k > checkpoint)}) >= MaxJobs

Taken(t, e) ==
  CASE projection.writes = "keep" -> e.key \in DOMAIN t
    [] projection.writes = "slot" -> \E k \in DOMAIN t : t[k].slot = e.slot
    [] OTHER -> FALSE

With(t, k, row) == [j \in DOMAIN t \union {k} |-> IF j = k THEN row ELSE t[j]]

Make(t, e, i, past) ==
  LET reached == FirstOf(e.to \intersect active) IN
  CASE projection.writes = "count" ->
         With(t, e.key, [NewRow(e, 1) EXCEPT !.text = IF e.key \in DOMAIN t THEN t[e.key].text + 1
                                                                            ELSE 1])
    [] projection.writes = "replace" ->
         With(t, e.key, [NewRow(e, i) EXCEPT !.id = IF e.key \in DOMAIN t THEN t[e.key].id
                                                                          ELSE NewId(e)])
    [] projection.writes = "jobs" ->
         IF reached = {} \/ RateLimited(t, past)
           THEN t
           ELSE With(t, e.key, [NewRow(e, i) EXCEPT !.to = reached])
    [] OTHER -> IF Taken(t, e) THEN t ELSE With(t, e.key, NewRow(e, i))

\* apply, for the event at i.
Apply(t, i, past) ==
  LET e == log[i] IN
  IF e.sort = "Created" THEN Make(t, e, i, past)
  ELSE IF e.key \notin DOMAIN t THEN t
  ELSE CASE e.sort = "Changed" -> [t EXCEPT ![e.key].text = i]
         [] e.sort = "Reopened" -> [t EXCEPT ![e.key].open = TRUE]
         [] e.sort = "Closed" /\ projection.close = "mark" -> [t EXCEPT ![e.key].open = FALSE]
         [] e.sort = "Closed" /\ projection.close = "delete" ->
              [k \in DOMAIN t \ {e.key} |-> t[k]]

\* A value that the row cannot hold, a row that is there or is not, a reference to
\* a row that is not.
Refuses(t, i) ==
  LET e == log[i] IN
  \/ e.unfit /\ (e.sort = "Created" \/ e.key \in DOMAIN t)
  \/ e.sort = "Created" /\ projection.writes \in {"insert", "slot"} /\ ~Taken(t, e)
       /\ e.key \in DOMAIN t
  \/ e.sort = "Changed" /\ projection.strict /\ e.key \notin DOMAIN t
  \/ NeedsParents(e.sort) /\ ~parents

\* The events that wait, one after the other, up to one that is refused.
Outcome(past) ==
  LET Step(a, i) ==
        IF a.refused # 0 THEN a
        ELSE IF Refuses(a.table, i) THEN [a EXCEPT !.refused = i]
        ELSE [a EXCEPT !.table = Apply(a.table, i, past)]
  IN  FoldLeft(Step, [table |-> rows, refused |-> 0],
               [j \in 1..(Len(log) - checkpoint) |-> checkpoint + j])

\* catchUp: all of them, or none.
CatchUp ==
  \E past \in BOOLEAN :
    LET o == Outcome(past) IN
    /\ checkpoint < Len(log)
    /\ o.refused = 0
    /\ rows' = o.table
    /\ checkpoint' = Len(log)
    /\ UNCHANGED <<projection, log, referred, parents, active, since, switches, rebuilds,
                   cascades, lost>>

\* rebuild: the table is emptied and the checkpoint set back, before it is caught
\* up as ever.
Rebuild ==
  /\ rebuilds < MaxRebuilds
  /\ referred = {}
  /\ rows' = << >>
  /\ checkpoint' = 0
  /\ rebuilds' = rebuilds + 1
  /\ since' = [i \in DOMAIN since |-> [all |-> since[i].all \intersect active,
                                      some |-> since[i].some \union active]]
  /\ lost' = FALSE
  /\ UNCHANGED <<projection, log, referred, parents, active, switches, cascades>>

\* The rebuild of the table that the rows refer to, which is refused or takes
\* them along, and its catching up.
RebuildParents ==
  /\ \/ projection.links = "cascades" /\ rows' = << >> /\ lost' = TRUE
     \/ /\ projection.links = "refers"
        /\ \A k \in DOMAIN rows : rows[k].open
        /\ UNCHANGED <<rows, lost>>
  /\ cascades < MaxRebuilds
  /\ parents' = FALSE
  /\ cascades' = cascades + 1
  /\ UNCHANGED <<projection, log, checkpoint, referred, active, since, switches, rebuilds>>

RestoreParents ==
  /\ ~parents
  /\ parents' = TRUE
  /\ UNCHANGED <<projection, log, checkpoint, rows, referred, active, since, switches,
                 rebuilds, cascades, lost>>

\* A suggestion is approved with this trigger.
Refer ==
  /\ projection.links = "referred"
  /\ \E k \in DOMAIN rows : referred' = referred \union {k}
  /\ UNCHANGED <<projection, log, checkpoint, rows, parents, active, since, switches,
                 rebuilds, cascades, lost>>

\* What is not in the log: an embedding, matches of a trigger, the end of a job.
Note ==
  /\ projection.noted
  /\ \E k \in DOMAIN rows : rows' = [rows EXCEPT ![k].noted = TRUE]
  /\ UNCHANGED <<projection, log, checkpoint, referred, parents, active, since, switches,
                 rebuilds, cascades, lost>>

\* A subscription is created or deactivated, an agent registered or deactivated.
Switch ==
  /\ projection.writes = "jobs"
  /\ switches < MaxSwitches
  /\ switches' = switches + 1
  /\ \E r \in Recipient :
       active' = (active \union {r}) \ (active \intersect {r})
  /\ since' = [i \in DOMAIN since |->
                 IF i > checkpoint
                   THEN [all |-> since[i].all \intersect active',
                         some |-> since[i].some \union active']
                   ELSE since[i]]
  /\ UNCHANGED <<projection, log, checkpoint, rows, referred, parents, rebuilds,
                 cascades, lost>>

Next ==
  \/ Write \/ CatchUp \/ Rebuild \/ RebuildParents \/ RestoreParents \/ Refer \/ Note
  \/ Switch

Spec == Init /\ [][Next]_vars

-------------------------------------------------------------------------------
Row == [text : Nat, open : BOOLEAN, id : Nat \X Nat, slot : 0..2,
        undoes : {<< >>} \union (Nat \X Nat), noted : BOOLEAN, to : SUBSET Recipient]

TypeOK ==
  /\ projection \in Projections
  /\ \A i \in DOMAIN log : log[i].sort \in projection.sorts /\ log[i].key \in 1..MaxEvents
  /\ checkpoint \in 0..Len(log)
  /\ DOMAIN rows \subseteq 1..MaxEvents /\ \A k \in DOMAIN rows : rows[k] \in Row
  /\ referred \subseteq DOMAIN rows
  /\ active \subseteq Recipient
  /\ Len(since) = Len(log)

\* A projection refuses no event that a service appends but one with a value that
\* its row cannot hold, or, while the table that its rows refer to is rebuilt, one
\* that needs a row of it; whatever it refuses, it is not caught up again.
AppliesUnlessUnfit ==
  \A past \in BOOLEAN :
    LET i == Outcome(past).refused IN i # 0 => log[i].unfit \/ ~parents

\* A row is what its key's events say: the contents are the last that were given,
\* a revocation stands until the next grant and a deletion until a restoration,
\* and there is no row without a creation.  What is created is shown, unless it
\* is deleted, went with the rows of a table that was rebuilt, is of a key or a
\* child that has a row, or asks for jobs.
RowsSummarise ==
  projection.writes # "jobs" =>
    /\ \A k \in DOMAIN rows :
         LET done == Of(k, checkpoint)
             given == {i \in done : log[i].sort \in {"Created", "Changed"}}
         IN  /\ \E i \in done : Is(i, "Created")
             /\ rows[k].text = IF projection.writes = "count" THEN Cardinality(done)
                                                             ELSE LastOf(given)
             /\ rows[k].open = ~ClosedIn(k, checkpoint)
    /\ projection.writes # "slot" =>
         \A i \in 1..checkpoint : Is(i, "Created") => log[i].key \in DOMAIN rows
    /\ projection.writes = "slot" =>
         /\ \A j, k \in DOMAIN rows : j # k => rows[j].slot # rows[k].slot
         /\ ~lost =>
              \A i \in 1..checkpoint :
                Is(i, "Created") =>
                  \E j \in 1..checkpoint :
                    \/ log[j].key \in DOMAIN rows /\ log[j].slot = log[i].slot
                    \/ Is(j, "Closed") /\ projection.close = "delete"

\* Who is active all the time that an event waits is reached, and who never is, is
\* not; mentions reach some, unless as many as the limit were reached before.
JobsForTheActive ==
  projection.writes = "jobs" =>
    \A i \in 1..checkpoint :
      LET reached == IF i \in DOMAIN rows THEN rows[i].to ELSE {}
          named == log[i].to
      IN  /\ reached \subseteq named \intersect since[i].some
          /\ ~projection.capped => named \intersect since[i].all \subseteq reached
          /\ projection.capped /\ reached = {} /\ named \intersect since[i].all # {} =>
               Cardinality({k \in DOMAIN rows : k < i}) >= MaxJobs

\* A record whose undo was applied is told to be undone, until the records are
\* rebuilt: their rows then have new ids, and the events name the old ones.
UndoneIsShown ==
  projection.undoes /\ rebuilds = 0 =>
    \A i \in 1..checkpoint :
      log[i].of # 0 => \E k \in DOMAIN rows : rows[k].undoes = rows[log[i].of].id
===============================================================================
