--------------------------- MODULE RelationCommands ---------------------------
(***************************************************************************)
(* Relations between objects: create and remove of relations/              *)
(* relations.service.ts, the checks of core-objects/relations/             *)
(* relation-commands.ts and relation-graph.ts, and the read model of       *)
(* relations.projection.ts that the checks read.                           *)
(*                                                                         *)
(* Nothing serialises the commands: a check reads the rows of its kind,    *)
(* the append goes to a stream of its own and cannot conflict with another *)
(* create, and the rows follow when someone catches up.  A relation's id   *)
(* is the index of its RelationCreated event in the log.  Objects are      *)
(* never removed from their read model, so their existence is not stated.  *)
(***************************************************************************)
EXTENDS Integers, FiniteSets, Sequences, Reachability

CONSTANTS
  Object,
  Caller,     \* concurrent requests
  MaxEvents   \* bound: events in the log

\* The kinds that a request may name (create-relation.schema.ts).  recurrenceOf is
\* appended by task-recurrence.service.ts, of which ObjectFields tells.
Kind == {"parentChild", "dependency", "reference"}
Edge == [from : Object, to : Object, kind : Kind]

VARIABLES
  log,      \* the relations' events, in the order they are read
  shown,    \* how many of them the read model has applied
  request,  \* locals of each request
  blind,    \* history: relations whose check missed an earlier creation
  acked     \* history: relations whose creation was answered with success

vars == <<log, shown, request, blind, acked>>

Idle == [at |-> "idle"]

Init ==
  /\ log = << >>
  /\ shown = 0
  /\ request = [c \in Caller |-> Idle]
  /\ blind = {}
  /\ acked = {}

-------------------------------------------------------------------------------
Created(i) == log[i].type = "RelationCreated"
Removed(r) == \E i \in 1..Len(log) : log[i] = [type |-> "RelationRemoved", relation |-> r]
EdgeOf(r) == log[r].edge

\* RelationsViewProjection.apply: of two parents of one object the later insert
\* does nothing.
Apply(rows, i) ==
  LET e == EdgeOf(i) IN
  IF ~Created(i) THEN rows \ {log[i].relation}
  ELSE IF /\ e.kind = "parentChild"
          /\ \E r \in rows : EdgeOf(r).kind = "parentChild" /\ EdgeOf(r).to = e.to
    THEN rows
    ELSE rows \union {i}

\* The table relations_view after n events, and now.
RowsAfter[n \in Nat] == IF n = 0 THEN {} ELSE Apply(RowsAfter[n - 1], n)
Rows == RowsAfter[shown]

\* getActiveRelationsOfKind.
EdgesOfKind(kind) == {e \in {EdgeOf(r) : r \in Rows} : e.kind = kind}

-------------------------------------------------------------------------------
\* findParentCycle walks up from the parent, one step more than there are edges.
FindParentCycle(edges, proposed) ==
  LET upwards == {[from |-> e.to, to |-> e.from] : e \in edges} IN
  proposed.to \in Within(upwards, {proposed.from}, Cardinality(edges))

\* findDependencyCycle searches from the target, breadth first.
FindDependencyCycle(edges, proposed) ==
  proposed.from \in Within(edges, {proposed.to}, Cardinality(edges))

HasParent(edges, proposed) == \E e \in edges : e.to = proposed.to

HasDuplicate(edges, proposed) ==
  \E e \in edges : {e.from, e.to} = {proposed.from, proposed.to}

\* createRelation lets the relation pass.
Admitted(proposed) ==
  LET edges == EdgesOfKind(proposed.kind) IN
  /\ proposed.from # proposed.to
  /\ \/ /\ proposed.kind = "parentChild"
        /\ ~HasParent(edges, proposed)
        /\ ~FindParentCycle(edges, proposed)
     \/ /\ proposed.kind = "dependency"
        /\ ~FindDependencyCycle(edges, proposed)
     \/ /\ proposed.kind = "reference"
        /\ ~HasDuplicate(edges, proposed)

-------------------------------------------------------------------------------
\* Bound: no more events than MaxEvents, those that requests are about to append
\* among them.
MayBegin ==
  Len(log) + Cardinality({c \in Caller : request[c].at \in {"append create", "append remove"}})
    < MaxEvents

\* Bound: the relations of a behaviour are of one kind; neither the checks nor
\* the index relate two kinds.
OfTheKind(kind) ==
  /\ \A i \in 1..Len(log) : Created(i) => EdgeOf(i).kind = kind
  /\ \A c \in Caller :
       request[c].at = "append create" => request[c].edge.kind = kind

CheckCreate(c) ==
  /\ request[c].at = "idle"
  /\ MayBegin
  /\ \E e \in Edge :
       /\ OfTheKind(e.kind)
       /\ Admitted(e)
       /\ request' = [request EXCEPT ![c] =
                        [at |-> "append create", edge |-> e, seen |-> shown]]
  /\ UNCHANGED <<log, shown, blind, acked>>

\* append(streamId, 0, ...): a new stream has no competitor.
AppendCreate(c) ==
  LET id == Len(log) + 1 IN
  /\ request[c].at = "append create"
  /\ log' = Append(log, [type |-> "RelationCreated", edge |-> request[c].edge])
  /\ blind' = IF \E i \in request[c].seen + 1 .. Len(log) : Created(i)
                THEN blind \union {id} ELSE blind
  /\ request' = [request EXCEPT ![c] = [at |-> "catch up create", relation |-> id]]
  /\ UNCHANGED <<shown, acked>>

\* Faulty variant of CatchUpCreate: the request is answered without a look at
\* its own row.
CatchUpCreateAndAnswer(c) ==
  /\ request[c].at = "catch up create"
  /\ shown' = Len(log)
  /\ acked' = acked \union {request[c].relation}
  /\ request' = [request EXCEPT ![c] = Idle]
  /\ UNCHANGED <<log, blind>>

CatchUpCreate(c) ==
  /\ request[c].at = "catch up create"
  /\ shown' = Len(log)
  /\ IF EdgeOf(request[c].relation).kind = "parentChild"
       THEN request' = [request EXCEPT ![c].at = "own row"] /\ UNCHANGED acked
       ELSE /\ request' = [request EXCEPT ![c] = Idle]
            /\ acked' = acked \union {request[c].relation}
  /\ UNCHANGED <<log, blind>>

\* A parent that is not in its row has lost to another: ConflictError.
ReadOwnRow(c) ==
  /\ request[c].at = "own row"
  /\ acked' = IF request[c].relation \in Rows
                THEN acked \union {request[c].relation} ELSE acked
  /\ request' = [request EXCEPT ![c] = Idle]
  /\ UNCHANGED <<log, shown, blind>>

\* lookupStreamId finds the row; readStream and removeRelation find it active.
CheckRemove(c) ==
  /\ request[c].at = "idle"
  /\ MayBegin
  /\ \E r \in Rows :
       /\ ~Removed(r)
       /\ request' = [request EXCEPT ![c] = [at |-> "append remove", relation |-> r]]
  /\ UNCHANGED <<log, shown, blind, acked>>

\* append at the length read, which another removal may have outdated.
AppendRemove(c) ==
  /\ request[c].at = "append remove"
  /\ IF Removed(request[c].relation)
       THEN request' = [request EXCEPT ![c] = Idle] /\ UNCHANGED log
       ELSE /\ log' = Append(log, [type |-> "RelationRemoved",
                                   relation |-> request[c].relation])
            /\ request' = [request EXCEPT ![c] = [at |-> "catch up remove"]]
  /\ UNCHANGED <<shown, blind, acked>>

CatchUpRemove(c) ==
  /\ request[c].at = "catch up remove"
  /\ shown' = Len(log)
  /\ request' = [request EXCEPT ![c] = Idle]
  /\ UNCHANGED <<log, blind, acked>>

\* The call at hand is rejected, or the process dies.  Before the append this
\* is as if the request had not begun.
Abandon(c) ==
  /\ request[c].at \in {"catch up create", "own row", "catch up remove"}
  /\ request' = [request EXCEPT ![c] = Idle]
  /\ UNCHANGED <<log, shown, blind, acked>>

Next ==
  \E c \in Caller :
    \/ CheckCreate(c) \/ AppendCreate(c) \/ CatchUpCreate(c) \/ ReadOwnRow(c)
    \/ CheckRemove(c) \/ AppendRemove(c) \/ CatchUpRemove(c)
    \/ Abandon(c)

Spec == Init /\ [][Next]_vars

-------------------------------------------------------------------------------
TypeOK ==
  /\ log \in Seq([type : {"RelationCreated"}, edge : Edge]
                   \union [type : {"RelationRemoved"}, relation : Nat])
  /\ shown \in 0..Len(log)
  /\ \A r \in blind \union acked : r \in 1..Len(log) /\ Created(r)
  /\ DOMAIN request = Caller

Earlier(r) == {EdgeOf(s) : s \in {s \in Rows : s < r}}

\* Only a relation whose check missed an earlier creation closes a cycle of
\* parents or of dependencies: the searches miss none, also among rows that
\* such a race left behind.  Said of a caught up read model: its rows were all
\* there were when it became so.
NoCycleClosedKnowingly ==
  shown = Len(log) => \A r \in Rows \ blind :
    EdgeOf(r).kind # "reference" => ~Leads(Earlier(r), EdgeOf(r).to, EdgeOf(r).from)

\* Two objects are joined by a second reference only if its check missed an
\* earlier creation.
NoSecondReference ==
  \A r \in Rows \ blind :
    EdgeOf(r).kind = "reference" =>
      \A e \in Earlier(r) : {e.from, e.to} # {EdgeOf(r).from, EdgeOf(r).to}

\* Whatever races, an object has one parent in the read model.
OneParent ==
  \A r, s \in Rows :
    EdgeOf(r).kind = "parentChild" /\ EdgeOf(r).to = EdgeOf(s).to => r = s

\* A relation whose creation was answered with success is shown until it is
\* removed; the loser of a race for a parent is told.
AckedIsShown == \A r \in acked : r \in Rows \/ Removed(r)

\* A relation's stream is a creation and at most one removal.
RemovedOnce ==
  \A i, j \in 1..Len(log) :
    /\ ~Created(i) => log[i].relation \in 1..i - 1 /\ Created(log[i].relation)
    /\ ~Created(i) /\ log[i] = log[j] => i = j

\* ADR-0006: a cycle of parents cannot be made, and of the accepted races
\* none is about parents.
NoParentCycle ==
  \A r \in Rows :
    LET e == EdgeOf(r) IN
    e.kind = "parentChild" => ~Leads({EdgeOf(s) : s \in Rows}, e.to, e.from)
===============================================================================
