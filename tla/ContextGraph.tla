----------------------------- MODULE ContextGraph -----------------------------
(***************************************************************************)
(* The context graph: context/context-graph.projection.ts, which folds the *)
(* event log into nodes and edges, with the consent to desktop signals of  *)
(* one person that context/desktop-signal-consents.service.ts and          *)
(* context/desktop-signals.service.ts ask for.  The events of objects,     *)
(* relations and fields are appended as their services allow; there is one *)
(* select field and one signal type.  A relation's id is its index in the  *)
(* log, and so is a topic that a field or a signal names.                  *)
(***************************************************************************)
EXTENDS Integers, FiniteSets, SequencesExt

CONSTANTS
  Object,     \* objects that exist from the start
  Caller,     \* concurrent requests about signals
  MaxEvents   \* bound: events in the log

VARIABLES
  log,       \* the events
  shown,     \* how many of them the consent projection has applied
  synced,    \* how many of them the graph has applied
  request,   \* locals of each request
  asked      \* history: for each event, those the consent projection had applied when its capture asked

vars == <<log, shown, synced, request, asked>>

Idle == [at |-> "idle"]

Init ==
  /\ log = << >>
  /\ shown = 0 /\ synced = 0
  /\ request = [c \in Caller |-> Idle]
  /\ asked = << >>

-------------------------------------------------------------------------------
\* Entity nodes, those of them whose object type is known, edges of relations,
\* edges to the topics of the field, and the topic of the person's signal.  The
\* edges that a creation adds, and the days of a signal, are left out.
NewGraph ==
  [nodes |-> Object, typed |-> Object, related |-> {}, tags |-> {}, signal |-> 0]

\* Nodes go with their edges, by the foreign key.
DropNode(g, o) ==
  [g EXCEPT !.nodes = @ \ {o}, !.typed = @ \ {o},
            !.related = {e \in @ : o \notin {e.from, e.to}},
            !.tags = {t \in @ : t.object # o}]

\* createEdgeIfAbsent: one edge for each ordered pair of nodes.
AddRelation(g, e, i) ==
  IF {e.from, e.to} \subseteq g.nodes
       /\ \A r \in g.related : r.from # e.from \/ r.to # e.to
    THEN [g EXCEPT !.related = @ \union {[from |-> e.from, to |-> e.to, relation |-> i]}]
    ELSE g

\* The edges of a field are replaced by those of its new value.
SetTag(g, o, i) ==
  IF o \in g.typed
    THEN [g EXCEPT !.tags = {t \in @ : t.object # o} \union {[object |-> o, topic |-> i]}]
    ELSE g

\* apply, for the event at i.
ApplyEvent(g, i) ==
  LET e == log[i] IN
  CASE e.type = "ObjectSoftDeleted" -> DropNode(g, e.object)
    [] e.type = "ObjectRestored" -> [g EXCEPT !.nodes = @ \union {e.object}]
    [] e.type = "RelationCreated" -> AddRelation(g, e, i)
    [] e.type = "RelationRemoved" -> [g EXCEPT !.related = {r \in @ : r.relation # e.relation}]
    [] e.type = "FieldValueChanged" -> SetTag(g, e.object, i)
    [] e.type = "DesktopSignalCaptured" -> [g EXCEPT !.signal = i]
    [] e.type = "DesktopSignalConsentRevoked" -> [g EXCEPT !.signal = 0]
    [] OTHER -> g

Graph == FoldLeft(ApplyEvent, NewGraph, [i \in 1..synced |-> i])

Go(c, q) == request' = [request EXCEPT ![c] = q]

\* Events of a type, up to the nth, and the last of some.
Past(types, n) == {i \in 1..n : log[i].type \in types}
Consents == {"DesktopSignalConsentGranted", "DesktopSignalConsentRevoked"}
LastIs(type, types, n) == \E i \in Past({type}, n) : \A j \in Past(types, n) : j <= i

\* Bound: no more events than MaxEvents, those to be appended among them.
MayBegin ==
  Len(log) + Cardinality({c \in Caller : request[c].at \in {"read", "append"}}) < MaxEvents

Removable(r) ==
  /\ r \in Past({"RelationCreated"}, Len(log))
  /\ \A i \in Past({"RelationRemoved"}, Len(log)) : log[i].relation # r

Gone(o, n) ==
  \E i \in Past({"ObjectSoftDeleted"}, n) :
    log[i].object = o
      /\ \A j \in Past({"ObjectRestored"}, n) : log[j].object = o => j < i

\* What the services of objects and relations append.
OfObjects ==
  [type : {"ObjectSoftDeleted"}, object : {o \in Object : ~Gone(o, Len(log))}]
    \union [type : {"ObjectRestored", "FieldValueChanged"}, object : Object]
    \union [type : {"RelationCreated"}, from : Object, to : Object]
    \union [type : {"RelationRemoved"}, relation : {r \in DOMAIN log : Removable(r)}]

AppendOfObject ==
  /\ MayBegin
  /\ \E e \in OfObjects :
       /\ e.type = "RelationCreated" => e.from # e.to
       /\ log' = Append(log, e)
  /\ asked' = Append(asked, 0)
  /\ UNCHANGED <<shown, synced, request>>

Streamed(type) == IF type \in Consents THEN Consents ELSE {type}

\* grant and revoke read the consent's stream.
Decide(c) ==
  /\ request[c].at = "idle"
  /\ MayBegin
  /\ \E t \in Consents :
       Go(c, [at |-> "append", type |-> t, version |-> Cardinality(Past(Consents, Len(log))),
              asked |-> 0])
  /\ UNCHANGED <<log, shown, synced, asked>>

\* The row says that there is a consent.
Granted(n) == LastIs("DesktopSignalConsentGranted", Consents, n)

\* capture finds the consent, then reads the signal's stream.
AskConsent(c) ==
  /\ request[c].at = "idle"
  /\ MayBegin
  /\ Granted(shown)
  /\ Go(c, [at |-> "read", asked |-> shown])
  /\ UNCHANGED <<log, shown, synced, asked>>

ReadSignals(c) ==
  /\ request[c].at = "read"
  /\ Go(c, [at |-> "append", type |-> "DesktopSignalCaptured",
            version |-> Cardinality(Past({"DesktopSignalCaptured"}, Len(log))),
            asked |-> request[c].asked])
  /\ UNCHANGED <<log, shown, synced, asked>>

AppendSignal(c) ==
  LET q == request[c] IN
  /\ q.at = "append"
  /\ IF q.version = Cardinality(Past(Streamed(q.type), Len(log)))
       THEN /\ log' = Append(log, [type |-> q.type])
            /\ asked' = Append(asked, q.asked)
            /\ Go(c, IF q.type \in Consents THEN [at |-> "catch up"] ELSE Idle)
       ELSE Go(c, Idle) /\ UNCHANGED <<log, asked>>
  /\ UNCHANGED <<shown, synced>>

\* grant and revoke catch the consent projection up before they answer.
CatchUp(c) ==
  /\ request[c].at = "catch up"
  /\ shown' = Len(log)
  /\ Go(c, Idle)
  /\ UNCHANGED <<log, synced, asked>>

\* The process dies after the append.
Die(c) ==
  /\ request[c].at = "catch up"
  /\ Go(c, Idle)
  /\ UNCHANGED <<log, shown, synced, asked>>

\* syncOnce of context/context-graph-sync.worker.ts.
SyncOnce ==
  /\ synced < Len(log)
  /\ synced' = Len(log)
  /\ UNCHANGED <<log, shown, request, asked>>

Next ==
  \/ AppendOfObject \/ SyncOnce
  \/ \E c \in Caller : Decide(c) \/ AskConsent(c) \/ ReadSignals(c) \/ AppendSignal(c) \/ CatchUp(c) \/ Die(c)

Spec == Init /\ [][Next]_vars

-------------------------------------------------------------------------------
TypeOK ==
  /\ shown \in 0..Len(log) /\ synced \in 0..Len(log) /\ Len(log) <= MaxEvents
  /\ DOMAIN asked = DOMAIN log
  /\ Graph.typed \subseteq Graph.nodes /\ Graph.nodes \subseteq Object

\* Relations the log declares at synced: not removed, with ends that were there
\* when it was created and have not been deleted since.
Declared ==
  {r \in Past({"RelationCreated"}, synced) :
     /\ \A i \in Past({"RelationRemoved"}, synced) : log[i].relation # r
     /\ \A o \in {log[r].from, log[r].to} :
          /\ ~Gone(o, r)
          /\ \A i \in Past({"ObjectSoftDeleted"}, synced) : i > r => log[i].object # o}

SamePair(r, s) == log[r].from = log[s].from /\ log[r].to = log[s].to

\* Every relation edge is that of a declared relation.  A declared relation has
\* an edge between its ends, unless there already was one when it was created,
\* of a relation that has been removed since: that took the only edge with it.
RelatedAsDeclared ==
  /\ \A e \in Graph.related :
       e.relation \in Declared /\ e.from = log[e.relation].from /\ e.to = log[e.relation].to
  /\ \A r \in Declared :
       \/ \E e \in Graph.related : SamePair(e.relation, r)
       \/ \E s \in Past({"RelationCreated"}, r - 1), i \in Past({"RelationRemoved"}, synced) :
            SamePair(s, r) /\ log[i].relation = s /\ i > r

\* An object is tagged with the field's last value, until it is deleted; a
\* restored one has no tags, whatever is written.
TaggedAsWritten ==
  \A o \in Object :
    LET written == {i \in Past({"FieldValueChanged"}, synced) : log[i].object = o}
        deleted == \E i \in Past({"ObjectSoftDeleted"}, synced) : log[i].object = o
    IN  {t.topic : t \in {t \in Graph.tags : t.object = o}}
          = IF deleted THEN {} ELSE {i \in written : \A j \in written : j <= i}

\* A signal that shows was captured under a consent, which had not been revoked
\* since, unless the request asked before the read model knew of the revocation.
SignalsOnConsent ==
  LET i == Graph.signal IN
  i # 0 => \E g \in Past({"DesktopSignalConsentGranted"}, i - 1) :
                 \A r \in Past({"DesktopSignalConsentRevoked"}, i - 1) :
                   g < r => asked[i] < r
===============================================================================
