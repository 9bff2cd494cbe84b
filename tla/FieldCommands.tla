---------------------------- MODULE FieldCommands ----------------------------
(***************************************************************************)
(* Field definitions of one object type: define, update and archive of     *)
(* fields/field-definitions.service.ts, the formula rules of core-objects/ *)
(* fields/field-commands.ts and formula-graph.ts, the read model of        *)
(* field-definitions.projection.ts, and the order in which changed         *)
(* formulas are computed anew, formula-recompute-order.ts.                 *)
(*                                                                         *)
(* Every field is a formula here: a field of another type is one that      *)
(* refers to nothing and is never given a reference.  A field's id is the  *)
(* index of its FieldDefined event in the log.                             *)
(***************************************************************************)
EXTENDS Integers, FiniteSets, SequencesExt, Reachability

CONSTANTS
  Key,
  Caller,     \* concurrent requests
  MaxEvents   \* bound: events in the log

VARIABLES
  log,      \* the fields' events, in the order they are read
  shown,    \* how many of them the read model has applied
  request,  \* locals of each request
  blind,    \* history: definitions and updates whose check missed an earlier one
  acked     \* history: fields whose definition was answered with success

vars == <<log, shown, request, blind, acked>>

Idle == [at |-> "idle"]

Init ==
  /\ log = << >>
  /\ shown = 0
  /\ request = [c \in Caller |-> Idle]
  /\ blind = {}
  /\ acked = {}

-------------------------------------------------------------------------------
SetsConfig(i) == log[i].type \in {"FieldDefined", "FieldUpdated"}
FieldOf(i) == IF log[i].type = "FieldDefined" THEN i ELSE log[i].field
Stream(f) == {i \in 1..Len(log) : FieldOf(i) = f}
Archived(f) == \E i \in Stream(f) : log[i].type = "FieldArchived"

\* FieldDefinitionsViewProjection.apply: a row for each key, the first one's.
Apply(rows, i) ==
  LET e == log[i] IN
  CASE e.type = "FieldDefined" ->
         IF \E r \in rows : r.key = e.key THEN rows
         ELSE rows \union {[id |-> i, key |-> e.key, deps |-> e.deps, set |-> i,
                            lifecycle |-> "active"]}
    [] e.type = "FieldUpdated" ->
         {IF r.id = e.field THEN [r EXCEPT !.deps = e.deps, !.set = i] ELSE r : r \in rows}
    [] e.type = "FieldArchived" ->
         {IF r.id = e.field THEN [r EXCEPT !.lifecycle = "archived"] ELSE r : r \in rows}

\* The table field_definitions after the first n events.
RowsAt(n) == FoldLeft(Apply, {}, [i \in 1..n |-> i])
Rows == RowsAt(shown)

\* getActiveFieldDefinitionsForType.
Active(rows) == {r \in rows : r.lifecycle = "active"}
KeysOf(rows) == {r.key : r \in rows}

\* What the formulas of rows refer to, as edges from a key to those it needs.
References(rows) == UNION {{[from |-> r.key, to |-> k] : k \in r.deps} : r \in rows}

-------------------------------------------------------------------------------
\* findFormulaCycle: a search from the candidate's references, over those of the
\* others.
FindFormulaCycle(rows, key, deps) ==
  key \in Within(References({r \in rows : r.key # key}), deps, Cardinality(rows))

\* assertFormulaFieldRules.
RulesHold(rows, key, deps) ==
  /\ deps \subseteq KeysOf(rows)
  /\ ~FindFormulaCycle(rows, key, deps)

Edges(rows) == {[from |-> e.to, to |-> e.from] : e \in References(rows)}

\* The formulas that a change of the keys changed may change.
Affected(rows, changed) ==
  LET reached == Within(Edges(rows), changed, Cardinality(rows)) IN
  {e.to : e \in {e \in Edges(rows) : e.from \in reached}}

\* Faulty variant of RecomputeOrder: formulas come by their distance from the
\* change.
RecomputeByDistance(rows, changed) ==
  LET rounds == 0..Cardinality(rows)
      reached(i) == Within(Edges(rows), changed, i)
  IN  [k \in Affected(rows, changed) |->
         CHOOSE i \in rounds : k \in reached(i) /\ \A j \in rounds : k \in reached(j) => i <= j]

\* getAffectedFormulaKeysInOrder: the round in which the sort emits a formula;
\* those it never emits, on a cycle or behind one, come last.
RecomputeOrder(rows, changed) ==
  LET affected == Affected(rows, changed)
      n == Cardinality(affected)
      done[i \in 0..n] ==
        IF i = 0 THEN {}
        ELSE {r.key : r \in {r \in rows : /\ r.key \in affected
                                          /\ r.deps \intersect affected \subseteq done[i - 1]}}
  IN  [k \in affected |-> Cardinality({i \in 0..n : k \notin done[i]})]

-------------------------------------------------------------------------------
\* Bound: no more events than MaxEvents, those that requests are about to append
\* among them.
MayBegin ==
  Len(log) + Cardinality({c \in Caller : request[c].at \in {"check define", "check update", "append"}})
    < MaxEvents

Request(c, r) == request' = [request EXCEPT ![c] = r]

\* assertKeyIsUnique looks at archived fields too.
CheckKey(c) ==
  /\ request[c].at = "idle"
  /\ MayBegin
  /\ \E k \in Key \ KeysOf(Rows) : Request(c, [at |-> "check define", key |-> k])
  /\ UNCHANGED <<log, shown, blind, acked>>

\* defineField, on the active fields of the type.
CheckDefine(c) ==
  LET k == request[c].key IN
  /\ request[c].at = "check define"
  /\ \E deps \in SUBSET Key :
       /\ RulesHold(Active(Rows), k, deps)
       /\ Request(c, [at |-> "append", version |-> 0, seen |-> shown,
                      event |-> [type |-> "FieldDefined", key |-> k, deps |-> deps]])
  /\ UNCHANGED <<log, shown, blind, acked>>

\* update reads the active fields before it looks its own field up; what
\* updateField's rules will say depends on these alone.
ReadActive(c) ==
  /\ request[c].at = "idle"
  /\ MayBegin
  /\ \E r \in Rows, deps \in SUBSET Key :
       /\ RulesHold(Active(Rows), r.key, deps)
       /\ Request(c, [at |-> "check update", field |-> r.id, deps |-> deps, seen |-> shown])
  /\ UNCHANGED <<log, shown, blind, acked>>

\* applyCommand's lookup, readStream and replay, and updateField.
CheckUpdate(c) ==
  LET q == request[c] IN
  /\ q.at = "check update"
  /\ ~Archived(q.field)
  /\ Request(c, [at |-> "append", version |-> Cardinality(Stream(q.field)), seen |-> q.seen,
                 event |-> [type |-> "FieldUpdated", field |-> q.field, deps |-> q.deps]])
  /\ UNCHANGED <<log, shown, blind, acked>>

\* The same for archive, which no reference to the field stands in the way of.
CheckArchive(c) ==
  /\ request[c].at = "idle"
  /\ MayBegin
  /\ \E r \in Rows :
       /\ ~Archived(r.id)
       /\ Request(c, [at |-> "append", version |-> Cardinality(Stream(r.id)), seen |-> shown,
                      event |-> [type |-> "FieldArchived", field |-> r.id]])
  /\ UNCHANGED <<log, shown, blind, acked>>

VersionMatches(q) ==
  \/ q.event.type = "FieldDefined"
  \/ q.version = Cardinality(Stream(q.event.field))

AppendEvent(c) ==
  LET q == request[c] IN
  /\ q.at = "append"
  /\ IF VersionMatches(q)
       THEN /\ log' = Append(log, q.event)
            /\ blind' = IF \E i \in q.seen + 1 .. Len(log) : SetsConfig(i)
                          THEN blind \union {Len(log) + 1} ELSE blind
            /\ Request(c, [at |-> "catch up", event |-> Len(log) + 1])
       ELSE Request(c, Idle) /\ UNCHANGED <<log, blind>>
  /\ UNCHANGED <<shown, acked>>

CatchUp(c) ==
  /\ request[c].at = "catch up"
  /\ shown' = Len(log)
  /\ IF log[request[c].event].type = "FieldDefined"
       THEN Request(c, [request[c] EXCEPT !.at = "own row"])
       ELSE Request(c, Idle)
  /\ UNCHANGED <<log, blind, acked>>

\* A definition without its row has lost its key to another: ConflictError.
ReadOwnRow(c) ==
  LET f == request[c].event IN
  /\ request[c].at = "own row"
  /\ acked' = IF \E r \in Rows : r.id = f THEN acked \union {f} ELSE acked
  /\ Request(c, Idle)
  /\ UNCHANGED <<log, shown, blind>>

\* The call at hand is rejected, or the process dies.  Before the append this
\* is as if the request had not begun.
Abandon(c) ==
  /\ request[c].at \in {"catch up", "own row"}
  /\ Request(c, Idle)
  /\ UNCHANGED <<log, shown, blind, acked>>

Next ==
  \E c \in Caller :
    \/ CheckKey(c) \/ CheckDefine(c) \/ ReadActive(c) \/ CheckUpdate(c) \/ CheckArchive(c)
    \/ AppendEvent(c) \/ CatchUp(c) \/ ReadOwnRow(c) \/ Abandon(c)

Spec == Init /\ [][Next]_vars

-------------------------------------------------------------------------------
TypeOK ==
  /\ log \in Seq([type : {"FieldDefined"}, key : Key, deps : SUBSET Key]
                   \union [type : {"FieldUpdated"}, field : Nat, deps : SUBSET Key]
                   \union [type : {"FieldArchived"}, field : Nat])
  /\ shown \in 0..Len(log)
  /\ blind \union acked \subseteq 1..Len(log)
  /\ DOMAIN request = Caller

\* Only an update whose check missed an earlier one closes a cycle of formulas:
\* the search sees all that can lead back to the field, archived ones left out.
\* Said of a caught up read model: its rows were all there were when it became so.
NoCycleClosedKnowingly ==
  shown = Len(log) => \A r \in Active(Rows) :
    r.set \notin blind =>
      LET earlier == References({s \in Active(Rows) : s.set < r.set}) IN
      \A k \in r.deps : ~Leads(earlier, k, r.key)

\* A key stands for the field whose definition was answered with success, and
\* for no other, from then on: also when it is archived, and when two
\* definitions of it race.
AckedKeepsItsKey ==
  \A f \in acked : {r.id : r \in {r \in Rows : r.key = log[f].key}} = {f}

\* No update follows the archiving of a field, and it is archived once.
ArchivedIsFinal ==
  \A i, j \in 1..Len(log) :
    log[i].type = "FieldArchived" /\ j > i => FieldOf(j) # FieldOf(i)

\* A change of field values computes every formula anew that depends on it, and
\* each after those it refers to; except on a cycle a race left behind, and
\* downstream of one.  Said of a caught up read model, like the above.
RecomputedAfterSources ==
  shown = Len(log) => \A changed \in SUBSET Key :
    LET rows == Active(Rows)
        edges == Edges(rows)
        order == RecomputeOrder(rows, changed)
        cyclic == {e.from : e \in {e \in edges : Leads(edges, e.to, e.from)}}
    IN  /\ \A r \in rows :
             r.key \in DOMAIN order
               <=> \E k \in r.deps, x \in changed : Leads(edges, x, k)
        /\ \A r \in rows : \A k \in r.deps :
             r.key \in DOMAIN order /\ k \in DOMAIN order =>
               \/ order[k] < order[r.key]
               \/ \E x \in cyclic : Leads(edges, x, r.key)
===============================================================================
