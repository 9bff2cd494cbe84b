---------------------------- MODULE ChecklistCache ----------------------------
(***************************************************************************)
(* What the browser shows of one object while changes to it are under way: *)
(* the cached query of apps/web/src/hooks/useChecklistMutations.ts and     *)
(* useRecurrenceRuleMutations.ts, which both write before the server has   *)
(* answered and take the change back when it fails, and the detail view's  *)
(* own fetches of the object.  Of the server there is one object, changed  *)
(* by one request at a time; ObjectCommands is about how.                  *)
(***************************************************************************)
EXTENDS SequencesExt, Integers

CONSTANTS
  Mutation,    \* calls of mutate() under way at a time; also the temporary ids
  MaxCalls,    \* bound: calls of mutate()
  MaxMishaps   \* bound: requests that fail

VARIABLES
  server,    \* the object, and how many changes it has had
  cache,     \* the cached object, which the view shows
  call,      \* each call of mutate(), with what onMutate and the server returned
  fetch,     \* the fetch in flight
  calls, mishaps,
  newest,    \* history: the latest state of the server the cache has held
  doubtful   \* history: the cache may differ from the server for good

vars == <<server, cache, call, fetch, calls, mishaps, newest, doubtful>>

ListItem(id, order) == [id |-> id, done |-> FALSE, order |-> order]

\* Two items, one whose predecessor is gone, or one more added after that.
Start ==
  [items : {<<ListItem(1, 0), ListItem(2, 1)>>, <<ListItem(2, 1)>>, <<ListItem(2, 1), ListItem(3, 1)>>},
   rule : {0}, version : {3}]

Idle == [at |-> "idle"]
Nothing == [version |-> 0]

Init ==
  /\ server \in Start /\ cache = server
  /\ call = [m \in Mutation |-> Idle]
  /\ fetch = Idle
  /\ calls = 0 /\ mishaps = 0
  /\ newest = 3 /\ doubtful = FALSE

-------------------------------------------------------------------------------
Ids(o) == {o.items[i].id : i \in DOMAIN o.items}
ById(o, id) == SelectSeq(o.items, LAMBDA i : i.id = id)
Without(o, id) == SelectSeq(o.items, LAMBDA i : i.id # id)
WithDone(o, id, F(_)) ==
  [i \in DOMAIN o.items |-> IF o.items[i].id = id THEN [o.items[i] EXCEPT !.done = F(@)] ELSE o.items[i]]
Numbered(items) == [i \in DOMAIN items |-> [items[i] EXCEPT !.order = i - 1]]
InOrder(o, ids) == Numbered(FlattenSeq([i \in DOMAIN ids |-> ById(o, ids[i])]))

\* Array.sort by order, which is stable.
Sorted(items) ==
  LET before(i) == {j \in DOMAIN items : \/ items[j].order < items[i].order
                                         \/ items[j].order = items[i].order /\ j < i}
  IN [k \in DOMAIN items |-> items[CHOOSE i \in DOMAIN items : Cardinality(before(i)) = k - 1]]

IdsOf(items) == [i \in DOMAIN items |-> items[i].id]

\* What a change does, in the cache and, for the ids it knows, on the server; id
\* is the one of an added item.
Changed(o, op, id) ==
  CASE op.kind = "add" -> [o EXCEPT !.items = Append(@, ListItem(id, Len(@)))]
    [] op.kind = "toggle" -> [o EXCEPT !.items = WithDone(o, op.item, LAMBDA d : ~d)]
    [] op.kind = "remove" -> [o EXCEPT !.items = Without(o, op.item)]
    [] op.kind = "reorder" -> [o EXCEPT !.items = InOrder(o, op.ids)]
    [] op.kind = "rule" -> [o EXCEPT !.rule = op.rule]

\* What the commands of core-objects demand.
Allowed(o, op) ==
  CASE op.kind \in {"toggle", "remove"} -> op.item \in Ids(o)
    [] op.kind = "reorder" -> ToSet(op.ids) = Ids(o) /\ Len(op.ids) = Len(o.items)
    [] op.kind = "rule" -> op.rule # 0 \/ o.rule # 0
    [] OTHER -> TRUE

\* What onError makes of the cache, given the one onMutate has seen.
Undone(o, op, before, id) ==
  CASE op.kind = "add" -> [o EXCEPT !.items = Without(o, id)]
    [] op.kind = "toggle" ->
         [o EXCEPT !.items = WithDone(o, op.item, LAMBDA d : Head(ById(before, op.item)).done)]
    [] op.kind = "remove" -> [o EXCEPT !.items = Sorted(@ \o ById(before, op.item))]
    [] op.kind = "reorder" ->
         LET ids == IdsOf(Sorted(before.items)) IN
         [o EXCEPT !.items = InOrder(o, ids \o IdsOf(SelectSeq(@, LAMBDA i : i.id \notin ToSet(ids))))]
    [] op.kind = "rule" -> [o EXCEPT !.rule = before.rule]

\* Orders are not given anew when an item is removed, so that the next one added
\* may get one that is taken; then the place of an item that comes back is lost.
SharesOrder(o, id) ==
  \E i \in ToSet(o.items), j \in ToSet(ById(o, id)) : i.order = j.order /\ i # j

\* A call whose taking back another call, or a fetch, may spoil: an item taken
\* out comes back though an answer has brought it back already, and what was
\* seen of one item, of the order or of the rule may itself be taken back.
Spoils(other, op) ==
  CASE op.kind = "add" -> FALSE
    [] op.kind = "toggle" -> other.kind \in {"toggle", "remove"} /\ other.item = op.item
    [] op.kind = "remove" -> TRUE
    [] op.kind = "reorder" -> other.kind \in {"reorder", "remove", "add"}
    [] op.kind = "rule" -> other.kind = "rule"

InFlight == {m \in Mutation : call[m].at # "idle"}

\* A swap of neighbours, which the view's buttons make.
Swapped(ids, i) == [ids EXCEPT ![i] = ids[i + 1], ![i + 1] = ids[i]]

\* What the view offers: nothing on an item whose id is temporary, but such an
\* item may be the neighbour of one that moves.
Offered ==
  LET known == {id \in Ids(cache) : id \notin Mutation}
      ids == IdsOf(Sorted(cache.items))
  IN [kind : {"add"}]
       \union [kind : {"toggle", "remove"}, item : known]
       \union {[kind |-> "reorder", ids |-> Swapped(ids, i)] :
                 i \in {i \in 1..Len(ids) - 1 : ids[i] \in known \/ ids[i + 1] \in known}}
       \union [kind : {"rule"}, rule : {calls + 1} \union (IF cache.rule = 0 THEN {} ELSE {0})]

\* onMutate: fetches are cancelled, and the cache changes at once.
Mutate(m) ==
  /\ call[m].at = "idle"
  /\ calls < MaxCalls /\ calls' = calls + 1
  /\ \E op \in Offered :
       /\ cache' = Changed(cache, op, m)
       /\ call' = [n \in Mutation |->
            IF n = m
              THEN [at |-> "sent", op |-> op, before |-> cache, result |-> Nothing,
                    spoilt |-> \/ doubtful
                               \/ op.kind = "remove" /\ SharesOrder(cache, op.item)
                               \/ \E k \in InFlight : Spoils(call[k].op, op)]
            ELSE IF n \in InFlight
              THEN [call[n] EXCEPT !.spoilt = @ \/ Spoils(op, call[n].op)]
            ELSE Idle]
  /\ fetch' = Idle
  /\ UNCHANGED <<server, mishaps, newest, doubtful>>

\* The server carries the change out and answers with the object, or refuses.
Execute(m) ==
  /\ call[m].at = "sent"
  /\ LET op == call[m].op
         new == [Changed(server, op, server.version + 1) EXCEPT !.version = @ + 1]
     IN IF Allowed(server, op)
          THEN server' = new /\ call' = [call EXCEPT ![m].at = "answered", ![m].result = new]
          ELSE call' = [call EXCEPT ![m].at = "answered"] /\ UNCHANGED server
  /\ UNCHANGED <<cache, fetch, calls, mishaps, newest, doubtful>>

\* A request that does not get through or is refused with a conflict, and an
\* answer that does not: to the browser they look the same.
LoseRequest(m) ==
  /\ call[m].at = "sent"
  /\ mishaps < MaxMishaps /\ mishaps' = mishaps + 1
  /\ call' = [call EXCEPT ![m].at = "answered"]
  /\ UNCHANGED <<server, cache, fetch, calls, newest, doubtful>>

LoseAnswer(m) ==
  /\ call[m].at = "answered" /\ call[m].result # Nothing
  /\ mishaps < MaxMishaps /\ mishaps' = mishaps + 1
  /\ call' = [call EXCEPT ![m].result = Nothing, ![m].spoilt = TRUE]
  /\ UNCHANGED <<server, cache, fetch, calls, newest, doubtful>>

\* The cache becomes what the server has sent.  What is sent last need not come last.
Show(o) ==
  /\ cache' = o
  /\ newest' = IF o.version > newest THEN o.version ELSE newest
  /\ doubtful' = (o.version < server.version /\ (doubtful \/ o.version < newest))

\* onSuccess.
Succeed(m) ==
  /\ call[m].at = "answered" /\ call[m].result # Nothing
  /\ Show(call[m].result)
  /\ call' = [call EXCEPT ![m] = Idle]
  /\ UNCHANGED <<server, fetch, calls, mishaps>>

\* onError.
TakeBack(m) ==
  /\ call[m].at = "answered" /\ call[m].result = Nothing
  /\ cache' = Undone(cache, call[m].op, call[m].before, m)
  /\ doubtful' = (doubtful \/ call[m].spoilt)
  /\ call' = [call EXCEPT ![m] = Idle]
  /\ UNCHANGED <<server, fetch, calls, mishaps, newest>>

\* The view fetches the object when it gets the focus; the server reads it; the
\* answer arrives.
Focus ==
  /\ fetch.at = "idle"
  /\ fetch' = [at |-> "asked"]
  /\ UNCHANGED <<server, cache, call, calls, mishaps, newest, doubtful>>

AnswerFetch ==
  /\ fetch.at = "asked"
  /\ fetch' = [at |-> "answered", result |-> server]
  /\ UNCHANGED <<server, cache, call, calls, mishaps, newest, doubtful>>

ShowFetched ==
  /\ fetch.at = "answered"
  /\ Show(fetch.result)
  /\ fetch' = Idle
  /\ call' = [m \in Mutation |->
                IF m \in InFlight /\ call[m].op.kind = "remove"
                  THEN [call[m] EXCEPT !.spoilt = TRUE] ELSE call[m]]
  /\ UNCHANGED <<server, calls, mishaps>>

Next ==
  \/ \E m \in Mutation :
       Mutate(m) \/ Execute(m) \/ LoseRequest(m) \/ LoseAnswer(m) \/ Succeed(m) \/ TakeBack(m)
  \/ Focus \/ AnswerFetch \/ ShowFetched

Spec == Init /\ [][Next]_vars

-------------------------------------------------------------------------------
Objects(ids) ==
  [items : Seq([id : ids, done : BOOLEAN, order : Nat]), rule : 0..MaxCalls, version : Nat]

TypeOK ==
  /\ server \in Objects(Nat)
  /\ cache \in Objects(Nat \union Mutation)
  /\ \A m \in InFlight : call[m].at \in {"sent", "answered"}
  /\ fetch.at \in {"idle", "asked", "answered"}
  /\ calls \in 0..MaxCalls /\ mishaps \in 0..MaxMishaps
  /\ newest \in 3..server.version
  /\ doubtful \in BOOLEAN

Visible(o) == <<[i \in DOMAIN o.items |-> [id |-> Sorted(o.items)[i].id, done |-> Sorted(o.items)[i].done]],
                o.rule>>

\* When nothing is under way the view shows what the server holds, unless an
\* answer was lost, an older answer came after a newer one, or a change was taken
\* back that another one had spoilt (the comments on the surgical undo,
\* useChecklistMutations.ts 15-23): in particular whatever fails alone, or beside
\* changes of other items, leaves no trace.
ShowsServer ==
  InFlight = {} /\ fetch = Idle /\ ~doubtful => Visible(cache) = Visible(server)
===============================================================================
