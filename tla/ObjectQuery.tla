----------------------------- MODULE ObjectQuery -----------------------------
(***************************************************************************)
(* Objects queried page by page: queryFlat of objects/objects.service.ts   *)
(* with the sort columns, the cursor and the seek predicate of objects/    *)
(* query-builder.ts, while rows change between two pages.                  *)
(***************************************************************************)
EXTENDS Integers, SequencesExt

CONSTANTS
  Object,     \* ids: numbers, in the order of the id column
  Value,      \* values of a sort field: positive numbers
  Sorts,      \* sort specifications: for each field, whether it is ascending
  Limit,      \* rows on a page
  MaxWrites   \* bound: rows that change

\* The walks sorted by one field, in either direction.
OneField == {<<TRUE>>, <<FALSE>>}

Missing == 0   \* no value in the field: NULL

VARIABLES
  sort,     \* the query's sort specification
  rows,     \* objects_view: the values of the sort fields, and whether the filter lists the row
  walk,     \* the client's walk through the pages
  writes,   \* what is bounded
  steady    \* history: objects whose row has not changed since the walk began

vars == <<sort, rows, walk, writes, steady>>

Rows(s) == [values : [DOMAIN s -> Value \union {Missing}], listed : BOOLEAN]

Init ==
  /\ sort \in Sorts
  /\ rows \in [Object -> {r \in Rows(sort) : r.listed}]
  /\ walk = [at |-> "new", cursor |-> << >>, seen |-> << >>]
  /\ writes = 0
  /\ steady = Object

-------------------------------------------------------------------------------
\* The caller's columns and the hidden id, in the direction of the last one.
Columns == Append(sort, Last(sort))

Key(o) == Append(rows[o].values, o)

\* ORDER BY: NULLs after all values ascending, before them descending.
Smaller(v, w) == v # Missing /\ (w = Missing \/ v < w)
InOrder(ascending, v, w) == IF ascending THEN Smaller(v, w) ELSE Smaller(w, v)

Precedes(k, l) ==
  \E i \in DOMAIN Columns :
    /\ \A j \in 1..(i - 1) : k[j] = l[j]
    /\ InOrder(Columns[i], k[i], l[i])

\* expr > value, or <, which is not true of a NULL.
Beyond(ascending, v, w) == v # Missing /\ (IF ascending THEN v > w ELSE v < w)

\* Faulty variant of Sought: without the id to tell rows with equal values apart.
SoughtByFields(k, cursor) ==
  \E i \in DOMAIN sort :
    /\ \A j \in 1..(i - 1) : k[j] = cursor[j]
    /\ Beyond(sort[i], k[i], cursor[i])

\* buildKeysetPredicate.
Sought(k, cursor) ==
  \E i \in DOMAIN Columns :
    /\ \A j \in 1..(i - 1) : k[j] = cursor[j]
    /\ Beyond(Columns[i], k[i], cursor[i])

\* A NULL in the cursor is not of its column's kind.
Bindable(cursor) == \A i \in DOMAIN cursor : cursor[i] # Missing

\* One page, and the cursor of its last row when there are more rows.
QueryPage ==
  LET found == {o \in Object : rows[o].listed /\ (walk.at = "new" \/ Sought(Key(o), walk.cursor))}
      ordered == SetToSortSeq(found, LAMBDA o, p : Precedes(Key(o), Key(p)))
  IN  /\ walk.at = "new" \/ (walk.at = "page" /\ Bindable(walk.cursor))
      /\ walk' = IF Len(ordered) > Limit
                   THEN [at |-> "page", cursor |-> Key(ordered[Limit]),
                         seen |-> walk.seen \o SubSeq(ordered, 1, Limit)]
                   ELSE [at |-> "end", cursor |-> << >>, seen |-> walk.seen \o ordered]
      /\ UNCHANGED <<sort, rows, writes, steady>>

\* The cursor the server gave out is refused.
RefuseCursor ==
  /\ walk.at = "page" /\ ~Bindable(walk.cursor)
  /\ walk' = [walk EXCEPT !.at = "refused"]
  /\ UNCHANGED <<sort, rows, writes, steady>>

\* A row is written: values set, object deleted, restored or no longer matching.
Write(o) ==
  /\ walk.at = "page"
  /\ writes < MaxWrites
  /\ writes' = writes + 1
  /\ \E r \in Rows(sort) \ {rows[o]} : rows' = [rows EXCEPT ![o] = r]
  /\ steady' = steady \ {o}
  /\ UNCHANGED <<sort, walk>>

Next == QueryPage \/ RefuseCursor \/ \E o \in Object : Write(o)

Spec == Init /\ [][Next]_vars

-------------------------------------------------------------------------------
TypeOK ==
  /\ sort \in Sorts
  /\ rows \in [Object -> Rows(sort)]
  /\ walk.at \in {"new", "page", "end", "refused"}
  /\ walk.seen \in Seq(Object)
  /\ writes \in 0..MaxWrites
  /\ steady \subseteq Object

Seen == ToSet(walk.seen)
HasAll(o) == \A i \in DOMAIN sort : rows[o].values[i] # Missing

\* Whatever is written between pages, an object that is left alone is shown at
\* most once and in its place among the others left alone.
ShownOnceInOrder ==
  \A i, j \in DOMAIN walk.seen :
    i < j /\ {walk.seen[i], walk.seen[j]} \subseteq steady =>
      Precedes(Key(walk.seen[i]), Key(walk.seen[j]))

\* At the end of the walk no object that was left alone is missing but for want
\* of a value in a sort field, and a cursor is refused for that reason only.
MissedForWantOfAValue ==
  /\ walk.at = "end" => \A o \in steady \ Seen : ~rows[o].listed \/ ~HasAll(o)
  /\ walk.at = "refused" /\ Last(walk.seen) \in steady => ~HasAll(Last(walk.seen))

\* What query-builder.ts says of its order: a walk through the pages that is
\* left alone shows every object.
GapFree ==
  steady = Object /\ walk.at \in {"end", "refused"} => Seen = Object
===============================================================================
