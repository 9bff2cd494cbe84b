--------------------------- MODULE ProjectionRunner ---------------------------
(***************************************************************************)
(* ProjectionRunner (apps/server/src/event-store/projections) for one      *)
(* projection: every request that appended events calls catchUp, which     *)
(* takes the projection's advisory lock, reads the log page by page after  *)
(* the checkpoint, applies the events the projection handles and writes    *)
(* the checkpoint, all in one transaction.  The pages are read on another  *)
(* connection, so they show what is committed at that moment.              *)
(*                                                                         *)
(* The log is GlobalFeed, which EventStore implements.                     *)
(***************************************************************************)
EXTENDS GlobalFeed, FiniteSets, Sequences

CONSTANTS
  Runner,        \* concurrent calls of catchUp or rebuild
  Rebuilder,     \* those that may call rebuild
  RebuildAlone,  \* TRUE: nothing else drives the projection during a reset
  Handled,       \* positions of events the projection handles
  PageSize,      \* BATCH_SIZE
  MaxFailures,   \* bound: failed or crashed calls
  Nobody         \* the advisory lock is free

ASSUME RunnerAssumption ==
  /\ Rebuilder \subseteq Runner
  /\ RebuildAlone \in BOOLEAN
  /\ Nobody \notin Runner
  /\ PageSize \in Nat \ {0}
  /\ MaxFailures \in Nat
  /\ MaxPosition \in Nat
  /\ Handled \subseteq Positions

VARIABLES
  checkpoint,  \* committed row of projection_checkpoints, 0 when absent
  applied,     \* the projection's committed rows: positions in apply order
  lock,        \* holder of pg_advisory_xact_lock
  rpc,         \* where each call is
  cursor,      \* local variable checkpoint: last position read
  page,        \* events of the present page still to be dealt with
  pageEnd,     \* last position of the present page
  lastPage,    \* the present page was not full
  mine,        \* positions applied in the call's open transaction
  wrote,       \* the open transaction has written the checkpoint row
  doomed,      \* rows deleted by an open rebuild transaction
  overtaken,   \* history: positions not yet visible when a later one was read
  failures

runnerVars == <<checkpoint, applied, lock, rpc, cursor, page, pageEnd,
                lastPage, mine, wrote, doomed, overtaken, failures>>

vars == <<feedVars, runnerVars>>

CatchingUp == {"lock", "checkpoint", "read", "apply", "commit"}
Resetting  == {"reset", "rewind", "restart"}

RowsOf(s) == {s[i] : i \in DOMAIN s}

Init ==
  /\ FeedInit
  /\ checkpoint = 0
  /\ applied = <<>>
  /\ lock = Nobody
  /\ rpc = [r \in Runner |-> "idle"]
  /\ cursor = [r \in Runner |-> 0]
  /\ page = [r \in Runner |-> {}]
  /\ pageEnd = [r \in Runner |-> 0]
  /\ lastPage = [r \in Runner |-> FALSE]
  /\ mine = [r \in Runner |-> <<>>]
  /\ wrote = [r \in Runner |-> FALSE]
  /\ doomed = [r \in Runner |-> 0]
  /\ overtaken = {}
  /\ failures = 0

Goto(r, label) == rpc' = [rpc EXCEPT ![r] = label]

-------------------------------------------------------------------------------
CatchUp(r) ==
  /\ rpc[r] = "idle"
  /\ RebuildAlone => \A q \in Runner : rpc[q] \notin Resetting
  /\ Goto(r, "lock")
  /\ UNCHANGED <<feedVars, checkpoint, applied, lock, cursor, page, pageEnd,
                 lastPage, mine, wrote, doomed, overtaken, failures>>

\* Faulty variant of TakeLock: calls are not serialized.
TakeNoLock(r) ==
  /\ rpc[r] = "lock"
  /\ Goto(r, "checkpoint")
  /\ UNCHANGED <<feedVars, checkpoint, applied, lock, cursor, page, pageEnd,
                 lastPage, mine, wrote, doomed, overtaken, failures>>

TakeLock(r) ==
  /\ rpc[r] = "lock"
  /\ lock = Nobody
  /\ lock' = r
  /\ Goto(r, "checkpoint")
  /\ UNCHANGED <<feedVars, checkpoint, applied, cursor, page, pageEnd,
                 lastPage, mine, wrote, doomed, overtaken, failures>>

ReadCheckpoint(r) ==
  /\ rpc[r] = "checkpoint"
  /\ cursor' = [cursor EXCEPT ![r] = checkpoint]
  /\ Goto(r, "read")
  /\ UNCHANGED <<feedVars, checkpoint, applied, lock, page, pageEnd,
                 lastPage, mine, wrote, doomed, overtaken, failures>>

\* Faulty variant of IsPage: the cursor is off by one.
IsPageOffByOne(P, from) ==
  LET fresh == {p \in visible : p > from + 1} IN
  /\ P \subseteq fresh
  /\ \A p \in P, q \in fresh \ P : p < q
  /\ \/ Cardinality(P) = PageSize
     \/ Cardinality(P) < PageSize /\ P = fresh

\* readAllFrom(from, PageSize): the first PageSize visible positions.
IsPage(P, from) ==
  LET fresh == {p \in visible : p > from} IN
  /\ P \subseteq fresh
  /\ \A p \in P, q \in fresh \ P : p < q
  /\ \/ Cardinality(P) = PageSize
     \/ Cardinality(P) < PageSize /\ P = fresh

\* Faulty variant of ReadPage: an empty page is not recognised, and has no
\* last position.
ReadPageUnguarded(r) ==
  /\ rpc[r] = "read"
  /\ \E P \in SUBSET visible :
       /\ IsPage(P, cursor[r])
       /\ page' = [page EXCEPT ![r] = P]
       /\ \E last \in P \union {-1} :
            /\ \A p \in P : p <= last
            /\ pageEnd' = [pageEnd EXCEPT ![r] = last]
       /\ lastPage' = [lastPage EXCEPT ![r] = Cardinality(P) < PageSize]
  /\ Goto(r, "apply")
  /\ UNCHANGED <<feedVars, checkpoint, applied, lock, cursor, mine, wrote,
                 doomed, overtaken, failures>>

ReadPage(r) ==
  /\ rpc[r] = "read"
  /\ \E P \in SUBSET visible :
       /\ IsPage(P, cursor[r])
       /\ page' = [page EXCEPT ![r] = P]
       /\ IF P = {}
            THEN Goto(r, "commit") /\ UNCHANGED <<pageEnd, lastPage, overtaken>>
            ELSE /\ Goto(r, "apply")
                 /\ \E last \in P :
                      /\ \A p \in P : p <= last
                      /\ pageEnd' = [pageEnd EXCEPT ![r] = last]
                      /\ overtaken' = overtaken \union ((1..last) \ visible)
                 /\ lastPage' = [lastPage EXCEPT ![r] =
                                   Cardinality(P) < PageSize]
  /\ UNCHANGED <<feedVars, checkpoint, applied, lock, cursor, mine, wrote,
                 doomed, failures>>

\* The next event of the page; events of other types are passed over.
Apply(r) ==
  /\ rpc[r] = "apply"
  /\ \E p \in page[r] :
       /\ \A q \in page[r] : p <= q
       /\ page' = [page EXCEPT ![r] = @ \ {p}]
       /\ mine' = IF p \in Handled THEN [mine EXCEPT ![r] = Append(@, p)]
                                   ELSE mine
  /\ UNCHANGED <<feedVars, checkpoint, applied, lock, rpc, cursor, pageEnd,
                 lastPage, wrote, doomed, overtaken, failures>>

\* Another open transaction holds the row lock of the checkpoint row.
CheckpointRowLocked(r) == \E q \in Runner \ {r} : wrote[q]

\* The page is done: its end goes to the checkpoint row and the local cursor.
WriteCheckpoint(r) ==
  /\ rpc[r] = "apply"
  /\ page[r] = {}
  /\ ~CheckpointRowLocked(r)
  /\ wrote' = [wrote EXCEPT ![r] = TRUE]
  /\ cursor' = [cursor EXCEPT ![r] = pageEnd[r]]
  /\ Goto(r, IF lastPage[r] THEN "commit" ELSE "read")
  /\ UNCHANGED <<feedVars, checkpoint, applied, lock, page, pageEnd, lastPage,
                 mine, doomed, overtaken, failures>>

\* The call's transaction is over; its locals are gone.
Leave(r, label) ==
  /\ Goto(r, label)
  /\ lock' = IF lock = r THEN Nobody ELSE lock
  /\ cursor' = [cursor EXCEPT ![r] = 0]
  /\ page' = [page EXCEPT ![r] = {}]
  /\ pageEnd' = [pageEnd EXCEPT ![r] = 0]
  /\ lastPage' = [lastPage EXCEPT ![r] = FALSE]
  /\ mine' = [mine EXCEPT ![r] = <<>>]
  /\ wrote' = [wrote EXCEPT ![r] = FALSE]
  /\ doomed' = [doomed EXCEPT ![r] = 0]

Commit(r) ==
  /\ rpc[r] = "commit"
  /\ applied' = applied \o mine[r]
  /\ checkpoint' = IF wrote[r] THEN cursor[r] ELSE checkpoint
  /\ Leave(r, "idle")
  /\ UNCHANGED <<feedVars, overtaken, failures>>

\* Faulty variant of Fail: the checkpoint was written outside of the
\* transaction and survives the rollback.
FailKeepingCheckpoint(r) ==
  /\ rpc[r] # "idle"
  /\ failures < MaxFailures
  /\ failures' = failures + 1
  /\ checkpoint' = IF wrote[r] THEN cursor[r] ELSE checkpoint
  /\ Leave(r, "idle")
  /\ UNCHANGED <<feedVars, applied, overtaken>>

\* apply throws, the connection is lost or the process dies: rollback.
Fail(r) ==
  /\ rpc[r] # "idle"
  /\ failures < MaxFailures
  /\ failures' = failures + 1
  /\ Leave(r, "idle")
  /\ UNCHANGED <<feedVars, checkpoint, applied, overtaken>>

-------------------------------------------------------------------------------
\* rebuild: reset and the zeroed checkpoint in a transaction that does not
\* take the advisory lock, then catchUp.
Rebuild(r) ==
  /\ r \in Rebuilder
  /\ rpc[r] = "idle"
  /\ RebuildAlone => \A q \in Runner : rpc[q] = "idle"
  /\ Goto(r, "reset")
  /\ UNCHANGED <<feedVars, checkpoint, applied, lock, cursor, page, pageEnd,
                 lastPage, mine, wrote, doomed, overtaken, failures>>

\* Faulty variant of Reset: the rows stay.
ResetNothing(r) ==
  /\ rpc[r] = "reset"
  /\ Goto(r, "rewind")
  /\ UNCHANGED <<feedVars, checkpoint, applied, lock, cursor, page, pageEnd,
                 lastPage, mine, wrote, doomed, overtaken, failures>>

\* DELETE sees the rows committed so far.
Reset(r) ==
  /\ rpc[r] = "reset"
  /\ doomed' = [doomed EXCEPT ![r] = Len(applied)]
  /\ Goto(r, "rewind")
  /\ UNCHANGED <<feedVars, checkpoint, applied, lock, cursor, page, pageEnd,
                 lastPage, mine, wrote, overtaken, failures>>

Rewind(r) ==
  /\ rpc[r] = "rewind"
  /\ ~CheckpointRowLocked(r)
  /\ wrote' = [wrote EXCEPT ![r] = TRUE]
  /\ Goto(r, "restart")
  /\ UNCHANGED <<feedVars, checkpoint, applied, lock, cursor, page, pageEnd,
                 lastPage, mine, doomed, overtaken, failures>>

\* The reset commits, and rebuild goes on with catchUp.
CommitReset(r) ==
  /\ rpc[r] = "restart"
  /\ applied' = SubSeq(applied, doomed[r] + 1, Len(applied))
  /\ checkpoint' = 0
  /\ Leave(r, "lock")
  /\ UNCHANGED <<feedVars, overtaken, failures>>

RunnerStep(r) ==
  \/ TakeLock(r)
  \/ ReadCheckpoint(r)
  \/ ReadPage(r)
  \/ Apply(r)
  \/ WriteCheckpoint(r)
  \/ Commit(r)
  \/ Reset(r)
  \/ Rewind(r)
  \/ CommitReset(r)

Next ==
  \/ FeedStep /\ UNCHANGED runnerVars
  \/ \E r \in Runner : CatchUp(r) \/ Rebuild(r) \/ RunnerStep(r) \/ Fail(r)

Spec == Init /\ [][Next]_vars

\* A call that has started is run to its end by the event loop and the
\* database, and the projection keeps being asked for: some request calls
\* catchUp again.  Writers owe nothing.
FairSpec ==
  /\ Spec
  /\ \A r \in Runner : WF_vars(CatchUp(r)) /\ WF_vars(RunnerStep(r))

-------------------------------------------------------------------------------
TypeOK ==
  /\ nextPos \in Nat \ {0}
  /\ open \in [Writer -> SUBSET Positions]
  /\ visible \subseteq Positions
  /\ checkpoint \in Nat
  /\ applied \in Seq(Positions)
  /\ lock \in Runner \union {Nobody}
  /\ rpc \in [Runner -> {"idle"} \union CatchingUp \union Resetting]
  /\ cursor \in [Runner -> Nat]
  /\ page \in [Runner -> SUBSET Positions]
  /\ pageEnd \in [Runner -> Nat]
  /\ lastPage \in [Runner -> BOOLEAN]
  /\ mine \in [Runner -> Seq(Positions)]
  /\ wrote \in [Runner -> BOOLEAN]
  /\ doomed \in [Runner -> Nat]
  /\ overtaken \subseteq Positions
  /\ failures \in 0..MaxFailures

\* Effectively once, in order: the projection's rows are the result of
\* applying distinct committed events by ascending position, none of them
\* beyond the checkpoint, whatever calls overlapped, failed or were retried.
EffectivelyOnce ==
  /\ \A i, j \in DOMAIN applied : i < j => applied[i] < applied[j]
  /\ \A i \in DOMAIN applied : /\ applied[i] \in visible \intersect Handled
                               /\ applied[i] <= checkpoint

\* A projection's checkpoint goes back only where a rebuild zeroes it.
CheckpointMonotone ==
  [][checkpoint' < checkpoint => \E r \in Runner : rpc[r] = "restart"]_vars

\* Nothing the checkpoint has passed is missing from the projection, unless it
\* was committed after a later position had been read: a later catchUp makes up
\* for every call that was missed or failed.
NothingSkipped ==
  \A p \in visible \intersect Handled :
    p <= checkpoint => p \in RowsOf(applied) \union overtaken

\* The same without the exception, as the documents have it.
NothingEverSkipped ==
  \A p \in visible \intersect Handled : p <= checkpoint => p \in RowsOf(applied)

\* Every committed event that was not overtaken reaches the projection, after
\* failures too, and the rows a rebuild deletes are replayed.
EventuallyApplied ==
  \A p \in Positions \intersect Handled :
    p \in visible ~> p \in RowsOf(applied) \union overtaken
===============================================================================
