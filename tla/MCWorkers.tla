------------------------------- MODULE MCWorkers ------------------------------
(***************************************************************************)
(* Small instances of what runs on timers and must get done: the leased    *)
(* queues, the trigger scheduler, the evaluator of conditions, the         *)
(* connection pool they all draw on, and the copies of a document that     *)
(* come to agree.  Each is modelled with what it needs of the others as    *)
(* failures and waits, so they share no state here: a behaviour is one of  *)
(* one of them, and part says whose.                                       *)
(***************************************************************************)
EXTENDS LeasedJobs, Sequences, TLC

CONSTANTS
  First,                               \* the mention that may meet failures
  Trigger, Interval, MaxNow,           \* of the scheduler
  Object, MaxNewMatchesPerTick, MaxChanges,   \* of the evaluator
  MaxClashes,                          \* of both
  c1, c2, c3, proposals, records, workspace, Conn, Capacity, MaxReads   \* of the pool

VARIABLES
  part,
  now, active, lastFiredAt, firing, firedAt, early, collisions, accidents,
  live, matching, stored, evaluation, changes, fired, repeated, overlaps, slips,
  mode, depth, reads, queue,
  ws, conn, text, room, saved, up, down, breaks

schedulerVars ==
  <<now, active, lastFiredAt, firing, firedAt, early, collisions, accidents>>
evaluatorVars ==
  <<live, matching, stored, evaluation, changes, fired, repeated, overlaps, slips>>
poolVars == <<mode, depth, reads, queue>>
docVars == <<ws, conn, text, room, saved, up, down, breaks>>

S == INSTANCE TriggerScheduler WITH
       run <- firing, clashes <- collisions, mishaps <- accidents
E == INSTANCE TriggerConditions WITH
       run <- evaluation, clashes <- overlaps, mishaps <- slips

\* Two catch-ups, and one inside the AI lock: with one connection more than
\* they can hold while each still wants one.
CatchUpOf(p) == <<Conn, p, Conn>>
LockedWork(l, p) == <<Conn, l>> \o CatchUpOf(p)
MixedWork == c1 :> CatchUpOf(proposals) @@ c2 :> CatchUpOf(records)
               @@ c3 :> LockedWork(workspace, proposals)
P == INSTANCE ConnectionPool WITH
       Request <- {c1, c2, c3}, Lock <- {proposals, records, workspace},
       Needs <- MixedWork

Editors == {c1, c2}
D == INSTANCE DocSync WITH
       Client <- Editors, Edit <- {1}, mishaps <- breaks

ASSUME SchedulerIsSound == S!SchedulerAssumption
ASSUME EvaluatorIsSound == E!EvaluatorAssumption
ASSUME PoolIsSound == P!PoolAssumption

\* What jobs there are in one behaviour: deliveries and mentions have tables and
\* workers of their own, so they need not be mixed; two mentions compete for
\* their agent's limits, and are combined with no failures.
Enqueued == {j \in Job : status[j] # "none"}
Scenario ==
  \/ Enqueued \subseteq Webhook
  \/ Enqueued \subseteq Mention /\ \A j \in Job : mishaps[j] = 0
  \/ \E k \in First : Enqueued = {k}

WorkersInit ==
  /\ part \in {"jobs", "scheduler", "evaluator", "pool", "document"}
  /\ Init /\ S!Init /\ E!Init /\ P!Init /\ D!Init

WorkersNext ==
  \/ part = "jobs" /\ Next /\ Scenario' /\ UNCHANGED <<part, schedulerVars, evaluatorVars, poolVars, docVars>>
  \/ part = "scheduler" /\ S!Next /\ UNCHANGED <<part, vars, evaluatorVars, poolVars, docVars>>
  \/ part = "evaluator" /\ E!Next /\ UNCHANGED <<part, vars, schedulerVars, poolVars, docVars>>
  \/ part = "pool" /\ P!Next /\ UNCHANGED <<part, vars, schedulerVars, evaluatorVars, docVars>>
  \/ part = "document" /\ D!Next /\ UNCHANGED <<part, vars, schedulerVars, evaluatorVars, poolVars>>

\* The fairness of each component, for the behaviours that are its own.
Fairness ==
  /\ \A j \in Job : WF_vars(part = "jobs" /\ Pass(j) /\ Scenario')
  /\ \A r \in Run : /\ WF_vars(part = "jobs" /\ Select(r) /\ Scenario')
                    /\ WF_vars(part = "jobs" /\ RunStep(r) /\ Scenario')
                    /\ WF_schedulerVars(part = "scheduler" /\ S!Step(r))
                    /\ WF_evaluatorVars(part = "evaluator" /\ E!Step(r))
  /\ WF_poolVars(part = "pool" /\ P!Grant)
  /\ \A c \in {c1, c2, c3} : /\ WF_poolVars(part = "pool" /\ P!Advance(c))
                             /\ SF_poolVars(part = "pool" /\ P!TakeLock(c))
  /\ \A c \in Editors : WF_docVars(part = "document" /\ D!Progress(c))

WorkersSpec ==
  /\ WorkersInit
  /\ [][WorkersNext]_<<part, vars, schedulerVars, evaluatorVars, poolVars, docVars>>
  /\ Fairness

-------------------------------------------------------------------------------
\* Each conjunct is a property of its module, for the behaviours of that component.

\* The types of every component.
TypesOK ==
  /\ part = "jobs" => TypeOK
  /\ part = "scheduler" => S!TypeOK
  /\ part = "evaluator" => E!TypeOK
  /\ part = "pool" => P!TypeOK
  /\ part = "document" => D!TypeOK

\* Leased jobs: overlapping runs never work on one row, a subscriber gets a
\* delivery once and a mention one reply, a job is tried MAX_ATTEMPTS times, and
\* what a finished row says is what happened; all but for what outlived its lease
\* or failed.
JobsHold ==
  part = "jobs" => OneClaimant /\ EffectsPaidFor /\ TriesBounded /\ OutcomeTrue

\* An agent's limits: slots and lock are held by exactly the actions inside, and
\* the hourly limit holds for overlapping ones.
LimitsHold == part = "jobs" => NothingLeaks /\ RateRespected

\* A trigger fires early, or twice for an object that has matched all along,
\* only at the price of an overlap or a failure.
FiringsPaidFor ==
  /\ part = "scheduler" => S!EarlyFiringsPaidFor
  /\ part = "evaluator" => E!RepeatsPaidFor

\* A trigger that is due is fired and marked; the rows come to be the objects
\* that match; every request that begins gives its connections back; the open copies
\* of a document come to agree with its room.
WorkGetsDone ==
  /\ part = "scheduler" => S!DueIsFired
  /\ part = "evaluator" => E!RowsFollowMatches
  /\ part = "pool" => P!RequestsFinish
  /\ part = "document" => D!CopiesAgree
===============================================================================
