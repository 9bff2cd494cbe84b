--------------------------- MODULE TriggerScheduler ---------------------------
(***************************************************************************)
(* Scheduled automation triggers: runOnce of automation/                   *)
(* trigger-scheduler.service.ts over the rows of automation_triggers.      *)
(*                                                                         *)
(* The interval timer starts a run without waiting for the one before it,  *)
(* and every server process has a timer, so that runs overlap.  A run      *)
(* decides on the lastFiredAt it selected, and nothing claims a trigger    *)
(* before it fires.  Time is counted in scheduler ticks.                   *)
(***************************************************************************)
EXTENDS Integers, FiniteSets

CONSTANTS
  Trigger,
  Run,          \* runs that may overlap
  Interval,     \* ticks between two firings of a trigger
  MaxNow,       \* bound: ticks
  MaxClashes,   \* bound: selections of a trigger that another run had still to do
  MaxMishaps    \* bound: calls that fail, runs that die

SchedulerAssumption == IsFiniteSet(Run) /\ Interval \in Nat \ {0} /\ MaxNow \in Nat

VARIABLES
  now,
  active,       \* triggers whose row is active
  lastFiredAt,  \* of each row; Never at first
  run,          \* locals of each run
  firedAt,      \* history: when each trigger was last proposed, mark or no mark
  early,        \* history: firings of a trigger within Interval of the one before
  clashes,      \* history: selections of a trigger another run had still to do
  mishaps       \* history: failures so far

vars == <<now, active, lastFiredAt, run, firedAt, early, clashes, mishaps>>

Never == 0 - Interval
Idle == [at |-> "idle", rows |-> {}]

Init ==
  /\ now = 0
  /\ active = Trigger
  /\ lastFiredAt = [t \in Trigger |-> Never]
  /\ run = [r \in Run |-> Idle]
  /\ firedAt = [t \in Trigger |-> Never]
  /\ early = [t \in Trigger |-> 0]
  /\ clashes = [t \in Trigger |-> 0]
  /\ mishaps = 0

-------------------------------------------------------------------------------
IsDue(last) == last = Never \/ now - last >= Interval

\* The triggers that run r has selected and not finished with.
Undone(r) == {row.trigger : row \in run[r].rows}

\* Bound: no more clashes than MaxClashes.
Select(r) ==
  /\ run[r].at = "idle"
  /\ run' = [run EXCEPT ![r] =
               [at |-> "loop",
                rows |-> {[trigger |-> t, last |-> lastFiredAt[t]] : t \in active}]]
  /\ clashes' = [t \in Trigger |->
                   IF t \in active
                     THEN clashes[t] + Cardinality({s \in Run : t \in Undone(s)})
                     ELSE clashes[t]]
  /\ \A t \in Trigger : clashes'[t] <= MaxClashes
  /\ UNCHANGED <<now, active, lastFiredAt, firedAt, early, mishaps>>

Skip(r) ==
  /\ run[r].at = "loop"
  /\ \E row \in run[r].rows :
       /\ ~IsDue(row.last)
       /\ run' = [run EXCEPT ![r].rows = @ \ {row}]
  /\ UNCHANGED <<now, active, lastFiredAt, firedAt, early, clashes, mishaps>>

\* What proposeFromTrigger leaves behind: a proposal, carried out or not.
Fires(t) ==
  /\ early' = [early EXCEPT ![t] = IF now - firedAt[t] < Interval THEN @ + 1 ELSE @]
  /\ firedAt' = [firedAt EXCEPT ![t] = now]

Propose(r) ==
  /\ run[r].at = "loop"
  /\ \E row \in run[r].rows :
       /\ IsDue(row.last)
       /\ Fires(row.trigger)
       /\ run' = [run EXCEPT ![r] = [at |-> "mark", rows |-> run[r].rows, row |-> row]]
  /\ UNCHANGED <<now, active, lastFiredAt, clashes, mishaps>>

\* The call throws, before or after its effects: the loop goes on with the next row.
ProposeFails(r) ==
  /\ run[r].at = "loop"
  /\ mishaps < MaxMishaps
  /\ mishaps' = mishaps + 1
  /\ \E row \in run[r].rows :
       /\ IsDue(row.last)
       /\ Fires(row.trigger) \/ UNCHANGED <<firedAt, early>>
       /\ run' = [run EXCEPT ![r].rows = @ \ {row}]
  /\ UNCHANGED <<now, active, lastFiredAt, clashes>>

\* Faulty variant of Mark: the time that was selected is written back.
MarkStale(r) ==
  /\ run[r].at = "mark"
  /\ lastFiredAt' = [lastFiredAt EXCEPT ![run[r].row.trigger] = run[r].row.last]
  /\ run' = [run EXCEPT ![r] = [at |-> "loop", rows |-> run[r].rows \ {run[r].row}]]
  /\ UNCHANGED <<now, active, firedAt, early, clashes, mishaps>>

\* lastFiredAt is set to the time of the update.
Mark(r) ==
  /\ run[r].at = "mark"
  /\ lastFiredAt' = [lastFiredAt EXCEPT ![run[r].row.trigger] = now]
  /\ run' = [run EXCEPT ![r] = [at |-> "loop", rows |-> run[r].rows \ {run[r].row}]]
  /\ UNCHANGED <<now, active, firedAt, early, clashes, mishaps>>

MarkFails(r) ==
  /\ run[r].at = "mark"
  /\ mishaps < MaxMishaps
  /\ mishaps' = mishaps + 1
  /\ run' = [run EXCEPT ![r] = [at |-> "loop", rows |-> run[r].rows \ {run[r].row}]]
  /\ UNCHANGED <<now, active, lastFiredAt, firedAt, early, clashes>>

Finish(r) ==
  /\ run[r].at = "loop"
  /\ run[r].rows = {}
  /\ run' = [run EXCEPT ![r] = Idle]
  /\ UNCHANGED <<now, active, lastFiredAt, firedAt, early, clashes, mishaps>>

Die(r) ==
  /\ run[r].at # "idle"
  /\ mishaps < MaxMishaps
  /\ mishaps' = mishaps + 1
  /\ run' = [run EXCEPT ![r] = Idle]
  /\ UNCHANGED <<now, active, lastFiredAt, firedAt, early, clashes>>

\* AutomationTriggersService.delete, seen from the row.
Delete(t) ==
  /\ t \in active
  /\ active' = active \ {t}
  /\ UNCHANGED <<now, lastFiredAt, run, firedAt, early, clashes, mishaps>>

Tick ==
  /\ now < MaxNow
  /\ now' = now + 1
  /\ UNCHANGED <<active, lastFiredAt, run, firedAt, early, clashes, mishaps>>

Step(r) ==
  Select(r) \/ Skip(r) \/ Propose(r) \/ ProposeFails(r) \/ Mark(r) \/ MarkFails(r) \/ Finish(r)

Next ==
  \/ \E r \in Run : Step(r) \/ Die(r)
  \/ \E t \in Trigger : Delete(t)
  \/ Tick

\* The timer starts a run again and again, and the promises it awaits settle.
Fairness == \A r \in Run : WF_vars(Step(r))

Spec == Init /\ [][Next]_vars /\ Fairness

-------------------------------------------------------------------------------
TypeOK ==
  /\ now \in 0..MaxNow
  /\ active \subseteq Trigger
  /\ lastFiredAt \in [Trigger -> {Never} \union 0..now]
  /\ firedAt \in [Trigger -> {Never} \union 0..now]
  /\ \A r \in Run : /\ run[r].at \in {"idle", "loop", "mark"}
                    /\ run[r].rows \subseteq [trigger : Trigger, last : {Never} \union 0..now]
  /\ mishaps \in 0..MaxMishaps

\* A trigger fires twice within its interval only if a run selected it before
\* another had finished with it, or a call failed: each of these costs at most
\* one firing.
EarlyFiringsPaidFor == \A t \in Trigger : early[t] <= clashes[t] + mishaps

\* A trigger whose interval has passed, or that never fired, is fired and
\* marked, whatever failed before, unless it is deleted.
DueIsFired ==
  \A t \in Trigger :
    now - lastFiredAt[t] >= Interval ~> now - lastFiredAt[t] < Interval \/ t \notin active
===============================================================================
