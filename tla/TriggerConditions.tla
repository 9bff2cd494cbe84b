--------------------------- MODULE TriggerConditions --------------------------
(***************************************************************************)
(* A conditional automation trigger: evaluateOnce and evaluateTrigger of   *)
(* automation/trigger-condition-evaluator.service.ts, the objects that     *)
(* match in the read model and the rows of automation_trigger_matches.     *)
(*                                                                         *)
(* A trigger fires on a rising edge, when an object matches that has no    *)
(* row yet.  Runs overlap as those of TriggerScheduler do, and the two     *)
(* sets that a run compares are read one after the other.                  *)
(***************************************************************************)
EXTENDS Integers, FiniteSets

CONSTANTS
  Object,
  Run,                    \* runs that may overlap
  MaxNewMatchesPerTick,   \* 50 in the code
  MaxChanges,             \* bound: changes of what matches
  MaxClashes,             \* bound: runs begun while another is under way
  MaxMishaps              \* bound: calls that fail, runs that die

EvaluatorAssumption == IsFiniteSet(Run) /\ IsFiniteSet(Object) /\ MaxChanges \in Nat

VARIABLES
  live,       \* the trigger and the field it looks at are active
  matching,   \* objects whose field satisfies the condition
  stored,     \* rows of automation_trigger_matches
  run,        \* locals of each run
  changes,    \* changes of matching so far
  fired,      \* history: objects fired for since they began to match
  repeated,   \* history: firings for an object already in fired
  clashes,    \* history: runs begun while another was under way
  mishaps     \* history: failures so far

vars == <<live, matching, stored, run, changes, fired, repeated, clashes, mishaps>>

Idle == [at |-> "idle"]

Init ==
  /\ live = TRUE
  /\ matching = {}
  /\ stored = {}
  /\ run = [r \in Run |-> Idle]
  /\ changes = 0
  /\ fired = {}
  /\ repeated = 0
  /\ clashes = 0
  /\ mishaps = 0

-------------------------------------------------------------------------------
\* The active triggers, the field definition and then the objects are read.
\* Bound: no more clashes than MaxClashes.
ReadCurrent(r) ==
  /\ run[r].at = "idle"
  /\ live
  /\ run' = [run EXCEPT ![r] = [at |-> "previous", current |-> matching]]
  /\ clashes' = clashes + Cardinality({s \in Run : run[s].at # "idle"})
  /\ clashes' <= MaxClashes
  /\ UNCHANGED <<live, matching, stored, changes, fired, repeated, mishaps>>

TooMany(newly) == Cardinality(newly) > MaxNewMatchesPerTick

\* Faulty variant of ReadPrevious: rows of objects that ceased to match are kept.
ReadPreviousKeeping(r) ==
  LET newly == run[r].current \ stored IN
  /\ run[r].at = "previous"
  /\ run' = [run EXCEPT ![r] = [at |-> "loop", drop |-> {}, fire |-> newly]]
  /\ UNCHANGED <<live, matching, stored, changes, fired, repeated, clashes, mishaps>>

\* With too many new matches the whole tick is rejected.
ReadPrevious(r) ==
  LET newly == run[r].current \ stored IN
  /\ run[r].at = "previous"
  /\ run' = [run EXCEPT ![r] =
               IF TooMany(newly) THEN Idle
               ELSE [at |-> "loop", drop |-> stored \ run[r].current, fire |-> newly]]
  /\ UNCHANGED <<live, matching, stored, changes, fired, repeated, clashes, mishaps>>

\* The rows of objects that match no longer go first.
DeleteRow(r) ==
  /\ run[r].at = "loop"
  /\ \E o \in run[r].drop :
       /\ stored' = stored \ {o}
       /\ run' = [run EXCEPT ![r].drop = @ \ {o}]
  /\ UNCHANGED <<live, matching, changes, fired, repeated, clashes, mishaps>>

\* What proposeFromTrigger leaves behind: a proposal, carried out or not.
Fires(o) ==
  /\ fired' = fired \union {o}
  /\ repeated' = IF o \in fired THEN repeated + 1 ELSE repeated

Propose(r) ==
  /\ run[r].at = "loop"
  /\ run[r].drop = {}
  /\ \E o \in run[r].fire :
       /\ Fires(o)
       /\ run' = [run EXCEPT ![r] = [at |-> "insert", fire |-> run[r].fire \ {o}, object |-> o]]
  /\ UNCHANGED <<live, matching, stored, changes, clashes, mishaps>>

\* The call throws, before or after its effects: the loop goes on with the next object.
ProposeFails(r) ==
  /\ run[r].at = "loop"
  /\ run[r].drop = {}
  /\ mishaps < MaxMishaps
  /\ mishaps' = mishaps + 1
  /\ \E o \in run[r].fire :
       /\ Fires(o) \/ UNCHANGED <<fired, repeated>>
       /\ run' = [run EXCEPT ![r].fire = @ \ {o}]
  /\ UNCHANGED <<live, matching, stored, changes, clashes>>

\* A row that another run inserted meanwhile violates the primary key; that
\* too is caught, and the loop goes on.
InsertRow(r) ==
  /\ run[r].at = "insert"
  /\ stored' = stored \union {run[r].object}
  /\ run' = [run EXCEPT ![r] = [at |-> "loop", drop |-> {}, fire |-> run[r].fire]]
  /\ UNCHANGED <<live, matching, changes, fired, repeated, clashes, mishaps>>

InsertFails(r) ==
  /\ run[r].at = "insert"
  /\ mishaps < MaxMishaps
  /\ mishaps' = mishaps + 1
  /\ run' = [run EXCEPT ![r] = [at |-> "loop", drop |-> {}, fire |-> run[r].fire]]
  /\ UNCHANGED <<live, matching, stored, changes, fired, repeated, clashes>>

Finish(r) ==
  /\ run[r].at = "loop"
  /\ run[r].drop = {}
  /\ run[r].fire = {}
  /\ run' = [run EXCEPT ![r] = Idle]
  /\ UNCHANGED <<live, matching, stored, changes, fired, repeated, clashes, mishaps>>

\* A rejected read or delete ends the evaluation of the trigger, and so does
\* the death of the process.
Die(r) ==
  /\ run[r].at # "idle"
  /\ mishaps < MaxMishaps
  /\ mishaps' = mishaps + 1
  /\ run' = [run EXCEPT ![r] = Idle]
  /\ UNCHANGED <<live, matching, stored, changes, fired, repeated, clashes>>

\* A field value changes, an object is created or deleted.
Change(o) ==
  /\ changes < MaxChanges
  /\ changes' = changes + 1
  /\ matching' = IF o \in matching THEN matching \ {o} ELSE matching \union {o}
  /\ fired' = fired \ {o}
  /\ UNCHANGED <<live, stored, run, repeated, clashes, mishaps>>

\* The trigger is deleted or the field archived.
Retire ==
  /\ live
  /\ live' = FALSE
  /\ UNCHANGED <<matching, stored, run, changes, fired, repeated, clashes, mishaps>>

Step(r) ==
  \/ ReadCurrent(r) \/ ReadPrevious(r) \/ DeleteRow(r)
  \/ Propose(r) \/ ProposeFails(r) \/ InsertRow(r) \/ InsertFails(r) \/ Finish(r)

Next ==
  \/ \E r \in Run : Step(r) \/ Die(r)
  \/ \E o \in Object : Change(o)
  \/ Retire

\* The timer starts a run again and again, and the promises it awaits settle.
Fairness == \A r \in Run : WF_vars(Step(r))

Spec == Init /\ [][Next]_vars /\ Fairness

-------------------------------------------------------------------------------
TypeOK ==
  /\ live \in BOOLEAN
  /\ matching \subseteq Object
  /\ stored \subseteq Object
  /\ fired \subseteq Object
  /\ changes \in 0..MaxChanges
  /\ mishaps \in 0..MaxMishaps
  /\ \A r \in Run : run[r].at \in {"idle", "previous", "loop", "insert"}

\* A trigger fires twice for an object that has matched all along only if runs
\* overlapped, which costs at most one firing for each object, or a call failed,
\* which costs at most one.
RepeatsPaidFor == repeated <= Cardinality(Object) * clashes + mishaps

\* Once nothing changes, the rows come to be the objects that match, and each
\* of these was fired for; unless the trigger is retired, or so many match anew
\* that every tick is rejected.
RowsFollowMatches ==
  <>[](live /\ ~TooMany(matching \ stored)) => <>[](stored = matching)
===============================================================================
