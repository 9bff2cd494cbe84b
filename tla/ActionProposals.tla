---------------------------- MODULE ActionProposals ----------------------------
(***************************************************************************)
(* CommandsService (apps/server/src/commands): one proposal of AI actions, *)
(* from the autonomy dial to the ledger and to undo.  The proposal has an  *)
(* event stream of its own, ActionsProposed at version 1 and               *)
(* ActionsDecided at version 2; command_proposals and agent_action_records *)
(* are read models that catch up with the log.  Every await is a step, so  *)
(* calls interleave there; any of them may fail, and the process may die.  *)
(***************************************************************************)
EXTENDS Integers, Sequences, FiniteSets

CONSTANTS
  Action,      \* the actions the model proposed
  Titles,      \* how many tasks an action creates, 0 for other kinds
  Subtasks,    \* generateSubtasks: each task also gets a relation
  Decisions,   \* the lists of decisions a caller may send
  Caller,      \* concurrent calls of decide and undoAction
  Proposer,    \* the call that proposes
  MaxFailures  \* bound: failed database calls and crashes

Decision == [action : Action, verdict : {"approved", "rejected"}]

\* A list that approves each action of S once: what decideAsSystem sends.
Approves(d, S) ==
  /\ {d[i].action : i \in DOMAIN d} = S
  /\ \A i, j \in DOMAIN d : d[i].action = d[j].action => i = j
  /\ \A i \in DOMAIN d : d[i].verdict = "approved"

ASSUME ActionAssumption ==
  /\ Titles \in [Action -> Nat]
  /\ Subtasks \subseteq {a \in Action : Titles[a] > 0}
  /\ Decisions \subseteq Seq(Decision)
  /\ \A S \in SUBSET Action : \E d \in Decisions : Approves(d, S)
  /\ Proposer \in Caller
  /\ MaxFailures \in Nat

VARIABLES
  tier,        \* resolveTier of each action
  version,     \* of the proposal's stream
  decision,    \* payload of ActionsDecided
  bySystem,    \* its actor is AUTONOMY_DIAL_ACTOR
  row,         \* the version command_proposals reflects
  objects,     \* the tasks actions create
  ledger,      \* AgentActionRecorded events, in the order of the log
  ledgerRows,  \* how many of them agent_action_records holds
  job,         \* locals of each call
  execs,       \* history: how often an action was dispatched
  failures

storeVars == <<tier, version, decision, bySystem, row>>
ledgerVars == <<ledger, ledgerRows>>
vars == <<storeVars, objects, ledgerVars, job, execs, failures>>

Tier == {"propose", "act_and_notify", "approve_and_act"}
Task == UNION {{a} \X (1..Titles[a]) : a \in Action}
Entry == [action : Action, resources : SUBSET Nat, undoes : Nat,
          outcome : {"none", "succeeded", "partially_succeeded", "failed",
                     "rejected"}]

ForAction(a) ==
  [action |-> a, resources |-> {}, undoes |-> 0, outcome |-> "none"]

NoEntry == ForAction(CHOOSE a \in Action : TRUE)

IdleJob == [at |-> "idle", todo |-> <<>>, handled |-> {}, onward |-> "idle",
            system |-> FALSE, step |-> 0, left |-> {}, entry |-> NoEntry]

Autonomous == {a \in Action : tier[a] = "act_and_notify"}
Remaining  == Action \ Autonomous

\* The first entry for an action counts.
Verdict(d, a, v) ==
  \E i \in DOMAIN d : /\ d[i] = [action |-> a, verdict |-> v]
                      /\ \A j \in 1..(i - 1) : d[j].action # a

Fails == failures < MaxFailures /\ failures' = failures + 1

At(c, label) == job[c].at = label
Return(c) == job' = [job EXCEPT ![c] = IdleJob]

Init ==
  /\ tier \in [Action -> Tier]
  /\ version = 0
  /\ decision = <<>>
  /\ bySystem = FALSE
  /\ row = 0
  /\ objects = [t \in Task |-> "none"]
  /\ ledger = <<>>
  /\ ledgerRows = 0
  /\ execs = [a \in Action |-> 0]
  /\ failures = 0
  /\ \E d \in Decisions :
       /\ Approves(d, Autonomous)
       /\ job = [c \in Caller |->
                   IF c = Proposer
                     THEN [IdleJob EXCEPT !.at = "next", !.todo = d,
                                          !.onward = "record"]
                     ELSE IdleJob]

-------------------------------------------------------------------------------
\* The loops over actions: those of the act_and_notify tier before the
\* proposal is recorded, and the decided ones.
NextIs(c) == At(c, "next") /\ job[c].todo # <<>>
First(c) == Head(job[c].todo)

AlreadyHandled(c) == First(c).action \in job[c].handled

EndLoop(c) ==
  /\ At(c, "next")
  /\ job[c].todo = <<>>
  /\ job' = [job EXCEPT ![c] = [IdleJob EXCEPT !.at = job[c].onward]]
  /\ UNCHANGED <<storeVars, objects, ledgerVars, execs, failures>>

SkipDuplicate(c) ==
  /\ NextIs(c)
  /\ AlreadyHandled(c)
  /\ job' = [job EXCEPT ![c].todo = Tail(@)]
  /\ UNCHANGED <<storeVars, objects, ledgerVars, execs, failures>>

\* Faulty variant of Reject: the rest of the list is forgotten.
RejectAll(c) ==
  /\ NextIs(c)
  /\ First(c).verdict = "rejected"
  /\ job' = [job EXCEPT ![c] = IdleJob]
  /\ UNCHANGED <<storeVars, objects, ledgerVars, execs, failures>>

\* A rejected action is only recorded.
Reject(c) ==
  /\ NextIs(c)
  /\ ~AlreadyHandled(c)
  /\ First(c).verdict = "rejected"
  /\ job' = [job EXCEPT ![c].todo = Tail(@), ![c].at = "ledger",
               ![c].handled = @ \union {First(c).action},
               ![c].entry = [ForAction(First(c).action)
                               EXCEPT !.outcome = "rejected"]]
  /\ UNCHANGED <<storeVars, objects, ledgerVars, execs, failures>>

Dispatch(c) ==
  /\ NextIs(c)
  /\ ~AlreadyHandled(c)
  /\ First(c).verdict = "approved"
  /\ execs' = [execs EXCEPT ![First(c).action] = @ + 1]
  /\ job' = [job EXCEPT ![c].todo = Tail(@), ![c].at = "work",
               ![c].handled = @ \union {First(c).action},
               ![c].step = 1, ![c].entry = ForAction(First(c).action)]
  /\ UNCHANGED <<storeVars, objects, ledgerVars, failures>>

-------------------------------------------------------------------------------
\* The executors.  The effect of an action that creates no task is the
\* dispatch itself.
Acting(c) == job[c].entry.action
Creating(c) == At(c, "work") /\ job[c].step <= Titles[Acting(c)]

\* createdIds gets the task, and the next title is next.
Count(c) ==
  job' = [job EXCEPT ![c].at = "work", ![c].step = @ + 1,
            ![c].entry.resources = @ \union {job[c].step}]

CreateTask(c) ==
  /\ Creating(c)
  /\ objects' = [objects EXCEPT ![<<Acting(c), job[c].step>>] = "live"]
  /\ IF Acting(c) \in Subtasks THEN job' = [job EXCEPT ![c].at = "relate"]
                               ELSE Count(c)
  /\ UNCHANGED <<storeVars, ledgerVars, execs, failures>>

Relate(c) ==
  /\ At(c, "relate")
  /\ Count(c)
  /\ UNCHANGED <<storeVars, objects, ledgerVars, execs, failures>>

Finish(c, outcome) ==
  job' = [job EXCEPT ![c].at = "ledger", ![c].step = 0, ![c].left = {},
            ![c].entry.outcome = outcome]

Executed(c) ==
  /\ At(c, "work")
  /\ ~Creating(c)
  /\ Finish(c, "succeeded")
  /\ UNCHANGED <<storeVars, objects, ledgerVars, execs, failures>>

\* A call throws: create before or after its append, or the relation.
Thrown(c) ==
  /\ At(c, "relate") \/ Creating(c) \/ (At(c, "work") /\ Titles[Acting(c)] = 0)
  /\ Fails
  /\ \/ UNCHANGED objects
     \/ /\ Creating(c)
        /\ objects' = [objects EXCEPT ![<<Acting(c), job[c].step>>] = "live"]
  /\ UNCHANGED <<storeVars, ledgerVars, execs>>

\* Faulty variant of ExecuteFails: the failing title is passed over.
ExecuteGoesOn(c) ==
  /\ Thrown(c)
  /\ job' = [job EXCEPT ![c].at = "work", ![c].step = @ + 1]

\* The loop over titles stops at the first failure.
ExecuteFails(c) ==
  /\ Thrown(c)
  /\ Finish(c, IF job[c].entry.resources = {} THEN "failed"
                                               ELSE "partially_succeeded")

\* The ledger is best effort: record never throws.
Recorded(c) == job' = [job EXCEPT ![c].at = "next", ![c].entry = NoEntry]

RecordEntry(c) ==
  /\ At(c, "ledger")
  /\ ledger' = Append(ledger, job[c].entry)
  /\ ledgerRows' = Len(ledger')
  /\ Recorded(c)
  /\ UNCHANGED <<storeVars, objects, execs, failures>>

\* Faulty variant of RecordEntryFails: the row is written without the event.
RecordRowOnly(c) ==
  /\ At(c, "ledger")
  /\ Fails
  /\ ledgerRows' = ledgerRows + 1
  /\ Recorded(c)
  /\ UNCHANGED <<storeVars, objects, ledger, execs>>

RecordEntryFails(c) ==
  /\ At(c, "ledger")
  /\ Fails
  /\ ledger' \in {ledger, Append(ledger, job[c].entry)}
  /\ Recorded(c)
  /\ UNCHANGED <<storeVars, objects, ledgerRows, execs>>

-------------------------------------------------------------------------------
\* recordProposal: a new stream, so nobody can be in the way.
RecordProposal(c) ==
  /\ At(c, "record")
  /\ version' = 1
  /\ job' = [job EXCEPT ![c].at = "publish"]
  /\ UNCHANGED <<tier, decision, bySystem, row, objects, ledgerVars, execs,
                 failures>>

\* Faulty variant of AutoDecided: one such action is enough.
SomeAutoDecided == \E a \in Remaining : tier[a] = "approve_and_act"

\* The system decides if every remaining action is of the approve_and_act
\* tier; one that is not keeps the whole rest waiting for a human.
AutoDecided == /\ Remaining # {}
               /\ \A a \in Remaining : tier[a] = "approve_and_act"

PublishProposal(c) ==
  /\ At(c, "publish")
  /\ row' = version
  /\ IF AutoDecided
       THEN \E d \in Decisions :
              /\ Approves(d, Remaining)
              /\ job' = [job EXCEPT ![c] = [IdleJob EXCEPT !.at = "check",
                                              !.todo = d, !.system = TRUE]]
       ELSE Return(c)
  /\ UNCHANGED <<tier, version, decision, bySystem, objects, ledgerVars,
                 execs, failures>>

\* A member calls decide.
StartDecide(c, d) ==
  /\ At(c, "idle")
  /\ job' = [job EXCEPT ![c].at = "check", ![c].todo = d]
  /\ UNCHANGED <<storeVars, objects, ledgerVars, execs, failures>>

\* decide reads the row: unknown, already decided, or unknown actions end it.
ReadProposal(c) ==
  /\ At(c, "check")
  /\ IF row = 1 /\ \A i \in DOMAIN job[c].todo :
                     job[c].todo[i].action \in Remaining
       THEN job' = [job EXCEPT ![c].at = "append"]
       ELSE Return(c)
  /\ UNCHANGED <<storeVars, objects, ledgerVars, execs, failures>>

\* append(streamId, 1, ActionsDecided) takes effect.
StoreDecision(c) ==
  /\ version' = 2
  /\ decision' = job[c].todo
  /\ bySystem' = job[c].system

\* Faulty variant of AppendDecision: no expected version.
AppendUnchecked(c) ==
  /\ At(c, "append")
  /\ StoreDecision(c)
  /\ job' = [job EXCEPT ![c].at = "refresh"]
  /\ UNCHANGED <<tier, row, objects, ledgerVars, execs, failures>>

AppendDecision(c) ==
  /\ At(c, "append")
  /\ IF version = 1
       THEN StoreDecision(c) /\ job' = [job EXCEPT ![c].at = "refresh"]
       ELSE UNCHANGED <<version, decision, bySystem>> /\ Return(c)
  /\ UNCHANGED <<tier, row, objects, ledgerVars, execs, failures>>

RefreshRow(c) ==
  /\ At(c, "refresh")
  /\ row' = version
  /\ job' = [job EXCEPT ![c].at = "next"]
  /\ UNCHANGED <<tier, version, decision, bySystem, objects, ledgerVars, execs,
                 failures>>

\* An await of propose, decide or undoAction outside of the executors
\* rejects; an append may have taken effect all the same.
CallFails(c) ==
  /\ job[c].at \in {"record", "publish", "check", "append", "refresh", "lookup"}
  /\ Fails
  /\ \/ UNCHANGED <<version, decision, bySystem>>
     \/ At(c, "record") /\ version' = 1 /\ UNCHANGED <<decision, bySystem>>
     \/ At(c, "append") /\ version = 1 /\ StoreDecision(c)
  /\ Return(c)
  /\ UNCHANGED <<tier, row, objects, ledgerVars, execs>>

-------------------------------------------------------------------------------
\* undoAction for the record in row i, if its rollback plan is "delete".
CanUndo(i) ==
  /\ ledger[i].undoes = 0
  /\ ledger[i].outcome \in {"succeeded", "partially_succeeded"}
  /\ Titles[ledger[i].action] > 0

StartUndo(c, i) ==
  /\ At(c, "idle")
  /\ i \in 1..ledgerRows
  /\ CanUndo(i)
  /\ job' = [job EXCEPT ![c].at = "lookup", ![c].left = ledger[i].resources,
               ![c].entry = [ledger[i] EXCEPT !.outcome = "none",
                                              !.undoes = i]]
  /\ UNCHANGED <<storeVars, objects, ledgerVars, execs, failures>>

\* findUndoRecord
LookupUndo(c) ==
  /\ At(c, "lookup")
  /\ IF \E j \in 1..ledgerRows : ledger[j].undoes = job[c].entry.undoes
       THEN Return(c)
       ELSE job' = [job EXCEPT ![c].at = "delete"]
  /\ UNCHANGED <<storeVars, objects, ledgerVars, execs, failures>>

IsNextTarget(c, k) == k \in job[c].left /\ \A j \in job[c].left : k <= j

UndoFailed(c) ==
  Finish(c, IF job[c].left = job[c].entry.resources
              THEN "failed" ELSE "partially_succeeded")

\* Faulty variant of SoftDelete: deleting a deleted task succeeds.
SoftDeleteAgain(c) ==
  /\ At(c, "delete")
  /\ \E k \in job[c].left :
       /\ IsNextTarget(c, k)
       /\ objects' = [objects EXCEPT ![<<Acting(c), k>>] = "deleted"]
       /\ job' = [job EXCEPT ![c].left = @ \ {k}]
  /\ UNCHANGED <<storeVars, ledgerVars, execs, failures>>

\* softDelete reads the task's stream and appends at the version it read: a
\* task that is deleted, or is being deleted, is refused.
SoftDelete(c) ==
  /\ At(c, "delete")
  /\ \E k \in job[c].left :
       /\ IsNextTarget(c, k)
       /\ IF objects[<<Acting(c), k>>] = "live"
            THEN /\ objects' = [objects EXCEPT ![<<Acting(c), k>>] = "deleted"]
                 /\ job' = [job EXCEPT ![c].left = @ \ {k}]
            ELSE UndoFailed(c) /\ UNCHANGED objects
  /\ UNCHANGED <<storeVars, ledgerVars, execs, failures>>

\* The call throws, before or after its append.
SoftDeleteFails(c) ==
  /\ At(c, "delete")
  /\ Fails
  /\ \E k \in job[c].left :
       /\ IsNextTarget(c, k)
       /\ \/ UNCHANGED objects
          \/ /\ objects[<<Acting(c), k>>] = "live"
             /\ objects' = [objects EXCEPT ![<<Acting(c), k>>] = "deleted"]
  /\ UndoFailed(c)
  /\ UNCHANGED <<storeVars, ledgerVars, execs>>

Undone(c) ==
  /\ At(c, "delete")
  /\ job[c].left = {}
  /\ Finish(c, "succeeded")
  /\ UNCHANGED <<storeVars, objects, ledgerVars, execs, failures>>

-------------------------------------------------------------------------------
\* A member deletes a task by hand.
DeleteByHand(t) ==
  /\ objects[t] = "live"
  /\ objects' = [objects EXCEPT ![t] = "deleted"]
  /\ UNCHANGED <<storeVars, ledgerVars, job, execs, failures>>

\* Other requests catch the read models up.
CatchUpElsewhere ==
  /\ row' = version
  /\ ledgerRows' = Len(ledger)
  /\ UNCHANGED <<tier, version, decision, bySystem, objects, ledger, job,
                 execs, failures>>

\* The process dies; what was in memory is gone.
Crash ==
  /\ \E c \in Caller : ~At(c, "idle")
  /\ Fails
  /\ job' = [c \in Caller |-> IdleJob]
  /\ UNCHANGED <<storeVars, objects, ledgerVars, execs>>

\* What an open call does by itself.
CallStep(c) ==
  \/ EndLoop(c) \/ SkipDuplicate(c) \/ Reject(c) \/ Dispatch(c)
  \/ CreateTask(c) \/ Relate(c) \/ Executed(c) \/ RecordEntry(c)
  \/ RecordProposal(c) \/ PublishProposal(c)
  \/ ReadProposal(c) \/ AppendDecision(c) \/ RefreshRow(c)
  \/ LookupUndo(c) \/ SoftDelete(c) \/ Undone(c)

Disturbed(c) ==
  ExecuteFails(c) \/ RecordEntryFails(c) \/ CallFails(c) \/ SoftDeleteFails(c)

Next ==
  \/ \E c \in Caller : CallStep(c) \/ Disturbed(c)
  \/ \E c \in Caller, d \in Decisions : StartDecide(c, d)
  \/ \E c \in Caller, i \in DOMAIN ledger : StartUndo(c, i)
  \/ \E t \in Task : DeleteByHand(t)
  \/ CatchUpElsewhere
  \/ Crash

Spec == Init /\ [][Next]_vars

\* A call that has started is run on by the event loop and the database.
\* Members owe nothing.
FairSpec == Spec /\ \A c \in Caller : WF_vars(CallStep(c))

-------------------------------------------------------------------------------
TypeOK ==
  /\ tier \in [Action -> Tier]
  /\ version \in 0..2
  /\ decision \in Seq(Decision)
  /\ bySystem \in BOOLEAN
  /\ row \in 0..version
  /\ objects \in [Task -> {"none", "live", "deleted"}]
  /\ ledger \in Seq(Entry)
  /\ ledgerRows \in 0..Len(ledger)
  /\ job \in [Caller ->
       [at : {"idle", "next", "work", "relate", "ledger", "record", "publish",
              "check", "append", "refresh", "lookup", "delete"},
        todo : Seq(Decision), handled : SUBSET Action,
        onward : {"idle", "record"}, system : BOOLEAN, step : Nat,
        left : SUBSET Nat, entry : Entry \union {NoEntry}]]
  /\ execs \in [Action -> Nat]
  /\ failures \in 0..MaxFailures

\* An action is carried out only if the autonomy dial exempts it or the
\* recorded decision approves it; and one whose tier is "propose" only if a
\* human decided.
OnlyWhenAllowed ==
  \A a \in Action : execs[a] > 0 =>
    \/ a \in Autonomous
    \/ /\ version = 2
       /\ Verdict(decision, a, "approved")
       /\ tier[a] = "propose" => ~bySystem

\* The ledger does not lie: an action has one record, "succeeded" names every
\* task the action was to create, a rejected action was not carried out, and
\* what a record names was created.
LedgerIsTrue ==
  \A i \in DOMAIN ledger :
    LET e == ledger[i] IN
    e.undoes = 0 =>
      /\ \A j \in DOMAIN ledger :
           ledger[j].undoes = 0 /\ ledger[j].action = e.action => i = j
      /\ e.outcome = "succeeded" => e.resources = 1..Titles[e.action]
      /\ e.outcome = "rejected" => execs[e.action] = 0
      /\ \A k \in e.resources : objects[<<e.action, k>>] # "none"

\* An undo recorded as succeeded left none of the record's tasks, and of racing
\* undos at most one succeeds (undoAction: the guarantee comes from softDelete's
\* optimistic concurrency).
UndoneOnce ==
  LET succeeded == {i \in DOMAIN ledger :
                      ledger[i].undoes # 0 /\ ledger[i].outcome = "succeeded"}
  IN \A i \in succeeded :
       /\ \A k \in ledger[i].resources :
            objects[<<ledger[i].action, k>>] = "deleted"
       /\ \A j \in succeeded : ledger[i].undoes = ledger[j].undoes => i = j

\* What a decision approves is carried out, to the last action, unless a
\* failure or a crash intervenes: decide does not finish early, and nothing
\* it waits for waits for it.
ApprovedIsCarriedOut ==
  version = 2 ~>
    \/ failures > 0
    \/ \A a \in Action : Verdict(decision, a, "approved") => execs[a] > 0

\* The service implements what the workspace is promised.
Contract == INSTANCE ActionContract WITH
  exempt <- Autonomous,
  verdict <- [a \in Action |-> CASE Verdict(decision, a, "approved") -> "approved"
                                 [] Verdict(decision, a, "rejected") -> "rejected"
                                 [] OTHER -> "none"],
  closed <- (version = 2),
  count <- execs

ImplementsContract == Contract!Spec

-------------------------------------------------------------------------------
\* For TLC: every generateSubtasks has two titles, the others are none.  The
\* lists approve each set of actions once, mix verdicts, and name one twice.
TwoTitles == [a \in Action |-> IF a \in Subtasks THEN 2 ELSE 0]

Yes(a) == [action |-> a, verdict |-> "approved"]
No(a)  == [action |-> a, verdict |-> "rejected"]

Lists ==
  {<< >>} \union {<<Yes(a)>> : a \in Action}
    \union UNION {{<<Yes(a), Yes(b)>>, <<No(b), Yes(a)>>, <<Yes(a), Yes(a)>>} :
                  a \in Subtasks, b \in Action \ Subtasks}

===============================================================================
