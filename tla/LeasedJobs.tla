------------------------------ MODULE LeasedJobs ------------------------------
(***************************************************************************)
(* The two durable queues of the server: webhook deliveries (webhooks/     *)
(* webhook-delivery-worker.service.ts) and mentions of an agent            *)
(* (comments/mention-action-worker.service.ts), with the limits an agent's *)
(* action runs under (agent-runtime/agent-resource-limits.service.ts).     *)
(*                                                                         *)
(* A timer starts a run of runOnce every twenty seconds whether or not the *)
(* last one has ended, in every process: Run is the set of runs that may   *)
(* overlap.  Each database call and each call of a skill or a subscriber   *)
(* is a step.  Time is what it does to a row: next_attempt_at grows with   *)
(* each write, and passes when Pass says so, which for a claimed row means *)
(* that the lease is over.  All mentions are of one agent.                 *)
(***************************************************************************)
EXTENDS Integers, FiniteSetsExt

CONSTANTS
  Webhook,      \* rows of webhook_deliveries
  Mention,      \* rows of mention_actions
  Run,          \* overlapping runs of a worker
  Process,      \* server processes
  Nobody,       \* not a run
  MaxAttempts,  \* MAX_ATTEMPTS of both workers
  MaxActions,   \* agentActionRateLimitPerWindow, for the one window modelled
  MaxSlots,     \* the concurrency guard's maxConcurrentPerAgent
  MaxMishaps    \* bound: failed or unanswered calls, crashes, leases outlived

Job == Webhook \union Mention

ASSUME LeasedJobsAssumption ==
  /\ Webhook \intersect Mention = {}
  /\ IsFiniteSet(Run) /\ Nobody \notin Run
  /\ MaxAttempts \in Nat \ {0} /\ MaxActions \in Nat
  /\ MaxSlots \in Nat \ {0} /\ MaxMishaps \in Nat

VARIABLES
  status, attempts, nextAttemptAt,  \* a job's columns
  due,       \* jobs whose next_attempt_at has passed
  removed,   \* deliveries of which the subscription has been removed
  run,       \* locals of each run: at, process, the rows it selected, the row
  slots,     \* the concurrency guard of each process
  lock,      \* the run whose session holds the agent's advisory lock
  actions,   \* agent_action_executions in the window
  ledger,    \* outcomes recorded for a job in agent_action_records
  effects,   \* history: requests a subscriber took in, replies in the store
  tries,     \* history: claims of a job
  mishaps    \* history: what went wrong with a job

rowVars == <<status, attempts, nextAttemptAt, due, removed>>
limitVars == <<slots, lock, actions>>
history == <<effects, tries, mishaps>>
vars == <<rowVars, run, limitVars, ledger, history>>

Final == {"delivered", "done", "failed"}
Idle == [at |-> "idle", process |-> Nobody, rows |-> {}, row |-> Nobody]

Init ==
  /\ status = [j \in Job |-> "none"]
  /\ attempts = [j \in Job |-> 0]
  /\ nextAttemptAt = [j \in Job |-> 0]
  /\ due = {}
  /\ removed = {}
  /\ run = [r \in Run |-> Idle]
  /\ slots = [p \in Process |-> 0]
  /\ lock = Nobody
  /\ actions = 0
  /\ ledger = [j \in Job |-> {}]
  /\ effects = [j \in Job |-> 0]
  /\ tries = [j \in Job |-> 0]
  /\ mishaps = [j \in Job |-> 0]

-------------------------------------------------------------------------------
JobOf(r) == run[r].row.job

\* The run has claimed j and has not yet dealt with it.
Busy(r) == run[r].at \notin {"idle", "loop"}
WorksOn(r, j) == Busy(r) /\ JobOf(r) = j
HoldsLease(r, j) == WorksOn(r, j) /\ nextAttemptAt[j] = run[r].row.at + 1

Goto(r, place) == run' = [run EXCEPT ![r].at = place]

\* The row is dealt with, or given up by the catch around the loop's body.
NextRow(r) == run' = [run EXCEPT ![r].at = "loop", ![r].row = Nobody]

Mishaps == MapThenSumSet(LAMBDA j : mishaps[j], Job)

\* Something goes wrong for the jobs of S: a choice of the environment.
GoesWrong(S) ==
  /\ Mishaps + Cardinality(S) <= MaxMishaps
  /\ mishaps' = [j \in Job |-> IF j \in S THEN mishaps[j] + 1 ELSE mishaps[j]]

\* The enqueueing projections insert a row, due at once; an event is applied
\* once.
Enqueue(j) ==
  /\ status[j] = "none"
  /\ status' = [status EXCEPT ![j] = "pending"]
  /\ due' = due \union {j}
  /\ UNCHANGED <<attempts, nextAttemptAt, removed, run, limitVars, ledger, history>>

\* WebhookSubscriptionsService.remove: the subscription is soft-deleted, and its
\* rows stay as they are.
Remove(j) ==
  /\ j \in Webhook \ removed
  /\ status[j] = "pending"
  /\ removed' = removed \union {j}
  /\ UNCHANGED <<status, attempts, nextAttemptAt, due, run, limitVars, ledger, history>>

\* Time passes: a backoff or a lease is over.
Pass(j) ==
  /\ status[j] = "pending"
  /\ j \notin due
  /\ due' = due \union {j}
  /\ IF \E r \in Run : HoldsLease(r, j) THEN GoesWrong({j}) ELSE UNCHANGED mishaps
  /\ UNCHANGED <<status, attempts, nextAttemptAt, removed, run, limitVars, ledger,
                 effects, tries>>

\* The timer fires: runOnce selects the rows of its table that are due, and of
\* deliveries those of a subscription that is active.
Select(r) ==
  /\ run[r].at = "idle"
  /\ \E p \in Process, queue \in {Webhook, Mention} :
       LET found == {j \in queue \ removed : status[j] = "pending" /\ j \in due} IN
       /\ found # {}
       /\ run' = [run EXCEPT ![r] =
            [at |-> "loop", process |-> p, row |-> Nobody,
             rows |-> {[job |-> j, at |-> nextAttemptAt[j], attempts |-> attempts[j]] :
                         j \in found}]]
  /\ UNCHANGED <<rowVars, limitVars, ledger, history>>

EndRun(r) ==
  /\ run[r].at = "loop"
  /\ run[r].rows = {}
  /\ run' = [run EXCEPT ![r] = Idle]
  /\ UNCHANGED <<rowVars, limitVars, ledger, history>>

-------------------------------------------------------------------------------
\* Faulty variant of Claimable: the observed time is not compared.
StillPending(row) == status[row.job] = "pending"

\* claimRow's condition.
Claimable(row) ==
  status[row.job] = "pending" /\ nextAttemptAt[row.job] = row.at

\* The next selected row: claimRow updates it, or finds it taken.
Claim(r) ==
  /\ run[r].at = "loop"
  /\ \E row \in run[r].rows :
       LET rest == run[r].rows \ {row} j == row.job IN
       IF Claimable(row)
         THEN /\ nextAttemptAt' = [nextAttemptAt EXCEPT ![j] = @ + 1]
              /\ due' = due \ {j}
              /\ tries' = [tries EXCEPT ![j] = @ + 1]
              /\ run' = [run EXCEPT ![r].rows = rest, ![r].row = row,
                           ![r].at = IF j \in Webhook THEN "deliver" ELSE "skill"]
         ELSE /\ run' = [run EXCEPT ![r].rows = rest]
              /\ UNCHANGED <<nextAttemptAt, due, tries>>
  /\ UNCHANGED <<status, attempts, removed, limitVars, ledger, effects, mishaps>>

\* claimRow throws, before its update or after: the row is left to its lease.
ClaimFails(r) ==
  /\ run[r].at = "loop"
  /\ \E row \in run[r].rows :
       /\ GoesWrong({row.job})
       /\ run' = [run EXCEPT ![r].rows = @ \ {row}]
       /\ \/ /\ Claimable(row)
             /\ nextAttemptAt' = [nextAttemptAt EXCEPT ![row.job] = @ + 1]
             /\ due' = due \ {row.job}
          \/ UNCHANGED <<nextAttemptAt, due>>
  /\ UNCHANGED <<status, attempts, removed, limitVars, ledger, effects, tries>>

\* WebhookDeliveryService.deliver: the subscriber takes the request in, or
\* refuses it, or cannot be reached.
Deliver(r) ==
  /\ run[r].at = "deliver"
  /\ \/ /\ effects' = [effects EXCEPT ![JobOf(r)] = @ + 1]
        /\ Goto(r, "succeed")
     \/ /\ UNCHANGED effects
        /\ Goto(r, "retry")
  /\ UNCHANGED <<rowVars, limitVars, ledger, tries, mishaps>>

\* The answer does not arrive in time, or is not 2xx although the subscriber
\* took the request in.  An effect is lost sight of in the same way when
\* ObjectCommentsService.create throws after its append.
EffectUnseen(r) ==
  /\ run[r].at \in {"deliver", "reply"}
  /\ GoesWrong({JobOf(r)})
  /\ effects' = [effects EXCEPT ![JobOf(r)] = @ + 1]
  /\ Goto(r, "retry")
  /\ UNCHANGED <<rowVars, limitVars, ledger, tries>>

-------------------------------------------------------------------------------
\* Faulty variant of StartSkill: the guard counts and does not refuse.
StartSkillUnguarded(r) ==
  /\ run[r].at = "skill"
  /\ slots' = [slots EXCEPT ![run[r].process] = @ + 1]
  /\ Goto(r, "lock")
  /\ UNCHANGED <<rowVars, lock, actions, ledger, history>>

\* executeSkill refuses before the limits (no permission, no such skill), or
\* the concurrency guard has no slot left, or has one.
StartSkill(r) ==
  LET p == run[r].process IN
  /\ run[r].at = "skill"
  /\ \/ Goto(r, "refuse") /\ UNCHANGED slots
     \/ /\ slots[p] >= MaxSlots
        /\ Goto(r, "retry")
        /\ UNCHANGED slots
     \/ /\ slots[p] < MaxSlots
        /\ slots' = [slots EXCEPT ![p] = @ + 1]
        /\ Goto(r, "lock")
  /\ UNCHANGED <<rowVars, lock, actions, ledger, history>>

TakeLock(r) ==
  /\ run[r].at = "lock"
  /\ lock = Nobody
  /\ lock' = r
  /\ Goto(r, "rate")
  /\ UNCHANGED <<rowVars, slots, actions, ledger, history>>

\* Faulty variants of GiveBack: a finally block forgets the guard, or the lock.
GiveBackLock(r) == lock' = Nobody /\ UNCHANGED slots

GiveBackSlot(r) ==
  slots' = [slots EXCEPT ![run[r].process] = @ - 1] /\ UNCHANGED lock

\* The finally blocks of withAgentResourceLock and executeAgentAction.
GiveBack(r) ==
  /\ lock' = Nobody
  /\ slots' = [slots EXCEPT ![run[r].process] = @ - 1]

\* assertActionRateNotExceeded.
CheckRate(r) ==
  /\ run[r].at = "rate"
  /\ IF actions >= MaxActions
       THEN GiveBack(r) /\ Goto(r, "retry")
       ELSE UNCHANGED <<slots, lock>> /\ Goto(r, "sandbox")
  /\ UNCHANGED <<rowVars, actions, ledger, history>>

\* runInAgentSandbox ends with an answer, or with a failure or a timeout; then
\* recordAgentAction, which swallows a failed append, and the way out.
Sandbox(r) ==
  /\ run[r].at = "sandbox"
  /\ \E place \in {"reply", "retry"} : Goto(r, place)
  /\ \/ /\ actions' = actions + 1
        /\ UNCHANGED mishaps
     \/ /\ GoesWrong({JobOf(r)})
        /\ UNCHANGED actions
  /\ GiveBack(r)
  /\ UNCHANGED <<rowVars, ledger, effects, tries>>

\* ObjectCommentsService.create appends the reply, or throws before that.
Reply(r) ==
  /\ run[r].at = "reply"
  /\ \/ /\ effects' = [effects EXCEPT ![JobOf(r)] = @ + 1]
        /\ Goto(r, "succeed")
     \/ /\ UNCHANGED effects
        /\ Goto(r, "retry")
  /\ UNCHANGED <<rowVars, limitVars, ledger, tries, mishaps>>

-------------------------------------------------------------------------------
\* The row's last update, by id alone.
SetStatus(j, new) == status' = [status EXCEPT ![j] = new]

\* 'delivered', or markDone and recordSuccess.
Succeed(r) ==
  LET j == JobOf(r) IN
  /\ run[r].at = "succeed"
  /\ SetStatus(j, IF j \in Webhook THEN "delivered" ELSE "done")
  /\ ledger' = [ledger EXCEPT ![j] = @ \union {o \in {"succeeded"} : j \in Mention}]
  /\ NextRow(r)
  /\ UNCHANGED <<attempts, nextAttemptAt, due, removed, limitVars, history>>

\* That update fails.  The delivery's row stays pending until its lease is
\* over; the mention goes on to markFailedAfterReply.
SucceedFails(r) ==
  LET j == JobOf(r) IN
  /\ run[r].at = "succeed"
  /\ GoesWrong({j})
  /\ IF j \in Webhook THEN NextRow(r) ELSE Goto(r, "replied")
  /\ UNCHANGED <<rowVars, limitVars, ledger, effects, tries>>

\* markFailedAfterReply, then recordSuccess.
MarkReplied(r) ==
  LET j == JobOf(r) IN
  /\ run[r].at = "replied"
  /\ SetStatus(j, "failed")
  /\ attempts' = [attempts EXCEPT ![j] = run[r].row.attempts + 1]
  /\ ledger' = [ledger EXCEPT ![j] = @ \union {"succeeded"}]
  /\ NextRow(r)
  /\ UNCHANGED <<nextAttemptAt, due, removed, limitVars, history>>

\* markFailedImmediately, and the mention's terminal failure on record.
Refuse(r) ==
  LET j == JobOf(r) IN
  /\ run[r].at = "refuse"
  /\ SetStatus(j, "failed")
  /\ attempts' = [attempts EXCEPT ![j] = run[r].row.attempts + 1]
  /\ ledger' = [ledger EXCEPT ![j] = @ \union {"failed"}]
  /\ NextRow(r)
  /\ UNCHANGED <<nextAttemptAt, due, removed, limitVars, history>>

\* retryOrFail, with the attempts the run selected: back to pending after a
\* backoff, or failed for good.
Retry(r) ==
  LET j == JobOf(r) n == run[r].row.attempts + 1 IN
  /\ run[r].at = "retry"
  /\ attempts' = [attempts EXCEPT ![j] = n]
  /\ \/ /\ n < MaxAttempts
        /\ SetStatus(j, "pending")
        /\ nextAttemptAt' = [nextAttemptAt EXCEPT ![j] = @ + 1]
        /\ due' = due \ {j}
        /\ UNCHANGED ledger
     \/ /\ n >= MaxAttempts
        /\ SetStatus(j, "failed")
        /\ ledger' = [ledger EXCEPT ![j] = @ \union {o \in {"failed"} : j \in Mention}]
        /\ UNCHANGED <<nextAttemptAt, due>>
  /\ NextRow(r)
  /\ UNCHANGED <<removed, limitVars, history>>

\* Any other database call fails, and the catch around the body takes it: the
\* row stays as it is until its lease is over.
UpdateFails(r) ==
  /\ run[r].at \in {"retry", "refuse", "replied"}
  /\ GoesWrong({JobOf(r)})
  /\ NextRow(r)
  /\ UNCHANGED <<rowVars, limitVars, ledger, effects, tries>>

\* A process dies: its runs, its guard and its sessions' locks are gone.
Crash(p) ==
  LET gone == {r \in Run : run[r].process = p} IN
  /\ \E r \in gone : Busy(r)
  /\ GoesWrong({JobOf(r) : r \in {r \in gone : Busy(r)}})
  /\ run' = [r \in Run |-> IF r \in gone THEN Idle ELSE run[r]]
  /\ slots' = [slots EXCEPT ![p] = 0]
  /\ lock' = IF lock \in gone THEN Nobody ELSE lock
  /\ UNCHANGED <<rowVars, actions, ledger, effects, tries>>

RunStep(r) ==
  \/ EndRun(r) \/ Claim(r) \/ Deliver(r) \/ StartSkill(r) \/ TakeLock(r)
  \/ CheckRate(r) \/ Sandbox(r) \/ Reply(r)
  \/ Succeed(r) \/ MarkReplied(r) \/ Refuse(r) \/ Retry(r)

Next ==
  \/ \E j \in Job : Enqueue(j) \/ Pass(j) \/ Remove(j)
  \/ \E r \in Run : Select(r) \/ RunStep(r)
  \/ \E r \in Run : ClaimFails(r) \/ EffectUnseen(r) \/ SucceedFails(r) \/ UpdateFails(r)
  \/ \E p \in Process : Crash(p)

Spec == Init /\ [][Next]_vars

\* Timers fire, time passes, and what a run awaits is answered.
FairSpec ==
  /\ Spec
  /\ \A j \in Job : WF_vars(Pass(j))
  /\ \A r \in Run : WF_vars(Select(r)) /\ WF_vars(RunStep(r))

-------------------------------------------------------------------------------
TypeOK ==
  /\ status \in [Job -> {"none", "pending"} \union Final]
  /\ attempts \in [Job -> 0..MaxAttempts]
  /\ nextAttemptAt \in [Job -> Nat]
  /\ due \subseteq Job
  /\ removed \subseteq Webhook
  /\ DOMAIN run = Run
  /\ slots \in [Process -> 0..MaxSlots]
  /\ lock \in Run \union {Nobody}
  /\ actions \in Nat
  /\ ledger \in [Job -> SUBSET {"succeeded", "failed"}]
  /\ effects \in [Job -> Nat] /\ tries \in [Job -> Nat] /\ mishaps \in [Job -> Nat]

\* Overlapping runs never work on the same row, unless one outlived its lease
\* or died.
OneClaimant ==
  \A j \in Job : mishaps[j] = 0 => Cardinality({r \in Run : WorksOn(r, j)}) <= 1

\* A subscriber gets a delivery once, a mention one reply; every further one is
\* due to a call that failed, a crash or a lease outlived.
EffectsPaidFor == \A j \in Job : effects[j] <= 1 + mishaps[j]

\* A job is tried MAX_ATTEMPTS times; a run that outlived its lease writes the
\* attempts it selected, so a mishap may cost that many again.
TriesBounded == \A j \in Job : tries[j] <= MaxAttempts * (1 + mishaps[j])

\* What a finished row and the ledger say is what happened; a success is never
\* claimed without one, whatever went wrong.
OutcomeTrue ==
  \A j \in Job :
    /\ status[j] \in {"delivered", "done"} \/ "succeeded" \in ledger[j] => effects[j] > 0
    /\ mishaps[j] = 0 /\ status[j] = "failed" => effects[j] = 0
    /\ mishaps[j] = 0 => Cardinality(ledger[j]) <= 1

\* Slots and lock are held by exactly the runs inside the limits: every way out
\* gives them back.
NothingLeaks ==
  LET inside(r) == run[r].at \in {"lock", "rate", "sandbox"} IN
  /\ \A p \in Process :
       slots[p] = Cardinality({r \in Run : run[r].process = p /\ inside(r)})
  /\ \A r \in Run : lock = r <=> run[r].at \in {"rate", "sandbox"}

\* The hourly limit holds for overlapping actions of an agent, in one process
\* or in several: those recorded and the one at work.
RateRespected ==
  actions + Cardinality({r \in Run : run[r].at = "sandbox"}) <= MaxActions

\* Every enqueued job reaches a final status, also after crashes, unless the
\* subscription of a delivery is removed before: the row then stays pending, and
\* what a run had selected by then is tried once more.
EveryJobEnds ==
  \A j \in Job : status[j] = "pending" ~> status[j] \in Final \/ j \in removed
===============================================================================
