-------------------------- MODULE NotificationBudget --------------------------
(***************************************************************************)
(* Notifications of one member about what agents did on their own:         *)
(* guardAndDeliver of agent-runtime/agent-notification-governor.service.ts.*)
(* It counts the deliveries of the window in the read model, delivers or   *)
(* suppresses, and records what it did, with no lock around the three.     *)
(* One window is modelled, and a member whose preference sets a budget.    *)
(* What is recorded must name its object and its comment by uuids, and the *)
(* objects and comments that there are have ULIDs: recording a delivery    *)
(* rejects, and the caller logs that.                                      *)
(***************************************************************************)
EXTENDS Integers, Sequences, SequencesExt, FiniteSetsExt

CONSTANTS
  Caller,           \* autonomous actions to notify of, at the same time
  Budget,           \* notificationBudgetPerWindow
  MaxOutcomes,      \* bound: comments written and outcomes recorded when a call begins
  MaxMishaps        \* bound: calls that fail, processes that die

VARIABLES
  quiet,       \* it is the member's quiet hours
  log,         \* outcomes recorded
  shown,       \* how many of them agent_notification_deliveries has
  notice,      \* locals of each call
  delivered,   \* history: comments written
  clashes,     \* history: counts taken while another delivery was not yet shown
  mishaps      \* history: failures so far

vars == <<quiet, log, shown, notice, delivered, clashes, mishaps>>

Idle == [at |-> "idle", outcome |-> "none"]

Init ==
  /\ quiet \in BOOLEAN
  /\ log = << >>
  /\ shown = 0
  /\ notice = [c \in Caller |-> Idle]
  /\ delivered = 0
  /\ clashes = 0
  /\ mishaps = 0

-------------------------------------------------------------------------------
Go(c, at, outcome) == notice' = [notice EXCEPT ![c] = [at |-> at, outcome |-> outcome]]
Mishap == mishaps < MaxMishaps /\ mishaps' = mishaps + 1

\* Hours pass; isWithinQuietHours reads the clock.
HourPasses == quiet' = ~quiet /\ UNCHANGED <<log, shown, notice, delivered, clashes, mishaps>>

CheckQuietHours(c) ==
  /\ notice[c].at = "idle"
  /\ delivered + Len(log) < MaxOutcomes
  /\ IF quiet THEN Go(c, "record", "suppressed_quiet_hours") ELSE Go(c, "count", "none")
  /\ UNCHANGED <<quiet, log, shown, delivered, clashes, mishaps>>

\* countDeliveredInWindow.
CountDelivered == Quantify(1..shown, LAMBDA i : log[i] = "delivered")

InDelivery == {d \in Caller : \/ notice[d].at = "deliver"
                              \/ notice[d].outcome = "delivered"}

CheckBudget(c) ==
  /\ notice[c].at = "count"
  /\ IF CountDelivered >= Budget
       THEN /\ Go(c, "record", "suppressed_budget_exceeded")
            /\ UNCHANGED clashes
       ELSE /\ Go(c, "deliver", "none")
            /\ clashes' = clashes + (IF InDelivery # {} THEN 1 ELSE 0)
  /\ UNCHANGED <<quiet, log, shown, delivered, mishaps>>

\* deliver: commentsService.create.
Deliver(c) ==
  /\ notice[c].at = "deliver"
  /\ delivered' = delivered + 1
  /\ Go(c, "record", "delivered")
  /\ UNCHANGED <<quiet, log, shown, clashes, mishaps>>

\* The id of a comment that was written is no uuid; that of the object, which a
\* suppression does not look up, may be one or not.
Record(c) ==
  /\ notice[c].outcome # "delivered"
  /\ log' = Append(log, notice[c].outcome)

RecordOutcome(c) ==
  /\ notice[c].at = "record"
  /\ \/ Record(c) /\ Go(c, "show", notice[c].outcome)
     \/ UNCHANGED log /\ Go(c, "idle", "none")
  /\ UNCHANGED <<quiet, shown, delivered, clashes, mishaps>>

CatchUp(c) ==
  /\ notice[c].at = "show"
  /\ shown' = Len(log)
  /\ Go(c, "idle", "none")
  /\ UNCHANGED <<quiet, log, delivered, clashes, mishaps>>

\* A call rejects, as a comment does on an object that does not exist, perhaps
\* after it took effect, or the process dies; notifyAutonomousAction logs it.
Fail(c) ==
  /\ notice[c].at # "idle"
  /\ Mishap
  /\ \/ UNCHANGED delivered
     \/ notice[c].at = "deliver" /\ delivered' = delivered + 1
  /\ \/ UNCHANGED log
     \/ notice[c].at = "record" /\ Record(c)
  /\ Go(c, "idle", "none")
  /\ UNCHANGED <<quiet, shown, clashes>>

Next ==
  \/ HourPasses
  \/ \E c \in Caller :
       \/ CheckQuietHours(c) \/ CheckBudget(c) \/ Deliver(c)
       \/ RecordOutcome(c) \/ CatchUp(c) \/ Fail(c)

Spec == Init /\ [][Next]_vars

-------------------------------------------------------------------------------
TypeOK ==
  /\ quiet \in BOOLEAN
  /\ log \in Seq({"delivered", "suppressed_quiet_hours", "suppressed_budget_exceeded"})
  /\ shown \in 0..Len(log)
  /\ \A c \in Caller : notice[c].at \in {"idle", "count", "deliver", "record", "show"}
  /\ mishaps \in 0..MaxMishaps

\* No delivery is recorded, so none is counted: unless the budget is 0, none is
\* kept from a member for it, however many there were.
BudgetNeverReached ==
  Budget # 0 => \A i \in DOMAIN log : log[i] # "suppressed_budget_exceeded"

\* A member gets more notifications than the budget only where one was counted
\* for while another was on its way, or a call failed: at most one for each.
\* The comment of guardAndDeliver says that it gates on the rolling budget.
OverBudgetPaidFor == delivered <= Budget + clashes + mishaps
===============================================================================
