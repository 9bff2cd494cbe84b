------------------------------- MODULE AIQuota --------------------------------
(***************************************************************************)
(* What a workspace spends on language models: ai/ai-usage.service.ts, and *)
(* the shape that every service asking a model has (commands, questions,   *)
(* widgets, artifacts, refreshes): under the workspace's advisory lock it  *)
(* compares the recorded usage with the quota, asks, and asks once more    *)
(* when the answer does not parse, recording the usage of each completion. *)
(*                                                                         *)
(* The token quota and the cost budget are checked one after the other in  *)
(* the same way; one stands for both.                                      *)
(***************************************************************************)
EXTENDS Integers, Sequences

CONSTANTS
  Caller,      \* concurrent operations in the workspace
  Quota,       \* aiTokenQuotaPerWorkspace
  MaxTokens,   \* bound: tokens of a completion
  MaxMishaps   \* bound: calls that fail, processes that die

VARIABLES
  log,         \* AIUsageRecorded events: the tokens of each and all before it
  shown,       \* how many of them ai_usage_records has
  locked,      \* the operation whose session holds the workspace's lock
  operation,   \* locals of each operation
  spent,       \* history: tokens of the completions there were
  mishaps      \* history: failures so far

vars == <<log, shown, locked, operation, spent, mishaps>>

Idle == [at |-> "idle", tried |-> 0, tokens |-> 0]
MaxTries == 2

Init ==
  /\ log = << >>
  /\ shown = 0
  /\ locked = {}
  /\ operation = [c \in Caller |-> Idle]
  /\ spent = 0
  /\ mishaps = 0

-------------------------------------------------------------------------------
Go(c, o) == operation' = [operation EXCEPT ![c] = o]
Reach(c, at) == operation' = [operation EXCEPT ![c].at = at]

\* Whether it returns or throws, withWorkspaceAILock unlocks and releases; a
\* dead process loses its session, and with it the lock.
Leave(c) == Go(c, Idle) /\ locked' = locked \ {c}

Mishap == mishaps < MaxMishaps /\ mishaps' = mishaps + 1

\* Faulty variant of TakeLock: the lock is shared.
TakeLockShared(c) ==
  /\ operation[c].at = "idle"
  /\ Reach(c, "assert")
  /\ locked' = locked \union {c}
  /\ UNCHANGED <<log, shown, spent, mishaps>>

TakeLock(c) ==
  /\ operation[c].at = "idle"
  /\ locked = {}
  /\ Reach(c, "assert")
  /\ locked' = {c}
  /\ UNCHANGED <<log, shown, spent, mishaps>>

\* The tokens of the first n events.
Total(n) == IF n = 0 THEN 0 ELSE log[n]

\* The sum over the workspace's rows of ai_usage_records.
Recorded == Total(shown)

Logs(c) == log' = Append(log, Total(Len(log)) + operation[c].tokens)

AssertQuota(c) ==
  /\ operation[c].at = "assert"
  /\ IF Recorded >= Quota THEN Leave(c) ELSE Reach(c, "complete") /\ UNCHANGED locked
  /\ UNCHANGED <<log, shown, spent, mishaps>>

Complete(c) ==
  /\ operation[c].at = "complete"
  /\ \E t \in 1..MaxTokens :
       /\ spent' = spent + t
       /\ Go(c, [at |-> "record", tried |-> operation[c].tried + 1, tokens |-> t])
  /\ UNCHANGED <<log, shown, locked, mishaps>>

RecordUsage(c) ==
  /\ operation[c].at = "record"
  /\ Logs(c)
  /\ Reach(c, "catch up")
  /\ UNCHANGED <<shown, locked, spent, mishaps>>

\* The answer parses, or there is a second and last try, or neither.
Parse(c) ==
  \/ Leave(c)
  \/ operation[c].tried < MaxTries /\ Reach(c, "complete") /\ UNCHANGED locked

CatchUpUsage(c) ==
  /\ operation[c].at = "catch up"
  /\ shown' = Len(log)
  /\ Parse(c)
  /\ UNCHANGED <<log, spent, mishaps>>

\* recordAIUsage logs what it catches, and the operation goes on: an append that
\* failed, or whose answer was lost, or a catch-up that failed.
RecordFails(c) ==
  /\ operation[c].at \in {"record", "catch up"}
  /\ Mishap
  /\ \/ UNCHANGED log
     \/ operation[c].at = "record" /\ Logs(c)
  /\ Parse(c)
  /\ UNCHANGED <<shown, spent>>

\* The provider, a query of the quota or the process fails.
Fail(c) ==
  /\ operation[c].at # "idle"
  /\ Mishap
  /\ Leave(c)
  /\ UNCHANGED <<log, shown, spent>>

Next ==
  \E c \in Caller :
    \/ TakeLock(c) \/ AssertQuota(c) \/ Complete(c)
    \/ RecordUsage(c) \/ CatchUpUsage(c) \/ RecordFails(c) \/ Fail(c)

Spec == Init /\ [][Next]_vars

-------------------------------------------------------------------------------
TypeOK ==
  /\ log \in Seq(Nat)
  /\ shown \in 0..Len(log)
  /\ locked \subseteq Caller
  /\ operation \in [Caller -> [at : {"idle", "assert", "complete", "record", "catch up"},
                               tried : 0..MaxTries, tokens : 0..MaxTokens]]
  /\ mishaps \in 0..MaxMishaps

\* However operations overlap, a workspace exceeds its quota by the completions
\* of one operation at most, and one more for each usage record that was lost.
OvershootPaidFor == spent < Quota + (MaxTries + mishaps) * MaxTokens

===============================================================================
