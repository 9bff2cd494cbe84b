-------------------------- MODULE TriggerSuggestions --------------------------
(***************************************************************************)
(* Suggested automation triggers: runAnalysis and decide of                *)
(* trigger-suggestions/trigger-suggestions.service.ts over the events and  *)
(* the read model of trigger-suggestions.projection.ts.                    *)
(*                                                                         *)
(* An analysis calls the model under the workspace's AI lock, with the     *)
(* cooldown checked and renewed under it; what the model answers is        *)
(* compared with the pending suggestions after the lock is given back.  An *)
(* approval creates the trigger first and records the decision afterwards. *)
(* A suggestion's id is the index of its event in the log.                 *)
(***************************************************************************)
EXTENDS Integers, FiniteSets, SequencesExt

CONSTANTS
  Template,    \* kind and spec of a trigger, what duplicates are told by
  Caller,      \* concurrent requests
  MaxEvents,   \* bound: events in the log, and triggers created
  MaxMishaps   \* bound: calls that fail, processes that die

VARIABLES
  log,        \* the suggestions' events, in the order they are read
  shown,      \* how many of them the read model has applied
  triggers,   \* the suggestion that each created trigger came from
  locked,     \* the workspace's AI lock is held
  recent,     \* the last analysis is younger than the cooldown
  request,    \* locals of each request
  blind,      \* history: suggestions whose check for duplicates missed an earlier one
  answered,   \* history: suggestions whose decision was answered with success
  calls,      \* history: model calls since the cooldown last elapsed
  mishaps     \* history: failures so far

vars == <<log, shown, triggers, locked, recent, request, blind, answered, calls, mishaps>>

Idle == [at |-> "idle"]

Init ==
  /\ log = << >>
  /\ shown = 0
  /\ triggers = << >>
  /\ locked = FALSE
  /\ recent = FALSE
  /\ request = [c \in Caller |-> Idle]
  /\ blind = {}
  /\ answered = {}
  /\ calls = 0
  /\ mishaps = 0

-------------------------------------------------------------------------------
Suggested(s) == s \in 1..Len(log) /\ log[s].type = "TriggerTemplateSuggested"
Decisions(s) == {i \in 1..Len(log) : ~Suggested(i) /\ log[i].suggestion = s}

\* TriggerTemplateSuggestionProjection: the rows whose status is pending.
Pending ==
  {s \in 1..shown : Suggested(s) /\ \A i \in Decisions(s) : i > shown}

Go(c, q) == request' = [request EXCEPT ![c] = q]

\* Bound: no more events than MaxEvents.
Room == Len(log) < MaxEvents

-------------------------------------------------------------------------------
\* withWorkspaceAILock.
TakeLock(c) ==
  /\ request[c].at = "idle"
  /\ Room
  /\ ~locked
  /\ locked' = TRUE
  /\ Go(c, [at |-> "cooldown"])
  /\ UNCHANGED <<log, shown, triggers, recent, blind, answered, calls, mishaps>>

\* assertCooldownElapsed; the quotas that follow may refuse too.
CheckCooldown(c) ==
  /\ request[c].at = "cooldown"
  /\ \/ ~recent /\ Go(c, [at |-> "model"]) /\ UNCHANGED locked
     \/ Go(c, Idle) /\ locked' = FALSE
  /\ UNCHANGED <<log, shown, triggers, recent, blind, answered, calls, mishaps>>

\* suggestTriggerTemplates; an answer that cannot be parsed has no suggestions.
AskModel(c) ==
  /\ request[c].at = "model"
  /\ calls' = calls + 1
  /\ \E t \in SUBSET Template : Go(c, [at |-> "ran", candidates |-> t])
  /\ UNCHANGED <<log, shown, triggers, locked, recent, blind, answered, mishaps>>

\* markAnalysisRan, and the lock is given back.
MarkAnalysisRan(c) ==
  LET t == request[c].candidates IN
  /\ request[c].at = "ran"
  /\ recent' = TRUE
  /\ locked' = FALSE
  /\ Go(c, IF t = {} THEN Idle ELSE [at |-> "pending", candidates |-> t])
  /\ UNCHANGED <<log, shown, triggers, blind, answered, calls, mishaps>>

\* The candidates that no pending suggestion equals.
ReadPending(c) ==
  /\ request[c].at = "pending"
  /\ Go(c, [at |-> "append", seen |-> shown,
            candidates |-> request[c].candidates \ {log[s].template : s \in Pending}])
  /\ UNCHANGED <<log, shown, triggers, locked, recent, blind, answered, calls, mishaps>>

\* One suggestion after the other, up to the limit of a run.
AppendSuggestion(c) ==
  /\ request[c].at = "append"
  /\ Room
  /\ \E t \in request[c].candidates :
       /\ log' = Append(log, [type |-> "TriggerTemplateSuggested", template |-> t])
       /\ blind' = IF \E i \in request[c].seen + 1 .. Len(log) :
                        Suggested(i) /\ log[i].template = t
                     THEN blind \union {Len(log) + 1} ELSE blind
       /\ Go(c, [request[c] EXCEPT !.candidates = @ \ {t}])
  /\ UNCHANGED <<shown, triggers, locked, recent, answered, calls, mishaps>>

AppendedAll(c) ==
  /\ request[c].at = "append"
  /\ Go(c, [at |-> "catch up"])
  /\ UNCHANGED <<log, shown, triggers, locked, recent, blind, answered, calls, mishaps>>

CatchUp(c) ==
  /\ request[c].at = "catch up"
  /\ shown' = Len(log)
  /\ Go(c, Idle)
  /\ UNCHANGED <<log, triggers, locked, recent, blind, answered, calls, mishaps>>

-------------------------------------------------------------------------------
\* decide reads the row.
Decide(c) ==
  /\ request[c].at = "idle"
  /\ \E s \in Pending, verdict \in {"create", "decision"} :
       Go(c, [at |-> verdict, suggestion |-> s, late |-> s \in answered, trigger |-> 0])
  /\ UNCHANGED <<log, shown, triggers, locked, recent, blind, answered, calls, mishaps>>

\* An approval: AutomationTriggersService.create, an append of its own.
CreateTrigger(c) ==
  /\ request[c].at = "create"
  /\ Len(triggers) < MaxEvents
  /\ triggers' = Append(triggers, request[c].suggestion)
  /\ Go(c, [request[c] EXCEPT !.at = "decision", !.trigger = Len(triggers) + 1])
  /\ UNCHANGED <<log, shown, locked, recent, blind, answered, calls, mishaps>>

\* Faulty variant of AppendDecision: the version is not checked.
AppendDecisionUnchecked(c) ==
  LET s == request[c].suggestion IN
  /\ request[c].at = "decision"
  /\ Room
  /\ log' = Append(log, [type |-> "TriggerTemplateDecided", suggestion |-> s,
                         trigger |-> request[c].trigger])
  /\ Go(c, [at |-> "catch up decision", suggestion |-> s])
  /\ UNCHANGED <<shown, triggers, locked, recent, blind, answered, calls, mishaps>>

\* append(streamId, 1, ...) of TriggerTemplateApproved, or Rejected (no trigger).
AppendDecision(c) ==
  LET s == request[c].suggestion IN
  /\ request[c].at = "decision"
  /\ IF Decisions(s) # {}
       THEN Go(c, Idle) /\ UNCHANGED log
       ELSE /\ Room
            /\ log' = Append(log, [type |-> "TriggerTemplateDecided", suggestion |-> s,
                                   trigger |-> request[c].trigger])
            /\ Go(c, [at |-> "catch up decision", suggestion |-> s])
  /\ UNCHANGED <<shown, triggers, locked, recent, blind, answered, calls, mishaps>>

CatchUpDecision(c) ==
  /\ request[c].at = "catch up decision"
  /\ shown' = Len(log)
  /\ answered' = answered \union {request[c].suggestion}
  /\ Go(c, Idle)
  /\ UNCHANGED <<log, triggers, locked, recent, blind, calls, mishaps>>

-------------------------------------------------------------------------------
\* The call at hand is rejected, before or after a trigger was created, or the
\* process dies; the lock is given back either way.
Fail(c) ==
  /\ request[c].at # "idle"
  /\ mishaps < MaxMishaps
  /\ mishaps' = mishaps + 1
  /\ locked' = (locked /\ request[c].at \notin {"cooldown", "model", "ran"})
  /\ \/ UNCHANGED triggers
     \/ /\ request[c].at = "create"
        /\ Len(triggers) < MaxEvents
        /\ triggers' = Append(triggers, request[c].suggestion)
  /\ Go(c, Idle)
  /\ UNCHANGED <<log, shown, recent, blind, answered, calls>>

CooldownElapses ==
  /\ recent
  /\ recent' = FALSE
  /\ calls' = 0
  /\ UNCHANGED <<log, shown, triggers, locked, request, blind, answered, mishaps>>

Next ==
  \/ \E c \in Caller :
       \/ TakeLock(c) \/ CheckCooldown(c) \/ AskModel(c) \/ MarkAnalysisRan(c)
       \/ ReadPending(c) \/ AppendSuggestion(c) \/ AppendedAll(c) \/ CatchUp(c)
       \/ Decide(c) \/ CreateTrigger(c) \/ AppendDecision(c) \/ CatchUpDecision(c)
       \/ Fail(c)
  \/ CooldownElapses

Spec == Init /\ [][Next]_vars

-------------------------------------------------------------------------------
TypeOK ==
  /\ log \in Seq([type : {"TriggerTemplateSuggested"}, template : Template]
                   \union [type : {"TriggerTemplateDecided"}, suggestion : Nat, trigger : Nat])
  /\ shown \in 0..Len(log)
  /\ \A i \in DOMAIN triggers : Suggested(triggers[i])
  /\ \A s \in blind \union answered : Suggested(s)
  /\ locked \in BOOLEAN /\ recent \in BOOLEAN
  /\ mishaps \in 0..MaxMishaps

\* A suggestion is decided once, and an approval names a trigger that was made
\* for it and for no other approval.
DecidedOnce ==
  \A s \in 1..Len(log) : Suggested(s) =>
    /\ Cardinality(Decisions(s)) <= 1
    /\ \A i \in Decisions(s) : log[i].trigger # 0 => triggers[log[i].trigger] = s

CreatedInTime == \A c \in Caller : CreateTrigger(c) => ~request[c].late

\* After a decision was answered no request that begins creates a trigger for
\* the suggestion: a second trigger, or one of a rejected suggestion, comes of
\* a request that began before.
AnsweredIsRespected == [][CreatedInTime]_vars

\* The cooldown bounds the model calls, except for calls after which the
\* analysis failed: two analyses at a time do not both pass the check.
OneAnalysisPerCooldown == calls <= 1 + mishaps

\* Two suggestions of one template are pending only if the later one's check
\* missed the earlier, which was appended meanwhile or not yet caught up with.
NoDuplicatePending ==
  \A s, t \in Pending : s < t /\ log[s].template = log[t].template => t \in blind
===============================================================================
