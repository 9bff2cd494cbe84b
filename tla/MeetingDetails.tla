---------------------------- MODULE MeetingDetails ----------------------------
(***************************************************************************)
(* The row of one recorded meeting: the provider's webhook updates it and  *)
(* has actions proposed from a new transcript (applyWebhookUpdate of       *)
(* notetaker/meetings.service.ts, proposeFromMeeting of commands/          *)
(* commands.service.ts), and notetaker/meeting-retention-sweeper.          *)
(* service.ts clears what the workspace does not want kept.  A transcript  *)
(* is the delivery that brought it.                                        *)
(***************************************************************************)
EXTENDS Integers, FiniteSets

CONSTANTS
  Delivery,     \* calls of the webhook that may overlap
  MaxUpdates,   \* bound: calls of the webhook
  MaxChanges,   \* bound: changes of the preference, and the passing of thirty days
  MaxMishaps    \* bound: calls that fail, processes that die

Mode == {"transcript-only", "recording-reference", "summary-only"}

VARIABLES
  transcript,  \* the row: the update that set it, or 0
  mode,        \* the workspace's preference
  old,         \* the row's age has passed the time to live
  update,      \* locals of each delivery
  sweep,       \* locals of the sweeper
  proposed,    \* proposals recorded
  updates, changes, mishaps,   \* what is bounded
  overlaps,    \* history: deliveries that read the row while another was between read and update
  cleared      \* history: times that a transcript was cleared

counters == <<updates, changes, mishaps>>
vars == <<transcript, mode, old, update, sweep, proposed, counters, overlaps, cleared>>

Idle == [at |-> "idle"]

Init ==
  /\ transcript = 0
  /\ mode = "transcript-only" /\ old = FALSE
  /\ update = [d \in Delivery |-> Idle]
  /\ sweep = Idle
  /\ proposed = 0
  /\ updates = 0 /\ changes = 0 /\ mishaps = 0
  /\ overlaps = 0 /\ cleared = 0

-------------------------------------------------------------------------------
Go(d, u) == update' = [update EXCEPT ![d] = u]
GoesWrong == mishaps < MaxMishaps /\ mishaps' = mishaps + 1

\* The payload has a transcript, an explicit null, or no such key.  The row is
\* read, and whether the transcript is new is decided here.
ReadRow(d) ==
  /\ update[d].at = "idle"
  /\ updates < MaxUpdates
  /\ updates' = updates + 1
  /\ \E t \in {"value", "null", "absent"} :
       Go(d, [at |-> "update", id |-> updates + 1, transcript |-> t,
              new |-> t = "value" /\ transcript = 0])
  /\ overlaps' = IF \E e \in Delivery : update[e].at = "update" THEN overlaps + 1 ELSE overlaps
  /\ UNCHANGED <<transcript, mode, old, sweep, proposed, changes, mishaps, cleared>>

StoreUpdate(d) ==
  LET u == update[d] IN
  /\ u.at = "update"
  /\ transcript' = CASE u.transcript = "value" -> u.id
                      [] u.transcript = "null" -> 0
                      [] u.transcript = "absent" -> transcript
  /\ cleared' = IF transcript # 0 /\ transcript' = 0 THEN cleared + 1 ELSE cleared
  /\ Go(d, IF u.new THEN [at |-> "propose"] ELSE Idle)
  /\ UNCHANGED <<mode, old, sweep, proposed, counters, overlaps>>

\* proposeFromMeeting, which nobody waits for.
Propose(d) ==
  /\ update[d].at = "propose"
  /\ proposed' = proposed + 1
  /\ Go(d, Idle)
  /\ UNCHANGED <<transcript, mode, old, sweep, counters, overlaps, cleared>>

\* It fails, which is logged, or the process dies.
Fail(d) ==
  /\ update[d].at # "idle"
  /\ GoesWrong
  /\ Go(d, Idle)
  /\ UNCHANGED <<transcript, mode, old, sweep, proposed, updates, changes, overlaps, cleared>>

Change ==
  /\ changes < MaxChanges
  /\ changes' = changes + 1
  /\ \/ \E m \in Mode \ {mode} : mode' = m /\ UNCHANGED old
     \/ ~old /\ old' = TRUE /\ UNCHANGED mode
  /\ UNCHANGED <<transcript, update, sweep, proposed, updates, mishaps, overlaps, cleared>>

\* sweepOnce reads the rows, then the preference, and updates by id.
SweepRead ==
  /\ sweep.at = "idle"
  /\ sweep' = [at |-> "mode", found |-> transcript # 0]
  /\ UNCHANGED <<transcript, mode, old, update, proposed, counters, overlaps, cleared>>

\* computePatch.
SweepDecide ==
  /\ sweep.at = "mode"
  /\ sweep' = IF sweep.found /\ (mode # "transcript-only" \/ old) THEN [at |-> "clear"] ELSE Idle
  /\ UNCHANGED <<transcript, mode, old, update, proposed, counters, overlaps, cleared>>

SweepClear ==
  /\ sweep.at = "clear"
  /\ transcript' = 0
  /\ cleared' = IF transcript # 0 THEN cleared + 1 ELSE cleared
  /\ sweep' = Idle
  /\ UNCHANGED <<mode, old, update, proposed, counters, overlaps>>

Next ==
  \/ \E d \in Delivery : ReadRow(d) \/ StoreUpdate(d) \/ Propose(d) \/ Fail(d)
  \/ Change \/ SweepRead \/ SweepDecide \/ SweepClear

Spec == Init /\ [][Next]_vars

-------------------------------------------------------------------------------
TypeOK ==
  /\ transcript \in 0..MaxUpdates
  /\ mode \in Mode /\ old \in BOOLEAN
  /\ sweep.at \in {"idle", "mode", "clear"}
  /\ \A d \in Delivery : update[d].at \in {"idle", "update", "propose"}
  /\ proposed \in 0..MaxUpdates

UnderWay == Cardinality({d \in Delivery : update[d].at = "propose"})

\* The actions of a meeting are proposed once, but for deliveries that overlapped
\* and transcripts that were cleared in between; and they are proposed if a
\* transcript is there, unless something failed.
ProposedOnce ==
  /\ proposed + UnderWay <= 1 + overlaps + cleared
  /\ transcript # 0 => proposed + UnderWay + mishaps >= 1
===============================================================================
