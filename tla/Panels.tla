-------------------------------- MODULE Panels --------------------------------
(***************************************************************************)
(* The panels of the web client: a list that is fetched and kept in the    *)
(* query cache, a form that makes a row of it or sets the value of one,    *)
(* and buttons that close a row (delete, revoke, decide, undo).  The       *)
(* definitions below, one for each panel or form, say how each goes about  *)
(* it; a behaviour is about one of them.  A mutation's own onSuccess runs  *)
(* for every call, the one given to mutate only for the latest; to         *)
(* invalidate a query cancels a fetch of it that is under way and starts   *)
(* another, unless it is the first, which goes on.                         *)
(***************************************************************************)
EXTENDS Integers, FiniteSets, Sequences

CONSTANTS
  MaxTyped,   \* bound: texts the user types, values the user chooses
  MaxCalls,   \* bound: requests that are sent
  MaxMishaps  \* bound: what fails, rows changed elsewhere, fetches out of turn

VARIABLES
  panel,    \* whose list and form these are
  rows,     \* the rows, at the server
  list,     \* what the query cache has of them
  fetch,    \* the fetch that is under way, with what it has read
  form,     \* whether it is open, its text, and the secret that is shown in its place
  calls,    \* all requests, in the order they were sent
  typed,    \* how many texts were typed
  thrown,   \* history: texts that the user replaced or closed the form on
  during,   \* history: texts that were typed while a request was under way
  seen,     \* history: rows whose secret was shown
  mishaps

vars == <<panel, rows, list, fetch, form, calls, typed, thrown, during, seen, mishaps>>

\* op: what the form does, make a row or change one; refreshes: the operations
\* whose answer invalidates the list.  clears: when the form's text goes, with the
\* request, with its answer, when the form is closed, or never.
Panel(op, refreshes, clears) ==
  [op |-> op, refreshes |-> refreshes, clears |-> clears,
   lists |-> TRUE,      \* there is a list, fetched
   early |-> FALSE,     \* the form is there before the list is
   acts |-> FALSE,      \* rows have a button that closes them
   guards |-> {},       \* operations whose button is disabled while one is pending
   dialog |-> FALSE,    \* the form is opened and closed
   closes |-> "never",  \* and closed with the request, or with its answer
   atOnce |-> FALSE,    \* a choice or a press of a button: nothing is typed
   reveals |-> FALSE,   \* the answer has a secret that is shown once
   local |-> FALSE,     \* the list is what the component has made
   each |-> FALSE,      \* what an answer does to the form is done by each
   settles |-> FALSE,   \* a failure clears the form as well
   seeds |-> FALSE,     \* the form takes the row's value when it is first rendered
   halves |-> FALSE]    \* a row is made by two requests

\* The hooks: which operations invalidate the list of their own.
useAgents == {"make"}
useComments == {"make"}
useDmMessages == {"make"}
useMemoryRecords == {"make", "change", "close"}
useMcpGrants == {"make", "close"}
useWebhookSubscriptions == {"make", "close"}
useFederationLinks == {"make", "change", "close"}
useFederationScope == {"make", "close"}
useFederationCredentials == {}
useAutonomyTierSettings == {"change"}
useAvailability == {"change"}
useNotificationPreference == {"change"}
useProposals == {"make", "close"}
useAgentActionRecords == {"close"}
useTriggerSuggestions == {"make", "close"}
useIntegrations == {"close"}
useSavedViews == {"make"}
useExplainDeviation == {"change"}
useGenerateArtifact == {}
useGenerateWidget == {}
useCaptureBaseline == {}
useInviteMeetingBot == {}

AgentDirectoryPanel == [Panel("make", useAgents, "answered") EXCEPT !.early = TRUE]
CommentThread == Panel("make", useComments, "sent")
DirectMessagePanel == Panel("make", useDmMessages, "sent")
MemoryPassportPanel ==
  [Panel("make", useMemoryRecords, "sent") EXCEPT !.early = TRUE, !.acts = TRUE]
MemoryRecordRow ==
  [Panel("change", useMemoryRecords, "sent")
     EXCEPT !.acts = TRUE, !.dialog = TRUE, !.closes = "sent"]
MemoryImportWizard ==
  [Panel("make", useMemoryRecords, "answered")
     EXCEPT !.early = TRUE, !.dialog = TRUE, !.closes = "answered", !.each = TRUE,
            !.settles = TRUE]
McpAccessPanel ==
  [Panel("make", useMcpGrants, "closed")
     EXCEPT !.early = TRUE, !.acts = TRUE, !.dialog = TRUE, !.reveals = TRUE]
WebhookSubscriptionsPanel ==
  [Panel("make", useWebhookSubscriptions, "closed")
     EXCEPT !.early = TRUE, !.acts = TRUE, !.dialog = TRUE, !.reveals = TRUE]
FederationLinksPanel ==
  [Panel("make", useFederationLinks, "sent") EXCEPT !.acts = TRUE]
FederationScope ==
  [Panel("make", useFederationScope, "sent") EXCEPT !.early = TRUE, !.acts = TRUE]
FederationCredentials ==
  [Panel("make", useFederationCredentials, "sent")
     EXCEPT !.lists = FALSE, !.local = TRUE, !.acts = TRUE, !.reveals = TRUE]
AutonomyTierPanel ==
  [Panel("change", useAutonomyTierSettings, "sent") EXCEPT !.atOnce = TRUE]
AvailabilitySelector ==
  [Panel("change", useAvailability, "sent") EXCEPT !.atOnce = TRUE, !.early = TRUE]
NotificationPreferencesPanel ==
  [Panel("change", useNotificationPreference, "never") EXCEPT !.seeds = TRUE]
AutomationHistoryPanel == [Panel("none", useProposals, "never") EXCEPT !.acts = TRUE]
FlightRecorderPanel ==
  [Panel("none", useAgentActionRecords, "never") EXCEPT !.acts = TRUE, !.guards = {"close"}]
TriggerSuggestionsPanel ==
  [Panel("make", useTriggerSuggestions, "sent")
     EXCEPT !.atOnce = TRUE, !.acts = TRUE, !.guards = {"make"}]
IntegrationsPanel == [Panel("none", useIntegrations, "never") EXCEPT !.acts = TRUE]
SaveViewButton ==
  [Panel("make", useSavedViews, "answered")
     EXCEPT !.early = TRUE, !.dialog = TRUE, !.closes = "answered", !.guards = {"make"}]
CreateTimeblockModal ==
  [Panel("make", {"make"}, "answered")
     EXCEPT !.early = TRUE, !.dialog = TRUE, !.closes = "answered", !.guards = {"make"},
            !.each = TRUE, !.halves = TRUE]
NotetakerInviteDialog ==
  [Panel("make", useInviteMeetingBot, "answered")
     EXCEPT !.lists = FALSE, !.dialog = TRUE, !.closes = "answered", !.guards = {"make"}]
ArtifactGenerationForm ==
  [Panel("make", useGenerateArtifact, "never") EXCEPT !.lists = FALSE, !.guards = {"make"}]
WidgetGenerationForm ==
  [Panel("make", useGenerateWidget, "never") EXCEPT !.lists = FALSE, !.guards = {"make"}]
BaselineCreationForm ==
  [Panel("make", useCaptureBaseline, "never") EXCEPT !.lists = FALSE, !.guards = {"make"}]
BaselineViewer ==
  [Panel("change", useExplainDeviation, "sent") EXCEPT !.atOnce = TRUE, !.guards = {"change"}]
CreateObjectButton ==
  [Panel("make", {"make"}, "sent") EXCEPT !.atOnce = TRUE, !.early = TRUE]
CommandPalette ==
  [Panel("make", useProposals, "closed") EXCEPT !.early = TRUE, !.dialog = TRUE]

AllPanels ==
  {AgentDirectoryPanel, CommentThread, DirectMessagePanel, MemoryPassportPanel,
   MemoryRecordRow, MemoryImportWizard, McpAccessPanel, WebhookSubscriptionsPanel,
   FederationLinksPanel, FederationScope, FederationCredentials, AutonomyTierPanel,
   AvailabilitySelector, NotificationPreferencesPanel, AutomationHistoryPanel,
   FlightRecorderPanel, TriggerSuggestionsPanel, IntegrationsPanel, SaveViewButton,
   CreateTimeblockModal, NotetakerInviteDialog, ArtifactGenerationForm,
   WidgetGenerationForm, BaselineCreationForm, BaselineViewer, CreateObjectButton,
   CommandPalette}

\* The values of a form that was rendered before the row was there.
Defaults == MaxTyped + 1

Idle == [stage |-> "none", rows |-> << >>]
Asked == [Idle EXCEPT !.stage = "asked"]

\* The page was just loaded.  One row is there; text 0 is that of someone else.
Init ==
  /\ panel \in AllPanels
  /\ rows = <<[text |-> 0, open |-> TRUE, at |-> 0, whole |-> TRUE]>>
  /\ list = [known |-> panel.local, failed |-> FALSE, rows |-> << >>]
  /\ form = [open |-> ~panel.dialog, secret |-> 0,
             draft |-> IF panel.seeds THEN Defaults ELSE 0]
  /\ fetch = IF panel.lists THEN Asked ELSE Idle
  /\ calls = << >>
  /\ typed = 0
  /\ thrown = {} /\ during = {} /\ seen = {}
  /\ mishaps = 0

-------------------------------------------------------------------------------
ListShown == list.known /\ ~list.failed
FormShown ==
  form.open /\ form.secret = 0 /\ (panel.early \/ ~panel.lists \/ ListShown)

Under(i) == calls[i].stage \in {"sent", "done", "half"}
Pending(op) == {i \in DOMAIN calls : calls[i].op = op /\ Under(i)}
Enabled(op) == op \in panel.guards => Pending(op) = {}

Call(op, text, row) ==
  [op |-> op, text |-> text, row |-> row, at |-> 0, stage |-> "sent",
   crowded |-> Pending(op) # {}, late |-> FALSE, first |-> FALSE]

\* The user types, over what is there.
Type ==
  /\ FormShown
  /\ panel.op # "none" /\ ~panel.atOnce
  /\ typed < MaxTyped
  /\ typed' = typed + 1
  /\ form' = [form EXCEPT !.draft = typed + 1]
  /\ thrown' = thrown \union ({form.draft} \ {0})
  /\ during' = IF Pending(panel.op) = {} THEN during ELSE during \union {typed + 1}
  /\ UNCHANGED <<panel, rows, list, fetch, calls, seen, mishaps>>

OpenForm ==
  /\ panel.dialog /\ ~form.open
  /\ panel.early \/ ListShown
  /\ form' = [form EXCEPT !.open = TRUE]
  /\ seen' = seen \union ({form.secret} \ {0})
  /\ UNCHANGED <<panel, rows, list, fetch, calls, typed, thrown, during, mishaps>>

\* The user closes the form, or what has the secret.
CloseForm ==
  /\ form.open
  /\ panel.dialog \/ form.secret # 0
  /\ form' = [open |-> ~panel.dialog, secret |-> 0,
              draft |-> IF panel.dialog THEN 0 ELSE form.draft]
  /\ thrown' = IF panel.dialog THEN thrown \union ({form.draft} \ {0}) ELSE thrown
  /\ UNCHANGED <<panel, rows, list, fetch, calls, typed, during, seen, mishaps>>

\* handleSubmit: a text is sent once there is one, preferences as they are.
Submit ==
  /\ FormShown
  /\ panel.op # "none" /\ ~panel.atOnce
  /\ form.draft # 0
  /\ Enabled(panel.op)
  /\ Len(calls) < MaxCalls
  /\ calls' = Append(calls, Call(panel.op, form.draft, 1))
  /\ form' = [form EXCEPT !.draft = IF panel.clears = "sent" THEN 0 ELSE @,
                          !.open = @ /\ panel.closes # "sent"]
  /\ UNCHANGED <<panel, rows, list, fetch, typed, thrown, during, seen, mishaps>>

\* A value is chosen, or a button without a form pressed.
Choose ==
  /\ panel.atOnce
  /\ panel.early \/ ListShown
  /\ Enabled(panel.op)
  /\ typed < MaxTyped /\ Len(calls) < MaxCalls
  /\ typed' = typed + 1
  /\ calls' = Append(calls, Call(panel.op, typed + 1, 1))
  /\ UNCHANGED <<panel, rows, list, fetch, form, thrown, during, seen, mishaps>>

\* The button of a row that is shown to be open.
Act ==
  /\ panel.acts
  /\ ListShown
  /\ Enabled("close")
  /\ Len(calls) < MaxCalls
  /\ \E k \in DOMAIN list.rows :
       /\ list.rows[k].open
       /\ calls' = Append(calls, Call("close", 0, k))
  /\ UNCHANGED <<panel, rows, list, fetch, form, typed, thrown, during, seen, mishaps>>

-------------------------------------------------------------------------------
NewRow(text, whole) == [text |-> text, open |-> TRUE, at |-> 0, whole |-> whole]

\* The server does what is asked: a row that is closed is not closed again, nor
\* changed.
Serve(i) ==
  LET c == calls[i]
      k == IF c.op = "make" THEN Len(rows) + 1 ELSE c.row
      Result(stage, at) == [calls EXCEPT ![i].stage = stage, ![i].row = k, ![i].at = at]
  IN
  /\ c.stage = "sent"
  /\ \/ /\ c.op = "make"
        /\ rows' = Append(rows, NewRow(c.text, ~panel.halves))
        /\ calls' = Result(IF panel.halves THEN "half" ELSE "done", 0)
     \/ /\ c.op = "change" /\ rows[k].open
        /\ rows' = [rows EXCEPT ![k].text = c.text, ![k].at = @ + 1]
        /\ calls' = Result("done", rows[k].at + 1)
     \/ /\ c.op = "close" /\ rows[k].open
        /\ rows' = [rows EXCEPT ![k].open = FALSE]
        /\ calls' = Result("done", 0)
     \/ /\ c.op \in {"change", "close"} /\ ~rows[k].open
        /\ calls' = [calls EXCEPT ![i].stage = "refused"]
        /\ UNCHANGED rows
  /\ UNCHANGED <<panel, list, fetch, form, typed, thrown, during, seen, mishaps>>

\* The second request, which schedules the block.
Schedule(i) ==
  /\ calls[i].stage = "half"
  /\ rows' = [rows EXCEPT ![calls[i].row].whole = TRUE]
  /\ calls' = [calls EXCEPT ![i].stage = "done"]
  /\ UNCHANGED <<panel, list, fetch, form, typed, thrown, during, seen, mishaps>>

\* A later call of the mutation has taken its callbacks.
Overtaken(i) == \E j \in DOMAIN calls : j > i /\ calls[j].op = calls[i].op

\* What an answer does to the form: it clears, closes, or shows the secret.
Settled(i) ==
  IF calls[i].op # panel.op \/ (Overtaken(i) /\ ~panel.each) THEN form
  ELSE [open |-> form.open /\ panel.closes # "answered",
        draft |-> IF panel.clears = "answered" THEN 0 ELSE form.draft,
        secret |-> IF panel.reveals THEN calls[i].row ELSE form.secret]

\* invalidateQueries.
Invalidate ==
  fetch' = IF list.known \/ fetch.stage = "none" THEN Asked ELSE fetch

\* onSuccess, that of the hook and that of the call.
Answer(i) ==
  /\ calls[i].stage = "done"
  /\ calls' = [calls EXCEPT ![i].stage = "answered", ![i].late = Overtaken(i),
                            ![i].first = ~list.known /\ fetch.stage # "none"]
  /\ form' = Settled(i)
  /\ seen' = IF form'.open THEN seen \union ({form'.secret} \ {0}) ELSE seen
  /\ IF panel.lists /\ calls[i].op \in panel.refreshes
       THEN Invalidate /\ UNCHANGED list
       ELSE /\ list' = IF panel.local /\ calls[i].op = "make" /\ ~Overtaken(i)
                         THEN [list EXCEPT !.rows = [k \in DOMAIN @ \union {calls[i].row} |->
                                 IF k = calls[i].row THEN NewRow(calls[i].text, TRUE) ELSE @[k]]]
                         ELSE list
            /\ UNCHANGED fetch
  /\ UNCHANGED <<panel, rows, typed, thrown, during, mishaps>>

\* A refusal, or a request or an answer that is lost.
Fail(i) ==
  /\ \/ calls[i].stage = "refused" /\ UNCHANGED mishaps
     \/ Under(i) /\ mishaps < MaxMishaps /\ mishaps' = mishaps + 1
  /\ calls' = [calls EXCEPT ![i].stage = IF calls[i].stage \in {"done", "half"} THEN "lost"
                                                                             ELSE "failed"]
  /\ form' = IF panel.settles THEN Settled(i) ELSE form
  /\ UNCHANGED <<panel, rows, list, fetch, typed, thrown, during, seen>>

-------------------------------------------------------------------------------
\* The list is fetched: when the window is focused, or every so often, too.
Refetch ==
  /\ panel.lists /\ fetch.stage = "none"
  /\ mishaps < MaxMishaps
  /\ mishaps' = mishaps + 1
  /\ fetch' = Asked
  /\ UNCHANGED <<panel, rows, list, form, calls, typed, thrown, during, seen>>

Read ==
  /\ fetch.stage = "asked"
  /\ fetch' = [stage |-> "read", rows |-> rows]
  /\ UNCHANGED <<panel, rows, list, form, calls, typed, thrown, during, seen, mishaps>>

Fetched ==
  /\ fetch.stage = "read"
  /\ list' = [known |-> TRUE, failed |-> FALSE, rows |-> fetch.rows]
  /\ fetch' = Idle
  /\ UNCHANGED <<panel, rows, form, calls, typed, thrown, during, seen, mishaps>>

FetchFails ==
  /\ fetch.stage # "none" /\ mishaps < MaxMishaps
  /\ mishaps' = mishaps + 1
  /\ list' = [list EXCEPT !.failed = TRUE]
  /\ fetch' = Idle
  /\ UNCHANGED <<panel, rows, form, calls, typed, thrown, during, seen>>

\* Somebody else makes or closes a row.
Elsewhere ==
  /\ mishaps < MaxMishaps
  /\ mishaps' = mishaps + 1
  /\ \/ rows' = Append(rows, NewRow(0, TRUE))
     \/ \E k \in DOMAIN rows : rows[k].open /\ rows' = [rows EXCEPT ![k].open = FALSE]
  /\ UNCHANGED <<panel, list, fetch, form, calls, typed, thrown, during, seen>>

Next ==
  \/ Type \/ OpenForm \/ CloseForm \/ Submit \/ Choose \/ Act
  \/ \E i \in DOMAIN calls : Serve(i) \/ Schedule(i) \/ Answer(i) \/ Fail(i)
  \/ Refetch \/ Read \/ Fetched \/ FetchFails \/ Elsewhere

Spec == Init /\ [][Next]_vars

-------------------------------------------------------------------------------
Text == 0..MaxTyped + 1

TypeOK ==
  /\ panel \in AllPanels
  /\ \A k \in DOMAIN rows : rows[k].text \in Text /\ rows[k].at \in 0..MaxCalls
  /\ list.known \in BOOLEAN /\ list.failed \in BOOLEAN
  /\ DOMAIN list.rows \subseteq DOMAIN rows
  /\ fetch.stage \in {"none", "asked", "read"}
  /\ form.open \in BOOLEAN /\ form.draft \in Text /\ form.secret \in 0..Len(rows)
  /\ \A i \in DOMAIN calls :
       /\ calls[i].op \in {"make", "change", "close"}
       /\ calls[i].stage \in
            {"sent", "half", "done", "refused", "answered", "failed", "lost"}
  /\ Len(calls) <= MaxCalls
  /\ typed \in 0..MaxTyped /\ mishaps \in 0..MaxMishaps

Reflects(i) ==
  LET c == calls[i] IN
  /\ c.row \in DOMAIN list.rows
  /\ c.op = "change" => list.rows[c.row].at >= c.at
  /\ c.op = "close" => ~list.rows[c.row].open

\* What was answered with success is in the list that is shown when no fetch is
\* under way, unless the answer came during the first fetch, which is not
\* repeated.  Of the list that a component keeps for itself that is so of what it
\* makes, one after the other; that a credential is revoked it never shows.
ListIsCurrent ==
  ListShown /\ fetch.stage = "none" =>
    \A i \in DOMAIN calls :
      calls[i].stage = "answered" =>
        \/ Reflects(i)
        \/ ~panel.local /\ calls[i].first
        \/ panel.local /\ (calls[i].op = "close" \/ calls[i].late)

\* A text that was typed is in the form, on its way or with the server, or the
\* user gave it up; but a form that is cleared when it is sent loses it with the
\* request, and one that an answer clears loses what was typed since it was sent.
TextsKept ==
  \A t \in 1..typed :
    \/ t = form.draft \/ t \in thrown
    \/ \E i \in DOMAIN calls :
         /\ calls[i].text = t
         /\ \/ calls[i].stage \in {"sent", "half", "done", "answered", "lost"}
            \/ panel.clears = "sent" \/ panel.settles
    \/ t \in during /\ panel.clears = "answered"

\* One text makes two rows only if its answer was lost after it was made, if it was
\* sent again before it was answered, by a button that is not disabled, or if the
\* form keeps it.
MadeOnce ==
  \A t \in 1..typed :
    LET made == {k \in DOMAIN rows : rows[k].text = t}
        sent == {i \in DOMAIN calls : calls[i].op = "make" /\ calls[i].text = t}
    IN  panel.op = "make" /\ Cardinality(made) > 1 =>
          \/ \E i \in sent : calls[i].stage = "lost"
          \/ "make" \notin panel.guards /\ \E i \in sent : calls[i].crowded
          \/ panel.clears \in {"closed", "never"} /\ ~panel.reveals

\* The last value that was chosen is the row's once it is answered, unless it was
\* sent before the one before it was answered.
LastChoiceStands ==
  LET changes == {i \in DOMAIN calls : calls[i].op = "change"} IN
  \A i \in changes :
    (\A j \in changes : j <= i) /\ calls[i].stage = "answered" /\ ~calls[i].crowded =>
      rows[1].text = calls[i].text

\* A secret that was answered was shown, unless another request was sent before.
SecretsShown ==
  panel.reveals =>
    \A i \in DOMAIN calls :
      calls[i].op = "make" /\ calls[i].stage = "answered" =>
        calls[i].row \in seen \union {form.secret} \/ calls[i].late
===============================================================================
