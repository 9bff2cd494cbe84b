# A TLA+ development of LuminaOS

LuminaOS is a TypeScript monorepo. Its core is the server (`apps/server/src`), a NestJS
process over one PostgreSQL database, one Redis and one pool of database connections.
Almost everything the server knows is event-sourced: a command appends events to a stream
of the *event store*, and *projections* read the whole log by global position and keep the
read-model tables that queries, guards and workers look at. The exceptions are the
collaborative documents, which live in memory between snapshots, the leased queues
(webhook deliveries, mention actions) and plain rows (workspaces, federation links, calendar
accounts, sessions). The web client keeps copies of all this: a cache of query results, a
copy of each open document, a session.

This directory holds TLA+ modules for the parts where interleavings, failures and
restarts decide whether the program is right, the TLC configurations that check them on
small instances, and theorems TLAPS checks for every value of the constants.

`PROJECT.json` lists for every definition the source lines it translates, for every property
of a run a mutation of the code that breaks it, and the hazards of the code with the
properties that cover them. Paths below are relative to `apps/server/src` unless they start
with `packages`, `docs` or `apps`.

## 1. Inventory

### 1.1 Event store (`event-store/event-store.service.ts`, `db/schema/events.ts`)

*State.* Table `events`: primary key `id`, unique `(stream_id, version)`, identity column
`global_position`. *Operations.* `append(streamId, expectedVersion, events)`, one transaction
at READ COMMITTED: read the head, compare, insert with `ON CONFLICT (id) DO NOTHING`,
look at how many rows came back, commit. Read methods by stream, workspace, position, ids.
*Callers.* Every command service; each publishes on the event bus and runs its projections'
`catchUp` afterwards. *Hard.* Two appends that read the same head; a retry that overlaps
the first attempt or follows a lost answer; a batch of which some ids exist; positions
drawn long before commit. *Correct means.* Gap-free streams, one winner per version,
all-or-nothing batches, idempotent retries, per-stream order preserved in the global order.

### 1.2 Projection runner (`event-store/projections/projection-runner.service.ts`)

*State.* `projection_checkpoints`, one row per projection, and the projections' own tables.
*Operations.* `catchUp` (advisory transaction lock, pages of 500 events after the checkpoint,
apply, write the checkpoint, commit) and `rebuild` (reset and zero the checkpoint in a
transaction of its own, then `catchUp`; only tests call it). *Hard.* Overlapping calls;
crashes between apply and commit; positions that commit out of order; pages read on another
connection than the transaction's; a full last page. *Correct means.* Every event the
projection handles is applied exactly once, in order, and in the end.

The event bus (`event-store/event-bus.ts`) is an in-process emitter with isolated listeners.
It may lose notifications; its comment names the checkpoint-based catch-up as the durability
guarantee, which is what the runner must deliver.

### 1.3 Connection pool and advisory locks (`db/client.ts`, and who nests them)

*State.* One `pg` Pool with the default limit of ten connections and no acquisition timeout,
and Postgres' advisory locks. *Who.* `catchUp` holds a transaction and a lock and takes a
second connection for each page; `AIUsageService.withWorkspaceAILock` and
`AgentResourceLimitsService` hold a connection and a session lock around work that catches
projections up. *Hard.* Hold-and-wait on the pool and on the locks. *Correct means.* Requests
in progress are never all waiting for each other; each gives its connections back.

### 1.4 Documents (`docs/doc-collab.gateway.ts`, `apps/web/src/lib/gateway-provider.ts`)

*State.* On the server `rooms: Map<docId, Room>`; a room has a `Y.Doc`, its connections,
`dirtyCount`, a debounce timer and a `snapshotting` flag. In the store, `DocumentSnapshotted`
events and the `document_snapshots` projection. In each browser a `Y.Doc` and a socket that is
opened again whenever it closes. *Operations.* Upgrade, join (with an `await` of the latest
snapshot), the two halves of the sync handshake, receive and relay an update, leave, snapshot
(debounced or after so many updates), flush and discard when empty, flush all at shutdown.
*Hard.* Everything that may run during the awaits of a load, a snapshot or a flush; messages
that arrive before the room is loaded; failing appends; shutdown and restart. *Correct means.*
One room per document; no edit the server took in is lost by a leave, a planned restart or a
later snapshot; the copies come to agree whatever connections do.

### 1.5 Commands and action proposals (`commands/commands.service.ts`), agent action records

*State.* A proposal stream per command (`ActionsProposed` at version 1, `ActionsDecided` at
version 2), the `command_proposals` read model, a ledger of executed actions. *Operations.*
Parse and propose (routing by autonomy tier: suggest, act-and-notify, approve-and-act),
`decide`, execution of approved actions one by one, `undoAction`. *Hard.* Two decisions; a
crash between the decision and the execution; an action executed before its proposal is
recorded; two undos; a ledger entry that cannot be written. *Correct means.* An action is
executed at most once and only if approved, or permitted by its tier; the ledger says what
was executed; an undo that succeeds is the only one that does.

### 1.6 Leased queues and timers (`webhooks/`, `comments/`, `agent-runtime/`, `automation/`)

*State.* A row per webhook delivery and per mention, with status, attempts and
`next_attempt_at`; a claim is a compare-and-set of `next_attempt_at` to now plus a lease. Rows
of automation triggers with `lastFiredAt`, and of the objects a condition matched. In-process
concurrency slots per agent, an advisory lock per agent, hourly action counts. *Hard.* A worker
that dies or outlives its lease; final updates that do not check the claim; limits that must be
given back on every path; a sandbox that times out without cancelling the work; timers that
start a run while the last one goes on. *Correct means.* Attempts bounded, every job ends unless its subscription is removed, its
effect happens once but for what outlived its lease, slots and locks never leak; a trigger that
is due fires, and fires twice only at the price of an overlap.

### 1.7 Objects, fields, relations (`objects/`, `fields/`, `relations/`, `recurrence/`, `ai/`, `packages/core-objects`)

*State.* An event stream per object and its row; a relation graph; field definitions with
formulas, configurations and defaults. *Operations.* Optimistic commands (read the stream,
check, append at its length), field values with formula recomputation, cycle checks against the
read model, the next occurrence of a recurring task with deterministic ids, debounced AI
refreshes that append at a version read before the model was called, queries with filters, sort
and pages. *Hard.* Conflicts that drop an AI value; two appends with a crash in between;
relations and definitions checked on rows that lag behind; pages while rows change; values that
a later configuration would not admit. *Correct means.* A row is the replay of its stream;
computed values are those of the current inputs; a cycle only by a race; a page shows what is
there; a query that is accepted does not fail.

### 1.8 What follows objects (`search/`, `context/`, `calendar/`, `notetaker/`)

*State.* A search row with a debounced embedding; a graph of objects, topics and desktop
signals; external calendars (a pushed event per time block, a cache of polled events, rotating
tokens); meetings with transcripts that are cleared after a time. *Hard.* Refreshes that
overlap; a consent revoked while a signal is on its way; an edge two relations share; pushes
and polls that overlap with each other and with a disconnection; a sweep beside a webhook.
*Correct means.* What follows comes to agree with what it follows, and nothing outlives the
consent, the account or the retention it depends on.

### 1.9 Settings and small records (`saved-views/`, `memory/`, `availability/`, `agent-runtime/`, `direct-messages/`, `trigger-suggestions/`)

Event-sourced services that append one event per operation after a check on a read model, and
differ in the check. *Hard.* What was looked up is changed meanwhile; names that are unique by
a check only; a model call and a decision in several steps. *Correct means.* Nothing follows a
deletion unless it was looked up before; what was answered stays true.

### 1.10 Federation, budgets, accounts (`federation/`, `mcp-server/`, `integrations/`, `auth/`, `workspaces/`)

*State.* Rows: links of two workspaces, scopes, credentials, token buckets, users, sessions in
Redis, workspaces with their seeded fields. *Hard.* A transition checked on one read and stored
by id alone; a read that passes several checks while link, credential and scope change; buckets
refilled by elapsed time; a password changed while another browser logs in; a workspace whose
seeding fails. *Correct means.* Revoked means revoked; every answer is audited; no interval
is overspent; a changed password ends the sessions it found.

### 1.11 The web client (`apps/web/src`)

*State.* The query cache, with optimistic changes of some objects; per panel a form, a dialog, a
secret that is shown once; a session. *Operations.* Fetch, invalidate, mutate with callbacks of the
mutation and of the call. *Hard.* Answers that come in any order, while the user types on or the list
is fetched; a button pressed twice; a request that fails or loses its answer after it took effect.
*Correct means.* A quiet list shows what was answered; what was typed is not lost; one press makes one
row; a secret that was made is shown.

### 1.12 The rest

Document text extraction, export, artifacts, widgets and question answering beyond their model
calls, the platform, the views of objects in the web client, the desktop shell, end-to-end tests, deployment.
`PROJECT.json` has a line for each with what it is and why it is left out: pure I/O, formatting,
or user interface.

### 1.13 How the parts interact

```
 web client ──requests──▶ command services ──append──▶ EventStore ──positions──▶ ProjectionRunner
   │  ▲  cache, session      ▲        ▲                    ▲                          │
   │  └── query results ─────┼────────┼── guards read ─────┼──────── read models ◀────┘
   └──── sockets ──▶ DocCollabGateway ┼── snapshots ───────┘             │
                                      └── workers, schedulers, sweeps poll them
 every arrow on the server takes connections of one pool; catchUp, the AI lock and the
 agent lock nest them
```

Command services call the store, then `catchUp`, in the same request; workers and schedulers
poll read models and call command services; the gateway is driven by sockets, timers and the
shutdown hook, and writes through the store and the runner.

## 2. Modules

The modules rest on three abstractions, each justified by a module below it. The store is an
atomic append at an expected version (`EventStore` implements `StreamLog`). A read model is a
prefix of the log, its length a variable `shown`, that any catch-up extends (`ProjectionRunner`,
while no position is overtaken). Everything between two awaits is one step, since Node runs one
callback at a time; every await is a place where other requests, failures and crashes come in.

| module | models | abstracts |
|---|---|---|
| `StreamLog` | what callers of `append` are promised: batches appear atomically at the version they expected, or not at all | everything but the log |
| `EventStore` | `append`, statement by statement, by concurrent writers | payloads, metadata, workspace ids |
| `GlobalFeed` | the log as readers see it: positions are drawn, then published or dropped in any order | what is in an event |
| `ProjectionRunner` | `catchUp` and `rebuild` of one projection over `GlobalFeed` | `apply` is one row per handled event |
| `ConnectionPool` | what requests hold of the pool and of the locks, outermost first | what they do with it |
| `DocRoom` | the rooms, connections, snapshots and shutdown of one document | a `Y.Doc` is the set of edits it received |
| `DocSync` | the copies of one document in two browsers and in the room: handshake, relay, reconnection, restart | presence; how the room is saved |
| `ActionContract` | what a workspace is promised of proposed actions: decided once, carried out at most once and only if allowed | tasks, ledger, undo, calls |
| `ActionProposals` | routing, recording, deciding, executing, ledger and undo of one proposal | an action is the number of tasks it creates |
| `LeasedJobs` | both leased queues and the limits an agent's action runs under | time is whether a row is due |
| `TriggerScheduler` | overlapping runs over scheduled triggers | time is counted in ticks |
| `TriggerConditions` | overlapping runs over one conditional trigger | a condition is the set of objects that match |
| `TriggerSuggestions` | analyses under lock and cooldown, decisions that create triggers | templates are names |
| `RelationCommands`, `Reachability` | creating and removing relations of every kind; the searches they make | object types |
| `FieldCommands` | formula fields: definition, cycle check, order of recomputation | other field types |
| `FieldFilters` | one field from its configuration to the filters of a query | strings of three characters, three numbers |
| `FormulaParser` | the recursive descent over tokens, and the evaluator | one operator per level |
| `ObjectFields` | field values of a task with formulas, AI refresh and recurrence | a value is the version that set it |
| `ObjectCommands` | the commands on one object, its row, the pushed calendar event | titles and rules are versions |
| `ObjectQuery` | pages of a sorted query while rows change | a value is a number or missing |
| `RecordCommands` | the small services: agents, manifests, tiers, preferences, triggers, comments, views, memory, policies, availability | one profile for each |
| `SearchIndex` | the search row and its debounced embedding | a text is the number of events it is made of |
| `ContextGraph` | nodes and edges, and signals under consent | one field, one signal type |
| `CalendarSync` | polls, token refresh and accounts | an event is its last version |
| `MeetingDetails` | webhook updates, proposals of a transcript, retention | a transcript is the delivery that brought it |
| `DirectMessages` | a conversation with an agent | a message is its place in the stream |
| `AIQuota` | model calls under the workspace lock and the quota | tokens and cost are one |
| `NotificationBudget` | the governor's count, delivery and record | one member, one window |
| `TokenBucket` | the request budgets of federation, MCP and connectors | time in refills of one token |
| `FederationLinks` | initiate, accept, revoke | – |
| `FederatedContext` | a federated read, check by check | one link, one credential |
| `Accounts` | sessions of two browsers, a password, a workspace and its seeding, the page | time to live is any time |
| `ChecklistCache` | the browser's copy of one object under optimistic changes | the server handles one request at a time |
| `ReadModels` | what each of 26 projections makes of its events, and of a rebuild | contents are the event that gave them |
| `Panels` | the lists and forms of the browser's panels and dialogs, one record for each | a text is its number |
| `EventStoreProofs`, `ProjectionRunnerProofs`, `DocRoomProofs`, `ActionProposalsProofs`, `WorkersProofs`, `CommandProofs`, `ServiceProofs`, `MCServicesProofs` | theorems (section 5) | |
| `MC*` | instances for TLC | |

### 2.1 How state and actions correspond to the code

Each module's header says what it is about, each variable has a comment, and the actions of a
request are named for what the code does at that await: a `request[c].at` (or `call`, `run`,
`job`, `poll`) is the await the call is at, the record's other fields are its locals. A failed
call, a lost connection and the death of the process are one action (`Fail`, `Abandon`, `Crash`)
where they have one effect. Variables marked *history* record what happened for the properties
to speak of; no guard reads them, except the named bounds on clashes and overlaps.

*EventStore.* `events` is the table, `nextPos` the identity sequence; per writer `pc` is the
statement it is at, `pending` the uncommitted rows of its transaction, `done` and `pos` the
progress of its INSERT, `answer` the result. Each action is one statement, or one row of the
INSERT: `ReadHead`, `CheckStale` (the replay lookup after a head mismatch), `DrawPosition`,
`InsertRow` / `SkipRow` / `VersionTaken` (a row is inserted, skipped because its id is committed,
or refused by the unique key), `CheckAllSkipped`, `RefusePartial`, `Commit`, `Fail`. Each
statement sees what is committed when it starts, as READ COMMITTED does. A row whose key is held
by an open transaction makes the statement wait: no action is enabled. Deadlocked writers are
aborted by the database, one of the outcomes of `Fail`. `Commit` may lose its answer, so a retry
of a committed batch is an ordinary `Start`. Batches have distinct ids, as callers generate them.

*ProjectionRunner.* A call goes `idle → lock → checkpoint → read → apply → … → commit → idle`.
The transaction's rows are in `mine`, its checkpoint write is `wrote` with `cursor`, and both take
effect together at `Commit`. Pages are read from what is visible at that moment, since
`readAllFrom` uses its own connection. `rebuild` is `Reset` (rows to delete), `Rewind` (checkpoint
row), `CommitReset`, then `lock`. The history `overtaken` holds positions that became visible
below a position already read.

*ConnectionPool.* `Needs[r]` lists what request `r` acquires, e.g. `<<Conn, p, Conn>>` for `catchUp`,
and `<<Conn, workspace, Conn, p, Conn>>` for an AI operation around it. The innermost connection is
taken and given back once per page. The queue of the pool is FIFO.

*DocRoom.* A `Room` is an object `getOrCreateRoom` creates, which may be in the map (`current`) or
not. `Connect`, `Load`, `JoinRaced` and `CreateRoom` are the two halves of a join around the await;
`Receive` includes `markRoomDirty`; `Close` includes the first half of the flush, and
`FinishSnapshot` its second half. A socket that is `CLOSING` when its room is ready is added to it,
leaves it at once (`JoinClosing`) and leaves it again with its 'close' event, when the room may have been
torn down and another made: `Leavers` says who will, and a room object is kept for them. `Shutdown` is
`onModuleDestroy` up to its await; until it is over, joins and edits are taken in as before; `Stop` is
the end of the sockets and of the process. The history `disturbed` collects the kinds of overlap and
failure that happened (`edit`, `close`, `load`, `again`, `late`, `shutdown`, `append`, `catchUp`); each
promise is stated for the behaviours free of the kinds it does not survive (section 3.3).

*DocSync.* Four copies of a text: two editors, the room and what a new room is loaded with;
messages of each socket are sequences. `Progress(c)` is the next event of a connection; `Disconnect`,
`Destroy` and `Restart` may come at any time.

*ActionProposals.* `version` is the head of the proposal's stream and `row` the version
`command_proposals` reflects; `ledger` and `ledgerRows` are the same for `agent_action_records`.
`job[c]` holds the locals of a call: `todo` the decisions not yet looked at, `handled` the keys of
`resultsByActionId`, `entry` the ledger entry being made, `left` what an undo has not yet deleted. A
call of `propose*` runs the loop over the act-and-notify actions, then `RecordProposal`,
`PublishProposal`, and goes on as the system's own `decide` if `AutoDecided`. A member's call is
`StartDecide → ReadProposal → AppendDecision → RefreshRow`, then per decision `SkipDuplicate`, `Reject`
or `Dispatch`; an executor is `CreateTask` (and `Relate`) per title, then `Executed` or
`ExecuteFails`, then `RecordEntry`. `undoAction` is `StartUndo → LookupUndo → SoftDelete… → Undone`.

*LeasedJobs.* A job is a row of one of the two queues; `run[r]` is one `runOnce` with the rows it
selected and the one it works on. `Select → Claim` (compare-and-set on `nextAttemptAt`) `→` effect `→`
update for a webhook; for a mention the limits come between: `TakeSlot`, `TakeLock`, `CheckRate`,
`StartSkill`, `RecordAction`, `GiveBack`. Passing of time is `Pass(j)`, which makes a row due: for
a row in work, its lease is over. `Remove(j)` deletes the subscription of a delivery: its rows stay, and `Select` no longer
takes them, so a delivery that is pending then stays pending; a run that has selected it by then tries it once more.

*TriggerScheduler, TriggerConditions, TriggerSuggestions.* Runs overlap because timers do not wait
and every process has one. A run decides on what it selected; `Mark` and the match rows come after
the firing. A suggestion's decision creates the trigger first and is appended afterwards.

*RelationCommands, FieldCommands, RecordCommands, ObjectCommands.* Check on rows, append, catch
up, look at the own row where the code does. `blind` and `seen` say what the check had not
been shown. `RecordCommands` has one definition per service that says which checks it makes, so
that one next-state relation stands for eleven services. `ObjectCommands` ends with the push to
the creator's calendar, which is outside of the append's protection.

*ObjectFields.* One task with raw fields, a formula, a model's field and a recurrence. A
request reads the stream, appends value and formula together, then calls what follows (occurrence,
relation, schedule). The skill that makes an occurrence (`CallSkill`) takes any causation id: that of a completion, or one of
`Elsewhere`, given by the caller or drawn at random. The ids of the occurrence and of the relation are derived from it, so that
`OneOccurrence` is about an id: a completion that is asked for by its own id and by another has two occurrences. A refresh reads, asks the model under the AI lock, and appends at the version
it had read.

*FieldFilters, FormulaParser, ObjectQuery.* Algorithms of the query path, checked against what their
names say: an operator and its negation split the objects, a `contains` finds the text, a formula is
parsed as the grammar of `parser.test.ts` says, pages in a row are the sorted list. A filter or sort that is accepted
does not fail on a value, but for a date of the year 0000 (`YearZero`), which zod admits and `::timestamptz` refuses
(`OnlyYearZeroFails`).

*SearchIndex, ContextGraph, MeetingDetails, CalendarSync, DirectMessages.* Followers: something is
written, a row follows by catch-up, timer or webhook. The properties speak of the quiet state, and
name the overlaps and failures that leave the follower behind.

*ReadModels.* One profile per projection says how it writes a row (insert, keep, one per slot,
replace, count, jobs), what the service asks before a change, who makes the row's id and which events
may be `unfit`: with a value that the service takes and the row cannot hold, a text longer than its column, one with more words than a
`tsvector` holds or with U+0000, a time of the year 0. `CatchUp` folds `Apply` over what waits and commits all or none;
`RebuildParents` is the rebuild of a table that this one's rows refer to. `Note` is what is not
in the log: an embedding, the objects a trigger matched, the end of a job.

*AIQuota, NotificationBudget, TokenBucket.* Budgets: read, decide, act, record. The histories count
by how much, and why, more was spent than the budget.

*FederationLinks, FederatedContext.* A transition is checked on a row read before and stored
by id; a read passes guard, scope, graph and audit one after the other, while the administrator
changes link, credential and scope.

*Accounts, ChecklistCache.* Both sides of the wire: a call has a place on the server and an answer on
its way back, and the page has a cache that fetches, overwrites and invalidates. `Accounts` goes
from a password to a seeded workspace; `ChecklistCache` writes before the server has answered.

*Panels.* `Panel` is a record of how a panel goes about it (which answers refresh the list, when the
form is cleared and closed, which buttons are disabled while a request is pending), and one
definition per panel and per hook says so for that component; a behaviour is of one of them. A request
is `Submit`, `Choose` or `Act`, then `Serve`, then `Answer` or `Fail`; a fetch is `Refetch → Read →
Fetched`. The exceptions in its properties are what the components really do (section 6).

## 3. What is checked

| run | instance | shows |
|---|---|---|
| `append_races` | 2 writers, 2 streams, 2 event ids, batches of 1 or 2, expected version up to 1, 3 positions | gap-free streams; order of positions; acknowledged events stay where the caller was told; a recorded batch is never refused; refinement of both abstract specifications |
| `catch_up` | 2 writers, 2 runners of which one may rebuild, 4 positions, pages of 2, 2 failures, fairness | effectively once and in order; nothing that was not overtaken is skipped; the checkpoint goes back only by a rebuild; every event is applied in the end |
| `overtaken_position` | 2 writers, 1 runner, 3 positions | **violated** `NothingEverSkipped` |
| `rooms` | 2 connections, 2 edits, 3 rooms, 4 joins, 1 failure, a shutdown, fairness | no connection is in a torn-down room; one room per document; no edit lost; snapshots grow; every edit saved in the end; each but for the overlaps of section 3.3 |
| `shutdown_during_snapshot` | 1 connection, 3 edits, 3 joins | **violated** `EveryRestartLossless` |
| `proposed_actions` | a `generateSubtasks` of two titles and an `assignPeople`, every mix of tiers, 2 callers, 1 failure or crash, fairness | only when allowed; a truthful ledger; undone once; refinement of `ActionContract`; what is approved is carried out |
| `workers` | `MCWorkers`, five parts, fairness | leased jobs and the limits; scheduler; conditions; a pool with one connection to spare; copies of a document |
| `services` | `MCServices`, one part per service | all that is listed in the table below |
| `parent_cycle_race` | 2 objects, 2 creates | **violated** `NoParentCycle` |
| `revoked_link_reactivated` | 1 link, 2 requests | **violated** `RevokedStaysRevoked` |
| `uncounted_notifications` | 2 calls, a budget of 1, 4 outcomes, 1 failure | **violated** `OverBudgetPaidFor` |
| `pages_without_values` | 3 objects, pages of 1, one without a value | **violated** `GapFree` |

### 3.1 Composite runs

`MCWorkers` and `MCServices` hold many small state machines. Their services do not call
each other in ways that matter to their properties (where they do, the caller is one module, as in
`ObjectFields` or `FederatedContext`), so a product of them would only multiply states. Instead a
behaviour is one of one service: the variable `part` says whose, is chosen in the initial state and
never changes, and the variables `log, shown, request, x1 …` stand for that service's. A module of
`MCServices` is INSTANCEd with its variables bound to those slots. The properties of a run are
conjunctions of the properties of the modules, each under its `part`:

| property | of |
|---|---|
| `RelationsHold` | `RelationCommands` |
| `FieldsHold` | `FieldCommands`, `FormulaParser`, `FieldFilters` |
| `ObjectHolds` | `ObjectFields` |
| `RecordsHold` | `RecordCommands`, `Accounts` |
| `SuggestionsHold` | `TriggerSuggestions` |
| `FederationHolds` | `FederationLinks`, `FederatedContext` |
| `BudgetsHold` | `AIQuota`, `NotificationBudget`, `TokenBucket` |
| `ViewsHold` | `ObjectQuery`, `ObjectCommands`, `ContextGraph`, `SearchIndex`, `MeetingDetails`, `DocSync`, `ChecklistCache`, `DirectMessages`, `CalendarSync`, `ReadModels`, `Panels` |
| `StepsHold` | the action properties of `FederationLinks`, `TriggerSuggestions`, `ObjectFields` |
| `JobsHold`, `LimitsHold`, `EveryJobEnds` | `LeasedJobs` |
| `FiringsPaidFor` | `TriggerScheduler`, `TriggerConditions` |
| `WorkGetsDone` | liveness of `TriggerScheduler`, `TriggerConditions`, `ConnectionPool`, `DocSync` |

Each conjunct is stated, with a comment, in the module it is about. Many have the form *what is
wrong was paid for*: a job done twice is counted against leases outlived and failures, a budget
exceeded against overlaps. That is what the code promises without a lock, no more and no less; the
dropped guard that makes it happen for free violates the property.

`Pair` gives two requests (or polls, edits, browsers) everywhere and is symmetric, as is `Item`,
the objects to relate; the runs with symmetry check no liveness.

### 3.2 Bounds, and why they are enough

*append_races.* Two writers and two streams give every pairwise race; with expected versions 0
and 1 a writer can follow, tie with or lag behind the other; two ids give an id reused in another
stream, at another version or in part of a batch; three positions let one writer finish a batch
of two while the other has drawn one. The properties are proved without these bounds (section 5).
*catch_up.* Pages of two with four positions are full, short and empty pages, and a last page that is
exactly full; `Handled` leaves a position out, so the page's end is not always a handled event.
*ConnectionPool.* The ten connections are scaled to three and five. A pool is never wedged if the sum
over requests of (connections needed − 1) is below its capacity: part `pool` has that sum plus one;
with the sum itself a state is reached where every connection is held by a request that waits for
another. *rooms.* Two updates trigger a snapshot (`MaxUpdates`); three rooms are
an old, a new and a newer one; `MaxJoins` and `MaxFailures` bound reconnections and failures.
*proposed_actions.* Two titles make a partial execution and a partial undo; an action without tasks
stands for the other kinds; lists of decisions contain every approval, a mixed one, one with a
duplicate. *LeasedJobs.* One delivery and two mentions, which compete for their agent's limits; two
runs in two processes; two attempts, so that there is a retry and a last one; one mishap. `Scenario`
keeps mixes apart that need not meet: deliveries and mentions have tables of their own. *Triggers.* An
interval of two ticks, five ticks, one clash; two objects, one new match per tick.
*services.* Four events are two creations and two changes, or three and one; every module names its
`MaxEvents`, `MaxCalls`, `MaxChanges`, `MaxMishaps`. `MaxWrites` of `ObjectFields`, three, counts the writes of values and
whatever else is asked for, refreshes and occurrences: two completions and the undoing between, or one
and two calls of the skill, for that completion or with other ids. Strings have three characters, `%` and `\` among
them, and at most two places; formulas six tokens and one pair of parentheses; buckets hold two tokens.
*ReadModels.* Three events, two recipients, one rebuild of each table, one recipient switched; the caps
of mentions are scaled to one agent of a comment (`MaxMentions`) and two jobs of a window (`MaxJobs`).
*Panels.* Two texts and two requests, so that one may overtake the other, and one failure, change by
somebody else or refetch at any point.
One mishap is every single failure at every point, combined with every interleaving.

`CHECK_DEADLOCK FALSE` is given where the system may stop: `rooms` (after `Stop` the process has
ended), `workers` and `services` and the instances of `FederationLinks`, `ObjectQuery` and
`NotificationBudget` (a behaviour that has used up its bounds is over).

### 3.3 Fairness, and what the environment is assumed to do

*ProjectionRunner.* A started call is driven by the event loop and the database, so each runner's
steps are weakly fair; in addition requests keep asking for the projection (weak fairness of
`CatchUp`), an assumption about use: every command catches up after it appends. Writers owe nothing,
and failures are never fair. *ConnectionPool.* The pool serves its queue and requests take the steps
they can (weak); a lock is free, taken and free again, and Postgres queues the waiters, hence strong
fairness of `TakeLock`. *DocRoom.* Awaited database calls are answered and timers fire; clients and
the shutdown owe nothing. *ActionProposals.* A call that has started takes its next step; members,
failures and crashes owe nothing. *LeasedJobs, TriggerScheduler, TriggerConditions.* Timers fire,
leases pass and calls are answered; each is weakly fair for the behaviours of its own part.
*DocSync.* Sockets deliver and the reconnect timer fires; that a connection eventually lasts
is said by bounding mishaps.

`ApprovedIsCarriedOut` is stated for behaviours without a failure: with a crash after `AppendDecision`
it would be false, since a second `decide` is refused and nothing resumes the first.

`RebuildAlone` says that a `rebuild` is not overlapped by another call for the projection; no code
outside the tests calls it. With FALSE, a catch-up that commits between the reset's DELETE and its
commit leaves rows that are applied a second time.

What the promises of `DocRoom` do not survive, each a place where the code depends on luck:

| overlap or failure | what is lost |
|---|---|
| `edit` (an update arrives while a snapshot is being appended) | `EditsSurvive`: `dirtyCount = 0` after the append also clears the update that came meanwhile |
| `close` (the last one leaves while a snapshot is in flight) | the flush returns at once, and `SingleAuthority` falls through a second `rooms.delete` |
| `load` (the last one leaves while somebody loads) | `SnapshotsGrow`: a room made from an older snapshot overwrites the newer one |
| `again` (the second `onClose` of a socket that was CLOSING comes to a room already torn down, with another in the map or edits to save) | `SingleAuthority`, `EditsSurvive`, `SnapshotsGrow`: the second `rooms.delete` removes the newer room, and a third is made beside it |
| `late` (an edit is taken in between the flushes of a shutdown and its end) | `LosslessRestart`: nothing saves that room again |
| `shutdown` (the process stops while a snapshot is in flight) | `LosslessRestart` |
| `append`, `catchUp` (a failing call) | `EditsSurvive`: a flush that fails still discards the room |

## 4. Findings

1. **A projection can miss an event for ever** (`overtaken_position`). Global positions are
   drawn by the identity column before commit, and `catchUp` sets the checkpoint to the last
   position it read. Writer 1 draws position 1, writer 2 draws 2 and commits, a catch-up reads
   2 and moves the checkpoint to 2, writer 1 commits: position 1 is below the checkpoint and
   is never read. ADR-0002 (lines 126-127) and the comment of `event-bus.ts` rely on the next
   catch-up to make up for it.
2. **The notification budget is never enforced** (`uncounted_notifications`). The payload of a
   recorded delivery must have a uuid for its `commentId`, and comments have ULIDs: `recordOutcome` throws
   before it appends, the caller logs that, and no delivery is ever recorded or counted. The
   comment at `notification-delivery-events.ts:12-13` says that comment ids are uuids, and the test of
   the budget (`agent-notification-governor.service.integration.test.ts:584`) makes them with `randomUUID()`.
   What does hold, and is checked and proved, is the other side of it: no notification is ever kept
   back for a budget that is not 0 (`BudgetNeverReached`).
3. **A planned shutdown can lose edits** (`shutdown_during_snapshot`). `snapshotRoom` returns at
   once when a snapshot of the room is in flight, so `onModuleDestroy` waits neither for it nor
   for what it does not contain, against the comment at `doc-collab.gateway.ts:187-188`.
4. **Two objects can become each other's parent** (`parent_cycle_race`). Both checks read a model
   without the other's relation, and the unique index knows of second parents only. ADR-0006
   (line 12) rules cycles out.
5. **A revoked federation link can become active again** (`revoked_link_reactivated`). `accept`
   checks the state it read and updates by id; a revocation in between is overwritten, though the
   schema's comment (`federation-links.ts:9-11`) calls `revoked` final.
6. **Pages can miss objects without a value** (`pages_without_values`). The cursor of a row whose
   sort field is missing cannot be compared; the walk skips what follows, or the server refuses its
   own cursor, against `query-builder.ts:597-599`.

## 5. What is proved

TLAPS checks the theorems for every value of the constants: every set of writers, runners,
connections, callers or jobs, and every bound. What each component's proof rests on is an inductive
invariant, `IInv` in its proof module; each was checked by TLC as an invariant of the run before it
was proved. Besides the assumptions a module makes on its constants (named, and evaluated by TLC
in the module's run) some theorems have a hypothesis on the constants, named in their statement,
and one theorem family has one on behaviours, `RebuildAlone` (5.2).

### 5.1 `EventStoreProofs`: the event store, the context graph and the commands on an object

Assumed: a batch is a non-empty sequence of distinct ids (`BatchAssumption`) and the
bounds are naturals (`BoundAssumption`).

| theorem | property |
|---|---|
| `TypesHold` | `TypeOK` |
| `StreamsAreGapFree` | `GapFree` |
| `PositionOrderIsVersionOrder` | `PositionsFollowVersions` |
| `AcknowledgedIsStored` | `AckedIsStored` |
| `RetryIsNeverRefused` | `RefusedOnlyIfAbsent` |
| `StoreImplementsLog` | `ImplementsStreamLog` |
| `StoreImplementsFeed` | `ImplementsGlobalFeed` |
| `GraphFollowsTheLog` | `RelatedAsDeclared`, `TaggedAsWritten`, `SignalsOnConsent` of `ContextGraph` |
| `ObjectsFollowTheirStreams` | `RowIsReplay`, `NothingAfterDeletion`, `CalendarFollows` of `ObjectCommands` |

None of the properties is inductive: a state with an open transaction whose pending rows do
not continue the stream satisfies them all, and its commit breaks them. `IInv` adds what
is true of open transactions:

- *Progress*: where a writer is in `append`, and which rows of its batch it has passed.
- *OwnRows*: its pending rows are rows of its batch, at the versions the batch asks for.
- *NotCommitted*, *Exclusive*: pending rows clash with no committed row and with no pending
  row of another writer, in id or in slot: the unique keys.
- *PrefixStored*: while a batch is being inserted the stream holds a row for every version up
  to the one expected, so committing the whole batch leaves no gap.
- *PrefixOlder*: those rows have smaller positions than any the writer has drawn, because they
  were committed before it drew its first one. This is why drawing positions early does not
  disturb the order inside a stream.
- *DrawnInOrder*, *Drawn*: inside a batch positions grow with versions, and all are below `nextPos`.

The proof that a step preserves `IInv` has one lemma per action. `RefusedOnlyIfAbsent` is an
action property: a refusal is given after the code has looked for the batch (`CheckStale`,
`CheckAllSkipped`), or after it met a foreign row in one of its slots or ids, which excludes
that the batch is stored there. The refinements are step simulations: `Commit` is the only step that
appends to the log or publishes to the feed, the rest stutter, draw or drop a position.

The context graph is a read model of these events; about its constants nothing is assumed. The model folds the log, and
the fold of the community modules is a recursive function on the sets of events, chosen from those that fit its
equation. That there is one is proved (`FoldExists`): the function for `n` events extends the one for `n - 1`, and there is no
least `n` without one (`Least`). So the graph after `n` events is one step from the graph after `n - 1` (`GraphSteps`), and what
every step keeps holds of all graphs, again by a least counterexample (`EveryGraphFits`): *NodesFit*, who has
a node; *EdgesFit*, whose both ends do; *DeclaredFit* and *TagsFit*, which of them the last event about them left there.
`GraphInv` adds what the log must be for that: a relation is removed after it was declared, and a signal was captured under
a consent that, when its request asked, the read model did not know to be revoked (*CapturesConsented*).

The stream of an object is folded too, by its commands and by the projection; the lemmas about folds are shared, with a record
that names the fold (`Graphing`, `Replaying`, `Projecting`, `Removing`). A draft is accepted at the version it was made for, so every event of
the stream is a draft of the object it found (*Commanded*); such an object has no item yet with the id of its next event, so
row and replay agree (`RowFollows`), and it knows every item a reordering names, so nothing is refused (`EventKeepsObject`).
For the calendar, whose theorem takes the set of requests to be finite, `ObjectInv` says who may still touch an event:
no two requests appended one event and nobody knows an event before it is made (*Apart*); orphans and the requests
that are making an event are paid for together, but for one that may find the mapping free (*OrphansPaid*): a second maker
was under way when another looked, and so counted as an overlap. Without overlap or failure (*Calm*) there is one push at a
time, event and mapping fit its next step, and the last event about the time block is waiting for its push, is being
pushed or shows. TLC checked `ObjectInv` with two requests, four events and one mishap, 1.2 million states, before it was proved.

### 5.2 `ProjectionRunnerProofs`: the projection runner

Assumed: `RunnerAssumption` (a page holds at least one event; rebuilders are runners). All theorems but
the first have the hypothesis `RebuildAlone`: no other call drives a projection while it is reset,
which is how the code is used (3.3). It does not restrict anything else, catch-ups overlap at will.

| theorem | property |
|---|---|
| `TypesHold` | `TypeOK` |
| `AppliedOnce` | `EffectivelyOnce` |
| `OnlyOvertakenSkipped` | `NothingSkipped` |
| `CheckpointGrows` | `CheckpointMonotone` |

The properties speak of committed rows and the committed checkpoint. A step that commits makes
uncommitted rows committed, so `IInv` says what a call in progress holds: only the holder of
the advisory lock has rows of its own, and its cursor started at the committed checkpoint; its rows
are, in order, the handled events between that checkpoint and its cursor that were visible when they
were read; what the present page still holds lies between cursor and page end, and every visible
handled event up to there is applied, in the page, or overtaken. That pages come from another
connection is why `overtaken` cannot be left out of the invariant.

The module ends with three modules of the run `services` that follow other state. Their theorems
have no hypothesis but that an account can be connected at all (`MaxAccounts`) and that the bound on typed texts is a
number.

| theorem | properties | of |
|---|---|---|
| `EmbeddingIsOfTheText` | `EmbeddingFollows` | `SearchIndex` |
| `CalendarIsFollowed` | `StoredTokenWorks`, `CacheFollows`, `NothingWithoutAccount` | `CalendarSync` |
| `PanelsKeepTheirWord` | `ListIsCurrent`, `TextsKept`, `MadeOnce`, `LastChoiceStands`, `SecretsShown` | `Panels` |

The first two are about quiet states, so the invariants say what is under way. `EmbeddingInv`: a refresh
that began alone is the only one (*OneRefresh*) and, when none is scheduled, is of the text shown
or has left its embedding behind (*LastIsOfTheText*); a row that is behind has a write that will catch it up
(*RowIsWhole*). `CalendarInv`: whatever overlaps or fails, a poll is of this account or an earlier one, whose
events went with it (*AccountsSucceed*), so nothing it still writes gets past the foreign key; and a poll that is
alone either holds the token that the row will get, or the row's works, and has in its list what
the cache lacks of what was heard (*OneRunFollows*).

`PanelsInv` is proved of all panels at once, from what their definitions have in common (`Common`, checked panel by
panel in `PanelsHaveInCommon`). A list that is fetched is fetched anew after everything its panel does, so an answer is in the list or
in the rows a fetch has read (*AnswersListed*); calls that are sent one on top of the other know it (*CallsQueue*). A text
makes one row: texts are sent in the order they were typed (*TextsInOrder*), every row is some call's (*RowsMadeByCalls*), and
an earlier call with the same text failed or has one of the excuses the property names (*SentOnce*), for what is
still in the form while a request is under way is the text of that request, or was typed since (*DraftIsSent*). A
secret that is not shown yet waits for the form to be opened, and the requests then under way were overtaken (*SecretsSeen*).
TLC checked the invariant on two instances before it was proved: two texts, three calls and one mishap, and three, two and
one.

### 5.3 `DocRoomProofs`: the rooms of a document

Assumed: `DocRoomAssumption`. No other hypothesis: the overlaps a promise does not survive are part
of the property.

| theorem | property |
|---|---|
| `TypesHold` | `TypeOK` |
| `OneAuthority` | `SingleAuthority` |
| `NoEditLost` | `EditsSurvive` |
| `RestartLossless` | `LosslessRestart` |
| `NeverTakenBack` | `SnapshotsGrow` |
| `NothingTypedForgotten` | `NothingForgotten` of `DocSync` |
| `SettledCopiesAgree` | `InSync` of `DocSync` |

The promises are kept by several rooms together: an old one that is flushed, the current one, and
one that is being loaded. `IInv` adds that an open connection's room is kept until it is left
(*RoomsKept*, which also says that a torn-down room has nothing to save unless a 'close' is still to come to it) and, free of
`close` and `again`, is the current one (*OneRoom*); that the current room was made
from a snapshot nothing has overtaken (*CaughtUp*) and holds what is saved (*RoomHoldsSaved*); that
a clean room is saved and a dirty one is scheduled (*NothingLost*); that after the shutdown began
every room is clean or its flush is awaited (*FlushedAtShutdown*), which an edit taken in late would undo, and that nothing is
awaited once the process has stopped (*NoneAwaited*).

The copies of `DocSync` agree because of what is on the wire. `SyncInv`, at the end of the module, says of every
open socket what an editor lacks of the room: it is in an answer to the editor, or the editor's question, which shows that it is
lacking, has still to be answered; of a joined editor, the same of what the room lacks. Two editors are never
compared, each is compared with the room.

### 5.4 `ActionProposalsProofs`: proposed actions

Assumed: `ActionAssumption`, on the shape of the proposal and of the lists of decisions.

| theorem | property |
|---|---|
| `TypesHold` | `TypeOK` |
| `AllowedOnly` | `OnlyWhenAllowed` |
| `LedgerTrue` | `LedgerIsTrue` |
| `OneUndoSucceeds` | `UndoneOnce` |
| `KeepsTheContract` | `ImplementsContract` |
| `ConversationsHold` | `ListedInOrder`, `OneReply`, `ProposalsAreTold` of `DirectMessages` |
| `MeetingProposedOnce` | `ProposedOnce` of `MeetingDetails` |

`execs[a]` counts executions of action `a`, and nothing in a single call's state says that another
call will not run `a` too. `IInv` gives every action that is still to be run an owner: the
proposer's call owns the autonomous actions until the proposal is recorded; afterwards the one
call whose decision was appended at the expected version owns what it approved (*OneDecides*);
what is still in `todo` and not yet `handled` has not run (*NotYetDone*). For undos, a task that an undo has
found deleted was deleted by it (*HoldsUndo*), and two calls that undo one entry share no task
they deleted (*UndosApart*), so only one of them ends with the whole list. *StoreHolds* ties rows to
stream and ledger. The refinement maps each step to a step of `ActionContract` or to a stutter: appending a
decision decides, the last title of an action (or its dispatch) executes it.

Where proposals come from is at the end of the module. `TalkInv`: no message is answered by two requests (*OneAnswers*), and
none that has a reply; the times of the stream do not decrease, and what is about to be appended is stamped no earlier than anything its
version covers, so the listing by time is the stream's order (*Orderly*, *Following*); a proposal made of the last message
is about to be told, or something failed (*LastIsTold*). `MeetingInv` counts the proposals that were recorded, are on their way, or will be
with a transcript that was found to be new: they are at most one more than the overlaps and clearings, and no more
than these while the meeting has no transcript and none is being brought.

### 5.5 `WorkersProofs`: the leased queues and an agent's limits

About the specification of `MCWorkers`, of which the queues are one part. Assumed: `LeasedJobsAssumption`
(deliveries and mentions are distinct; finitely many runs; at least one attempt and one slot).

| theorem | property |
|---|---|
| `QueuesKeepTheirPromises` | `JobsHold` |
| `LimitsAreKept` | `LimitsHold` |

The properties compare what has happened to a job (`effects`, `tries`) with what went wrong with it
(`mishaps`). A step that only claims a job changes none of these, and what it makes possible
happens later; so `IInv` counts *chances*: the run that works on a job, or nobody when the row is open,
may still take effect once and be claimed so many times without another mishap. *Paid* says that
effects and chances together are at most one more than the mishaps, and tries and what may follow
at most `MaxAttempts` for each. A step moves a chance from one owner to another (claiming, giving
back), uses it up (taking effect) or adds one, and only a mishap adds one. *Selected* is why a row
that was read before another run claimed it cannot be claimed again: `next_attempt_at` has grown since,
so the compare-and-set fails. *Alone* says that two runs at work on one job cost a mishap; *Recorded*
ties status, ledger and effects. For the limits the property is its own invariant once the types
of the locals are known. Mishaps are typed as naturals: that they are at most `MaxMishaps` is a
bound of the model on their sum.

### 5.6 `WorkersProofs`: triggers, connections, copies

The same module, about the other parts of `MCWorkers`.

Assumed: `SchedulerAssumption` (finitely many runs, a positive interval), `EvaluatorAssumption` (finitely
many objects) and `PoolAssumption` (what a request needs begins and ends with a connection).

| theorem | property |
|---|---|
| `FiringsArePaidFor` | `FiringsPaidFor` |
| `TypesAreKept` | `TypesOK` |

`FiringsPaidFor` again compares what happened with overlaps and failures, and the invariants add
what is still to come. For the scheduler, *FiringsPaid*: early firings, one for each run but one that
may still fire the trigger, and one more if the next firing may be early (a run that is to fire has read a
`lastFiredAt` older than the last firing, or the table has one and nobody is about to mark it) are
together at most the overlaps and failures. A run that selects the trigger over `k` others pays `k`; a
run at its mark counts among the `k` although it will not fire, and that pays for the risk it leaves when
it is overtaken. For the evaluator, *RepeatsPaid*: one run, if any is under way, is taken to
have begun over no other; every other run may still disturb each object once (fire for it, or take
its row away), which it paid for when it began; and an object that was fired for may be fired for again
once if it is *risky*: it matches and has no row and nobody is about to insert one, or that one run is
to fire for it or to delete its row. In `TypesOK` the count of lent connections is what needs proof: a
lock is not a connection, and `Grant` is the only step that lends one.

### 5.7 `CommandProofs`: relations, field values, records, accounts

*Relations.* About the specification of `RelationCommands`; nothing is assumed of its constants. The theorems are
the conjuncts of `RelationsHold`, which a run checks of the instance in `MCServices`.

| theorem | property |
|---|---|
| `TypeCorrect` | `TypeOK` |
| `NoCycleAlways` | `NoCycleClosedKnowingly` |
| `OneReferenceAlways` | `NoSecondReference` |
| `OneParentAlways` | `OneParent` |
| `AnswersHold` | `AckedIsShown`, `RemovedOnce` |

A check reads a table behind the log, and what it saw has to say something of the rows much later.
So the table is treated as a function of the log's first events (`Table`): it depends on nothing
else (`SamePrefix`), a row is the index of a creation (`RowsAreCreations`), was there ever since
(`RowsWereThere`) and stays until its removal (`RowsStay`), and the insert that does nothing for a
second parent leaves one (`TableHasOneParent`). `IInv` keeps for each relation that is not
`blind` the number of events among whose rows it passed, and that no creation lies between
(*PassedAmongAll*); a request that is to append has the same promise (*Asked*). The rows created before a relation are
then among those its check saw. That the check finds every cycle is `WithinIsClosed`: after as many
rounds as there are edges the search is closed under the edges, since every round that grows uses one
more of them; `FindParentCycle` counts the edges before it turns them around, and turning makes no more of them.
Recursive functions are reasoned about by their least counterexample (`Least`), and that the
recursion has a solution is proved (`IterationExists`).

*Field values.* `ObjectFields`, for every set of requests and of refreshes. Hypothesis: `ObjectBounds`, the bounds on
calls and mishaps are numbers.

| theorem | property |
|---|---|
| `ValuesAreCurrent` | `TotalIsCurrent`, `ComputedFromItsState`, `RefreshedWhenQuiet` |
| `OneNextOccurrence` | `OneOccurrence`, `CompletionsRecur` |
| `RefreshLosesToUsers` | `OvertakenByUsersOnly` (a property of steps) |

What a request or a refresh has read is the stream at some version, and it appends at that version. The stream only
grows (`Continues`), by one of three kinds of writes (`StreamStep`: a raw value with its total, a status, the answer of
the model). So *Known* says of a request that, if nothing was added, its batch is what the present stream asks for, and
*Answer* of a refresh that, if nothing was added, its value is that of the present total, and that in any case nobody
else wrote an answer since it read: two refreshes never ask at once (*OneAsks*). *Recurring* and *Covered* are about the
two appends that follow a completion or a call of the skill: for each causation id their streams hold one event each, and while nothing has failed some request is at the append
that is missing. *Awaited* says who will replace a value that is not the one of the present total: the timer, a request
that has yet to schedule, a refresh that has yet to read or that will be answered; or a failure lost it. TLC checked
`ObjectInv` with two callers and two refreshes before it was proved (233 013 states).

*Records.* `RecordCommands`, for every set of requests and each of the services that it has profiles of; nothing is assumed.

| theorem | property |
|---|---|
| `DeletedIsDeleted` | `NothingAfterClosed`, `ClosedIsClosed` |
| `NamesSharedByRaceAlways` | `NamesSharedByRaceOnly` |

A record is the index of its creation (*FirstIsCreated*). *RecordKnown*: an append was asked for at a version its stream has had,
and if that is still the version of the stream and the service replays it, the stream is open; so what is
appended after a closing is refused. *NamesWereFree* keeps, for every creation of a service whose names are unique,
that the name was free among the events its check could see: what the check missed came later.
(61 880 states, all profiles.)

*Accounts.* `Accounts`, for every set of browsers and every number of seeded fields but none (the hypothesis of each theorem).

| theorem | property |
|---|---|
| `ChangedPasswordEnds` | `FoundSessionsEnded` |
| `PageTellsTheTruth` | `PageIsTrue` |
| `WorkspaceHasItsFields` | `SeededUnlessFailed` |

A page is true only when nothing is under way, so the invariant says what every stage of a reload and of a call means.
*PageFits*: what the query shows, or will show once the answer that has arrived is taken over, is right of the browser's
session and of the workspace, unless it is marked doubtful or the browser's own call made it wrong and is not answered yet
(`SessionStale`, `ListStale`); a request that was not doubted asks for the session of the present cookie. *CallFits*: a
change of the password past its revocation has ended all the sessions it found, and nobody begins one again
(`SessionsGoOn`); the call that seeds has the workspace to itself (*Seeded*). (659 757 states, two browsers, four calls.)

### 5.8 `ServiceProofs`: federation, the budgets, suggested triggers

Nothing is assumed of the constants of `FederationLinks` and `FederatedContext`. The theorems about a budget
have a hypothesis each: *BucketConstants*, the capacity is a number and no request costs more than a full bucket
(every caller asks for one of 60); *QuotaConstants*, the quota is a number and a completion costs at least a token;
*NoticeConstants*, the budget is a number (the schema of a preference says so). They are
conjuncts of `FederationHolds`, `StepsHold`, `BudgetsHold` and `SuggestionsHold`, which a run checks of the instances in
`MCServices`. Nothing is assumed of the constants of `TriggerSuggestions`.

| theorem | property |
|---|---|
| `OneLink` | `OneLivePair` |
| `RevokedIsFinalUnlessOvertaken` | `RevokedUnlessOvertaken` (a property of steps) |
| `EveryAnswerIsAudited` | `AnswersAudited` |
| `NothingOutOfScope` | `ShownWasInScope` |
| `RevokedAnswersNothing` | `RevokedLinkAnswersNothing` |
| `NothingIsOverspent` | `NoIntervalOverspent` |
| `ComingBackIsEnough` | `RetryAfterIsEnough` |
| `QuotaHolds` | `OvershootPaidFor` |
| `BudgetIsNeverReached` | `BudgetNeverReached` |
| `SuggestionDecidedOnce` | `DecidedOnce` |
| `CooldownBoundsCalls` | `OneAnalysisPerCooldown` |
| `DuplicatesAreBlind` | `NoDuplicatePending` |
| `AnsweredDecisionsStand` | `AnsweredIsRespected` (a property of steps) |

*Links.* The partial index keeps two live rows of one pair apart, and only an acceptance that was overtaken
can make a revoked row live again: *LinksChecked* says that a request about to accept names a row that
was pending when it looked, and that is among the overtaken ones if it is revoked by now. *Reads.* *Recorded*: a read past its
append has an event of its own that names what it is about, which no answer and no other read shares, since versions of the
audit stream are drawn once. *MayShow*: the scope of this moment is part of what was in scope at some time
during the read, and so is the object a read past its scope check is about. *Stopped*: as long as no acceptance was overtaken, a
read that began with its link revoked is still before the check of the link, and the link is revoked still. *Requests.* Before the lock is released the row says
what its owner computed, so the row's last refill time `A` and its tokens describe all requests at once. The
invariant is that nothing is let through at times after `A`, that what was let through from any earlier time until
`A`, a request about to be answered included, and the tokens of the row together are at most a full bucket and one token for each unit
of time (`PaidFor`), and that whoever was told to wait finds enough from then on (`FindsEnough`). The upsert
moves `A` to the time the request read (`RoomLater`, `StillWaits`); an answer moves its cost from what the
row promises to what was spent (`SpendAt`).

*Model quota.* One operation at a time holds the lock (*OneOperates*), so the usage is what its owner knows of it
(*Accounts*): all that was spent is recorded, but for the tokens it has in hand and what failures lost (*Owed*), and
the quota was not reached before it made its tries (*UnderQuota*). A failure may lose the record of one completion,
which is what the invariant pays for it. *Notifications.* No lock, and none is missed: the log has no delivery
(*NoDeliveryRecorded*), so whatever part of it a call is shown, it counts none, and no call comes to the point of recording that
something was kept back for the budget (*NoneForTheBudget*).

*Suggestions.* Two decisions never name one suggestion (*DecisionsApart*), because an append looks at the stream and not at the
row; what it records was made for that suggestion (*DecisionsName*). One analysis at a time holds the workspace's lock
(*OneAnalyses*), and *Fits* says what each request has seen to: an analysis that will append read the table at `seen`, and every
template it still holds for a candidate had there no suggestion or a decided one, so of two pending ones the later was made
blind (*SuggestionsApart*). *CallsPaid*: the model was asked once, and once more for each failure; before an
analysis has recorded that it ran, it still owes that one. (TLC, before the proof: two templates, two requests, three
events, one mishap.)

### 5.9 `MCServicesProofs`: the properties of the run, at all sets

The run `services` checks its properties on an instance of each module with two members in every set. This module
proves the same formulas with the sets left open: the bounds and the enumerated numbers are those of the run, the sets
of objects, requests, refreshes, templates, workspaces, users, readers and browsers are any.

| theorem | property | hypothesis |
|---|---|---|
| `RelationsAlways` | `RelationsHold` | |
| `ObjectsAlways` | `ObjectHolds` | |
| `RecordsAlways` | `RecordsHold` | |
| `SuggestionsAlways` | `SuggestionsHold` | |
| `FederationAlways` | `FederationHolds` | |
| `BudgetsAlways` | `BudgetsHold` | |
| `StepsAlways` | `StepsHold` | |

A behaviour of `MCServices` is a behaviour of one module, which `part` says and no step changes. The proof modules are
instantiated with the constants and variables of the run (`SP`, `XP`, `RP`); for each module a lemma `...Same` says that the
instance in the run and the one inside the proof module have the same initial states, the same steps and the same properties, and a
lemma `...Part` carries the theorems over.

### 5.10 What stays with TLC

Liveness (`EventuallyApplied`, `EventuallySaved`, `ApprovedIsCarriedOut`, `EveryJobEnds`, `WorkGetsDone`):
outside this prover's reach, as is ENABLED. Three properties of `MCServices`: `FieldsHold`, because that the parser
reads the grammar of formulas (`FormulaParser`) is an induction over token sequences; `ViewsHold`, of which documents, messages,
meetings, search, the calendar, panels, the context graph and commands on one object are proved in 5.1 to 5.4, but not
the part of queries, which sort what they find, of the other read models, whose folds have many more kinds of
events, and of checklists, where every rollback of an overlapping change is a case of its own; and
`TypeOK`, which bounds the counters of all of them (the type invariants the proofs need are in the proof modules).
The runs whose property is violated are refutations and are not for proof.

## 6. Not modelled, and why

Reads that change nothing; formatting, access control, payloads and metadata that no
property tells apart; which names collide as hashed advisory-lock keys (every name has its own key
here, and the keys of unrelated subsystems share one space). Components without a module are listed
in `PROJECT.json` with the reason. What was seen while modelling and is on no run's account:

- *Documents.* A room's cap is compared before the await that loads it; a rejected
  `getOrCreateRoom` has no handler, and the process ends as in `Restart`; edits typed offline are
  lost when the editor is destroyed before it reconnects; the crash of the process in the middle of
  an edit window is an accepted loss of ADR-0011.
- *Actions.* Two undos of one record can leave two undo records, contrary to ADR-0040 (line 129); what
  holds is `UndoneOnce`. The event schema of a ledger record caps its texts, the parser of the
  model's answer does not, so an action with a longer text leaves no record and cannot be undone.
- *Queues.* The lease is 60 s; a webhook call takes at most 10 s, but a sandboxed skill 30 s after a
  wait for its lock without limit, so a mention may outlive its lease, contrary to the comment at
  `mention-action-worker.service.ts:441-450`. The sandbox does not stop what it times out.
- *Rebuilds* "must reproduce exactly what incremental catch-up produced", says
  `projection-runner.service.ts:92-98`. Not what is not in the log: embeddings, the states of jobs
  (all of which are enqueued again, to who is active then), when a trigger last fired, the ids of the
  ledger's rows, by which undo records name them. Only tests rebuild.
- *Connections.* `catchUp` holds one connection and waits for a second; ten at once, of different
  projections, would wait for ever, since the pool has no acquisition timeout.
- *Triggers.* Conditions that match more objects than the cap never let go of the surplus.
- *Context graph.* An edge that two relations share goes with the first of them.
- *Fields.* A default kept under a changed configuration is not checked again; values of archived
  fields stay visible; the negative operators leave out objects without a value.
- *Calendar.* An event cancelled remotely stays in the cache, though `calendar-events-cache.ts:8-14`
  calls it fully derivable by polling again.
- *Meetings.* "Triggered exactly once" (`meetings.service.ts:192-195`) holds but for overlaps and
  clearing; a failed trigger is not retried. A failed recurrence is not retried either.
- *Accounts.* A login answered while the first session load is in flight leaves the login screen; a
  login that overlaps a change of password keeps its session; a workspace whose seeding failed
  keeps its slug, so the retry is refused.
- *Checklists.* A rolled back toggle overwrites a sibling confirmed meanwhile, and an undone removal may
  insert a second copy, contrary to `useChecklistMutations.ts:15-23`.
- *Panels.* The texts of comments, direct messages, memory records and federation links are cleared
  when they are sent, and a request that fails loses them; in the directory of agents, the dialogs
  that save a view, plan a time block or invite the notetaker, the answer wipes what was typed
  meanwhile. The buttons that make an MCP grant, a webhook subscription or a federation credential are
  not disabled while a request is pending: of two secrets the first is never shown. The list of
  federation credentials never shows that one is revoked. Notification preferences edited before
  they are loaded are saved over with defaults. A time block whose second request fails is made
  again by a retry. An answer that comes during the first fetch of a list is not in it.
- *Search.* A snapshot of a document without a search row would stop the projection; nothing makes one.
- *Values that a projection refuses.* The cap of a request's `sourceObjectId` is 100 characters and its column in
  `command_proposals` has 26, though `parse-command.schema.ts:17-22` says that the cap keeps the insert from failing
  after the event was appended. Titles and the texts of documents are indexed, and `to_tsvector` refuses more than a megabyte
  of words; a text column refuses U+0000, which the text of a Yjs update may hold; the time block and the end of an
  availability may be of the year 0. Each such event stops its projection for everybody (`unfit` in `ReadModels`).
- *Filters.* The comment at `query-builder.ts:200-205` says that `->` gives SQL NULL for a JSON null, so that `isEmpty` holds
  of it; it does not, and the model follows the code (`IsNull`). Operands are well-formed here: a filter by a date of the
  year 0 or by a text with U+0000 fails its own query.
- *Notifications.* A suppression is recorded only if its source's id is a uuid, which no object's is.
- *Relations.* A relation of kind `recurrenceOf` is appended by the recurrence of tasks (`ObjectFields`), and one of
  kind `blocks-time-for` by nobody; a request may name the kinds of `Kind` only.

Abstracted inside modelled parts: token and cost quotas are one; the notification window and the hourly
one; formula functions and nulls; the names of locks; time zones and dates of recurrence; presence in
documents; grouped queries; connected search; person and time edges of the context graph; the
mocked calendar connector, which stands for the provider.

## 7. Plan

1. Proofs: the rest of `ViewsHold`; the cycle check of formula fields (`FieldCommands`) apart from the
   parser.
2. Models: the executors of each kind of action with their rollbacks; the views of objects in the web
   client with their optimistic drags.
