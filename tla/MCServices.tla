------------------------------ MODULE MCServices ------------------------------
(***************************************************************************)
(* Small instances of the services that append to the store and of what is *)
(* read from it.  They share no state: a behaviour is one of one service,  *)
(* and part says whose.  The variables below stand for those of that       *)
(* service; where it has fewer, the others stay empty.                     *)
(***************************************************************************)
EXTENDS Integers, TLC

CONSTANTS
  Item,   \* objects to relate, field keys
  Pair,   \* whatever there are two of: requests, refreshes, polls, clients, users
  One     \* the administrator's requests that change a link in use

VARIABLES part, log, shown, request, locked, mishaps, x1, x2, x3, x4, x5, x6, x7

vars == <<part, log, shown, request, locked, mishaps, x1, x2, x3, x4, x5, x6, x7>>

R == INSTANCE RelationCommands WITH
       Object <- Item, Caller <- Pair, MaxEvents <- 4, blind <- x1,
       acked <- x2
F == INSTANCE FieldCommands WITH
       Key <- Item, Caller <- Pair, MaxEvents <- 4, blind <- x1, acked <- x2
O == INSTANCE ObjectFields WITH
       Caller <- Pair, Refresh <- Pair, MaxWrites <- 3, MaxCalls <- 2,
       MaxMishaps <- 1, timer <- x1, refresh <- x2, occurrences <- x3,
       relations <- x4, writes <- x5, calls <- x6, lost <- x7
C == INSTANCE RecordCommands WITH
       Caller <- Pair, MaxEvents <- 4, kind <- x1, seen <- x2, answered <- x3
S == INSTANCE TriggerSuggestions WITH
       Template <- Pair, Caller <- Pair, MaxEvents <- 3, MaxMishaps <- 1,
       triggers <- x1, recent <- x2, blind <- x3, answered <- x4, calls <- x5
L == INSTANCE FederationLinks WITH
       Workspace <- Pair, User <- Pair, Caller <- Pair, MaxLinks <- 2,
       links <- log, overtaken <- x1
X == INSTANCE FederatedContext WITH
       Workspace <- Pair, User <- Pair, Caller <- One, MaxLinks <- 1,
       Object <- Pair, Reader <- Pair, MaxReads <- 1, MaxChanges <- 2,
       links <- log, overtaken <- x1, credential <- x2, scope <- x3,
       changes <- x4, audit <- x5, read <- x6, answers <- x7
A == INSTANCE AIQuota WITH
       Caller <- Pair, Quota <- 3, MaxTokens <- 2, MaxMishaps <- 1,
       operation <- request, spent <- x1
N == INSTANCE NotificationBudget WITH
       Caller <- Pair, Budget <- 2, MaxOutcomes <- 4, MaxMishaps <- 1,
       notice <- request, quiet <- x1, delivered <- x2, clashes <- x3
B == INSTANCE TokenBucket WITH
       Caller <- Pair, Capacity <- 2, Cost <- {1, 2}, MaxNow <- 3,
       MaxMishaps <- 1, now <- x1, bucket <- x2, spent <- x3, told <- x4
Q == INSTANCE ObjectQuery WITH
       Object <- 1..3, Value <- {1, 2}, Sorts <- {<<TRUE>>, <<FALSE>>, <<TRUE, FALSE>>},
       Limit <- 1, MaxWrites <- 1, sort <- x1, rows <- x2, walk <- x3,
       writes <- x4, steady <- x5
D == INSTANCE ObjectCommands WITH
       Caller <- Pair, MaxEvents <- 3, MaxMishaps <- 1, calendar <- x1,
       mapping <- x2, overlaps <- x3
G == INSTANCE ContextGraph WITH
       Object <- Item, Caller <- Pair, MaxEvents <- 3, synced <- x1, asked <- x2
I == INSTANCE SearchIndex WITH
       Caller <- Pair, Refresh <- Pair, MaxEvents <- 3, MaxMishaps <- 1,
       embedding <- x1, timer <- x2, refresh <- x3, overlapped <- x4, lost <- x5
M == INSTANCE MeetingDetails WITH
       Delivery <- Pair, MaxUpdates <- 3, MaxChanges <- 1, MaxMishaps <- 1,
       transcript <- log, update <- request, cleared <- shown, mode <- x1,
       old <- x2, sweep <- x3, proposed <- x4, updates <- x5, changes <- x6,
       overlaps <- x7
Y == INSTANCE DocSync WITH
       Client <- Pair, Edit <- Pair, MaxMishaps <- 1, ws <- x1, conn <- x2,
       text <- x3, room <- x4, saved <- x5, up <- x6, down <- x7
K == INSTANCE ChecklistCache WITH
       Mutation <- Pair, MaxCalls <- 2, MaxMishaps <- 1, server <- log,
       cache <- shown, call <- request, fetch <- x1, calls <- x2, newest <- x3,
       doubtful <- x4
T == INSTANCE DirectMessages WITH
       Caller <- Pair, MaxEvents <- 4, MaxNow <- 2, MaxMishaps <- 1,
       now <- x1, proposals <- x2
H == INSTANCE CalendarSync WITH
       Poll <- Pair, Event <- Pair, MaxChanges <- 2, MaxTokens <- 2,
       MaxAccounts <- 2, MaxMishaps <- 1, remote <- log, cache <- shown,
       poll <- request, account <- x1, valid <- x2, changes <- x3, seen <- x4,
       overlapped <- x5
P == INSTANCE FormulaParser WITH
       Type <- ("{a}" :> "number" @@ "{b}" :> "boolean"), MaxTokens <- 6,
       MaxDepth <- 1, tokens <- log
V == INSTANCE FieldFilters WITH
       Char <- {"a", "%", "\\"}, MaxLength <- 2, Number <- 0..2,
       Option <- {<<"a">>, <<"%">>}, MaxChanges <- 1, field <- log,
       value <- shown, held <- request, changes <- x1
U == INSTANCE Accounts WITH
       Browser <- Pair, Seeds <- 2, MaxCalls <- 3, MaxFetches <- 1, MaxMishaps <- 1,
       password <- log, sessions <- shown, call <- request, cookie <- locked,
       gate <- x1, calls <- x2, fetches <- x3, closed <- x4, seeded <- x5,
       workspace <- x6
E == INSTANCE ReadModels WITH
       Recipient <- 1..2, MaxEvents <- 3, MaxRebuilds <- 1, MaxSwitches <- 1,
       projection <- x1, checkpoint <- shown, rows <- request, referred <- locked,
       parents <- mishaps, active <- x2, since <- x3, switches <- x4,
       rebuilds <- x5, cascades <- x6, lost <- x7
W == INSTANCE Panels WITH
       MaxTyped <- 2, MaxCalls <- 2, MaxMishaps <- 1, rows <- log, list <- shown,
       fetch <- request, form <- locked, panel <- x1, calls <- x2, typed <- x3,
       thrown <- x4, during <- x5, seen <- x6

Init ==
  \/ /\ part = "relations" /\ R!Init
     /\ locked = {} /\ mishaps = {} /\ x3 = {} /\ x4 = {} /\ x5 = {}
     /\ x6 = {} /\ x7 = {}
  \/ /\ part = "fields" /\ F!Init
     /\ locked = {} /\ mishaps = {} /\ x3 = {} /\ x4 = {} /\ x5 = {}
     /\ x6 = {} /\ x7 = {}
  \/ /\ part = "objects" /\ O!Init
     /\ shown = {}
  \/ /\ part = "records" /\ C!Init
     /\ locked = {} /\ mishaps = {} /\ x4 = {} /\ x5 = {} /\ x6 = {}
     /\ x7 = {}
  \/ /\ part = "suggestions" /\ S!Init
     /\ x6 = {} /\ x7 = {}
  \/ /\ part = "links" /\ L!Init
     /\ shown = {} /\ locked = {} /\ mishaps = {} /\ x2 = {} /\ x3 = {}
     /\ x4 = {} /\ x5 = {} /\ x6 = {} /\ x7 = {}
  \/ /\ part = "context" /\ X!FedInit
     /\ shown = {} /\ locked = {} /\ mishaps = {}
  \/ /\ part = "quota" /\ A!Init
     /\ x2 = {} /\ x3 = {} /\ x4 = {} /\ x5 = {} /\ x6 = {} /\ x7 = {}
  \/ /\ part = "notifications" /\ N!Init
     /\ locked = {} /\ x4 = {} /\ x5 = {} /\ x6 = {} /\ x7 = {}
  \/ /\ part = "requests" /\ B!Init
     /\ log = {} /\ shown = {} /\ x5 = {} /\ x6 = {} /\ x7 = {}
  \/ /\ part = "query" /\ Q!Init
     /\ log = {} /\ shown = {} /\ request = {} /\ locked = {} /\ mishaps = {}
     /\ x6 = {} /\ x7 = {}
  \/ /\ part = "commands" /\ D!Init
     /\ locked = {} /\ x4 = {} /\ x5 = {} /\ x6 = {} /\ x7 = {}
  \/ /\ part = "graph" /\ G!Init
     /\ locked = {} /\ mishaps = {} /\ x3 = {} /\ x4 = {} /\ x5 = {}
     /\ x6 = {} /\ x7 = {}
  \/ /\ part = "search" /\ I!Init
     /\ locked = {} /\ x6 = {} /\ x7 = {}
  \/ /\ part = "meeting" /\ M!Init
     /\ locked = {}
  \/ /\ part = "document" /\ Y!Init
     /\ log = {} /\ shown = {} /\ request = {} /\ locked = {}
  \/ /\ part = "cache" /\ K!Init
     /\ locked = {} /\ x5 = {} /\ x6 = {} /\ x7 = {}
  \/ /\ part = "messages" /\ T!Init
     /\ locked = {} /\ x3 = {} /\ x4 = {} /\ x5 = {} /\ x6 = {} /\ x7 = {}
  \/ /\ part = "calendar" /\ H!Init
     /\ locked = {} /\ x6 = {} /\ x7 = {}
  \/ /\ part = "formula" /\ P!Init
     /\ shown = {} /\ request = {} /\ locked = {} /\ mishaps = {} /\ x1 = {}
     /\ x2 = {} /\ x3 = {} /\ x4 = {} /\ x5 = {} /\ x6 = {} /\ x7 = {}
  \/ /\ part = "filters" /\ V!Init
     /\ locked = {} /\ mishaps = {} /\ x2 = {} /\ x3 = {} /\ x4 = {}
     /\ x5 = {} /\ x6 = {} /\ x7 = {}
  \/ /\ part = "accounts" /\ U!Init
     /\ x7 = {}
  \/ part = "projections" /\ E!Init
  \/ /\ part = "panels" /\ W!Init
     /\ x7 = {}

Next ==
  \/ part = "relations" /\ R!Next /\ UNCHANGED <<part, locked, mishaps, x3, x4, x5, x6, x7>>
  \/ part = "fields" /\ F!Next /\ UNCHANGED <<part, locked, mishaps, x3, x4, x5, x6, x7>>
  \/ part = "objects" /\ O!Next /\ UNCHANGED <<part, shown>>
  \/ part = "records" /\ C!Next /\ UNCHANGED <<part, locked, mishaps, x4, x5, x6, x7>>
  \/ part = "suggestions" /\ S!Next /\ UNCHANGED <<part, x6, x7>>
  \/ part = "links" /\ L!Next /\ UNCHANGED <<part, shown, locked, mishaps, x2, x3, x4, x5, x6, x7>>
  \/ part = "context" /\ X!FedNext /\ UNCHANGED <<part, shown, locked, mishaps>>
  \/ part = "quota" /\ A!Next /\ UNCHANGED <<part, x2, x3, x4, x5, x6, x7>>
  \/ part = "notifications" /\ N!Next /\ UNCHANGED <<part, locked, x4, x5, x6, x7>>
  \/ part = "requests" /\ B!Next /\ UNCHANGED <<part, log, shown, x5, x6, x7>>
  \/ part = "query" /\ Q!Next /\ UNCHANGED <<part, log, shown, request, locked, mishaps, x6, x7>>
  \/ part = "commands" /\ D!Next /\ UNCHANGED <<part, locked, x4, x5, x6, x7>>
  \/ part = "graph" /\ G!Next /\ UNCHANGED <<part, locked, mishaps, x3, x4, x5, x6, x7>>
  \/ part = "search" /\ I!Next /\ UNCHANGED <<part, locked, x6, x7>>
  \/ part = "meeting" /\ M!Next /\ UNCHANGED <<part, locked>>
  \/ part = "document" /\ Y!Next /\ UNCHANGED <<part, log, shown, request, locked>>
  \/ part = "cache" /\ K!Next /\ UNCHANGED <<part, locked, x5, x6, x7>>
  \/ part = "messages" /\ T!Next /\ UNCHANGED <<part, locked, x3, x4, x5, x6, x7>>
  \/ part = "calendar" /\ H!Next /\ UNCHANGED <<part, locked, x6, x7>>
  \/ part = "formula" /\ P!Next /\ UNCHANGED <<part, shown, request, locked, mishaps, x1, x2, x3, x4, x5, x6, x7>>
  \/ part = "filters" /\ V!Next /\ UNCHANGED <<part, locked, mishaps, x2, x3, x4, x5, x6, x7>>
  \/ part = "accounts" /\ U!Next /\ UNCHANGED <<part, x7>>
  \/ part = "projections" /\ E!Next /\ UNCHANGED part
  \/ part = "panels" /\ W!Next /\ UNCHANGED <<part, x7>>

Spec == Init /\ [][Next]_vars

Symmetric == Permutations(Item) \union Permutations(Pair)

-------------------------------------------------------------------------------
\* Each conjunct is a property of its service's module, which says more.

\* The types of every service.
TypeOK ==
  /\ part = "relations" => R!TypeOK
  /\ part = "fields" => F!TypeOK
  /\ part = "objects" => O!TypeOK
  /\ part = "records" => C!TypeOK
  /\ part = "suggestions" => S!TypeOK
  /\ part = "links" => L!TypeOK
  /\ part = "context" => X!FedTypeOK
  /\ part = "quota" => A!TypeOK
  /\ part = "notifications" => N!TypeOK
  /\ part = "requests" => B!TypeOK
  /\ part = "query" => Q!TypeOK
  /\ part = "commands" => D!TypeOK
  /\ part = "graph" => G!TypeOK
  /\ part = "search" => I!TypeOK
  /\ part = "meeting" => M!TypeOK
  /\ part = "document" => Y!TypeOK
  /\ part = "cache" => K!TypeOK
  /\ part = "messages" => T!TypeOK
  /\ part = "calendar" => H!TypeOK
  /\ part = "formula" => P!TypeOK
  /\ part = "filters" => V!TypeOK
  /\ part = "accounts" => U!TypeOK
  /\ part = "projections" => E!TypeOK
  /\ part = "panels" => W!TypeOK

\* Relations: only one whose check missed an earlier one closes a cycle or joins
\* two objects again; an object has one parent in the read model; what was
\* answered with success is shown until it is removed, which happens once.
RelationsHold ==
  part = "relations" =>
    /\ R!NoCycleClosedKnowingly
    /\ R!NoSecondReference
    /\ R!OneParent
    /\ R!AckedIsShown
    /\ R!RemovedOnce

\* Field definitions: only an update whose check missed an earlier one closes a
\* cycle of formulas; a key stands for the one field whose definition was
\* answered with success; no update follows the archiving of a field; formulas
\* are recomputed after those they refer to, which are those their value depends
\* on; a formula is parsed as the grammar says, or refused; a filter that is
\* accepted makes no query fail but for a date of the year 0, an operator and its
\* negation split the objects, and the text looked for is taken literally.
FieldsHold ==
  /\ part = "fields" =>
       /\ F!NoCycleClosedKnowingly
       /\ F!AckedKeepsItsKey
       /\ F!ArchivedIsFinal
       /\ F!RecomputedAfterSources
  /\ part = "formula" => P!ParsesTheGrammar /\ P!DependsOnWhatItReads
  /\ part = "filters" => V!OnlyYearZeroFails /\ V!OppositesSplit /\ V!ContainsIsLiteral

\* An object under field writes, refreshes by the model and recurrence: its
\* total is that of its raw values; the model's value stands right after the
\* state it was computed from, and is that of the current total when all is
\* quiet; an id has one next occurrence, of which a completion has two only by
\* another id that the skill was given, and has one in the end when nothing
\* went wrong.
ObjectHolds ==
  part = "objects" =>
    /\ O!TotalIsCurrent
    /\ O!ComputedFromItsState
    /\ O!RefreshedWhenQuiet
    /\ O!OneOccurrence
    /\ O!CompletionsRecur

\* Records: nothing follows a deletion but what was looked up before it was
\* shown, no row says otherwise once it was answered, and two active agents
\* share a name only through a race; a changed password ends the sessions it
\* found, the page shows the account as it is, and a new workspace has its fields.
RecordsHold ==
  /\ part = "records" =>
       /\ C!NothingAfterClosed
       /\ C!ClosedIsClosed
       /\ C!NamesSharedByRaceOnly
  /\ part = "accounts" =>
       /\ U!FoundSessionsEnded
       /\ U!PageIsTrue
       /\ U!SeededUnlessFailed

\* Suggested triggers: each is decided once, an approval names a trigger made
\* for it, one analysis asks the model per cooldown unless one failed, and two
\* pending ones of one template are the outcome of a race.
SuggestionsHold ==
  part = "suggestions" =>
    /\ S!DecidedOnce
    /\ S!OneAnalysisPerCooldown
    /\ S!NoDuplicatePending

\* Federation: two workspaces have one link that is not revoked; every answered
\* read of shared context has an audit event of its own and shows no object that
\* was out of scope all the while; a read that begins when the link is revoked is
\* not answered.
FederationHolds ==
  /\ part = "links" => L!OneLivePair
  /\ part = "context" =>
       X!AnswersAudited /\ X!ShownWasInScope /\ X!RevokedLinkAnswersNothing

\* Budgets: a quota of the AI is exceeded by one operation's completions and by
\* what was not recorded; no notification is ever kept from a member for a budget
\* that is not 0; in no interval is more let through than a full bucket and its
\* refill, and a request that comes back when it was told to is let through.
BudgetsHold ==
  /\ part = "quota" => A!OvershootPaidFor
  /\ part = "notifications" => N!BudgetNeverReached
  /\ part = "requests" => B!NoIntervalOverspent /\ B!RetryAfterIsEnough

\* What is kept and shown of objects: pages of a query show what is left alone
\* once, in order, and all of it that has the sort fields' values; a row is the
\* replay of its stream, and nothing but a restoration or a field value follows
\* a deletion; the calendar, the context graph and the embedding follow what was
\* written, and the actions of a meeting are proposed once, each but for the
\* overlaps and failures that its module names; the copies of a document agree
\* when nothing is on the wire; a cached object is the server's when no request
\* is under way, but for the orders of answers that its module names; a
\* conversation is listed in its order, and tells of what was proposed of it; the
\* copy of an external calendar follows it, with a token its provider accepts; a
\* read model refuses no event but for a value that its row cannot hold, its rows
\* say what the events do, also after a rebuild, and jobs are for those who are
\* active; a panel shows what it was answered, loses no text and no secret, and
\* makes of a text one row, each but for the orders of answers that its module
\* names.
ViewsHold ==
  /\ part = "query" => Q!ShownOnceInOrder /\ Q!MissedForWantOfAValue
  /\ part = "commands" => D!RowIsReplay /\ D!NothingAfterDeletion /\ D!CalendarFollows
  /\ part = "graph" => G!RelatedAsDeclared /\ G!TaggedAsWritten /\ G!SignalsOnConsent
  /\ part = "search" => I!EmbeddingFollows
  /\ part = "meeting" => M!ProposedOnce
  /\ part = "document" => Y!InSync /\ Y!NothingForgotten
  /\ part = "cache" => K!ShowsServer
  /\ part = "messages" => T!ListedInOrder /\ T!OneReply /\ T!ProposalsAreTold
  /\ part = "projections" =>
       /\ E!AppliesUnlessUnfit
       /\ E!RowsSummarise
       /\ E!JobsForTheActive
       /\ E!UndoneIsShown
  /\ part = "calendar" => H!StoredTokenWorks /\ H!CacheFollows /\ H!NothingWithoutAccount
  /\ part = "panels" =>
       /\ W!ListIsCurrent
       /\ W!TextsKept
       /\ W!MadeOnce
       /\ W!LastChoiceStands
       /\ W!SecretsShown

\* Steps: a revoked link stays revoked, unless the revocation overtook an
\* acceptance; no request that begins after an answered decision creates a
\* trigger; a model call is in vain only if a user wrote meanwhile.
StepsHold ==
  [][/\ part = "links" => L!UnrevokedWhenOvertaken
     /\ part = "suggestions" => S!CreatedInTime
     /\ part = "objects" => O!ValueDroppedForUser]_vars
===============================================================================
