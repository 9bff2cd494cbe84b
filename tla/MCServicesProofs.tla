--------------------------- MODULE MCServicesProofs ---------------------------
(***************************************************************************)
(* The theorems of CommandProofs and ServiceProofs at the constants of     *)
(* MCServices, joined to the invariants that TLC checks there: for every   *)
(* set of objects and of requests, not only for those of MCServices.cfg.   *)
(*                                                                         *)
(* A behaviour of MCServices is one of one service, which its part says    *)
(* (the lemmas ...Part).  The proof modules instantiate the services on    *)
(* their own, and an instance is its module wherever it is made (...Same). *)
(***************************************************************************)
EXTENDS MCServices, TLAPS

-------------------------------------------------------------------------------
\* The services, and the federation of a single administrator.

SP == INSTANCE ServiceProofs WITH
        Workspace <- Pair, User <- Pair, Caller <- Pair, MaxLinks <- 2,
        links <- log, overtaken <- x1,
        Object <- Pair, Reader <- Pair, MaxReads <- 1, MaxChanges <- 2,
        credential <- x2, scope <- x3, changes <- x4, audit <- x5, read <- x6, answers <- x7,
        Capacity <- 2, Cost <- {1, 2}, MaxNow <- 3, MaxMishaps <- 1,
        now <- x1, bucket <- x2, asking <- request, spent <- x3, told <- x4,
        Quota <- 3, MaxTokens <- 2, operation <- request, used <- x1,
        Budget <- 2, MaxOutcomes <- 4, quiet <- x1, notice <- request,
        delivered <- x2, clashes <- x3,
        Template <- Pair, MaxEvents <- 3, triggers <- x1, recent <- x2, blind <- x3,
        answered <- x4, calls <- x5
XP == INSTANCE ServiceProofs WITH
        Workspace <- Pair, User <- Pair, Caller <- One, MaxLinks <- 1,
        links <- log, overtaken <- x1,
        Object <- Pair, Reader <- Pair, MaxReads <- 1, MaxChanges <- 2,
        credential <- x2, scope <- x3, changes <- x4, audit <- x5, read <- x6, answers <- x7,
        Capacity <- 2, Cost <- {1, 2}, MaxNow <- 3, MaxMishaps <- 1,
        now <- x1, bucket <- x2, asking <- request, spent <- x3, told <- x4,
        Quota <- 3, MaxTokens <- 2, operation <- request, used <- x1,
        Budget <- 2, MaxOutcomes <- 4, quiet <- x1, notice <- request,
        delivered <- x2, clashes <- x3,
        Template <- Pair, MaxEvents <- 3, triggers <- x1, recent <- x2, blind <- x3,
        answered <- x4, calls <- x5
RP == INSTANCE CommandProofs WITH
        Object <- Item, Caller <- Pair, MaxEvents <- 4, blind <- x1, acked <- x2,
        Refresh <- Pair, MaxWrites <- 3, MaxCalls <- 2, MaxMishaps <- 1,
        timer <- x1, refresh <- x2, occurrences <- x3, relations <- x4, writes <- x5,
        calls <- x6, lost <- x7,
        Browser <- Pair, Seeds <- 2, MaxTries <- 3, MaxFetches <- 1,
        password <- log, sessions <- shown, call <- request, cookie <- locked,
        gate <- x1, tries <- x2, fetches <- x3, closed <- x4, seeded <- x5, workspace <- x6,
        kind <- x1, seen <- x2, answered <- x3

LEMMA SeedsHold == 2 \in Nat \ {0}
  OBVIOUS

LEMMA ObjectBoundsHold == RP!ObjectBounds
  BY DEF RP!ObjectBounds

LEMMA QuotaConstantsHold == SP!QuotaConstants
  BY DEF SP!QuotaConstants

LEMMA BucketConstantsHold == SP!BucketConstants
  BY DEF SP!BucketConstants

LEMMA NoticeConstantsHold == SP!NoticeConstants
  BY DEF SP!NoticeConstants

-------------------------------------------------------------------------------
\* Relations.

LEMMA RelationsSame ==
         /\ R!Init <=> RP!Init
         /\ R!Next <=> RP!Next
         /\ R!NoCycleClosedKnowingly <=> RP!NoCycleClosedKnowingly
         /\ R!NoSecondReference <=> RP!NoSecondReference
         /\ R!OneParent <=> RP!OneParent
         /\ R!AckedIsShown <=> RP!AckedIsShown
         /\ R!RemovedOnce <=> RP!RemovedOnce
  <1>1. R!Init <=> RP!Init
    BY DEF R!Init, RP!Init, R!Idle, RP!Idle, R!Cardinality, RP!Cardinality
  <1>2. R!Next <=> RP!Next
    BY DEF R!Next, RP!Next, R!CheckCreate, RP!CheckCreate, R!AppendCreate, RP!AppendCreate,
           R!CatchUpCreate, RP!CatchUpCreate, R!ReadOwnRow, RP!ReadOwnRow, R!CheckRemove,
           RP!CheckRemove, R!AppendRemove, RP!AppendRemove, R!CatchUpRemove, RP!CatchUpRemove,
           R!Abandon, RP!Abandon, R!MayBegin, RP!MayBegin, R!Edge, RP!Edge, R!OfTheKind,
           RP!OfTheKind, R!Admitted, RP!Admitted, R!Created, RP!Created, R!EdgeOf, RP!EdgeOf,
           R!Idle, RP!Idle, R!Rows, RP!Rows, R!Removed, RP!Removed, R!Kind, RP!Kind,
           R!EdgesOfKind, RP!EdgesOfKind, R!HasParent, RP!HasParent, R!FindParentCycle,
           RP!FindParentCycle, R!FindDependencyCycle, RP!FindDependencyCycle, R!HasDuplicate,
           RP!HasDuplicate, R!RowsAfter, RP!RowsAfter, R!Within, RP!Within, R!Apply, RP!Apply,
           R!Cardinality, RP!Cardinality
  <1>3. R!NoCycleClosedKnowingly <=> RP!NoCycleClosedKnowingly
    BY DEF R!NoCycleClosedKnowingly, RP!NoCycleClosedKnowingly, R!Rows, RP!Rows, R!EdgeOf,
           RP!EdgeOf, R!Leads, RP!Leads, R!Earlier, RP!Earlier, R!RowsAfter, RP!RowsAfter,
           R!Apply, RP!Apply, R!Created, RP!Created, R!Cardinality, RP!Cardinality
  <1>4. R!NoSecondReference <=> RP!NoSecondReference
    BY DEF R!NoSecondReference, RP!NoSecondReference, R!Rows, RP!Rows, R!EdgeOf, RP!EdgeOf,
           R!Earlier, RP!Earlier, R!RowsAfter, RP!RowsAfter, R!Apply, RP!Apply, R!Created,
           RP!Created, R!Cardinality, RP!Cardinality
  <1>5. R!OneParent <=> RP!OneParent
    BY DEF R!OneParent, RP!OneParent, R!Rows, RP!Rows, R!EdgeOf, RP!EdgeOf, R!RowsAfter,
           RP!RowsAfter, R!Apply, RP!Apply, R!Created, RP!Created, R!Cardinality, RP!Cardinality
  <1>6. R!AckedIsShown <=> RP!AckedIsShown
    BY DEF R!AckedIsShown, RP!AckedIsShown, R!Rows, RP!Rows, R!Removed, RP!Removed, R!RowsAfter,
           RP!RowsAfter, R!Apply, RP!Apply, R!EdgeOf, RP!EdgeOf, R!Created, RP!Created,
           R!Cardinality, RP!Cardinality
  <1>7. R!RemovedOnce <=> RP!RemovedOnce
    BY DEF R!RemovedOnce, RP!RemovedOnce, R!Created, RP!Created, R!Cardinality, RP!Cardinality
  <1> QED BY <1>1, <1>2, <1>3, <1>4, <1>5, <1>6, <1>7

LEMMA RelationsPart == Spec => []((part = "relations") =>
        /\ R!NoCycleClosedKnowingly
        /\ R!NoSecondReference
        /\ R!OneParent
        /\ R!AckedIsShown
        /\ R!RemovedOnce)
  <1>1. Init => ~(part = "relations") \/ (part = "relations" /\ RP!Init)
    BY RelationsSame DEF Init
  <1>2. [Next]_vars => /\ ~(part = "relations") => (~(part = "relations"))'
                       /\ part = "relations" => (part = "relations")' /\ [RP!Next]_(RP!vars)
    BY RelationsSame DEF Next, vars, RP!vars
  <1> QED BY <1>1, <1>2, RelationsSame, RP!NoCycleAlways, RP!OneReferenceAlways,
         RP!OneParentAlways, RP!AnswersHold, PTL DEF Spec, RP!Spec

\* No relation whose check missed nothing closes a cycle or joins two objects
\* again, an object has one parent in relations_view, and what was answered is
\* shown until it is removed: relations.service.ts, for every set of objects and
\* of requests.
THEOREM RelationsAlways == Spec => []RelationsHold
  BY RelationsPart, PTL DEF RelationsHold

-------------------------------------------------------------------------------
\* Field values.

LEMMA ObjectsSame ==
         /\ O!Init <=> RP!O!Init
         /\ O!Next <=> RP!O!Next
         /\ O!TotalIsCurrent <=> RP!O!TotalIsCurrent
         /\ O!ComputedFromItsState <=> RP!O!ComputedFromItsState
         /\ O!RefreshedWhenQuiet <=> RP!O!RefreshedWhenQuiet
         /\ O!OneOccurrence <=> RP!O!OneOccurrence
         /\ O!CompletionsRecur <=> RP!O!CompletionsRecur
  <1>1. O!Init <=> RP!O!Init
    BY DEF O!Init, RP!O!Init, O!Idle, RP!O!Idle, O!Max, RP!O!Max
  <1>2. O!Next <=> RP!O!Next
    BY DEF O!Next, RP!O!Next, O!ReadStream, RP!O!ReadStream, O!AppendValues, RP!O!AppendValues,
           O!CallSkill, RP!O!CallSkill, O!AppendOccurrence, RP!O!AppendOccurrence,
           O!AppendRelation, RP!O!AppendRelation, O!Schedule, RP!O!Schedule, O!FailRequest,
           RP!O!FailRequest, O!StartRefresh, RP!O!StartRefresh, O!RefreshByHand,
           RP!O!RefreshByHand, O!TakeLock, RP!O!TakeLock, O!AskModel, RP!O!AskModel,
           O!AppendValue, RP!O!AppendValue, O!FailRefresh, RP!O!FailRefresh, O!Crash,
           RP!O!Crash, O!Event, RP!O!Event, O!TotalIn, RP!O!TotalIn, O!Raw, RP!O!Raw, O!Go,
           RP!O!Go, O!ValueIn, RP!O!ValueIn, O!objectVars, RP!O!objectVars, O!VersionMatches,
           RP!O!VersionMatches, O!IsTransition, RP!O!IsTransition, O!Idle, RP!O!Idle,
           O!counters, RP!O!counters, O!Causes, RP!O!Causes, O!Elsewhere, RP!O!Elsewhere,
           O!Completes, RP!O!Completes, O!StreamOf, RP!O!StreamOf,
           O!GoesWrong, RP!O!GoesWrong, O!GoRefresh, RP!O!GoRefresh, O!Unset, RP!O!Unset, O!Max,
           RP!O!Max
  <1>3. O!TotalIsCurrent <=> RP!O!TotalIsCurrent
    BY DEF O!TotalIsCurrent, RP!O!TotalIsCurrent, O!ValueIn, RP!O!ValueIn, O!TotalIn,
           RP!O!TotalIn, O!Unset, RP!O!Unset, O!Raw, RP!O!Raw, O!Max, RP!O!Max
  <1>4. O!ComputedFromItsState <=> RP!O!ComputedFromItsState
    BY DEF O!ComputedFromItsState, RP!O!ComputedFromItsState, O!ValueIn, RP!O!ValueIn, O!Unset,
           RP!O!Unset, O!Raw, RP!O!Raw, O!Max, RP!O!Max
  <1>5. O!RefreshedWhenQuiet <=> RP!O!RefreshedWhenQuiet
    BY DEF O!RefreshedWhenQuiet, RP!O!RefreshedWhenQuiet, O!Idle, RP!O!Idle, O!ValueIn,
           RP!O!ValueIn, O!Unset, RP!O!Unset, O!Raw, RP!O!Raw, O!Max, RP!O!Max
  <1>6. O!OneOccurrence <=> RP!O!OneOccurrence
    BY DEF O!OneOccurrence, RP!O!OneOccurrence, O!Causes, RP!O!Causes, O!Elsewhere, RP!O!Elsewhere,
           O!Completes, RP!O!Completes, O!ValueIn,
           RP!O!ValueIn, O!Unset, RP!O!Unset, O!Raw, RP!O!Raw, O!Max, RP!O!Max
  <1>7. O!CompletionsRecur <=> RP!O!CompletionsRecur
    BY DEF O!CompletionsRecur, RP!O!CompletionsRecur, O!Idle, RP!O!Idle, O!Completes,
           RP!O!Completes, O!StreamOf, RP!O!StreamOf, O!ValueIn, RP!O!ValueIn, O!Unset,
           RP!O!Unset, O!Raw, RP!O!Raw, O!Max, RP!O!Max
  <1> QED BY <1>1, <1>2, <1>3, <1>4, <1>5, <1>6, <1>7

LEMMA ObjectsPart == Spec => []((part = "objects") =>
        /\ O!TotalIsCurrent
        /\ O!ComputedFromItsState
        /\ O!RefreshedWhenQuiet
        /\ O!OneOccurrence
        /\ O!CompletionsRecur)
  <1>1. Init => ~(part = "objects") \/ (part = "objects" /\ RP!O!Init)
    BY ObjectsSame DEF Init
  <1>2. [Next]_vars => /\ ~(part = "objects") => (~(part = "objects"))'
                       /\ part = "objects" => (part = "objects")' /\ [RP!O!Next]_(RP!O!vars)
    BY ObjectsSame DEF Next, vars, RP!O!vars, RP!O!objectVars, RP!O!counters
  <1>3. RP!O!Spec => [](/\ RP!O!TotalIsCurrent
          /\ RP!O!ComputedFromItsState
          /\ RP!O!RefreshedWhenQuiet
          /\ RP!O!OneOccurrence
          /\ RP!O!CompletionsRecur)
    BY ObjectBoundsHold, RP!ValuesAreCurrent, RP!OneNextOccurrence, PTL
  <1> QED BY <1>1, <1>2, <1>3, ObjectsSame, PTL DEF Spec, RP!O!Spec

\* The total is the one of the stored values, the model's value stands behind the
\* state it was computed from, and a completion has one next occurrence:
\* objects.service.ts, task-recurrence.service.ts and ai-refresh-scheduler.service.ts,
\* for every set of requests and of refreshes.
THEOREM ObjectsAlways == Spec => []ObjectHolds
  BY ObjectsPart, PTL DEF ObjectHolds

-------------------------------------------------------------------------------
\* Suggested triggers.

LEMMA SuggestionsSame ==
         /\ S!Init <=> SP!S!Init
         /\ S!Next <=> SP!S!Next
         /\ S!DecidedOnce <=> SP!S!DecidedOnce
         /\ S!OneAnalysisPerCooldown <=> SP!S!OneAnalysisPerCooldown
         /\ S!NoDuplicatePending <=> SP!S!NoDuplicatePending
  <1>1. S!Init <=> SP!S!Init
    BY DEF S!Init, SP!S!Init, S!Idle, SP!S!Idle, S!Cardinality, SP!S!Cardinality
  <1>2. S!Next <=> SP!S!Next
    BY DEF S!Next, SP!S!Next, S!TakeLock, SP!S!TakeLock, S!CheckCooldown, SP!S!CheckCooldown,
           S!AskModel, SP!S!AskModel, S!MarkAnalysisRan, SP!S!MarkAnalysisRan, S!ReadPending,
           SP!S!ReadPending, S!AppendSuggestion, SP!S!AppendSuggestion, S!AppendedAll,
           SP!S!AppendedAll, S!CatchUp, SP!S!CatchUp, S!Decide, SP!S!Decide, S!CreateTrigger,
           SP!S!CreateTrigger, S!AppendDecision, SP!S!AppendDecision, S!CatchUpDecision,
           SP!S!CatchUpDecision, S!Fail, SP!S!Fail, S!CooldownElapses, SP!S!CooldownElapses,
           S!Room, SP!S!Room, S!Go, SP!S!Go, S!Idle, SP!S!Idle, S!Pending, SP!S!Pending,
           S!Suggested, SP!S!Suggested, S!Decisions, SP!S!Decisions, S!Cardinality,
           SP!S!Cardinality
  <1>3. S!DecidedOnce <=> SP!S!DecidedOnce
    BY DEF S!DecidedOnce, SP!S!DecidedOnce, S!Suggested, SP!S!Suggested, S!Decisions,
           SP!S!Decisions, S!Cardinality, SP!S!Cardinality
  <1>4. S!OneAnalysisPerCooldown <=> SP!S!OneAnalysisPerCooldown
    BY DEF S!OneAnalysisPerCooldown, SP!S!OneAnalysisPerCooldown, S!Cardinality,
           SP!S!Cardinality
  <1>5. S!NoDuplicatePending <=> SP!S!NoDuplicatePending
    BY DEF S!NoDuplicatePending, SP!S!NoDuplicatePending, S!Pending, SP!S!Pending, S!Suggested,
           SP!S!Suggested, S!Decisions, SP!S!Decisions, S!Cardinality, SP!S!Cardinality
  <1> QED BY <1>1, <1>2, <1>3, <1>4, <1>5

LEMMA SuggestionsPart == Spec => []((part = "suggestions") =>
        /\ S!DecidedOnce
        /\ S!OneAnalysisPerCooldown
        /\ S!NoDuplicatePending)
  <1>1. Init => ~(part = "suggestions") \/ (part = "suggestions" /\ SP!S!Init)
    BY SuggestionsSame DEF Init
  <1>2. [Next]_vars => /\ ~(part = "suggestions") => (~(part = "suggestions"))'
                       /\ part = "suggestions" => (part = "suggestions")' /\ [SP!S!Next]_(SP!S!vars)
    BY SuggestionsSame DEF Next, vars, SP!S!vars
  <1> QED BY <1>1, <1>2, SuggestionsSame, SP!SuggestionDecidedOnce, SP!CooldownBoundsCalls,
         SP!DuplicatesAreBlind, PTL DEF Spec, SP!S!Spec

\* A suggested trigger is decided once, an analysis asks the model once per
\* cooldown, and two pending suggestions of one template come of a race:
\* trigger-suggestions.service.ts, for every set of templates and of requests.
THEOREM SuggestionsAlways == Spec => []SuggestionsHold
  BY SuggestionsPart, PTL DEF SuggestionsHold

-------------------------------------------------------------------------------
\* Federation.

LEMMA LinksSame ==
         /\ L!Init <=> SP!Init
         /\ L!Next <=> SP!Next
         /\ L!OneLivePair <=> SP!OneLivePair
  <1>1. L!Init <=> SP!Init
    BY DEF L!Init, SP!Init, L!Idle, SP!Idle
  <1>2. L!Next <=> SP!Next
    BY DEF L!Next, SP!Next, L!CheckPair, SP!CheckPair, L!Insert, SP!Insert, L!CheckAccept,
           SP!CheckAccept, L!UpdateAccept, SP!UpdateAccept, L!CheckRevoke, SP!CheckRevoke,
           L!UpdateRevoke, SP!UpdateRevoke, L!LivePair, SP!LivePair, L!PairKey, SP!PairKey,
           L!Go, SP!Go, L!Idle, SP!Idle, L!CanTransition, SP!CanTransition
  <1>3. L!OneLivePair <=> SP!OneLivePair
    BY DEF L!OneLivePair, SP!OneLivePair
  <1> QED BY <1>1, <1>2, <1>3

LEMMA LinksPart == Spec => []((part = "links") =>
        /\ L!OneLivePair)
  <1>1. Init => ~(part = "links") \/ (part = "links" /\ SP!Init)
    BY LinksSame DEF Init
  <1>2. [Next]_vars => /\ ~(part = "links") => (~(part = "links"))'
                       /\ part = "links" => (part = "links")' /\ [SP!Next]_(SP!vars)
    BY LinksSame DEF Next, vars, SP!vars
  <1> QED BY <1>1, <1>2, LinksSame, SP!OneLink, PTL DEF Spec, SP!Spec

LEMMA ContextSame ==
         /\ X!FedInit <=> XP!FedInit
         /\ X!FedNext <=> XP!FedNext
         /\ X!AnswersAudited <=> XP!AnswersAudited
         /\ X!ShownWasInScope <=> XP!ShownWasInScope
         /\ X!RevokedLinkAnswersNothing <=> XP!RevokedLinkAnswersNothing
  <1>1. X!FedInit <=> XP!FedInit
    BY DEF X!FedInit, XP!FedInit, X!Init, XP!Init, X!NoRead, XP!NoRead, X!Idle, XP!Idle
  <1>2. X!FedNext <=> XP!FedNext
    BY DEF X!FedNext, XP!FedNext, X!Next, XP!Next, X!fedVars, XP!fedVars, X!CheckCredential,
           XP!CheckCredential, X!CheckLink, XP!CheckLink, X!CheckScope, XP!CheckScope,
           X!ReadAudit, XP!ReadAudit, X!AppendAudit, XP!AppendAudit, X!AnswerFiltered,
           XP!AnswerFiltered, X!FailRead, XP!FailRead, X!AddObject, XP!AddObject,
           X!RemoveObject, XP!RemoveObject, X!RevokeCredential, XP!RevokeCredential, X!vars,
           XP!vars, X!CheckPair, XP!CheckPair, X!Insert, XP!Insert, X!CheckAccept,
           XP!CheckAccept, X!UpdateAccept, XP!UpdateAccept, X!CheckRevoke, XP!CheckRevoke,
           X!UpdateRevoke, XP!UpdateRevoke, X!GoRead, XP!GoRead, X!LinkIs, XP!LinkIs, X!NoRead,
           XP!NoRead, X!Answer, XP!Answer, X!Scoped, XP!Scoped, X!LivePair, XP!LivePair,
           X!PairKey, XP!PairKey, X!Go, XP!Go, X!Idle, XP!Idle, X!CanTransition,
           XP!CanTransition
  <1>3. X!AnswersAudited <=> XP!AnswersAudited
    BY DEF X!AnswersAudited, XP!AnswersAudited
  <1>4. X!ShownWasInScope <=> XP!ShownWasInScope
    BY DEF X!ShownWasInScope, XP!ShownWasInScope
  <1>5. X!RevokedLinkAnswersNothing <=> XP!RevokedLinkAnswersNothing
    BY DEF X!RevokedLinkAnswersNothing, XP!RevokedLinkAnswersNothing
  <1> QED BY <1>1, <1>2, <1>3, <1>4, <1>5

LEMMA ContextPart == Spec => []((part = "context") =>
        /\ X!AnswersAudited
        /\ X!ShownWasInScope
        /\ X!RevokedLinkAnswersNothing)
  <1>1. Init => ~(part = "context") \/ (part = "context" /\ XP!FedInit)
    BY ContextSame DEF Init
  <1>2. [Next]_vars => /\ ~(part = "context") => (~(part = "context"))'
                       /\ part = "context" => (part = "context")' /\ [XP!FedNext]_<<XP!vars, XP!fedVars>>
    BY ContextSame DEF Next, vars, XP!vars, XP!fedVars
  <1> QED BY <1>1, <1>2, ContextSame, XP!EveryAnswerIsAudited, XP!NothingOutOfScope,
         XP!RevokedAnswersNothing, PTL DEF Spec, XP!FedSpec

\* Two workspaces have one link, and every answered read is audited, in scope and
\* of a link that was not revoked when it began: the services of federation/, for
\* every set of workspaces, users, objects, requests and readers.
THEOREM FederationAlways == Spec => []FederationHolds
  BY LinksPart, ContextPart, PTL DEF FederationHolds

-------------------------------------------------------------------------------
\* Budgets.

LEMMA QuotaSame ==
         /\ A!Init <=> SP!A!Init
         /\ A!Next <=> SP!A!Next
         /\ A!OvershootPaidFor <=> SP!A!OvershootPaidFor
  <1>1. A!Init <=> SP!A!Init
    BY DEF A!Init, SP!A!Init, A!Idle, SP!A!Idle
  <1>2. A!Next <=> SP!A!Next
    BY DEF A!Next, SP!A!Next, A!TakeLock, SP!A!TakeLock, A!AssertQuota, SP!A!AssertQuota,
           A!Complete, SP!A!Complete, A!RecordUsage, SP!A!RecordUsage, A!CatchUpUsage,
           SP!A!CatchUpUsage, A!RecordFails, SP!A!RecordFails, A!Fail, SP!A!Fail, A!Reach,
           SP!A!Reach, A!Recorded, SP!A!Recorded, A!Leave, SP!A!Leave, A!Go, SP!A!Go, A!Logs,
           SP!A!Logs, A!Parse, SP!A!Parse, A!Mishap, SP!A!Mishap, A!Total, SP!A!Total, A!Idle,
           SP!A!Idle, A!MaxTries, SP!A!MaxTries
  <1>3. A!OvershootPaidFor <=> SP!A!OvershootPaidFor
    BY DEF A!OvershootPaidFor, SP!A!OvershootPaidFor, A!MaxTries, SP!A!MaxTries
  <1> QED BY <1>1, <1>2, <1>3

LEMMA QuotaPart == Spec => []((part = "quota") =>
        /\ A!OvershootPaidFor)
  <1>1. Init => ~(part = "quota") \/ (part = "quota" /\ SP!A!Init)
    BY QuotaSame DEF Init
  <1>2. [Next]_vars => /\ ~(part = "quota") => (~(part = "quota"))'
                       /\ part = "quota" => (part = "quota")' /\ [SP!A!Next]_(SP!A!vars)
    BY QuotaSame DEF Next, vars, SP!A!vars
  <1>3. SP!A!Spec => [](/\ SP!A!OvershootPaidFor)
    BY QuotaConstantsHold, SP!QuotaHolds, PTL
  <1> QED BY <1>1, <1>2, <1>3, QuotaSame, PTL DEF Spec, SP!A!Spec

LEMMA NotificationsSame ==
         /\ N!Init <=> SP!N!Init
         /\ N!Next <=> SP!N!Next
         /\ N!BudgetNeverReached <=> SP!N!BudgetNeverReached
  <1>1. N!Init <=> SP!N!Init
    BY DEF N!Init, SP!N!Init, N!Idle, SP!N!Idle, N!Quantify, SP!N!Quantify, N!Cardinality,
           SP!N!Cardinality
  <1>2. N!Next <=> SP!N!Next
    BY DEF N!Next, SP!N!Next, N!HourPasses, SP!N!HourPasses, N!CheckQuietHours,
           SP!N!CheckQuietHours, N!CheckBudget, SP!N!CheckBudget, N!Deliver, SP!N!Deliver,
           N!RecordOutcome, SP!N!RecordOutcome, N!CatchUp, SP!N!CatchUp, N!Fail, SP!N!Fail,
           N!Go, SP!N!Go, N!CountDelivered, SP!N!CountDelivered, N!InDelivery, SP!N!InDelivery,
           N!Mishap, SP!N!Mishap, N!Record, SP!N!Record, N!Quantify,
           SP!N!Quantify, N!Cardinality, SP!N!Cardinality
  <1>3. N!BudgetNeverReached <=> SP!N!BudgetNeverReached
    BY DEF N!BudgetNeverReached, SP!N!BudgetNeverReached
  <1> QED BY <1>1, <1>2, <1>3

LEMMA NotificationsPart == Spec => []((part = "notifications") =>
        /\ N!BudgetNeverReached)
  <1>1. Init => ~(part = "notifications") \/ (part = "notifications" /\ SP!N!Init)
    BY NotificationsSame DEF Init
  <1>2. [Next]_vars => /\ ~(part = "notifications") => (~(part = "notifications"))'
                       /\ part = "notifications" => (part = "notifications")' /\ [SP!N!Next]_(SP!N!vars)
    BY NotificationsSame DEF Next, vars, SP!N!vars
  <1>3. SP!N!Spec => [](/\ SP!N!BudgetNeverReached)
    BY NoticeConstantsHold, SP!BudgetIsNeverReached, PTL
  <1> QED BY <1>1, <1>2, <1>3, NotificationsSame, PTL DEF Spec, SP!N!Spec

LEMMA RequestsSame ==
         /\ B!Init <=> SP!B!Init
         /\ B!Next <=> SP!B!Next
         /\ B!NoIntervalOverspent <=> SP!B!NoIntervalOverspent
         /\ B!RetryAfterIsEnough <=> SP!B!RetryAfterIsEnough
  <1>1. B!Init <=> SP!B!Init
    BY DEF B!Init, SP!B!Init, B!Idle, SP!B!Idle, B!Min, SP!B!Min
  <1>2. B!Next <=> SP!B!Next
    BY DEF B!Next, SP!B!Next, B!TakeLock, SP!B!TakeLock, B!ReadBucket, SP!B!ReadBucket, B!Check,
           SP!B!Check, B!Save, SP!B!Save, B!Answer, SP!B!Answer, B!Fail, SP!B!Fail, B!Tick,
           SP!B!Tick, B!Go, SP!B!Go, B!Refilled, SP!B!Refilled, B!NextState, SP!B!NextState,
           B!Store, SP!B!Store, B!Leave, SP!B!Leave, B!Idle, SP!B!Idle, B!Min, SP!B!Min
  <1>3. B!NoIntervalOverspent <=> SP!B!NoIntervalOverspent
    BY DEF B!NoIntervalOverspent, SP!B!NoIntervalOverspent, B!Min, SP!B!Min
  <1>4. B!RetryAfterIsEnough <=> SP!B!RetryAfterIsEnough
    BY DEF B!RetryAfterIsEnough, SP!B!RetryAfterIsEnough, B!Refilled, SP!B!Refilled, B!Min,
           SP!B!Min
  <1> QED BY <1>1, <1>2, <1>3, <1>4

LEMMA RequestsPart == Spec => []((part = "requests") =>
        /\ B!NoIntervalOverspent
        /\ B!RetryAfterIsEnough)
  <1>1. Init => ~(part = "requests") \/ (part = "requests" /\ SP!B!Init)
    BY RequestsSame DEF Init
  <1>2. [Next]_vars => /\ ~(part = "requests") => (~(part = "requests"))'
                       /\ part = "requests" => (part = "requests")' /\ [SP!B!Next]_(SP!B!vars)
    BY RequestsSame DEF Next, vars, SP!B!vars
  <1>3. SP!B!Spec => [](/\ SP!B!NoIntervalOverspent
          /\ SP!B!RetryAfterIsEnough)
    BY BucketConstantsHold, SP!NothingIsOverspent, SP!ComingBackIsEnough, PTL
  <1> QED BY <1>1, <1>2, <1>3, RequestsSame, PTL DEF Spec, SP!B!Spec

\* The quota of the AI is exceeded by what the overlaps and failures pay for, and
\* by no more, the requests of a credential are not exceeded, and the budget of
\* notifications is never reached: for every set of calls at the same time.
THEOREM BudgetsAlways == Spec => []BudgetsHold
  BY QuotaPart, NotificationsPart, RequestsPart, PTL DEF BudgetsHold

-------------------------------------------------------------------------------
\* Records and accounts.

LEMMA RecordsSame ==
         /\ C!Init <=> RP!C!Init
         /\ C!Next <=> RP!C!Next
         /\ C!NothingAfterClosed <=> RP!C!NothingAfterClosed
         /\ C!ClosedIsClosed <=> RP!C!ClosedIsClosed
         /\ C!NamesSharedByRaceOnly <=> RP!C!NamesSharedByRaceOnly
  <1>1. C!Init <=> RP!C!Init
    BY DEF C!Init, RP!C!Init, C!Services, RP!C!Services, C!Idle, RP!C!Idle,
           C!AutomationTriggers, RP!C!AutomationTriggers, C!SavedViews, RP!C!SavedViews,
           C!MemoryRecords, RP!C!MemoryRecords, C!AgentDirectory, RP!C!AgentDirectory,
           C!AgentPermissionManifests, RP!C!AgentPermissionManifests, C!MemoryAccessPolicies,
           RP!C!MemoryAccessPolicies, C!AutonomyTierSettings, RP!C!AutonomyTierSettings,
           C!NotificationPreferences, RP!C!NotificationPreferences, C!UserAvailability,
           RP!C!UserAvailability, C!ObjectComments, RP!C!ObjectComments, C!Asks, RP!C!Asks,
           C!Changes, RP!C!Changes, C!Closed, RP!C!Closed, C!Stream, RP!C!Stream, C!Is, RP!C!Is,
           C!Cardinality, RP!C!Cardinality
  <1>2. C!Next <=> RP!C!Next
    BY DEF C!Next, RP!C!Next, C!BeginCreate, RP!C!BeginCreate, C!FindRow, RP!C!FindRow,
           C!ReadStream, RP!C!ReadStream, C!AppendEvent, RP!C!AppendEvent, C!CatchUp,
           RP!C!CatchUp, C!Abandon, RP!C!Abandon, C!MayBegin, RP!C!MayBegin, C!MayCreate,
           RP!C!MayCreate, C!Go, RP!C!Go, C!Findable, RP!C!Findable, C!CommandPasses,
           RP!C!CommandPasses, C!Stream, RP!C!Stream, C!Idle, RP!C!Idle, C!VersionMatches,
           RP!C!VersionMatches, C!Rows, RP!C!Rows, C!Alive, RP!C!Alive, C!Closed, RP!C!Closed,
           C!Is, RP!C!Is, C!Cardinality, RP!C!Cardinality
  <1>3. C!NothingAfterClosed <=> RP!C!NothingAfterClosed
    BY DEF C!NothingAfterClosed, RP!C!NothingAfterClosed, C!Is, RP!C!Is, C!Closed, RP!C!Closed,
           C!Stream, RP!C!Stream, C!Cardinality, RP!C!Cardinality
  <1>4. C!ClosedIsClosed <=> RP!C!ClosedIsClosed
    BY DEF C!ClosedIsClosed, RP!C!ClosedIsClosed, C!Is, RP!C!Is, C!Closed, RP!C!Closed, C!Alive,
           RP!C!Alive, C!Stream, RP!C!Stream, C!Cardinality, RP!C!Cardinality
  <1>5. C!NamesSharedByRaceOnly <=> RP!C!NamesSharedByRaceOnly
    BY DEF C!NamesSharedByRaceOnly, RP!C!NamesSharedByRaceOnly, C!Rows, RP!C!Rows, C!Alive,
           RP!C!Alive, C!Is, RP!C!Is, C!Stream, RP!C!Stream, C!Closed, RP!C!Closed,
           C!Cardinality, RP!C!Cardinality
  <1> QED BY <1>1, <1>2, <1>3, <1>4, <1>5

LEMMA RecordsPart == Spec => []((part = "records") =>
        /\ C!NothingAfterClosed
        /\ C!ClosedIsClosed
        /\ C!NamesSharedByRaceOnly)
  <1>1. Init => ~(part = "records") \/ (part = "records" /\ RP!C!Init)
    BY RecordsSame DEF Init
  <1>2. [Next]_vars => /\ ~(part = "records") => (~(part = "records"))'
                       /\ part = "records" => (part = "records")' /\ [RP!C!Next]_(RP!C!vars)
    BY RecordsSame DEF Next, vars, RP!C!vars
  <1> QED BY <1>1, <1>2, RecordsSame, RP!DeletedIsDeleted, RP!NamesSharedByRaceAlways, PTL DEF
         Spec, RP!C!Spec

LEMMA AccountsSame ==
         /\ U!Init <=> RP!U!Init
         /\ U!Next <=> RP!U!Next
         /\ U!FoundSessionsEnded <=> RP!U!FoundSessionsEnded
         /\ U!PageIsTrue <=> RP!U!PageIsTrue
         /\ U!SeededUnlessFailed <=> RP!U!SeededUnlessFailed
  <1>1. U!Init <=> RP!U!Init
    BY DEF U!Init, RP!U!Init, U!NoWorkspace, RP!U!NoWorkspace, U!None, RP!U!None, U!Idle,
           RP!U!Idle, U!NewGate, RP!U!NewGate, U!NewQuery, RP!U!NewQuery
  <1>2. U!Next <=> RP!U!Next
    BY DEF U!Next, RP!U!Next, U!AnswerFetch, RP!U!AnswerFetch, U!ShowFetched, RP!U!ShowFetched,
           U!FailFetch, RP!U!FailFetch, U!Refetch, RP!U!Refetch, U!Start, RP!U!Start, U!Guard,
           RP!U!Guard, U!FindUser, RP!U!FindUser, U!UpdatePassword, RP!U!UpdatePassword,
           U!RevokeAll, RP!U!RevokeAll, U!Revoke, RP!U!Revoke, U!CreateSession,
           RP!U!CreateSession, U!InsertWorkspace, RP!U!InsertWorkspace, U!SeedField,
           RP!U!SeedField, U!Fail, RP!U!Fail, U!Answer, RP!U!Answer, U!Expire, RP!U!Expire,
           U!NoWorkspace, RP!U!NoWorkspace, U!Active, RP!U!Active, U!SetQuery, RP!U!SetQuery,
           U!NotAsked, RP!U!NotAsked, U!Fetching, RP!U!Fetching, U!Idle, RP!U!Idle, U!Kinds,
           RP!U!Kinds, U!FirstStep, RP!U!FirstStep, U!Refuse, RP!U!Refuse, U!Go, RP!U!Go,
           U!UnchangedButCall, RP!U!UnchangedButCall, U!SessionsEnd, RP!U!SessionsEnd,
           U!Doubted, RP!U!Doubted, U!AnswerLogin, RP!U!AnswerLogin, U!AnswerLogout,
           RP!U!AnswerLogout, U!AnswerChange, RP!U!AnswerChange, U!AnswerWorkspace,
           RP!U!AnswerWorkspace, U!None, RP!U!None, U!Screen, RP!U!Screen, U!Answered,
           RP!U!Answered, U!Invalidated, RP!U!Invalidated, U!NewGate, RP!U!NewGate, U!NewQuery,
           RP!U!NewQuery
  <1>3. U!FoundSessionsEnded <=> RP!U!FoundSessionsEnded
    BY DEF U!FoundSessionsEnded, RP!U!FoundSessionsEnded
  <1>4. U!PageIsTrue <=> RP!U!PageIsTrue
    BY DEF U!PageIsTrue, RP!U!PageIsTrue, U!Idle, RP!U!Idle, U!Screen, RP!U!Screen, U!Active,
           RP!U!Active, U!NoWorkspace, RP!U!NoWorkspace, U!None, RP!U!None
  <1>5. U!SeededUnlessFailed <=> RP!U!SeededUnlessFailed
    BY DEF U!SeededUnlessFailed, RP!U!SeededUnlessFailed
  <1> QED BY <1>1, <1>2, <1>3, <1>4, <1>5

LEMMA AccountsPart == Spec => []((part = "accounts") =>
        /\ U!FoundSessionsEnded
        /\ U!PageIsTrue
        /\ U!SeededUnlessFailed)
  <1>1. Init => ~(part = "accounts") \/ (part = "accounts" /\ RP!U!Init)
    BY AccountsSame DEF Init
  <1>2. [Next]_vars => /\ ~(part = "accounts") => (~(part = "accounts"))'
                       /\ part = "accounts" => (part = "accounts")' /\ [RP!U!Next]_(RP!U!vars)
    BY AccountsSame DEF Next, vars, RP!U!vars
  <1>3. RP!U!Spec => [](/\ RP!U!FoundSessionsEnded
          /\ RP!U!PageIsTrue
          /\ RP!U!SeededUnlessFailed)
    BY SeedsHold, RP!ChangedPasswordEnds, RP!PageTellsTheTruth, RP!WorkspaceHasItsFields, PTL
  <1> QED BY <1>1, <1>2, <1>3, AccountsSame, PTL DEF Spec, RP!U!Spec

\* Nothing follows the deletion of a record whose service replays its stream, active
\* agents share a name only by a race, a changed password ends the sessions it
\* found, a page tells the truth, and a new workspace has its fields: the
\* event-sourced services, auth.service.ts and workspaces.service.ts, for every set
\* of requests and of browsers.
THEOREM RecordsAlways == Spec => []RecordsHold
  BY RecordsPart, AccountsPart, PTL DEF RecordsHold

-------------------------------------------------------------------------------
\* Steps.

LEMMA LinksSteps == Spec => [][(part = "links") => L!UnrevokedWhenOvertaken]_vars
  <1>1. Init => ~(part = "links") \/ (part = "links" /\ SP!Init)
    BY LinksSame DEF Init
  <1>2. [Next]_vars => /\ ~(part = "links") => (~(part = "links"))' /\ [(part = "links") => L!UnrevokedWhenOvertaken]_vars
                       /\ part = "links" => (part = "links")' /\ [SP!Next]_(SP!vars)
    BY LinksSame DEF Next, vars, SP!vars
  <1>3. SP!Spec => [][SP!UnrevokedWhenOvertaken]_(SP!vars)
    BY SP!RevokedIsFinalUnlessOvertaken, PTL DEF SP!RevokedUnlessOvertaken
  <1>4. part = "links" /\ [Next]_vars /\ [SP!UnrevokedWhenOvertaken]_(SP!vars) => [(part = "links") => L!UnrevokedWhenOvertaken]_vars
    BY DEF Next, vars, SP!vars, L!UnrevokedWhenOvertaken, SP!UnrevokedWhenOvertaken
  <1> QED BY <1>1, <1>2, <1>3, <1>4, PTL DEF Spec, SP!Spec

LEMMA SuggestionsSteps == Spec => [][(part = "suggestions") => S!CreatedInTime]_vars
  <1>1. Init => ~(part = "suggestions") \/ (part = "suggestions" /\ SP!S!Init)
    BY SuggestionsSame DEF Init
  <1>2. [Next]_vars => /\ ~(part = "suggestions") => (~(part = "suggestions"))' /\ [(part = "suggestions") => S!CreatedInTime]_vars
                       /\ part = "suggestions" => (part = "suggestions")' /\ [SP!S!Next]_(SP!S!vars)
    BY SuggestionsSame DEF Next, vars, SP!S!vars
  <1>3. SP!S!Spec => [][SP!S!CreatedInTime]_(SP!S!vars)
    BY SP!AnsweredDecisionsStand, PTL DEF SP!S!AnsweredIsRespected
  <1>4. part = "suggestions" /\ [Next]_vars /\ [SP!S!CreatedInTime]_(SP!S!vars) => [(part = "suggestions") => S!CreatedInTime]_vars
    BY DEF Next, vars, SP!S!vars, S!CreatedInTime, SP!S!CreatedInTime, S!CreateTrigger,
           SP!S!CreateTrigger, S!Go, SP!S!Go
  <1> QED BY <1>1, <1>2, <1>3, <1>4, PTL DEF Spec, SP!S!Spec

LEMMA ObjectsSteps == Spec => [][(part = "objects") => O!ValueDroppedForUser]_vars
  <1>1. Init => ~(part = "objects") \/ (part = "objects" /\ RP!O!Init)
    BY ObjectsSame DEF Init
  <1>2. [Next]_vars => /\ ~(part = "objects") => (~(part = "objects"))' /\ [(part = "objects") => O!ValueDroppedForUser]_vars
                       /\ part = "objects" => (part = "objects")' /\ [RP!O!Next]_(RP!O!vars)
    BY ObjectsSame DEF Next, vars, RP!O!vars, RP!O!objectVars, RP!O!counters
  <1>3. RP!O!Spec => [][RP!O!ValueDroppedForUser]_(RP!O!vars)
    BY ObjectBoundsHold, RP!RefreshLosesToUsers, PTL DEF RP!O!OvertakenByUsersOnly
  <1>4. part = "objects" /\ [Next]_vars /\ [RP!O!ValueDroppedForUser]_(RP!O!vars) => [(part = "objects") => O!ValueDroppedForUser]_vars
    BY DEF Next, vars, RP!O!vars, RP!O!objectVars, RP!O!counters, O!ValueDroppedForUser,
           RP!O!ValueDroppedForUser, O!AppendValue, RP!O!AppendValue, O!VersionMatches,
           RP!O!VersionMatches, O!Event, RP!O!Event, O!GoRefresh, RP!O!GoRefresh, O!Idle,
           RP!O!Idle, O!counters, RP!O!counters
  <1> QED BY <1>1, <1>2, <1>3, <1>4, PTL DEF Spec, RP!O!Spec

LEMMA StepsJoin ==
  (/\ [(part = "links") => L!UnrevokedWhenOvertaken]_vars
   /\ [(part = "suggestions") => S!CreatedInTime]_vars
   /\ [(part = "objects") => O!ValueDroppedForUser]_vars) =>
     [/\ part = "links" => L!UnrevokedWhenOvertaken
      /\ part = "suggestions" => S!CreatedInTime
      /\ part = "objects" => O!ValueDroppedForUser]_vars
  OBVIOUS

\* A revoked link stays revoked but for an acceptance that was under way, no
\* request that begins after an answered decision creates a trigger, and a model
\* call is in vain only if a user wrote meanwhile, in every step.
THEOREM StepsAlways == Spec => StepsHold
  BY LinksSteps, SuggestionsSteps, ObjectsSteps, StepsJoin, PTL DEF StepsHold

===============================================================================
