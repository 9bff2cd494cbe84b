---------------------------- MODULE ObjectFields ----------------------------
(***************************************************************************)
(* Field values of one task: setFieldValues of objects/objects.service.ts  *)
(* with what follows a write.  Formulas are computed anew in the same      *)
(* append; a completed task gets its next occurrence from recurrence/      *)
(* task-recurrence.service.ts; and a field computed by the model is        *)
(* refreshed through ai/ai-refresh-scheduler.service.ts.                   *)
(*                                                                         *)
(* The task has a status, two raw fields, the formula "total" of these and *)
(* the model's field "ai", whose one source is the total.  A raw value is  *)
(* the version that set it, so that a computed value tells what it was     *)
(* computed from.                                                          *)
(***************************************************************************)
EXTENDS Integers, FiniteSetsExt, SequencesExt

CONSTANTS
  Caller,      \* concurrent requests
  Refresh,     \* refreshes that may overlap
  MaxWrites,   \* bound: writes of field values, and refreshes and occurrences asked for
  MaxCalls,    \* bound: calls of generateNextOccurrence
  MaxMishaps   \* bound: calls that fail, processes that die

Raw == {"hours", "rate"}

VARIABLES
  log,           \* the task's stream: FieldValueChanged events
  timer,         \* a refresh is scheduled
  locked,        \* the workspace's AI lock is held
  request,       \* locals of each request
  refresh,       \* locals of each refresh
  occurrences,   \* streams of next occurrences: causation and object id
  relations,     \* streams of recurrenceOf relations: causation and object id
  writes, calls, mishaps,   \* what is bounded
  lost           \* history: a refresh or its scheduling failed since the last one

objectVars == <<log, occurrences, relations>>
counters == <<writes, calls, mishaps>>
vars == <<objectVars, timer, locked, request, refresh, counters, lost>>

Idle == [at |-> "idle"]

Init ==
  /\ log = << >>
  /\ timer = FALSE
  /\ locked = FALSE
  /\ request = [c \in Caller |-> Idle]
  /\ refresh = [x \in Refresh |-> Idle]
  /\ occurrences = {} /\ relations = {}
  /\ writes = 0 /\ calls = 0 /\ mishaps = 0
  /\ lost = FALSE

-------------------------------------------------------------------------------
Event(f, v) == [field |-> f, value |-> v]

\* The value of a field that was never set: a status that is not done, and for
\* the computed fields what they are before any change.
Unset(f) ==
  CASE f \in Raw -> 0
    [] f = "status" -> "open"
    [] OTHER -> [r \in Raw |-> 0]

\* replayFieldValues, for one field: its last event's value.
ValueIn(events, f) ==
  LET sets == {i \in DOMAIN events : events[i].field = f} IN
  IF sets = {} THEN Unset(f) ELSE events[Max(sets)].value

\* The formula, from the raw values.
TotalIn(events) == [f \in Raw |-> ValueIn(events, f)]

\* detectStatusDoneTransition, for the event at i of a stream.
Completes(events, i) ==
  /\ events[i].field = "status"
  /\ events[i].value = "done"
  /\ ValueIn(SubSeq(events, 1, i - 1), "status") # "done"

\* Ids that are of no completion: of another event, or of none.
Elsewhere == -MaxCalls .. -1

\* What a stream gives reason to ask an occurrence for.
Causes(events, k) == k \in Elsewhere \/ (k \in DOMAIN events /\ Completes(events, k))

Go(c, q) == request' = [request EXCEPT ![c] = q]
GoRefresh(x, q) == refresh' = [refresh EXCEPT ![x] = q]
GoesWrong == mishaps < MaxMishaps /\ mishaps' = mishaps + 1

-------------------------------------------------------------------------------
\* setFieldValues reads the stream; the total that it changes goes into the
\* same batch.
ReadStream(c) ==
  LET next == Len(log) + 1
      drafts == {<<Event(f, next), Event("total", [TotalIn(log) EXCEPT ![f] = next])>> : f \in Raw}
                  \union {<<Event("status", s)>> : s \in {"open", "done"}}
  IN  /\ request[c].at = "idle"
      /\ writes < MaxWrites
      /\ writes' = writes + 1
      /\ \E d \in drafts : Go(c, [at |-> "append", batch |-> d, version |-> Len(log),
                                  prior |-> ValueIn(log, "status")])
      /\ UNCHANGED <<objectVars, timer, locked, refresh, calls, mishaps, lost>>

VersionMatches(version) == version = Len(log)

IsTransition(q) ==
  q.batch[1].field = "status" /\ q.batch[1].value = "done" /\ q.prior # "done"

\* One append for the values and the formulas; a conflict is the caller's.
AppendValues(c) ==
  LET q == request[c] IN
  /\ q.at = "append"
  /\ IF VersionMatches(q.version)
       THEN /\ log' = log \o q.batch
            /\ Go(c, IF IsTransition(q)
                       THEN [at |-> "occurrence", causation |-> Len(log) + 1, raw |-> FALSE]
                       ELSE [at |-> "schedule", raw |-> q.batch[1].field \in Raw])
       ELSE Go(c, Idle) /\ UNCHANGED log
  /\ UNCHANGED <<timer, locked, refresh, occurrences, relations, counters, lost>>

\* The skill generate-next-recurrence, called for a completion, perhaps again, or
\* with any other id: what is no completion is not refused, and without an id the
\* skill draws one at random.  The object that it names is the task here.
CallSkill(c) ==
  /\ request[c].at = "idle"
  /\ writes < MaxWrites
  /\ writes' = writes + 1
  /\ \E k \in DOMAIN log \union Elsewhere :
       /\ Causes(log, k)
       /\ Go(c, [at |-> "occurrence", causation |-> k, raw |-> FALSE])
  /\ UNCHANGED <<objectVars, timer, locked, refresh, calls, mishaps, lost>>

StreamOf(streams, causation) == {s \in streams : s.causation = causation}

\* Stream and event ids derive from the causation, so that a repeated append is
\* answered with the stored object; other field keys make it a conflict.
AppendOccurrence(c) ==
  LET stored == StreamOf(occurrences, request[c].causation)
      new == [causation |-> request[c].causation, object |-> calls + 1]
      relate(object) == [at |-> "relation", causation |-> new.causation,
                         raw |-> request[c].raw, to |-> object]
  IN  /\ request[c].at = "occurrence"
      /\ calls < MaxCalls
      /\ calls' = calls + 1
      /\ \/ /\ stored = {}
            /\ occurrences' = occurrences \union {new}
            /\ Go(c, relate(new.object))
         \/ /\ \E s \in stored : Go(c, relate(s.object))
            /\ UNCHANGED occurrences
         \/ /\ stored # {}
            /\ Go(c, [at |-> "schedule", raw |-> request[c].raw])
            /\ UNCHANGED occurrences
      /\ UNCHANGED <<log, timer, locked, refresh, relations, writes, mishaps, lost>>

AppendRelation(c) ==
  LET k == request[c].causation IN
  /\ request[c].at = "relation"
  /\ relations' = IF StreamOf(relations, k) = {}
                    THEN relations \union {[causation |-> k, object |-> request[c].to]}
                    ELSE relations
  /\ Go(c, [at |-> "schedule", raw |-> request[c].raw])
  /\ UNCHANGED <<log, timer, locked, refresh, occurrences, counters, lost>>

\* scheduleOnSourceChangeAIRefreshes: one timer for each object and field.
Schedule(c) ==
  /\ request[c].at = "schedule"
  /\ timer' = (timer \/ request[c].raw)
  /\ Go(c, Idle)
  /\ UNCHANGED <<objectVars, locked, refresh, counters, lost>>

\* A call after the append is rejected.  What recurrence rejects is logged and
\* the request goes on; a catch-up that fails ends it.
FailRequest(c) ==
  /\ request[c].at \in {"occurrence", "relation", "schedule"}
  /\ GoesWrong
  /\ \/ /\ request[c].at # "schedule"
        /\ Go(c, [at |-> "schedule", raw |-> request[c].raw])
        /\ UNCHANGED lost
     \/ Go(c, Idle) /\ lost' = (lost \/ request[c].raw)
  /\ UNCHANGED <<objectVars, timer, locked, refresh, writes, calls>>

-------------------------------------------------------------------------------
\* The timer fires, or a user asks for a refresh.
StartRefresh(x) ==
  /\ refresh[x].at = "idle"
  /\ timer
  /\ timer' = FALSE
  /\ GoRefresh(x, [at |-> "lock"])
  /\ UNCHANGED <<objectVars, locked, request, counters, lost>>

RefreshByHand(x) ==
  /\ refresh[x].at = "idle"
  /\ Len(log) > 0
  /\ writes < MaxWrites
  /\ writes' = writes + 1
  /\ GoRefresh(x, [at |-> "lock"])
  /\ UNCHANGED <<objectVars, timer, locked, request, calls, mishaps, lost>>

\* withWorkspaceAILock.
TakeLock(x) ==
  /\ refresh[x].at = "lock"
  /\ ~locked
  /\ locked' = TRUE
  /\ GoRefresh(x, [at |-> "read"])
  /\ UNCHANGED <<objectVars, timer, request, counters, lost>>

\* performAIFieldRefresh reads the stream and asks the model; an answer that is
\* no value of the field leads to an error value in its place.
AskModel(x) ==
  /\ refresh[x].at = "read"
  /\ GoRefresh(x, [at |-> "append", version |-> Len(log), value |-> ValueIn(log, "total")])
  /\ UNCHANGED <<objectVars, timer, locked, request, counters, lost>>

\* Faulty variant of AppendValue: the version is read again after the model call.
AppendValueAnyway(x) ==
  /\ refresh[x].at = "append"
  /\ log' = Append(log, Event("ai", refresh[x].value))
  /\ lost' = FALSE
  /\ locked' = FALSE
  /\ GoRefresh(x, Idle)
  /\ UNCHANGED <<timer, request, occurrences, relations, counters>>

\* A conflict is logged.  The write that overtook schedules a refresh of its
\* own if it changed the source, and only then.
AppendValue(x) ==
  LET version == refresh[x].version IN
  /\ refresh[x].at = "append"
  /\ IF VersionMatches(version)
       THEN /\ log' = Append(log, Event("ai", refresh[x].value))
            /\ lost' = FALSE
       ELSE /\ lost' = (lost \/ \A i \in version + 1 .. Len(log) : log[i].field # "total")
            /\ UNCHANGED log
  /\ locked' = FALSE
  /\ GoRefresh(x, Idle)
  /\ UNCHANGED <<timer, request, occurrences, relations, counters>>

\* A quota refuses, or a call fails.
FailRefresh(x) ==
  /\ refresh[x].at # "idle"
  /\ GoesWrong
  /\ locked' = (locked /\ refresh[x].at = "lock")
  /\ lost' = TRUE
  /\ GoRefresh(x, Idle)
  /\ UNCHANGED <<objectVars, timer, request, writes, calls>>

\* The process dies, and its timers with it.
Crash ==
  /\ timer \/ (\E c \in Caller : request[c] # Idle) \/ \E x \in Refresh : refresh[x] # Idle
  /\ GoesWrong
  /\ timer' = FALSE
  /\ locked' = FALSE
  /\ request' = [c \in Caller |-> Idle]
  /\ refresh' = [x \in Refresh |-> Idle]
  /\ lost' = TRUE
  /\ UNCHANGED <<objectVars, writes, calls>>

Next ==
  \/ \E c \in Caller :
       \/ ReadStream(c) \/ AppendValues(c) \/ CallSkill(c)
       \/ AppendOccurrence(c) \/ AppendRelation(c) \/ Schedule(c) \/ FailRequest(c)
  \/ \E x \in Refresh :
       \/ StartRefresh(x) \/ RefreshByHand(x) \/ TakeLock(x) \/ AskModel(x)
       \/ AppendValue(x) \/ FailRefresh(x)
  \/ Crash

Spec == Init /\ [][Next]_vars

-------------------------------------------------------------------------------
TypeOK ==
  /\ \A i \in DOMAIN log : log[i].field \in Raw \union {"status", "total", "ai"}
  /\ timer \in BOOLEAN /\ locked \in BOOLEAN /\ lost \in BOOLEAN
  /\ \A c \in Caller :
       request[c].at \in {"idle", "append", "occurrence", "relation", "schedule"}
  /\ \A x \in Refresh : refresh[x].at \in {"idle", "lock", "read", "append"}
  /\ \A s \in occurrences \union relations :
       s.causation \in DOMAIN log \union Elsewhere /\ s.object \in 1..calls
  /\ writes \in 0..MaxWrites /\ calls \in 0..MaxCalls /\ mishaps \in 0..MaxMishaps

\* The stored total is that of the stored raw values, whichever writes race.
TotalIsCurrent == ValueIn(log, "total") = TotalIn(log)

\* A model's value stands in the log right after the state it was computed from.
ComputedFromItsState ==
  \A i \in DOMAIN log :
    log[i].field = "ai" => log[i].value = ValueIn(SubSeq(log, 1, i - 1), "total")

\* When all is quiet the model's value is the one of the current total, unless
\* its last refresh failed or was overtaken by a write that schedules none.
RefreshedWhenQuiet ==
  (~timer /\ ~lost /\ (\A c \in Caller : request[c] = Idle) /\ \A x \in Refresh : refresh[x] = Idle)
    => ValueIn(log, "ai") = ValueIn(log, "total")

ValueDroppedForUser ==
  \A x \in Refresh :
    AppendValue(x) /\ ~VersionMatches(refresh[x].version) =>
      \E i \in refresh[x].version + 1 .. Len(log) : log[i].field # "ai"

\* A refresh is never overtaken by another refresh alone: a model call is in
\* vain only if a user wrote meanwhile.
OvertakenByUsersOnly == [][ValueDroppedForUser]_vars

\* An id has one next occurrence and one relation to that very object, however
\* often and concurrently it is asked for; nothing has any but the completions and
\* the other ids the skill was called with.  So a completion has a second one only
\* if the skill was called for it with an id of another.
OneOccurrence ==
  /\ \A s \in occurrences \union relations : Causes(log, s.causation)
  /\ \A s, t \in occurrences : s.causation = t.causation => s = t
  /\ \A s, t \in relations : s.causation = t.causation => s = t
  /\ relations \subseteq occurrences

\* When all is quiet and nothing went wrong, every completion has them.
CompletionsRecur ==
  (mishaps = 0 /\ calls < MaxCalls /\ \A c \in Caller : request[c] = Idle)
    => \A i \in DOMAIN log : Completes(log, i) => StreamOf(relations, i) # {}
===============================================================================
