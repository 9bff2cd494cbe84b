---------------------------- MODULE DirectMessages ----------------------------
(***************************************************************************)
(* direct-messages/direct-messages.service.ts: one user's conversation     *)
(* with one agent, which is one stream.  A request appends the user's      *)
(* message, has a proposal made of it (commands.service.ts), and appends   *)
(* the agent's reply, which names the proposal.  The page lists messages   *)
(* by the time they were stamped with.  A message is known by its place in *)
(* the stream.                                                             *)
(***************************************************************************)
EXTENDS Naturals, Sequences, FiniteSets

CONSTANTS
  Caller,      \* concurrent calls of send
  MaxEvents,   \* bound: messages of the conversation
  MaxNow,      \* bound: the clock
  MaxMishaps   \* bound: calls that fail and processes that die

VARIABLES
  log,         \* the stream
  shown,       \* how many of its messages the projection has applied
  request,     \* locals of each call of send
  now,
  proposals,   \* the messages that a recorded proposal was made of
  mishaps

vars == <<log, shown, request, now, proposals, mishaps>>

Idle == [at |-> "idle"]

Init ==
  /\ log = << >> /\ shown = 0
  /\ request = [c \in Caller |-> Idle]
  /\ now = 0 /\ proposals = {} /\ mishaps = 0

Go(c, q) == request' = [request EXCEPT ![c] = q]

UnderWay == {c \in Caller : request[c].at # "idle"}

\* Bound: room for the message and the reply.
MayBegin == Len(log) + 2 * Cardinality(UnderWay) < MaxEvents

-------------------------------------------------------------------------------
\* appendMessage, of the user's message (of is 0) or the reply to message of: the
\* stream is read, then the time is taken, then the message is appended.
ReadStream(c, q) ==
  Go(c, [at |-> "read", of |-> q.of, proposal |-> q.proposal, version |-> Len(log)])

Send(c) ==
  /\ request[c].at = "idle" /\ MayBegin
  /\ ReadStream(c, [of |-> 0, proposal |-> FALSE])
  /\ UNCHANGED <<log, shown, now, proposals, mishaps>>

Reply(c) ==
  /\ request[c].at = "reply"
  /\ ReadStream(c, request[c])
  /\ UNCHANGED <<log, shown, now, proposals, mishaps>>

TakeTime(c) ==
  LET q == request[c] IN
  /\ q.at = "read"
  /\ Go(c, [at |-> "append", version |-> q.version,
            message |-> [of |-> q.of, proposal |-> q.proposal, time |-> now]])
  /\ UNCHANGED <<log, shown, now, proposals, mishaps>>

\* A message that another one has overtaken is refused, and send with it.
AppendMessage(c) ==
  LET q == request[c] IN
  /\ q.at = "append"
  /\ IF q.version = Len(log)
       THEN /\ log' = Append(log, q.message)
            /\ Go(c, [at |-> "catch up", of |-> q.message.of, message |-> Len(log) + 1])
       ELSE Go(c, Idle) /\ UNCHANGED log
  /\ UNCHANGED <<shown, now, proposals, mishaps>>

\* After the reply, send returns.
CatchUp(c) ==
  LET q == request[c] IN
  /\ q.at = "catch up"
  /\ shown' = Len(log)
  /\ Go(c, IF q.of = 0 THEN [at |-> "propose", of |-> q.message] ELSE Idle)
  /\ UNCHANGED <<log, now, proposals, mishaps>>

\* proposeFromDirectMessage records a proposal, or the message is not understood
\* or not allowed and the reply says so.
Propose(c) ==
  LET q == request[c] IN
  /\ q.at = "propose"
  /\ \E proposal \in BOOLEAN :
       /\ proposals' = IF proposal THEN proposals \union {q.of} ELSE proposals
       /\ Go(c, [at |-> "reply", of |-> q.of, proposal |-> proposal])
  /\ UNCHANGED <<log, shown, now, mishaps>>

\* The call at hand fails, or the process dies.  Before anything was appended this
\* is as if send had not been called.
Fail(c) ==
  /\ request[c].at \in {"catch up", "propose", "reply"}
  /\ mishaps < MaxMishaps /\ mishaps' = mishaps + 1
  /\ Go(c, Idle)
  /\ UNCHANGED <<log, shown, now, proposals>>

Tick ==
  /\ now < MaxNow /\ now' = now + 1
  /\ UNCHANGED <<log, shown, request, proposals, mishaps>>

Next ==
  \/ \E c \in Caller :
       \/ Send(c) \/ TakeTime(c) \/ AppendMessage(c) \/ CatchUp(c)
       \/ Propose(c) \/ Reply(c) \/ Fail(c)
  \/ Tick

Spec == Init /\ [][Next]_vars

-------------------------------------------------------------------------------
TypeOK ==
  /\ log \in Seq([of : 0..MaxEvents, proposal : BOOLEAN, time : 0..MaxNow])
  /\ shown \in 0..Len(log)
  /\ \A c \in Caller : request[c].at \in {"idle", "read", "append", "catch up", "propose", "reply"}
  /\ now \in 0..MaxNow /\ mishaps \in 0..MaxMishaps
  /\ proposals \subseteq DOMAIN log

\* The page, which sorts by time, never shows a message before one that precedes
\* it in the stream, however requests overlap: the time is taken after the read
\* whose version the append depends on (appendMessage 250-252).
ListedInOrder == \A i, j \in DOMAIN log : i < j => log[i].time <= log[j].time

\* A message gets one reply, after it, which names the proposal made of it.
OneReply ==
  \A j \in DOMAIN log : log[j].of # 0 =>
    /\ log[j].of < j /\ log[log[j].of].of = 0
    /\ log[j].proposal <=> log[j].of \in proposals
    /\ \A k \in DOMAIN log : log[k].of = log[j].of => k = j

Told(i) == \E j \in DOMAIN log : log[j].of = i

\* The message that a request is about to answer, or 0.
Answers(q) ==
  CASE q.at \in {"read", "reply"} -> q.of
    [] q.at = "append" -> q.message.of
    [] OTHER -> 0

Untold ==
  {i \in proposals :
     /\ ~Told(i)
     /\ \A c \in Caller : Answers(request[c]) # i
     /\ \A j \in DOMAIN log : j <= i \/ log[j].of = i}

\* A proposal that the conversation does not name and no request is about to is
\* the outcome of a failure, or a message of another request came after the one
\* it was made of: a user who awaits each reply is told of every proposal.
ProposalsAreTold == Cardinality(Untold) <= mishaps
===============================================================================
