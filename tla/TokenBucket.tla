------------------------------ MODULE TokenBucket -----------------------------
(***************************************************************************)
(* The request budgets of federation credentials, MCP grants and           *)
(* connectors: assertNotRateLimited of federation/federation-rate-limit,   *)
(* mcp-server/inbound-mcp-rate-limit and integrations/connector-rate-limit *)
(* .service.ts, which are alike, and checkRateLimit of packages/           *)
(* integrations/src/mcp/rate-limit-math.ts.                                *)
(*                                                                         *)
(* A unit of time is the time in which one token is refilled.  The bucket  *)
(* is one row, or none before its first request.                           *)
(***************************************************************************)
EXTENDS Integers, FiniteSetsExt

CONSTANTS
  Caller,      \* concurrent requests of one credential
  Capacity,    \* DEFAULT_BUCKET_CAPACITY
  Cost,        \* what requests cost
  MaxNow,      \* bound: time
  MaxMishaps   \* bound: calls that fail, processes that die

VARIABLES
  now,
  bucket,      \* the row: tokensAvailable, lastRefillAt; none is {}
  locked,      \* requests whose session holds the advisory lock
  request,     \* locals of each request
  spent,       \* history: what requests cost that were let through before each time
  told,        \* history: refusals no request was allowed after: cost, and when to retry
  mishaps      \* history: failures so far

vars == <<now, bucket, locked, request, spent, told, mishaps>>

Idle == [at |-> "idle"]

Init ==
  /\ now = 0
  /\ bucket = {}
  /\ locked = {}
  /\ request = [c \in Caller |-> Idle]
  /\ spent = [t \in 0..MaxNow + 1 |-> 0]
  /\ told = {}
  /\ mishaps = 0

-------------------------------------------------------------------------------
Go(c, q) == request' = [request EXCEPT ![c] = q]
Leave(c) == Go(c, Idle) /\ locked' = locked \ {c}

\* checkRateLimit: what the bucket holds at time t.
Refilled(b, t) == Min({Capacity, b.tokens + t - b.at})

NextState(b, cost, t) ==
  [tokens |-> IF Refilled(b, t) >= cost THEN Refilled(b, t) - cost ELSE Refilled(b, t),
   at |-> t]

\* Faulty variant of TakeLock: the lock is shared.
TakeLockShared(c) ==
  /\ request[c].at = "idle"
  /\ \E x \in Cost : Go(c, [at |-> "read", cost |-> x])
  /\ locked' = locked \union {c}
  /\ UNCHANGED <<now, bucket, spent, told, mishaps>>

TakeLock(c) ==
  /\ request[c].at = "idle"
  /\ locked = {}
  /\ \E x \in Cost : Go(c, [at |-> "read", cost |-> x])
  /\ locked' = {c}
  /\ UNCHANGED <<now, bucket, spent, told, mishaps>>

ReadBucket(c) ==
  /\ request[c].at = "read"
  /\ Go(c, [at |-> "check", cost |-> request[c].cost, row |-> bucket])
  /\ UNCHANGED <<now, bucket, locked, spent, told, mishaps>>

\* The clock is read when the row has been; a new bucket is full.
Check(c) ==
  LET q == request[c]
      full == [tokens |-> Capacity, at |-> now]
      b == IF q.row = {} THEN full ELSE CHOOSE b \in q.row : TRUE IN
  /\ q.at = "check"
  /\ Go(c, [at |-> "save", cost |-> q.cost, time |-> now,
            allowed |-> Refilled(b, now) >= q.cost,
            retryAt |-> now + q.cost - Refilled(b, now),
            next |-> NextState(b, q.cost, now)])
  /\ UNCHANGED <<now, bucket, locked, spent, told, mishaps>>

\* The upsert; it may take from what was refilled for somebody told to come back.
Store(q) ==
  /\ bucket' = {q.next}
  /\ told' = IF q.allowed THEN {} ELSE told

Save(c) ==
  /\ request[c].at = "save"
  /\ Store(request[c])
  /\ Go(c, [request[c] EXCEPT !.at = "answer"])
  /\ UNCHANGED <<now, locked, spent, mishaps>>

\* The request is let through, or told when to retry.
Answer(c) ==
  LET q == request[c] IN
  /\ q.at = "answer"
  /\ IF q.allowed
       THEN /\ spent' = [t \in 0..MaxNow + 1 |-> IF t > q.time THEN spent[t] + q.cost ELSE spent[t]]
            /\ UNCHANGED told
       ELSE /\ told' = told \union {[cost |-> q.cost, retryAt |-> q.retryAt]}
            /\ UNCHANGED spent
  /\ Leave(c)
  /\ UNCHANGED <<now, bucket, mishaps>>

\* A query fails, perhaps after it took effect, or the process dies: the request
\* is not let through, and the lock is given back.
Fail(c) ==
  /\ request[c].at # "idle"
  /\ mishaps < MaxMishaps
  /\ mishaps' = mishaps + 1
  /\ \/ UNCHANGED <<bucket, told>>
     \/ request[c].at = "save" /\ Store(request[c])
  /\ Leave(c)
  /\ UNCHANGED <<now, spent>>

Tick ==
  /\ now < MaxNow
  /\ now' = now + 1
  /\ UNCHANGED <<bucket, locked, request, spent, told, mishaps>>

Next ==
  \/ \E c \in Caller :
       TakeLock(c) \/ ReadBucket(c) \/ Check(c) \/ Save(c) \/ Answer(c) \/ Fail(c)
  \/ Tick

Spec == Init /\ [][Next]_vars

-------------------------------------------------------------------------------
TypeOK ==
  /\ now \in 0..MaxNow
  /\ bucket \subseteq [tokens : 0..Capacity, at : 0..now]
  /\ locked \subseteq Caller /\ Cardinality(locked) <= 1
  /\ spent \in [0..MaxNow + 1 -> Nat]
  /\ \A c \in Caller : request[c].at \in {"idle", "read", "check", "save", "answer"}
  /\ mishaps \in 0..MaxMishaps

\* In no interval are requests let through that cost more than a full bucket and
\* what is refilled in the meantime.
NoIntervalOverspent ==
  \A s, t \in 0..MaxNow :
    s <= t => spent[t + 1] - spent[s] <= Capacity + t - s

\* A request that comes back when it was told to, before another has used up
\* what was refilled for it, is let through.
RetryAfterIsEnough ==
  \A q \in told, b \in bucket :
    now >= q.retryAt /\ locked = {} => Refilled(b, now) >= q.cost
===============================================================================
