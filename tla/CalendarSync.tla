----------------------------- MODULE CalendarSync -----------------------------
(***************************************************************************)
(* The poller of one connected calendar (calendar-sync-poller.service.ts), *)
(* which nothing keeps from running again before it has finished, the      *)
(* refresh of the account's tokens (calendar-token-refresh.service.ts),    *)
(* and the account's connection and disconnection.  The provider may give  *)
(* out a new refresh token with an access token, and then refuses the old  *)
(* one.                                                                    *)
(***************************************************************************)
EXTENDS Naturals, FiniteSets

CONSTANTS
  Poll,          \* runs of pollOnce under way at a time
  Event,         \* events of the external calendar
  MaxChanges,    \* bound: changes of the external calendar
  MaxTokens,     \* bound: refresh tokens given out
  MaxAccounts,   \* bound: times the account is connected
  MaxMishaps     \* bound: calls that fail and processes that die

VARIABLES
  remote,      \* the version of each external event, 0 where there is none
  cache,       \* the version of each event in calendar_events_cache
  account,     \* the row: whether there is one, its id or the last one's, its
               \* refresh token, and whether its access token outlasts the buffer
  valid,       \* the refresh token the provider accepts of each connection
  poll,        \* locals of each run
  changes, mishaps,
  seen,        \* history: the latest version of each event a run was given
  overlapped   \* history: whether runs have overlapped

vars == <<remote, cache, account, valid, poll, changes, mishaps, seen, overlapped>>

Idle == [at |-> "idle"]
Nothing == [e \in Event |-> 0]
Connected(id, token) == [connected |-> TRUE, id |-> id, token |-> token, fresh |-> TRUE]
Row(q) == account.connected /\ account.id = q.id

Init ==
  /\ remote = Nothing /\ cache = Nothing /\ seen = Nothing
  /\ account = Connected(1, 1) /\ valid = [a \in 1..MaxAccounts |-> 1]
  /\ poll = [p \in Poll |-> Idle]
  /\ changes = 0 /\ mishaps = 0 /\ overlapped = FALSE

Go(p, q) == poll' = [poll EXCEPT ![p] = q]

-------------------------------------------------------------------------------
\* The interval fires: pollOnce selects the account.
Begin(p) ==
  /\ poll[p].at = "idle" /\ account.connected
  /\ Go(p, [at |-> "account", id |-> account.id])
  /\ overlapped' = (overlapped \/ \E q \in Poll : poll[q].at # "idle")
  /\ UNCHANGED <<remote, cache, account, valid, changes, mishaps, seen>>

\* ensureFreshAccessToken: the row, if there still is one.
ReadAccount(p) ==
  LET q == poll[p] IN
  /\ q.at = "account"
  /\ Go(p, IF ~Row(q) THEN Idle
           ELSE IF account.fresh THEN [at |-> "list", id |-> q.id]
           ELSE [at |-> "refresh", id |-> q.id, token |-> account.token])
  /\ UNCHANGED <<remote, cache, account, valid, changes, mishaps, seen, overlapped>>

\* The provider refuses (CalendarReconnectRequiredError, which pollOnce catches),
\* or answers with an access token, and perhaps a new refresh token.
RefreshToken(p) ==
  LET q == poll[p] IN
  /\ q.at = "refresh"
  /\ \/ /\ q.token # valid[q.id]
        /\ Go(p, Idle) /\ UNCHANGED valid
     \/ /\ q.token = valid[q.id]
        /\ Go(p, [q EXCEPT !.at = "store"]) /\ UNCHANGED valid
     \/ /\ q.token = valid[q.id] /\ q.token < MaxTokens
        /\ valid' = [valid EXCEPT ![q.id] = q.token + 1]
        /\ Go(p, [q EXCEPT !.at = "store", !.token = @ + 1])
  /\ UNCHANGED <<remote, cache, account, changes, mishaps, seen, overlapped>>

\* The row gets both tokens: without a new refresh token, the one that was read.
StoreTokens(p) ==
  LET q == poll[p] IN
  /\ q.at = "store"
  /\ account' = IF Row(q) THEN Connected(q.id, q.token) ELSE account
  /\ Go(p, [at |-> "list", id |-> q.id])
  /\ UNCHANGED <<remote, cache, valid, changes, mishaps, seen, overlapped>>

Given == {e \in Event : remote[e] # 0}

ListEvents(p) ==
  /\ poll[p].at = "list"
  /\ Go(p, [at |-> "upsert", id |-> poll[p].id, events |-> remote, todo |-> Given])
  /\ seen' = [e \in Event |-> IF Row(poll[p]) /\ e \in Given THEN remote[e] ELSE seen[e]]
  /\ UNCHANGED <<remote, cache, account, valid, changes, mishaps, overlapped>>

\* onConflictDoUpdate, one event at a time.  The row's account must exist.
Upsert(p) ==
  LET q == poll[p] IN
  /\ q.at = "upsert"
  /\ IF q.todo = {} \/ ~Row(q)
       THEN Go(p, Idle) /\ UNCHANGED cache
       ELSE \E e \in q.todo :
              /\ cache' = [cache EXCEPT ![e] = q.events[e]]
              /\ Go(p, [q EXCEPT !.todo = @ \ {e}])
  /\ UNCHANGED <<remote, account, valid, changes, mishaps, seen, overlapped>>

Fail(p) ==
  /\ poll[p].at # "idle"
  /\ mishaps < MaxMishaps /\ mishaps' = mishaps + 1
  /\ Go(p, Idle)
  /\ UNCHANGED <<remote, cache, account, valid, changes, seen, overlapped>>

\* The access token gets near its end.
Expire ==
  /\ account.connected /\ account.fresh
  /\ account' = [account EXCEPT !.fresh = FALSE]
  /\ UNCHANGED <<remote, cache, valid, poll, changes, mishaps, seen, overlapped>>

\* An external event is made, moved or cancelled.
Change ==
  /\ changes < MaxChanges /\ changes' = changes + 1
  /\ \E e \in Event, version \in {0, changes + 1} : remote' = [remote EXCEPT ![e] = version]
  /\ UNCHANGED <<cache, account, valid, poll, mishaps, seen, overlapped>>

\* disconnect: the account's cached events go with its row.
Disconnect ==
  /\ account.connected /\ account.id < MaxAccounts
  /\ account' = [account EXCEPT !.connected = FALSE]
  /\ cache' = Nothing /\ seen' = Nothing
  /\ UNCHANGED <<remote, valid, poll, changes, mishaps, overlapped>>

\* connect: a row with an id and tokens of its own.
Connect ==
  /\ ~account.connected
  /\ account' = Connected(account.id + 1, 1)
  /\ UNCHANGED <<remote, cache, valid, poll, changes, mishaps, seen, overlapped>>

Next ==
  \/ \E p \in Poll :
       \/ Begin(p) \/ ReadAccount(p) \/ RefreshToken(p) \/ StoreTokens(p)
       \/ ListEvents(p) \/ Upsert(p) \/ Fail(p)
  \/ Expire \/ Change \/ Disconnect \/ Connect

Spec == Init /\ [][Next]_vars

-------------------------------------------------------------------------------
Versions == [Event -> 0..MaxChanges]

TypeOK ==
  /\ remote \in Versions /\ cache \in Versions /\ seen \in Versions
  /\ account \in [connected : BOOLEAN, id : 1..MaxAccounts, token : 1..MaxTokens, fresh : BOOLEAN]
  /\ valid \in [1..MaxAccounts -> 1..MaxTokens]
  /\ \A p \in Poll : poll[p].at \in {"idle", "account", "refresh", "store", "list", "upsert"}
  /\ changes \in 0..MaxChanges /\ mishaps \in 0..MaxMishaps /\ overlapped \in BOOLEAN

Quiet == \A p \in Poll : poll[p].at = "idle"

\* The account need not be connected anew: between runs its refresh token is one
\* the provider accepts, unless a new one got lost on the way to its row, or a run
\* that was given none put the old one back over another run's.
StoredTokenWorks ==
  Quiet /\ account.connected /\ mishaps = 0 /\ ~overlapped =>
    account.token = valid[account.id]

\* Between runs the cache holds what was last heard of each event since the account
\* was connected, unless runs overlapped or failed; what a run is not given any more
\* stays.
CacheFollows == Quiet /\ mishaps = 0 /\ ~overlapped => cache = seen

\* No event outlives its account, also when a run finds the account gone.
NothingWithoutAccount == ~account.connected => cache = Nothing
===============================================================================
