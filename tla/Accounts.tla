------------------------------ MODULE Accounts ------------------------------
(***************************************************************************)
(* From a password to a workspace: the sessions of one account in two      *)
(* browsers, auth/auth.service.ts with session.service.ts and its guard,   *)
(* the creation of a workspace with its fields, workspaces/                *)
(* workspaces.service.ts, and what the page shows of it all, auth/         *)
(* SessionGate.tsx of the web client with its query cache.                 *)
(*                                                                         *)
(* A user types the password that is valid when the form is sent.  A       *)
(* session ends by itself at any time.  The limit of login attempts, one   *)
(* script in Redis, only refuses calls and is left out.                    *)
(***************************************************************************)
EXTENDS Integers, Sequences

CONSTANTS
  Browser,
  Seeds,      \* number of fields a new workspace is given
  MaxCalls,   \* bound: calls
  MaxFetches, \* bound: reloads of the session query that nothing asked for
  MaxMishaps  \* bound: failures and expiries

VARIABLES
  password,   \* users.password_hash: which password
  sessions,   \* table sessions: which of them are active
  workspace,  \* number of fields of the workspace, once it exists
  cookie,     \* the session each browser holds
  call,       \* locals of the call each browser waits for
  gate,       \* SessionGate and its query, in each browser
  calls,      \* number of calls, which numbers passwords too
  fetches,
  mishaps,
  closed,     \* history: sessions that an answered change of password found
  seeded      \* history: a creation was answered with success

vars == <<password, sessions, workspace, cookie, call, gate, calls, fetches, mishaps,
          closed, seeded>>

None == 0
NoWorkspace == -1
Idle == [at |-> "idle"]
NotAsked == [at |-> "idle"]

Active(s) == s # None /\ sessions[s]

\* status and data of the session query; fetch is the request under way, doubtful
\* whether what is shown may differ from what a reload would show.
NewQuery(sid) ==
  [status |-> "pending", data |-> FALSE, listed |-> FALSE, doubtful |-> FALSE,
   fetch |-> [at |-> "asked", sid |-> sid, doubtful |-> FALSE]]
NewGate(sid, out) == [query |-> NewQuery(sid), loggedOut |-> out]

Init ==
  /\ password = 0
  /\ sessions = << >>
  /\ workspace \in {NoWorkspace, Seeds}
  /\ cookie = [b \in Browser |-> None]
  /\ call = [b \in Browser |-> Idle]
  /\ gate = [b \in Browser |-> NewGate(None, FALSE)]
  /\ calls = 0
  /\ fetches = 0
  /\ mishaps = 0
  /\ closed = {}
  /\ seeded = FALSE

-------------------------------------------------------------------------------
\* What the page shows.
Screen(b) ==
  LET q == gate[b].query IN
  IF gate[b].loggedOut \/ q.status = "unauthorized" THEN "login"
  ELSE CASE q.status = "pending" -> "loading"
         [] q.status = "error" -> "retry"
         [] q.status = "success" -> IF q.listed THEN "workspace" ELSE "first workspace"

SetQuery(b, q) == gate' = [gate EXCEPT ![b].query = q]

\* The query q of b, whose answers so far may be outdated.
Doubted(q) ==
  [q EXCEPT !.doubtful = TRUE,
            !.fetch = IF q.fetch.at = "idle" THEN q.fetch ELSE [q.fetch EXCEPT !.doubtful = TRUE]]

\* A fetch that begins: the status of a query that never had data is pending again.
Fetching(q, sid) ==
  [q EXCEPT !.status = IF q.data THEN q.status ELSE "pending",
            !.fetch = [at |-> "asked", sid |-> sid, doubtful |-> FALSE]]

\* invalidateQueries asks anew, in place of a request under way only if there is
\* data: otherwise the first load goes on, and its answer may be outdated.
Invalidated(q, sid) ==
  IF q.fetch.at = "idle" \/ q.data THEN Fetching(q, sid) ELSE Doubted(q)

\* GET /me: SessionAuthGuard, then the workspaces of the user.
AnswerFetch(b) ==
  LET f == gate[b].query.fetch IN
  /\ f.at = "asked"
  /\ gate' = [gate EXCEPT ![b].query.fetch =
       [at |-> "answered", doubtful |-> f.doubtful, listed |-> workspace # NoWorkspace,
        status |-> IF Active(f.sid) THEN "success" ELSE "unauthorized"]]
  /\ UNCHANGED <<password, sessions, workspace, cookie, call, calls, fetches, mishaps,
                 closed, seeded>>

ShowFetched(b) ==
  LET f == gate[b].query.fetch IN
  /\ f.at = "answered"
  /\ SetQuery(b, [gate[b].query EXCEPT
                    !.fetch = NotAsked, !.doubtful = f.doubtful, !.status = f.status,
                    !.data = @ \/ f.status = "success",
                    !.listed = IF f.status = "success" THEN f.listed ELSE @])
  /\ UNCHANGED <<password, sessions, workspace, cookie, call, calls, fetches, mishaps,
                 closed, seeded>>

\* retry is false: a request that fails is an error at once.
FailFetch(b) ==
  /\ gate[b].query.fetch.at # "idle"
  /\ mishaps < MaxMishaps
  /\ SetQuery(b, [gate[b].query EXCEPT !.fetch = NotAsked, !.status = "error",
                                       !.doubtful = TRUE])
  /\ mishaps' = mishaps + 1
  /\ UNCHANGED <<password, sessions, workspace, cookie, call, calls, fetches, closed, seeded>>

\* The window gets the focus, or the user tries again.
Refetch(b) ==
  /\ gate[b].query.fetch.at = "idle"
  /\ fetches < MaxFetches
  /\ SetQuery(b, Fetching(gate[b].query, cookie[b]))
  /\ fetches' = fetches + 1
  /\ UNCHANGED <<password, sessions, workspace, cookie, call, calls, mishaps, closed, seeded>>

-------------------------------------------------------------------------------
\* The buttons, each disabled while its own call is pending; refresh has none, but
\* is an operation of the API.
Kinds(b) ==
  CASE Screen(b) = "login" -> {"login"}
    [] Screen(b) = "first workspace" -> {"create workspace", "refresh"}
    [] Screen(b) = "workspace" -> {"change password", "logout", "refresh"}
    [] OTHER -> {}

FirstStep(kind) ==
  CASE kind = "login" -> "find user"
    [] kind = "logout" -> "revoke"
    [] OTHER -> "guard"

Start(b) ==
  /\ call[b] = Idle
  /\ calls < MaxCalls
  /\ \E kind \in Kinds(b) :
       call' = [call EXCEPT ![b] = [kind |-> kind, at |-> FirstStep(kind), sid |-> cookie[b],
                                    typed |-> password, new |-> calls + 1,
                                    found |-> DOMAIN sessions]]
  /\ calls' = calls + 1
  /\ UNCHANGED <<password, sessions, workspace, cookie, gate, fetches, mishaps, closed, seeded>>

Go(b, step) == call' = [call EXCEPT ![b].at = step]
UnchangedButCall ==
  UNCHANGED <<password, sessions, workspace, cookie, gate, calls, fetches, mishaps, closed, seeded>>

\* A refused call; the page tells, and changes nothing.
Refuse(b) == call' = [call EXCEPT ![b] = Idle]

\* SessionAuthGuard and, for refresh, getActiveSession.
Guard(b) ==
  /\ call[b].at = "guard"
  /\ IF ~Active(call[b].sid) THEN Refuse(b)
     ELSE CASE call[b].kind = "change password" -> Go(b, "find user")
            [] call[b].kind = "refresh" -> Go(b, "revoke")
            [] call[b].kind = "create workspace" -> Go(b, "insert workspace")
  /\ UnchangedButCall

\* The row is read and the password verified.
FindUser(b) ==
  /\ call[b].at = "find user"
  /\ IF call[b].typed # password THEN Refuse(b)
     ELSE Go(b, IF call[b].kind = "login" THEN "create session" ELSE "update password")
  /\ UnchangedButCall

UpdatePassword(b) ==
  /\ call[b].at = "update password"
  /\ password' = call[b].new
  /\ Go(b, "revoke all")
  /\ UNCHANGED <<sessions, workspace, cookie, gate, calls, fetches, mishaps, closed, seeded>>

\* The other browsers that lose their session by it do not know.
SessionsEnd(others, ended) ==
  /\ sessions' = [s \in DOMAIN sessions |-> sessions[s] /\ s \notin ended]
  /\ gate' = [c \in Browser |->
       IF c \in others /\ Active(cookie[c]) /\ cookie[c] \in ended
       THEN [gate[c] EXCEPT !.query = Doubted(@)] ELSE gate[c]]

RevokeAll(b) ==
  /\ call[b].at = "revoke all"
  /\ SessionsEnd(Browser \ {b}, DOMAIN sessions)
  /\ Go(b, "create session")
  /\ UNCHANGED <<password, workspace, cookie, calls, fetches, mishaps, closed, seeded>>

Revoke(b) ==
  /\ call[b].at = "revoke"
  /\ SessionsEnd(Browser \ {b}, {call[b].sid})
  /\ Go(b, IF call[b].kind = "logout" THEN "answer" ELSE "create session")
  /\ UNCHANGED <<password, workspace, cookie, calls, fetches, mishaps, closed, seeded>>

CreateSession(b) ==
  /\ call[b].at = "create session"
  /\ sessions' = Append(sessions, TRUE)
  /\ call' = [call EXCEPT ![b].at = "answer", ![b].sid = Len(sessions) + 1]
  /\ UNCHANGED <<password, workspace, cookie, gate, calls, fetches, mishaps, closed, seeded>>

\* createWorkspace: the workspace and its membership in one transaction, refused
\* when the slug is taken.
InsertWorkspace(b) ==
  /\ call[b].at = "insert workspace"
  /\ IF workspace = NoWorkspace
     THEN /\ workspace' = 0
          /\ Go(b, "seed")
          /\ gate' = [c \in Browser |->
               IF c # b THEN [gate[c] EXCEPT !.query = Doubted(@)] ELSE gate[c]]
     ELSE Refuse(b) /\ UNCHANGED <<workspace, gate>>
  /\ UNCHANGED <<password, sessions, cookie, calls, fetches, mishaps, closed, seeded>>

\* Then a field after the other, each an append of its own.
SeedField(b) ==
  /\ call[b].at = "seed"
  /\ workspace' = workspace + 1
  /\ Go(b, IF workspace' = Seeds THEN "answer" ELSE "seed")
  /\ UNCHANGED <<password, sessions, cookie, gate, calls, fetches, mishaps, closed, seeded>>

\* A call fails, its last step taken or not; a cookie that was not sent back leaves
\* the browser with a session that may have ended.
Fail(b) ==
  /\ call[b] # Idle
  /\ mishaps < MaxMishaps
  /\ Refuse(b)
  /\ SetQuery(b, Doubted(gate[b].query))
  /\ mishaps' = mishaps + 1
  /\ UNCHANGED <<password, sessions, workspace, cookie, calls, fetches, closed, seeded>>

-------------------------------------------------------------------------------
\* The answer arrives with its cookie, and the page goes on.
Answered(b) ==
  /\ call[b].at = "answer"
  /\ call' = [call EXCEPT ![b] = Idle]

AnswerLogin(b) ==
  /\ Answered(b)
  /\ call[b].kind = "login"
  /\ cookie' = [cookie EXCEPT ![b] = call[b].sid]
  /\ gate' = [gate EXCEPT ![b] =
       [loggedOut |-> FALSE, query |-> Invalidated(gate[b].query, call[b].sid)]]
  /\ UNCHANGED <<password, sessions, workspace, calls, fetches, mishaps, closed, seeded>>

\* The cache is emptied, so that the query is loaded anew.
AnswerLogout(b) ==
  /\ Answered(b)
  /\ call[b].kind = "logout"
  /\ cookie' = [cookie EXCEPT ![b] = None]
  /\ gate' = [gate EXCEPT ![b] = NewGate(None, TRUE)]
  /\ UNCHANGED <<password, sessions, workspace, calls, fetches, mishaps, closed, seeded>>

\* The page does not reload the session: it was, and is, that of the same user.  A
\* reload under way, or shown meanwhile, is about the session that was replaced.
AnswerChange(b) ==
  /\ Answered(b)
  /\ call[b].kind \in {"change password", "refresh"}
  /\ cookie' = [cookie EXCEPT ![b] = call[b].sid]
  /\ closed' = IF call[b].kind = "refresh" THEN closed ELSE closed \union call[b].found
  /\ LET q == gate[b].query IN
     SetQuery(b, [Doubted(q) EXCEPT !.doubtful =
                    q.doubtful \/ q.status = "unauthorized" \/ ~sessions[call[b].sid]])
  /\ UNCHANGED <<password, sessions, workspace, calls, fetches, mishaps, seeded>>

AnswerWorkspace(b) ==
  /\ Answered(b)
  /\ call[b].kind = "create workspace"
  /\ SetQuery(b, Invalidated(gate[b].query, cookie[b]))
  /\ seeded' = TRUE
  /\ UNCHANGED <<password, sessions, workspace, cookie, calls, fetches, mishaps, closed>>

Answer(b) == AnswerLogin(b) \/ AnswerLogout(b) \/ AnswerChange(b) \/ AnswerWorkspace(b)

\* A session is a week old.
Expire(s) ==
  /\ s \in DOMAIN sessions
  /\ sessions[s]
  /\ mishaps < MaxMishaps
  /\ SessionsEnd(Browser, {s})
  /\ mishaps' = mishaps + 1
  /\ UNCHANGED <<password, workspace, cookie, call, calls, fetches, closed, seeded>>

Next ==
  \/ \E b \in Browser :
       \/ AnswerFetch(b) \/ ShowFetched(b) \/ FailFetch(b) \/ Refetch(b)
       \/ Start(b) \/ Guard(b) \/ FindUser(b) \/ UpdatePassword(b) \/ RevokeAll(b) \/ Revoke(b)
       \/ CreateSession(b) \/ InsertWorkspace(b) \/ SeedField(b) \/ Fail(b) \/ Answer(b)
  \/ \E s \in 1..MaxCalls : Expire(s)

Spec == Init /\ [][Next]_vars

-------------------------------------------------------------------------------
TypeOK ==
  /\ password \in 0..MaxCalls
  /\ sessions \in Seq(BOOLEAN)
  /\ workspace \in -1..Seeds
  /\ \A b \in Browser : cookie[b] \in {None} \union DOMAIN sessions
  /\ calls \in 0..MaxCalls /\ fetches \in 0..MaxFetches /\ mishaps \in 0..MaxMishaps
  /\ closed \subseteq DOMAIN sessions

\* A password that was changed with success leaves none of the sessions it found,
\* as the page tells the user.
FoundSessionsEnded == \A s \in closed : ~sessions[s]

\* When a browser waits for nothing, its page is that of the account: but for what
\* happened elsewhere since it last asked, for a login answered before the first
\* load was, and for a session replaced during a reload.
PageIsTrue ==
  \A b \in Browser :
    call[b] = Idle /\ gate[b].query.fetch.at = "idle" /\ ~gate[b].query.doubtful =>
      Screen(b) = IF ~Active(cookie[b]) THEN "login"
                  ELSE IF workspace = NoWorkspace THEN "first workspace"
                  ELSE "workspace"

\* A workspace whose creation was answered has all of its fields, and one that has
\* not is being created or met a failure.
SeededUnlessFailed ==
  workspace \in 0..(Seeds - 1) =>
    ~seeded /\ (mishaps > 0 \/ \E b \in Browser : call[b].at = "seed")
=============================================================================
