------------------------------ MODULE SearchIndex ------------------------------
(***************************************************************************)
(* The search row of one object: search/search-index.projection.ts, with   *)
(* the embedding that search/search-index-embedding-scheduler.service.ts   *)
(* has refreshed after a quiet time.  Every write of the object, by        *)
(* objects/objects.service.ts or by a snapshot of docs/                    *)
(* doc-collab.gateway.ts, catches the projection up and sets the timer     *)
(* anew.  A text is the number of events it was made of.                   *)
(***************************************************************************)
EXTENDS Integers, FiniteSets

CONSTANTS
  Caller,      \* concurrent writes
  Refresh,     \* refreshes that may overlap
  MaxEvents,   \* bound: titles and snapshots
  MaxMishaps   \* bound: calls that fail, processes that die

VARIABLES
  log,         \* how many titles and snapshots the object has had
  shown,       \* how many of them the row shows
  embedding,   \* the text that the row's embedding was made of
  timer,       \* a refresh is scheduled
  request,     \* locals of each write
  refresh,     \* locals of each refresh
  mishaps,     \* what is bounded
  overlapped,  \* history: the last refresh to begin did so while another was under way
  lost         \* history: something failed since the last catch-up

vars == <<log, shown, embedding, timer, request, refresh, mishaps, overlapped, lost>>

Init ==
  /\ log = 1 /\ shown = 1 /\ embedding = 0
  /\ timer = TRUE
  /\ request = [c \in Caller |-> "idle"]
  /\ refresh = [x \in Refresh |-> [at |-> "idle", text |-> 0]]
  /\ mishaps = 0 /\ overlapped = FALSE /\ lost = FALSE

-------------------------------------------------------------------------------
Go(c, at) == request' = [request EXCEPT ![c] = at]
GoRefresh(x, at, text) == refresh' = [refresh EXCEPT ![x] = [at |-> at, text |-> text]]
GoesWrong == mishaps < MaxMishaps /\ mishaps' = mishaps + 1

\* An append to the object's stream: a title, a snapshot, or another event.
AppendEvent(c) ==
  /\ request[c] = "idle"
  /\ \/ log < MaxEvents /\ log' = log + 1
     \/ UNCHANGED log
  /\ Go(c, "catch up")
  /\ UNCHANGED <<shown, embedding, timer, refresh, mishaps, overlapped, lost>>

\* The projection catches up, and schedule replaces the timer.
CatchUp(c) ==
  /\ request[c] = "catch up"
  /\ shown' = log
  /\ timer' = TRUE
  /\ lost' = FALSE
  /\ Go(c, "idle")
  /\ UNCHANGED <<log, embedding, refresh, mishaps, overlapped>>

\* The timer fires, and refreshEmbedding reads the row.
ReadText(x) ==
  /\ timer
  /\ timer' = FALSE
  /\ refresh[x].at = "idle"
  /\ GoRefresh(x, "embed", shown)
  /\ overlapped' = (\E y \in Refresh : refresh[y].at = "embed")
  /\ UNCHANGED <<log, shown, embedding, request, mishaps, lost>>

\* The provider answers, and the row is updated whatever it shows by now.
StoreEmbedding(x) ==
  /\ refresh[x].at = "embed"
  /\ embedding' = refresh[x].text
  /\ GoRefresh(x, "idle", 0)
  /\ UNCHANGED <<log, shown, timer, request, mishaps, overlapped, lost>>

\* A catch-up or a call of the provider fails; or the process ends, with every
\* timer, request and refresh.
Fail ==
  /\ GoesWrong
  /\ lost' = TRUE
  /\ \/ \E c \in Caller : request[c] # "idle" /\ Go(c, "idle") /\ UNCHANGED <<timer, refresh>>
     \/ \E x \in Refresh :
          refresh[x].at # "idle" /\ GoRefresh(x, "idle", 0) /\ UNCHANGED <<timer, request>>
     \/ /\ timer' = FALSE
        /\ request' = [c \in Caller |-> "idle"]
        /\ refresh' = [x \in Refresh |-> [at |-> "idle", text |-> 0]]
  /\ UNCHANGED <<log, shown, embedding, overlapped>>

Next ==
  \/ \E c \in Caller : AppendEvent(c) \/ CatchUp(c)
  \/ \E x \in Refresh : ReadText(x) \/ StoreEmbedding(x)
  \/ Fail

Spec == Init /\ [][Next]_vars

-------------------------------------------------------------------------------
TypeOK ==
  /\ log \in 1..MaxEvents /\ shown \in 1..log /\ embedding \in 0..shown
  /\ request \in [Caller -> {"idle", "catch up"}]
  /\ refresh \in [Refresh -> [at : {"idle", "embed"}, text : 0..MaxEvents]]

Quiet == ~timer /\ (\A c \in Caller : request[c] = "idle") /\ \A x \in Refresh : refresh[x].at = "idle"

\* When all is quiet the embedding is that of the object's text, unless the last
\* refresh overlapped with one whose answer came later, or something failed
\* since the last write.
EmbeddingFollows == Quiet /\ ~overlapped /\ ~lost => shown = log /\ embedding = log
===============================================================================
