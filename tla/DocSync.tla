-------------------------------- MODULE DocSync --------------------------------
(***************************************************************************)
(* How the copies of one document come to agree: DocGatewayProvider in the *)
(* browser (apps/web/src/lib), which keeps a Y.Doc of its own and opens a  *)
(* new websocket whenever one closes, and the relay of DocCollabGateway,   *)
(* whose room is here one copy that can be loaded again; DocRoom is about  *)
(* how it is saved.                                                        *)
(*                                                                         *)
(* A copy is the set of edits it has taken in, for Y.Doc merges them in    *)
(* any order and more than once; a state vector says which they are.       *)
(* Presence (awareness) is left out.                                       *)
(***************************************************************************)
EXTENDS Sequences, Naturals

CONSTANTS
  Client,      \* open editors, each with a provider
  Edit,
  MaxMishaps   \* bound: connections lost and restarts of the server

VARIABLES
  ws,       \* the provider's socket: "closed" (the reconnect timer runs),
            \* "connecting", "open", or "destroyed"
  conn,     \* the gateway's side: "none", "loading" the room, or "joined"
  text,     \* the Y.Doc of each editor
  room,     \* the Y.Doc of the room
  saved,    \* the content a new room would be loaded with
  up, down, \* messages of each socket, in order
  mishaps

vars == <<ws, conn, text, room, saved, up, down, mishaps>>

Step1(content) == [kind |-> "step1", edits |-> content]
Missing(content, other) == [kind |-> "step2", edits |-> content \ other]
Update(edits) == [kind |-> "update", edits |-> edits]

Message == [kind : {"step1", "step2", "update"}, edits : SUBSET Edit]

Init ==
  /\ ws = [c \in Client |-> "connecting"]
  /\ conn = [c \in Client |-> "none"]
  /\ text = [c \in Client |-> {}]
  /\ room = {}
  /\ saved = {}
  /\ up = [c \in Client |-> <<>>]
  /\ down = [c \in Client |-> <<>>]
  /\ mishaps = 0

\* What is sent on a socket that is not open is dropped, on either side.
Sent(c, m) == IF ws[c] = "open" THEN Append(up[c], m) ELSE up[c]
Pushed(c, queue, m) == IF ws[c] = "open" THEN Append(queue, m) ELSE queue

-------------------------------------------------------------------------------
\* The socket opens: the editor asks for what it lacks, and the gateway begins to
\* look up the room.
Open(c) ==
  /\ ws[c] = "connecting"
  /\ ws' = [ws EXCEPT ![c] = "open"]
  /\ conn' = [conn EXCEPT ![c] = "loading"]
  /\ up' = [up EXCEPT ![c] = <<Step1(text[c])>>]
  /\ UNCHANGED <<text, room, saved, down, mishaps>>

\* The user types.
Type(c, e) ==
  /\ ws[c] # "destroyed"
  /\ e \notin room \union saved /\ \A d \in Client : e \notin text[d]
  /\ text' = [text EXCEPT ![c] = @ \union {e}]
  /\ up' = [up EXCEPT ![c] = Sent(c, Update({e}))]
  /\ UNCHANGED <<ws, conn, room, saved, down, mishaps>>

\* The room is there: the socket is added to it before the gateway asks for what
\* it lacks.  Messages that came earlier wait in up, as they do in pending.
Join(c) ==
  /\ conn[c] = "loading"
  /\ conn' = [conn EXCEPT ![c] = "joined"]
  /\ down' = [down EXCEPT ![c] = Pushed(c, @, Step1(room))]
  /\ UNCHANGED <<ws, text, room, saved, up, mishaps>>

\* The socket has closed by the time the room is there: what waited is dropped.
JoinTooLate(c) ==
  /\ conn[c] = "loading" /\ ws[c] = "destroyed"
  /\ conn' = [conn EXCEPT ![c] = "none"]
  /\ up' = [up EXCEPT ![c] = <<>>]
  /\ UNCHANGED <<ws, text, room, saved, down, mishaps>>

\* The room's updateHandler: what is new in it goes to every other connection.
Relayed(c, new) ==
  [d \in Client |-> IF d # c /\ conn[d] = "joined" /\ new # {}
                      THEN Pushed(d, down[d], Update(new)) ELSE down[d]]

\* onMessage of the gateway.
Receive(c) ==
  /\ conn[c] = "joined" /\ up[c] # <<>>
  /\ up' = [up EXCEPT ![c] = Tail(@)]
  /\ LET m == Head(up[c]) IN
       \/ /\ m.kind = "step1"
          /\ down' = [down EXCEPT ![c] = Pushed(c, @, Missing(room, m.edits))]
          /\ UNCHANGED room
       \/ /\ m.kind # "step1"
          /\ room' = room \union m.edits
          /\ down' = Relayed(c, m.edits \ room)
  /\ UNCHANGED <<ws, conn, text, saved, mishaps>>

\* onmessage of the provider.  What it takes in it does not send again.
Deliver(c) ==
  /\ ws[c] = "open" /\ down[c] # <<>>
  /\ down' = [down EXCEPT ![c] = Tail(@)]
  /\ LET m == Head(down[c]) IN
       \/ /\ m.kind = "step1"
          /\ up' = [up EXCEPT ![c] = Append(@, Missing(text[c], m.edits))]
          /\ UNCHANGED text
       \/ /\ m.kind # "step1"
          /\ text' = [text EXCEPT ![c] = @ \union m.edits]
          /\ UNCHANGED up
  /\ UNCHANGED <<ws, conn, room, saved, mishaps>>

\* The reconnect timer fires.
Reconnect(c) ==
  /\ ws[c] = "closed"
  /\ ws' = [ws EXCEPT ![c] = "connecting"]
  /\ UNCHANGED <<conn, text, room, saved, up, down, mishaps>>

\* The editor is closed: what it has sent is still on its way.
Destroy(c) ==
  /\ ws[c] # "destroyed"
  /\ ws' = [ws EXCEPT ![c] = "destroyed"]
  /\ down' = [down EXCEPT ![c] = <<>>]
  /\ UNCHANGED <<conn, text, room, saved, up, mishaps>>

\* onClose of the gateway, after the last message.
Close(c) ==
  /\ ws[c] = "destroyed" /\ conn[c] = "joined" /\ up[c] = <<>>
  /\ conn' = [conn EXCEPT ![c] = "none"]
  /\ UNCHANGED <<ws, text, room, saved, up, down, mishaps>>

\* A socket after its connection is lost.
Lost(c) == IF ws[c] = "destroyed" THEN "destroyed" ELSE "closed"

\* A connection is lost with all that is on it.
Disconnect(c) ==
  /\ ws[c] = "connecting" \/ conn[c] # "none"
  /\ mishaps < MaxMishaps
  /\ ws' = [ws EXCEPT ![c] = Lost(c)]
  /\ conn' = [conn EXCEPT ![c] = "none"]
  /\ up' = [up EXCEPT ![c] = <<>>]
  /\ down' = [down EXCEPT ![c] = <<>>]
  /\ mishaps' = mishaps + 1
  /\ UNCHANGED <<text, room, saved>>

\* A snapshot of the room is projected.
Save ==
  /\ saved' = room
  /\ UNCHANGED <<ws, conn, text, room, up, down, mishaps>>

\* The server ends and starts again, for one thing when a room cannot be loaded:
\* nobody catches that rejection.
Restart ==
  /\ mishaps < MaxMishaps
  /\ room' = saved
  /\ ws' = [c \in Client |-> Lost(c)]
  /\ conn' = [c \in Client |-> "none"]
  /\ up' = [c \in Client |-> <<>>]
  /\ down' = [c \in Client |-> <<>>]
  /\ mishaps' = mishaps + 1
  /\ UNCHANGED <<text, saved>>

\* What the timer, the sockets and the two event loops will do.
Progress(c) ==
  Open(c) \/ Join(c) \/ JoinTooLate(c) \/ Receive(c) \/ Deliver(c) \/ Reconnect(c) \/ Close(c)

Next ==
  \/ \E c \in Client :
       \/ Progress(c) \/ Destroy(c) \/ Disconnect(c)
       \/ \E e \in Edit : Type(c, e)
  \/ Save
  \/ Restart

Spec == Init /\ [][Next]_vars /\ \A c \in Client : WF_vars(Progress(c))

-------------------------------------------------------------------------------
TypeOK ==
  /\ ws \in [Client -> {"closed", "connecting", "open", "destroyed"}]
  /\ conn \in [Client -> {"none", "loading", "joined"}]
  /\ text \in [Client -> SUBSET Edit]
  /\ room \subseteq Edit /\ saved \subseteq Edit
  /\ up \in [Client -> Seq(Message)] /\ down \in [Client -> Seq(Message)]
  /\ mishaps \in 0..MaxMishaps

\* Wherever an editor has joined and nothing is on the wire, it shows exactly what
\* the room holds: joining first and asking both ways afterwards leaves no update
\* that neither the relay nor the two answers carry (onConnection 537-556).
InSync ==
  \A c \in Client :
    ws[c] = "open" /\ conn[c] = "joined" /\ up[c] = <<>> /\ down[c] = <<>>
      => text[c] = room

\* An edit on its way to the room is never on it without the ones its author
\* already had there: what the room lacks of a joined editor is on the wire, or
\* is still to be asked for.
NothingForgotten ==
  \A c \in Client : ws[c] = "open" /\ conn[c] = "joined" =>
    \A e \in text[c] \ room :
      \/ \E i \in 1..Len(up[c]) : e \in up[c][i].edits /\ up[c][i].kind # "step1"
      \/ \E i \in 1..Len(down[c]) : down[c][i].kind = "step1" /\ e \notin down[c][i].edits

\* Once connections last, every editor that stays open shows what the room holds,
\* with all it was ever given: also edits made while there was no connection, and
\* those a restart of the server took from the room before they were saved.
CopiesAgree ==
  <>[](\A c \in Client : ws[c] # "destroyed" => ws[c] = "open" /\ text[c] = room)
===============================================================================
