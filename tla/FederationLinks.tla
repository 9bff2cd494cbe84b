---------------------------- MODULE FederationLinks ---------------------------
(***************************************************************************)
(* Federation of two workspaces: initiate, accept and revoke of federation/*)
(* federation-links.service.ts, the transitions of federation-link-        *)
(* state.ts, the index of db/schema/federation-links.ts, and the objects   *)
(* shared over a link, federation-scope.service.ts.                        *)
(*                                                                         *)
(* The rows are the truth here, not events.  Each operation reads the link *)
(* and checks the transition; the update that follows names the link by    *)
(* its id alone.  A link's id is its index in the table.                   *)
(***************************************************************************)
EXTENDS Integers, FiniteSets, Sequences

CONSTANTS
  Workspace,
  User,       \* administrators, of any workspace
  Caller,     \* concurrent requests
  MaxLinks    \* bound: rows of the table

VARIABLES
  links,      \* the table federation_links
  request,    \* locals of each request
  overtaken   \* history: links revoked while an acceptance was between check and update

vars == <<links, request, overtaken>>

Idle == [at |-> "idle"]
Status == {"pending", "active", "revoked"}

Init ==
  /\ links = << >>
  /\ request = [c \in Caller |-> Idle]
  /\ overtaken = {}

-------------------------------------------------------------------------------
\* computePairKey.
PairKey(v, w) == {v, w}

\* Faulty variant of CanTransition: only what is active already is refused.
CanTransitionBack(from, to) == from # to

\* canTransition.
CanTransition(from, to) ==
  \/ from = "pending" /\ to = "active"
  \/ from \in {"pending", "active"} /\ to = "revoked"

\* The partial unique index: what an insert runs into.
LivePair(key) ==
  \E l \in DOMAIN links :
    links[l].status # "revoked" /\ PairKey(links[l].initiator, links[l].counterpart) = key

Go(c, q) == request' = [request EXCEPT ![c] = q]

CheckPair(c) ==
  /\ request[c].at = "idle"
  /\ \E v, w \in Workspace, u \in User :
       /\ v # w
       /\ ~LivePair(PairKey(v, w))
       /\ Go(c, [at |-> "insert", initiator |-> v, counterpart |-> w, user |-> u])
  /\ UNCHANGED <<links, overtaken>>

\* A violation of the index is the ConflictError of the check.
Insert(c) ==
  LET q == request[c] IN
  /\ q.at = "insert"
  /\ IF LivePair(PairKey(q.initiator, q.counterpart))
       THEN UNCHANGED links
       ELSE /\ Len(links) < MaxLinks
            /\ links' = Append(links, [initiator |-> q.initiator, counterpart |-> q.counterpart,
                                       initiatedBy |-> q.user, acceptedBy |-> {},
                                       status |-> "pending"])
  /\ Go(c, Idle)
  /\ UNCHANGED overtaken

\* getOrThrow, the rule that another than the initiator accepts, assertTransition.
CheckAccept(c) ==
  /\ request[c].at = "idle"
  /\ \E l \in DOMAIN links, u \in User :
       /\ u # links[l].initiatedBy
       /\ CanTransition(links[l].status, "active")
       /\ Go(c, [at |-> "accept", link |-> l, user |-> u])
  /\ UNCHANGED <<links, overtaken>>

\* The update fails where it would give a pair a second live link.
UpdateAccept(c) ==
  LET l == request[c].link IN
  /\ request[c].at = "accept"
  /\ links' = IF /\ links[l].status = "revoked"
                 /\ LivePair(PairKey(links[l].initiator, links[l].counterpart))
                THEN links
                ELSE [links EXCEPT ![l].status = "active", ![l].acceptedBy = {request[c].user}]
  /\ Go(c, Idle)
  /\ UNCHANGED overtaken

CheckRevoke(c) ==
  /\ request[c].at = "idle"
  /\ \E l \in DOMAIN links :
       /\ CanTransition(links[l].status, "revoked")
       /\ Go(c, [at |-> "revoke", link |-> l])
  /\ UNCHANGED <<links, overtaken>>

UpdateRevoke(c) ==
  /\ request[c].at = "revoke"
  /\ links' = [links EXCEPT ![request[c].link].status = "revoked"]
  /\ overtaken' = IF \E d \in Caller : /\ request[d].at = "accept"
                                       /\ request[d].link = request[c].link
                    THEN overtaken \union {request[c].link} ELSE overtaken
  /\ Go(c, Idle)

Next ==
  \E c \in Caller :
    \/ CheckPair(c) \/ Insert(c)
    \/ CheckAccept(c) \/ UpdateAccept(c)
    \/ CheckRevoke(c) \/ UpdateRevoke(c)

Spec == Init /\ [][Next]_vars

-------------------------------------------------------------------------------
TypeOK ==
  /\ Len(links) <= MaxLinks
  /\ \A l \in DOMAIN links : links[l].status \in Status
  /\ overtaken \subseteq DOMAIN links

\* Two workspaces have one link that is not revoked, however initiations and
\* acceptances race.
OneLivePair ==
  \A k, l \in DOMAIN links :
    (/\ links[k].status # "revoked"
     /\ links[l].status # "revoked"
     /\ {links[k].initiator, links[k].counterpart} = {links[l].initiator, links[l].counterpart})
      => k = l

UnrevokedWhenOvertaken ==
  \A l \in DOMAIN links :
    links[l].status = "revoked" /\ links'[l].status # "revoked" => l \in overtaken'

\* A revoked link stays revoked, unless an acceptance that was checked before
\* the revocation is carried out after it.
RevokedUnlessOvertaken == [][UnrevokedWhenOvertaken]_vars

\* The schema's comment: pending -> active -> revoked, terminal.
RevokedStaysRevoked ==
  [][\A l \in DOMAIN links :
       links[l].status = "revoked" => links'[l].status = "revoked"]_links
===============================================================================
