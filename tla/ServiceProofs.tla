----------------------------- MODULE ServiceProofs -----------------------------
(***************************************************************************)
(* Theorems about the links between workspaces (FederationLinks), a read   *)
(* that another workspace is answered (FederatedContext), the request      *)
(* budget of its credential (TokenBucket), the quota of a workspace for    *)
(* language models (AIQuota), the notifications of a member                *)
(* (NotificationBudget) and the suggested triggers (TriggerSuggestions),   *)
(* for every set of workspaces, users, objects, templates and concurrent   *)
(* requests.                                                               *)
(*                                                                         *)
(* A link is one row that several requests have checked: the invariants    *)
(* say what a request still knows of it.  A reader is followed check by    *)
(* check, and whatever it has passed was so at some time since it began.   *)
(* For a budget they compare what was spent with what a check can see:     *)
(* what the row still holds, what is recorded, and what calls on their     *)
(* way or failures keep from it.  A suggestion's row may lag, but a        *)
(* decision is appended only where there is none.                          *)
(***************************************************************************)
EXTENDS FederatedContext, FiniteSetTheorems, TLAPS

-------------------------------------------------------------------------------
\* The links.

Link == [initiator : Workspace, counterpart : Workspace, initiatedBy : User,
         acceptedBy : SUBSET User, status : Status]

Request == [at : {"idle"}]
             \union [at : {"insert"}, initiator : Workspace, counterpart : Workspace, user : User]
             \union [at : {"accept"}, link : Nat, user : User]
             \union [at : {"revoke"}, link : Nat]

Live(l) == links[l].status # "revoked"
Pair(l) == {links[l].initiator, links[l].counterpart}

LinksTyped ==
  /\ links \in Seq(Link)
  /\ request \in [Caller -> Request]
  /\ overtaken \subseteq DOMAIN links

\* A request names a link there is; one that is to be accepted was pending, and
\* has been overtaken if it is revoked by now.
LinksChecked ==
  \A c \in Caller :
    /\ request[c].at \in {"accept", "revoke"} => request[c].link \in DOMAIN links
    /\ request[c].at = "accept" => Live(request[c].link) \/ request[c].link \in overtaken

LInv == LinksTyped /\ LinksChecked /\ OneLivePair

-------------------------------------------------------------------------------
\* The reads.

ReadState == [at : {"idle"}]
             \union [at : {"link", "scope", "audit"}, object : Object,
                     scoped : SUBSET Object, revoked : BOOLEAN]
             \union [at : {"append", "filter"}, object : Object,
                     scoped : SUBSET Object, revoked : BOOLEAN, version : Nat]

ReadsTyped ==
  /\ scope \subseteq Object /\ audit \in Seq(Object)
  /\ read \in [Reader -> ReadState]
  /\ answers \subseteq [event : Nat \ {0}, object : Object, shown : SUBSET Object,
                        scoped : SUBSET Object, revoked : BOOLEAN]

\* A read that goes on has an event of its own, as an answer has.
Recorded ==
  /\ \A r \in Reader : read[r].at = "append" => read[r].version <= Len(audit)
  /\ \A r \in Reader : read[r].at = "filter" =>
       /\ read[r].version + 1 <= Len(audit)
       /\ audit[read[r].version + 1] = read[r].object
       /\ \A a \in answers : a.event # read[r].version + 1
       /\ \A s \in Reader : read[s].at = "filter" /\ read[s].version = read[r].version => r = s

\* What a read may still show.
MayShow ==
  \A r \in Reader : read[r].at # "idle" =>
    /\ scope \subseteq read[r].scoped
    /\ read[r].at \in {"audit", "append", "filter"} => read[r].object \in read[r].scoped

\* A read that found its link revoked does not get past the check of the link.
Stopped ==
  overtaken = {} =>
    \A r \in Reader :
      read[r].at # "idle" /\ read[r].revoked => read[r].at = "link" /\ LinkIs("revoked")

RInv == /\ ReadsTyped /\ Recorded /\ MayShow /\ Stopped
        /\ AnswersAudited /\ ShownWasInScope /\ RevokedLinkAnswersNothing

IInv == LInv /\ RInv

-------------------------------------------------------------------------------
\* The links: a step of initiate, accept or revoke.

LEMMA RequestIs ==
  ASSUME NEW q \in Request
  PROVE  /\ q.at = "insert" => /\ q.initiator \in Workspace /\ q.counterpart \in Workspace
                               /\ q.user \in User
         /\ q.at = "accept" => q.link \in Nat /\ q.user \in User
         /\ q.at = "revoke" => q.link \in Nat
  BY DEF Request

LEMMA Requests ==
  /\ Idle \in Request /\ Idle.at = "idle"
  /\ \A v, w \in Workspace, u \in User :
       [at |-> "insert", initiator |-> v, counterpart |-> w, user |-> u] \in Request
  /\ \A l \in Nat, u \in User : [at |-> "accept", link |-> l, user |-> u] \in Request
  /\ \A l \in Nat : [at |-> "revoke", link |-> l] \in Request
<1>1. Idle \in [at : {"idle"}] /\ Idle.at = "idle"
  BY DEF Idle
<1>2. ASSUME NEW v \in Workspace, NEW w \in Workspace, NEW u \in User
      PROVE  [at |-> "insert", initiator |-> v, counterpart |-> w, user |-> u]
               \in [at : {"insert"}, initiator : Workspace, counterpart : Workspace, user : User]
  OBVIOUS
<1>3. ASSUME NEW l \in Nat, NEW u \in User
      PROVE  [at |-> "accept", link |-> l, user |-> u] \in [at : {"accept"}, link : Nat, user : User]
  OBVIOUS
<1>4. ASSUME NEW l \in Nat PROVE [at |-> "revoke", link |-> l] \in [at : {"revoke"}, link : Nat]
  OBVIOUS
<1> QED
  BY <1>1, <1>2, <1>3, <1>4 DEF Request

\* A request moves on: what it needs, and what of the links it leaves.
LEMMA OneRequest ==
  ASSUME LInv, NEW c \in Caller, NEW q \in Request, Go(c, q),
         DOMAIN links \subseteq DOMAIN links', overtaken \subseteq overtaken',
         q.at \in {"accept", "revoke"} => q.link \in DOMAIN links',
         q.at = "accept" => links'[q.link].status # "revoked" \/ q.link \in overtaken',
         \A d \in Caller : request[d].at = "accept" /\ Live(request[d].link) =>
           links'[request[d].link].status # "revoked" \/ request[d].link \in overtaken'
  PROVE  LinksChecked' /\ request' \in [Caller -> Request]
<1>1. /\ request' \in [Caller -> Request] /\ request'[c] = q
      /\ \A d \in Caller : d # c => request'[d] = request[d]
  BY DEF LInv, LinksTyped, Go
<1>2. ASSUME NEW d \in Caller
      PROVE  /\ request'[d].at \in {"accept", "revoke"} => request'[d].link \in DOMAIN links'
             /\ request'[d].at = "accept" =>
                  links'[request'[d].link].status # "revoked" \/ request'[d].link \in overtaken'
  <2>1. CASE d = c
    BY <1>1, <2>1
  <2>2. CASE d # c
    BY <1>1, <2>2 DEF LInv, LinksChecked
  <2> QED
    BY <2>1, <2>2
<1> QED
  BY <1>1, <1>2 DEF LinksChecked, Live

LEMMA LinkTypes ==
  ASSUME LInv, NEW l \in DOMAIN links
  PROVE  /\ l \in Nat /\ l \in 1..Len(links) /\ links[l] \in Link
         /\ links[l].initiator \in Workspace /\ links[l].counterpart \in Workspace
         /\ links[l].initiatedBy \in User /\ links[l].status \in Status
<1>1. links \in Seq(Link)
  BY DEF LInv, LinksTyped
<1>2. l \in Nat /\ l \in 1..Len(links) /\ links[l] \in Link
  BY <1>1
<1> QED
  BY <1>2 DEF Link

\* A request that only reads.
LEMMA ChecksKeep ==
  ASSUME LInv, NEW c \in Caller, CheckPair(c) \/ CheckAccept(c) \/ CheckRevoke(c)
  PROVE  LInv'
<1>1. links' = links /\ overtaken' = overtaken
  BY DEF CheckPair, CheckAccept, CheckRevoke
<1>2. PICK q \in Request :
        /\ Go(c, q)
        /\ q.at \in {"accept", "revoke"} => q.link \in DOMAIN links
        /\ q.at = "accept" => links[q.link].status # "revoked"
  <2>1. CASE CheckPair(c)
    <3>1. PICK v \in Workspace, w \in Workspace, u \in User :
            Go(c, [at |-> "insert", initiator |-> v, counterpart |-> w, user |-> u])
      BY <2>1 DEF CheckPair
    <3> DEFINE q == [at |-> "insert", initiator |-> v, counterpart |-> w, user |-> u]
    <3>2. q \in Request /\ q.at = "insert"
      BY Requests
    <3> HIDE DEF q
    <3> QED
      BY <3>1, <3>2 DEF q
  <2>2. CASE CheckAccept(c)
    <3>1. PICK l \in DOMAIN links, u \in User :
            /\ links[l].status = "pending"
            /\ Go(c, [at |-> "accept", link |-> l, user |-> u])
      BY <2>2 DEF CheckAccept, CanTransition
    <3> DEFINE q == [at |-> "accept", link |-> l, user |-> u]
    <3>2. q \in Request /\ q.at = "accept" /\ q.link = l
      BY LinkTypes, Requests
    <3> HIDE DEF q
    <3> QED
      BY <3>1, <3>2 DEF q
  <2>3. CASE CheckRevoke(c)
    <3>1. PICK l \in DOMAIN links : Go(c, [at |-> "revoke", link |-> l])
      BY <2>3 DEF CheckRevoke
    <3> DEFINE q == [at |-> "revoke", link |-> l]
    <3>2. q \in Request /\ q.at = "revoke" /\ q.link = l
      BY LinkTypes, Requests
    <3> HIDE DEF q
    <3> QED
      BY <3>1, <3>2 DEF q
  <2> QED
    BY <2>1, <2>2, <2>3
<1>3. LinksChecked' /\ request' \in [Caller -> Request]
  BY <1>1, <1>2, OneRequest DEF Live
<1> QED
  BY <1>1, <1>3 DEF LInv, LinksTyped, OneLivePair

LEMMA InsertKeeps ==
  ASSUME LInv, NEW c \in Caller, Insert(c)
  PROVE  LInv'
<1>1. /\ request[c] \in Request /\ request[c].at = "insert" /\ overtaken' = overtaken /\ Go(c, Idle)
      /\ links \in Seq(Link) /\ Len(links) \in Nat /\ overtaken \subseteq DOMAIN links
  BY DEF LInv, LinksTyped, Insert
<1>2. PICK v \in Workspace, w \in Workspace, u \in User :
        v = request[c].initiator /\ w = request[c].counterpart /\ u = request[c].user
  BY <1>1, RequestIs
<1>3. CASE LivePair(PairKey(v, w))
  <2>1. links' = links
    BY <1>2, <1>3 DEF Insert
  <2>2. LinksChecked' /\ request' \in [Caller -> Request]
    BY <1>1, <2>1, Requests, OneRequest DEF Live
  <2> QED
    BY <1>1, <2>1, <2>2 DEF LInv, LinksTyped, OneLivePair
<1>4. CASE ~LivePair(PairKey(v, w))
  <2> DEFINE n == [initiator |-> v, counterpart |-> w, initiatedBy |-> u,
                   acceptedBy |-> {}, status |-> "pending"]
  <2>1. links' = Append(links, n) /\ Len(links) < MaxLinks
    BY <1>2, <1>4 DEF Insert
  <2>2. n \in Link /\ n.initiator = v /\ n.counterpart = w
    BY DEF Link, Status
  <2> HIDE DEF n
  <2>3. /\ links' \in Seq(Link) /\ Len(links') = Len(links) + 1
        /\ \A l \in DOMAIN links : l \in DOMAIN links' /\ links'[l] = links[l]
        /\ \A l \in DOMAIN links' : l \in DOMAIN links \/ l = Len(links) + 1
        /\ links'[Len(links) + 1] = n
    BY <1>1, <2>1, <2>2
  <2>4. LinksChecked' /\ request' \in [Caller -> Request]
    <3>1. \A d \in Caller : request[d].at = "accept" => request[d].link \in DOMAIN links
      BY DEF LInv, LinksChecked
    <3> QED
      BY <1>1, <2>3, <3>1, Requests, OneRequest DEF Live
  <2>6. OneLivePair'
    <3>1. ASSUME NEW k \in DOMAIN links, links[k].status # "revoked"
          PROVE  {links[k].initiator, links[k].counterpart} # {v, w}
      BY <1>4, <3>1 DEF LivePair, PairKey
    <3>2. ASSUME NEW k \in DOMAIN links', NEW l \in DOMAIN links',
                 links'[k].status # "revoked", links'[l].status # "revoked",
                 {links'[k].initiator, links'[k].counterpart}
                   = {links'[l].initiator, links'[l].counterpart}
          PROVE  k = l
      <4>1. CASE k \in DOMAIN links /\ l \in DOMAIN links
        BY <2>3, <3>2, <4>1 DEF LInv, OneLivePair
      <4>2. CASE k \in DOMAIN links /\ l = Len(links) + 1
        BY <2>2, <2>3, <3>1, <3>2, <4>2
      <4>3. CASE k = Len(links) + 1 /\ l \in DOMAIN links
        BY <2>2, <2>3, <3>1, <3>2, <4>3
      <4> QED
        BY <2>3, <4>1, <4>2, <4>3
    <3> QED
      BY <3>2 DEF OneLivePair
  <2> QED
    BY <1>1, <2>3, <2>4, <2>6 DEF LInv, LinksTyped
<1> QED
  BY <1>3, <1>4

\* An update of the status of one link.
LEMMA UpdateTypes ==
  ASSUME LInv, NEW l \in DOMAIN links, NEW n \in Link,
         n.initiator = links[l].initiator, n.counterpart = links[l].counterpart,
         links' = [links EXCEPT ![l] = n]
  PROVE  /\ links' \in Seq(Link) /\ DOMAIN links' = DOMAIN links
         /\ links'[l] = n /\ \A k \in DOMAIN links : k # l => links'[k] = links[k]
         /\ \A k \in DOMAIN links : {links'[k].initiator, links'[k].counterpart} = Pair(k)
<1>1. links \in Seq(Link)
  BY DEF LInv, LinksTyped
<1> QED
  BY <1>1 DEF Pair

LEMMA UpdateAcceptKeeps ==
  ASSUME LInv, NEW c \in Caller, UpdateAccept(c)
  PROVE  LInv' /\ UnrevokedWhenOvertaken
<1>1. /\ request[c] \in Request /\ request[c].at = "accept" /\ overtaken' = overtaken /\ Go(c, Idle)
      /\ links \in Seq(Link) /\ overtaken \subseteq DOMAIN links
  BY DEF LInv, LinksTyped, UpdateAccept
<1>2. PICK l \in DOMAIN links : l = request[c].link /\ (Live(l) \/ l \in overtaken)
  BY <1>1 DEF LInv, LinksChecked
<1>3. request[c].user \in User /\ links[l] \in Link
  BY <1>1, <1>2, RequestIs, LinkTypes
<1>4. CASE links[l].status = "revoked" /\ LivePair(PairKey(links[l].initiator, links[l].counterpart))
  <2>1. links' = links
    BY <1>2, <1>4 DEF UpdateAccept
  <2>2. LinksChecked' /\ request' \in [Caller -> Request]
    BY <1>1, <2>1, Requests, OneRequest DEF Live
  <2> QED
    BY <1>1, <2>1, <2>2 DEF LInv, LinksTyped, OneLivePair, UnrevokedWhenOvertaken
<1>5. CASE ~(links[l].status = "revoked" /\ LivePair(PairKey(links[l].initiator, links[l].counterpart)))
  <2> DEFINE n == [links[l] EXCEPT !.status = "active", !.acceptedBy = {request[c].user}]
  <2>1. n \in Link /\ n.initiator = links[l].initiator /\ n.counterpart = links[l].counterpart
        /\ n.status = "active"
    BY <1>3 DEF Link, Status
  <2>2. links' = [links EXCEPT ![l] = n]
    BY <1>1, <1>2, <1>5 DEF UpdateAccept
  <2> HIDE DEF n
  <2>3. /\ links' \in Seq(Link) /\ DOMAIN links' = DOMAIN links
        /\ links'[l] = n /\ \A k \in DOMAIN links : k # l => links'[k] = links[k]
        /\ \A k \in DOMAIN links : {links'[k].initiator, links'[k].counterpart} = Pair(k)
    BY <2>1, <2>2, UpdateTypes
  <2>4. LinksChecked' /\ request' \in [Caller -> Request]
    <3>1. \A d \in Caller : request[d].at = "accept" => request[d].link \in DOMAIN links
      BY DEF LInv, LinksChecked
    <3> QED
      BY <1>1, <2>1, <2>3, <3>1, Requests, OneRequest DEF Live
  <2>5. OneLivePair'
    <3>1. ASSUME NEW k \in DOMAIN links, k # l, Live(k) PROVE Pair(k) # Pair(l)
      <4>1. CASE Live(l)
        BY <3>1, <4>1 DEF LInv, OneLivePair, Live, Pair
      <4>2. CASE ~Live(l)
        BY <1>5, <3>1, <4>2 DEF LivePair, PairKey, Live, Pair
      <4> QED
        BY <4>1, <4>2
    <3>2. ASSUME NEW k \in DOMAIN links, NEW m \in DOMAIN links, k # m,
                 links'[k].status # "revoked", links'[m].status # "revoked", Pair(k) = Pair(m)
          PROVE  FALSE
      <4>1. CASE k = l
        BY <2>3, <3>1, <3>2, <4>1 DEF Live
      <4>2. CASE m = l
        BY <2>3, <3>1, <3>2, <4>2 DEF Live
      <4>3. CASE k # l /\ m # l
        BY <2>3, <3>2, <4>3 DEF LInv, OneLivePair, Pair
      <4> QED
        BY <4>1, <4>2, <4>3
    <3>3. ASSUME NEW k \in DOMAIN links, NEW m \in DOMAIN links,
                 links'[k].status # "revoked", links'[m].status # "revoked",
                 {links'[k].initiator, links'[k].counterpart}
                   = {links'[m].initiator, links'[m].counterpart}
          PROVE  k = m
      <4>1. Pair(k) = Pair(m)
        BY <2>3, <3>3
      <4> QED
        BY <3>2, <3>3, <4>1
    <3>4. DOMAIN links' = DOMAIN links
      BY <2>3
    <3> QED
      BY <3>3, <3>4 DEF OneLivePair
  <2>6. UnrevokedWhenOvertaken
    BY <1>1, <1>2, <2>3 DEF UnrevokedWhenOvertaken, Live
  <2> QED
    BY <1>1, <2>3, <2>4, <2>5, <2>6 DEF LInv, LinksTyped
<1> QED
  BY <1>4, <1>5

LEMMA UpdateRevokeKeeps ==
  ASSUME LInv, NEW c \in Caller, UpdateRevoke(c)
  PROVE  LInv' /\ UnrevokedWhenOvertaken
<1>1. /\ request[c] \in Request /\ request[c].at = "revoke" /\ Go(c, Idle)
      /\ links \in Seq(Link) /\ overtaken \subseteq DOMAIN links
  BY DEF LInv, LinksTyped, UpdateRevoke
<1>2. PICK l \in DOMAIN links : l = request[c].link
  BY <1>1 DEF LInv, LinksChecked
<1>3. links[l] \in Link
  BY <1>2, LinkTypes
<1> DEFINE n == [links[l] EXCEPT !.status = "revoked"]
<1>4. n \in Link /\ n.initiator = links[l].initiator /\ n.counterpart = links[l].counterpart
      /\ n.status = "revoked"
  BY <1>3 DEF Link, Status
<1>5. links' = [links EXCEPT ![l] = n]
  BY <1>1, <1>2 DEF UpdateRevoke
<1> HIDE DEF n
<1>6. /\ links' \in Seq(Link) /\ DOMAIN links' = DOMAIN links
      /\ links'[l] = n /\ \A k \in DOMAIN links : k # l => links'[k] = links[k]
      /\ \A k \in DOMAIN links : {links'[k].initiator, links'[k].counterpart} = Pair(k)
  BY <1>4, <1>5, UpdateTypes
<1>7. overtaken \subseteq overtaken' /\ overtaken' \subseteq DOMAIN links
  BY <1>1, <1>2 DEF UpdateRevoke
<1>8. LinksChecked' /\ request' \in [Caller -> Request]
  <2>1. ASSUME NEW d \in Caller, request[d].at = "accept", Live(request[d].link)
        PROVE  links'[request[d].link].status # "revoked" \/ request[d].link \in overtaken'
    <3>1. request[d].link \in DOMAIN links
      BY <2>1 DEF LInv, LinksChecked
    <3>2. CASE request[d].link = l
      BY <1>2, <2>1, <3>2 DEF UpdateRevoke
    <3>3. CASE request[d].link # l
      BY <1>6, <2>1, <3>1, <3>3 DEF Live
    <3> QED
      BY <3>2, <3>3
  <2> QED
    BY <1>1, <1>6, <1>7, <2>1, Requests, OneRequest
<1>9. OneLivePair'
  BY <1>4, <1>6 DEF LInv, OneLivePair, Pair
<1>10. UnrevokedWhenOvertaken
  BY <1>4, <1>6 DEF UnrevokedWhenOvertaken
<1> QED
  BY <1>6, <1>7, <1>8, <1>9, <1>10 DEF LInv, LinksTyped

LEMMA LinksInductive == LInv /\ [Next]_vars => LInv' /\ UnrevokedWhenOvertaken
<1> SUFFICES ASSUME LInv, [Next]_vars PROVE LInv' /\ UnrevokedWhenOvertaken
  OBVIOUS
<1>1. CASE UNCHANGED vars
  BY <1>1 DEF vars, LInv, LinksTyped, LinksChecked, OneLivePair, Live, UnrevokedWhenOvertaken
<1>2. ASSUME NEW c \in Caller, CheckPair(c) \/ CheckAccept(c) \/ CheckRevoke(c)
      PROVE  LInv' /\ UnrevokedWhenOvertaken
  <2>1. links' = links
    BY <1>2 DEF CheckPair, CheckAccept, CheckRevoke
  <2> QED
    BY <1>2, <2>1, ChecksKeep DEF UnrevokedWhenOvertaken
<1>3. ASSUME NEW c \in Caller, Insert(c) PROVE LInv' /\ UnrevokedWhenOvertaken
  <2>1. \A l \in DOMAIN links : links'[l] = links[l]
    <3>1. links \in Seq(Link)
      BY DEF LInv, LinksTyped
    <3>2. links' = links \/ \E n \in Link : links' = Append(links, n)
      <4>1. request[c] \in Request /\ request[c].at = "insert"
        BY <1>3 DEF LInv, LinksTyped, Insert
      <4>2. /\ request[c].initiator \in Workspace /\ request[c].counterpart \in Workspace
            /\ request[c].user \in User
        BY <4>1, RequestIs
      <4>3. [initiator |-> request[c].initiator, counterpart |-> request[c].counterpart,
             initiatedBy |-> request[c].user, acceptedBy |-> {}, status |-> "pending"] \in Link
        BY <4>2 DEF Link, Status
      <4> QED
        BY <1>3, <4>3 DEF Insert
    <3> QED
      BY <3>1, <3>2
  <2> QED
    BY <1>3, <2>1, InsertKeeps DEF UnrevokedWhenOvertaken
<1> QED
  BY <1>1, <1>2, <1>3, UpdateAcceptKeeps, UpdateRevokeKeeps DEF Next

LEMMA LinksStart == Init => LInv
<1> SUFFICES ASSUME Init PROVE LInv
  OBVIOUS
<1>1. links = << >> /\ DOMAIN links = {} /\ overtaken = {}
  BY DEF Init
<1>2. \A c \in Caller : request[c].at = "idle"
  BY DEF Init, Idle
<1>3. request \in [Caller -> Request]
  BY Requests DEF Init
<1> QED
  BY <1>1, <1>2, <1>3 DEF LInv, LinksTyped, LinksChecked, OneLivePair

-------------------------------------------------------------------------------
\* The reads.

LEMMA ReadIs ==
  ASSUME NEW q \in ReadState
  PROVE  /\ q.at # "idle" => q.object \in Object /\ q.scoped \in SUBSET Object /\ q.revoked \in BOOLEAN
         /\ q.at \in {"append", "filter"} => q.version \in Nat
         /\ q.at \in {"idle", "link", "scope", "audit", "append", "filter"}
<1>1. CASE q \in [at : {"idle"}]
  BY <1>1
<1>2. CASE q \in [at : {"link", "scope", "audit"}, object : Object, scoped : SUBSET Object, revoked : BOOLEAN]
  BY <1>2
<1>3. CASE q \in [at : {"append", "filter"}, object : Object, scoped : SUBSET Object,
                  revoked : BOOLEAN, version : Nat]
  BY <1>3
<1> QED
  BY <1>1, <1>2, <1>3 DEF ReadState

LEMMA IdleRead == NoRead \in ReadState /\ NoRead.at = "idle"
<1>1. NoRead \in [at : {"idle"}] /\ NoRead.at = "idle"
  BY DEF NoRead
<1> QED
  BY <1>1 DEF ReadState

LEMMA EarlyRead ==
  ASSUME NEW q, q \in [at : {"link", "scope", "audit"}, object : Object,
                       scoped : SUBSET Object, revoked : BOOLEAN]
  PROVE  q \in ReadState
  BY DEF ReadState

LEMMA LateRead ==
  ASSUME NEW q, q \in [at : {"append", "filter"}, object : Object,
                       scoped : SUBSET Object, revoked : BOOLEAN, version : Nat]
  PROVE  q \in ReadState
  BY DEF ReadState

\* A read moves on without an answer.
LEMMA ReadMoves ==
  ASSUME RInv, UNCHANGED vars, scope' = scope, answers' = answers,
         NEW r \in Reader, NEW q \in ReadState, GoRead(r, q),
         \/ audit' = audit
         \/ \E o \in Object : audit' = Append(audit, o),
         q.at = "append" => q.version <= Len(audit'),
         q.at = "filter" => /\ q.version + 1 <= Len(audit')
                            /\ audit'[q.version + 1] = q.object
                            /\ \A a \in answers : a.event # q.version + 1
                            /\ \A s \in Reader : read[s].at = "filter" => read[s].version # q.version,
         q.at # "idle" => scope \subseteq q.scoped,
         q.at \in {"audit", "append", "filter"} => q.object \in q.scoped,
         overtaken = {} /\ q.at # "idle" /\ q.revoked => q.at = "link" /\ LinkIs("revoked")
  PROVE  RInv'
<1>1. /\ read \in [Reader -> ReadState] /\ read' \in [Reader -> ReadState] /\ read'[r] = q
      /\ \A s \in Reader : s # r => read'[s] = read[s]
  BY DEF RInv, ReadsTyped, GoRead
<1>2. /\ audit \in Seq(Object) /\ audit' \in Seq(Object)
      /\ Len(audit) \in Nat /\ Len(audit') \in Nat /\ Len(audit) <= Len(audit')
      /\ \A i \in 1..Len(audit) : audit'[i] = audit[i]
  <2>1. audit \in Seq(Object)
    BY DEF RInv, ReadsTyped
  <2>2. CASE audit' = audit
    BY <2>1, <2>2
  <2>3. CASE \E o \in Object : audit' = Append(audit, o)
    BY <2>1, <2>3
  <2> QED
    BY <2>2, <2>3
<1>3. ReadsTyped'
  BY <1>1, <1>2 DEF RInv, ReadsTyped
<1>4. Recorded'
  <2>1. ASSUME NEW s \in Reader, s # r, read[s].at = "append" PROVE read[s].version <= Len(audit')
    <3>1. read[s].version \in Nat /\ read[s].version <= Len(audit)
      BY <1>1, <2>1, ReadIs DEF RInv, Recorded
    <3> QED
      BY <1>2, <3>1
  <2>2. ASSUME NEW s \in Reader, s # r, read[s].at = "filter"
        PROVE  /\ read[s].version + 1 <= Len(audit')
               /\ audit'[read[s].version + 1] = read[s].object
    <3>1. /\ read[s].version \in Nat /\ read[s].version + 1 <= Len(audit)
          /\ audit[read[s].version + 1] = read[s].object
      BY <1>1, <2>2, ReadIs DEF RInv, Recorded
    <3>2. read[s].version + 1 \in 1..Len(audit)
      BY <1>2, <3>1
    <3> QED
      BY <1>2, <3>1, <3>2
  <2>3. ASSUME NEW s \in Reader, NEW t \in Reader, s # t, read'[s].at = "filter", read'[t].at = "filter"
        PROVE  read'[s].version # read'[t].version
    <3>1. CASE s = r
      BY <1>1, <2>3, <3>1
    <3>2. CASE t = r
      BY <1>1, <2>3, <3>2
    <3>3. CASE s # r /\ t # r
      BY <1>1, <2>3, <3>3 DEF RInv, Recorded
    <3> QED
      BY <3>1, <3>2, <3>3
  <2>4. ASSUME NEW s \in Reader, read'[s].at = "append" PROVE read'[s].version <= Len(audit')
    BY <1>1, <2>1, <2>4
  <2>5. ASSUME NEW s \in Reader, read'[s].at = "filter"
        PROVE  /\ read'[s].version + 1 <= Len(audit')
               /\ audit'[read'[s].version + 1] = read'[s].object
               /\ \A a \in answers' : a.event # read'[s].version + 1
    <3>1. CASE s = r
      BY <1>1, <2>5, <3>1
    <3>2. CASE s # r
      BY <1>1, <2>2, <2>5, <3>2 DEF RInv, Recorded
    <3> QED
      BY <3>1, <3>2
  <2> QED
    BY <2>3, <2>4, <2>5 DEF Recorded
<1>5. MayShow'
  BY <1>1 DEF RInv, MayShow
<1>6. Stopped'
  <2>1. overtaken' = overtaken /\ LinkIs("revoked")' = LinkIs("revoked")
    BY DEF vars, LinkIs
  <2> QED
    BY <1>1, <2>1 DEF RInv, Stopped
<1>7. AnswersAudited'
  <2>1. ASSUME NEW a \in answers PROVE a.event <= Len(audit') /\ audit'[a.event] = a.object
    <3>1. /\ a.event \in Nat \ {0} /\ a.event <= Len(audit) /\ audit[a.event] = a.object
      BY DEF RInv, ReadsTyped, AnswersAudited
    <3>2. a.event \in 1..Len(audit)
      BY <1>2, <3>1
    <3> QED
      BY <1>2, <3>1, <3>2
  <2> QED
    BY <2>1 DEF RInv, AnswersAudited
<1>8. ShownWasInScope' /\ RevokedLinkAnswersNothing'
  BY DEF RInv, ShownWasInScope, RevokedLinkAnswersNothing, vars
<1> QED
  BY <1>3, <1>4, <1>5, <1>6, <1>7, <1>8 DEF RInv

\* What a read holds.
LEMMA ReadHolds ==
  ASSUME RInv, NEW r \in Reader, read[r].at # "idle"
  PROVE  /\ read[r] \in ReadState /\ read[r].object \in Object
         /\ read[r].scoped \in SUBSET Object /\ scope \subseteq read[r].scoped
         /\ read[r].revoked \in BOOLEAN
         /\ overtaken = {} /\ read[r].revoked => read[r].at = "link" /\ LinkIs("revoked")
         /\ read[r].at \in {"audit", "append", "filter"} => read[r].object \in read[r].scoped
         /\ read[r].at \in {"append", "filter"} => read[r].version \in Nat
         /\ scope \subseteq Object /\ audit \in Seq(Object) /\ Len(audit) \in Nat
<1>1. /\ read \in [Reader -> ReadState] /\ scope \subseteq Object
      /\ audit \in Seq(Object)
  BY DEF RInv, ReadsTyped
<1>2. read[r] \in ReadState
  BY <1>1
<1>3. /\ read[r].object \in Object /\ read[r].scoped \in SUBSET Object /\ read[r].revoked \in BOOLEAN
      /\ read[r].at \in {"append", "filter"} => read[r].version \in Nat
  BY <1>2, ReadIs
<1>4. /\ scope \subseteq read[r].scoped
      /\ read[r].at \in {"audit", "append", "filter"} => read[r].object \in read[r].scoped
  BY DEF RInv, MayShow
<1>5. overtaken = {} /\ read[r].revoked => read[r].at = "link" /\ LinkIs("revoked")
  BY DEF RInv, Stopped
<1> QED
  BY <1>1, <1>2, <1>3, <1>4, <1>5

LEMMA ReadEnds ==
  ASSUME RInv, UNCHANGED vars, scope' = scope, answers' = answers,
         NEW r \in Reader, GoRead(r, NoRead),
         \/ audit' = audit
         \/ \E o \in Object : audit' = Append(audit, o)
  PROVE  RInv'
  BY IdleRead, ReadMoves

LEMMA CheckCredentialKeeps ==
  ASSUME RInv, UNCHANGED vars, NEW r \in Reader, CheckCredential(r)
  PROVE  RInv'
<1>1. scope' = scope /\ answers' = answers /\ audit' = audit /\ scope \in SUBSET Object
  BY DEF CheckCredential, RInv, ReadsTyped
<1>2. PICK o \in Object : GoRead(r, [at |-> "link", object |-> o, scoped |-> scope,
                                     revoked |-> LinkIs("revoked")])
  BY DEF CheckCredential
<1>3. PICK b \in BOOLEAN : b = LinkIs("revoked")
  BY DEF LinkIs
<1> DEFINE q == [at |-> "link", object |-> o, scoped |-> scope, revoked |-> b]
<1>4. q \in ReadState
  BY <1>1, EarlyRead
<1>5. q.at = "link" /\ q.scoped = scope /\ q.revoked = b
  OBVIOUS
<1>6. GoRead(r, q)
  BY <1>2, <1>3
<1> HIDE DEF q
<1> QED
  BY <1>1, <1>3, <1>4, <1>5, <1>6, ReadMoves

LEMMA CheckLinkKeeps ==
  ASSUME RInv, UNCHANGED vars, NEW r \in Reader, CheckLink(r)
  PROVE  RInv'
<1>1. scope' = scope /\ answers' = answers /\ audit' = audit /\ read[r].at = "link"
  BY DEF CheckLink
<1>2. CASE GoRead(r, NoRead)
  BY <1>1, <1>2, ReadEnds
<1>3. CASE LinkIs("active") /\ GoRead(r, [read[r] EXCEPT !.at = "scope"])
  <2> DEFINE q == [read[r] EXCEPT !.at = "scope"]
  <2>1. /\ read[r] \in ReadState /\ scope \subseteq read[r].scoped
        /\ overtaken = {} /\ read[r].revoked => LinkIs("revoked")
    BY <1>1, ReadHolds
  <2>2. read[r] \in [at : {"link", "scope", "audit"}, object : Object, scoped : SUBSET Object,
                     revoked : BOOLEAN]
    BY <1>1, <2>1 DEF ReadState
  <2>3. /\ q \in [at : {"link", "scope", "audit"}, object : Object, scoped : SUBSET Object,
                  revoked : BOOLEAN]
        /\ q.at = "scope" /\ q.scoped = read[r].scoped /\ q.revoked = read[r].revoked
    BY <2>2
  <2>4. ~LinkIs("revoked")
    BY <1>3 DEF LinkIs
  <2> HIDE DEF q
  <2>5. q \in ReadState
    BY <2>3, EarlyRead
  <2> QED
    BY <1>1, <1>3, <2>1, <2>3, <2>4, <2>5, ReadMoves DEF q
<1> QED
  BY <1>2, <1>3 DEF CheckLink

LEMMA CheckScopeKeeps ==
  ASSUME RInv, UNCHANGED vars, NEW r \in Reader, CheckScope(r)
  PROVE  RInv'
<1>1. scope' = scope /\ answers' = answers /\ audit' = audit /\ read[r].at = "scope"
  BY DEF CheckScope
<1>2. CASE read[r].object \notin scope
  BY <1>1, <1>2, ReadEnds DEF CheckScope
<1>3. CASE read[r].object \in scope
  <2> DEFINE q == [read[r] EXCEPT !.at = "audit"]
  <2>1. /\ read[r] \in ReadState /\ scope \subseteq read[r].scoped
        /\ ~(overtaken = {} /\ read[r].revoked)
    BY <1>1, ReadHolds
  <2>2. read[r] \in [at : {"link", "scope", "audit"}, object : Object, scoped : SUBSET Object,
                     revoked : BOOLEAN]
    BY <1>1, <2>1 DEF ReadState
  <2>3. /\ q \in [at : {"link", "scope", "audit"}, object : Object, scoped : SUBSET Object,
                  revoked : BOOLEAN]
        /\ q.at = "audit" /\ q.scoped = read[r].scoped /\ q.revoked = read[r].revoked
        /\ q.object = read[r].object
    BY <2>2
  <2>4. GoRead(r, q)
    BY <1>3 DEF CheckScope
  <2> HIDE DEF q
  <2>5. q \in ReadState
    BY <2>3, EarlyRead
  <2> QED
    BY <1>1, <1>3, <2>1, <2>3, <2>4, <2>5, ReadMoves
<1> QED
  BY <1>2, <1>3

LEMMA ReadAuditKeeps ==
  ASSUME RInv, UNCHANGED vars, NEW r \in Reader, ReadAudit(r)
  PROVE  RInv'
<1>1. scope' = scope /\ answers' = answers /\ audit' = audit /\ read[r].at = "audit"
  BY DEF ReadAudit
<1>2. /\ read[r].object \in Object /\ read[r].scoped \in SUBSET Object /\ read[r].revoked \in BOOLEAN
      /\ scope \subseteq read[r].scoped /\ read[r].object \in read[r].scoped
      /\ ~(overtaken = {} /\ read[r].revoked) /\ Len(audit) \in Nat
  BY <1>1, ReadHolds
<1> DEFINE q == [at |-> "append", object |-> read[r].object, scoped |-> read[r].scoped,
                 revoked |-> read[r].revoked, version |-> Len(audit)]
<1>3. q \in [at : {"append", "filter"}, object : Object, scoped : SUBSET Object, revoked : BOOLEAN,
             version : Nat]
  BY <1>2
<1>4. /\ q.at = "append" /\ q.object = read[r].object /\ q.scoped = read[r].scoped
      /\ q.revoked = read[r].revoked /\ q.version = Len(audit)
  OBVIOUS
<1>5. GoRead(r, q)
  BY DEF ReadAudit
<1> HIDE DEF q
<1>6. q \in ReadState
  BY <1>3, LateRead
<1>7. q.version <= Len(audit')
  BY <1>1, <1>2, <1>4
<1> QED
  BY <1>1, <1>2, <1>4, <1>5, <1>6, <1>7, ReadMoves

\* The event is the read's own: every other one has a smaller number.
LEMMA AppendAuditKeeps ==
  ASSUME RInv, UNCHANGED vars, NEW r \in Reader, AppendAudit(r)
  PROVE  RInv'
<1>1. scope' = scope /\ answers' = answers /\ read[r].at = "append"
  BY DEF AppendAudit
<1>2. /\ read[r] \in ReadState /\ read[r].object \in Object
      /\ scope \subseteq read[r].scoped /\ read[r].object \in read[r].scoped
      /\ ~(overtaken = {} /\ read[r].revoked)
      /\ audit \in Seq(Object) /\ Len(audit) \in Nat /\ read[r].version \in Nat
  BY <1>1, ReadHolds
<1>3. CASE Len(audit) # read[r].version
  <2>1. GoRead(r, NoRead) /\ audit' = audit
    BY <1>3 DEF AppendAudit
  <2> QED
    BY <1>1, <2>1, ReadEnds
<1>4. CASE Len(audit) = read[r].version
  <2> DEFINE q == [read[r] EXCEPT !.at = "filter"]
  <2>1. audit' = Append(audit, read[r].object) /\ GoRead(r, q)
    BY <1>4 DEF AppendAudit
  <2>2. read[r] \in [at : {"append", "filter"}, object : Object, scoped : SUBSET Object,
                     revoked : BOOLEAN, version : Nat]
    BY <1>1, <1>2 DEF ReadState
  <2>3. /\ q \in [at : {"append", "filter"}, object : Object, scoped : SUBSET Object,
                  revoked : BOOLEAN, version : Nat]
        /\ q.at = "filter" /\ q.scoped = read[r].scoped /\ q.revoked = read[r].revoked
        /\ q.object = read[r].object /\ q.version = read[r].version
    BY <2>2
  <2> HIDE DEF q
  <2>4. q \in ReadState
    BY <2>3, LateRead
  <2>5. q.version + 1 <= Len(audit') /\ audit'[q.version + 1] = q.object
    BY <1>2, <1>4, <2>1, <2>3
  <2>6. \A a \in answers : a.event # q.version + 1
    <3>1. \A a \in answers : a.event \in Nat /\ a.event <= Len(audit)
      BY DEF RInv, ReadsTyped, AnswersAudited
    <3> QED
      BY <1>2, <1>4, <2>3, <3>1
  <2>7. \A s \in Reader : read[s].at = "filter" => read[s].version # q.version
    <3>1. \A s \in Reader : read[s].at = "filter" => /\ read[s].version \in Nat
                                                      /\ read[s].version + 1 <= Len(audit)
      BY ReadHolds DEF RInv, Recorded
    <3> QED
      BY <1>2, <1>4, <2>3, <3>1
  <2>8. ~(overtaken = {} /\ q.revoked) /\ q.object \in q.scoped /\ scope \subseteq q.scoped
    BY <1>2, <2>3
  <2> QED
    BY <1>1, <1>2, <2>1, <2>3, <2>4, <2>5, <2>6, <2>7, <2>8, ReadMoves
<1> QED
  BY <1>3, <1>4

LEMMA FailReadKeeps ==
  ASSUME RInv, UNCHANGED vars, NEW r \in Reader, FailRead(r)
  PROVE  RInv'
<1>1. scope' = scope /\ answers' = answers /\ read[r].at # "idle" /\ GoRead(r, NoRead)
  BY DEF FailRead
<1>2. read[r].object \in Object
  BY <1>1, ReadHolds
<1> QED
  BY <1>1, <1>2, ReadEnds DEF FailRead

LEMMA AnswerKeeps ==
  ASSUME RInv, UNCHANGED vars, NEW r \in Reader, AnswerFiltered(r)
  PROVE  RInv'
<1> DEFINE n == [event |-> read[r].version + 1, object |-> read[r].object,
                 shown |-> {read[r].object} \union scope,
                 scoped |-> read[r].scoped, revoked |-> read[r].revoked]
<1>1. /\ scope' = scope /\ audit' = audit /\ read[r].at = "filter"
      /\ answers' = answers \union {n} /\ GoRead(r, NoRead)
  BY DEF AnswerFiltered, Answer
<1>2. /\ read[r].object \in Object /\ read[r].scoped \in SUBSET Object /\ read[r].revoked \in BOOLEAN
      /\ scope \subseteq read[r].scoped /\ read[r].object \in read[r].scoped
      /\ ~(overtaken = {} /\ read[r].revoked)
      /\ scope \subseteq Object /\ read[r].version \in Nat
  BY <1>1, ReadHolds
<1>3. /\ n \in [event : Nat \ {0}, object : Object, shown : SUBSET Object,
                scoped : SUBSET Object, revoked : BOOLEAN]
      /\ n.event = read[r].version + 1 /\ n.object = read[r].object
      /\ n.shown \subseteq n.scoped /\ n.revoked = read[r].revoked
  BY <1>2
<1> HIDE DEF n
<1>4. /\ read' \in [Reader -> ReadState] /\ read'[r].at = "idle"
      /\ \A s \in Reader : s # r => read'[s] = read[s]
  BY <1>1, IdleRead DEF RInv, ReadsTyped, GoRead
<1>5. ReadsTyped'
  BY <1>1, <1>3, <1>4 DEF RInv, ReadsTyped
<1>6. /\ read[r].version + 1 <= Len(audit)
      /\ audit[read[r].version + 1] = read[r].object
      /\ \A a \in answers : a.event # read[r].version + 1
      /\ \A s \in Reader : read[s].at = "filter" /\ read[s].version = read[r].version => r = s
  BY <1>1 DEF RInv, Recorded
<1>7. Recorded'
  <2>1. ASSUME NEW s \in Reader, read'[s].at # "idle" PROVE s # r /\ read'[s] = read[s]
    BY <1>4, <2>1
  <2>2. ASSUME NEW s \in Reader, s # r, read[s].at = "filter" PROVE n.event # read[s].version + 1
    <3>1. read[s].version \in Nat /\ read[s].version # read[r].version
      BY <1>6, <2>2, ReadHolds
    <3> QED
      BY <1>2, <1>3, <3>1
  <2>3. ASSUME NEW s \in Reader, read'[s].at = "append" PROVE read'[s].version <= Len(audit')
    BY <1>1, <2>1, <2>3 DEF RInv, Recorded
  <2>4. ASSUME NEW s \in Reader, read'[s].at = "filter"
        PROVE  /\ read'[s].version + 1 <= Len(audit')
               /\ audit'[read'[s].version + 1] = read'[s].object
               /\ \A a \in answers' : a.event # read'[s].version + 1
    <3>1. s # r /\ read'[s] = read[s] /\ read[s].at = "filter"
      BY <2>1, <2>4
    <3> QED
      BY <1>1, <2>2, <3>1 DEF RInv, Recorded
  <2>5. ASSUME NEW s \in Reader, NEW t \in Reader, read'[s].at = "filter", read'[t].at = "filter",
               read'[s].version = read'[t].version
        PROVE  t = s
    <3>1. read'[s] = read[s] /\ read'[t] = read[t]
      BY <2>1, <2>5
    <3> QED
      BY <2>5, <3>1 DEF RInv, Recorded
  <2> QED
    BY <2>3, <2>4, <2>5 DEF Recorded
<1>8. MayShow'
  BY <1>1, <1>4 DEF RInv, MayShow
<1>9. Stopped'
  <2>1. overtaken' = overtaken /\ LinkIs("revoked")' = LinkIs("revoked")
    BY DEF vars, LinkIs
  <2> QED
    BY <1>4, <2>1 DEF RInv, Stopped
<1>10. AnswersAudited'
  <2>1. \A a \in answers' : a \in answers \/ a = n
    BY <1>1
  <2>2. \A a \in answers : a.event # n.event
    BY <1>3, <1>6
  <2>3. n.event <= Len(audit) /\ audit[n.event] = n.object
    BY <1>3, <1>6
  <2> QED
    BY <1>1, <2>1, <2>2, <2>3 DEF RInv, AnswersAudited
<1>11. ShownWasInScope'
  BY <1>1, <1>3 DEF RInv, ShownWasInScope
<1>12. RevokedLinkAnswersNothing'
  <2>1. overtaken' = overtaken
    BY DEF vars
  <2> QED
    BY <1>1, <1>2, <1>3, <2>1 DEF RInv, RevokedLinkAnswersNothing
<1> QED
  BY <1>5, <1>7, <1>8, <1>9, <1>10, <1>11, <1>12 DEF RInv

\* A change of the scope, or of the credential.
LEMMA ScopeKeeps ==
  ASSUME RInv, UNCHANGED vars,
         \/ \E o \in Object : AddObject(o) \/ RemoveObject(o)
         \/ RevokeCredential
  PROVE  RInv'
<1>1. /\ audit' = audit /\ answers' = answers /\ scope' \in SUBSET Object
      /\ overtaken' = overtaken /\ LinkIs("revoked")' = LinkIs("revoked")
  BY DEF AddObject, RemoveObject, RevokeCredential, RInv, ReadsTyped, vars, LinkIs
<1>2. /\ read' \in [Reader -> ReadState]
      /\ \A s \in Reader :
           /\ read'[s].at = read[s].at
           /\ read[s].at # "idle" => /\ read'[s].object = read[s].object
                                     /\ read'[s].revoked = read[s].revoked
                                     /\ read[s].scoped \subseteq read'[s].scoped
                                     /\ scope' \subseteq read'[s].scoped
           /\ read[s].at \in {"append", "filter"} => read'[s].version = read[s].version
  <2>1. read \in [Reader -> ReadState]
    BY DEF RInv, ReadsTyped
  <2>2. CASE read' = read /\ scope' \subseteq scope
    BY <2>1, <2>2, ReadHolds
  <2>3. ASSUME NEW o \in Object, scope' = scope \union {o}, read' = Scoped({o}), NEW s \in Reader
        PROVE  /\ read'[s] \in ReadState
               /\ read'[s].at = read[s].at
               /\ read[s].at # "idle" => /\ read'[s].object = read[s].object
                                         /\ read'[s].revoked = read[s].revoked
                                         /\ read[s].scoped \subseteq read'[s].scoped
                                         /\ scope' \subseteq read'[s].scoped
               /\ read[s].at \in {"append", "filter"} => read'[s].version = read[s].version
    <3>1. read[s] \in ReadState
      BY <2>1
    <3>2. CASE read[s].at = "idle"
      <4>1. read'[s] = read[s]
        BY <2>3, <3>2 DEF Scoped
      <4> QED
        BY <3>1, <3>2, <4>1
    <3>3. CASE read[s].at # "idle"
      <4> DEFINE q == [read[s] EXCEPT !.scoped = read[s].scoped \union {o}]
      <4>1. read'[s] = q
        BY <2>3, <3>3 DEF Scoped
      <4>2. scope \subseteq read[s].scoped
        BY <3>3, ReadHolds
      <4>3. CASE read[s] \in [at : {"link", "scope", "audit"}, object : Object,
                              scoped : SUBSET Object, revoked : BOOLEAN]
        <5>1. /\ q \in [at : {"link", "scope", "audit"}, object : Object,
                        scoped : SUBSET Object, revoked : BOOLEAN]
              /\ q.at = read[s].at /\ q.object = read[s].object /\ q.revoked = read[s].revoked
              /\ q.scoped = read[s].scoped \union {o}
          BY <4>3
        <5> HIDE DEF q
        <5>2. q \in ReadState
          BY <5>1, EarlyRead
        <5> QED
          BY <2>3, <4>1, <4>2, <4>3, <5>1, <5>2
      <4>4. CASE read[s] \in [at : {"append", "filter"}, object : Object,
                              scoped : SUBSET Object, revoked : BOOLEAN, version : Nat]
        <5>1. /\ q \in [at : {"append", "filter"}, object : Object,
                        scoped : SUBSET Object, revoked : BOOLEAN, version : Nat]
              /\ q.at = read[s].at /\ q.object = read[s].object /\ q.revoked = read[s].revoked
              /\ q.scoped = read[s].scoped \union {o} /\ q.version = read[s].version
          BY <4>4
        <5> HIDE DEF q
        <5>2. q \in ReadState
          BY <5>1, LateRead
        <5> QED
          BY <2>3, <4>1, <4>2, <5>1, <5>2
      <4> QED
        BY <3>1, <3>3, <4>3, <4>4 DEF ReadState
    <3> QED
      BY <3>2, <3>3
  <2>4. ASSUME NEW o \in Object, AddObject(o)
        PROVE  scope' = scope \union {o} /\ read' = Scoped({o}) /\ read' = [s \in Reader |-> read'[s]]
    BY <2>4 DEF AddObject, Scoped
  <2>5. (\E o \in Object : RemoveObject(o)) \/ RevokeCredential => read' = read /\ scope' \subseteq scope
    BY DEF RemoveObject, RevokeCredential
  <2> QED
    BY <2>2, <2>3, <2>4, <2>5
<1>3. ReadsTyped'
  BY <1>1, <1>2 DEF RInv, ReadsTyped
<1>4. Recorded'
  <2>1. ASSUME NEW s \in Reader, read'[s].at = "append" PROVE read'[s].version <= Len(audit')
    BY <1>1, <1>2, <2>1 DEF RInv, Recorded
  <2>2. ASSUME NEW s \in Reader, read'[s].at = "filter"
        PROVE  /\ read'[s].version + 1 <= Len(audit')
               /\ audit'[read'[s].version + 1] = read'[s].object
               /\ \A a \in answers' : a.event # read'[s].version + 1
               /\ \A t \in Reader : read'[t].at = "filter" /\ read'[t].version = read'[s].version => s = t
    <3>1. read[s].at = "filter" /\ read'[s].version = read[s].version /\ read'[s].object = read[s].object
      BY <1>2, <2>2
    <3>2. \A t \in Reader : read'[t].at = "filter" =>
            read[t].at = "filter" /\ read'[t].version = read[t].version
      BY <1>2
    <3> QED
      BY <1>1, <3>1, <3>2 DEF RInv, Recorded
  <2> QED
    BY <2>1, <2>2 DEF Recorded
<1>5. MayShow'
  <2>1. ASSUME NEW s \in Reader, read'[s].at # "idle"
        PROVE  /\ scope' \subseteq read'[s].scoped
               /\ read'[s].at \in {"audit", "append", "filter"} => read'[s].object \in read'[s].scoped
    BY <1>2, <2>1, ReadHolds
  <2> QED
    BY <2>1 DEF MayShow
<1>6. Stopped'
  <2>1. ASSUME NEW s \in Reader, overtaken' = {}, read'[s].at # "idle", read'[s].revoked
        PROVE  read'[s].at = "link" /\ LinkIs("revoked")'
    BY <1>1, <1>2, <2>1 DEF RInv, Stopped
  <2> QED
    BY <2>1 DEF Stopped
<1>7. AnswersAudited' /\ ShownWasInScope' /\ RevokedLinkAnswersNothing'
  BY <1>1 DEF RInv, AnswersAudited, ShownWasInScope, RevokedLinkAnswersNothing
<1> QED
  BY <1>3, <1>4, <1>5, <1>6, <1>7 DEF RInv

\* A step of the links: while nothing is overtaken a revoked link stays revoked.
LEMMA LinksStepKeeps ==
  ASSUME RInv, LInv, LInv', UnrevokedWhenOvertaken, UNCHANGED fedVars,
         overtaken \subseteq overtaken', DOMAIN links \subseteq DOMAIN links'
  PROVE  RInv'
<1>1. /\ scope' = scope /\ audit' = audit /\ read' = read /\ answers' = answers
      /\ links \in Seq(Link) /\ links' \in Seq(Link)
  BY DEF fedVars, LInv, LinksTyped
<1>2. overtaken' = {} /\ LinkIs("revoked") => LinkIs("revoked")'
  <2>1. SUFFICES ASSUME overtaken' = {}, links # << >>, links[1].status = "revoked"
                 PROVE  links' # << >> /\ links'[1].status = "revoked"
    BY DEF LinkIs
  <2>2. 1 \in DOMAIN links /\ 1 \in DOMAIN links'
    BY <1>1, <2>1
  <2> QED
    BY <1>1, <2>1, <2>2 DEF UnrevokedWhenOvertaken
<1>3. Stopped'
  BY <1>1, <1>2 DEF RInv, Stopped
<1>4. ReadsTyped' /\ Recorded' /\ MayShow' /\ AnswersAudited' /\ ShownWasInScope'
  BY <1>1 DEF RInv, ReadsTyped, Recorded, MayShow, AnswersAudited, ShownWasInScope
<1>5. RevokedLinkAnswersNothing'
  BY <1>1 DEF RInv, RevokedLinkAnswersNothing
<1> QED
  BY <1>3, <1>4, <1>5 DEF RInv

\* Links and histories only grow.
LEMMA LinksGrow ==
  ASSUME LInv, [Next]_vars
  PROVE  overtaken \subseteq overtaken' /\ DOMAIN links \subseteq DOMAIN links'
<1>1. links \in Seq(Link)
  BY DEF LInv, LinksTyped
<1>2. ASSUME NEW c \in Caller, Insert(c) PROVE DOMAIN links \subseteq DOMAIN links'
  <2>1. LInv'
    BY <1>2, InsertKeeps
  <2>2. links' \in Seq(Link)
    BY <2>1 DEF LInv, LinksTyped
  <2>3. links' = links \/ Len(links') = Len(links) + 1
    BY <1>1, <1>2 DEF Insert
  <2> QED
    BY <1>1, <2>2, <2>3
<1>3. ASSUME NEW c \in Caller, UpdateAccept(c) \/ UpdateRevoke(c) PROVE DOMAIN links \subseteq DOMAIN links'
  BY <1>3 DEF UpdateAccept, UpdateRevoke
<1> QED
  BY <1>2, <1>3 DEF Next, vars, CheckPair, Insert, CheckAccept, UpdateAccept, CheckRevoke, UpdateRevoke

LEMMA Inductive == IInv /\ [FedNext]_<<vars, fedVars>> => IInv'
<1> SUFFICES ASSUME IInv, [FedNext]_<<vars, fedVars>> PROVE IInv'
  OBVIOUS
<1>1. [Next]_vars
  BY DEF FedNext
<1>2. LInv' /\ UnrevokedWhenOvertaken /\ overtaken \subseteq overtaken' /\ DOMAIN links \subseteq DOMAIN links'
  BY <1>1, LinksInductive, LinksGrow DEF IInv
<1>3. CASE UNCHANGED fedVars
  BY <1>2, <1>3, LinksStepKeeps DEF IInv
<1>4. ASSUME UNCHANGED vars, NEW r \in Reader,
             \/ CheckCredential(r) \/ CheckLink(r) \/ CheckScope(r) \/ ReadAudit(r)
             \/ AppendAudit(r) \/ AnswerFiltered(r) \/ FailRead(r)
      PROVE  RInv'
  BY <1>4, CheckCredentialKeeps, CheckLinkKeeps, CheckScopeKeeps, ReadAuditKeeps,
     AppendAuditKeeps, AnswerKeeps, FailReadKeeps DEF IInv
<1>5. ASSUME UNCHANGED vars, (\E o \in Object : AddObject(o) \/ RemoveObject(o)) \/ RevokeCredential
      PROVE  RInv'
  BY <1>5, ScopeKeeps DEF IInv
<1> QED
  BY <1>2, <1>3, <1>4, <1>5 DEF FedNext, IInv

LEMMA Starts == FedInit => IInv
<1> SUFFICES ASSUME FedInit PROVE IInv
  OBVIOUS
<1>1. LInv
  BY LinksStart DEF FedInit
<1>2. scope = {} /\ audit = << >> /\ answers = {} /\ \A r \in Reader : read[r] = NoRead
  BY DEF FedInit
<1>3. ReadsTyped
  BY <1>2, IdleRead DEF FedInit, ReadsTyped
<1>4. Recorded /\ MayShow /\ Stopped
  BY <1>2, IdleRead DEF Recorded, MayShow, Stopped
<1>5. AnswersAudited /\ ShownWasInScope /\ RevokedLinkAnswersNothing
  BY <1>2 DEF AnswersAudited, ShownWasInScope, RevokedLinkAnswersNothing
<1> QED
  BY <1>1, <1>3, <1>4, <1>5 DEF IInv, RInv

LEMMA Invariant == FedSpec => []IInv
  BY Starts, Inductive, PTL DEF FedSpec

LEMMA LinksInvariant == Spec => []LInv
  BY LinksStart, LinksInductive, PTL DEF Spec

-------------------------------------------------------------------------------
\* Two workspaces have one live link, however initiations, acceptances and
\* revocations race: also the overtaken acceptance that makes a link active
\* again is refused by the index where another has taken its place.
THEOREM OneLink == Spec => []OneLivePair
<1>1. LInv => OneLivePair
  BY DEF LInv
<1> QED
  BY <1>1, LinksInvariant, PTL

\* Nothing but an acceptance whose check a revocation overtook makes a revoked
\* link active again.
THEOREM RevokedIsFinalUnlessOvertaken == Spec => RevokedUnlessOvertaken
<1>1. LInv /\ [Next]_vars => [UnrevokedWhenOvertaken]_vars
  BY LinksInductive
<1> QED
  BY <1>1, LinksInvariant, PTL DEF Spec, RevokedUnlessOvertaken

\* Every answered read of shared context has an event of its own in the host's
\* audit log, whatever other reads append and whatever fails.
THEOREM EveryAnswerIsAudited == FedSpec => []AnswersAudited
<1>1. IInv => AnswersAudited
  BY DEF IInv, RInv
<1> QED
  BY <1>1, Invariant, PTL

\* No answer shows an object that was out of scope all the while.
THEOREM NothingOutOfScope == FedSpec => []ShownWasInScope
<1>1. IInv => ShownWasInScope
  BY DEF IInv, RInv
<1> QED
  BY <1>1, Invariant, PTL

\* A read that began when its link was revoked is not answered, as long as no
\* acceptance was overtaken.
THEOREM RevokedAnswersNothing == FedSpec => []RevokedLinkAnswersNothing
<1>1. IInv => RevokedLinkAnswersNothing
  BY DEF IInv, RInv
<1> QED
  BY <1>1, Invariant, PTL

-------------------------------------------------------------------------------
\* The request budget of a credential.

CONSTANTS Capacity, Cost, MaxNow, MaxMishaps
VARIABLES now, bucket, locked, asking, spent, told, mishaps

B == INSTANCE TokenBucket WITH request <- asking

\* A bucket is a number of tokens, and no request costs more than a full one.
BucketConstants ==
  /\ Capacity \in Nat /\ Cost \subseteq 1..Capacity /\ MaxNow \in Nat

Row == [tokens : 0..Capacity, at : Nat]

\* What the row holds, and since when; none is a full bucket from the start.
Holds == IF bucket = {} THEN [tokens |-> Capacity, at |-> 0] ELSE CHOOSE b \in bucket : TRUE

Refill(b, t) == IF Capacity <= b.tokens + t - b.at THEN Capacity ELSE b.tokens + t - b.at

BucketTyped ==
  /\ now \in 0..MaxNow
  /\ bucket \in {{}} \union {{b} : b \in Row}
  /\ Holds.at <= now
  /\ spent \in [0..MaxNow + 1 -> Int]
  /\ told \subseteq [cost : Cost, retryAt : Int]
  /\ asking = [c \in Caller |-> asking[c]]

\* One request at a time is past the lock.
OneAsks ==
  \A c \in Caller : asking[c].at = "idle" \/ locked = {c}

\* What the request past the lock knows of the row.
Reads(q) == q.cost \in Cost
Checks(q) == q.cost \in Cost /\ q.row = bucket
Saves(q) ==
  /\ q = [at |-> "save", cost |-> q.cost, time |-> q.time, allowed |-> q.allowed,
          retryAt |-> q.retryAt, next |-> q.next]
  /\ q.cost \in Cost
  /\ q.time \in Holds.at..now
  /\ q.allowed <=> Refill(Holds, q.time) >= q.cost
  /\ q.retryAt = q.time + q.cost - Refill(Holds, q.time)
  /\ q.next = [tokens |-> IF Refill(Holds, q.time) >= q.cost
                            THEN Refill(Holds, q.time) - q.cost ELSE Refill(Holds, q.time),
               at |-> q.time]

\* What is let through until time a leaves room for x more.
Room(f, a, x) == \A s \in 0..a : f[a + 1] - f[s] + x <= Capacity + a - s

\* Nothing is let through after time a.
Still(f, a) == \A t \in a..MaxNow : f[t + 1] = f[a + 1]

\* Who waits until time u for x tokens finds them in a row that holds k since a.
Waits(a, k, u, x) == \A t \in Int : t >= u /\ t >= a => k + t - a >= x

\* What is let through until the row's time is paid for, x more included.
PaidFor(x) == Room(spent, Holds.at, Holds.tokens + x)

\* From when it was told on, a refused request finds enough.
FindsEnough(q) == Waits(Holds.at, Holds.tokens, q.retryAt, q.cost)

Answers(q) ==
  /\ q.cost \in Cost
  /\ q.time = Holds.at
  /\ q.allowed => PaidFor(q.cost)
  /\ ~ q.allowed => q.retryAt \in Int /\ FindsEnough(q)

Knows(q) ==
  /\ q.at \in {"idle", "read", "check", "save", "answer"}
  /\ q.at = "read" => Reads(q)
  /\ q.at = "check" => Checks(q)
  /\ q.at = "save" => Saves(q)
  /\ q.at = "answer" => Answers(q)

\* Nothing is let through after the row's time.
NothingLater == Still(spent, Holds.at)

BInv ==
  /\ BucketTyped /\ OneAsks
  /\ \A c \in Caller : Knows(asking[c])
  /\ NothingLater /\ PaidFor(0)
  /\ \A q \in told : FindsEnough(q)
  /\ B!NoIntervalOverspent

-------------------------------------------------------------------------------
\* The smaller of two numbers.
LEMMA SmallerOfTwo ==
  ASSUME NEW a \in Int, NEW b \in Int
  PROVE  B!Min({a, b}) = IF a <= b THEN a ELSE b
  <1> DEFINE m == IF a <= b THEN a ELSE b
  <1>1. m \in {a, b} /\ \A y \in {a, b} : m <= y
    OBVIOUS
  <1>2. \A x \in {a, b} : (\A y \in {a, b} : x <= y) => x = m
    OBVIOUS
  <1> QED BY <1>1, <1>2 DEF B!Min

LEMMA RefilledIs ==
  ASSUME BucketConstants, NEW b \in Row, NEW t \in Int
  PROVE  B!Refilled(b, t) = Refill(b, t)
  <1>1. Capacity \in Int /\ b.tokens + t - b.at \in Int
    BY DEF BucketConstants, Row
  <1> QED BY <1>1, SmallerOfTwo DEF B!Refilled, Refill

\* What a row holds.
LEMMA HeldRow ==
  ASSUME BucketConstants, BucketTyped
  PROVE  /\ Holds \in Row
         /\ \A b \in bucket : b = Holds
         /\ bucket # {} => bucket = {Holds}
  <1>1. CASE bucket = {}
    BY <1>1 DEF Holds, BucketConstants, Row
  <1>2. CASE bucket # {}
    <2>1. PICK b \in Row : bucket = {b}
      BY <1>2 DEF BucketTyped
    <2>2. Holds = b
      BY <2>1 DEF Holds
    <2> QED BY <2>1, <2>2
  <1> QED BY <1>1, <1>2

\* A step that leaves the row, and what was let through until its time, alone.
LEMMA SameRow ==
  ASSUME BInv, UNCHANGED <<bucket, spent>>
  PROVE  /\ Holds' = Holds
         /\ NothingLater' /\ PaidFor(0)' /\ B!NoIntervalOverspent'
  <1>1. Holds' = Holds
    BY DEF Holds
  <1>2. NothingLater' /\ PaidFor(0)' /\ B!NoIntervalOverspent'
    BY <1>1 DEF BInv, NothingLater, PaidFor, Room, Still, B!NoIntervalOverspent
  <1> QED BY <1>1, <1>2

\* When one request is past the lock the others are not.
LEMMA OthersIdle ==
  ASSUME OneAsks, NEW c \in Caller, asking[c].at # "idle" \/ locked = {}
  PROVE  \A d \in Caller : d # c => asking[d].at = "idle"
  BY DEF OneAsks

\* A request that goes on as r keeps what is known of all of them.
LEMMA GoesOn ==
  ASSUME BucketTyped, OneAsks, NEW c \in Caller, NEW r, asking[c].at # "idle" \/ locked = {},
         B!Go(c, r), r.at = "idle" \/ locked' = {c}
  PROVE  /\ asking' = [d \in Caller |-> asking'[d]]
         /\ asking'[c] = r
         /\ \A d \in Caller : d # c => asking'[d].at = "idle"
         /\ OneAsks'
  <1>1. \A d \in Caller : d # c => asking[d].at = "idle"
    BY OthersIdle
  <1>2. asking' = [d \in Caller |-> IF d = c THEN r ELSE asking[d]]
    BY DEF B!Go, BucketTyped
  <1> QED BY <1>1, <1>2 DEF OneAsks

\* One that does not change what the row holds.
LEMMA LockStep ==
  ASSUME BucketConstants, BInv, NEW c \in Caller, B!TakeLock(c)
  PROVE  BInv'
  <1> USE DEF BInv
  <1>1. PICK x \in Cost : B!Go(c, [at |-> "read", cost |-> x])
    BY DEF B!TakeLock
  <1>2. /\ asking' = [d \in Caller |-> asking'[d]]
        /\ asking'[c] = [at |-> "read", cost |-> x]
        /\ \A d \in Caller : d # c => asking'[d].at = "idle"
        /\ OneAsks'
    BY <1>1, GoesOn DEF B!TakeLock
  <1>3. UNCHANGED <<now, bucket, spent, told>>
    BY DEF B!TakeLock
  <1>4. Holds' = Holds /\ NothingLater' /\ PaidFor(0)' /\ B!NoIntervalOverspent'
    BY <1>3, SameRow
  <1>5. BucketTyped'
    BY <1>2, <1>3, <1>4 DEF BucketTyped
  <1>6. \A d \in Caller : Knows(asking[d])'
    BY <1>2 DEF Knows, Reads
  <1>7. \A q \in told' : FindsEnough(q)'
    BY <1>3, <1>4 DEF FindsEnough, Waits
  <1> QED BY <1>2, <1>4, <1>5, <1>6, <1>7

LEMMA ReadStep ==
  ASSUME BucketConstants, BInv, NEW c \in Caller, B!ReadBucket(c)
  PROVE  BInv'
  <1> USE DEF BInv
  <1>1. PICK x : x = asking[c].cost
    OBVIOUS
  <1>2. PICK r : r = [at |-> "check", cost |-> x, row |-> bucket]
    OBVIOUS
  <1>3. B!Go(c, r) /\ locked' = {c} /\ asking[c].at = "read"
    BY <1>1, <1>2 DEF B!ReadBucket, OneAsks
  <1>4. /\ asking' = [d \in Caller |-> asking'[d]]
        /\ asking'[c] = r
        /\ \A d \in Caller : d # c => asking'[d].at = "idle"
        /\ OneAsks'
    BY <1>3, GoesOn
  <1>5. UNCHANGED <<now, bucket, spent, told>>
    BY DEF B!ReadBucket
  <1>6. Holds' = Holds /\ NothingLater' /\ PaidFor(0)' /\ B!NoIntervalOverspent'
    BY <1>5, SameRow
  <1>7. BucketTyped'
    BY <1>4, <1>5, <1>6 DEF BucketTyped
  <1>8. x \in Cost
    BY <1>1, <1>3 DEF Knows, Reads
  <1>9. \A d \in Caller : Knows(asking[d])'
    BY <1>2, <1>4, <1>5, <1>8 DEF Knows, Checks
  <1>10. \A q \in told' : FindsEnough(q)'
    BY <1>5, <1>6 DEF FindsEnough, Waits
  <1> QED BY <1>4, <1>6, <1>7, <1>9, <1>10

\* The refill is computed from the row, or from a full one when there is none.
LEMMA CheckStep ==
  ASSUME BucketConstants, BInv, NEW c \in Caller, B!Check(c)
  PROVE  BInv'
  <1> USE DEF BInv
  <1>1. PICK x : x = asking[c].cost
    OBVIOUS
  <1>2. PICK b : b = IF asking[c].row = {} THEN [tokens |-> Capacity, at |-> now]
                     ELSE CHOOSE d \in asking[c].row : TRUE
    OBVIOUS
  <1>3. PICK h : h = B!Refilled(b, now)
    OBVIOUS
  <1>4. PICK r : r = [at |-> "save", cost |-> x, time |-> now, allowed |-> h >= x,
                      retryAt |-> now + x - h,
                      next |-> [tokens |-> IF h >= x THEN h - x ELSE h, at |-> now]]
    OBVIOUS
  <1>5. B!Go(c, r) /\ locked' = {c} /\ asking[c].at = "check"
    BY <1>1, <1>2, <1>3, <1>4 DEF B!Check, B!NextState, OneAsks
  <1>6. /\ asking' = [d \in Caller |-> asking'[d]]
        /\ asking'[c] = r
        /\ \A d \in Caller : d # c => asking'[d].at = "idle"
        /\ OneAsks'
    BY <1>5, GoesOn
  <1>7. UNCHANGED <<now, bucket, spent, told>>
    BY DEF B!Check
  <1>8. Holds' = Holds /\ NothingLater' /\ PaidFor(0)' /\ B!NoIntervalOverspent'
    BY <1>7, SameRow
  <1>9. BucketTyped'
    BY <1>6, <1>7, <1>8 DEF BucketTyped
  <1>10. x \in Cost /\ asking[c].row = bucket
    BY <1>1, <1>5 DEF Knows, Checks
  <1>11. h = Refill(Holds, now)
    <2>1. Holds \in Row /\ now \in Int
      BY HeldRow DEF BucketTyped
    <2>2. CASE bucket = {}
      <3>1. b = [tokens |-> Capacity, at |-> now] /\ b \in Row
        BY <1>2, <1>10, <2>2 DEF BucketTyped, BucketConstants, Row
      <3>2. h = Refill(b, now)
        BY <1>3, <2>1, <3>1, RefilledIs
      <3>3. h = Capacity
        BY <2>1, <3>1, <3>2 DEF Refill, BucketConstants
      <3>4. Refill(Holds, now) = Capacity
        BY <2>2 DEF Holds, Refill, BucketConstants, BucketTyped
      <3> QED BY <3>3, <3>4
    <2>3. CASE bucket # {}
      <3>1. b = Holds
        BY <1>2, <1>10, <2>3 DEF Holds
      <3> QED BY <1>3, <2>1, <3>1, RefilledIs
    <2> QED BY <2>2, <2>3
  <1>12. now \in Holds.at..now
    BY HeldRow DEF BucketTyped, Row
  <1>13. Saves(r)
    BY <1>4, <1>10, <1>11, <1>12 DEF Saves
  <1>14. Saves(asking[c])'
    BY <1>6, <1>7, <1>8, <1>13 DEF Saves, Refill
  <1>15. \A d \in Caller : Knows(asking[d])'
    BY <1>4, <1>6, <1>14 DEF Knows
  <1>16. \A q \in told' : FindsEnough(q)'
    BY <1>7, <1>8 DEF FindsEnough, Waits
  <1> QED BY <1>6, <1>8, <1>9, <1>15, <1>16

\* There is as much room later, if no more is refilled than time goes by.
LEMMA RoomLater ==
  ASSUME BucketConstants, NEW f \in [0..MaxNow + 1 -> Int],
         NEW a \in 0..MaxNow, NEW b \in a..MaxNow, NEW k \in Int, NEW r \in Int,
         r <= Capacity, r <= k + b - a, Still(f, a), Room(f, a, k)
  PROVE  Still(f, b) /\ Room(f, b, r)
  <1> MaxNow \in Nat /\ Capacity \in Nat
    BY DEF BucketConstants
  <1>1. \A t \in a..MaxNow : f[t + 1] = f[a + 1]
    BY DEF Still
  <1>2. f[b + 1] = f[a + 1]
    BY <1>1
  <1>3. Still(f, b)
    BY <1>1, <1>2 DEF Still
  <1>4. ASSUME NEW s \in 0..b
        PROVE  f[b + 1] - f[s] + r <= Capacity + b - s
    <2>1. f[b + 1] \in Int /\ f[s] \in Int /\ s \in Int /\ a \in Int /\ b \in Int
      OBVIOUS
    <2>2. CASE s <= a
      <3>1. f[a + 1] - f[s] + k <= Capacity + a - s
        BY <2>2 DEF Room
      <3> QED BY <1>2, <2>1, <3>1
    <2>3. CASE s > a
      <3>1. PICK t \in a..MaxNow : t + 1 = s
        <4>1. s - 1 \in a..MaxNow /\ s - 1 + 1 = s
          BY <2>3
        <4> QED BY <4>1
      <3>2. f[s] = f[a + 1]
        BY <1>1, <3>1
      <3> QED BY <1>2, <2>1, <3>2
    <2> QED BY <2>1, <2>2, <2>3
  <1>5. Room(f, b, r)
    BY <1>4 DEF Room
  <1> QED BY <1>3, <1>5

LEMMA LessRoom ==
  ASSUME BucketConstants, NEW f \in [0..MaxNow + 1 -> Int], NEW a \in 0..MaxNow,
         NEW k \in Int, NEW r \in Int, r <= k, Room(f, a, k)
  PROVE  Room(f, a, r)
  <1> SUFFICES ASSUME NEW s \in 0..a
               PROVE  f[a + 1] - f[s] + r <= Capacity + a - s
    BY DEF Room
  <1>1. f[a + 1] \in Int /\ f[s] \in Int /\ Capacity \in Int
    BY DEF BucketConstants
  <1>2. f[a + 1] - f[s] + k <= Capacity + a - s
    BY DEF Room
  <1> QED BY <1>1, <1>2

\* Who waits for what a row has finds it in the row refilled.
LEMMA StillWaits ==
  ASSUME BucketConstants, NEW x \in 1..Capacity, NEW u \in Int, NEW a \in Nat, NEW b \in Nat,
         a <= b, NEW k \in Int, NEW r \in Int, r = Capacity \/ r = k + b - a, Waits(a, k, u, x)
  PROVE  Waits(b, r, u, x)
  <1> SUFFICES ASSUME NEW t \in Int, t >= u, t >= b
               PROVE  r + t - b >= x
    BY DEF Waits
  <1>1. k + t - a >= x
    BY DEF Waits
  <1> QED BY <1>1 DEF BucketConstants

\* The upsert: what was refilled goes to the request, or stays in the row.
LEMMA Upsert ==
  ASSUME BucketConstants, BInv, NEW c \in Caller, NEW q, q = asking[c], q.at = "save",
         B!Store(q), UNCHANGED <<now, spent>>
  PROVE  /\ Holds' = q.next /\ q.next \in Row /\ bucket' = {q.next}
         /\ q.next.at = q.time /\ q.time <= now
         /\ NothingLater' /\ PaidFor(0)' /\ B!NoIntervalOverspent'
         /\ q.allowed => Room(spent, q.time, q.next.tokens + q.cost)
         /\ ~ q.allowed => q.retryAt \in Int /\ Waits(q.time, q.next.tokens, q.retryAt, q.cost)
         /\ \A p \in told' : FindsEnough(p)'
         /\ told' \subseteq told
  <1>1. Saves(q) /\ BucketTyped /\ NothingLater /\ PaidFor(0) /\ B!NoIntervalOverspent
        /\ \A p \in told : FindsEnough(p)
    BY DEF BInv, Knows
  <1>2. PICK h : h = Holds
    OBVIOUS
  <1>3. h \in Row /\ h.at <= now
    BY <1>1, <1>2, HeldRow DEF BucketTyped
  <1>4. MaxNow \in Nat /\ Capacity \in Nat /\ now \in 0..MaxNow
    BY <1>1 DEF BucketTyped, BucketConstants
  <1> spent \in [0..MaxNow + 1 -> Int]
    BY <1>1 DEF BucketTyped
  <1>5. PICK a \in 0..MaxNow, k \in 0..Capacity : a = h.at /\ k = h.tokens
    BY <1>3, <1>4 DEF Row
  <1> DEFINE b == q.time
             x == q.cost
             r == Refill(h, b)
             left == IF r >= x THEN r - x ELSE r
  <1>6. b \in a..now /\ x \in 1..Capacity
    BY <1>1, <1>2, <1>5 DEF Saves, BucketConstants
  <1>7. r = IF Capacity <= k + b - a THEN Capacity ELSE k + b - a
    BY <1>5 DEF Refill
  <1>8. q.next = [tokens |-> left, at |-> b] /\ (q.allowed <=> r >= x) /\ q.retryAt = b + x - r
    BY <1>1, <1>2 DEF Saves
  <1> HIDE DEF b, x, r
  <1>9. r \in 0..Capacity /\ r <= k + b - a /\ (r = Capacity \/ r = k + b - a)
    <2>1. a \in Int /\ b \in Int /\ a <= b /\ k \in Int /\ 0 <= k /\ Capacity \in Int /\ 0 <= Capacity
      BY <1>4, <1>5, <1>6
    <2>2. CASE Capacity <= k + b - a
      BY <1>7, <2>1, <2>2
    <2>3. CASE ~ (Capacity <= k + b - a)
      BY <1>7, <2>1, <2>3
    <2> QED BY <2>2, <2>3
  <1>10. left \in 0..Capacity /\ left <= r /\ b \in 0..MaxNow /\ b \in a..MaxNow /\ b \in Nat
         /\ a \in 0..MaxNow /\ k \in Int /\ r \in Int /\ left + 0 \in Int /\ r <= Capacity
    BY <1>4, <1>5, <1>6, <1>9
  <1> DEFINE n == q.next
  <1>11. n \in Row /\ n.tokens = left /\ n.at = b
    BY <1>8, <1>10 DEF Row
  <1> HIDE DEF n
  <1>12. bucket' = {n} /\ told' = (IF q.allowed THEN {} ELSE told)
    BY DEF B!Store, n
  <1>13. Holds' = n
    BY <1>12 DEF Holds
  <1>14. Still(spent, a) /\ Room(spent, a, k)
    <2>1. k + 0 = k
      BY <1>5
    <2> QED BY <1>1, <1>2, <1>5, <2>1 DEF NothingLater, PaidFor
  <1>15. Still(spent, b) /\ Room(spent, b, r)
    BY <1>9, <1>10, <1>14, RoomLater
  <1>17. Room(spent, b, left + 0)
    <2>1. left + 0 <= r
      BY <1>4, <1>10
    <2> QED BY <1>10, <1>15, <2>1, LessRoom
  <1>18. NothingLater' /\ PaidFor(0)'
    BY <1>11, <1>13, <1>15, <1>17 DEF NothingLater, PaidFor, Still, Room
  <1>19. B!NoIntervalOverspent'
    BY <1>1 DEF B!NoIntervalOverspent
  <1>20. q.allowed => Room(spent, b, left + x)
    <2>1. q.allowed => left + x = r
      BY <1>6, <1>8, <1>9
    <2> QED BY <1>15, <2>1
  <1>21. ~ q.allowed => q.retryAt \in Int /\ Waits(b, left, q.retryAt, x)
    <2> SUFFICES ASSUME ~ q.allowed
                 PROVE  q.retryAt \in Int /\ Waits(b, left, q.retryAt, x)
      OBVIOUS
    <2>1. left = r /\ q.retryAt = b + x - r /\ r \in Int /\ x \in Int
      BY <1>6, <1>8, <1>9
    <2> QED BY <1>10, <2>1 DEF Waits
  <1>22. ASSUME NEW p \in told'
         PROVE  FindsEnough(p)'
    <2>1. p \in told /\ ~ q.allowed
      BY <1>12, <1>22
    <2>2. left = r
      BY <1>8, <2>1
    <2>3. PICK y \in 1..Capacity, u \in Int : y = p.cost /\ u = p.retryAt
      BY <1>1, <2>1 DEF BucketTyped, BucketConstants
    <2>4. Waits(a, k, u, y)
      BY <1>1, <1>2, <1>5, <2>1, <2>3 DEF FindsEnough
    <2>5. a \in Nat /\ b \in Nat /\ a <= b /\ k \in Int /\ r \in Int
      BY <1>4, <1>5, <1>6, <1>9, <1>10
    <2>6. Waits(b, r, u, y)
      BY <1>9, <2>3, <2>4, <2>5, StillWaits
    <2> QED BY <1>11, <1>13, <2>2, <2>3, <2>6 DEF FindsEnough, Waits
  <1> QED BY <1>4, <1>6, <1>11, <1>12, <1>13, <1>18, <1>19, <1>20, <1>21, <1>22 DEF n, x, b

LEMMA SaveStep ==
  ASSUME BucketConstants, BInv, NEW c \in Caller, B!Save(c)
  PROVE  BInv'
  <1>1. PICK q : q = asking[c]
    OBVIOUS
  <1>2. PICK r : r = [q EXCEPT !.at = "answer"]
    OBVIOUS
  <1>3. q.at = "save" /\ B!Store(q) /\ B!Go(c, r) /\ UNCHANGED <<now, locked, spent>>
    BY <1>1, <1>2 DEF B!Save
  <1>4. BucketTyped /\ OneAsks /\ Saves(q)
    BY <1>1, <1>3 DEF BInv, Knows
  <1>5. locked' = {c} /\ asking[c].at # "idle"
    BY <1>1, <1>3, <1>4 DEF OneAsks
  <1>6. /\ asking' = [d \in Caller |-> asking'[d]]
        /\ asking'[c] = r
        /\ \A d \in Caller : d # c => asking'[d].at = "idle"
        /\ OneAsks'
    BY <1>3, <1>4, <1>5, GoesOn
  <1>7. /\ Holds' = q.next /\ q.next \in Row /\ bucket' = {q.next}
        /\ q.next.at = q.time /\ q.time <= now
        /\ NothingLater' /\ PaidFor(0)' /\ B!NoIntervalOverspent'
        /\ q.allowed => Room(spent, q.time, q.next.tokens + q.cost)
        /\ ~ q.allowed => q.retryAt \in Int /\ Waits(q.time, q.next.tokens, q.retryAt, q.cost)
        /\ \A p \in told' : FindsEnough(p)'
        /\ told' \subseteq told
    BY <1>1, <1>3, Upsert
  <1>8. BucketTyped'
    BY <1>3, <1>4, <1>6, <1>7 DEF BucketTyped
  <1>9. /\ r.at = "answer" /\ r.cost = q.cost /\ r.time = q.time /\ r.allowed = q.allowed
        /\ r.retryAt = q.retryAt
    BY <1>2, <1>4 DEF Saves
  <1>10. q.cost \in Cost
    BY <1>4 DEF Saves
  <1>11. Answers(asking[c])'
    BY <1>3, <1>6, <1>7, <1>9, <1>10 DEF Answers, PaidFor, FindsEnough, Room, Waits
  <1>12. \A d \in Caller : Knows(asking[d])'
    BY <1>6, <1>9, <1>11 DEF Knows
  <1> QED BY <1>6, <1>7, <1>8, <1>12 DEF BInv

\* A failed request leaves the row, or the row it stored; nothing is let through.
LEMMA FailStep ==
  ASSUME BucketConstants, BInv, NEW c \in Caller, B!Fail(c)
  PROVE  BInv'
  <1>1. PICK q : q = asking[c]
    OBVIOUS
  <1>2. PICK r : r = [at |-> "idle"]
    OBVIOUS
  <1>3. q.at # "idle" /\ B!Go(c, r) /\ UNCHANGED <<now, spent>>
    BY <1>1, <1>2 DEF B!Fail, B!Leave, B!Idle
  <1>4. BucketTyped /\ OneAsks
    BY DEF BInv
  <1>5. /\ asking' = [d \in Caller |-> asking'[d]]
        /\ asking'[c] = r
        /\ \A d \in Caller : d # c => asking'[d].at = "idle"
        /\ OneAsks'
    BY <1>1, <1>2, <1>3, <1>4, GoesOn
  <1>6. \A d \in Caller : Knows(asking[d])'
    BY <1>2, <1>5 DEF Knows
  <1>7. CASE UNCHANGED <<bucket, told>>
    <2>1. Holds' = Holds /\ NothingLater' /\ PaidFor(0)' /\ B!NoIntervalOverspent'
      BY <1>3, <1>7, SameRow
    <2>2. BucketTyped'
      BY <1>3, <1>4, <1>5, <1>7, <2>1 DEF BucketTyped
    <2>3. \A p \in told' : FindsEnough(p)'
      BY <1>7, <2>1 DEF BInv, FindsEnough, Waits
    <2> QED BY <1>5, <1>6, <2>1, <2>2, <2>3 DEF BInv
  <1>8. CASE q.at = "save" /\ B!Store(q)
    <2>1. /\ Holds' = q.next /\ q.next \in Row /\ bucket' = {q.next}
          /\ q.next.at = q.time /\ q.time <= now
          /\ NothingLater' /\ PaidFor(0)' /\ B!NoIntervalOverspent'
          /\ \A p \in told' : FindsEnough(p)'
          /\ told' \subseteq told
      BY <1>1, <1>3, <1>8, Upsert
    <2>2. BucketTyped'
      BY <1>3, <1>4, <1>5, <2>1 DEF BucketTyped
    <2> QED BY <1>5, <1>6, <2>1, <2>2 DEF BInv
  <1> QED BY <1>1, <1>7, <1>8 DEF B!Fail

\* Time may pass: the row is older, and nothing is let through.
LEMMA TickStep ==
  ASSUME BucketConstants, BInv, B!Tick \/ UNCHANGED B!vars
  PROVE  BInv'
  <1>1. UNCHANGED <<bucket, locked, asking, spent, told>> /\ now' \in 0..MaxNow /\ now <= now'
        /\ now \in Int /\ now' \in Int
    BY DEF B!Tick, B!vars, BInv, BucketTyped, BucketConstants
  <1>2. Holds' = Holds /\ NothingLater' /\ PaidFor(0)' /\ B!NoIntervalOverspent'
    BY <1>1, SameRow
  <1>3. BucketTyped /\ Holds.at \in Int
    BY HeldRow DEF BInv, Row
  <1>4. BucketTyped'
    BY <1>1, <1>2, <1>3 DEF BucketTyped
  <1>5. OneAsks' /\ \A p \in told' : FindsEnough(p)'
    BY <1>1, <1>2 DEF BInv, OneAsks, FindsEnough, Waits
  <1>6. ASSUME NEW d \in Caller
        PROVE  Knows(asking[d])'
    <2>1. Knows(asking[d]) /\ asking'[d] = asking[d]
      BY <1>1 DEF BInv
    <2>2. Saves(asking[d]) => Saves(asking[d])'
      BY <1>1, <1>2, <1>3 DEF Saves, Refill
    <2>3. Checks(asking[d]) => Checks(asking[d])'
      BY <1>1 DEF Checks
    <2>4. Answers(asking[d]) => Answers(asking[d])'
      BY <1>1, <1>2 DEF Answers, PaidFor, Room, FindsEnough, Waits
    <2> QED BY <2>1, <2>2, <2>3, <2>4 DEF Knows, Reads
  <1> QED BY <1>2, <1>4, <1>5, <1>6 DEF BInv

\* What one request costs is added from the row's time on.
Added(f, a, x) == [t \in 0..MaxNow + 1 |-> IF t > a THEN f[t] + x ELSE f[t]]

LEMMA SpendAt ==
  ASSUME BucketConstants, NEW f \in [0..MaxNow + 1 -> Int], NEW a \in 0..MaxNow,
         NEW k \in Int, NEW x \in Int, Still(f, a), Room(f, a, k + x)
  PROVE  /\ Added(f, a, x) \in [0..MaxNow + 1 -> Int]
         /\ Still(Added(f, a, x), a) /\ Room(Added(f, a, x), a, k)
  <1> PICK g : g = [t \in 0..MaxNow + 1 |-> IF t > a THEN f[t] + x ELSE f[t]]
    OBVIOUS
  <1> MaxNow \in Nat /\ Capacity \in Nat
    BY DEF BucketConstants
  <1>1. g \in [0..MaxNow + 1 -> Int]
    OBVIOUS
  <1>2. ASSUME NEW t \in a..MaxNow
        PROVE  g[t + 1] = g[a + 1]
    <2>1. f[t + 1] = f[a + 1]
      BY DEF Still
    <2>2. t + 1 \in 0..MaxNow + 1 /\ a + 1 \in 0..MaxNow + 1 /\ t + 1 > a /\ a + 1 > a
      OBVIOUS
    <2>3. g[t + 1] = f[t + 1] + x /\ g[a + 1] = f[a + 1] + x
      BY <2>2
    <2> QED BY <2>1, <2>3
  <1>3. ASSUME NEW s \in 0..a
        PROVE  g[a + 1] - g[s] + k <= Capacity + a - s
    <2>1. f[a + 1] - f[s] + (k + x) <= Capacity + a - s
      BY DEF Room
    <2>2. a + 1 \in 0..MaxNow + 1 /\ s \in 0..MaxNow + 1 /\ a + 1 > a /\ ~ (s > a)
      OBVIOUS
    <2>3. g[a + 1] = f[a + 1] + x /\ g[s] = f[s] /\ f[a + 1] \in Int /\ f[s] \in Int
      BY <2>2
    <2> QED BY <2>1, <2>3
  <1> QED BY <1>1, <1>2, <1>3 DEF Added, Still, Room

\* With room for what the row holds, no interval that ends after it is overspent.
LEMMA RoomIsEnough ==
  ASSUME BucketConstants, NEW f \in [0..MaxNow + 1 -> Int], NEW a \in 0..MaxNow,
         NEW k \in Nat, Still(f, a), Room(f, a, k),
         NEW s \in 0..MaxNow, NEW t \in 0..MaxNow, s <= t, a <= t
  PROVE  f[t + 1] - f[s] <= Capacity + t - s
  <1> MaxNow \in Nat /\ Capacity \in Nat
    BY DEF BucketConstants
  <1>1. f[t + 1] = f[a + 1] /\ f[a + 1] \in Int /\ f[s] \in Int
    BY DEF Still
  <1>2. CASE s <= a
    <2>1. f[a + 1] - f[s] + k <= Capacity + a - s
      BY <1>2 DEF Room
    <2> QED BY <1>1, <2>1
  <1>3. CASE s > a
    <2>1. PICK u \in a..MaxNow : u + 1 = s
      <3>1. s - 1 \in a..MaxNow /\ s - 1 + 1 = s
        BY <1>3
      <3> QED BY <3>1
    <2>2. f[s] = f[a + 1]
      BY <2>1 DEF Still
    <2> QED BY <1>1, <2>2
  <1> QED BY <1>2, <1>3

LEMMA CostsAreNumbers ==
  ASSUME BucketConstants, NEW x \in Cost
  PROVE  x \in Int
  BY DEF BucketConstants

LEMMA AnswerStep ==
  ASSUME BucketConstants, BInv, NEW c \in Caller, B!Answer(c)
  PROVE  BInv'
  <1>1. PICK q : q = asking[c]
    OBVIOUS
  <1>2. PICK r : r = [at |-> "idle"]
    OBVIOUS
  <1>3. q.at = "answer" /\ B!Go(c, r) /\ UNCHANGED <<now, bucket>>
    BY <1>1, <1>2 DEF B!Answer, B!Leave, B!Idle
  <1>4. BucketTyped /\ OneAsks /\ Answers(q)
    BY <1>1, <1>3 DEF BInv, Knows
  <1>5. /\ asking' = [d \in Caller |-> asking'[d]]
        /\ asking'[c] = r
        /\ \A d \in Caller : d # c => asking'[d].at = "idle"
        /\ OneAsks'
    BY <1>1, <1>2, <1>3, <1>4, GoesOn
  <1>6. \A d \in Caller : Knows(asking[d])'
    BY <1>2, <1>5 DEF Knows
  <1>7. Holds' = Holds
    BY <1>3 DEF Holds
  <1>8. CASE ~ q.allowed
    <2>1. told' = told \union {[cost |-> q.cost, retryAt |-> q.retryAt]} /\ UNCHANGED spent
      BY <1>1, <1>8 DEF B!Answer
    <2>2. NothingLater' /\ PaidFor(0)' /\ B!NoIntervalOverspent'
      BY <1>3, <2>1, SameRow
    <2>3. BucketTyped'
      BY <1>3, <1>4, <1>5, <1>7, <1>8, <2>1 DEF BucketTyped, Answers
    <2>4. FindsEnough(q)
      BY <1>4, <1>8 DEF Answers
    <2>5. \A p \in told' : FindsEnough(p)'
      BY <1>7, <2>1, <2>4 DEF BInv, FindsEnough, Waits
    <2> QED BY <1>5, <1>6, <2>2, <2>3, <2>5 DEF BInv
  <1>9. CASE q.allowed
    <2>1. PICK a \in 0..MaxNow, k \in 0..Capacity : a = Holds.at /\ k = Holds.tokens
      <3>1. Holds \in Row /\ Holds.at <= now /\ now \in 0..MaxNow /\ MaxNow \in Nat
        BY <1>4, HeldRow DEF BucketTyped, BucketConstants
      <3> QED BY <3>1 DEF Row
    <2>2. q.time = a /\ q.cost \in Int /\ PaidFor(q.cost)
      <3>1. q.cost \in Cost /\ q.time = Holds.at /\ PaidFor(q.cost)
        BY <1>4, <1>9 DEF Answers
      <3>2. q.cost \in Int
        BY <3>1, CostsAreNumbers
      <3> QED BY <2>1, <3>1, <3>2
    <2>3. PICK g : g = Added(spent, a, q.cost)
      OBVIOUS
    <2>4. spent' = g /\ UNCHANGED told
      BY <1>1, <1>9, <2>2, <2>3 DEF B!Answer, Added
    <2>5. spent \in [0..MaxNow + 1 -> Int] /\ Still(spent, a) /\ Room(spent, a, k + q.cost)
      BY <1>4, <2>1, <2>2 DEF BInv, BucketTyped, NothingLater, PaidFor
    <2>6. k \in Nat /\ k \in Int /\ k + 0 = k
      BY <2>1 DEF BucketConstants
    <2>7. g \in [0..MaxNow + 1 -> Int] /\ Still(g, a) /\ Room(g, a, k)
      BY <2>1, <2>2, <2>3, <2>5, <2>6, SpendAt
    <2>8. NothingLater' /\ PaidFor(0)'
      BY <1>7, <2>1, <2>4, <2>6, <2>7 DEF NothingLater, PaidFor, Still, Room
    <2>9. ASSUME NEW s \in 0..MaxNow, NEW t \in 0..MaxNow, s <= t
          PROVE  g[t + 1] - g[s] <= Capacity + t - s
      <3>1. CASE a <= t
        BY <2>6, <2>7, <2>9, <3>1, RoomIsEnough
      <3>2. CASE ~ (a <= t)
        <4>1. spent[t + 1] - spent[s] <= Capacity + t - s
          BY <2>9 DEF BInv, B!NoIntervalOverspent
        <4>2. MaxNow \in Nat /\ a \in Int /\ s \in Int /\ t \in Int
          BY <2>1 DEF BucketConstants
        <4>3. t + 1 \in 0..MaxNow + 1 /\ s \in 0..MaxNow + 1 /\ ~ (t + 1 > a) /\ ~ (s > a)
          BY <2>9, <3>2, <4>2
        <4>4. g[t + 1] = spent[t + 1] /\ g[s] = spent[s]
          BY <2>3, <4>3 DEF Added
        <4> QED BY <4>1, <4>4
      <3> QED BY <3>1, <3>2
    <2>10. B!NoIntervalOverspent'
      BY <2>4, <2>9 DEF B!NoIntervalOverspent
    <2>11. BucketTyped'
      BY <1>3, <1>4, <1>5, <1>7, <2>4, <2>7 DEF BucketTyped
    <2>12. \A p \in told' : FindsEnough(p)'
      BY <1>7, <2>4 DEF BInv, FindsEnough, Waits
    <2> QED BY <1>5, <1>6, <2>8, <2>10, <2>11, <2>12 DEF BInv
  <1> QED BY <1>8, <1>9

LEMMA BucketStart ==
  ASSUME BucketConstants, B!Init
  PROVE  BInv
  <1>1. Holds = [tokens |-> Capacity, at |-> 0]
    BY DEF B!Init, Holds
  <1>2. MaxNow \in Nat /\ Capacity \in Nat /\ spent = [t \in 0..MaxNow + 1 |-> 0]
    BY DEF B!Init, BucketConstants
  <1>3. BucketTyped
    BY <1>1, <1>2 DEF B!Init, B!Idle, BucketTyped
  <1>4. OneAsks /\ (\A c \in Caller : Knows(asking[c])) /\ \A q \in told : FindsEnough(q)
    BY DEF B!Init, B!Idle, OneAsks, Knows
  <1>5. NothingLater /\ PaidFor(0)
    BY <1>1, <1>2 DEF NothingLater, PaidFor, Still, Room
  <1>6. B!NoIntervalOverspent
    BY <1>2 DEF B!NoIntervalOverspent
  <1> QED BY <1>3, <1>4, <1>5, <1>6 DEF BInv

LEMMA BucketAlways ==
  ASSUME BucketConstants
  PROVE  B!Spec => []BInv
  <1>1. B!Init => BInv
    BY BucketStart
  <1>2. BInv /\ [B!Next]_(B!vars) => BInv'
    <2> SUFFICES ASSUME BInv, [B!Next]_(B!vars)
                 PROVE  BInv'
      OBVIOUS
    <2>1. ASSUME NEW c \in Caller,
                 B!TakeLock(c) \/ B!ReadBucket(c) \/ B!Check(c) \/ B!Save(c) \/ B!Answer(c)
                 \/ B!Fail(c)
          PROVE  BInv'
      BY <2>1, LockStep, ReadStep, CheckStep, SaveStep, AnswerStep, FailStep
    <2>2. CASE B!Tick \/ UNCHANGED B!vars
      BY <2>2, TickStep
    <2> QED BY <2>1, <2>2 DEF B!Next
  <1> QED BY <1>1, <1>2, PTL DEF B!Spec

\* Whatever the requests of a credential do at once, and wherever they fail, in no
\* interval are requests let through that cost more than a full bucket and what
\* is refilled meanwhile: assertNotRateLimited.
THEOREM NothingIsOverspent ==
  ASSUME BucketConstants
  PROVE  B!Spec => []B!NoIntervalOverspent
  <1>1. BInv => B!NoIntervalOverspent
    BY DEF BInv
  <1> QED BY <1>1, BucketAlways, PTL

\* Who comes back when told to, before another request is let through, is let
\* through: checkRateLimit's retryAfterMs.
THEOREM ComingBackIsEnough ==
  ASSUME BucketConstants
  PROVE  B!Spec => []B!RetryAfterIsEnough
  <1>1. BInv => B!RetryAfterIsEnough
    <2> SUFFICES ASSUME BInv, NEW q \in told, NEW b \in bucket, now >= q.retryAt
                 PROVE  B!Refilled(b, now) >= q.cost
      BY DEF B!RetryAfterIsEnough
    <2>1. BucketTyped /\ FindsEnough(q)
      BY DEF BInv
    <2>2. b = Holds /\ b \in Row /\ b.at <= now /\ now \in Int
      BY <2>1, HeldRow DEF BucketTyped, BucketConstants
    <2>3. q.cost \in 1..Capacity /\ Capacity \in Int
      BY <2>1 DEF BucketTyped, BucketConstants
    <2>4. b.tokens + now - b.at >= q.cost
      BY <2>1, <2>2 DEF FindsEnough, Waits
    <2>5. B!Refilled(b, now) = Refill(b, now)
      BY <2>2, RefilledIs
    <2> QED BY <2>3, <2>4, <2>5 DEF Refill
  <1> QED BY <1>1, BucketAlways, PTL

-------------------------------------------------------------------------------
\* The quota of a workspace for language models.

CONSTANTS Quota, MaxTokens
VARIABLES log, shown, operation, used

A == INSTANCE AIQuota WITH spent <- used

QuotaConstants == Quota \in Nat /\ MaxTokens \in Nat \ {0}

Unused == [at |-> "idle", tried |-> 0, tokens |-> 0]

Operation == [at : {"idle", "assert", "complete", "record", "catch up"},
              tried : 0..2, tokens : 0..MaxTokens]

\* What n failures, or n tries of an operation, may have spent.
Worth(n) == n * MaxTokens

QuotaTyped ==
  /\ log \in Seq(Nat) /\ shown \in 0..Len(log)
  /\ operation \in [Caller -> Operation]
  /\ used \in Nat /\ mishaps \in Nat
  /\ A!Recorded <= A!Total(Len(log))

OneOperates ==
  \A c \in Caller : operation[c] = Unused \/ (operation[c].at # "idle" /\ locked = {c})

\* All that was spent is recorded, but for x tokens and what failures lost.
Owed(x) == used <= A!Recorded + x + Worth(mishaps)

\* The quota was not reached before n tries.
UnderQuota(n) == used < Quota + Worth(n) + Worth(mishaps)

\* What the operation that holds the lock knows of the usage.
Accounts(o) ==
  /\ o.at \in {"idle", "assert", "complete"} => Owed(0)
  /\ o.at = "assert" => o.tried = 0
  /\ o.at = "complete" => o.tried < 2 /\ UnderQuota(o.tried)
  /\ o.at \in {"record", "catch up"} => Owed(o.tokens) /\ UnderQuota(o.tried)
  /\ o.at = "catch up" => used <= A!Total(Len(log)) + Worth(mishaps)

QInv ==
  /\ QuotaTyped /\ OneOperates
  /\ \A c \in Caller : operation[c].at # "idle" => Accounts(operation[c])
  /\ (\A c \in Caller : operation[c].at = "idle") => Owed(0)
  /\ UnderQuota(2)

-------------------------------------------------------------------------------
LEMMA WorthIs ==
  ASSUME QuotaConstants, NEW n \in Nat
  PROVE  /\ Worth(n) \in Nat /\ MaxTokens \in Nat
         /\ Worth(n + 1) = Worth(n) + MaxTokens
         /\ \A k \in 0..n : Worth(k) <= Worth(n)
  <1> MaxTokens \in Nat
    BY DEF QuotaConstants
  <1>1. Worth(n) \in Nat /\ Worth(n + 1) = Worth(n) + MaxTokens
    BY DEF Worth
  <1>2. ASSUME NEW k \in 0..n
        PROVE  Worth(k) <= Worth(n)
    <2>1. PICK d \in Nat : n = k + d
      <3>1. n - k \in Nat /\ n = k + (n - k)
        BY <1>2
      <3> QED BY <3>1
    <2>2. (k + d) * MaxTokens = k * MaxTokens + d * MaxTokens /\ d * MaxTokens \in Nat
          /\ k * MaxTokens \in Nat
      BY <1>2
    <2> QED BY <2>1, <2>2 DEF Worth
  <1> QED BY <1>1, <1>2

\* A longer log leaves the totals of the events before.
LEMMA TotalIs ==
  ASSUME QuotaTyped
  PROVE  /\ A!Recorded \in Nat /\ A!Total(Len(log)) \in Nat
         /\ \A t \in Nat : /\ Append(log, t) \in Seq(Nat) /\ Len(Append(log, t)) = Len(log) + 1
                           /\ Append(log, t)[Len(log) + 1] = t
                           /\ \A i \in 1..Len(log) : Append(log, t)[i] = log[i]
  BY DEF QuotaTyped, A!Recorded, A!Total

\* The operation that holds the lock, or takes it, goes on as o; the others are idle.
LEMMA Operates ==
  ASSUME QInv, NEW c \in Caller, operation[c].at # "idle" \/ locked = {},
         NEW o \in Operation, operation' = [operation EXCEPT ![c] = o],
         o = Unused \/ (o.at # "idle" /\ locked' = {c}),
         QuotaTyped', Accounts(o)', UnderQuota(2)'
  PROVE  QInv'
  <1>1. /\ \A d \in Caller : d # c => operation[d] = Unused /\ operation'[d] = Unused
        /\ operation'[c] = o /\ Unused.at = "idle"
    <2>1. \A d \in Caller : operation[d] = Unused \/ (operation[d].at # "idle" /\ locked = {d})
      BY DEF QInv, OneOperates
    <2>2. ASSUME NEW d \in Caller, d # c
          PROVE  operation[d] = Unused
      <3>1. operation[c] = Unused => operation[c].at = "idle"
        BY DEF Unused
      <3>2. locked = {c} \/ locked = {}
        BY <2>1, <3>1
      <3>3. locked # {d}
        BY <2>2, <3>2
      <3> QED BY <2>1, <2>2, <3>3
    <2>3. /\ \A d \in Caller : d # c => operation'[d] = operation[d]
          /\ operation'[c] = o
      BY DEF QInv, QuotaTyped
    <2> QED BY <2>2, <2>3 DEF Unused
  <1>2. OneOperates'
    <2>1. ASSUME NEW d \in Caller
          PROVE  operation'[d] = Unused \/ (operation'[d].at # "idle" /\ locked' = {d})
      <3>1. CASE d = c
        BY <1>1, <3>1
      <3>2. CASE d # c
        BY <1>1, <2>1, <3>2
      <3> QED BY <3>1, <3>2
    <2> QED BY <2>1 DEF OneOperates, Unused
  <1>3. \A d \in Caller : (operation[d].at # "idle" => Accounts(operation[d]))'
    BY <1>1 DEF Accounts, Owed, UnderQuota, A!Recorded, A!Total
  <1>4. (\A d \in Caller : operation'[d].at = "idle") => Owed(0)'
    BY <1>1 DEF Accounts, Owed
  <1> QED BY <1>2, <1>3, <1>4 DEF QInv

LEMMA QuotaLockStep ==
  ASSUME QuotaConstants, QInv, NEW c \in Caller, A!TakeLock(c)
  PROVE  QInv'
  <1>1. PICK o : o = [operation[c] EXCEPT !.at = "assert"]
    OBVIOUS
  <1>2. /\ operation[c] \in Operation /\ operation[c].at = "idle" /\ locked = {} /\ locked' = {c}
        /\ UNCHANGED <<log, shown, used, mishaps>>
        /\ operation' = [operation EXCEPT ![c] = o]
    BY <1>1 DEF A!TakeLock, A!Reach, QInv, QuotaTyped
  <1>3. o \in Operation /\ o.at = "assert" /\ o.tried = 0
    <2>1. operation[c].tried = 0
      BY <1>2 DEF QInv, OneOperates, Unused
    <2> QED BY <1>1, <1>2, <2>1 DEF Operation
  <1>4. \A d \in Caller : operation[d].at = "idle"
    BY <1>2 DEF QInv, OneOperates, Unused
  <1>5. QuotaTyped'
    BY <1>2, <1>3 DEF QInv, QuotaTyped, A!Recorded, A!Total
  <1>6. Accounts(o)' /\ UnderQuota(2)'
    BY <1>2, <1>3, <1>4 DEF QInv, Accounts, Owed, UnderQuota, A!Recorded, A!Total
  <1> QED BY <1>2, <1>3, <1>5, <1>6, Operates

\* The operation under way.
LEMMA UnderWay ==
  ASSUME QuotaConstants, QInv, NEW c \in Caller, operation[c].at # "idle"
  PROVE  /\ locked = {c} /\ operation[c] \in Operation /\ Accounts(operation[c])
         /\ QuotaTyped /\ UnderQuota(2)
         /\ operation[c].tried \in 0..2 /\ operation[c].tokens \in 0..MaxTokens
         /\ \A n \in 0..2 : Worth(n) \in Nat /\ Worth(n) <= Worth(2)
         /\ Worth(mishaps) \in Nat /\ Worth(mishaps + 1) = Worth(mishaps) + MaxTokens
         /\ Worth(0) = 0 /\ MaxTokens \in Nat /\ Quota \in Nat
  <1>1. locked = {c} /\ operation[c] \in Operation /\ Accounts(operation[c]) /\ QuotaTyped /\ UnderQuota(2)
    BY DEF QInv, OneOperates, QuotaTyped, Unused
  <1>2. MaxTokens \in Nat /\ Quota \in Nat /\ mishaps \in Nat
    BY <1>1 DEF QuotaConstants, QuotaTyped
  <1>3. Worth(0) = 0 /\ \A n \in 0..2 : Worth(n) \in Nat /\ Worth(n) <= Worth(2)
    BY <1>2, WorthIs DEF Worth
  <1> QED BY <1>1, <1>2, <1>3, WorthIs DEF Operation

LEMMA AssertStep ==
  ASSUME QuotaConstants, QInv, NEW c \in Caller, A!AssertQuota(c)
  PROVE  QInv'
  <1>1. /\ operation[c].at = "assert" /\ operation[c].at # "idle"
        /\ UNCHANGED <<log, shown, used, mishaps>>
    BY DEF A!AssertQuota
  <1>2. PICK q : q = operation[c]
    OBVIOUS
  <1>3. /\ locked = {c} /\ q \in Operation /\ QuotaTyped /\ UnderQuota(2) /\ Owed(0) /\ q.tried = 0
        /\ Worth(mishaps) \in Nat /\ Worth(0) = 0 /\ (\A n \in 0..2 : Worth(n) \in Nat)
        /\ Quota \in Nat
    BY <1>1, <1>2, UnderWay DEF Accounts
  <1>4. UnderQuota(2)' /\ Owed(0)'
    BY <1>1, <1>3 DEF UnderQuota, Owed, A!Recorded, A!Total
  <1>5. CASE A!Recorded >= Quota
    <2>1. PICK o : o = Unused
      OBVIOUS
    <2>2. operation' = [operation EXCEPT ![c] = o]
      BY <1>5, <2>1 DEF A!AssertQuota, A!Leave, A!Go, A!Idle, Unused
    <2>3. o \in Operation /\ o.at = "idle"
      BY <2>1 DEF Unused, Operation, QuotaConstants
    <2>4. QuotaTyped'
      BY <1>1, <1>3, <2>2, <2>3 DEF QuotaTyped, A!Recorded, A!Total
    <2>5. Accounts(o)'
      BY <1>4, <2>3 DEF Accounts, Owed
    <2> QED BY <1>1, <1>4, <2>1, <2>2, <2>3, <2>4, <2>5, Operates
  <1>6. CASE ~ (A!Recorded >= Quota)
    <2>1. PICK o : o = [q EXCEPT !.at = "complete"]
      OBVIOUS
    <2>2. operation' = [operation EXCEPT ![c] = o] /\ locked' = {c}
      BY <1>2, <1>3, <1>6, <2>1 DEF A!AssertQuota, A!Reach
    <2>3. o \in Operation /\ o.at = "complete" /\ o.tried = q.tried
      BY <1>3, <2>1 DEF Operation
    <2>4. QuotaTyped'
      BY <1>1, <1>3, <2>2, <2>3 DEF QuotaTyped, A!Recorded, A!Total
    <2>5. UnderQuota(0)
      <3>1. PICK recorded \in Nat, lost \in Nat : recorded = A!Recorded /\ lost = Worth(mishaps)
        BY <1>3, TotalIs
      <3>2. recorded < Quota /\ used <= recorded + 0 + lost /\ used \in Nat
        BY <1>3, <1>6, <3>1 DEF Owed, QuotaTyped
      <3>3. used < Quota + 0 + lost
        BY <1>3, <3>1, <3>2
      <3> QED BY <1>3, <3>1, <3>3 DEF UnderQuota
    <2>6. o.tried = 0
      BY <1>3, <2>3
    <2>7. Accounts(o)'
      BY <1>1, <1>4, <2>3, <2>5, <2>6 DEF Accounts, UnderQuota, Owed
    <2> QED BY <1>1, <1>4, <2>2, <2>3, <2>4, <2>7, Operates
  <1> QED BY <1>5, <1>6

\* A completion is spent before it is recorded.
LEMMA CompleteStep ==
  ASSUME QuotaConstants, QInv, NEW c \in Caller, A!Complete(c)
  PROVE  QInv'
  <1>1. PICK t \in 1..MaxTokens :
          /\ used' = used + t
          /\ operation' = [operation EXCEPT ![c] = [at |-> "record", tried |-> operation[c].tried + 1,
                                                    tokens |-> t]]
    BY DEF A!Complete, A!Go
  <1>2. operation[c].at = "complete" /\ UNCHANGED <<log, shown, locked, mishaps>>
    BY DEF A!Complete
  <1>3. /\ locked = {c} /\ QuotaTyped /\ Owed(0)
        /\ operation[c].tried < 2 /\ UnderQuota(operation[c].tried) /\ operation[c].tried \in 0..2
        /\ (\A n \in 0..2 : Worth(n) \in Nat /\ Worth(n) <= Worth(2))
        /\ Worth(mishaps) \in Nat /\ MaxTokens \in Nat /\ Quota \in Nat
    BY <1>2, UnderWay DEF Accounts
  <1>4. PICK n \in {0, 1} : n = operation[c].tried
    BY <1>3
  <1>5. PICK o : o = [at |-> "record", tried |-> n + 1, tokens |-> t]
    OBVIOUS
  <1>6. operation' = [operation EXCEPT ![c] = o] /\ o \in Operation /\ o.at = "record"
        /\ o.tokens = t /\ o.tried = n + 1 /\ o.tried \in 0..2
    BY <1>1, <1>3, <1>4, <1>5 DEF Operation
  <1>7. used \in Nat /\ used' \in Nat
    BY <1>1, <1>3 DEF QuotaTyped
  <1>8. QuotaTyped'
    BY <1>2, <1>3, <1>6, <1>7 DEF QuotaTyped, A!Recorded, A!Total
  <1>9. Owed(t)'
    <2>1. PICK recorded \in Nat : recorded = A!Recorded
      BY <1>3, TotalIs
    <2>2. used <= recorded + 0 + Worth(mishaps)
      BY <1>3, <2>1 DEF Owed
    <2>3. used' <= recorded + t + Worth(mishaps)
      BY <1>1, <1>3, <1>7, <2>1, <2>2
    <2> QED BY <1>2, <2>1, <2>3 DEF Owed, A!Recorded, A!Total
  <1>10. used' < Quota + Worth(n + 1) + Worth(mishaps)
    <2>1. used < Quota + Worth(n) + Worth(mishaps)
      BY <1>3, <1>4 DEF UnderQuota
    <2>2. Worth(n + 1) = Worth(n) + MaxTokens /\ Worth(n) \in Nat
      BY <1>4, WorthIs
    <2> QED BY <1>1, <1>3, <1>7, <2>1, <2>2
  <1>11. UnderQuota(2)'
    <2>1. Worth(n + 1) \in Nat /\ Worth(n + 1) <= Worth(2) /\ Worth(2) \in Nat
      BY <1>3, <1>4
    <2>2. used' < Quota + Worth(2) + Worth(mishaps)
      BY <1>3, <1>7, <1>10, <2>1
    <2> QED BY <1>2, <2>2 DEF UnderQuota
  <1>12. Accounts(o)'
    <2>1. UnderQuota(o.tried)'
      BY <1>2, <1>6, <1>10 DEF UnderQuota
    <2> QED BY <1>6, <1>9, <2>1 DEF Accounts, Owed
  <1> QED BY <1>2, <1>3, <1>6, <1>8, <1>11, <1>12, Operates

\* The log goes on, or stays.
LogGoesOn(c) == log' = log \/ A!Logs(c)

LEMMA LogStep ==
  ASSUME QuotaTyped, NEW c \in Caller, operation[c].tokens \in Nat, LogGoesOn(c), shown' = shown
  PROVE  /\ log' \in Seq(Nat) /\ shown' \in 0..Len(log')
         /\ A!Recorded' = A!Recorded /\ A!Total(Len(log)) <= A!Total(Len(log))'
         /\ A!Recorded \in Nat /\ A!Total(Len(log))' \in Nat
         /\ A!Logs(c) => A!Total(Len(log))' = A!Total(Len(log)) + operation[c].tokens
  <1>1. log \in Seq(Nat) /\ shown \in 0..Len(log) /\ A!Total(Len(log)) \in Nat /\ A!Recorded \in Nat
    BY TotalIs DEF QuotaTyped
  <1>2. CASE log' = log
    <2>1. A!Recorded' = A!Recorded /\ A!Total(Len(log))' = A!Total(Len(log))
      BY <1>2 DEF A!Recorded, A!Total
    <2>2. ~ A!Logs(c)
      BY <1>1, <1>2 DEF A!Logs
    <2> QED BY <1>1, <1>2, <2>1, <2>2
  <1>3. CASE A!Logs(c)
    <2>1. PICK t \in Nat : t = A!Total(Len(log)) + operation[c].tokens
      BY <1>1
    <2>2. log' = Append(log, t)
      BY <1>3, <2>1 DEF A!Logs
    <2>3. log' \in Seq(Nat) /\ Len(log') = Len(log) + 1 /\ log'[Len(log) + 1] = t
          /\ \A i \in 1..Len(log) : log'[i] = log[i]
      BY <1>1, <2>2
    <2>4. A!Total(Len(log))' = t
      BY <1>1, <2>3 DEF A!Total
    <2>5. A!Recorded' = A!Recorded
      BY <1>1, <2>3 DEF A!Recorded, A!Total
    <2> QED BY <1>1, <2>1, <2>3, <2>4, <2>5
  <1> QED BY <1>2, <1>3 DEF LogGoesOn

\* All but the operations' places is typed.
TypedStore ==
  /\ log \in Seq(Nat) /\ shown \in 0..Len(log)
  /\ used \in Nat /\ mishaps \in Nat
  /\ A!Recorded <= A!Total(Len(log))

LEMMA Leaves ==
  ASSUME QuotaConstants, QInv, NEW c \in Caller, operation[c].at # "idle", A!Leave(c),
         TypedStore', Owed(0)', UnderQuota(2)'
  PROVE  QInv'
  <1>1. PICK o : o = Unused
    OBVIOUS
  <1>2. operation' = [operation EXCEPT ![c] = o]
    BY <1>1 DEF A!Leave, A!Go, A!Idle, Unused
  <1>3. o \in Operation /\ o.at = "idle"
    BY <1>1 DEF Unused, Operation, QuotaConstants
  <1>4. QuotaTyped'
    BY <1>2, <1>3 DEF QInv, QuotaTyped, TypedStore
  <1>5. Accounts(o)'
    BY <1>3 DEF Accounts, Owed
  <1> QED BY <1>1, <1>2, <1>3, <1>4, <1>5, Operates

\* After a completion the operation is done, or asks once more.
LEMMA Parses ==
  ASSUME QuotaConstants, QInv, NEW c \in Caller, operation[c].at # "idle", A!Parse(c),
         TypedStore', Owed(0)', UnderQuota(2)', NEW n, n = operation[c].tried, UnderQuota(n)'
  PROVE  QInv'
  <1>1. CASE A!Leave(c)
    BY <1>1, Leaves
  <1>2. CASE operation[c].tried < A!MaxTries /\ A!Reach(c, "complete") /\ UNCHANGED locked
    <2>1. PICK o : o = [operation[c] EXCEPT !.at = "complete"]
      OBVIOUS
    <2>2. operation' = [operation EXCEPT ![c] = o] /\ locked' = {c}
      BY <1>2, <2>1, UnderWay DEF A!Reach
    <2>3. o \in Operation /\ o.at = "complete" /\ o.tried = n /\ n < 2
      BY <1>2, <2>1, UnderWay DEF Operation, A!MaxTries
    <2>4. QuotaTyped'
      BY <2>2, <2>3 DEF QInv, QuotaTyped, TypedStore
    <2>5. Accounts(o)'
      BY <2>3 DEF Accounts, Owed, UnderQuota
    <2> QED BY <2>2, <2>3, <2>4, <2>5, Operates
  <1> QED BY <1>1, <1>2 DEF A!Parse

LEMMA RecordStep ==
  ASSUME QuotaConstants, QInv, NEW c \in Caller, A!RecordUsage(c)
  PROVE  QInv'
  <1>1. /\ operation[c].at = "record" /\ A!Logs(c) /\ UNCHANGED <<shown, locked, used, mishaps>>
    BY DEF A!RecordUsage
  <1>2. PICK q : q = operation[c]
    OBVIOUS
  <1>3. /\ locked = {c} /\ q \in Operation /\ QuotaTyped /\ UnderQuota(2) /\ Owed(q.tokens)
        /\ UnderQuota(q.tried) /\ q.tokens \in 0..MaxTokens /\ MaxTokens \in Nat
        /\ Worth(mishaps) \in Nat
    BY <1>1, <1>2, UnderWay DEF Accounts
  <1>4. PICK o : o = [q EXCEPT !.at = "catch up"]
    OBVIOUS
  <1>5. operation' = [operation EXCEPT ![c] = o] /\ o \in Operation /\ o.at = "catch up"
        /\ o.tried = q.tried /\ o.tokens = q.tokens /\ q.tokens \in Nat
    <2>1. operation' = [operation EXCEPT ![c] = o]
      BY <1>2, <1>4 DEF A!RecordUsage, A!Reach
    <2>2. o \in Operation /\ o.at = "catch up" /\ o.tried = q.tried /\ o.tokens = q.tokens
      BY <1>3, <1>4 DEF Operation
    <2>3. q.tokens \in Nat
      BY <1>3
    <2> QED BY <2>1, <2>2, <2>3
  <1>6. /\ log' \in Seq(Nat) /\ shown' \in 0..Len(log') /\ A!Recorded' = A!Recorded
        /\ A!Recorded \in Nat /\ A!Total(Len(log)) \in Nat
        /\ A!Total(Len(log))' = A!Total(Len(log)) + q.tokens
        /\ A!Recorded <= A!Total(Len(log))
    BY <1>1, <1>2, <1>3, <1>5, LogStep, TotalIs DEF LogGoesOn, QuotaTyped
  <1>7. QuotaTyped'
    <2>1. A!Recorded' <= A!Total(Len(log))'
      <3>1. PICK r \in Nat, t \in Nat : r = A!Recorded /\ t = A!Total(Len(log))
        BY <1>6
      <3>2. PICK x \in Nat : x = q.tokens
        BY <1>5
      <3>3. A!Recorded' = r /\ A!Total(Len(log))' = t + x /\ r <= t
        BY <1>6, <3>1, <3>2
      <3> QED BY <3>1, <3>2, <3>3
    <2>2. used' \in Nat /\ mishaps' \in Nat
      BY <1>1, <1>3 DEF QuotaTyped
    <2>3. operation' \in [Caller -> Operation]
      BY <1>3, <1>5 DEF QuotaTyped
    <2> QED BY <1>6, <2>1, <2>2, <2>3 DEF QuotaTyped
  <1>8. UnderQuota(2)' /\ UnderQuota(q.tried)' /\ Owed(q.tokens)'
    BY <1>1, <1>3, <1>6 DEF UnderQuota, Owed
  <1>9. used' <= A!Total(Len(log))' + Worth(mishaps)
    <2>1. used <= A!Recorded + q.tokens + Worth(mishaps) /\ used \in Nat
      BY <1>3 DEF Owed, QuotaTyped
    <2>2. PICK total \in Nat, recorded \in Nat :
            /\ total = A!Total(Len(log)) /\ recorded = A!Recorded /\ recorded <= total
            /\ A!Total(Len(log))' = total + q.tokens
      BY <1>6
    <2>3. PICK x \in Nat, lost \in Nat : x = q.tokens /\ lost = Worth(mishaps)
      BY <1>3, <1>5
    <2>4. used <= recorded + x + lost
      BY <2>1, <2>2, <2>3
    <2>5. used <= total + x + lost
      BY <2>1, <2>2, <2>3, <2>4
    <2> QED BY <1>1, <2>2, <2>3, <2>5
  <1>10. Accounts(o)'
    BY <1>1, <1>5, <1>8, <1>9 DEF Accounts, Owed, UnderQuota
  <1> QED BY <1>1, <1>2, <1>3, <1>5, <1>7, <1>8, <1>10, Operates

LEMMA CatchUpStep ==
  ASSUME QuotaConstants, QInv, NEW c \in Caller, A!CatchUpUsage(c)
  PROVE  QInv'
  <1>1. operation[c].at = "catch up" /\ shown' = Len(log) /\ A!Parse(c) /\ UNCHANGED <<log, used, mishaps>>
    BY DEF A!CatchUpUsage
  <1>2. PICK n : n = operation[c].tried
    OBVIOUS
  <1>3. /\ QuotaTyped /\ UnderQuota(2) /\ UnderQuota(n) /\ Worth(mishaps) \in Nat
        /\ used <= A!Total(Len(log)) + Worth(mishaps)
    BY <1>1, <1>2, UnderWay DEF Accounts
  <1>4. A!Recorded' = A!Total(Len(log)) /\ A!Total(Len(log))' = A!Total(Len(log))
        /\ A!Total(Len(log)) \in Nat
    BY <1>1, <1>3, TotalIs DEF A!Recorded, A!Total
  <1>5. TypedStore'
    <2>1. A!Recorded' <= A!Total(Len(log))'
      BY <1>4
    <2>2. log' \in Seq(Nat) /\ shown' \in 0..Len(log') /\ used' \in Nat /\ mishaps' \in Nat
      <3>1. log \in Seq(Nat) /\ used \in Nat /\ mishaps \in Nat
        BY <1>3 DEF QuotaTyped
      <3>2. log' = log /\ used' = used /\ mishaps' = mishaps /\ shown' = Len(log)
        BY <1>1
      <3>3. Len(log) \in 0..Len(log)
        BY <3>1
      <3>4. log' \in Seq(Nat)
        BY <3>1, <3>2
      <3>5. shown' \in 0..Len(log')
        BY <3>1, <3>2, <3>3
      <3> QED BY <3>1, <3>2, <3>4, <3>5
    <2> QED BY <2>1, <2>2 DEF TypedStore
  <1>6. Owed(0)' /\ UnderQuota(2)' /\ UnderQuota(n)'
    <2>1. used <= A!Total(Len(log)) + 0 + Worth(mishaps)
      BY <1>3, <1>4
    <2>2. Owed(0)'
      BY <1>1, <1>4, <2>1 DEF Owed
    <2> QED BY <1>1, <1>3, <2>2 DEF UnderQuota
  <1> QED BY <1>1, <1>2, <1>5, <1>6, Parses

\* A failure costs a completion that is not recorded, or not yet shown.
LEMMA MoreFailures ==
  ASSUME QuotaConstants, QInv, NEW c \in Caller, operation[c].at # "idle",
         mishaps' = mishaps + 1, used' = used, shown' = shown, LogGoesOn(c)
  PROVE  /\ TypedStore' /\ Owed(0)' /\ UnderQuota(2)'
         /\ operation[c].at \in {"record", "catch up"} =>
              used' < Quota + Worth(operation[c].tried) + Worth(mishaps')
  <1>1. PICK q : q = operation[c]
    OBVIOUS
  <1>2. /\ q \in Operation /\ QuotaTyped /\ UnderQuota(2) /\ Accounts(q)
        /\ q.tokens \in 0..MaxTokens /\ MaxTokens \in Nat /\ q.tokens \in Nat /\ q.tried \in 0..2
        /\ (\A n \in 0..2 : Worth(n) \in Nat) /\ Worth(mishaps) \in Nat
        /\ Worth(mishaps + 1) = Worth(mishaps) + MaxTokens /\ Quota \in Nat
    BY <1>1, UnderWay
  <1>3. /\ log' \in Seq(Nat) /\ shown' \in 0..Len(log') /\ A!Recorded' = A!Recorded
        /\ A!Total(Len(log)) <= A!Total(Len(log))' /\ A!Recorded \in Nat
        /\ A!Total(Len(log)) \in Nat /\ A!Total(Len(log))' \in Nat
        /\ A!Recorded <= A!Total(Len(log))
    BY <1>1, <1>2, LogStep, TotalIs DEF QuotaTyped
  <1>4. used \in Nat /\ mishaps \in Nat
    BY <1>2 DEF QuotaTyped
  <1>5. TypedStore'
    BY <1>3, <1>4 DEF TypedStore
  <1>6. used <= A!Recorded + 0 + Worth(mishaps) \/ used <= A!Recorded + q.tokens + Worth(mishaps)
    BY <1>1, <1>2 DEF Accounts, Owed, Operation
  <1>7. used' <= A!Recorded' + 0 + Worth(mishaps')
    <2>1. PICK recorded \in Nat, lost \in Nat, owed \in 0..MaxTokens :
            recorded = A!Recorded /\ lost = Worth(mishaps) /\ owed = q.tokens
      BY <1>2, <1>3
    <2>2. used <= recorded + lost + MaxTokens
      BY <1>2, <1>4, <1>6, <2>1
    <2>3. A!Recorded' = recorded /\ Worth(mishaps') = lost + MaxTokens
      BY <1>2, <1>3, <2>1
    <2>4. used' <= recorded + 0 + (lost + MaxTokens)
      BY <1>2, <1>4, <2>1, <2>2
    <2> QED BY <2>3, <2>4
  <1>8. \A n \in 0..2 : UnderQuota(n) => used' < Quota + Worth(n) + Worth(mishaps')
    BY <1>2, <1>4 DEF UnderQuota
  <1>9. UnderQuota(2)'
    BY <1>2, <1>8 DEF UnderQuota
  <1>10. q.at \in {"record", "catch up"} => used' < Quota + Worth(q.tried) + Worth(mishaps')
    BY <1>2, <1>8 DEF Accounts
  <1> QED BY <1>1, <1>5, <1>7, <1>9, <1>10 DEF Owed

LEMMA RecordFailStep ==
  ASSUME QuotaConstants, QInv, NEW c \in Caller, A!RecordFails(c)
  PROVE  QInv'
  <1>1. /\ operation[c].at \in {"record", "catch up"} /\ operation[c].at # "idle" /\ A!Parse(c)
        /\ mishaps' = mishaps + 1 /\ UNCHANGED <<shown, used>> /\ LogGoesOn(c)
    BY DEF A!RecordFails, A!Mishap, LogGoesOn
  <1>2. PICK n : n = operation[c].tried
    OBVIOUS
  <1>3. TypedStore' /\ Owed(0)' /\ UnderQuota(2)' /\ used' < Quota + Worth(n) + Worth(mishaps')
    BY <1>1, <1>2, MoreFailures
  <1>4. UnderQuota(n)'
    BY <1>3 DEF UnderQuota
  <1> QED BY <1>1, <1>2, <1>3, <1>4, Parses

LEMMA OperationFailStep ==
  ASSUME QuotaConstants, QInv, NEW c \in Caller, A!Fail(c)
  PROVE  QInv'
  <1>1. operation[c].at # "idle" /\ A!Leave(c) /\ mishaps' = mishaps + 1
        /\ UNCHANGED <<shown, used>> /\ LogGoesOn(c)
    BY DEF A!Fail, A!Mishap, LogGoesOn
  <1> QED BY <1>1, MoreFailures, Leaves

LEMMA QuotaStart ==
  ASSUME QuotaConstants, A!Init
  PROVE  QInv
  <1>1. log = << >> /\ Len(log) = 0 /\ shown = 0 /\ used = 0 /\ mishaps = 0
        /\ operation = [c \in Caller |-> Unused]
    BY DEF A!Init, A!Idle, Unused
  <1>2. Unused \in Operation /\ Unused.at = "idle"
    BY DEF Unused, Operation, QuotaConstants
  <1>3. A!Recorded = 0 /\ A!Total(Len(log)) = 0
    BY <1>1 DEF A!Recorded, A!Total
  <1>4. QuotaTyped
    BY <1>1, <1>2, <1>3 DEF QuotaTyped
  <1>5. OneOperates /\ \A c \in Caller : operation[c].at = "idle"
    BY <1>1, <1>2 DEF OneOperates
  <1>6. MaxTokens \in Nat /\ MaxTokens > 0 /\ Quota \in Nat
    BY DEF QuotaConstants
  <1>7. Worth(mishaps) = 0 /\ Worth(2) = MaxTokens + MaxTokens
    BY <1>1, <1>6 DEF Worth
  <1>8. UnderQuota(2)
    BY <1>1, <1>6, <1>7 DEF UnderQuota
  <1>9. Owed(0)
    BY <1>1, <1>3, <1>7 DEF Owed
  <1> QED BY <1>4, <1>5, <1>8, <1>9 DEF QInv

LEMMA QuotaAlways ==
  ASSUME QuotaConstants
  PROVE  A!Spec => []QInv
  <1>1. A!Init => QInv
    BY QuotaStart
  <1>2. QInv /\ [A!Next]_(A!vars) => QInv'
    <2> SUFFICES ASSUME QInv, [A!Next]_(A!vars)
                 PROVE  QInv'
      OBVIOUS
    <2>1. ASSUME NEW c \in Caller,
                 A!TakeLock(c) \/ A!AssertQuota(c) \/ A!Complete(c) \/ A!RecordUsage(c)
                 \/ A!CatchUpUsage(c) \/ A!RecordFails(c) \/ A!Fail(c)
          PROVE  QInv'
      BY <2>1, QuotaLockStep, AssertStep, CompleteStep, RecordStep, CatchUpStep, RecordFailStep,
         OperationFailStep
    <2>2. CASE UNCHANGED A!vars
      <3>1. QuotaTyped' /\ OneOperates' /\ UnderQuota(2)' /\ (Owed(0) => Owed(0)')
        BY <2>2 DEF A!vars, QInv, QuotaTyped, OneOperates, UnderQuota, Owed, A!Recorded, A!Total
      <3>2. \A o : Accounts(o) => Accounts(o)'
        BY <2>2 DEF A!vars, Accounts, UnderQuota, Owed, A!Recorded, A!Total
      <3>3. operation' = operation
        BY <2>2 DEF A!vars
      <3>4. \A c \in Caller : (operation[c].at # "idle" => Accounts(operation[c]))'
        <4> SUFFICES ASSUME NEW c \in Caller, operation[c].at # "idle"
                     PROVE  Accounts(operation[c])'
          BY <3>3
        <4>1. PICK o : o = operation[c] /\ o = operation'[c]
          BY <3>3
        <4>2. Accounts(o)
          BY <4>1 DEF QInv
        <4> QED BY <3>2, <4>1, <4>2 DEF Accounts, Owed, UnderQuota
      <3> QED BY <3>1, <3>3, <3>4 DEF QInv
    <2> QED BY <2>1, <2>2 DEF A!Next
  <1> QED BY <1>1, <1>2, PTL DEF A!Spec

\* However operations of a workspace overlap and fail, it exceeds its quota by the
\* completions of one operation at most, and one for each usage record that was
\* lost: withWorkspaceAILock and what every service does under it.
THEOREM QuotaHolds ==
  ASSUME QuotaConstants
  PROVE  A!Spec => []A!OvershootPaidFor
  <1>1. QInv => A!OvershootPaidFor
    <2> SUFFICES ASSUME QInv
                 PROVE  A!OvershootPaidFor
      OBVIOUS
    <2>1. mishaps \in Nat /\ MaxTokens \in Nat /\ used < Quota + Worth(2) + Worth(mishaps)
          /\ Quota \in Nat
      BY DEF QInv, QuotaTyped, UnderQuota, QuotaConstants
    <2>2. Worth(2) + Worth(mishaps) = (A!MaxTries + mishaps) * MaxTokens
      BY <2>1 DEF Worth, A!MaxTries
    <2>3. Worth(2) \in Nat /\ Worth(mishaps) \in Nat /\ used \in Nat
      BY <2>1, WorthIs DEF QInv, QuotaTyped
    <2>4. Quota + Worth(2) + Worth(mishaps) = Quota + (Worth(2) + Worth(mishaps))
      BY <2>1, <2>3
    <2> QED BY <2>1, <2>2, <2>4 DEF A!OvershootPaidFor
  <1> QED BY <1>1, QuotaAlways, PTL

-------------------------------------------------------------------------------
\* The notifications of a member.

CONSTANTS Budget, MaxOutcomes
VARIABLES quiet, notice, delivered, clashes

N == INSTANCE NotificationBudget

NoticeConstants == Budget \in Nat

ForTheBudget == "suppressed_budget_exceeded"
Outcome == {"delivered", "suppressed_quiet_hours", ForTheBudget}

Notice == [at : {"idle", "count", "deliver", "record", "show"},
           outcome : Outcome \union {"none"}]

NoticeTyped ==
  /\ log \in Seq(Outcome) /\ shown \in 0..Len(log)
  /\ notice \in [Caller -> Notice]
  /\ \A c \in Caller : notice[c].at = "record" => notice[c].outcome # "none"

\* The log has no delivery, and unless the budget is 0 nothing for the budget: no
\* call is about to record that, and so none that counts deliveries finds one.
NoDeliveryRecorded == \A i \in 1..Len(log) : log[i] # "delivered"
NoneForTheBudget ==
  Budget # 0 => /\ \A i \in 1..Len(log) : log[i] # ForTheBudget
                /\ \A c \in Caller : notice[c].outcome # ForTheBudget

NInv == NoticeTyped /\ NoDeliveryRecorded /\ NoneForTheBudget

-------------------------------------------------------------------------------
\* A call goes on to a place, and what it does not record stays as it is.
LEMMA NoticeWaits ==
  ASSUME NInv, NEW c \in Caller, NEW at, NEW outcome, N!Go(c, at, outcome),
         at \in {"idle", "count", "deliver", "record", "show"},
         outcome \in Outcome \union {"none"}, at = "record" => outcome # "none",
         Budget # 0 => outcome # ForTheBudget,
         log' = log, shown' \in {shown, Len(log)}
  PROVE  NInv'
  <1>1. PICK o \in Notice : o = [at |-> at, outcome |-> outcome]
    BY DEF Notice
  <1>2. /\ notice' = [notice EXCEPT ![c] = o] /\ notice \in [Caller -> Notice]
        /\ o.at = at /\ o.outcome = outcome
    BY <1>1 DEF N!Go, NInv, NoticeTyped
  <1>3. notice' \in [Caller -> Notice] /\ \A d \in Caller : notice'[d] \in {o, notice[d]}
    BY <1>2
  <1>4. shown' \in 0..Len(log')
    BY DEF NInv, NoticeTyped
  <1>5. \A d \in Caller : notice'[d].at = "record" => notice'[d].outcome # "none"
    BY <1>2, <1>3 DEF NInv, NoticeTyped
  <1>6. NoticeTyped'
    BY <1>3, <1>4, <1>5 DEF NInv, NoticeTyped
  <1>7. Budget # 0 => \A d \in Caller : notice'[d].outcome # ForTheBudget
    BY <1>2, <1>3 DEF NInv, NoneForTheBudget
  <1> QED BY <1>6, <1>7 DEF NInv, NoneForTheBudget, NoDeliveryRecorded

\* A call records what it did, and goes on.
LEMMA NoticeRecords ==
  ASSUME NInv, NEW c \in Caller, notice[c].at = "record", N!Record(c), shown' = shown,
         NEW at \in {"idle", "show"}, NEW outcome \in {"none", notice[c].outcome},
         N!Go(c, at, outcome)
  PROVE  NInv'
  <1>1. PICK e \in Outcome : e = notice[c].outcome /\ e # "delivered" /\ log' = Append(log, e)
    BY DEF NInv, NoticeTyped, Notice, N!Record
  <1>2. PICK o \in Notice : o = [at |-> at, outcome |-> outcome]
    BY <1>1 DEF Notice
  <1>3. /\ notice' = [notice EXCEPT ![c] = o] /\ notice \in [Caller -> Notice]
        /\ o.at # "record" /\ o.outcome \in {"none", e}
    BY <1>1, <1>2 DEF N!Go, NInv, NoticeTyped
  <1>4. notice' \in [Caller -> Notice] /\ \A d \in Caller : notice'[d] \in {o, notice[d]}
    BY <1>3
  <1>5. log \in Seq(Outcome) /\ shown \in 0..Len(log)
    BY DEF NInv, NoticeTyped
  <1>6. PICK n \in Nat : n = Len(log)
    BY <1>5
  <1>7. /\ log' \in Seq(Outcome) /\ Len(log') = n + 1 /\ shown' \in 0..Len(log')
        /\ log'[n + 1] = e /\ \A i \in 1..n : log'[i] = log[i]
    BY <1>1, <1>5, <1>6
  <1>8. NoticeTyped'
    BY <1>3, <1>4, <1>7 DEF NInv, NoticeTyped
  <1>9. NoDeliveryRecorded'
    BY <1>1, <1>6, <1>7 DEF NInv, NoDeliveryRecorded
  <1>10. Budget # 0 => /\ e # ForTheBudget
                       /\ \A i \in 1..n : log[i] # ForTheBudget
                       /\ \A d \in Caller : notice[d].outcome # ForTheBudget
    BY <1>1, <1>6 DEF NInv, NoneForTheBudget
  <1>11. NoneForTheBudget'
    BY <1>3, <1>4, <1>7, <1>10 DEF NoneForTheBudget, ForTheBudget
  <1> QED BY <1>8, <1>9, <1>11 DEF NInv

LEMMA HourStep ==
  ASSUME NInv, UNCHANGED <<log, shown, notice>>
  PROVE  NInv'
  BY DEF NInv, NoticeTyped, NoDeliveryRecorded, NoneForTheBudget

LEMMA QuietStep ==
  ASSUME NInv, NEW c \in Caller, N!CheckQuietHours(c)
  PROVE  NInv'
  <1>1. /\ log' = log /\ shown' = shown
        /\ N!Go(c, "record", "suppressed_quiet_hours") \/ N!Go(c, "count", "none")
    BY DEF N!CheckQuietHours
  <1>2. CASE N!Go(c, "record", "suppressed_quiet_hours")
    BY <1>1, <1>2, NoticeWaits DEF Outcome, ForTheBudget
  <1>3. CASE N!Go(c, "count", "none")
    BY <1>1, <1>3, NoticeWaits DEF Outcome, ForTheBudget
  <1> QED BY <1>1, <1>2, <1>3

\* Nothing that is shown is a delivery.
LEMMA CountsNothing ==
  ASSUME NInv
  PROVE  N!CountDelivered = 0
  <1>1. \A S : N!Cardinality(S) = Cardinality(S)
    BY DEF N!Cardinality, Cardinality
  <1>2. {i \in 1..shown : log[i] = "delivered"} = {}
    <2>1. PICK n \in Nat : n = Len(log)
      BY DEF NInv, NoticeTyped
    <2> QED BY <2>1 DEF NInv, NoticeTyped, NoDeliveryRecorded
  <1> QED BY <1>1, <1>2, FS_EmptySet DEF N!CountDelivered, N!Quantify

LEMMA BudgetStep ==
  ASSUME NoticeConstants, NInv, NEW c \in Caller, N!CheckBudget(c)
  PROVE  NInv'
  <1>1. /\ log' = log /\ shown' = shown
        /\ \/ 0 >= Budget /\ N!Go(c, "record", ForTheBudget)
           \/ N!Go(c, "deliver", "none")
    BY CountsNothing DEF N!CheckBudget, ForTheBudget
  <1>2. Budget # 0 => ~(0 >= Budget)
    BY DEF NoticeConstants
  <1>3. CASE 0 >= Budget /\ N!Go(c, "record", ForTheBudget)
    BY <1>1, <1>2, <1>3, NoticeWaits DEF Outcome, ForTheBudget
  <1>4. CASE N!Go(c, "deliver", "none")
    BY <1>1, <1>4, NoticeWaits DEF Outcome, ForTheBudget
  <1> QED BY <1>1, <1>3, <1>4

LEMMA DeliverStep ==
  ASSUME NInv, NEW c \in Caller, N!Deliver(c)
  PROVE  NInv'
  BY NoticeWaits DEF N!Deliver, Outcome, ForTheBudget

LEMMA RecordOutcomeStep ==
  ASSUME NInv, NEW c \in Caller, N!RecordOutcome(c)
  PROVE  NInv'
  <1>1. /\ notice[c].at = "record" /\ shown' = shown
        /\ \/ N!Record(c) /\ N!Go(c, "show", notice[c].outcome)
           \/ log' = log /\ N!Go(c, "idle", "none")
    BY DEF N!RecordOutcome
  <1>2. CASE N!Record(c) /\ N!Go(c, "show", notice[c].outcome)
    BY <1>1, <1>2, NoticeRecords
  <1>3. CASE log' = log /\ N!Go(c, "idle", "none")
    BY <1>1, <1>3, NoticeWaits DEF ForTheBudget
  <1> QED BY <1>1, <1>2, <1>3

LEMMA ShownStep ==
  ASSUME NInv, NEW c \in Caller, N!CatchUp(c)
  PROVE  NInv'
  BY NoticeWaits DEF N!CatchUp, ForTheBudget

LEMMA NoticeFailStep ==
  ASSUME NInv, NEW c \in Caller, N!Fail(c)
  PROVE  NInv'
  <1>1. /\ shown' = shown /\ N!Go(c, "idle", "none")
        /\ log' = log \/ (notice[c].at = "record" /\ N!Record(c))
    BY DEF N!Fail
  <1>2. CASE log' = log
    BY <1>1, <1>2, NoticeWaits DEF ForTheBudget
  <1>3. CASE notice[c].at = "record" /\ N!Record(c)
    BY <1>1, <1>3, NoticeRecords
  <1> QED BY <1>1, <1>2, <1>3

LEMMA NoticeStart ==
  ASSUME N!Init
  PROVE  NInv
  <1>1. /\ log = << >> /\ shown = 0
        /\ notice = [c \in Caller |-> [at |-> "idle", outcome |-> "none"]]
    BY DEF N!Init, N!Idle
  <1>2. [at |-> "idle", outcome |-> "none"] \in Notice
    BY DEF Notice
  <1> QED BY <1>1, <1>2 DEF NInv, NoticeTyped, NoDeliveryRecorded, NoneForTheBudget, ForTheBudget

LEMMA NoticeAlways ==
  ASSUME NoticeConstants
  PROVE  N!Spec => []NInv
  <1>1. N!Init => NInv
    BY NoticeStart
  <1>2. NInv /\ [N!Next]_(N!vars) => NInv'
    <2> SUFFICES ASSUME NInv, [N!Next]_(N!vars)
                 PROVE  NInv'
      OBVIOUS
    <2>1. CASE N!HourPasses
      BY <2>1, HourStep DEF N!HourPasses
    <2>2. CASE UNCHANGED N!vars
      BY <2>2, HourStep DEF N!vars
    <2>3. ASSUME NEW c \in Caller,
                 N!CheckQuietHours(c) \/ N!CheckBudget(c) \/ N!Deliver(c)
                 \/ N!RecordOutcome(c) \/ N!CatchUp(c) \/ N!Fail(c)
          PROVE  NInv'
      BY <2>3, QuietStep, BudgetStep, DeliverStep, RecordOutcomeStep, ShownStep, NoticeFailStep
    <2> QED BY <2>1, <2>2, <2>3 DEF N!Next
  <1> QED BY <1>1, <1>2, PTL DEF N!Spec

\* For every budget but 0, no notification is ever kept from a member for it,
\* however many overlap and fail: the id of a comment is not one that
\* recordOutcome may record, so that no delivery is recorded and none is counted.
THEOREM BudgetIsNeverReached ==
  ASSUME NoticeConstants
  PROVE  N!Spec => []N!BudgetNeverReached
  <1>1. NInv => N!BudgetNeverReached
    BY DEF NInv, NoticeTyped, NoneForTheBudget, ForTheBudget, N!BudgetNeverReached
  <1> QED BY <1>1, NoticeAlways, PTL

-------------------------------------------------------------------------------
\* The suggested triggers of a workspace.

CONSTANTS Template, MaxEvents
VARIABLES triggers, recent, blind, answered, calls

S == INSTANCE TriggerSuggestions

Entry == [type : {"TriggerTemplateSuggested"}, template : Template]
           \union [type : {"TriggerTemplateDecided"}, suggestion : Nat, trigger : Nat]

Analysis == [at : {"idle", "cooldown", "model", "catch up"}]
              \union [at : {"ran", "pending"}, candidates : SUBSET Template]
              \union [at : {"append"}, seen : Nat, candidates : SUBSET Template]
Verdict == [at : {"create", "decision"}, suggestion : Nat, late : BOOLEAN, trigger : Nat]
             \union [at : {"catch up decision"}, suggestion : Nat]

SuggestionsTyped ==
  /\ log \in Seq(Entry) /\ shown \in 0..Len(log)
  /\ triggers \in Seq(Nat)
  /\ request \in [Caller -> Analysis \union Verdict]
  /\ locked \in BOOLEAN /\ recent \in BOOLEAN
  /\ calls \in Nat /\ mishaps \in Nat

\* The decision of s is shown.
Settled(s) == \E i \in S!Decisions(s) : i <= shown
MadeFor(k, s) == k = 0 \/ (k \in DOMAIN triggers /\ triggers[k] = s)

\* Among two suggestions of one template the second missed the first, or the
\* first is settled; a suggestion has one decision, which names a trigger made for it.
SuggestionsApart ==
  \A s, t \in 1..Len(log) :
    s < t /\ S!Suggested(s) /\ S!Suggested(t) /\ log[s].template = log[t].template /\ t \notin blind
      => Settled(s)
DecisionsApart ==
  \A i, j \in 1..Len(log) :
    ~S!Suggested(i) /\ ~S!Suggested(j) /\ log[i].suggestion = log[j].suggestion => i = j
DecisionsName ==
  \A i \in 1..Len(log) : ~S!Suggested(i) => MadeFor(log[i].trigger, log[i].suggestion)

SuggestionsNamed ==
  /\ \A i \in DOMAIN triggers : S!Suggested(triggers[i])
  /\ \A s \in blind : S!Suggested(s)
  /\ \A s \in answered : S!Suggested(s) /\ Settled(s)

LogHolds == SuggestionsApart /\ DecisionsApart /\ DecisionsName /\ SuggestionsNamed

\* What a request still knows of the log, of the read model and of the cooldown.
Fits(q) ==
  /\ q.at \in {"create", "decision", "catch up decision"} => S!Suggested(q.suggestion)
  /\ q.at = "create" => q.trigger = 0 /\ ~q.late
  /\ q.at = "decision" => MadeFor(q.trigger, q.suggestion)
  /\ q.at = "catch up decision" => S!Decisions(q.suggestion) # {}
  /\ q.at = "append" =>
       /\ q.seen \in 0..shown
       /\ \A s \in 1..q.seen :
            S!Suggested(s) /\ log[s].template \in q.candidates => Settled(s)
  /\ q.at = "model" => ~recent

Analyses(q) == q.at \in {"cooldown", "model", "ran"}

\* One analysis at a time holds the lock; the model was asked once since the
\* cooldown elapsed, or once more for each failure.
OneAnalyses ==
  \A c \in Caller : Analyses(request[c]) =>
    locked /\ \A d \in Caller : Analyses(request[d]) => c = d
CallsPaid ==
  /\ calls <= 1 + mishaps
  /\ ~recent /\ (\A c \in Caller : request[c].at # "ran") => calls <= mishaps

SInv ==
  /\ SuggestionsTyped /\ LogHolds /\ OneAnalyses /\ CallsPaid
  /\ \A c \in Caller : Fits(request[c])

-------------------------------------------------------------------------------
LEMMA EntryIs ==
  ASSUME SuggestionsTyped, NEW i \in 1..Len(log)
  PROVE  /\ log[i] \in Entry
         /\ S!Suggested(i) => log[i].template \in Template
         /\ ~S!Suggested(i) => log[i].suggestion \in Nat /\ log[i].trigger \in Nat
                               /\ i \in S!Decisions(log[i].suggestion)
  <1>1. log[i] \in Entry
    BY DEF SuggestionsTyped
  <1> QED BY <1>1 DEF Entry, S!Suggested, S!Decisions

\* The log may have one entry more.
LogGrows(e) ==
  log' = Append(log, e) /\ shown' = shown /\ triggers' = triggers /\ answered' = answered

LEMMA LongerLog ==
  ASSUME SuggestionsTyped, NEW e \in Entry, LogGrows(e), NEW n, n = Len(log) + 1
  PROVE  /\ n \in Nat \ {0} /\ Len(log') = n /\ log'[n] = e /\ n \notin 1..Len(log)
         /\ log' \in Seq(Entry) /\ shown' \in 0..Len(log')
         /\ \A i \in 1..Len(log) : /\ i \in 1..Len(log') /\ i < n /\ log'[i] = log[i]
                                   /\ S!Suggested(i)' = S!Suggested(i)
         /\ \A i \in 1..Len(log') : i = n \/ i \in 1..Len(log)
         /\ S!Suggested(n)' <=> e.type = "TriggerTemplateSuggested"
         /\ \A s : S!Suggested(s) => S!Suggested(s)'
         /\ \A s : S!Decisions(s) \subseteq S!Decisions(s)'
         /\ \A s : Settled(s) => Settled(s)'
         /\ \A k, s : MadeFor(k, s)' = MadeFor(k, s)
  <1>1. /\ n \in Nat \ {0} /\ Len(log') = n /\ log'[n] = e /\ n \notin 1..Len(log)
        /\ log' \in Seq(Entry) /\ shown' \in 0..Len(log')
        /\ \A i \in 1..Len(log) : i \in 1..Len(log') /\ i < n /\ log'[i] = log[i]
        /\ \A i \in 1..Len(log') : i = n \/ i \in 1..Len(log)
    BY DEF SuggestionsTyped, LogGrows
  <1>2. \A i \in 1..Len(log) : S!Suggested(i)' = S!Suggested(i)
    BY <1>1 DEF S!Suggested
  <1>3. S!Suggested(n)' <=> e.type = "TriggerTemplateSuggested"
    BY <1>1 DEF S!Suggested
  <1>4. \A s : S!Suggested(s) => S!Suggested(s)'
    BY <1>1 DEF S!Suggested
  <1>5. \A s : S!Decisions(s) \subseteq S!Decisions(s)'
    BY <1>1, <1>2 DEF S!Decisions
  <1>6. \A s : Settled(s) => Settled(s)'
    BY <1>5 DEF Settled, LogGrows
  <1>7. \A k, s : MadeFor(k, s)' = MadeFor(k, s)
    BY DEF MadeFor, LogGrows
  <1> QED BY <1>1, <1>2, <1>3, <1>4, <1>5, <1>6, <1>7

\* Whatever a request knows stays so when the log, the read model and the
\* triggers only grow.
Onward == \A p : Fits(p) /\ (p.at = "model" => ~recent') => Fits(p)'

LEMMA GoesOnward ==
  ASSUME \A s : S!Suggested(s) => S!Suggested(s)',
         \A s : S!Decisions(s) \subseteq S!Decisions(s)',
         \A s : Settled(s) => Settled(s)',
         \A k, s : MadeFor(k, s) => MadeFor(k, s)',
         shown \in Nat, shown' \in Nat, shown <= shown',
         \A i \in 1..shown : log'[i] = log[i] /\ (S!Suggested(i)' => S!Suggested(i))
  PROVE  Onward
  <1> SUFFICES ASSUME NEW p, Fits(p), p.at = "model" => ~recent'
               PROVE  Fits(p)'
    BY DEF Onward
  <1>1. p.at \in {"create", "decision", "catch up decision"} => S!Suggested(p.suggestion)'
    BY DEF Fits
  <1>2. p.at = "catch up decision" => (S!Decisions(p.suggestion) # {})'
    <2>1. S!Decisions(p.suggestion) \subseteq S!Decisions(p.suggestion)'
      OBVIOUS
    <2> QED BY <2>1 DEF Fits
  <1>3. p.at = "append" =>
          /\ p.seen \in 0..shown'
          /\ \A s \in 1..p.seen :
               S!Suggested(s)' /\ log'[s].template \in p.candidates => Settled(s)'
    <2> SUFFICES ASSUME p.at = "append"
                 PROVE  /\ p.seen \in 0..shown'
                        /\ \A s \in 1..p.seen :
                             S!Suggested(s)' /\ log'[s].template \in p.candidates => Settled(s)'
      OBVIOUS
    <2>1. /\ p.seen \in 0..shown
          /\ \A s \in 1..p.seen : S!Suggested(s) /\ log[s].template \in p.candidates => Settled(s)
      BY DEF Fits
    <2>2. \A s \in 1..p.seen : s \in 1..shown
      BY <2>1
    <2> QED BY <2>1, <2>2
  <1> QED BY <1>1, <1>2, <1>3 DEF Fits

LEMMA StaysOnward ==
  ASSUME SuggestionsTyped, UNCHANGED <<log, shown, triggers>>
  PROVE  Onward
  <1>1. /\ \A s : S!Suggested(s)' = S!Suggested(s)
        /\ \A s : S!Decisions(s)' = S!Decisions(s)
    BY DEF S!Suggested, S!Decisions
  <1>2. /\ \A s : Settled(s)' = Settled(s)
        /\ \A k, s : MadeFor(k, s)' = MadeFor(k, s)
    BY <1>1 DEF Settled, MadeFor
  <1>3. shown \in Nat /\ shown' = shown
    BY DEF SuggestionsTyped
  <1> QED BY <1>1, <1>2, <1>3, GoesOnward

LEMMA GrowsOnward ==
  ASSUME SuggestionsTyped, NEW e \in Entry, LogGrows(e)
  PROVE  Onward
  <1>1. PICK n : n = Len(log) + 1
    OBVIOUS
  <1>2. /\ \A i \in 1..Len(log) : log'[i] = log[i] /\ S!Suggested(i)' = S!Suggested(i)
        /\ \A s : S!Suggested(s) => S!Suggested(s)'
        /\ \A s : S!Decisions(s) \subseteq S!Decisions(s)'
        /\ \A s : Settled(s) => Settled(s)'
        /\ \A k, s : MadeFor(k, s)' = MadeFor(k, s)
    BY <1>1, LongerLog
  <1>3. shown \in Nat /\ shown' = shown /\ Len(log) \in Nat /\ shown <= Len(log)
    BY DEF SuggestionsTyped, LogGrows
  <1>4. \A i \in 1..shown : i \in 1..Len(log)
    BY <1>3
  <1> QED BY <1>2, <1>3, <1>4, GoesOnward

\* Catching up.
LEMMA ShowsOnward ==
  ASSUME SuggestionsTyped, shown' = Len(log), UNCHANGED <<log, triggers>>
  PROVE  /\ Onward /\ shown' \in 0..Len(log')
         /\ \A s : S!Suggested(s)' = S!Suggested(s)
         /\ \A s : S!Decisions(s)' = S!Decisions(s)
         /\ \A s : Settled(s) => Settled(s)'
         /\ \A s : S!Decisions(s) # {} => Settled(s)'
         /\ \A k, s : MadeFor(k, s)' = MadeFor(k, s)
  <1>1. /\ \A s : S!Suggested(s)' = S!Suggested(s)
        /\ \A s : S!Decisions(s)' = S!Decisions(s)
    BY DEF S!Suggested, S!Decisions
  <1>2. Len(log) \in Nat /\ shown \in 0..Len(log) /\ shown' = Len(log) /\ log' = log
    BY DEF SuggestionsTyped
  <1>3. \A s : S!Decisions(s) # {} => Settled(s)'
    <2>1. ASSUME NEW s, NEW i \in S!Decisions(s)
          PROVE  Settled(s)'
      <3>1. i \in 1..Len(log)
        BY <2>1 DEF S!Decisions
      <3> QED BY <1>1, <1>2, <2>1, <3>1 DEF Settled
    <2> QED BY <2>1
  <1>4. \A s : Settled(s) => Settled(s)'
    BY <1>3 DEF Settled
  <1>5. \A k, s : MadeFor(k, s)' = MadeFor(k, s)
    BY DEF MadeFor
  <1>6. Onward
    <2>1. shown \in Nat /\ shown' \in Nat /\ shown <= shown'
      BY <1>2
    <2> QED BY <1>1, <1>2, <1>4, <1>5, <2>1, GoesOnward
  <1>7. shown' \in 0..Len(log')
    BY <1>2
  <1> QED BY <1>1, <1>3, <1>4, <1>5, <1>6, <1>7

\* A trigger more.
LEMMA MakesOnward ==
  ASSUME SuggestionsTyped, NEW s0 \in Nat, triggers' = Append(triggers, s0), UNCHANGED <<log, shown>>,
         NEW n, n = Len(triggers) + 1
  PROVE  /\ Onward /\ triggers' \in Seq(Nat)
         /\ \A s : S!Suggested(s)' = S!Suggested(s)
         /\ \A s : Settled(s)' = Settled(s)
         /\ \A k, s : MadeFor(k, s) => MadeFor(k, s)'
         /\ n \in Nat \ {0} /\ n \in DOMAIN triggers' /\ triggers'[n] = s0
         /\ \A i \in DOMAIN triggers' : i = n \/ (i \in DOMAIN triggers /\ triggers'[i] = triggers[i])
  <1>1. /\ \A s : S!Suggested(s)' = S!Suggested(s)
        /\ \A s : S!Decisions(s)' = S!Decisions(s)
    BY DEF S!Suggested, S!Decisions
  <1>2. \A s : Settled(s)' = Settled(s)
    BY <1>1 DEF Settled
  <1>3. /\ triggers' \in Seq(Nat) /\ n \in Nat \ {0} /\ n \in DOMAIN triggers' /\ triggers'[n] = s0
        /\ \A i \in DOMAIN triggers' : i = n \/ (i \in DOMAIN triggers /\ triggers'[i] = triggers[i])
        /\ \A i \in DOMAIN triggers : i \in DOMAIN triggers' /\ triggers'[i] = triggers[i]
    BY DEF SuggestionsTyped
  <1>4. \A k, s : MadeFor(k, s) => MadeFor(k, s)'
    BY <1>3 DEF MadeFor
  <1>5. shown \in Nat /\ shown' = shown
    BY DEF SuggestionsTyped
  <1>6. Onward
    BY <1>1, <1>2, <1>4, <1>5, GoesOnward
  <1> QED BY <1>1, <1>2, <1>3, <1>4, <1>6

\* One request goes on as q.
LEMMA RequestGoes ==
  ASSUME SInv, NEW c \in Caller, NEW q \in Analysis \union Verdict, S!Go(c, q), Onward, Fits(q)',
         recent' => recent \/ Analyses(request[c]),
         locked' = locked \/ Analyses(request[c]) \/ (locked' /\ ~locked),
         Analyses(q) => locked' /\ (Analyses(request[c]) \/ ~locked)
  PROVE  /\ request' \in [Caller -> Analysis \union Verdict]
         /\ request'[c] = q /\ \A d \in Caller : d # c => request'[d] = request[d]
         /\ OneAnalyses'
         /\ (\A d \in Caller : Fits(request[d]))'
  <1>1. /\ request \in [Caller -> Analysis \union Verdict] /\ OneAnalyses
        /\ \A d \in Caller : Fits(request[d])
    BY DEF SInv, SuggestionsTyped
  <1>2. /\ request' \in [Caller -> Analysis \union Verdict]
        /\ request'[c] = q /\ \A d \in Caller : d # c => request'[d] = request[d]
    BY <1>1 DEF S!Go
  <1>3. OneAnalyses'
    <2>1. ASSUME NEW a \in Caller, Analyses(request'[a])
          PROVE  locked' /\ \A d \in Caller : Analyses(request'[d]) => a = d
      <3>1. CASE a = c
        <4>1. locked' /\ (Analyses(request[c]) \/ ~locked)
          BY <1>2, <2>1, <3>1
        <4>2. ASSUME NEW d \in Caller, Analyses(request'[d]), d # c
              PROVE  FALSE
          <5>1. Analyses(request[d])
            BY <1>2, <4>2
          <5> QED BY <1>1, <4>1, <4>2, <5>1 DEF OneAnalyses
        <4> QED BY <3>1, <4>1, <4>2
      <3>2. CASE a # c
        <4>1. Analyses(request[a]) /\ locked /\ ~Analyses(request[c])
          BY <1>1, <1>2, <2>1, <3>2 DEF OneAnalyses
        <4>2. locked' /\ ~Analyses(q)
          BY <4>1
        <4>3. ASSUME NEW d \in Caller, Analyses(request'[d])
              PROVE  a = d
          <5>1. d # c
            BY <1>2, <4>2, <4>3
          <5>2. Analyses(request[d])
            BY <1>2, <4>3, <5>1
          <5> QED BY <1>1, <4>1, <5>2 DEF OneAnalyses
        <4> QED BY <4>2, <4>3
      <3> QED BY <3>1, <3>2
    <2> QED BY <2>1 DEF OneAnalyses, Analyses
  <1>4. ASSUME NEW d \in Caller
        PROVE  Fits(request[d])'
    <2>1. CASE d = c
      BY <1>2, <2>1 DEF Fits
    <2>2. CASE d # c
      <3>1. PICK p : p = request[d]
        OBVIOUS
      <3>2. Fits(p) /\ (p.at = "model" => ~recent')
        <4>1. Fits(p)
          BY <1>1, <3>1
        <4>2. p.at = "model" => ~recent /\ Analyses(request[d])
          BY <3>1, <4>1 DEF Fits, Analyses
        <4> QED BY <1>1, <2>2, <4>1, <4>2 DEF OneAnalyses
      <3>3. Fits(p)'
        BY <3>2 DEF Onward
      <3> QED BY <1>2, <2>2, <3>1, <3>3 DEF Fits
    <2> QED BY <2>1, <2>2
  <1> QED BY <1>2, <1>3, <1>4

Histories == <<log, shown, triggers, blind, answered>>

LEMMA LogStays ==
  ASSUME SInv, UNCHANGED Histories
  PROVE  /\ LogHolds' /\ Onward
         /\ log' \in Seq(Entry) /\ shown' \in 0..Len(log') /\ triggers' \in Seq(Nat)
  <1>1. SuggestionsTyped /\ LogHolds
    BY DEF SInv
  <1>2. /\ UNCHANGED <<log, shown, triggers>> /\ blind' = blind /\ answered' = answered
    BY DEF Histories
  <1>3. Onward
    BY <1>1, <1>2, StaysOnward
  <1>4. /\ \A s : S!Suggested(s)' = S!Suggested(s)
        /\ \A s : S!Decisions(s)' = S!Decisions(s)
    BY <1>2 DEF S!Suggested, S!Decisions
  <1>5. /\ \A s : Settled(s)' = Settled(s)
        /\ \A k, s : MadeFor(k, s)' = MadeFor(k, s)
    BY <1>2, <1>4 DEF Settled, MadeFor
  <1>6. SuggestionsApart' /\ DecisionsApart'
    BY <1>1, <1>2, <1>4, <1>5 DEF LogHolds, SuggestionsApart, DecisionsApart
  <1>7. DecisionsName' /\ SuggestionsNamed'
    BY <1>1, <1>2, <1>4, <1>5 DEF LogHolds, DecisionsName, SuggestionsNamed
  <1>8. log' \in Seq(Entry) /\ shown' \in 0..Len(log') /\ triggers' \in Seq(Nat)
    BY <1>1, <1>2 DEF SuggestionsTyped
  <1> QED BY <1>3, <1>6, <1>7, <1>8 DEF LogHolds

\* A step of an analysis without the lock, or of a decision.
LEMMA UnlockedStep ==
  ASSUME SInv, NEW c \in Caller, NEW q \in Analysis \union Verdict, S!Go(c, q), Onward, Fits(q)',
         UNCHANGED <<locked, recent, calls, mishaps>>, ~Analyses(request[c]), ~Analyses(q),
         LogHolds', log' \in Seq(Entry), shown' \in 0..Len(log'), triggers' \in Seq(Nat)
  PROVE  SInv'
  <1>1. /\ request' \in [Caller -> Analysis \union Verdict]
        /\ request'[c] = q /\ \A d \in Caller : d # c => request'[d] = request[d]
        /\ OneAnalyses'
        /\ (\A d \in Caller : Fits(request[d]))'
    BY RequestGoes
  <1>2. SuggestionsTyped'
    BY <1>1 DEF SInv, SuggestionsTyped
  <1>3. \A d \in Caller : request'[d].at = "ran" <=> request[d].at = "ran"
    BY <1>1 DEF Analyses
  <1>4. CallsPaid'
    BY <1>3 DEF SInv, CallsPaid
  <1> QED BY <1>1, <1>2, <1>4 DEF SInv

LEMMA SuggestionLockStep ==
  ASSUME SInv, NEW c \in Caller, S!TakeLock(c) \/ S!CheckCooldown(c)
  PROVE  SInv'
  <1>1. /\ request[c].at \in {"idle", "cooldown"} /\ UNCHANGED Histories
        /\ UNCHANGED <<recent, calls, mishaps>>
    BY DEF S!TakeLock, S!CheckCooldown, Histories
  <1>2. SuggestionsTyped /\ locked \in BOOLEAN /\ (Analyses(request[c]) => locked)
    BY DEF SInv, SuggestionsTyped, OneAnalyses
  <1>3. PICK q \in Analysis : /\ S!Go(c, q) /\ q.at \in {"idle", "cooldown", "model"}
                              /\ q.at = "model" => ~recent
                              /\ \/ q.at = "cooldown" /\ ~locked /\ locked' = TRUE
                                 \/ q.at = "model" /\ locked' = locked /\ request[c].at = "cooldown"
                                 \/ q.at = "idle" /\ locked' = FALSE /\ request[c].at = "cooldown"
    <2>1. CASE S!TakeLock(c)
      <3>1. [at |-> "cooldown"] \in Analysis
        BY DEF Analysis
      <3> QED BY <2>1, <3>1 DEF S!TakeLock
    <2>2. CASE S!CheckCooldown(c)
      <3>1. [at |-> "model"] \in Analysis /\ [at |-> "idle"] \in Analysis
        BY DEF Analysis
      <3> QED BY <2>2, <3>1 DEF S!CheckCooldown, S!Idle
    <2> QED BY <2>1, <2>2
  <1>4. LogHolds' /\ Onward
        /\ log' \in Seq(Entry) /\ shown' \in 0..Len(log') /\ triggers' \in Seq(Nat)
    BY <1>1, LogStays
  <1>5. /\ request' \in [Caller -> Analysis \union Verdict]
        /\ request'[c] = q /\ \A d \in Caller : d # c => request'[d] = request[d]
        /\ OneAnalyses'
        /\ (\A d \in Caller : Fits(request[d]))'
    <2>1. Fits(q)'
      BY <1>1, <1>3 DEF Fits
    <2>2. recent' => recent \/ Analyses(request[c])
      BY <1>1
    <2>3. /\ locked' = locked \/ Analyses(request[c]) \/ (locked' /\ ~locked)
          /\ Analyses(q) => locked' /\ (Analyses(request[c]) \/ ~locked)
      BY <1>2, <1>3 DEF Analyses
    <2> QED BY <1>3, <1>4, <2>1, <2>2, <2>3, RequestGoes
  <1>6. SuggestionsTyped'
    BY <1>1, <1>2, <1>3, <1>4, <1>5 DEF SuggestionsTyped
  <1>7. CallsPaid'
    <2>1. \A d \in Caller : request'[d].at = "ran" <=> request[d].at = "ran"
      BY <1>1, <1>3, <1>5
    <2> QED BY <1>1, <2>1 DEF SInv, CallsPaid
  <1> QED BY <1>4, <1>5, <1>6, <1>7 DEF SInv

\* Who asks the model is the only one to analyse, and the cooldown is over.
LEMMA AskStep ==
  ASSUME SInv, NEW c \in Caller, S!AskModel(c)
  PROVE  SInv'
  <1>1. /\ request[c].at = "model" /\ UNCHANGED Histories /\ calls' = calls + 1
        /\ UNCHANGED <<locked, recent, mishaps>>
    BY DEF S!AskModel, Histories
  <1>2. PICK t \in SUBSET Template : S!Go(c, [at |-> "ran", candidates |-> t])
    BY DEF S!AskModel
  <1>3. PICK q \in Analysis : q = [at |-> "ran", candidates |-> t]
    BY DEF Analysis
  <1>4. q.at = "ran" /\ S!Go(c, q) /\ Fits(q)'
    BY <1>2, <1>3 DEF Fits
  <1>5. /\ SuggestionsTyped /\ locked /\ ~recent
        /\ \A d \in Caller : request[d].at # "ran"
    <2>1. Fits(request[c])
      BY DEF SInv
    <2> QED BY <1>1, <2>1 DEF SInv, OneAnalyses, Analyses, Fits
  <1>6. LogHolds' /\ Onward
        /\ log' \in Seq(Entry) /\ shown' \in 0..Len(log') /\ triggers' \in Seq(Nat)
    BY <1>1, LogStays
  <1>7. /\ request' \in [Caller -> Analysis \union Verdict]
        /\ request'[c] = q /\ \A d \in Caller : d # c => request'[d] = request[d]
        /\ OneAnalyses'
        /\ (\A d \in Caller : Fits(request[d]))'
    <2>1. /\ locked' = locked /\ Analyses(request[c]) /\ locked'
          /\ recent' = recent
      BY <1>1, <1>5 DEF Analyses
    <2> QED BY <1>4, <1>6, <2>1, RequestGoes
  <1>8. calls <= mishaps /\ calls \in Nat /\ mishaps \in Nat
    BY <1>5 DEF SInv, CallsPaid, SuggestionsTyped
  <1>9. SuggestionsTyped'
    BY <1>1, <1>5, <1>6, <1>7, <1>8 DEF SuggestionsTyped
  <1>10. CallsPaid'
    <2>1. request'[c].at = "ran" /\ calls' <= 1 + mishaps'
      BY <1>1, <1>4, <1>7, <1>8
    <2> QED BY <2>1 DEF CallsPaid
  <1> QED BY <1>6, <1>7, <1>9, <1>10 DEF SInv

LEMMA RanStep ==
  ASSUME SInv, NEW c \in Caller, S!MarkAnalysisRan(c)
  PROVE  SInv'
  <1>1. /\ request[c].at = "ran" /\ UNCHANGED Histories /\ recent' = TRUE /\ locked' = FALSE
        /\ UNCHANGED <<calls, mishaps>>
    BY DEF S!MarkAnalysisRan, Histories
  <1>2. SuggestionsTyped /\ request[c] \in Analysis \union Verdict
    BY DEF SInv, SuggestionsTyped
  <1>3. PICK t \in SUBSET Template : t = request[c].candidates
    BY <1>1, <1>2 DEF Analysis, Verdict
  <1>4. PICK q \in Analysis : S!Go(c, q) /\ q.at \in {"idle", "pending"}
    <2>1. [at |-> "idle"] \in Analysis /\ [at |-> "pending", candidates |-> t] \in Analysis
      BY DEF Analysis
    <2>2. S!Go(c, IF t = {} THEN [at |-> "idle"] ELSE [at |-> "pending", candidates |-> t])
      BY <1>3 DEF S!MarkAnalysisRan, S!Idle
    <2> QED BY <2>1, <2>2
  <1>5. LogHolds' /\ Onward
        /\ log' \in Seq(Entry) /\ shown' \in 0..Len(log') /\ triggers' \in Seq(Nat)
    BY <1>1, LogStays
  <1>6. /\ request' \in [Caller -> Analysis \union Verdict]
        /\ request'[c] = q /\ \A d \in Caller : d # c => request'[d] = request[d]
        /\ OneAnalyses'
        /\ (\A d \in Caller : Fits(request[d]))'
    <2>1. Fits(q)'
      BY <1>4 DEF Fits
    <2>2. Analyses(request[c]) /\ ~Analyses(q)
      BY <1>1, <1>4 DEF Analyses
    <2> QED BY <1>4, <1>5, <2>1, <2>2, RequestGoes
  <1>7. SuggestionsTyped'
    BY <1>1, <1>2, <1>5, <1>6 DEF SuggestionsTyped
  <1>8. CallsPaid'
    BY <1>1 DEF SInv, CallsPaid
  <1> QED BY <1>5, <1>6, <1>7, <1>8 DEF SInv

LEMMA CooldownStep ==
  ASSUME SInv, S!CooldownElapses
  PROVE  SInv'
  <1>1. UNCHANGED Histories /\ recent' = FALSE /\ calls' = 0 /\ UNCHANGED <<locked, request, mishaps>>
    BY DEF S!CooldownElapses, Histories
  <1>2. LogHolds' /\ Onward
        /\ log' \in Seq(Entry) /\ shown' \in 0..Len(log') /\ triggers' \in Seq(Nat)
    BY <1>1, LogStays
  <1>3. SuggestionsTyped' /\ OneAnalyses'
    BY <1>1, <1>2 DEF SInv, SuggestionsTyped, OneAnalyses
  <1>4. CallsPaid'
    BY <1>1 DEF SInv, CallsPaid, SuggestionsTyped
  <1>5. ASSUME NEW d \in Caller
        PROVE  Fits(request[d])'
    <2>1. PICK p : p = request[d] /\ Fits(p)
      BY DEF SInv
    <2>2. Fits(p)'
      BY <1>1, <1>2, <2>1 DEF Onward
    <2> QED BY <1>1, <2>1, <2>2 DEF Fits
  <1> QED BY <1>2, <1>3, <1>4, <1>5 DEF SInv

\* What it compares with is shown, so a suggestion of a template that is left
\* is settled.
LEMMA ReadPendingStep ==
  ASSUME SInv, NEW c \in Caller, S!ReadPending(c)
  PROVE  SInv'
  <1>1. /\ request[c].at = "pending" /\ UNCHANGED Histories
        /\ UNCHANGED <<locked, recent, calls, mishaps>>
    BY DEF S!ReadPending, Histories
  <1>2. SuggestionsTyped /\ request[c] \in Analysis \union Verdict
    BY DEF SInv, SuggestionsTyped
  <1>3. PICK t \in SUBSET Template : t = request[c].candidates \ {log[s].template : s \in S!Pending}
    BY <1>1, <1>2 DEF Analysis, Verdict
  <1>4. PICK q \in Analysis : q = [at |-> "append", seen |-> shown, candidates |-> t]
    <2>1. shown \in Nat
      BY <1>2 DEF SuggestionsTyped
    <2> QED BY <2>1 DEF Analysis
  <1>5. S!Go(c, q) /\ q.at = "append" /\ q.seen = shown /\ q.candidates = t
    BY <1>3, <1>4 DEF S!ReadPending
  <1>6. LogHolds' /\ Onward
        /\ log' \in Seq(Entry) /\ shown' \in 0..Len(log') /\ triggers' \in Seq(Nat)
    BY <1>1, LogStays
  <1>7. Fits(q)'
    <2>1. \A s \in 1..shown : S!Suggested(s) /\ log[s].template \in t => Settled(s)
      <3> SUFFICES ASSUME NEW s \in 1..shown, S!Suggested(s), log[s].template \in t
                   PROVE  Settled(s)
        OBVIOUS
      <3>1. s \notin S!Pending
        BY <1>3
      <3>2. PICK i \in S!Decisions(s) : ~(i > shown)
        BY <3>1 DEF S!Pending
      <3>3. i \in Nat /\ shown \in Nat
        BY <1>2 DEF S!Decisions, SuggestionsTyped
      <3> QED BY <3>2, <3>3 DEF Settled
    <2>2. shown \in 0..shown
      BY <1>2 DEF SuggestionsTyped
    <2>3. Fits(q)
      BY <1>5, <2>1, <2>2 DEF Fits
    <2> QED BY <1>5, <1>6, <2>3 DEF Onward
  <1>8. ~Analyses(request[c]) /\ ~Analyses(q)
    BY <1>1, <1>5 DEF Analyses
  <1> QED BY <1>1, <1>5, <1>6, <1>7, <1>8, UnlockedStep

\* A suggestion more is apart from those before: what its check saw is settled,
\* what it did not see makes it one of the blind.
LEMMA SuggestStep ==
  ASSUME SInv, NEW c \in Caller, S!AppendSuggestion(c)
  PROVE  SInv'
  <1>1. /\ request[c].at = "append" /\ UNCHANGED <<locked, recent, calls, mishaps>>
    BY DEF S!AppendSuggestion
  <1>2. /\ SuggestionsTyped /\ LogHolds /\ request[c] \in Analysis \union Verdict /\ Fits(request[c])
    BY DEF SInv, SuggestionsTyped
  <1>3. PICK p, t, e, n, seen :
          /\ p = request[c] /\ t \in p.candidates /\ n = Len(log) + 1
          /\ e = [type |-> "TriggerTemplateSuggested", template |-> t]
          /\ seen = (\E i \in p.seen + 1 .. Len(log) : S!Suggested(i) /\ log[i].template = t)
          /\ LogGrows(e) /\ blind' = (IF seen THEN blind \union {n} ELSE blind)
          /\ S!Go(c, [p EXCEPT !.candidates = @ \ {t}])
    <2>1. PICK t \in request[c].candidates :
            /\ log' = Append(log, [type |-> "TriggerTemplateSuggested", template |-> t])
            /\ blind' = (IF \E i \in request[c].seen + 1 .. Len(log) :
                              S!Suggested(i) /\ log[i].template = t
                           THEN blind \union {Len(log) + 1} ELSE blind)
            /\ S!Go(c, [request[c] EXCEPT !.candidates = @ \ {t}])
      BY DEF S!AppendSuggestion
    <2>2. UNCHANGED <<shown, triggers, answered>>
      BY DEF S!AppendSuggestion
    <2> QED BY <2>1, <2>2 DEF LogGrows
  <1>4. /\ p.at = "append" /\ p.candidates \in SUBSET Template /\ p.seen \in Nat
        /\ p = [at |-> "append", seen |-> p.seen, candidates |-> p.candidates]
        /\ t \in Template
    BY <1>1, <1>2, <1>3 DEF Analysis, Verdict
  <1>5. PICK q : q = [at |-> "append", seen |-> p.seen, candidates |-> p.candidates \ {t}]
    OBVIOUS
  <1>6. /\ q \in Analysis /\ S!Go(c, q) /\ q.at = "append" /\ q.seen = p.seen
        /\ q.candidates = p.candidates \ {t}
    <2>1. q \in Analysis /\ q.at = "append" /\ q.seen = p.seen /\ q.candidates = p.candidates \ {t}
      BY <1>4, <1>5 DEF Analysis
    <2>2. q = [p EXCEPT !.candidates = @ \ {t}]
      BY <1>4, <1>5
    <2> QED BY <1>3, <2>1, <2>2
  <1>7. e \in Entry /\ e.type = "TriggerTemplateSuggested" /\ e.template = t
    BY <1>3, <1>4 DEF Entry
  <1>8. /\ n \in Nat \ {0} /\ Len(log') = n /\ log'[n] = e /\ n \notin 1..Len(log)
        /\ log' \in Seq(Entry) /\ shown' \in 0..Len(log')
        /\ \A i \in 1..Len(log) : /\ i \in 1..Len(log') /\ i < n /\ log'[i] = log[i]
                                  /\ S!Suggested(i)' = S!Suggested(i)
        /\ \A i \in 1..Len(log') : i = n \/ i \in 1..Len(log)
        /\ S!Suggested(n)'
        /\ \A s : S!Suggested(s) => S!Suggested(s)'
        /\ \A s : Settled(s) => Settled(s)'
        /\ \A k, s : MadeFor(k, s)' = MadeFor(k, s)
    BY <1>2, <1>3, <1>7, LongerLog
  <1>9. Onward
    BY <1>2, <1>3, <1>7, GrowsOnward
  <1>10. Fits(q)'
    <2>1. Fits(q)
      <3>1. p.seen \in 0..shown
            /\ \A s \in 1..p.seen : S!Suggested(s) /\ log[s].template \in p.candidates => Settled(s)
        BY <1>2, <1>3, <1>4 DEF Fits
      <3> QED BY <1>6, <3>1 DEF Fits
    <2> QED BY <1>6, <1>9, <2>1 DEF Onward
  <1>11. SuggestionsApart'
    <2> SUFFICES ASSUME NEW s \in 1..Len(log'), NEW u \in 1..Len(log'), s < u,
                        S!Suggested(s)', S!Suggested(u)', log'[s].template = log'[u].template,
                        u \notin blind'
                 PROVE  Settled(s)'
      BY DEF SuggestionsApart
    <2>1. s \in 1..Len(log) /\ S!Suggested(s) /\ log'[s] = log[s]
      BY <1>8
    <2>2. CASE u = n
      <3>1. log[s].template = t
        BY <1>7, <1>8, <2>1, <2>2
      <3>2. ~ seen
        BY <1>3, <2>2
      <3>3. s \notin p.seen + 1 .. Len(log)
        BY <1>3, <2>1, <3>1, <3>2
      <3>4. s \in 1..p.seen
        <4>1. Len(log) \in Nat
          BY <1>2 DEF SuggestionsTyped
        <4> QED BY <1>4, <2>1, <3>3, <4>1
      <3>5. Settled(s)
        <4>1. \A k \in 1..p.seen : S!Suggested(k) /\ log[k].template \in p.candidates => Settled(k)
          BY <1>2, <1>3, <1>4 DEF Fits
        <4> QED BY <1>3, <2>1, <3>1, <3>4, <4>1
      <3> QED BY <1>8, <3>5
    <2>3. CASE u # n
      <3>1. u \in 1..Len(log) /\ S!Suggested(u) /\ log'[u] = log[u]
        BY <1>8, <2>3
      <3>2. u \notin blind
        BY <1>3
      <3>3. Settled(s)
        BY <1>2, <2>1, <3>1, <3>2 DEF LogHolds, SuggestionsApart
      <3> QED BY <1>8, <3>3
    <2> QED BY <2>2, <2>3
  <1>12. DecisionsApart' /\ DecisionsName'
    <2>1. \A i \in 1..Len(log') : ~S!Suggested(i)' =>
            i \in 1..Len(log) /\ ~S!Suggested(i) /\ log'[i] = log[i]
      BY <1>8
    <2>2. DecisionsApart'
      BY <1>2, <2>1 DEF LogHolds, DecisionsApart
    <2>3. DecisionsName'
      BY <1>2, <1>8, <2>1 DEF LogHolds, DecisionsName
    <2> QED BY <2>2, <2>3
  <1>13. SuggestionsNamed'
    <2>1. triggers' = triggers /\ answered' = answered /\ blind' \subseteq blind \union {n}
      BY <1>3 DEF LogGrows
    <2> QED BY <1>2, <1>8, <2>1 DEF LogHolds, SuggestionsNamed
  <1>14. ~Analyses(request[c]) /\ ~Analyses(q)
    BY <1>1, <1>6 DEF Analyses
  <1>15. triggers' \in Seq(Nat)
    BY <1>2, <1>3 DEF SuggestionsTyped, LogGrows
  <1> QED BY <1>1, <1>6, <1>8, <1>9, <1>10, <1>11, <1>12, <1>13, <1>14, <1>15, UnlockedStep DEF LogHolds

\* A log that stays, of which no less is known.
LEMMA LogHoldsOn ==
  ASSUME LogHolds, log' = log, blind' = blind,
         \A s : Settled(s) => Settled(s)', \A k, s : MadeFor(k, s) => MadeFor(k, s)',
         \A i \in DOMAIN triggers' : S!Suggested(triggers'[i]),
         \A s \in answered' : S!Suggested(s) /\ Settled(s)'
  PROVE  LogHolds'
  <1>1. \A s : S!Suggested(s)' = S!Suggested(s)
    BY DEF S!Suggested
  <1>2. SuggestionsApart'
    BY <1>1 DEF LogHolds, SuggestionsApart
  <1>3. DecisionsApart' /\ DecisionsName'
    BY <1>1 DEF LogHolds, DecisionsApart, DecisionsName
  <1>4. SuggestionsNamed'
    BY <1>1 DEF LogHolds, SuggestionsNamed
  <1> QED BY <1>2, <1>3, <1>4 DEF LogHolds

LEMMA AppendedAllStep ==
  ASSUME SInv, NEW c \in Caller, S!AppendedAll(c)
  PROVE  SInv'
  <1>1. /\ request[c].at = "append" /\ UNCHANGED Histories
        /\ UNCHANGED <<locked, recent, calls, mishaps>>
    BY DEF S!AppendedAll, Histories
  <1>2. PICK q \in Analysis : S!Go(c, q) /\ q.at = "catch up"
    <2>1. [at |-> "catch up"] \in Analysis
      BY DEF Analysis
    <2> QED BY <2>1 DEF S!AppendedAll
  <1>3. LogHolds' /\ Onward
        /\ log' \in Seq(Entry) /\ shown' \in 0..Len(log') /\ triggers' \in Seq(Nat)
    BY <1>1, LogStays
  <1>4. Fits(q)' /\ ~Analyses(request[c]) /\ ~Analyses(q)
    BY <1>1, <1>2 DEF Fits, Analyses
  <1> QED BY <1>1, <1>2, <1>3, <1>4, UnlockedStep

\* A request catches up and is done; a decision is answered.
LEMMA SuggestionsCaughtUpStep ==
  ASSUME SInv, NEW c \in Caller, S!CatchUp(c) \/ S!CatchUpDecision(c)
  PROVE  SInv'
  <1>1. /\ request[c].at \in {"catch up", "catch up decision"} /\ shown' = Len(log)
        /\ UNCHANGED <<log, triggers>> /\ blind' = blind
        /\ UNCHANGED <<locked, recent, calls, mishaps>>
        /\ \A s \in answered' : s \in answered
             \/ (request[c].at = "catch up decision" /\ s = request[c].suggestion)
    BY DEF S!CatchUp, S!CatchUpDecision
  <1>2. SuggestionsTyped /\ LogHolds /\ Fits(request[c])
    BY DEF SInv
  <1>3. /\ Onward /\ shown' \in 0..Len(log')
        /\ \A s : Settled(s) => Settled(s)'
        /\ \A s : S!Decisions(s) # {} => Settled(s)'
        /\ \A k, s : MadeFor(k, s)' = MadeFor(k, s)
    BY <1>1, <1>2, ShowsOnward
  <1>4. PICK q \in Analysis : S!Go(c, q) /\ q.at = "idle"
    <2>1. [at |-> "idle"] \in Analysis
      BY DEF Analysis
    <2> QED BY <2>1 DEF S!CatchUp, S!CatchUpDecision, S!Idle
  <1>5. LogHolds'
    <2>1. \A i \in DOMAIN triggers' : S!Suggested(triggers'[i])
      BY <1>1, <1>2 DEF LogHolds, SuggestionsNamed
    <2>2. \A s \in answered' : S!Suggested(s) /\ Settled(s)'
      <3>1. request[c].at = "catch up decision" =>
              S!Suggested(request[c].suggestion) /\ S!Decisions(request[c].suggestion) # {}
        BY <1>2 DEF Fits
      <3>2. \A s \in answered : S!Suggested(s) /\ Settled(s)
        BY <1>2 DEF LogHolds, SuggestionsNamed
      <3> QED BY <1>1, <1>3, <3>1, <3>2
    <2> QED BY <1>1, <1>2, <1>3, <2>1, <2>2, LogHoldsOn
  <1>6. Fits(q)' /\ ~Analyses(request[c]) /\ ~Analyses(q)
    BY <1>1, <1>4 DEF Fits, Analyses
  <1>7. log' \in Seq(Entry) /\ triggers' \in Seq(Nat)
    BY <1>1, <1>2 DEF SuggestionsTyped
  <1> QED BY <1>1, <1>3, <1>4, <1>5, <1>6, <1>7, UnlockedStep

\* What is pending is not settled, so it was not answered.
LEMMA PendingIsOpen ==
  ASSUME SuggestionsTyped, NEW s \in S!Pending
  PROVE  s \in 1..Len(log) /\ s \in Nat /\ S!Suggested(s) /\ ~Settled(s)
  <1>1. s \in 1..shown /\ S!Suggested(s) /\ \A i \in S!Decisions(s) : i > shown
    BY DEF S!Pending
  <1>2. \A i \in S!Decisions(s) : ~(i <= shown)
    <2> SUFFICES ASSUME NEW i \in S!Decisions(s)
                 PROVE  ~(i <= shown)
      OBVIOUS
    <2>1. i \in Nat /\ shown \in Nat /\ i > shown
      BY <1>1 DEF S!Decisions, SuggestionsTyped
    <2> QED BY <2>1
  <1> QED BY <1>1, <1>2 DEF Settled, SuggestionsTyped

LEMMA DecideStep ==
  ASSUME SInv, NEW c \in Caller, S!Decide(c)
  PROVE  SInv'
  <1>1. /\ request[c].at = "idle" /\ UNCHANGED Histories
        /\ UNCHANGED <<locked, recent, calls, mishaps>>
    BY DEF S!Decide, Histories
  <1>2. SuggestionsTyped /\ LogHolds
    BY DEF SInv
  <1>3. PICK s \in S!Pending, verdict \in {"create", "decision"} :
          S!Go(c, [at |-> verdict, suggestion |-> s, late |-> s \in answered, trigger |-> 0])
    BY DEF S!Decide
  <1>4. s \in Nat /\ S!Suggested(s) /\ s \notin answered
    BY <1>2, PendingIsOpen DEF LogHolds, SuggestionsNamed
  <1>5. PICK q \in Verdict : q = [at |-> verdict, suggestion |-> s, late |-> FALSE, trigger |-> 0]
    BY <1>4 DEF Verdict
  <1>6. S!Go(c, q) /\ q.at \in {"create", "decision"} /\ q.suggestion = s /\ q.trigger = 0 /\ ~q.late
    <2>1. (s \in answered) = FALSE
      BY <1>4
    <2> QED BY <1>3, <1>5, <2>1
  <1>7. LogHolds' /\ Onward
        /\ log' \in Seq(Entry) /\ shown' \in 0..Len(log') /\ triggers' \in Seq(Nat)
    BY <1>1, LogStays
  <1>8. Fits(q)'
    <2>1. Fits(q)
      BY <1>4, <1>6 DEF Fits, MadeFor
    <2> QED BY <1>6, <1>7, <2>1 DEF Onward
  <1>9. ~Analyses(request[c]) /\ ~Analyses(q)
    BY <1>1, <1>6 DEF Analyses
  <1> QED BY <1>1, <1>6, <1>7, <1>8, <1>9, UnlockedStep

\* A trigger that is created is named by its request, and by nothing else.
LEMMA CreateTriggerStep ==
  ASSUME SInv, NEW c \in Caller, S!CreateTrigger(c)
  PROVE  SInv'
  <1>1. /\ request[c].at = "create" /\ UNCHANGED <<log, shown>>
        /\ blind' = blind /\ answered' = answered
        /\ UNCHANGED <<locked, recent, calls, mishaps>>
    BY DEF S!CreateTrigger
  <1>2. SuggestionsTyped /\ LogHolds /\ request[c] \in Analysis \union Verdict /\ Fits(request[c])
    BY DEF SInv, SuggestionsTyped
  <1>3. PICK p, n : p = request[c] /\ n = Len(triggers) + 1
    OBVIOUS
  <1>4. /\ p.at = "create" /\ p.suggestion \in Nat /\ p.late \in BOOLEAN
        /\ p = [at |-> "create", suggestion |-> p.suggestion, late |-> p.late, trigger |-> p.trigger]
    BY <1>1, <1>2, <1>3 DEF Analysis, Verdict
  <1>5. /\ triggers' = Append(triggers, p.suggestion)
        /\ S!Go(c, [p EXCEPT !.at = "decision", !.trigger = n])
    BY <1>3 DEF S!CreateTrigger
  <1>6. /\ Onward /\ triggers' \in Seq(Nat)
        /\ \A s : Settled(s)' = Settled(s)
        /\ \A k, s : MadeFor(k, s) => MadeFor(k, s)'
        /\ n \in Nat \ {0} /\ n \in DOMAIN triggers' /\ triggers'[n] = p.suggestion
        /\ \A i \in DOMAIN triggers' : i = n \/ (i \in DOMAIN triggers /\ triggers'[i] = triggers[i])
    BY <1>1, <1>2, <1>3, <1>4, <1>5, MakesOnward
  <1>7. PICK q : q = [p EXCEPT !.at = "decision", !.trigger = n]
    OBVIOUS
  <1>8. q \in Verdict /\ q.at = "decision" /\ q.suggestion = p.suggestion /\ q.trigger = n /\ S!Go(c, q)
    <2>1. q \in [at : {"create", "decision"}, suggestion : Nat, late : BOOLEAN, trigger : Nat]
      <3>1. p \in [at : {"create", "decision"}, suggestion : Nat, late : BOOLEAN, trigger : Nat]
        BY <1>2, <1>3, <1>4 DEF Analysis, Verdict
      <3> QED BY <1>6, <1>7, <3>1
    <2>2. q.at = "decision" /\ q.suggestion = p.suggestion /\ q.trigger = n
      BY <1>4, <1>7
    <2> QED BY <1>5, <1>7, <2>1, <2>2 DEF Verdict
  <1>9. S!Suggested(p.suggestion)
    BY <1>2, <1>3, <1>4 DEF Fits
  <1>10. Fits(q)'
    <2>1. S!Suggested(q.suggestion)'
      BY <1>1, <1>8, <1>9 DEF S!Suggested
    <2>2. MadeFor(q.trigger, q.suggestion)'
      BY <1>6, <1>8 DEF MadeFor
    <2> QED BY <1>8, <2>1, <2>2 DEF Fits
  <1>11. LogHolds'
    <2>1. \A i \in DOMAIN triggers' : S!Suggested(triggers'[i])
      BY <1>2, <1>6, <1>9 DEF LogHolds, SuggestionsNamed
    <2>2. \A s \in answered' : S!Suggested(s) /\ Settled(s)'
      BY <1>1, <1>2, <1>6 DEF LogHolds, SuggestionsNamed
    <2> QED BY <1>1, <1>2, <1>6, <2>1, <2>2, LogHoldsOn
  <1>12. ~Analyses(request[c]) /\ ~Analyses(q)
    BY <1>1, <1>8 DEF Analyses
  <1>13. log' \in Seq(Entry) /\ shown' \in 0..Len(log')
    BY <1>1, <1>2 DEF SuggestionsTyped
  <1> QED BY <1>1, <1>6, <1>8, <1>10, <1>11, <1>12, <1>13, UnlockedStep

\* A decision is appended to a suggestion that has none, and names the trigger
\* of its own request; else the request gives up.
LEMMA RefusedStep ==
  ASSUME SInv, NEW c \in Caller, request[c].at = "decision", S!Go(c, S!Idle), UNCHANGED Histories,
         UNCHANGED <<locked, recent, calls, mishaps>>
  PROVE  SInv'
  <1>1. PICK q \in Analysis : S!Go(c, q) /\ q.at = "idle"
    <2>1. [at |-> "idle"] \in Analysis
      BY DEF Analysis
    <2> QED BY <2>1 DEF S!Idle
  <1>2. LogHolds' /\ Onward
        /\ log' \in Seq(Entry) /\ shown' \in 0..Len(log') /\ triggers' \in Seq(Nat)
    BY LogStays
  <1>3. Fits(q)' /\ ~Analyses(request[c]) /\ ~Analyses(q)
    BY <1>1 DEF Fits, Analyses
  <1> QED BY <1>1, <1>2, <1>3, UnlockedStep

LEMMA DecisionStep ==
  ASSUME SInv, NEW c \in Caller, S!AppendDecision(c)
  PROVE  SInv'
  <1>1. /\ request[c].at = "decision" /\ blind' = blind /\ UNCHANGED <<shown, triggers, answered>>
        /\ UNCHANGED <<locked, recent, calls, mishaps>>
    BY DEF S!AppendDecision
  <1>2. CASE S!Decisions(request[c].suggestion) # {}
    <2>1. S!Go(c, S!Idle) /\ UNCHANGED Histories
      BY <1>1, <1>2 DEF S!AppendDecision, Histories
    <2> QED BY <1>1, <2>1, RefusedStep
  <1>3. CASE S!Decisions(request[c].suggestion) = {}
    <2>1. /\ SuggestionsTyped /\ LogHolds /\ request[c] \in Analysis \union Verdict
          /\ Fits(request[c])
      BY DEF SInv, SuggestionsTyped
    <2>2. PICK s, k, e, n, q :
            /\ s = request[c].suggestion /\ k = request[c].trigger /\ n = Len(log) + 1
            /\ e = [type |-> "TriggerTemplateDecided", suggestion |-> s, trigger |-> k]
            /\ q = [at |-> "catch up decision", suggestion |-> s]
      OBVIOUS
    <2>3. LogGrows(e) /\ S!Go(c, q)
      BY <1>1, <1>3, <2>2 DEF S!AppendDecision, LogGrows
    <2>4. /\ s \in Nat /\ k \in Nat
          /\ S!Suggested(s) /\ MadeFor(k, s) /\ S!Decisions(s) = {}
      <3>1. s \in Nat /\ k \in Nat
        BY <1>1, <2>1, <2>2 DEF Analysis, Verdict
      <3>2. S!Suggested(s) /\ MadeFor(k, s)
        BY <1>1, <2>1, <2>2 DEF Fits
      <3> QED BY <1>3, <2>2, <3>1, <3>2
    <2>5. /\ e \in Entry /\ e.type = "TriggerTemplateDecided" /\ e.suggestion = s /\ e.trigger = k
          /\ q \in Verdict /\ q.at = "catch up decision" /\ q.suggestion = s
      BY <2>2, <2>4 DEF Entry, Verdict
    <2>6. /\ n \in Nat \ {0} /\ Len(log') = n /\ log'[n] = e /\ n \notin 1..Len(log)
          /\ log' \in Seq(Entry) /\ shown' \in 0..Len(log')
          /\ \A i \in 1..Len(log) : /\ i \in 1..Len(log') /\ i < n /\ log'[i] = log[i]
                                    /\ S!Suggested(i)' = S!Suggested(i)
          /\ \A i \in 1..Len(log') : i = n \/ i \in 1..Len(log)
          /\ ~S!Suggested(n)'
          /\ \A x : S!Suggested(x) => S!Suggested(x)'
          /\ \A x : Settled(x) => Settled(x)'
          /\ \A j, x : MadeFor(j, x)' = MadeFor(j, x)
      BY <2>1, <2>2, <2>3, <2>5, LongerLog
    <2>7. Onward
      BY <2>1, <2>3, <2>5, GrowsOnward
    <2>8. Fits(q)'
      <3>1. n \in S!Decisions(s)'
        <4>1. n \in 1..Len(log')
          BY <2>6
        <4>2. log'[n].suggestion = s
          BY <2>5, <2>6
        <4> QED BY <2>6, <4>1, <4>2 DEF S!Decisions
      <3>2. S!Suggested(q.suggestion)' /\ (S!Decisions(q.suggestion) # {})'
        BY <2>4, <2>5, <2>6, <3>1 DEF S!Decisions
      <3> QED BY <2>5, <3>2 DEF Fits
    <2>9. SuggestionsApart'
      <3> SUFFICES ASSUME NEW x \in 1..Len(log'), NEW u \in 1..Len(log'), x < u,
                          S!Suggested(x)', S!Suggested(u)', log'[x].template = log'[u].template,
                          u \notin blind'
                   PROVE  Settled(x)'
        BY DEF SuggestionsApart
      <3>1. /\ x \in 1..Len(log) /\ S!Suggested(x) /\ log'[x] = log[x]
            /\ u \in 1..Len(log) /\ S!Suggested(u) /\ log'[u] = log[u]
        BY <2>6
      <3>2. Settled(x)
        BY <1>1, <2>1, <3>1 DEF LogHolds, SuggestionsApart
      <3> QED BY <2>6, <3>2
    <2>10. \A i \in 1..Len(log) : ~S!Suggested(i) => log[i].suggestion # s
      BY <2>4 DEF S!Decisions
    <2>11. DecisionsApart'
      <3> SUFFICES ASSUME NEW i \in 1..Len(log'), NEW j \in 1..Len(log'),
                          ~S!Suggested(i)', ~S!Suggested(j)', log'[i].suggestion = log'[j].suggestion
                   PROVE  i = j
        BY DEF DecisionsApart
      <3>1. \A x \in 1..Len(log') : ~S!Suggested(x)' =>
              \/ x = n /\ log'[x].suggestion = s
              \/ x \in 1..Len(log) /\ ~S!Suggested(x) /\ log'[x] = log[x] /\ log'[x].suggestion # s
        BY <2>5, <2>6, <2>10
      <3> QED BY <2>1, <3>1 DEF LogHolds, DecisionsApart
    <2>12. DecisionsName'
      <3>1. ASSUME NEW i \in 1..Len(log'), ~S!Suggested(i)'
            PROVE  MadeFor(log'[i].trigger, log'[i].suggestion)
        <4>1. CASE i = n
          BY <2>4, <2>5, <2>6, <4>1
        <4>2. CASE i # n
          BY <2>1, <2>6, <3>1, <4>2 DEF LogHolds, DecisionsName
        <4> QED BY <4>1, <4>2
      <3> QED BY <2>6, <3>1 DEF DecisionsName
    <2>13. SuggestionsNamed'
      BY <1>1, <2>1, <2>6 DEF LogHolds, SuggestionsNamed
    <2>14. ~Analyses(request[c]) /\ ~Analyses(q)
      BY <1>1, <2>5 DEF Analyses
    <2>15. triggers' \in Seq(Nat)
      BY <1>1, <2>1 DEF SuggestionsTyped
    <2> QED BY <1>1, <2>3, <2>5, <2>6, <2>7, <2>8, <2>9, <2>11, <2>12, <2>13, <2>14, <2>15,
               UnlockedStep DEF LogHolds
  <1> QED BY <1>2, <1>3

\* A request that fails gives back the lock it holds, and may leave a trigger
\* that no decision names.
LEMMA AnalysisFailStep ==
  ASSUME SInv, NEW c \in Caller, S!Fail(c)
  PROVE  SInv'
  <1>1. /\ mishaps' = mishaps + 1 /\ locked' = (locked /\ ~Analyses(request[c]))
        /\ S!Go(c, S!Idle) /\ UNCHANGED <<log, shown>> /\ recent' = recent
        /\ blind' = blind /\ answered' = answered /\ calls' = calls
        /\ \/ triggers' = triggers
           \/ request[c].at = "create" /\ triggers' = Append(triggers, request[c].suggestion)
    BY DEF S!Fail, Analyses
  <1>2. PICK q \in Analysis : S!Go(c, q) /\ q.at = "idle"
    <2>1. [at |-> "idle"] \in Analysis
      BY DEF Analysis
    <2> QED BY <1>1, <2>1 DEF S!Idle
  <1>3. /\ SuggestionsTyped /\ LogHolds /\ request[c] \in Analysis \union Verdict
        /\ Fits(request[c])
    BY DEF SInv, SuggestionsTyped
  <1>4. LogHolds' /\ Onward
        /\ log' \in Seq(Entry) /\ shown' \in 0..Len(log') /\ triggers' \in Seq(Nat)
    <2>1. CASE triggers' = triggers
      <3>1. UNCHANGED Histories
        BY <1>1, <2>1 DEF Histories
      <3> QED BY <3>1, LogStays
    <2>2. CASE request[c].at = "create" /\ triggers' = Append(triggers, request[c].suggestion)
      <3>1. PICK s, n : s = request[c].suggestion /\ n = Len(triggers) + 1
        OBVIOUS
      <3>2. s \in Nat /\ S!Suggested(s)
        BY <1>3, <2>2, <3>1 DEF Analysis, Verdict, Fits
      <3>3. /\ Onward /\ triggers' \in Seq(Nat)
            /\ \A x : Settled(x)' = Settled(x)
            /\ \A k, x : MadeFor(k, x) => MadeFor(k, x)'
            /\ triggers'[n] = s
            /\ \A i \in DOMAIN triggers' : i = n \/ (i \in DOMAIN triggers /\ triggers'[i] = triggers[i])
        BY <1>1, <1>3, <2>2, <3>1, <3>2, MakesOnward
      <3>4. \A i \in DOMAIN triggers' : S!Suggested(triggers'[i])
        BY <1>3, <3>2, <3>3 DEF LogHolds, SuggestionsNamed
      <3>5. \A x \in answered' : S!Suggested(x) /\ Settled(x)'
        BY <1>1, <1>3, <3>3 DEF LogHolds, SuggestionsNamed
      <3>6. LogHolds'
        BY <1>1, <1>3, <3>3, <3>4, <3>5, LogHoldsOn
      <3>7. log' \in Seq(Entry) /\ shown' \in 0..Len(log')
        BY <1>1, <1>3 DEF SuggestionsTyped
      <3> QED BY <3>3, <3>6, <3>7
    <2> QED BY <1>1, <2>1, <2>2
  <1>5. /\ request' \in [Caller -> Analysis \union Verdict]
        /\ request'[c] = q /\ \A d \in Caller : d # c => request'[d] = request[d]
    BY <1>2, <1>3 DEF SuggestionsTyped, S!Go
  <1>6. \A d \in Caller : Analyses(request'[d]) => d # c /\ Analyses(request[d])
    BY <1>2, <1>5 DEF Analyses
  <1>7. OneAnalyses'
    <2>1. ASSUME NEW a \in Caller, Analyses(request'[a])
          PROVE  locked' /\ \A d \in Caller : Analyses(request'[d]) => a = d
      <3>1. a # c /\ Analyses(request[a])
        BY <1>6, <2>1
      <3>2. locked /\ \A d \in Caller : Analyses(request[d]) => a = d
        BY <3>1 DEF SInv, OneAnalyses
      <3> QED BY <1>1, <1>6, <3>1, <3>2
    <2> QED BY <2>1 DEF OneAnalyses, Analyses
  <1>8. CallsPaid'
    <2>1. calls <= 1 + mishaps /\ calls \in Nat /\ mishaps \in Nat
      BY DEF SInv, CallsPaid, SuggestionsTyped
    <2> QED BY <1>1, <2>1 DEF CallsPaid
  <1>9. ASSUME NEW d \in Caller
        PROVE  Fits(request[d])'
    <2>1. CASE d = c
      BY <1>2, <1>5, <2>1 DEF Fits
    <2>2. CASE d # c
      <3>1. PICK p : p = request[d] /\ Fits(p)
        BY DEF SInv
      <3>2. p.at = "model" => ~recent'
        BY <1>1, <3>1 DEF Fits
      <3>3. Fits(p)'
        BY <1>4, <3>1, <3>2 DEF Onward
      <3> QED BY <1>5, <2>2, <3>1, <3>3 DEF Fits
    <2> QED BY <2>1, <2>2
  <1>10. SuggestionsTyped'
    <2>1. locked' \in BOOLEAN /\ recent' \in BOOLEAN
      BY <1>1, <1>3 DEF SuggestionsTyped
    <2>2. calls' \in Nat /\ mishaps' \in Nat
      BY <1>1, <1>3 DEF SuggestionsTyped
    <2> QED BY <1>4, <1>5, <2>1, <2>2 DEF SuggestionsTyped
  <1> QED BY <1>4, <1>7, <1>8, <1>9, <1>10 DEF SInv

LEMMA SuggestionsInit ==
  ASSUME S!Init
  PROVE  SInv
  <1>1. log = << >> /\ triggers = << >> /\ Len(log) = 0 /\ DOMAIN triggers = {}
    BY DEF S!Init
  <1>2. SuggestionsTyped
    <2>1. [at |-> "idle"] \in Analysis
      BY DEF Analysis
    <2>2. request \in [Caller -> Analysis \union Verdict]
      BY <2>1 DEF S!Init, S!Idle
    <2>3. log \in Seq(Entry) /\ triggers \in Seq(Nat) /\ shown \in 0..Len(log)
      BY <1>1 DEF S!Init
    <2>4. locked \in BOOLEAN /\ recent \in BOOLEAN /\ calls \in Nat /\ mishaps \in Nat
      BY DEF S!Init
    <2> QED BY <2>2, <2>3, <2>4 DEF SuggestionsTyped
  <1>3. \A i \in 1..Len(log) : FALSE
    BY <1>1
  <1>4. LogHolds
    BY <1>1, <1>3 DEF S!Init, LogHolds, SuggestionsApart, DecisionsApart, DecisionsName, SuggestionsNamed
  <1>5. OneAnalyses /\ CallsPaid
    BY DEF S!Init, S!Idle, OneAnalyses, CallsPaid, Analyses
  <1>6. \A c \in Caller : Fits(request[c])
    BY DEF S!Init, S!Idle, Fits
  <1> QED BY <1>2, <1>4, <1>5, <1>6 DEF SInv

LEMMA SuggestionsStep ==
  ASSUME SInv, [S!Next]_S!vars
  PROVE  SInv'
  <1>1. CASE UNCHANGED S!vars
    <2>1. /\ UNCHANGED Histories /\ UNCHANGED <<log, shown, triggers>>
          /\ UNCHANGED <<locked, recent, request, calls, mishaps>>
      BY <1>1 DEF S!vars, Histories
    <2>2. LogHolds' /\ Onward
      BY <2>1, LogStays
    <2>3. SuggestionsTyped' /\ OneAnalyses' /\ CallsPaid'
      BY <2>1 DEF SInv, SuggestionsTyped, OneAnalyses, CallsPaid
    <2>4. ASSUME NEW d \in Caller
          PROVE  Fits(request[d])'
      <3>1. PICK p : p = request[d] /\ Fits(p)
        BY DEF SInv
      <3>2. Fits(p)'
        BY <2>1, <2>2, <3>1 DEF Onward, Fits
      <3> QED BY <2>1, <3>1, <3>2 DEF Fits
    <2> QED BY <2>2, <2>3, <2>4 DEF SInv
  <1>2. ASSUME NEW c \in Caller,
               \/ S!TakeLock(c) \/ S!CheckCooldown(c) \/ S!AskModel(c) \/ S!MarkAnalysisRan(c)
               \/ S!ReadPending(c) \/ S!AppendSuggestion(c) \/ S!AppendedAll(c) \/ S!CatchUp(c)
               \/ S!Decide(c) \/ S!CreateTrigger(c) \/ S!AppendDecision(c) \/ S!CatchUpDecision(c)
               \/ S!Fail(c)
        PROVE  SInv'
    BY <1>2, SuggestionLockStep, AskStep, RanStep, ReadPendingStep, SuggestStep, AppendedAllStep,
       SuggestionsCaughtUpStep, DecideStep, CreateTriggerStep, DecisionStep, AnalysisFailStep
  <1>3. CASE S!CooldownElapses
    BY <1>3, CooldownStep
  <1> QED BY <1>1, <1>2, <1>3 DEF S!Next

LEMMA SuggestionsAlways == S!Spec => []SInv
  <1>1. S!Init => SInv
    BY SuggestionsInit
  <1>2. SInv /\ [S!Next]_S!vars => SInv'
    BY SuggestionsStep
  <1> QED BY <1>1, <1>2, PTL DEF S!Spec

LEMMA DecidesOnce ==
  ASSUME SInv
  PROVE  S!DecidedOnce
  <1>1. SuggestionsTyped /\ DecisionsApart /\ DecisionsName
    BY DEF SInv, LogHolds
  <1> SUFFICES ASSUME NEW s \in 1..Len(log), S!Suggested(s)
               PROVE  /\ S!Cardinality(S!Decisions(s)) <= 1
                      /\ \A i \in S!Decisions(s) : log[i].trigger # 0 => triggers[log[i].trigger] = s
    BY DEF S!DecidedOnce
  <1>2. \A i \in S!Decisions(s) : i \in 1..Len(log) /\ ~S!Suggested(i) /\ log[i].suggestion = s
    BY DEF S!Decisions
  <1>3. \A i \in S!Decisions(s) : log[i].trigger # 0 => triggers[log[i].trigger] = s
    BY <1>1, <1>2 DEF DecisionsName, MadeFor
  <1>4. \A i, j \in S!Decisions(s) : i = j
    BY <1>1, <1>2 DEF DecisionsApart
  <1>5. Cardinality(S!Decisions(s)) <= 1
    <2>1. CASE S!Decisions(s) = {}
      BY <2>1, FS_EmptySet
    <2>2. CASE S!Decisions(s) # {}
      <3>1. PICK i : i \in S!Decisions(s)
        BY <2>2
      <3>2. S!Decisions(s) = {i}
        BY <1>4, <3>1
      <3>3. Cardinality({i}) = 1
        BY FS_Singleton
      <3> QED BY <3>2, <3>3
    <2> QED BY <2>1, <2>2
  <1>6. S!Cardinality(S!Decisions(s)) = Cardinality(S!Decisions(s))
    BY DEF S!Cardinality, Cardinality
  <1> QED BY <1>3, <1>5, <1>6

LEMMA NoDuplicates ==
  ASSUME SInv
  PROVE  S!NoDuplicatePending
  <1> SUFFICES ASSUME NEW s \in S!Pending, NEW t \in S!Pending, s < t,
                      log[s].template = log[t].template, t \notin blind
               PROVE  FALSE
    BY DEF S!NoDuplicatePending
  <1>1. /\ s \in 1..Len(log) /\ S!Suggested(s) /\ ~Settled(s)
        /\ t \in 1..Len(log) /\ S!Suggested(t)
    BY PendingIsOpen DEF SInv
  <1> QED BY <1>1 DEF SInv, LogHolds, SuggestionsApart

\* A suggestion is decided once, whoever decides at the same time, and an
\* approval names a trigger made for it.
THEOREM SuggestionDecidedOnce == S!Spec => []S!DecidedOnce
  <1>1. SInv => S!DecidedOnce
    BY DecidesOnce
  <1> QED BY <1>1, SuggestionsAlways, PTL

\* The AI lock and the cooldown bound the calls of the model that a workspace
\* pays for, by one and one for each analysis that failed.
THEOREM CooldownBoundsCalls == S!Spec => []S!OneAnalysisPerCooldown
  <1>1. SInv => S!OneAnalysisPerCooldown
    BY DEF SInv, CallsPaid, S!OneAnalysisPerCooldown
  <1> QED BY <1>1, SuggestionsAlways, PTL

\* Two pending suggestions of one template come of analyses that did not see
\* each other's suggestions.
THEOREM DuplicatesAreBlind == S!Spec => []S!NoDuplicatePending
  <1>1. SInv => S!NoDuplicatePending
    BY NoDuplicates
  <1> QED BY <1>1, SuggestionsAlways, PTL

\* No request that begins after a decision was answered creates a trigger for
\* the suggestion that was decided.
THEOREM AnsweredDecisionsStand == S!Spec => S!AnsweredIsRespected
  <1>1. SInv => S!CreatedInTime
    <2> SUFFICES ASSUME SInv, NEW c \in Caller, S!CreateTrigger(c)
                 PROVE  ~request[c].late
      BY DEF S!CreatedInTime
    <2>1. Fits(request[c]) /\ request[c].at = "create"
      BY DEF SInv, S!CreateTrigger
    <2> QED BY <2>1 DEF Fits
  <1>2. SInv /\ [S!Next]_S!vars => [S!CreatedInTime]_S!vars
    BY <1>1
  <1> QED BY <1>2, SuggestionsAlways, PTL DEF S!Spec, S!AnsweredIsRespected

===============================================================================
