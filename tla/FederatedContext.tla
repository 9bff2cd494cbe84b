--------------------------- MODULE FederatedContext ---------------------------
(***************************************************************************)
(* Reading another workspace's objects over a federation link: the guard   *)
(* federation-token-auth.guard.ts, get_federated_context of                *)
(* federation-mcp.controller.ts, the scope of federation-scope.service.ts, *)
(* the audit logs of federation-audit.service.ts and the filter            *)
(* filter-federated-context-graph.ts, over the links of FederationLinks.   *)
(*                                                                         *)
(* A read passes one check after the other, and link, credential and scope *)
(* may change between any two of them.  There is one link, one credential  *)
(* and the host's side of the scope.                                       *)
(***************************************************************************)
EXTENDS FederationLinks

CONSTANTS
  Object,      \* the host's objects; each is related to every other one
  Reader,      \* concurrent reads of the grantee
  MaxReads,    \* bound: events in the host's audit log
  MaxChanges   \* bound: changes of the scope

VARIABLES
  credential,  \* the credential is neither revoked nor expired
  scope,       \* objects with a row in federation_scope_objects that is not removed
  changes,     \* changes of the scope so far
  audit,       \* the host's audit log: the object of each FederatedContextAccessed
  read,        \* locals of each read
  answers      \* history: the reads that were answered

fedVars == <<credential, scope, changes, audit, read, answers>>

NoRead == [at |-> "idle"]

FedInit ==
  /\ Init
  /\ credential = TRUE
  /\ scope = {}
  /\ changes = 0
  /\ audit = << >>
  /\ read = [r \in Reader |-> NoRead]
  /\ answers = {}

-------------------------------------------------------------------------------
\* The status of the credential's link, the first one.
LinkIs(status) == links # << >> /\ links[1].status = status

GoRead(r, q) == read' = [read EXCEPT ![r] = q]

\* The guard finds the token's credential ...
CheckCredential(r) ==
  /\ read[r].at = "idle"
  /\ credential
  /\ \E o \in Object : GoRead(r, [at |-> "link", object |-> o, scoped |-> scope,
                                  revoked |-> LinkIs("revoked")])
  /\ UNCHANGED <<credential, scope, changes, audit, answers>>

\* ... and its link; the rate limit that follows may refuse the read.
CheckLink(r) ==
  /\ read[r].at = "link"
  /\ \/ GoRead(r, NoRead)
     \/ LinkIs("active") /\ GoRead(r, [read[r] EXCEPT !.at = "scope"])
  /\ UNCHANGED <<credential, scope, changes, audit, answers>>

\* isActiveScopeObject.
CheckScope(r) ==
  /\ read[r].at = "scope"
  /\ GoRead(r, IF read[r].object \in scope THEN [read[r] EXCEPT !.at = "audit"] ELSE NoRead)
  /\ UNCHANGED <<credential, scope, changes, audit, answers>>

\* recordAccessedFailClosed reads the log's length ...
ReadAudit(r) ==
  /\ read[r].at = "audit"
  /\ GoRead(r, [at |-> "append", object |-> read[r].object, scoped |-> read[r].scoped,
                revoked |-> read[r].revoked, version |-> Len(audit)])
  /\ UNCHANGED <<credential, scope, changes, audit, answers>>

\* Faulty variant of AppendAudit: a read goes on without its audit event.
AppendAuditBestEffort(r) ==
  /\ read[r].at = "append"
  /\ IF Len(audit) = read[r].version
       THEN Len(audit) < MaxReads /\ audit' = Append(audit, read[r].object)
       ELSE UNCHANGED audit
  /\ GoRead(r, [read[r] EXCEPT !.at = "filter"])
  /\ UNCHANGED <<credential, scope, changes, answers>>

\* ... and appends at it: whom another read overtook is refused.
AppendAudit(r) ==
  /\ read[r].at = "append"
  /\ IF Len(audit) = read[r].version
       THEN /\ Len(audit) < MaxReads
            /\ audit' = Append(audit, read[r].object)
            /\ GoRead(r, [read[r] EXCEPT !.at = "filter"])
       ELSE GoRead(r, NoRead) /\ UNCHANGED audit
  /\ UNCHANGED <<credential, scope, changes, answers>>

Answer(r, objects) ==
  /\ answers' = answers \union
       {[event |-> read[r].version + 1, object |-> read[r].object, shown |-> objects,
         scoped |-> read[r].scoped, revoked |-> read[r].revoked]}
  /\ GoRead(r, NoRead)

\* getContext, and filterFederatedContextGraph with the scope of then; the
\* grantee's own audit event is written or not.
AnswerFiltered(r) ==
  /\ read[r].at = "filter"
  /\ Answer(r, {read[r].object} \union scope)
  /\ UNCHANGED <<credential, scope, changes, audit>>

\* A call fails, also the append whose event was stored.
FailRead(r) ==
  /\ read[r].at \in {"append", "filter"}
  /\ GoRead(r, NoRead)
  /\ \/ UNCHANGED audit
     \/ /\ read[r].at = "append"
        /\ Len(audit) = read[r].version
        /\ Len(audit) < MaxReads
        /\ audit' = Append(audit, read[r].object)
  /\ UNCHANGED <<credential, scope, changes, answers>>

-------------------------------------------------------------------------------
\* What is in scope while a read is under way.
Scoped(objects) ==
  [r \in Reader |-> IF read[r].at = "idle" THEN read[r]
                    ELSE [read[r] EXCEPT !.scoped = @ \union objects]]

\* addObject asks for a link, in whatever status, and for an object.
AddObject(o) ==
  /\ links # << >>
  /\ o \notin scope
  /\ changes < MaxChanges
  /\ changes' = changes + 1
  /\ scope' = scope \union {o}
  /\ read' = Scoped({o})
  /\ UNCHANGED <<credential, audit, answers>>

RemoveObject(o) ==
  /\ o \in scope
  /\ changes < MaxChanges
  /\ changes' = changes + 1
  /\ scope' = scope \ {o}
  /\ UNCHANGED <<credential, audit, read, answers>>

\* FederationLinkCredentialsService.revoke, or the day of its expiry.
RevokeCredential ==
  /\ credential
  /\ credential' = FALSE
  /\ UNCHANGED <<scope, changes, audit, read, answers>>

FedNext ==
  \/ Next /\ UNCHANGED fedVars
  \/ /\ \/ \E r \in Reader :
             \/ CheckCredential(r) \/ CheckLink(r) \/ CheckScope(r) \/ ReadAudit(r)
             \/ AppendAudit(r) \/ AnswerFiltered(r) \/ FailRead(r)
        \/ \E o \in Object : AddObject(o) \/ RemoveObject(o)
        \/ RevokeCredential
     /\ UNCHANGED vars

FedSpec == FedInit /\ [][FedNext]_<<vars, fedVars>>

-------------------------------------------------------------------------------
FedTypeOK ==
  /\ TypeOK
  /\ credential \in BOOLEAN
  /\ scope \subseteq Object
  /\ changes \in 0..MaxChanges
  /\ audit \in Seq(Object) /\ Len(audit) <= MaxReads
  /\ \A r \in Reader : read[r].at \in {"idle", "link", "scope", "audit", "append", "filter"}

\* Every answer is in the host's audit log, under an event of its own: no read
\* that could not be recorded is answered, and no two share a record.
AnswersAudited ==
  /\ \A a \in answers : a.event <= Len(audit) /\ audit[a.event] = a.object
  /\ \A a, b \in answers : a.event = b.event => a = b

\* An answer shows no object that was out of scope all the while it was made.
ShownWasInScope == \A a \in answers : a.shown \subseteq a.scoped

\* A read that begins when the link is revoked is not answered, unless an
\* overtaken acceptance makes the link active again.
RevokedLinkAnswersNothing == overtaken = {} => \A a \in answers : ~a.revoked
===============================================================================
