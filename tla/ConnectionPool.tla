---------------------------- MODULE ConnectionPool ----------------------------
(***************************************************************************)
(* One pg Pool shared by everything the server does.  catchUp opens a      *)
(* transaction (one connection), waits inside it for the projection's      *)
(* advisory lock, and then reads every page of the log through another     *)
(* connection of the same pool; the AI and agent services hold a           *)
(* connection and an advisory lock around work that catches projections up.*)
(* A request is modelled by what it holds, outermost first.                *)
(***************************************************************************)
EXTENDS Integers, Sequences, FiniteSets

CONSTANTS
  Request,    \* concurrent requests
  Lock,       \* advisory lock keys: projections, workspaces, agents
  Conn,       \* marks a connection in a request's list of needs
  Needs,      \* Needs[r]: what request r comes to hold, outermost first
  Capacity,   \* connections of the pool (pg's default max is 10)
  MaxReads    \* bound: pages read, i.e. uses of the innermost connection

PoolAssumption ==
  /\ Conn \notin Lock
  /\ Needs \in [Request -> Seq(Lock \union {Conn})]
  /\ \A r \in Request : /\ Needs[r] # <<>>
                        /\ Needs[r][1] = Conn
                        /\ Needs[r][Len(Needs[r])] = Conn
  /\ Capacity \in Nat \ {0}
  /\ MaxReads \in Nat \ {0}

VARIABLES
  mode,    \* "idle", "in" (acquiring and working) or "out" (unwinding)
  depth,   \* how many of its needs a request holds
  reads,   \* uses of the innermost connection still to come
  queue    \* the pool's queue of pending clients

vars == <<mode, depth, reads, queue>>

Held(r) == {i \in DOMAIN Needs[r] : i <= depth[r]}
ConnsHeld == {x \in UNION {{r} \X Held(r) : r \in Request} : Needs[x[1]][x[2]] = Conn}
LockFree(l) == \A r \in Request : \A i \in Held(r) : Needs[r][i] # l
Working(r) == depth[r] = Len(Needs[r])
Wants(r, x) == mode[r] = "in" /\ ~Working(r) /\ Needs[r][depth[r] + 1] = x
Queued(r) == \E i \in DOMAIN queue : queue[i] = r

Init ==
  /\ mode = [r \in Request |-> "idle"]
  /\ depth = [r \in Request |-> 0]
  /\ reads = [r \in Request |-> 0]
  /\ queue = <<>>

Begin(r) ==
  /\ mode[r] = "idle"
  /\ mode' = [mode EXCEPT ![r] = "in"]
  /\ reads' \in {[reads EXCEPT ![r] = n] : n \in 1..MaxReads}
  /\ UNCHANGED <<depth, queue>>

\* pool.connect() joins the queue of pending clients.
Connect(r) ==
  /\ Wants(r, Conn)
  /\ ~Queued(r)
  /\ queue' = Append(queue, r)
  /\ UNCHANGED <<mode, depth, reads>>

\* The pool serves its queue in order, and never times a client out.
Grant ==
  /\ queue # <<>>
  /\ Cardinality(ConnsHeld) < Capacity
  /\ depth' = [depth EXCEPT ![Head(queue)] = @ + 1]
  /\ queue' = Tail(queue)
  /\ UNCHANGED <<mode, reads>>

\* pg_advisory_lock, or pg_advisory_xact_lock, on a connection already held.
TakeLock(r) ==
  /\ \E l \in Lock : Wants(r, l) /\ LockFree(l)
  /\ depth' = [depth EXCEPT ![r] = @ + 1]
  /\ UNCHANGED <<mode, reads, queue>>

\* The innermost connection is given back after each read.
EndRead(r) ==
  /\ mode[r] = "in"
  /\ Working(r)
  /\ depth' = [depth EXCEPT ![r] = @ - 1]
  /\ reads' = [reads EXCEPT ![r] = @ - 1]
  /\ mode' = IF reads[r] = 1 THEN [mode EXCEPT ![r] = "out"] ELSE mode
  /\ UNCHANGED queue

\* The transactions end and the locks are released, innermost first.
Unwind(r) ==
  /\ mode[r] = "out"
  /\ IF depth[r] = 0
       THEN mode' = [mode EXCEPT ![r] = "idle"] /\ UNCHANGED depth
       ELSE depth' = [depth EXCEPT ![r] = @ - 1] /\ UNCHANGED mode
  /\ UNCHANGED <<reads, queue>>

Advance(r) == Connect(r) \/ TakeLock(r) \/ EndRead(r) \/ Unwind(r)

Next ==
  \/ Grant
  \/ \E r \in Request : Begin(r) \/ Advance(r)

Spec == Init /\ [][Next]_vars

\* The event loop and the database run what they can.  A free lock goes to a
\* waiter again and again, and Postgres serves lock waiters in order, hence
\* strong fairness there; requests need never begin.
FairSpec ==
  /\ Spec
  /\ WF_vars(Grant)
  /\ \A r \in Request : WF_vars(Advance(r)) /\ SF_vars(TakeLock(r))

-------------------------------------------------------------------------------
TypeOK ==
  /\ mode \in [Request -> {"idle", "in", "out"}]
  /\ depth \in [Request -> Nat]
  /\ reads \in [Request -> 0..MaxReads]
  /\ queue \in Seq(Request)
  /\ Cardinality(ConnsHeld) <= Capacity

\* Every request that begins gives its connections back.
RequestsFinish == \A r \in Request : mode[r] = "in" ~> mode[r] = "idle"
===============================================================================
