----------------------------- MODULE ActionContract -----------------------------
(***************************************************************************)
(* What a workspace is promised of the actions an AI proposes: a set of    *)
(* actions is decided once and for all, and an action is carried out at    *)
(* most once, after it was approved or because its kind is exempt.         *)
(***************************************************************************)
EXTENDS Naturals

CONSTANT Action

VARIABLES
  exempt,   \* actions carried out without asking
  verdict,  \* "none", "approved" or "rejected"
  closed,   \* the proposal has been decided
  count     \* how often each action was carried out

contractVars == <<exempt, verdict, closed, count>>

Init ==
  /\ exempt \in SUBSET Action
  /\ verdict = [a \in Action |-> "none"]
  /\ closed = FALSE
  /\ count = [a \in Action |-> 0]

\* Actions the decision does not mention are never carried out.
Decide ==
  /\ ~closed
  /\ closed' = TRUE
  /\ verdict' \in [Action -> {"none", "approved", "rejected"}]
  /\ UNCHANGED <<exempt, count>>

CarryOut(a) ==
  /\ count[a] = 0
  /\ a \in exempt \/ verdict[a] = "approved"
  /\ count' = [count EXCEPT ![a] = 1]
  /\ UNCHANGED <<exempt, verdict, closed>>

Next == Decide \/ \E a \in Action : CarryOut(a)

Spec == Init /\ [][Next]_contractVars
===============================================================================
