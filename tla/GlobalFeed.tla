------------------------------ MODULE GlobalFeed ------------------------------
(***************************************************************************)
(* The event log as its readers see it through readAllFrom: rows carry a   *)
(* global position.  A writer's transaction draws positions in order, but  *)
(* they become visible when it commits, all at once and in any order       *)
(* relative to the other writers; a position whose row is skipped or whose *)
(* transaction is rolled back is never used again.                         *)
(***************************************************************************)
EXTENDS Integers

CONSTANTS
  Writer,       \* concurrent append transactions
  MaxPosition   \* bound: the last position drawn

VARIABLES
  nextPos,   \* the next value of the identity sequence
  open,      \* positions drawn by each writer's open transaction
  visible    \* positions of committed rows

feedVars == <<nextPos, open, visible>>

Positions == 1..MaxPosition

FeedInit ==
  /\ nextPos = 1
  /\ open = [w \in Writer |-> {}]
  /\ visible = {}

Draw(w) ==
  /\ nextPos <= MaxPosition
  /\ open' = [open EXCEPT ![w] = @ \union {nextPos}]
  /\ nextPos' = nextPos + 1
  /\ UNCHANGED visible

\* The row is skipped, or the transaction is rolled back.
Drop(w, P) ==
  /\ P # {}
  /\ open' = [open EXCEPT ![w] = @ \ P]
  /\ UNCHANGED <<nextPos, visible>>

Publish(w) ==
  /\ open[w] # {}
  /\ visible' = visible \union open[w]
  /\ open' = [open EXCEPT ![w] = {}]
  /\ UNCHANGED nextPos

FeedStep ==
  \E w \in Writer :
    \/ Draw(w)
    \/ \E P \in SUBSET open[w] : Drop(w, P)
    \/ Publish(w)

FeedSpec == FeedInit /\ [][FeedStep]_feedVars
===============================================================================
