------------------------- MODULE ActionProposalsProofs -------------------------
(***************************************************************************)
(* Proofs about ActionProposals for all actions, decisions and callers.    *)
(* None of the promises is inductive by itself: that an action is carried  *)
(* out once rests on who may still carry it out.  Each call that works     *)
(* through a list has a claim to its actions; the claims of two calls are  *)
(* disjoint, because the proposer's are the autonomous actions before the  *)
(* proposal is recorded, and the version check lets one decision through.  *)
(* Of undos, the tasks a call has deleted belong to it.  At the end, where *)
(* proposals are told of: a direct message conversation (TalkInv) and the  *)
(* transcript of a meeting (MeetingInv).                                   *)
(***************************************************************************)
EXTENDS ActionProposals, FiniteSetTheorems, TLAPS

Looping  == {"next", "work", "relate", "ledger"}
Carrying == Looping \union {"refresh"}

ActionsOf(d) == {d[i].action : i \in DOMAIN d}

\* The actions a call works through: to do, and dealt with.
Claims(c) == IF job[c].at \in Carrying
               THEN ActionsOf(job[c].todo) \union job[c].handled ELSE {}

\* There is a record of the action being carried out or rejected.
HasRecord(a) == \E i \in DOMAIN ledger : ledger[i].undoes = 0 /\ ledger[i].action = a

\* A call that is idle holds nothing.
Rested(c) == job[c].at = "idle" => job[c] = IdleJob

\* The proposal comes before any version of the stream, and its first loop is
\* about the autonomous actions.
ProposesFirst(c) ==
  /\ job[c].onward = "record" \/ job[c].at = "record" => c = Proposer /\ version = 0
  /\ job[c].onward = "record" =>
       /\ job[c].at \in Looping
       /\ Claims(c) \subseteq Autonomous

Deciding(c) == job[c].onward = "idle" /\ Claims(c) # {}

\* Some entries of list d are dealt with, in its order.
PartWay(d, todo, handled) ==
  \E n \in 0..Len(d) : /\ todo = SubSeq(d, n + 1, Len(d))
                       /\ handled = {d[i].action : i \in 1..n}

\* The call that won works through the decision as it was stored.
FollowsDecision(c) ==
  Deciding(c) => version = 2 /\ PartWay(decision, job[c].todo, job[c].handled)

\* What is about to be stored is about the actions that wait for a decision, and
\* the system decides only if all of them are of its tier.
MayDecide(c) ==
  /\ job[c].at \in {"check", "append"} => job[c].handled = {}
  /\ job[c].at = "append" => ActionsOf(job[c].todo) \subseteq Remaining
  /\ job[c].system => AutoDecided

\* An action still to be dealt with has left no trace.
NotYetDone(c) ==
  \A a \in Claims(c) \ job[c].handled : execs[a] = 0 /\ ~HasRecord(a)

\* What an entry that is not an undo says is so.
Truthful(e) ==
  /\ e.action \in Action
  /\ e.resources \subseteq 1..Titles[e.action]
  /\ e.outcome = "succeeded" => e.resources = 1..Titles[e.action]
  /\ e.outcome = "partially_succeeded" => e.resources # {}
  /\ e.outcome = "rejected" => execs[e.action] = 0
  /\ \A k \in e.resources : objects[<<e.action, k>>] # "none"

\* The call has created the tasks before its present step, and no other.
WorkDone(c) ==
  LET a == job[c].entry.action
      s == job[c].step
  IN /\ execs[a] = 1
     /\ s \in 1..(Titles[a] + 1)
     /\ job[c].entry.resources = 1..(s - 1)
     /\ \A k \in 1..Titles[a] : k > s => objects[<<a, k>>] = "none"
     /\ job[c].at = "work" /\ s <= Titles[a] => objects[<<a, s>>] = "none"
     /\ job[c].at = "relate" => s <= Titles[a] /\ objects[<<a, s>>] # "none"

HoldsEntry(c) ==
  /\ job[c].at \in {"work", "relate"} => job[c].entry.undoes = 0
  /\ job[c].at \in {"work", "relate", "ledger"} /\ job[c].entry.undoes = 0 =>
       /\ job[c].entry.action \in job[c].handled
       /\ ~HasRecord(job[c].entry.action)
       /\ Truthful(job[c].entry)
       /\ job[c].at # "ledger" => WorkDone(c) /\ job[c].entry.outcome = "none"

\* An undo has an entry for the record it undoes, and no claims.
IsUndoOf(e, i) ==
  /\ i \in DOMAIN ledger
  /\ ledger[i].undoes = 0
  /\ e.action = ledger[i].action
  /\ e.resources = ledger[i].resources
  /\ e.resources # {}

Undoing(c) == job[c].at \in {"lookup", "delete", "ledger"} /\ job[c].entry.undoes # 0

\* The tasks this undo has deleted, as far as it may still succeed.
Taken(c) ==
  CASE job[c].at = "delete" -> job[c].entry.resources \ job[c].left
    [] job[c].at = "ledger" /\ job[c].entry.outcome = "succeeded" -> job[c].entry.resources
    [] OTHER -> {}

SucceededUndo(i) == ledger[i].undoes # 0 /\ ledger[i].outcome = "succeeded"

\* An undo that succeeded has left nothing to the others.
HoldsUndo(c) ==
  /\ job[c].at \in {"lookup", "delete"} => job[c].entry.undoes # 0
  /\ Undoing(c) =>
       /\ IsUndoOf(job[c].entry, job[c].entry.undoes)
       /\ job[c].todo = <<>> /\ job[c].handled = {} /\ job[c].onward = "idle"
       /\ job[c].at = "lookup" => job[c].left = job[c].entry.resources
       /\ job[c].at = "delete" => job[c].left \subseteq job[c].entry.resources
       /\ \A k \in Taken(c) : objects[<<job[c].entry.action, k>>] = "deleted"
       /\ \A i \in DOMAIN ledger :
            SucceededUndo(i) /\ ledger[i].undoes = job[c].entry.undoes => Taken(c) = {}

CallHolds(c) ==
  /\ Rested(c)
  /\ ProposesFirst(c)
  /\ FollowsDecision(c)
  /\ MayDecide(c)
  /\ NotYetDone(c)
  /\ HoldsEntry(c)
  /\ HoldsUndo(c)

OneDecides == \A c, d \in Caller : Deciding(c) /\ Deciding(d) => c = d

\* Two undos of one record have not deleted the same task.
UndosApart ==
  \A c, d \in Caller :
    Undoing(c) /\ Undoing(d) /\ c # d /\ job[c].entry.undoes = job[d].entry.undoes
      => Taken(c) \intersect Taken(d) = {}

DecidesRemaining ==
  /\ version = 2 => ActionsOf(decision) \subseteq Remaining
  /\ bySystem => AutoDecided

Once == \A a \in Action : /\ execs[a] <= 1
                          /\ HasRecord(a) => a \in Autonomous \/ version = 2
                          /\ execs[a] = 0 => \A k \in 1..Titles[a] : objects[<<a, k>>] = "none"

LedgerHolds ==
  \A i \in DOMAIN ledger :
    IF ledger[i].undoes = 0 THEN Truthful(ledger[i])
                            ELSE IsUndoOf(ledger[i], ledger[i].undoes)

StoreHolds ==
  /\ DecidesRemaining
  /\ Once
  /\ LedgerHolds
  /\ OnlyWhenAllowed
  /\ LedgerIsTrue
  /\ UndoneOnce

IInv ==
  /\ TypeOK
  /\ \A c \in Caller : CallHolds(c)
  /\ OneDecides
  /\ UndosApart
  /\ StoreHolds

-------------------------------------------------------------------------------
Job == [at : {"idle", "next", "work", "relate", "ledger", "record", "publish",
              "check", "append", "refresh", "lookup", "delete"},
        todo : Seq(Decision), handled : SUBSET Action,
        onward : {"idle", "record"}, system : BOOLEAN, step : Nat,
        left : SUBSET Nat, entry : Entry \union {NoEntry}]

\* Idle calls are calls.
LEMMA IdleIsJob == IdleJob \in Job
BY DEF IdleJob, Job

\* What the members of a list of decisions are.
LEMMA ListTyped ==
  ASSUME NEW d \in Seq(Decision)
  PROVE  ActionsOf(d) \subseteq Action
<1>1. \A i \in DOMAIN d : d[i] \in Decision
  OBVIOUS
<1> QED
  BY <1>1 DEF ActionsOf, Decision

\* No two calls claim the same action.
LEMMA ClaimsDisjoint ==
  ASSUME IInv, NEW c \in Caller, NEW d \in Caller, c # d
  PROVE  Claims(c) \intersect Claims(d) = {}
<1>1. job[c].onward \in {"idle", "record"} /\ job[d].onward \in {"idle", "record"}
  BY DEF IInv, TypeOK
<1>2. CASE job[c].onward = "idle" /\ job[d].onward = "idle"
  BY <1>2 DEF IInv, OneDecides, Deciding
<1>3. CASE job[c].onward = "record" /\ job[d].onward = "record"
  BY <1>3 DEF IInv, CallHolds, ProposesFirst
<1>4. CASE job[c].onward = "record" /\ job[d].onward = "idle"
  BY <1>4 DEF IInv, CallHolds, ProposesFirst, FollowsDecision, Deciding
<1>5. CASE job[c].onward = "idle" /\ job[d].onward = "record"
  BY <1>5 DEF IInv, CallHolds, ProposesFirst, FollowsDecision, Deciding
<1> QED
  BY <1>1, <1>2, <1>3, <1>4, <1>5

\* Tasks that were created stay so, and deleted ones stay deleted.
ObjectsGo(created) ==
  \A a \in Action : \A k \in 1..Titles[a] :
    /\ objects[<<a, k>>] = "deleted" => objects'[<<a, k>>] = "deleted"
    /\ objects[<<a, k>>] # "none" => objects'[<<a, k>>] # "none"
    /\ objects[<<a, k>>] = "none" /\ objects'[<<a, k>>] # "none" => a \in created

SameStore == UNCHANGED <<tier, version, decision, bySystem, ledger, execs>>

\* An entry stays truthful when tasks are created or deleted.
LEMMA TruthfulKept ==
  ASSUME NEW e, Truthful(e), SameStore, NEW S, ObjectsGo(S)
  PROVE  Truthful(e)'
BY DEF Truthful, SameStore, ObjectsGo

\* What a call holds it keeps while others leave its tasks alone.
LEMMA CallKept ==
  ASSUME IInv, NEW d \in Caller, job'[d] = job[d], SameStore,
         NEW S, ObjectsGo(S), S \intersect Claims(d) = {}
  PROVE  CallHolds(d)'
<1> USE DEF SameStore
<1>1. CallHolds(d)
  BY DEF IInv
<1>2. Rested(d)'
  BY <1>1 DEF CallHolds, Rested
<1>3. Claims(d)' = Claims(d) /\ Autonomous' = Autonomous /\ Remaining' = Remaining
      /\ AutoDecided' = AutoDecided
  BY DEF Claims, Autonomous, Remaining, AutoDecided
<1>4. ProposesFirst(d)' /\ FollowsDecision(d)' /\ MayDecide(d)'
  BY <1>1, <1>3 DEF CallHolds, ProposesFirst, FollowsDecision, MayDecide, Deciding
<1>5. NotYetDone(d)'
  BY <1>1, <1>3 DEF CallHolds, NotYetDone, HasRecord
<1>6. HoldsEntry(d)'
  <2> DEFINE e == job[d].entry
  <2> SUFFICES ASSUME job[d].at \in {"work", "relate", "ledger"}, e.undoes = 0
               PROVE  /\ e.action \in job[d].handled
                      /\ ~HasRecord(e.action)'
                      /\ Truthful(e)'
                      /\ job[d].at # "ledger" => WorkDone(d)' /\ e.outcome = "none"
    BY <1>1 DEF CallHolds, HoldsEntry
  <2>1. /\ e.action \in job[d].handled /\ ~HasRecord(e.action) /\ Truthful(e)
        /\ job[d].at # "ledger" => WorkDone(d) /\ e.outcome = "none"
    BY <1>1 DEF CallHolds, HoldsEntry
  <2>2. Truthful(e)'
    BY <2>1, TruthfulKept
  <2>3. e.action \in Claims(d)
    BY <2>1 DEF Claims, Carrying, Looping
  <2>4. \A k \in 1..Titles[e.action] : objects[<<e.action, k>>] = "none" <=> objects'[<<e.action, k>>] = "none"
    BY <2>1, <2>3 DEF Truthful, ObjectsGo
  <2>5. WorkDone(d) => WorkDone(d)'
    <3> SUFFICES ASSUME WorkDone(d)
                 PROVE  WorkDone(d)'
      OBVIOUS
    <3>1. Titles[e.action] \in Nat
      BY <2>1, ActionAssumption DEF Truthful
    <3>2. PICK a, s : a = e.action /\ s = job[d].step
      OBVIOUS
    <3>3. /\ execs[a] = 1 /\ s \in 1..(Titles[a] + 1) /\ e.resources = 1..(s - 1)
          /\ \A k \in 1..Titles[a] : k > s => objects[<<a, k>>] = "none"
          /\ job[d].at = "work" /\ s <= Titles[a] => objects[<<a, s>>] = "none"
          /\ job[d].at = "relate" => s <= Titles[a] /\ objects[<<a, s>>] # "none"
      BY <3>2 DEF WorkDone
    <3>4. \A k \in 1..Titles[a] : objects[<<a, k>>] = "none" <=> objects'[<<a, k>>] = "none"
      BY <2>4, <3>2
    <3>5. s <= Titles[a] => s \in 1..Titles[a]
      BY <3>1, <3>2, <3>3
    <3>6. /\ \A k \in 1..Titles[a] : k > s => objects'[<<a, k>>] = "none"
          /\ job[d].at = "work" /\ s <= Titles[a] => objects'[<<a, s>>] = "none"
          /\ job[d].at = "relate" => s <= Titles[a] /\ objects'[<<a, s>>] # "none"
      BY <3>3, <3>4, <3>5
    <3> QED
      BY <3>2, <3>3, <3>6 DEF WorkDone
  <2> QED
    BY <2>1, <2>2, <2>5 DEF HasRecord
<1>7. HoldsUndo(d)'
  <2>1. Taken(d)' = Taken(d)
    BY DEF Taken
  <2>2. Undoing(d) => \A k \in Taken(d) : objects'[<<job[d].entry.action, k>>] = "deleted"
    <3> SUFFICES ASSUME Undoing(d), NEW k \in Taken(d)
                 PROVE  objects'[<<job[d].entry.action, k>>] = "deleted"
      OBVIOUS
    <3>1. IsUndoOf(job[d].entry, job[d].entry.undoes) /\ objects[<<job[d].entry.action, k>>] = "deleted"
      BY <1>1 DEF CallHolds, HoldsUndo
    <3>2. k \in job[d].entry.resources
      BY DEF Taken
    <3>3. Truthful(ledger[job[d].entry.undoes])
      BY <3>1 DEF IInv, StoreHolds, LedgerHolds, IsUndoOf
    <3> QED
      BY <3>1, <3>2, <3>3 DEF IsUndoOf, Truthful, ObjectsGo
  <2> QED
    BY <1>1, <2>1, <2>2 DEF CallHolds, HoldsUndo, Undoing, IsUndoOf, SucceededUndo
<1> QED
  BY <1>2, <1>4, <1>5, <1>6, <1>7 DEF CallHolds

\* So does the store, where only actions being carried out get new tasks.
LEMMA StoreKept ==
  ASSUME IInv, SameStore, NEW S, ObjectsGo(S), \A a \in S : execs[a] = 1
  PROVE  StoreHolds'
<1> USE DEF SameStore
<1>1. StoreHolds
  BY DEF IInv
<1>2. Autonomous' = Autonomous /\ Remaining' = Remaining /\ AutoDecided' = AutoDecided
  BY DEF Autonomous, Remaining, AutoDecided
<1>3. DecidesRemaining'
  BY <1>1, <1>2 DEF StoreHolds, DecidesRemaining
<1>4. Once'
  BY <1>1, <1>2 DEF StoreHolds, Once, HasRecord, ObjectsGo
<1>5. LedgerHolds'
  BY <1>1, TruthfulKept DEF StoreHolds, LedgerHolds, IsUndoOf
<1>6. OnlyWhenAllowed'
  BY <1>1, <1>2 DEF StoreHolds, OnlyWhenAllowed
<1>7. ASSUME NEW i \in DOMAIN ledger, NEW k \in ledger[i].resources
      PROVE  ledger[i].action \in Action /\ k \in 1..Titles[ledger[i].action]
  BY <1>1 DEF StoreHolds, LedgerHolds, Truthful, IsUndoOf
<1>8. LedgerIsTrue'
  BY <1>1, <1>7 DEF StoreHolds, LedgerIsTrue, ObjectsGo
<1>9. UndoneOnce'
  BY <1>1, <1>7 DEF StoreHolds, UndoneOnce, ObjectsGo
<1> QED
  BY <1>3, <1>4, <1>5, <1>6, <1>8, <1>9 DEF StoreHolds

\* A step of one call that decides, records and carries out nothing.
LEMMA QuietStep ==
  ASSUME IInv, TypeOK', SameStore,
         NEW c \in Caller, \A d \in Caller \ {c} : job'[d] = job[d],
         NEW S \in SUBSET Claims(c), ObjectsGo(S), \A a \in S : execs[a] = 1,
         CallHolds(c)', Deciding(c)' => Deciding(c),
         \A d \in Caller \ {c} :
           Undoing(c)' /\ Undoing(d) /\ job'[c].entry.undoes = job[d].entry.undoes
             => Taken(c)' \intersect Taken(d) = {}
  PROVE  IInv'
<1>1. ASSUME NEW d \in Caller \ {c} PROVE CallHolds(d)'
  <2>1. S \intersect Claims(d) = {}
    BY ClaimsDisjoint
  <2> QED
    BY <2>1, CallKept
<1>2. StoreHolds'
  BY StoreKept
<1>3. \A d \in Caller \ {c} : /\ Deciding(d)' <=> Deciding(d)
                              /\ Undoing(d)' <=> Undoing(d)
                              /\ Taken(d)' = Taken(d)
  BY DEF Deciding, Claims, Undoing, Taken
<1>4. OneDecides'
  BY <1>3 DEF IInv, OneDecides
<1>5. UndosApart'
  BY <1>3 DEF IInv, UndosApart
<1> QED
  BY <1>1, <1>2, <1>4, <1>5 DEF IInv

\* Tasks are left alone.
LEMMA NoObjects ==
  ASSUME objects' = objects
  PROVE  ObjectsGo({})
BY DEF ObjectsGo

\* A call that has ended holds nothing, whatever happened to the store.
LEMMA IdleHolds ==
  ASSUME NEW c \in Caller, job'[c] = IdleJob
  PROVE  CallHolds(c)' /\ ~Deciding(c)' /\ ~Undoing(c)'
<1>1. /\ job'[c].at = "idle" /\ job'[c].onward = "idle" /\ job'[c].system = FALSE
  BY DEF IdleJob
<1>2. Claims(c)' = {}
  BY <1>1 DEF Claims, Carrying, Looping
<1> QED
  BY <1>1, <1>2
  DEF CallHolds, Rested, ProposesFirst, FollowsDecision, MayDecide, NotYetDone, HoldsEntry,
      HoldsUndo, Deciding, Undoing

\* The rest of a list.
LEMMA RestOfList ==
  ASSUME NEW S, NEW d \in Seq(S), NEW n \in 0..Len(d), SubSeq(d, n + 1, Len(d)) # <<>>
  PROVE  /\ n + 1 \in 1..Len(d)
         /\ Head(SubSeq(d, n + 1, Len(d))) = d[n + 1]
         /\ Tail(SubSeq(d, n + 1, Len(d))) = SubSeq(d, n + 2, Len(d))
<1>1. n < Len(d)
  OBVIOUS
<1> DEFINE s == SubSeq(d, n + 1, Len(d))
<1>2. s \in Seq(S) /\ Len(s) = Len(d) - n /\ \A i \in 1..Len(s) : s[i] = d[n + i]
  BY <1>1
<1>3. Tail(s) = SubSeq(d, n + 2, Len(d))
  <2>1. /\ Tail(s) \in Seq(S) /\ Len(Tail(s)) = Len(s) - 1
        /\ \A i \in 1..Len(Tail(s)) : Tail(s)[i] = s[i + 1]
    BY <1>1, <1>2
  <2>2. /\ SubSeq(d, n + 2, Len(d)) \in Seq(S) /\ Len(SubSeq(d, n + 2, Len(d))) = Len(d) - n - 1
        /\ \A i \in 1..(Len(d) - n - 1) : SubSeq(d, n + 2, Len(d))[i] = d[n + 1 + i]
    BY <1>1
  <2> QED
    BY <1>1, <1>2, <2>1, <2>2
<1>4. n + 1 \in 1..Len(d)
  BY <1>1
<1>5. Head(s) = d[n + 1]
  <2>1. 1 \in 1..Len(s)
    BY <1>1, <1>2
  <2>2. Head(s) = s[1]
    BY <1>2
  <2>3. s[1] = d[n + 1]
    BY <1>2, <2>1
  <2> QED
    BY <2>2, <2>3
<1> HIDE DEF s
<1>6. /\ n + 1 \in 1..Len(d)
      /\ Head(s) = d[n + 1]
      /\ Tail(s) = SubSeq(d, n + 2, Len(d))
  BY <1>3, <1>4, <1>5
<1> QED
  BY <1>6 DEF s

\* Going on to the next entry of a list changes nothing about its claims.
LEMMA GoOn ==
  ASSUME IInv, NEW c \in Caller, NextIs(c),
         UNCHANGED <<tier, version, decision>>,
         job'[c].at \in Looping, job'[c].onward = job[c].onward,
         job'[c].todo = Tail(job[c].todo),
         job'[c].handled = job[c].handled \union {First(c).action}
  PROVE  /\ Claims(c)' = Claims(c) /\ First(c).action \in Claims(c)
         /\ ProposesFirst(c)' /\ FollowsDecision(c)'
         /\ ActionsOf(job'[c].todo) \subseteq ActionsOf(job[c].todo)
<1> DEFINE t == job[c].todo
<1>1. t \in Seq(Decision) /\ t # <<>> /\ job[c].at = "next"
  BY DEF IInv, TypeOK, NextIs, At
<1>2. ActionsOf(t) = ActionsOf(Tail(t)) \union {Head(t).action}
  <2>1. \A i \in DOMAIN t : i = 1 \/ (i - 1 \in DOMAIN Tail(t) /\ t[i] = Tail(t)[i - 1])
    BY <1>1
  <2>2. \A i \in DOMAIN Tail(t) : i + 1 \in DOMAIN t /\ Tail(t)[i] = t[i + 1]
    BY <1>1
  <2>3. 1 \in DOMAIN t /\ Head(t) = t[1]
    BY <1>1
  <2> QED
    BY <2>1, <2>2, <2>3 DEF ActionsOf
<1>3. Claims(c)' = Claims(c) /\ First(c).action \in Claims(c)
  BY <1>1, <1>2 DEF Claims, Carrying, Looping, First, ActionsOf
<1>4. ProposesFirst(c)'
  BY <1>1, <1>3 DEF IInv, CallHolds, ProposesFirst, Autonomous, Looping
<1>5. FollowsDecision(c)'
  <2> SUFFICES ASSUME Deciding(c)
               PROVE  version = 2 /\ PartWay(decision, job'[c].todo, job'[c].handled)
    BY <1>3 DEF FollowsDecision, Deciding
  <2>1. PICK n \in 0..Len(decision) :
          /\ t = SubSeq(decision, n + 1, Len(decision))
          /\ job[c].handled = {decision[i].action : i \in 1..n}
    BY DEF IInv, CallHolds, FollowsDecision, PartWay
  <2>2. decision \in Seq(Decision)
    BY DEF IInv, TypeOK
  <2>3. /\ n + 1 \in 1..Len(decision) /\ Head(t) = decision[n + 1]
        /\ Tail(t) = SubSeq(decision, n + 2, Len(decision))
    BY <1>1, <2>1, <2>2, RestOfList
  <2>4. job'[c].handled = {decision[i].action : i \in 1..(n + 1)}
    BY <2>1, <2>3 DEF First
  <2>5. n + 1 \in 0..Len(decision) /\ job'[c].todo = SubSeq(decision, (n + 1) + 1, Len(decision))
    BY <2>2, <2>3
  <2> QED
    BY <2>4, <2>5 DEF IInv, CallHolds, FollowsDecision, PartWay
<1>6. ActionsOf(job'[c].todo) \subseteq ActionsOf(t)
  BY <1>2
<1> QED
  BY <1>3, <1>4, <1>5, <1>6

-------------------------------------------------------------------------------
\* A step that sets one call's locals to j and leaves the store keeps the types.
LEMMA QuietTypes ==
  ASSUME TypeOK, SameStore, NEW c \in Caller, NEW j \in Job, job' = [job EXCEPT ![c] = j],
         row' \in 0..version, ledgerRows' = ledgerRows,
         objects' \in [Task -> {"none", "live", "deleted"}], failures' \in 0..MaxFailures
  PROVE  /\ TypeOK'
         /\ job'[c] = j
         /\ \A d \in Caller \ {c} : job'[d] = job[d]
<1>1. job \in [Caller -> Job]
  BY DEF TypeOK, Job
<1>2. job' \in [Caller -> Job]
  BY <1>1
<1>3. TypeOK'
  BY <1>2 DEF TypeOK, SameStore, Job
<1> QED
  BY <1>1, <1>3

\* The counter of failures.
LEMMA FailsTypes ==
  ASSUME TypeOK, Fails
  PROVE  failures' \in 0..MaxFailures
BY ActionAssumption DEF TypeOK, Fails

\* A call that returns without having changed the store.
LEMMA ReturnKeepsIInv ==
  ASSUME IInv, NEW c \in Caller, Return(c), SameStore, UNCHANGED <<row, ledgerRows, objects>>,
         failures' \in 0..MaxFailures
  PROVE  IInv'
<1>1. TypeOK' /\ job'[c] = IdleJob /\ \A d \in Caller \ {c} : job'[d] = job[d]
  BY IdleIsJob, QuietTypes DEF Return, IInv, TypeOK
<1> QED
  BY <1>1, IdleHolds, NoObjects, QuietStep

\* A call that has neither claims nor an entry: it is recording, publishing,
\* checking or storing.
LEMMA WaitingHolds ==
  ASSUME NEW c \in Caller, job'[c].at \in {"record", "publish", "check", "append"},
         job'[c].onward = "idle",
         job'[c].at = "record" => c = Proposer /\ version' = 0,
         job'[c].at \in {"check", "append"} => job'[c].handled = {},
         job'[c].at = "append" => ActionsOf(job'[c].todo) \subseteq Remaining',
         job'[c].system => AutoDecided'
  PROVE  CallHolds(c)' /\ ~Deciding(c)' /\ ~Undoing(c)'
<1>1. Claims(c)' = {}
  BY DEF Claims, Carrying, Looping
<1> QED
  BY <1>1
  DEF CallHolds, Rested, ProposesFirst, FollowsDecision, MayDecide, NotYetDone, HoldsEntry,
      HoldsUndo, Deciding, Undoing

\* The first entry of a list, and the rest of it.
LEMMA FirstTyped ==
  ASSUME NEW t \in Seq(Decision), t # <<>>
  PROVE  /\ Tail(t) \in Seq(Decision)
         /\ Head(t).action \in Action
         /\ Head(t).verdict \in {"approved", "rejected"}
<1>1. Head(t) \in Decision /\ Tail(t) \in Seq(Decision)
  OBVIOUS
<1> QED
  BY <1>1 DEF Decision

\* The list is done.
LEMMA EndLoopKeepsIInv ==
  ASSUME IInv, NEW c \in Caller, EndLoop(c)
  PROVE  IInv'
<1> DEFINE j == [IdleJob EXCEPT !.at = job[c].onward]
<1>1. /\ job' = [job EXCEPT ![c] = j] /\ SameStore
      /\ UNCHANGED <<row, ledgerRows, objects, failures>>
  BY DEF EndLoop, SameStore, storeVars, ledgerVars
<1>2. job[c].onward \in {"idle", "record"}
  BY DEF IInv, TypeOK
<1>3. j \in Job
  BY <1>2, IdleIsJob DEF Job
<1>4. TypeOK' /\ job'[c] = j /\ \A d \in Caller \ {c} : job'[d] = job[d]
  BY <1>1, <1>3, QuietTypes DEF IInv, TypeOK
<1>5. CallHolds(c)' /\ ~Deciding(c)' /\ ~Undoing(c)'
  <2>1. CASE job[c].onward = "idle"
    BY <1>4, <2>1, IdleHolds DEF IdleJob
  <2>2. CASE job[c].onward = "record"
    <3>1. c = Proposer /\ version' = 0
      BY <1>1, <2>2 DEF IInv, CallHolds, ProposesFirst, SameStore
    <3> QED
      BY <1>4, <2>2, <3>1, WaitingHolds DEF IdleJob
  <2> QED
    BY <1>2, <2>1, <2>2
<1> QED
  BY <1>1, <1>4, <1>5, NoObjects, QuietStep

\* An entry for an action that has been dealt with is passed over.
LEMMA SkipDuplicateKeepsIInv ==
  ASSUME IInv, NEW c \in Caller, SkipDuplicate(c)
  PROVE  IInv'
<1> DEFINE j == [job[c] EXCEPT !.todo = Tail(job[c].todo)]
<1>1. /\ job' = [job EXCEPT ![c] = j] /\ SameStore
      /\ UNCHANGED <<row, ledgerRows, objects, failures>>
      /\ NextIs(c) /\ First(c).action \in job[c].handled
  BY DEF SkipDuplicate, AlreadyHandled, SameStore, storeVars, ledgerVars
<1>2. job[c] \in Job /\ job[c].at = "next" /\ job[c].todo # <<>>
  BY <1>1 DEF IInv, TypeOK, Job, NextIs, At
<1>3. j \in Job
  BY <1>2, FirstTyped DEF Job
<1>4. TypeOK' /\ job'[c] = j /\ \A d \in Caller \ {c} : job'[d] = job[d]
  BY <1>1, <1>3, QuietTypes DEF IInv, TypeOK
<1>5. /\ job'[c].todo = Tail(job[c].todo) /\ job'[c].at = "next"
      /\ job'[c].handled = job[c].handled /\ job'[c].onward = job[c].onward
      /\ job'[c].system = job[c].system
  BY <1>2, <1>4 DEF Job
<1>6. /\ Claims(c)' = Claims(c)
      /\ ProposesFirst(c)' /\ FollowsDecision(c)'
  BY <1>1, <1>5, GoOn DEF SameStore, Looping
<1>7. NotYetDone(c)'
  BY <1>1, <1>5, <1>6 DEF IInv, CallHolds, NotYetDone, HasRecord, SameStore
<1>8. Rested(c)' /\ MayDecide(c)' /\ HoldsEntry(c)' /\ HoldsUndo(c)' /\ ~Undoing(c)'
  BY <1>1, <1>5
  DEF IInv, CallHolds, Rested, MayDecide, HoldsEntry, HoldsUndo, Undoing, SameStore,
      AutoDecided, Remaining, Autonomous
<1> QED
  BY <1>1, <1>4, <1>5, <1>6, <1>7, <1>8, NoObjects, QuietStep DEF CallHolds, Deciding

\* A rejected action is about to be recorded, and was not carried out.
LEMMA RejectKeepsIInv ==
  ASSUME IInv, NEW c \in Caller, Reject(c)
  PROVE  IInv'
<1> DEFINE a == First(c).action
           e == [ForAction(a) EXCEPT !.outcome = "rejected"]
           j == [job[c] EXCEPT !.todo = Tail(job[c].todo), !.at = "ledger",
                   !.handled = job[c].handled \union {a}, !.entry = e]
<1>1. /\ job' = [job EXCEPT ![c] = j] /\ SameStore
      /\ UNCHANGED <<row, ledgerRows, objects, failures>>
      /\ NextIs(c) /\ a \notin job[c].handled
  BY DEF Reject, AlreadyHandled, SameStore, storeVars, ledgerVars
<1>2. job[c] \in Job /\ job[c].at = "next" /\ job[c].todo # <<>>
  BY <1>1 DEF IInv, TypeOK, Job, NextIs, At
<1>3. a \in Action /\ Tail(job[c].todo) \in Seq(Decision)
  BY <1>2, FirstTyped DEF Job, First
<1>4. /\ e \in Entry
      /\ e.action = a /\ e.resources = {} /\ e.undoes = 0 /\ e.outcome = "rejected"
  BY <1>3 DEF ForAction, Entry
<1>5. j \in Job
  BY <1>2, <1>3, <1>4 DEF Job
<1>6. TypeOK' /\ job'[c] = j /\ \A d \in Caller \ {c} : job'[d] = job[d]
  BY <1>1, <1>5, QuietTypes DEF IInv, TypeOK
<1>7. /\ job'[c].todo = Tail(job[c].todo) /\ job'[c].at = "ledger"
      /\ job'[c].handled = job[c].handled \union {a} /\ job'[c].onward = job[c].onward
      /\ job'[c].system = job[c].system /\ job'[c].entry = e
  BY <1>2, <1>6 DEF Job
<1>8. /\ Claims(c)' = Claims(c) /\ a \in Claims(c)
      /\ ProposesFirst(c)' /\ FollowsDecision(c)'
  BY <1>1, <1>7, GoOn DEF SameStore, Looping
<1>9. NotYetDone(c)'
  BY <1>1, <1>7, <1>8 DEF IInv, CallHolds, NotYetDone, HasRecord, SameStore
<1>10. execs[a] = 0 /\ ~HasRecord(a)
  BY <1>1, <1>8 DEF IInv, CallHolds, NotYetDone
<1>11. HoldsEntry(c)'
  BY <1>1, <1>3, <1>4, <1>7, <1>10 DEF HoldsEntry, HasRecord, Truthful, SameStore
<1>12. Rested(c)' /\ MayDecide(c)' /\ HoldsUndo(c)' /\ ~Undoing(c)'
  BY <1>1, <1>4, <1>7
  DEF IInv, CallHolds, Rested, MayDecide, HoldsUndo, Undoing, SameStore,
      AutoDecided, Remaining, Autonomous
<1> QED
  BY <1>1, <1>6, <1>7, <1>8, <1>9, <1>11, <1>12, NoObjects, QuietStep DEF CallHolds, Deciding

\* A member decides.
LEMMA StartDecideKeepsIInv ==
  ASSUME IInv, NEW c \in Caller, NEW d \in Decisions, StartDecide(c, d)
  PROVE  IInv'
<1> DEFINE j == [job[c] EXCEPT !.at = "check", !.todo = d]
<1>1. /\ job' = [job EXCEPT ![c] = j] /\ SameStore /\ job[c].at = "idle"
      /\ UNCHANGED <<row, ledgerRows, objects, failures>>
  BY DEF StartDecide, At, SameStore, storeVars, ledgerVars
<1>2. job[c] = IdleJob
  BY <1>1 DEF IInv, CallHolds, Rested
<1>3. d \in Seq(Decision)
  BY ActionAssumption
<1>4. j \in Job
  BY <1>2, <1>3, IdleIsJob DEF Job
<1>5. TypeOK' /\ job'[c] = j /\ \A q \in Caller \ {c} : job'[q] = job[q]
  BY <1>1, <1>4, QuietTypes DEF IInv, TypeOK
<1>6. /\ job'[c].at = "check" /\ job'[c].onward = "idle" /\ job'[c].system = FALSE
      /\ job'[c].handled = {}
  BY <1>2, <1>5 DEF IdleJob
<1>7. CallHolds(c)' /\ ~Deciding(c)' /\ ~Undoing(c)'
  BY <1>6, WaitingHolds
<1> QED
  BY <1>1, <1>5, <1>7, NoObjects, QuietStep

\* What is decided on is about the actions that wait for it.
LEMMA ReadProposalKeepsIInv ==
  ASSUME IInv, NEW c \in Caller, ReadProposal(c)
  PROVE  IInv'
<1>1. /\ SameStore /\ job[c].at = "check"
      /\ UNCHANGED <<row, ledgerRows, objects, failures>>
  BY DEF ReadProposal, At, SameStore, storeVars, ledgerVars
<1>2. CASE Return(c)
  BY <1>1, <1>2, ReturnKeepsIInv DEF IInv, TypeOK
<1>3. CASE /\ \A i \in DOMAIN job[c].todo : job[c].todo[i].action \in Remaining
           /\ job' = [job EXCEPT ![c].at = "append"]
  <2> DEFINE j == [job[c] EXCEPT !.at = "append"]
  <2>1. j \in Job /\ job' = [job EXCEPT ![c] = j] /\ job[c] \in Job
    BY <1>3 DEF IInv, TypeOK, Job
  <2>2. TypeOK' /\ job'[c] = j /\ \A d \in Caller \ {c} : job'[d] = job[d]
    BY <1>1, <2>1, QuietTypes DEF IInv, TypeOK
  <2>3. /\ job'[c].at = "append" /\ job'[c].todo = job[c].todo
        /\ job'[c].handled = job[c].handled
        /\ job'[c].onward = job[c].onward /\ job'[c].system = job[c].system
    BY <2>1, <2>2 DEF Job
  <2>4. job[c].onward = "idle"
    BY <1>1 DEF IInv, TypeOK, CallHolds, ProposesFirst, Looping
  <2>5. /\ ActionsOf(job'[c].todo) \subseteq Remaining' /\ job'[c].handled = {}
        /\ job'[c].system => AutoDecided'
    BY <1>1, <1>3, <2>3
    DEF ActionsOf, IInv, CallHolds, MayDecide, Remaining, Autonomous, AutoDecided, SameStore
  <2>6. CallHolds(c)' /\ ~Deciding(c)' /\ ~Undoing(c)'
    BY <2>3, <2>4, <2>5, WaitingHolds
  <2> QED
    BY <1>1, <2>2, <2>6, NoObjects, QuietStep
<1> QED
  BY <1>2, <1>3 DEF ReadProposal

\* The system decides only if all the remaining actions are of its tier.
LEMMA PublishKeepsIInv ==
  ASSUME IInv, NEW c \in Caller, PublishProposal(c)
  PROVE  IInv'
<1>1. /\ SameStore /\ UNCHANGED <<ledgerRows, objects, failures>>
      /\ row' \in 0..version
  <2>1. version \in 0..2
    BY DEF IInv, TypeOK
  <2>2. row' = version
    BY DEF PublishProposal
  <2>3. SameStore /\ UNCHANGED <<ledgerRows, objects, failures>>
    BY DEF PublishProposal, SameStore, ledgerVars
  <2>4. row' \in 0..version
    BY <2>1, <2>2
  <2> QED
    BY <2>3, <2>4
<1>2. CASE Return(c)
  <2>1. TypeOK' /\ job'[c] = IdleJob /\ \A d \in Caller \ {c} : job'[d] = job[d]
    BY <1>1, <1>2, IdleIsJob, QuietTypes DEF Return, IInv, TypeOK
  <2> QED
    BY <1>1, <2>1, IdleHolds, NoObjects, QuietStep
<1>3. CASE AutoDecided /\ ~Return(c)
  <2>1. PICK d \in Decisions :
          job' = [job EXCEPT ![c] = [IdleJob EXCEPT !.at = "check", !.todo = d, !.system = TRUE]]
    BY <1>3 DEF PublishProposal
  <2> DEFINE j == [IdleJob EXCEPT !.at = "check", !.todo = d, !.system = TRUE]
  <2>2. j \in Job
    BY IdleIsJob, ActionAssumption DEF Job
  <2>3. TypeOK' /\ job'[c] = j /\ \A q \in Caller \ {c} : job'[q] = job[q]
    BY <1>1, <2>1, <2>2, QuietTypes DEF IInv, TypeOK
  <2>4. job'[c].at = "check" /\ job'[c].onward = "idle" /\ job'[c].handled = {}
    BY <2>3 DEF IdleJob
  <2>5. AutoDecided'
    BY <1>1, <1>3 DEF AutoDecided, Remaining, Autonomous, SameStore
  <2>6. CallHolds(c)' /\ ~Deciding(c)' /\ ~Undoing(c)'
    BY <2>4, <2>5, WaitingHolds
  <2> QED
    BY <1>1, <2>3, <2>6, NoObjects, QuietStep
<1> QED
  BY <1>2, <1>3 DEF PublishProposal

-------------------------------------------------------------------------------
\* Within the handling of one entry, a call's place in its list stays.
LEMMA SamePlace ==
  ASSUME IInv, NEW c \in Caller, SameStore,
         job[c].at \in Looping, job'[c].at \in Looping,
         job'[c].todo = job[c].todo, job'[c].handled = job[c].handled,
         job'[c].onward = job[c].onward, job'[c].system = job[c].system
  PROVE  /\ Rested(c)' /\ ProposesFirst(c)' /\ FollowsDecision(c)' /\ MayDecide(c)'
         /\ NotYetDone(c)' /\ (Deciding(c)' => Deciding(c))
<1>1. Claims(c)' = Claims(c)
  BY DEF Claims, Carrying
<1>2. Rested(c)' /\ ProposesFirst(c)' /\ FollowsDecision(c)' /\ (Deciding(c)' => Deciding(c))
  BY <1>1
  DEF IInv, CallHolds, Rested, ProposesFirst, FollowsDecision, Deciding, SameStore, Looping,
      Autonomous
<1>3. MayDecide(c)'
  BY DEF IInv, CallHolds, MayDecide, Looping, SameStore, AutoDecided, Remaining, Autonomous
<1>4. NotYetDone(c)'
  BY <1>1 DEF IInv, CallHolds, NotYetDone, HasRecord, SameStore
<1> QED
  BY <1>2, <1>3, <1>4

LEMMA TasksOf ==
  \A a \in Action : \A k \in 1..Titles[a] : <<a, k>> \in Task
<1> SUFFICES ASSUME NEW a \in Action, NEW k \in 1..Titles[a] PROVE <<a, k>> \in Task
  OBVIOUS
<1>1. <<a, k>> \in {a} \X (1..Titles[a])
  OBVIOUS
<1> QED
  BY <1>1 DEF Task

\* One task changes.
LEMMA OneTask ==
  ASSUME TypeOK, NEW a \in Action, NEW s \in 1..Titles[a], NEW v \in {"live", "deleted"},
         objects' = [objects EXCEPT ![<<a, s>>] = v]
  PROVE  /\ objects' \in [Task -> {"none", "live", "deleted"}]
         /\ objects'[<<a, s>>] = v
         /\ \A b \in Action : \A k \in 1..Titles[b] :
              b # a \/ k # s => objects'[<<b, k>>] = objects[<<b, k>>]
<1>1. <<a, s>> \in Task /\ objects \in [Task -> {"none", "live", "deleted"}]
  BY TasksOf DEF TypeOK
<1>2. \A b \in Action : \A k \in 1..Titles[b] :
        <<b, k>> \in Task /\ (b # a \/ k # s => <<b, k>> # <<a, s>>)
  BY TasksOf
<1> QED
  BY <1>1, <1>2

\* What the executor knows of the action it carries out.
LEMMA ActingKnows ==
  ASSUME IInv, NEW c \in Caller, job[c].at \in {"work", "relate"}
  PROVE  LET a == Acting(c) IN
         /\ a \in Action /\ a \in Claims(c) /\ a \in job[c].handled
         /\ Titles[a] \in Nat
         /\ execs[a] = 1 /\ ~HasRecord(a)
         /\ WorkDone(c) /\ Truthful(job[c].entry)
         /\ job[c].entry.undoes = 0 /\ job[c].entry.outcome = "none"
         /\ job[c].entry \in Entry
<1>1. HoldsEntry(c) /\ job[c].entry \in Entry \union {NoEntry}
  BY DEF IInv, CallHolds, TypeOK
<1>2. /\ job[c].entry.undoes = 0 /\ job[c].entry.outcome = "none"
      /\ job[c].entry.action \in job[c].handled
      /\ ~HasRecord(job[c].entry.action) /\ Truthful(job[c].entry) /\ WorkDone(c)
  BY <1>1 DEF HoldsEntry
<1>3. job[c].entry.action \in Action
  BY <1>2 DEF Truthful
<1>4. job[c].entry \in Entry
  <2>1. CASE job[c].entry = NoEntry
    BY <1>3, <2>1 DEF NoEntry, ForAction, Entry
  <2> QED
    BY <1>1, <2>1
<1> QED
  BY <1>2, <1>3, <1>4, ActionAssumption DEF Acting, WorkDone, Claims, Carrying, Looping

\* The next title: its task is there, and was not before.
LEMMA CountHolds ==
  ASSUME IInv, TypeOK', NEW c \in Caller, job[c].at \in {"work", "relate"},
         job[c].step <= Titles[Acting(c)],
         SameStore, ObjectsGo({Acting(c)}),
         objects'[<<Acting(c), job[c].step>>] # "none",
         \A k \in 1..Titles[Acting(c)] :
           k # job[c].step => objects'[<<Acting(c), k>>] = objects[<<Acting(c), k>>],
         job'[c].at = "work", job'[c].step = job[c].step + 1,
         job'[c].entry = [job[c].entry EXCEPT !.resources = @ \union {job[c].step}],
         job'[c].todo = job[c].todo, job'[c].handled = job[c].handled,
         job'[c].onward = job[c].onward, job'[c].system = job[c].system
  PROVE  CallHolds(c)' /\ ~Undoing(c)' /\ (Deciding(c)' => Deciding(c))
<1> DEFINE a == Acting(c)
           s == job[c].step
           e == job[c].entry
<1>1. /\ a \in Action /\ a \in job[c].handled /\ Titles[a] \in Nat
      /\ execs[a] = 1 /\ ~HasRecord(a) /\ WorkDone(c) /\ Truthful(e)
      /\ e.undoes = 0 /\ e.outcome = "none" /\ e \in Entry /\ a = e.action
  BY ActingKnows DEF Acting
<1>2. s \in 1..Titles[a] /\ e.resources = 1..(s - 1)
  BY <1>1 DEF WorkDone
<1>3. /\ job'[c].entry.resources = 1..s /\ job'[c].entry.action = a
      /\ job'[c].entry.undoes = 0 /\ job'[c].entry.outcome = "none"
  <2>1. (1..(s - 1)) \union {s} = 1..s
    BY <1>2
  <2> QED
    BY <1>1, <1>2, <2>1 DEF Entry
<1>4. Truthful(job[c].entry)'
  <2>1. \A k \in 1..s : objects'[<<a, k>>] # "none"
    BY <1>1, <1>2 DEF Truthful, ObjectsGo
  <2>2. 1..s \subseteq 1..Titles[a]
    BY <1>1, <1>2
  <2> QED
    BY <1>1, <1>3, <2>1, <2>2 DEF Truthful
<1>5. WorkDone(c)'
  <2>1. s + 1 \in 1..(Titles[a] + 1) /\ 1..s = 1..((s + 1) - 1)
    BY <1>1, <1>2
  <2>2. \A k \in 1..Titles[a] : k > s => objects'[<<a, k>>] = "none"
    BY <1>1, <1>2 DEF WorkDone
  <2>3. \A k \in 1..Titles[a] : k > s + 1 => objects'[<<a, k>>] = "none"
    BY <1>2, <2>2
  <2>4. s + 1 <= Titles[a] => objects'[<<a, s + 1>>] = "none"
    BY <1>1, <1>2, <2>2
  <2> QED
    BY <1>1, <1>3, <2>1, <2>3, <2>4 DEF WorkDone, SameStore
<1>6. HoldsEntry(c)' /\ HoldsUndo(c)' /\ ~Undoing(c)'
  BY <1>1, <1>3, <1>4, <1>5 DEF HoldsEntry, HoldsUndo, Undoing, HasRecord, SameStore
<1> QED
  BY <1>6, SamePlace DEF CallHolds, Looping

\* A task is there, and is to be counted or related.
LEMMA CreateTaskKeepsIInv ==
  ASSUME IInv, NEW c \in Caller, CreateTask(c)
  PROVE  IInv'
<1> DEFINE a == Acting(c)
           s == job[c].step
           e == job[c].entry
<1>1. /\ SameStore /\ UNCHANGED <<row, ledgerRows, failures>>
      /\ job[c].at = "work" /\ s <= Titles[a]
      /\ objects' = [objects EXCEPT ![<<a, s>>] = "live"]
  BY DEF CreateTask, Creating, At, SameStore, storeVars, ledgerVars
<1>2. /\ a \in Action /\ a \in Claims(c) /\ a \in job[c].handled /\ Titles[a] \in Nat
      /\ execs[a] = 1 /\ ~HasRecord(a) /\ WorkDone(c) /\ Truthful(e)
      /\ e.undoes = 0 /\ e.outcome = "none" /\ e \in Entry /\ a = e.action
  BY <1>1, ActingKnows DEF Acting
<1>3. s \in 1..Titles[a] /\ objects[<<a, s>>] = "none"
  BY <1>1, <1>2 DEF WorkDone
<1>4. /\ objects' \in [Task -> {"none", "live", "deleted"}]
      /\ objects'[<<a, s>>] = "live"
      /\ \A b \in Action : \A k \in 1..Titles[b] :
           b # a \/ k # s => objects'[<<b, k>>] = objects[<<b, k>>]
  BY <1>1, <1>2, <1>3, OneTask DEF IInv
<1>5. ObjectsGo({a})
  BY <1>3, <1>4 DEF ObjectsGo
<1>6. TypeOK /\ job \in [Caller -> Job] /\ job[c] \in Job /\ row \in 0..version
      /\ failures \in 0..MaxFailures
  BY DEF IInv, TypeOK, Job
<1>7. CASE a \in Subtasks
  <2> DEFINE j == [job[c] EXCEPT !.at = "relate"]
  <2>1. j \in Job /\ job' = [job EXCEPT ![c] = j]
    BY <1>6, <1>7 DEF CreateTask, Job
  <2>2. TypeOK' /\ job'[c] = j /\ \A d \in Caller \ {c} : job'[d] = job[d]
    BY <1>1, <1>4, <1>6, <2>1, QuietTypes
  <2>3. /\ job'[c].at = "relate" /\ job'[c].todo = job[c].todo /\ job'[c].step = s
        /\ job'[c].handled = job[c].handled /\ job'[c].entry = e
        /\ job'[c].onward = job[c].onward /\ job'[c].system = job[c].system
    BY <1>6, <2>2 DEF Job
  <2>4. Truthful(e)'
    BY <1>1, <1>2, <1>5, <2>3, TruthfulKept
  <2>5. WorkDone(c)'
    BY <1>1, <1>2, <1>3, <1>4, <2>3 DEF WorkDone, SameStore
  <2>6. HoldsEntry(c)' /\ HoldsUndo(c)' /\ ~Undoing(c)'
    BY <1>1, <1>2, <2>3, <2>4, <2>5 DEF HoldsEntry, HoldsUndo, Undoing, HasRecord, SameStore
  <2>7. CallHolds(c)' /\ (Deciding(c)' => Deciding(c))
    BY <1>1, <2>3, <2>6, SamePlace DEF CallHolds, Looping
  <2> QED
    BY <1>1, <1>2, <1>5, <2>2, <2>6, <2>7, QuietStep
<1>8. CASE Count(c)
  <2> DEFINE f == [e EXCEPT !.resources = @ \union {s}]
             j == [job[c] EXCEPT !.at = "work", !.step = s + 1, !.entry = f]
  <2>1. f \in Entry /\ s \in Nat
    BY <1>2, <1>3 DEF Entry
  <2>2. j \in Job /\ job' = [job EXCEPT ![c] = j]
    BY <1>6, <1>8, <2>1 DEF Count, Job
  <2>3. TypeOK' /\ job'[c] = j /\ \A d \in Caller \ {c} : job'[d] = job[d]
    BY <1>1, <1>4, <1>6, <2>2, QuietTypes
  <2>4. /\ job'[c].at = "work" /\ job'[c].step = s + 1 /\ job'[c].entry = f
        /\ job'[c].todo = job[c].todo /\ job'[c].handled = job[c].handled
        /\ job'[c].onward = job[c].onward /\ job'[c].system = job[c].system
    BY <1>6, <2>3 DEF Job
  <2>5. CallHolds(c)' /\ ~Undoing(c)' /\ (Deciding(c)' => Deciding(c))
    BY <1>1, <1>2, <1>4, <1>5, <2>3, <2>4, CountHolds
  <2> QED
    BY <1>1, <1>2, <1>5, <2>3, <2>5, QuietStep
<1> QED
  BY <1>7, <1>8 DEF CreateTask

\* Its relation is there as well.
LEMMA RelateKeepsIInv ==
  ASSUME IInv, NEW c \in Caller, Relate(c)
  PROVE  IInv'
<1> DEFINE a == Acting(c)
           s == job[c].step
           e == job[c].entry
           f == [e EXCEPT !.resources = @ \union {s}]
           j == [job[c] EXCEPT !.at = "work", !.step = s + 1, !.entry = f]
<1>1. /\ SameStore /\ UNCHANGED <<row, ledgerRows, failures, objects>>
      /\ job[c].at = "relate" /\ Count(c)
  BY DEF Relate, At, SameStore, storeVars, ledgerVars
<1>2. /\ a \in Action /\ WorkDone(c) /\ e \in Entry /\ a = e.action /\ Titles[a] \in Nat
  BY <1>1, ActingKnows DEF Acting
<1>3. s \in 1..Titles[a] /\ objects[<<a, s>>] # "none"
  BY <1>1, <1>2 DEF WorkDone
<1>4. /\ job \in [Caller -> Job] /\ job[c] \in Job /\ row \in 0..version
      /\ failures \in 0..MaxFailures /\ TypeOK /\ objects \in [Task -> {"none", "live", "deleted"}]
  BY DEF IInv, TypeOK, Job
<1>5. f \in Entry /\ s \in Nat
  BY <1>2, <1>3 DEF Entry
<1>6. j \in Job /\ job' = [job EXCEPT ![c] = j]
  <2>1. Count(c) /\ job \in [Caller -> Job] /\ job[c] \in Job
    BY <1>1, <1>4
  <2>2. job[c] \in Job
    BY <2>1
  <2>3. j \in Job
    <3>1. \A n \in Nat, x \in Entry :
            [job[c] EXCEPT !.at = "work", !.step = n, !.entry = x] \in Job
      BY <2>2 DEF Job
    <3>2. s + 1 \in Nat
      BY <1>5
    <3> QED
      BY <1>5, <3>1, <3>2
  <2>4. job' = [job EXCEPT ![c] = j]
    BY <2>1 DEF Count, Job
  <2> QED
    BY <2>3, <2>4
<1>7. TypeOK' /\ job'[c] = j /\ \A d \in Caller \ {c} : job'[d] = job[d]
  BY <1>1, <1>4, <1>6, QuietTypes
<1>8. /\ job'[c].at = "work" /\ job'[c].step = s + 1 /\ job'[c].entry = f
      /\ job'[c].todo = job[c].todo /\ job'[c].handled = job[c].handled
      /\ job'[c].onward = job[c].onward /\ job'[c].system = job[c].system
  BY <1>4, <1>7 DEF Job
<1>9. ObjectsGo({a}) /\ ObjectsGo({})
  BY <1>1 DEF ObjectsGo
<1>10. CallHolds(c)' /\ ~Undoing(c)' /\ (Deciding(c)' => Deciding(c))
  <2>1. /\ objects'[<<a, s>>] # "none"
        /\ \A k \in 1..Titles[a] : k # s => objects'[<<a, k>>] = objects[<<a, k>>]
        /\ job[c].at \in {"work", "relate"} /\ s <= Titles[a]
    BY <1>1, <1>2, <1>3
  <2> QED
    BY <1>1, <1>7, <1>8, <1>9, <2>1, CountHolds
<1> QED
  BY <1>1, <1>7, <1>9, <1>10, QuietStep

\* All titles are done.
LEMMA ExecutedKeepsIInv ==
  ASSUME IInv, NEW c \in Caller, Executed(c)
  PROVE  IInv'
<1> DEFINE a == Acting(c)
           e == job[c].entry
           f == [e EXCEPT !.outcome = "succeeded"]
           j == [job[c] EXCEPT !.at = "ledger", !.step = 0, !.left = {}, !.entry = f]
<1>1. /\ SameStore /\ UNCHANGED <<row, ledgerRows, failures, objects>>
      /\ job[c].at = "work" /\ Finish(c, "succeeded") /\ ~(job[c].step <= Titles[a])
  BY DEF Executed, Creating, At, SameStore, storeVars, ledgerVars
<1>2. /\ a \in Action /\ a \in job[c].handled /\ Titles[a] \in Nat
      /\ ~HasRecord(a) /\ WorkDone(c) /\ Truthful(e)
      /\ e.undoes = 0 /\ e \in Entry /\ a = e.action
  BY <1>1, ActingKnows DEF Acting
<1>3. e.resources = 1..Titles[a]
  BY <1>1, <1>2 DEF WorkDone
<1>4. /\ f \in Entry
      /\ f.action = a /\ f.undoes = 0 /\ f.resources = e.resources /\ f.outcome = "succeeded"
  BY <1>2 DEF Entry
<1>5. Truthful(f)
  BY <1>2, <1>3, <1>4 DEF Truthful
<1>6. /\ job \in [Caller -> Job] /\ job[c] \in Job /\ row \in 0..version
      /\ failures \in 0..MaxFailures /\ TypeOK /\ objects \in [Task -> {"none", "live", "deleted"}]
  BY DEF IInv, TypeOK, Job
<1>7. j \in Job
  BY <1>4, <1>6 DEF Job
<1>8. job' = [job EXCEPT ![c] = j]
  BY <1>1, <1>6 DEF Finish, Job
<1>9. TypeOK' /\ job'[c] = j /\ \A d \in Caller \ {c} : job'[d] = job[d]
  BY <1>1, <1>6, <1>7, <1>8, QuietTypes
<1>10. /\ job'[c].at = "ledger" /\ job'[c].entry = f
       /\ job'[c].todo = job[c].todo /\ job'[c].handled = job[c].handled
       /\ job'[c].onward = job[c].onward /\ job'[c].system = job[c].system
  BY <1>6, <1>9 DEF Job
<1>11. Truthful(job[c].entry)'
  BY <1>1, <1>5, <1>10, NoObjects, TruthfulKept
<1>12. HoldsEntry(c)' /\ HoldsUndo(c)' /\ ~Undoing(c)'
  BY <1>1, <1>2, <1>4, <1>10, <1>11 DEF HoldsEntry, HoldsUndo, Undoing, HasRecord, SameStore
<1>13. CallHolds(c)' /\ (Deciding(c)' => Deciding(c))
  BY <1>1, <1>10, <1>12, SamePlace DEF CallHolds, Looping
<1> QED
  BY <1>1, <1>9, <1>12, <1>13, NoObjects, QuietStep

\* The work stops at the first failure: what was created so far is named, and one
\* task more may be there.
LEMMA ExecuteFailsKeepsIInv ==
  ASSUME IInv, NEW c \in Caller, ExecuteFails(c)
  PROVE  IInv'
<1> DEFINE a == Acting(c)
           s == job[c].step
           e == job[c].entry
           o == IF e.resources = {} THEN "failed" ELSE "partially_succeeded"
           f == [e EXCEPT !.outcome = o]
           j == [job[c] EXCEPT !.at = "ledger", !.step = 0, !.left = {}, !.entry = f]
<1>1. /\ SameStore /\ UNCHANGED <<row, ledgerRows>>
      /\ job[c].at \in {"work", "relate"} /\ Finish(c, o) /\ Thrown(c)
  BY DEF ExecuteFails, Thrown, Creating, At, SameStore, storeVars, ledgerVars
<1>2. /\ a \in Action /\ a \in job[c].handled /\ a \in Claims(c) /\ Titles[a] \in Nat
      /\ ~HasRecord(a) /\ WorkDone(c) /\ Truthful(e) /\ execs[a] = 1
      /\ e.undoes = 0 /\ e \in Entry /\ a = e.action
  BY <1>1, ActingKnows DEF Acting
<1>3. /\ f \in Entry
      /\ f.action = a /\ f.undoes = 0 /\ f.resources = e.resources /\ f.outcome = o
  BY <1>2 DEF Entry
<1>4. Truthful(f)
  BY <1>2, <1>3 DEF Truthful
<1>5. /\ job \in [Caller -> Job] /\ job[c] \in Job /\ row \in 0..version
      /\ TypeOK /\ objects \in [Task -> {"none", "live", "deleted"}]
      /\ failures' \in 0..MaxFailures
  BY <1>1, FailsTypes DEF IInv, TypeOK, Job, Thrown
<1>6. ObjectsGo({a}) /\ objects' \in [Task -> {"none", "live", "deleted"}]
  <2>1. CASE UNCHANGED objects
    BY <1>5, <2>1 DEF ObjectsGo
  <2>2. CASE Creating(c) /\ objects' = [objects EXCEPT ![<<a, s>>] = "live"]
    <3>1. s \in 1..Titles[a] /\ objects[<<a, s>>] = "none"
      BY <1>2, <2>2 DEF WorkDone, Creating, At
    <3>2. /\ objects' \in [Task -> {"none", "live", "deleted"}]
          /\ objects'[<<a, s>>] = "live"
          /\ \A b \in Action : \A k \in 1..Titles[b] :
               b # a \/ k # s => objects'[<<b, k>>] = objects[<<b, k>>]
      BY <1>2, <1>5, <2>2, <3>1, OneTask
    <3> QED
      BY <3>1, <3>2 DEF ObjectsGo
  <2> QED
    BY <1>1, <2>1, <2>2 DEF Thrown
<1>7. j \in Job
  BY <1>3, <1>5 DEF Job
<1>8. job' = [job EXCEPT ![c] = j]
  BY <1>1, <1>5 DEF Finish, Job
<1>9. TypeOK' /\ job'[c] = j /\ \A d \in Caller \ {c} : job'[d] = job[d]
  BY <1>1, <1>5, <1>6, <1>7, <1>8, QuietTypes
<1>10. /\ job'[c].at = "ledger" /\ job'[c].entry = f
       /\ job'[c].todo = job[c].todo /\ job'[c].handled = job[c].handled
       /\ job'[c].onward = job[c].onward /\ job'[c].system = job[c].system
  BY <1>5, <1>9 DEF Job
<1>11. Truthful(job[c].entry)'
  BY <1>1, <1>4, <1>6, <1>10, TruthfulKept
<1>12. HoldsEntry(c)' /\ HoldsUndo(c)' /\ ~Undoing(c)'
  BY <1>1, <1>2, <1>3, <1>10, <1>11 DEF HoldsEntry, HoldsUndo, Undoing, HasRecord, SameStore
<1>13. CallHolds(c)' /\ (Deciding(c)' => Deciding(c))
  BY <1>1, <1>10, <1>12, SamePlace DEF CallHolds, Looping
<1> QED
  BY <1>1, <1>2, <1>6, <1>9, <1>12, <1>13, QuietStep

\* The decision is in the row, and is worked through from its first entry.
LEMMA RefreshRowKeepsIInv ==
  ASSUME IInv, NEW c \in Caller, RefreshRow(c)
  PROVE  IInv'
<1> DEFINE j == [job[c] EXCEPT !.at = "next"]
<1>1. /\ SameStore /\ UNCHANGED <<ledgerRows, failures, objects>>
      /\ job[c].at = "refresh" /\ job' = [job EXCEPT ![c] = j] /\ row' = version
  BY DEF RefreshRow, At, SameStore, ledgerVars
<1>2. /\ job \in [Caller -> Job] /\ job[c] \in Job /\ version \in 0..2
      /\ failures \in 0..MaxFailures /\ TypeOK /\ objects \in [Task -> {"none", "live", "deleted"}]
  BY DEF IInv, TypeOK, Job
<1>3. j \in Job
  BY <1>2 DEF Job
<1>4. row' \in 0..version
  BY <1>1, <1>2
<1>5. TypeOK' /\ job'[c] = j /\ \A d \in Caller \ {c} : job'[d] = job[d]
  BY <1>1, <1>2, <1>3, <1>4, QuietTypes
<1>6. /\ job'[c].at = "next" /\ job'[c].entry = job[c].entry
      /\ job'[c].todo = job[c].todo /\ job'[c].handled = job[c].handled
      /\ job'[c].onward = job[c].onward /\ job'[c].system = job[c].system
  BY <1>2, <1>5 DEF Job
<1>7. Claims(c)' = Claims(c)
  BY <1>1, <1>6 DEF Claims, Carrying, Looping
<1>8. CallHolds(c)
  BY DEF IInv
<1>9. Rested(c)' /\ ProposesFirst(c)' /\ FollowsDecision(c)' /\ MayDecide(c)'
  BY <1>1, <1>6, <1>7, <1>8
  DEF CallHolds, Rested, ProposesFirst, FollowsDecision, Deciding, MayDecide, SameStore,
      Looping, Autonomous, Remaining, AutoDecided
<1>10. NotYetDone(c)'
  BY <1>1, <1>6, <1>7, <1>8 DEF CallHolds, NotYetDone, HasRecord, SameStore
<1>11. HoldsEntry(c)' /\ HoldsUndo(c)' /\ ~Undoing(c)'
  BY <1>6 DEF HoldsEntry, HoldsUndo, Undoing
<1> QED
  BY <1>1, <1>5, <1>6, <1>7, <1>9, <1>10, <1>11, NoObjects, QuietStep DEF CallHolds, Deciding

-------------------------------------------------------------------------------
\* An undo has no claims and no entry of its own.
LEMMA UndoHolds ==
  ASSUME NEW c \in Caller, job'[c].at \in {"lookup", "delete", "ledger"},
         job'[c].entry.undoes # 0, job'[c].todo = <<>>, job'[c].handled = {},
         job'[c].onward = "idle", job'[c].system => AutoDecided', HoldsUndo(c)'
  PROVE  CallHolds(c)' /\ ~Deciding(c)'
<1>1. Claims(c)' = {}
  BY DEF Claims, ActionsOf
<1> QED
  BY <1>1
  DEF CallHolds, Rested, ProposesFirst, FollowsDecision, MayDecide, NotYetDone, HoldsEntry,
      Deciding

\* What an undo knows of the record it undoes.
LEMMA UndoKnows ==
  ASSUME IInv, NEW c \in Caller, job[c].at \in {"lookup", "delete"}
  PROVE  LET e == job[c].entry IN
         /\ e \in Entry /\ e.undoes # 0 /\ Undoing(c)
         /\ job[c].todo = <<>> /\ job[c].handled = {} /\ job[c].onward = "idle"
         /\ IsUndoOf(e, e.undoes)
         /\ e.action \in Action
         /\ e.resources \subseteq 1..Titles[e.action]
         /\ job[c].system => AutoDecided
         /\ HoldsUndo(c)
<1> DEFINE e == job[c].entry
<1>1. HoldsUndo(c) /\ MayDecide(c) /\ e \in Entry \union {NoEntry}
  BY DEF IInv, CallHolds, TypeOK
<1>2. e.undoes # 0 /\ Undoing(c)
  BY <1>1 DEF HoldsUndo, Undoing
<1>3. /\ job[c].todo = <<>> /\ job[c].handled = {} /\ job[c].onward = "idle"
      /\ IsUndoOf(e, e.undoes)
  BY <1>1, <1>2 DEF HoldsUndo
<1>4. e \in Entry
  BY <1>1, <1>2 DEF NoEntry, ForAction
<1>5. Truthful(ledger[e.undoes])
  BY <1>3 DEF IsUndoOf, IInv, StoreHolds, LedgerHolds
<1> QED
  BY <1>1, <1>2, <1>3, <1>4, <1>5 DEF IsUndoOf, Truthful, MayDecide

\* A member undoes what a record says.
LEMMA StartUndoKeepsIInv ==
  ASSUME IInv, NEW c \in Caller, NEW i \in DOMAIN ledger, StartUndo(c, i)
  PROVE  IInv'
<1> DEFINE r == ledger[i]
           e == [r EXCEPT !.outcome = "none", !.undoes = i]
           j == [job[c] EXCEPT !.at = "lookup", !.left = r.resources, !.entry = e]
<1>1. /\ SameStore /\ UNCHANGED <<row, ledgerRows, objects, failures>>
      /\ job[c].at = "idle" /\ job' = [job EXCEPT ![c] = j] /\ CanUndo(i)
  BY DEF StartUndo, At, SameStore, storeVars, ledgerVars
<1>2. /\ job[c] = IdleJob /\ TypeOK /\ job[c] \in Job /\ row \in 0..version
      /\ failures \in 0..MaxFailures /\ objects \in [Task -> {"none", "live", "deleted"}]
  BY <1>1 DEF IInv, TypeOK, Job, CallHolds, Rested
<1>3. ledger \in Seq(Entry)
  BY DEF IInv, TypeOK
<1>4. i \in Nat /\ i # 0 /\ r \in Entry
  BY <1>3
<1>5. /\ e \in Entry /\ e.undoes = i /\ e.action = r.action /\ e.resources = r.resources
      /\ r.resources \in SUBSET Nat /\ r.undoes = 0
  BY <1>1, <1>4 DEF Entry, CanUndo
<1>6. r.resources # {}
  <2>1. Truthful(r)
    BY <1>5 DEF IInv, StoreHolds, LedgerHolds
  <2>2. Titles[r.action] \in Nat /\ Titles[r.action] > 0
    BY <1>1, <2>1, ActionAssumption DEF CanUndo, Truthful
  <2>3. 1 \in 1..Titles[r.action]
    BY <2>2
  <2> QED
    BY <1>1, <2>1, <2>3 DEF CanUndo, Truthful
<1>7. j \in Job
  BY <1>2, <1>5 DEF Job
<1>8. TypeOK' /\ job'[c] = j /\ \A d \in Caller \ {c} : job'[d] = job[d]
  BY <1>1, <1>2, <1>7, QuietTypes
<1>9. /\ job'[c].at = "lookup" /\ job'[c].entry = e /\ job'[c].left = r.resources
      /\ job'[c].todo = <<>> /\ job'[c].handled = {} /\ job'[c].onward = "idle"
      /\ job'[c].system = FALSE
  BY <1>2, <1>8 DEF IdleJob
<1>10. Taken(c)' = {}
  BY <1>9 DEF Taken
<1>11. HoldsUndo(c)'
  BY <1>1, <1>4, <1>5, <1>6, <1>9, <1>10 DEF HoldsUndo, IsUndoOf, SameStore
<1>12. CallHolds(c)' /\ ~Deciding(c)'
  BY <1>4, <1>5, <1>9, <1>11, UndoHolds
<1> QED
  BY <1>1, <1>8, <1>10, <1>12, NoObjects, QuietStep

\* Unless the record was undone before, its tasks are to be deleted.
LEMMA LookupUndoKeepsIInv ==
  ASSUME IInv, NEW c \in Caller, LookupUndo(c)
  PROVE  IInv'
<1> DEFINE e == job[c].entry
           j == [job[c] EXCEPT !.at = "delete"]
<1>1. /\ SameStore /\ UNCHANGED <<row, ledgerRows, objects, failures>>
      /\ job[c].at = "lookup"
  BY DEF LookupUndo, At, SameStore, storeVars, ledgerVars
<1>2. /\ TypeOK /\ job[c] \in Job /\ row \in 0..version
      /\ failures \in 0..MaxFailures /\ objects \in [Task -> {"none", "live", "deleted"}]
  BY DEF IInv, TypeOK, Job
<1>3. CASE Return(c)
  BY <1>1, <1>2, <1>3, ReturnKeepsIInv
<1>4. CASE job' = [job EXCEPT ![c] = j]
  <2>1. /\ e.undoes # 0 /\ Undoing(c) /\ HoldsUndo(c)
        /\ job[c].todo = <<>> /\ job[c].handled = {} /\ job[c].onward = "idle"
        /\ IsUndoOf(e, e.undoes) /\ (job[c].system => AutoDecided)
    BY <1>1, UndoKnows
  <2>2. j \in Job
    BY <1>2 DEF Job
  <2>3. TypeOK' /\ job'[c] = j /\ \A d \in Caller \ {c} : job'[d] = job[d]
    BY <1>1, <1>2, <1>4, <2>2, QuietTypes
  <2>4. /\ job'[c].at = "delete" /\ job'[c].entry = e /\ job'[c].left = e.resources
        /\ job'[c].todo = <<>> /\ job'[c].handled = {} /\ job'[c].onward = "idle"
        /\ job'[c].system = job[c].system
    BY <1>1, <1>2, <2>1, <2>3 DEF Job, HoldsUndo
  <2>5. Taken(c)' = {}
    BY <2>4 DEF Taken
  <2>6. HoldsUndo(c)'
    BY <1>1, <2>1, <2>4, <2>5 DEF HoldsUndo, IsUndoOf, SameStore
  <2>7. AutoDecided' <=> AutoDecided
    BY <1>1 DEF SameStore, AutoDecided, Remaining, Autonomous
  <2>8. CallHolds(c)' /\ ~Deciding(c)'
    BY <2>1, <2>4, <2>6, <2>7, UndoHolds
  <2> QED
    BY <1>1, <2>3, <2>5, <2>8, NoObjects, QuietStep
<1> QED
  BY <1>3, <1>4 DEF LookupUndo

\* An undo that has ended is about to be recorded, with an outcome.
LEMMA UndoEnds ==
  ASSUME IInv, NEW c \in Caller, job[c].at = "delete",
         NEW o \in {"succeeded", "failed", "partially_succeeded"}, Finish(c, o),
         o = "succeeded" => job[c].left = {},
         SameStore, UNCHANGED <<row, ledgerRows>>, ObjectsGo({}),
         objects' \in [Task -> {"none", "live", "deleted"}],
         failures' \in 0..MaxFailures
  PROVE  IInv'
<1> DEFINE e == job[c].entry
           f == [e EXCEPT !.outcome = o]
           j == [job[c] EXCEPT !.at = "ledger", !.step = 0, !.left = {}, !.entry = f]
<1>1. /\ e.undoes # 0 /\ Undoing(c) /\ HoldsUndo(c) /\ e \in Entry
      /\ job[c].todo = <<>> /\ job[c].handled = {} /\ job[c].onward = "idle"
      /\ IsUndoOf(e, e.undoes) /\ (job[c].system => AutoDecided)
      /\ e.action \in Action /\ e.resources \subseteq 1..Titles[e.action]
  BY UndoKnows
<1>2. /\ TypeOK /\ job \in [Caller -> Job] /\ job[c] \in Job /\ row' \in 0..version
  BY DEF IInv, TypeOK, Job
<1>3. /\ f \in Entry /\ f.undoes = e.undoes /\ f.action = e.action
      /\ f.resources = e.resources /\ f.outcome = o
  BY <1>1 DEF Entry
<1>4. j \in Job
  BY <1>2, <1>3 DEF Job
<1>5. job' = [job EXCEPT ![c] = j]
  BY <1>2 DEF Finish, Job
<1>6. TypeOK' /\ job'[c] = j /\ \A d \in Caller \ {c} : job'[d] = job[d]
  BY <1>2, <1>4, <1>5, QuietTypes
<1>7. /\ job'[c].at = "ledger" /\ job'[c].entry = f /\ job'[c].left = {}
      /\ job'[c].todo = <<>> /\ job'[c].handled = {} /\ job'[c].onward = "idle"
      /\ job'[c].system = job[c].system
  BY <1>1, <1>2, <1>6 DEF Job
<1>8. Taken(c)' \subseteq Taken(c)
  BY <1>3, <1>7 DEF Taken
<1>9. \A k \in Taken(c)' : objects'[<<f.action, k>>] = "deleted"
  <2> SUFFICES ASSUME NEW k \in Taken(c)' PROVE objects'[<<e.action, k>>] = "deleted"
    BY <1>3
  <2>1. k \in Taken(c)
    BY <1>8
  <2>2. objects[<<e.action, k>>] = "deleted"
    BY <1>1, <2>1 DEF HoldsUndo
  <2>3. k \in e.resources
    BY <2>1 DEF Taken
  <2> QED
    BY <1>1, <2>2, <2>3 DEF ObjectsGo
<1>10. HoldsUndo(c)'
  <2>1. IsUndoOf(f, f.undoes)'
    BY <1>1, <1>3, <1>7 DEF IsUndoOf, SameStore
  <2>2. \A i \in DOMAIN ledger : SucceededUndo(i) /\ ledger[i].undoes = e.undoes => Taken(c) = {}
    BY <1>1 DEF HoldsUndo
  <2>3. \A i \in DOMAIN ledger :
          SucceededUndo(i)' /\ ledger[i].undoes = f.undoes => Taken(c)' = {}
    BY <1>3, <1>8, <2>2 DEF SameStore, SucceededUndo
  <2> QED
    BY <1>1, <1>3, <1>7, <1>9, <2>1, <2>3 DEF HoldsUndo, SameStore
<1>11. AutoDecided' <=> AutoDecided
  BY DEF SameStore, AutoDecided, Remaining, Autonomous
<1>12. CallHolds(c)' /\ ~Deciding(c)'
  BY <1>1, <1>3, <1>7, <1>10, <1>11, UndoHolds
<1>13. \A d \in Caller \ {c} :
         Undoing(c)' /\ Undoing(d) /\ job'[c].entry.undoes = job[d].entry.undoes
           => Taken(c)' \intersect Taken(d) = {}
  BY <1>1, <1>3, <1>7, <1>8 DEF IInv, UndosApart
<1> QED
  BY <1>6, <1>12, <1>13, QuietStep

\* The tasks to be deleted.
LEMMA TargetKnows ==
  ASSUME IInv, NEW c \in Caller, job[c].at = "delete", NEW k \in job[c].left
  PROVE  /\ job[c].entry.action \in Action
         /\ k \in job[c].entry.resources
         /\ k \in 1..Titles[job[c].entry.action]
  BY UndoKnows DEF HoldsUndo

\* A live task is deleted.
LEMMA DeleteTypes ==
  ASSUME TypeOK, NEW a \in Action, NEW k \in 1..Titles[a],
         objects' = [objects EXCEPT ![<<a, k>>] = "deleted"]
  PROVE  /\ objects' \in [Task -> {"none", "live", "deleted"}]
         /\ objects'[<<a, k>>] = "deleted"
         /\ objects[<<a, k>>] # "none" => ObjectsGo({})
<1>1. /\ objects' \in [Task -> {"none", "live", "deleted"}]
      /\ objects'[<<a, k>>] = "deleted"
      /\ \A b \in Action : \A n \in 1..Titles[b] :
           b # a \/ n # k => objects'[<<b, n>>] = objects[<<b, n>>]
  BY OneTask
<1> QED
  BY <1>1 DEF ObjectsGo

\* A task is deleted by one undo: the version check of its stream refuses the
\* others.
LEMMA SoftDeleteKeepsIInv ==
  ASSUME IInv, NEW c \in Caller, SoftDelete(c)
  PROVE  IInv'
<1> DEFINE e == job[c].entry
           a == e.action
<1>1. /\ SameStore /\ UNCHANGED <<row, ledgerRows, failures>>
      /\ job[c].at = "delete"
  BY DEF SoftDelete, At, SameStore, storeVars, ledgerVars
<1>2. /\ TypeOK /\ job \in [Caller -> Job] /\ job[c] \in Job /\ row \in 0..version
      /\ failures \in 0..MaxFailures /\ objects \in [Task -> {"none", "live", "deleted"}]
  BY DEF IInv, TypeOK, Job
<1>3. PICK k \in job[c].left :
        IF objects[<<a, k>>] = "live"
          THEN /\ objects' = [objects EXCEPT ![<<a, k>>] = "deleted"]
               /\ job' = [job EXCEPT ![c].left = @ \ {k}]
          ELSE UndoFailed(c) /\ UNCHANGED objects
  BY DEF SoftDelete, IsNextTarget, Acting
<1>4. CASE objects[<<a, k>>] # "live"
  <2>1. PICK o \in {"failed", "partially_succeeded"} : Finish(c, o)
    BY <1>3, <1>4 DEF UndoFailed
  <2> QED
    BY <1>1, <1>2, <1>3, <1>4, <2>1, NoObjects, UndoEnds
<1>5. CASE objects[<<a, k>>] = "live"
  <2> DEFINE j == [job[c] EXCEPT !.left = job[c].left \ {k}]
  <2>1. /\ a \in Action /\ k \in 1..Titles[a] /\ k \in e.resources
    BY <1>1, TargetKnows
  <2>2. /\ objects' \in [Task -> {"none", "live", "deleted"}]
        /\ objects'[<<a, k>>] = "deleted" /\ ObjectsGo({})
    BY <1>2, <1>3, <1>5, <2>1, DeleteTypes
  <2>3. j \in Job /\ job' = [job EXCEPT ![c] = j]
    BY <1>2, <1>3, <1>5 DEF Job
  <2>4. TypeOK' /\ job'[c] = j /\ \A d \in Caller \ {c} : job'[d] = job[d]
    BY <1>1, <1>2, <2>2, <2>3, QuietTypes
  <2>5. /\ e.undoes # 0 /\ Undoing(c) /\ HoldsUndo(c) /\ e \in Entry
        /\ job[c].todo = <<>> /\ job[c].handled = {} /\ job[c].onward = "idle"
        /\ IsUndoOf(e, e.undoes) /\ (job[c].system => AutoDecided)
        /\ e.resources \subseteq 1..Titles[a]
    BY <1>1, UndoKnows
  <2>6. /\ job'[c].at = "delete" /\ job'[c].entry = e /\ job'[c].left = job[c].left \ {k}
        /\ job'[c].todo = <<>> /\ job'[c].handled = {} /\ job'[c].onward = "idle"
        /\ job'[c].system = job[c].system
    BY <1>1, <1>2, <2>4, <2>5 DEF Job
  <2>7. Taken(c)' = Taken(c) \union {k}
    BY <1>1, <2>1, <2>6 DEF Taken
  <2>8. \A n \in Taken(c)' : objects'[<<a, n>>] = "deleted"
    <3> SUFFICES ASSUME NEW n \in Taken(c), n # k PROVE objects'[<<a, n>>] = "deleted"
      BY <2>2, <2>7
    <3>1. objects[<<a, n>>] = "deleted" /\ n \in e.resources
      BY <2>5 DEF HoldsUndo, Taken
    <3> QED
      BY <2>1, <2>2, <2>5, <3>1 DEF ObjectsGo
  <2>9. \A i \in DOMAIN ledger : ~(SucceededUndo(i) /\ ledger[i].undoes = e.undoes)
    <3> SUFFICES ASSUME NEW i \in DOMAIN ledger, SucceededUndo(i), ledger[i].undoes = e.undoes
                 PROVE  FALSE
      OBVIOUS
    <3>1. IsUndoOf(ledger[i], e.undoes)
      BY <2>5 DEF IInv, StoreHolds, LedgerHolds
    <3>2. k \in ledger[i].resources /\ ledger[i].action = a
      BY <2>1, <2>5, <3>1 DEF IsUndoOf
    <3>3. objects[<<a, k>>] = "deleted"
      BY <3>2 DEF IInv, StoreHolds, UndoneOnce, SucceededUndo
    <3> QED
      BY <1>5, <3>3
  <2>10. HoldsUndo(c)'
    <3>1. \A i \in DOMAIN ledger : ~(SucceededUndo(i)' /\ ledger'[i].undoes = e.undoes)
      BY <1>1, <2>9 DEF SameStore, SucceededUndo
    <3>2. IsUndoOf(e, e.undoes)'
      BY <1>1, <2>5, <2>6 DEF IsUndoOf, SameStore
    <3>3. job'[c].left \subseteq e.resources
      BY <1>1, <2>5, <2>6 DEF HoldsUndo
    <3> QED
      BY <1>1, <2>5, <2>6, <2>8, <3>1, <3>2, <3>3 DEF HoldsUndo, SameStore
  <2>11. AutoDecided' <=> AutoDecided
    BY <1>1 DEF SameStore, AutoDecided, Remaining, Autonomous
  <2>12. CallHolds(c)' /\ ~Deciding(c)'
    BY <2>5, <2>6, <2>10, <2>11, UndoHolds
  <2>13. ASSUME NEW d \in Caller \ {c}, Undoing(d), e.undoes = job[d].entry.undoes
         PROVE  Taken(c)' \intersect Taken(d) = {}
    <3>1. Taken(c) \intersect Taken(d) = {}
      BY <2>5, <2>13 DEF IInv, UndosApart
    <3>2. \A n \in Taken(d) : objects[<<job[d].entry.action, n>>] = "deleted"
      BY <2>13 DEF IInv, CallHolds, HoldsUndo
    <3>3. job[d].entry.action = a
      BY <2>5, <2>13 DEF IInv, CallHolds, HoldsUndo, IsUndoOf
    <3> QED
      BY <1>5, <2>7, <3>1, <3>2, <3>3
  <2> QED
    BY <1>1, <2>2, <2>4, <2>6, <2>12, <2>13, QuietStep
<1> QED
  BY <1>4, <1>5

\* A call that throws ends the undo, whether or not the task was deleted.
LEMMA SoftDeleteFailsKeepsIInv ==
  ASSUME IInv, NEW c \in Caller, SoftDeleteFails(c)
  PROVE  IInv'
<1> DEFINE a == job[c].entry.action
<1>1. /\ SameStore /\ UNCHANGED <<row, ledgerRows>>
      /\ job[c].at = "delete" /\ Fails /\ UndoFailed(c)
  BY DEF SoftDeleteFails, At, SameStore, storeVars, ledgerVars
<1>2. TypeOK /\ objects \in [Task -> {"none", "live", "deleted"}]
  BY DEF IInv, TypeOK
<1>3. PICK k \in job[c].left :
        \/ UNCHANGED objects
        \/ /\ objects[<<a, k>>] = "live"
           /\ objects' = [objects EXCEPT ![<<a, k>>] = "deleted"]
  BY DEF SoftDeleteFails, IsNextTarget, Acting
<1>4. ObjectsGo({}) /\ objects' \in [Task -> {"none", "live", "deleted"}]
  BY <1>1, <1>2, <1>3, TargetKnows, DeleteTypes, NoObjects
<1>5. PICK o \in {"failed", "partially_succeeded"} : Finish(c, o)
  BY <1>1 DEF UndoFailed
<1>6. failures' \in 0..MaxFailures
  BY <1>1, <1>2, FailsTypes
<1> QED
  BY <1>1, <1>4, <1>5, <1>6, UndoEnds

\* All its tasks are deleted.
LEMMA UndoneKeepsIInv ==
  ASSUME IInv, NEW c \in Caller, Undone(c)
  PROVE  IInv'
<1>1. /\ SameStore /\ UNCHANGED <<row, ledgerRows, failures, objects>>
      /\ job[c].at = "delete" /\ job[c].left = {} /\ Finish(c, "succeeded")
  BY DEF Undone, At, SameStore, storeVars, ledgerVars
<1>2. /\ objects \in [Task -> {"none", "live", "deleted"}] /\ failures \in 0..MaxFailures
  BY DEF IInv, TypeOK
<1>3. objects' \in [Task -> {"none", "live", "deleted"}] /\ failures' \in 0..MaxFailures
  BY <1>1, <1>2
<1> QED
  BY <1>1, <1>3, NoObjects, UndoEnds

-------------------------------------------------------------------------------
\* The locals of one call change.
LEMMA JobTypes ==
  ASSUME TypeOK, NEW c \in Caller, NEW j \in Job, job' = [job EXCEPT ![c] = j]
  PROVE  /\ job' \in [Caller -> Job]
         /\ job'[c] = j
         /\ \A d \in Caller \ {c} : job'[d] = job[d]
BY DEF TypeOK, Job

LEMMA ClaimsTyped ==
  ASSUME TypeOK, NEW c \in Caller
  PROVE  Claims(c) \subseteq Action
BY ListTyped DEF TypeOK, Claims

\* No record of the ledger is ever changed.
LedgerGrows ==
  \A i \in DOMAIN ledger : i \in DOMAIN ledger' /\ ledger'[i] = ledger[i]

\* What a call holds it keeps while the actions it claims are left alone, and no
\* undo that succeeds takes its tasks.
LEMMA ClaimsKept ==
  ASSUME IInv, NEW d \in Caller, job'[d] = job[d],
         UNCHANGED <<tier, version, decision, bySystem, objects>>, LedgerGrows,
         \A a \in Claims(d) : execs'[a] = execs[a] /\ (HasRecord(a)' <=> HasRecord(a)),
         \A i \in DOMAIN ledger' \ DOMAIN ledger :
           Undoing(d) /\ SucceededUndo(i)' /\ ledger'[i].undoes = job[d].entry.undoes
             => Taken(d) = {}
  PROVE  CallHolds(d)'
<1>1. CallHolds(d)
  BY DEF IInv
<1>2. Rested(d)'
  BY <1>1 DEF CallHolds, Rested
<1>3. Claims(d)' = Claims(d) /\ Autonomous' = Autonomous /\ Remaining' = Remaining
      /\ (AutoDecided' <=> AutoDecided)
  BY DEF Claims, Autonomous, Remaining, AutoDecided
<1>4. ProposesFirst(d)' /\ FollowsDecision(d)' /\ MayDecide(d)'
  BY <1>1, <1>3 DEF CallHolds, ProposesFirst, FollowsDecision, MayDecide, Deciding
<1>5. NotYetDone(d)'
  BY <1>1, <1>3 DEF CallHolds, NotYetDone
<1>6. HoldsEntry(d)'
  <2> DEFINE e == job[d].entry
  <2> SUFFICES ASSUME job[d].at \in {"work", "relate", "ledger"}, e.undoes = 0
               PROVE  /\ e.action \in job[d].handled
                      /\ ~HasRecord(e.action)'
                      /\ Truthful(e)'
                      /\ job[d].at # "ledger" => WorkDone(d)' /\ e.outcome = "none"
    BY <1>1 DEF CallHolds, HoldsEntry
  <2>1. /\ e.action \in job[d].handled /\ ~HasRecord(e.action) /\ Truthful(e)
        /\ job[d].at # "ledger" => WorkDone(d) /\ e.outcome = "none"
    BY <1>1 DEF CallHolds, HoldsEntry
  <2>2. e.action \in Claims(d)
    BY <2>1 DEF Claims, Carrying, Looping
  <2>3. execs'[e.action] = execs[e.action] /\ ~HasRecord(e.action)'
    BY <2>1, <2>2
  <2>4. Truthful(e)'
    BY <2>1, <2>3 DEF Truthful
  <2>5. WorkDone(d) => WorkDone(d)'
    BY <2>3 DEF WorkDone
  <2> QED
    BY <2>1, <2>3, <2>4, <2>5
<1>7. HoldsUndo(d)'
  <2>1. Taken(d)' = Taken(d) /\ (Undoing(d)' <=> Undoing(d))
    BY DEF Taken, Undoing
  <2>2. Undoing(d) => IsUndoOf(job[d].entry, job[d].entry.undoes)'
    BY <1>1 DEF CallHolds, HoldsUndo, IsUndoOf, LedgerGrows
  <2>3. ASSUME Undoing(d), NEW i \in DOMAIN ledger', SucceededUndo(i)',
               ledger'[i].undoes = job[d].entry.undoes
        PROVE  Taken(d) = {}
    <3>1. CASE i \in DOMAIN ledger
      <4>1. SucceededUndo(i) /\ ledger[i].undoes = job[d].entry.undoes
        BY <2>3, <3>1 DEF SucceededUndo, LedgerGrows
      <4> QED
        BY <1>1, <2>3, <3>1, <4>1 DEF CallHolds, HoldsUndo
    <3>2. CASE i \notin DOMAIN ledger
      BY <2>3, <3>2
    <3> QED
      BY <3>1, <3>2
  <2> QED
    BY <1>1, <2>1, <2>2, <2>3 DEF CallHolds, HoldsUndo
<1> QED
  BY <1>2, <1>4, <1>5, <1>6, <1>7 DEF CallHolds

\* An approved entry that comes first in what is left of the decision.
LEMMA FirstVerdict ==
  ASSUME IInv, NEW c \in Caller, NextIs(c), ~AlreadyHandled(c), Deciding(c),
         First(c).verdict = "approved"
  PROVE  Verdict(decision, First(c).action, "approved")
<1> DEFINE a == First(c).action
           t == job[c].todo
<1>1. t # <<>> /\ a \notin job[c].handled /\ First(c) = Head(t)
  BY DEF NextIs, AlreadyHandled, First
<1>2. PICK n \in 0..Len(decision) :
        /\ t = SubSeq(decision, n + 1, Len(decision))
        /\ job[c].handled = {decision[i].action : i \in 1..n}
  BY DEF IInv, CallHolds, FollowsDecision, PartWay
<1>3. decision \in Seq(Decision)
  BY DEF IInv, TypeOK
<1>4. n + 1 \in 1..Len(decision) /\ Head(t) = decision[n + 1]
  BY <1>1, <1>2, <1>3, RestOfList
<1>5. decision[n + 1] \in Decision /\ n + 1 \in DOMAIN decision
  BY <1>3, <1>4
<1>6. decision[n + 1] = [action |-> a, verdict |-> "approved"]
  BY <1>1, <1>4, <1>5 DEF Decision
<1>7. \A i \in 1..((n + 1) - 1) : decision[i].action # a
  BY <1>1, <1>2
<1> QED
  BY <1>5, <1>6, <1>7 DEF Verdict

\* What a call is about to carry out has left no trace, and is allowed.
LEMMA MayCarryOut ==
  ASSUME IInv, NEW c \in Caller, NextIs(c), ~AlreadyHandled(c),
         First(c).verdict = "approved"
  PROVE  LET a == First(c).action IN
         /\ a \in Action /\ execs[a] = 0 /\ ~HasRecord(a)
         /\ \/ a \in Autonomous
            \/ /\ version = 2
               /\ Verdict(decision, a, "approved")
               /\ tier[a] = "propose" => ~bySystem
<1> DEFINE a == First(c).action
           t == job[c].todo
<1>1. /\ job[c].at = "next" /\ t # <<>> /\ a \notin job[c].handled /\ First(c) = Head(t)
      /\ t \in Seq(Decision) /\ job[c].onward \in {"idle", "record"}
  BY DEF NextIs, At, AlreadyHandled, First, IInv, TypeOK
<1>2. a \in Claims(c)
  <2>1. 1 \in DOMAIN t /\ First(c) = t[1]
    BY <1>1
  <2> QED
    BY <1>1, <2>1 DEF Claims, Carrying, Looping, ActionsOf
<1>3. a \in Action
  BY <1>2, ClaimsTyped DEF IInv
<1>4. execs[a] = 0 /\ ~HasRecord(a)
  BY <1>1, <1>2 DEF IInv, CallHolds, NotYetDone
<1>5. CASE job[c].onward = "record"
  BY <1>2, <1>3, <1>4, <1>5 DEF IInv, CallHolds, ProposesFirst
<1>6. CASE job[c].onward = "idle"
  <2>1. Deciding(c)
    BY <1>2, <1>6 DEF Deciding
  <2>2. version = 2 /\ Verdict(decision, a, "approved")
    BY <2>1, FirstVerdict DEF IInv, CallHolds, FollowsDecision
  <2>3. bySystem => tier[a] = "approve_and_act"
    BY <2>2 DEF IInv, StoreHolds, DecidesRemaining, Verdict, ActionsOf, AutoDecided
  <2> QED
    BY <1>3, <1>4, <2>2, <2>3
<1> QED
  BY <1>1, <1>5, <1>6

\* An action is carried out that has left no trace, and that the call may carry
\* out.
LEMMA DispatchKeepsIInv ==
  ASSUME IInv, NEW c \in Caller, Dispatch(c)
  PROVE  IInv'
<1> DEFINE a == First(c).action
           e == ForAction(a)
           j == [job[c] EXCEPT !.todo = Tail(job[c].todo), !.at = "work",
                   !.handled = job[c].handled \union {a}, !.step = 1, !.entry = e]
<1>1. /\ job' = [job EXCEPT ![c] = j] /\ execs' = [execs EXCEPT ![a] = execs[a] + 1]
      /\ UNCHANGED <<tier, version, decision, bySystem, row, ledger, ledgerRows, objects,
                     failures>>
      /\ NextIs(c) /\ a \notin job[c].handled /\ ~AlreadyHandled(c)
      /\ First(c).verdict = "approved"
  BY DEF Dispatch, AlreadyHandled, storeVars, ledgerVars
<1>2. job[c] \in Job /\ job[c].at = "next" /\ job[c].todo # <<>> /\ TypeOK
  BY <1>1 DEF IInv, TypeOK, Job, NextIs, At
<1>3. a \in Action /\ Tail(job[c].todo) \in Seq(Decision)
  BY <1>2, FirstTyped DEF Job, First
<1>4. /\ e \in Entry
      /\ e.action = a /\ e.resources = {} /\ e.undoes = 0 /\ e.outcome = "none"
  BY <1>3 DEF ForAction, Entry
<1>5. j \in Job
  BY <1>2, <1>3, <1>4 DEF Job
<1>6. /\ job' \in [Caller -> Job] /\ job'[c] = j
      /\ \A d \in Caller \ {c} : job'[d] = job[d]
  BY <1>1, <1>2, <1>5, JobTypes
<1>7. /\ job'[c].todo = Tail(job[c].todo) /\ job'[c].at = "work"
      /\ job'[c].handled = job[c].handled \union {a} /\ job'[c].onward = job[c].onward
      /\ job'[c].system = job[c].system /\ job'[c].entry = e /\ job'[c].step = 1
  BY <1>2, <1>6 DEF Job
<1>8. /\ Claims(c)' = Claims(c) /\ a \in Claims(c)
      /\ ProposesFirst(c)' /\ FollowsDecision(c)'
  BY <1>1, <1>7, GoOn DEF Looping
<1>9. execs[a] = 0 /\ ~HasRecord(a)
  BY <1>1, <1>8 DEF IInv, CallHolds, NotYetDone
<1>10. /\ execs' \in [Action -> Nat] /\ execs'[a] = 1
       /\ \A b \in Action \ {a} : execs'[b] = execs[b]
  <2>1. execs \in [Action -> Nat]
    BY <1>2 DEF TypeOK
  <2> QED
    BY <1>1, <1>3, <1>9, <2>1
<1>11. TypeOK'
  BY <1>1, <1>2, <1>6, <1>10 DEF TypeOK, Job
<1>12. (\A b : HasRecord(b)' <=> HasRecord(b)) /\ Autonomous' = Autonomous
       /\ Remaining' = Remaining /\ (AutoDecided' <=> AutoDecided)
  BY <1>1 DEF HasRecord, Autonomous, Remaining, AutoDecided
<1>13. NotYetDone(c)'
  <2>1. Claims(c) \subseteq Action
    BY <1>2, ClaimsTyped
  <2> QED
    BY <1>7, <1>8, <1>10, <1>12, <2>1 DEF IInv, CallHolds, NotYetDone
<1>14. HoldsEntry(c)' /\ HoldsUndo(c)' /\ ~Undoing(c)'
  <2>1. Titles[a] \in Nat /\ \A k \in 1..Titles[a] : objects[<<a, k>>] = "none"
    BY <1>3, <1>9, ActionAssumption DEF IInv, StoreHolds, Once
  <2>2. WorkDone(c)'
    <3>1. 1 \in 1..(Titles[a] + 1) /\ 1..(1 - 1) = {} /\ (1 <= Titles[a] => 1 \in 1..Titles[a])
      BY <2>1
    <3>2. \A k \in 1..Titles[a] : objects'[<<a, k>>] = "none"
      BY <1>1, <2>1
    <3>3. /\ job'[c].entry.action = a /\ job'[c].entry.resources = {}
          /\ job'[c].step = 1 /\ job'[c].at = "work" /\ execs'[a] = 1
      BY <1>4, <1>7, <1>10
    <3> QED
      BY <3>1, <3>2, <3>3 DEF WorkDone
  <2>3. Truthful(job[c].entry)'
    BY <1>3, <1>4, <1>7 DEF Truthful
  <2> QED
    BY <1>4, <1>7, <1>9, <1>12, <2>2, <2>3 DEF HoldsEntry, HoldsUndo, Undoing
<1>15. CallHolds(c)' /\ (Deciding(c)' <=> Deciding(c))
  <2>1. Rested(c)' /\ MayDecide(c)'
    BY <1>7, <1>12 DEF IInv, CallHolds, Rested, MayDecide
  <2> QED
    BY <1>7, <1>8, <1>13, <1>14, <2>1 DEF CallHolds, Deciding
<1>16. ASSUME NEW d \in Caller \ {c} PROVE CallHolds(d)'
  <2>1. Claims(d) \subseteq Action /\ a \notin Claims(d)
    BY <1>2, <1>8, ClaimsTyped, ClaimsDisjoint
  <2>2. \A b \in Claims(d) : execs'[b] = execs[b] /\ (HasRecord(b)' <=> HasRecord(b))
    BY <1>10, <1>12, <2>1
  <2>3. LedgerGrows /\ DOMAIN ledger' \ DOMAIN ledger = {}
    BY <1>1 DEF LedgerGrows
  <2> QED
    BY <1>1, <1>6, <2>2, <2>3, ClaimsKept
<1>17. \A d \in Caller \ {c} : /\ Deciding(d)' <=> Deciding(d)
                               /\ Undoing(d)' <=> Undoing(d)
                               /\ Taken(d)' = Taken(d)
  BY <1>6 DEF Deciding, Claims, Undoing, Taken
<1>18. OneDecides' /\ UndosApart'
  BY <1>14, <1>15, <1>17, <1>6 DEF IInv, OneDecides, UndosApart
<1>19. StoreHolds'
  <2>1. DecidesRemaining'
    BY <1>1, <1>12 DEF IInv, StoreHolds, DecidesRemaining
  <2>2. Once'
    BY <1>1, <1>10, <1>12 DEF IInv, StoreHolds, Once
  <2>3. \A i \in DOMAIN ledger : ledger[i].undoes = 0 => Truthful(ledger[i])'
    <3> SUFFICES ASSUME NEW i \in DOMAIN ledger, ledger[i].undoes = 0
                 PROVE  Truthful(ledger[i])'
      OBVIOUS
    <3>1. Truthful(ledger[i]) /\ ledger[i].action # a
      BY <1>9 DEF IInv, StoreHolds, LedgerHolds, HasRecord
    <3> QED
      BY <1>1, <1>10, <3>1 DEF Truthful
  <2>4. LedgerHolds'
    BY <1>1, <2>3 DEF IInv, StoreHolds, LedgerHolds, IsUndoOf
  <2>5. LedgerIsTrue'
    BY <1>1, <2>3 DEF IInv, StoreHolds, LedgerIsTrue, Truthful
  <2>6. UndoneOnce'
    BY <1>1 DEF IInv, StoreHolds, UndoneOnce
  <2>7. a \in Autonomous \/ (/\ version = 2
                             /\ Verdict(decision, a, "approved")
                             /\ tier[a] = "propose" => ~bySystem)
    BY <1>1, MayCarryOut
  <2>8. OnlyWhenAllowed'
    <3> SUFFICES ASSUME NEW b \in Action, execs'[b] > 0
                 PROVE  \/ b \in Autonomous
                        \/ /\ version = 2
                           /\ Verdict(decision, b, "approved")
                           /\ tier[b] = "propose" => ~bySystem
      BY <1>1, <1>12 DEF OnlyWhenAllowed
    <3>1. CASE b = a
      BY <2>7, <3>1
    <3>2. CASE b # a
      BY <1>10, <3>2 DEF IInv, StoreHolds, OnlyWhenAllowed
    <3> QED
      BY <3>1, <3>2
  <2> QED
    BY <2>1, <2>2, <2>4, <2>5, <2>6, <2>8 DEF StoreHolds
<1> QED
  BY <1>6, <1>11, <1>15, <1>16, <1>18, <1>19 DEF IInv

\* A record is added to the log.
LEMMA Appended ==
  ASSUME NEW L \in Seq(Entry), NEW e \in Entry, NEW M, M = Append(L, e)
  PROVE  /\ M \in Seq(Entry) /\ Len(M) = Len(L) + 1
         /\ DOMAIN M = DOMAIN L \union {Len(L) + 1} /\ Len(L) + 1 \notin DOMAIN L
         /\ M[Len(L) + 1] = e
         /\ \A i \in DOMAIN L : i \in DOMAIN M /\ M[i] = L[i]
OBVIOUS

\* What is about to be recorded is an entry of the ledger, and so.
LEMMA EntryKnows ==
  ASSUME IInv, NEW c \in Caller, job[c].at = "ledger"
  PROVE  LET e == job[c].entry IN
         /\ e \in Entry
         /\ e.undoes = 0 => /\ e.action \in job[c].handled /\ e.action \in Claims(c)
                            /\ e.action \in Action /\ ~HasRecord(e.action) /\ Truthful(e)
         /\ e.undoes # 0 => /\ IsUndoOf(e, e.undoes) /\ Undoing(c) /\ HoldsUndo(c)
                            /\ e.outcome = "succeeded" => Taken(c) = e.resources
<1> DEFINE e == job[c].entry
<1>1. HoldsUndo(c) /\ HoldsEntry(c) /\ e \in Entry \union {NoEntry}
  BY DEF IInv, CallHolds, TypeOK
<1>2. e.undoes = 0 => /\ e.action \in job[c].handled /\ ~HasRecord(e.action) /\ Truthful(e)
                      /\ e.action \in Claims(c) /\ e.action \in Action
  BY <1>1 DEF HoldsEntry, Claims, Carrying, Looping, Truthful
<1>3. e \in Entry
  <2>1. CASE e = NoEntry
    <3>1. e.undoes = 0
      BY <2>1 DEF NoEntry, ForAction
    <3> QED
      BY <1>2, <2>1, <3>1 DEF NoEntry, ForAction, Entry
  <2> QED
    BY <1>1, <2>1
<1>4. e.undoes # 0 => /\ IsUndoOf(e, e.undoes) /\ Undoing(c)
                      /\ e.outcome = "succeeded" => Taken(c) = e.resources
  BY <1>1 DEF HoldsUndo, Undoing, Taken
<1> QED
  BY <1>1, <1>2, <1>3, <1>4

\* Every call goes on after the ledger, whether or not the entry is in it.
LEMMA RecordedKeepsIInv ==
  ASSUME IInv, NEW c \in Caller, job[c].at = "ledger", Recorded(c),
         UNCHANGED <<tier, version, decision, bySystem, row, objects, execs>>,
         ledger' \in {ledger, Append(ledger, job[c].entry)},
         ledgerRows' \in 0..Len(ledger'), failures' \in 0..MaxFailures
  PROVE  IInv'
<1> DEFINE e == job[c].entry
           j == [job[c] EXCEPT !.at = "next", !.entry = NoEntry]
           new == Len(ledger) + 1
<1>1. /\ TypeOK /\ job \in [Caller -> Job] /\ job[c] \in Job /\ ledger \in Seq(Entry)
      /\ row \in 0..version
  BY DEF IInv, TypeOK, Job
<1>2. j \in Job /\ job' = [job EXCEPT ![c] = j]
  BY <1>1 DEF Recorded, Job
<1>3. /\ job' \in [Caller -> Job] /\ job'[c] = j
      /\ \A d \in Caller \ {c} : job'[d] = job[d]
  BY <1>1, <1>2, JobTypes
<1>4. /\ job'[c].at = "next" /\ job'[c].todo = job[c].todo
      /\ job'[c].handled = job[c].handled /\ job'[c].onward = job[c].onward
      /\ job'[c].system = job[c].system
  BY <1>1, <1>3 DEF Job
<1>5. /\ e \in Entry
      /\ e.undoes = 0 => /\ e.action \in job[c].handled /\ e.action \in Claims(c)
                         /\ e.action \in Action /\ ~HasRecord(e.action) /\ Truthful(e)
      /\ e.undoes # 0 => /\ IsUndoOf(e, e.undoes) /\ Undoing(c) /\ HoldsUndo(c)
                         /\ e.outcome = "succeeded" => Taken(c) = e.resources
  BY EntryKnows
<1>6. ledger' \in Seq(Entry) /\ LedgerGrows
  <2>1. CASE ledger' = ledger
    BY <1>1, <2>1 DEF LedgerGrows
  <2>2. CASE ledger' = Append(ledger, e)
    <3>1. ledger \in Seq(Entry) /\ e \in Entry
      BY <1>1, <1>5
    <3>2. /\ ledger' \in Seq(Entry)
          /\ \A i \in DOMAIN ledger : i \in DOMAIN ledger' /\ ledger'[i] = ledger[i]
      BY <2>2, <3>1, Appended
    <3> QED
      BY <3>2 DEF LedgerGrows
  <2> QED
    BY <2>1, <2>2
<1>7. TypeOK'
  BY <1>1, <1>3, <1>6 DEF TypeOK, Job
<1>8. \A i \in DOMAIN ledger' \ DOMAIN ledger : ledger'[i] = e /\ i = new
  BY <1>1, <1>5, Appended
<1>9. /\ Claims(c)' = Claims(c) /\ Autonomous' = Autonomous /\ Remaining' = Remaining
      /\ (AutoDecided' <=> AutoDecided)
  BY <1>4 DEF Claims, Carrying, Looping, Autonomous, Remaining, AutoDecided
<1>10. \A b : HasRecord(b)' => HasRecord(b) \/ (e.undoes = 0 /\ b = e.action)
  BY <1>6, <1>8 DEF HasRecord, LedgerGrows
<1>11. \A b : HasRecord(b) => HasRecord(b)'
  BY <1>6 DEF HasRecord, LedgerGrows
<1>12. CallHolds(c)' /\ ~Undoing(c)' /\ (Deciding(c)' <=> Deciding(c))
  <2>1. Rested(c)' /\ ProposesFirst(c)' /\ FollowsDecision(c)' /\ MayDecide(c)'
        /\ (Deciding(c)' <=> Deciding(c))
    BY <1>4, <1>9
    DEF IInv, CallHolds, Rested, ProposesFirst, FollowsDecision, Deciding, MayDecide, Looping
  <2>2. NotYetDone(c)'
    BY <1>4, <1>5, <1>9, <1>10 DEF IInv, CallHolds, NotYetDone
  <2>3. HoldsEntry(c)' /\ HoldsUndo(c)' /\ ~Undoing(c)'
    BY <1>4 DEF HoldsEntry, HoldsUndo, Undoing
  <2> QED
    BY <2>1, <2>2, <2>3 DEF CallHolds
<1>13. ASSUME NEW d \in Caller \ {c} PROVE CallHolds(d)'
  <2>1. e.undoes = 0 => e.action \notin Claims(d)
    BY <1>5, ClaimsDisjoint
  <2>2. \A b \in Claims(d) : execs'[b] = execs[b] /\ (HasRecord(b)' <=> HasRecord(b))
    BY <1>10, <1>11, <2>1
  <2>3. ASSUME NEW i \in DOMAIN ledger' \ DOMAIN ledger, Undoing(d), SucceededUndo(i)',
               ledger'[i].undoes = job[d].entry.undoes
        PROVE  Taken(d) = {}
    <3>1. e.undoes # 0 /\ e.outcome = "succeeded" /\ e.undoes = job[d].entry.undoes
      BY <1>8, <2>3 DEF SucceededUndo
    <3>2. Taken(c) = e.resources /\ Taken(c) \intersect Taken(d) = {}
      BY <1>5, <2>3, <3>1 DEF IInv, UndosApart
    <3>3. IsUndoOf(job[d].entry, e.undoes)
      BY <2>3, <3>1 DEF IInv, CallHolds, HoldsUndo
    <3>4. Taken(d) \subseteq job[d].entry.resources
      BY DEF Taken
    <3> QED
      BY <1>5, <3>1, <3>2, <3>3, <3>4 DEF IsUndoOf
  <2> QED
    BY <1>3, <1>6, <2>2, <2>3, ClaimsKept
<1>14. \A d \in Caller \ {c} : /\ Deciding(d)' <=> Deciding(d)
                               /\ Undoing(d)' <=> Undoing(d)
                               /\ Taken(d)' = Taken(d)
  BY <1>3 DEF Deciding, Claims, Undoing, Taken
<1>15. OneDecides' /\ UndosApart'
  BY <1>3, <1>12, <1>14 DEF IInv, OneDecides, UndosApart
<1>16. DecidesRemaining' /\ OnlyWhenAllowed'
  BY <1>9 DEF IInv, StoreHolds, DecidesRemaining, OnlyWhenAllowed
<1>17. Once'
  <2>1. ASSUME NEW b \in Action, HasRecord(b)' PROVE b \in Autonomous \/ version = 2
    <3>1. CASE HasRecord(b)
      BY <3>1 DEF IInv, StoreHolds, Once
    <3>2. CASE e.undoes = 0 /\ b = e.action /\ job[c].onward = "record"
      BY <1>5, <3>2 DEF IInv, CallHolds, ProposesFirst
    <3>3. CASE e.undoes = 0 /\ b = e.action /\ job[c].onward = "idle"
      BY <1>5, <3>3 DEF IInv, CallHolds, FollowsDecision, Deciding
    <3> QED
      BY <1>1, <1>10, <2>1, <3>1, <3>2, <3>3 DEF Job
  <2> QED
    BY <1>9, <2>1 DEF IInv, StoreHolds, Once
<1>18. LedgerHolds'
  <2> SUFFICES ASSUME NEW i \in DOMAIN ledger'
               PROVE  IF ledger'[i].undoes = 0 THEN Truthful(ledger[i])'
                      ELSE IsUndoOf(ledger[i], ledger[i].undoes)'
    BY DEF LedgerHolds
  <2>1. \A x : Truthful(x) => Truthful(x)'
    BY DEF Truthful
  <2>2. \A x, n : IsUndoOf(x, n) => IsUndoOf(x, n)'
    BY <1>6 DEF IsUndoOf, LedgerGrows
  <2>3. CASE i \in DOMAIN ledger
    <3>1. ledger'[i] = ledger[i]
      BY <1>6, <2>3 DEF LedgerGrows
    <3>2. IF ledger[i].undoes = 0 THEN Truthful(ledger[i]) ELSE IsUndoOf(ledger[i], ledger[i].undoes)
      BY <2>3 DEF IInv, StoreHolds, LedgerHolds
    <3> QED
      BY <2>1, <2>2, <3>1, <3>2
  <2>4. CASE i \notin DOMAIN ledger
    <3>1. ledger'[i] = e
      BY <1>8, <2>4
    <3> QED
      BY <1>5, <2>1, <2>2, <3>1
  <2> QED
    BY <2>3, <2>4
<1>19. LedgerIsTrue'
  <2>1. ASSUME NEW i \in DOMAIN ledger', NEW k \in DOMAIN ledger',
               ledger'[i].undoes = 0, ledger'[k].undoes = 0,
               ledger'[k].action = ledger'[i].action
        PROVE  i = k
    <3>1. CASE i \in DOMAIN ledger /\ k \in DOMAIN ledger
      BY <1>6, <2>1, <3>1 DEF IInv, StoreHolds, LedgerIsTrue, LedgerGrows
    <3>2. CASE i \notin DOMAIN ledger \/ k \notin DOMAIN ledger
      BY <1>5, <1>6, <1>8, <2>1, <3>2 DEF HasRecord, LedgerGrows
    <3> QED
      BY <3>1, <3>2
  <2>2. \A i \in DOMAIN ledger' : ledger'[i].undoes = 0 => Truthful(ledger'[i])
    BY <1>18 DEF LedgerHolds, Truthful
  <2> QED
    BY <2>1, <2>2 DEF LedgerIsTrue, Truthful
<1>20. UndoneOnce'
  <2>1. ASSUME NEW i \in DOMAIN ledger', SucceededUndo(i)', NEW k \in ledger'[i].resources
        PROVE  objects[<<ledger'[i].action, k>>] = "deleted"
    <3>1. CASE i \in DOMAIN ledger
      BY <1>6, <2>1, <3>1 DEF IInv, StoreHolds, UndoneOnce, SucceededUndo, LedgerGrows
    <3>2. CASE i \notin DOMAIN ledger
      BY <1>5, <1>8, <2>1, <3>2 DEF SucceededUndo, HoldsUndo
    <3> QED
      BY <3>1, <3>2
  <2>2. ASSUME NEW i \in DOMAIN ledger, SucceededUndo(i), e.undoes # 0, e.outcome = "succeeded"
        PROVE  ledger[i].undoes # e.undoes
    <3>1. Taken(c) # {}
      BY <1>5, <2>2 DEF IsUndoOf
    <3> QED
      BY <1>5, <2>2, <3>1 DEF HoldsUndo
  <2>3. ASSUME NEW i \in DOMAIN ledger', NEW k \in DOMAIN ledger',
               SucceededUndo(i)', SucceededUndo(k)', ledger'[i].undoes = ledger'[k].undoes
        PROVE  i = k
    <3>1. CASE i \in DOMAIN ledger /\ k \in DOMAIN ledger
      BY <1>6, <2>3, <3>1 DEF IInv, StoreHolds, UndoneOnce, SucceededUndo, LedgerGrows
    <3>2. CASE i \notin DOMAIN ledger /\ k \in DOMAIN ledger
      BY <1>6, <1>8, <2>2, <2>3, <3>2 DEF SucceededUndo, LedgerGrows
    <3>3. CASE i \in DOMAIN ledger /\ k \notin DOMAIN ledger
      BY <1>6, <1>8, <2>2, <2>3, <3>3 DEF SucceededUndo, LedgerGrows
    <3>4. CASE i \notin DOMAIN ledger /\ k \notin DOMAIN ledger
      BY <1>8, <3>4
    <3> QED
      BY <3>1, <3>2, <3>3, <3>4
  <2> QED
    BY <2>1, <2>3 DEF UndoneOnce, SucceededUndo
<1> QED
  BY <1>3, <1>7, <1>12, <1>13, <1>15, <1>16, <1>17, <1>18, <1>19, <1>20
  DEF IInv, StoreHolds

LEMMA RecordEntryKeepsIInv ==
  ASSUME IInv, NEW c \in Caller, RecordEntry(c)
  PROVE  IInv'
<1>1. /\ job[c].at = "ledger" /\ Recorded(c)
      /\ UNCHANGED <<tier, version, decision, bySystem, row, objects, execs, failures>>
      /\ ledger' = Append(ledger, job[c].entry) /\ ledgerRows' = Len(ledger')
  BY DEF RecordEntry, At, storeVars
<1>2. Len(ledger') \in Nat /\ failures \in 0..MaxFailures
  BY <1>1, EntryKnows, Appended DEF IInv, TypeOK
<1>3. ledgerRows' \in 0..Len(ledger') /\ failures' \in 0..MaxFailures
  BY <1>1, <1>2
<1> QED
  BY <1>1, <1>3, RecordedKeepsIInv

LEMMA RecordEntryFailsKeepsIInv ==
  ASSUME IInv, NEW c \in Caller, RecordEntryFails(c)
  PROVE  IInv'
<1>1. /\ job[c].at = "ledger" /\ Recorded(c) /\ Fails
      /\ UNCHANGED <<tier, version, decision, bySystem, row, objects, execs, ledgerRows>>
      /\ ledger' \in {ledger, Append(ledger, job[c].entry)}
  BY DEF RecordEntryFails, At, storeVars
<1>2. /\ TypeOK /\ ledger \in Seq(Entry) /\ job[c].entry \in Entry
      /\ ledgerRows \in 0..Len(ledger)
  BY <1>1, EntryKnows DEF IInv, TypeOK
<1>3. Len(ledger') \in {Len(ledger), Len(ledger) + 1} /\ Len(ledger) \in Nat
  BY <1>1, <1>2, Appended
<1>4. ledgerRows' \in 0..Len(ledger') /\ failures' \in 0..MaxFailures
  BY <1>1, <1>2, <1>3, FailsTypes
<1> QED
  BY <1>1, <1>4, RecordedKeepsIInv

-------------------------------------------------------------------------------
\* A call without claims holds what it holds whatever the version is.
LEMMA VersionKept ==
  ASSUME IInv, NEW d \in Caller, job'[d] = job[d], Claims(d) = {},
         job[d].onward = "idle", job[d].at # "record",
         UNCHANGED <<tier, objects, ledger, execs>>
  PROVE  CallHolds(d)' /\ ~Deciding(d)'
<1>1. CallHolds(d)
  BY DEF IInv
<1>2. Claims(d)' = {} /\ Remaining' = Remaining /\ (AutoDecided' <=> AutoDecided)
  BY DEF Claims, Autonomous, Remaining, AutoDecided
<1>3. Rested(d)' /\ ProposesFirst(d)' /\ FollowsDecision(d)' /\ MayDecide(d)'
      /\ NotYetDone(d)' /\ ~Deciding(d)'
  BY <1>1, <1>2
  DEF CallHolds, Rested, ProposesFirst, FollowsDecision, MayDecide, NotYetDone, Deciding
<1>4. \A x : (Truthful(x) <=> Truthful(x)') /\ (HasRecord(x) <=> HasRecord(x)')
  BY DEF Truthful, HasRecord
<1>5. WorkDone(d)' <=> WorkDone(d)
  BY DEF WorkDone
<1>6. HoldsEntry(d)'
  BY <1>1, <1>4, <1>5 DEF CallHolds, HoldsEntry
<1>7. HoldsUndo(d)'
  BY <1>1 DEF CallHolds, HoldsUndo, Undoing, Taken, IsUndoOf, SucceededUndo
<1> QED
  BY <1>3, <1>6, <1>7 DEF CallHolds

\* While the proposal is open, only the proposer has claims.
LEMMA OpenProposal ==
  ASSUME IInv, NEW c \in Caller, version # 2
  PROVE  /\ ~Deciding(c)
         /\ version = 1 \/ c # Proposer =>
              Claims(c) = {} /\ job[c].onward = "idle" /\ job[c].at # "record"
<1>1. job[c].onward \in {"idle", "record"} /\ CallHolds(c)
  BY DEF IInv, TypeOK
<1>2. ~Deciding(c)
  BY <1>1 DEF CallHolds, FollowsDecision
<1> QED
  BY <1>1, <1>2 DEF CallHolds, ProposesFirst, Deciding

\* What the ledger holds does not depend on the version.
LEMMA LedgerKept ==
  ASSUME StoreHolds, UNCHANGED <<objects, ledger, execs>>
  PROVE  LedgerHolds' /\ LedgerIsTrue' /\ UndoneOnce'
<1>1. \A x : Truthful(x) <=> Truthful(x)'
  BY DEF Truthful
<1>2. LedgerHolds'
  BY <1>1 DEF StoreHolds, LedgerHolds, IsUndoOf
<1>3. LedgerIsTrue' /\ UndoneOnce'
  BY DEF StoreHolds, LedgerIsTrue, UndoneOnce
<1> QED
  BY <1>2, <1>3

\* The proposal is recorded: its first loop is over.
LEMMA ProposalRecorded ==
  ASSUME IInv, NEW c \in Caller, job[c].at = "record", version' = 1,
         UNCHANGED <<tier, decision, bySystem, row, objects, ledger, ledgerRows, execs>>,
         failures' \in 0..MaxFailures,
         NEW j \in Job, job' = [job EXCEPT ![c] = j],
         j = IdleJob \/ j = [job[c] EXCEPT !.at = "publish"]
  PROVE  IInv'
<1>1. c = Proposer /\ version = 0 /\ job[c].onward = "idle" /\ TypeOK /\ row \in 0..version
      /\ job[c] \in Job
  BY DEF IInv, TypeOK, Job, CallHolds, ProposesFirst, Looping
<1>2. /\ job' \in [Caller -> Job] /\ job'[c] = j
      /\ \A d \in Caller \ {c} : job'[d] = job[d]
  BY <1>1, JobTypes
<1>3. TypeOK'
  <2>1. row' \in 0..1
    BY <1>1
  <2> QED
    BY <1>1, <1>2, <2>1 DEF TypeOK, Job
<1>4. Autonomous' = Autonomous /\ Remaining' = Remaining /\ (AutoDecided' <=> AutoDecided)
  BY DEF Autonomous, Remaining, AutoDecided
<1>5. CallHolds(c)' /\ ~Deciding(c)' /\ ~Undoing(c)'
  <2>1. CASE j = IdleJob
    BY <1>2, <2>1, IdleHolds
  <2>2. CASE j = [job[c] EXCEPT !.at = "publish"]
    <3>1. /\ job'[c].at = "publish" /\ job'[c].onward = "idle"
          /\ job'[c].system = job[c].system
      BY <1>1, <1>2, <2>2 DEF Job
    <3>2. job[c].system => AutoDecided'
      BY <1>4 DEF IInv, CallHolds, MayDecide
    <3> QED
      BY <3>1, <3>2, WaitingHolds
  <2> QED
    BY <2>1, <2>2
<1>6. ASSUME NEW d \in Caller \ {c} PROVE CallHolds(d)' /\ ~Deciding(d)'
  BY <1>1, <1>2, OpenProposal, VersionKept
<1>7. OneDecides'
  BY <1>5, <1>6 DEF OneDecides
<1>8. UndosApart'
  <2>1. \A d \in Caller \ {c} : (Undoing(d)' <=> Undoing(d)) /\ Taken(d)' = Taken(d)
    BY <1>2 DEF Undoing, Taken
  <2> QED
    BY <1>2, <1>5, <2>1 DEF IInv, UndosApart
<1>9. StoreHolds'
  <2>1. StoreHolds
    BY DEF IInv
  <2>2. DecidesRemaining' /\ Once' /\ OnlyWhenAllowed'
    BY <1>1, <1>4, <2>1 DEF StoreHolds, DecidesRemaining, Once, HasRecord, OnlyWhenAllowed
  <2> QED
    BY <2>1, <2>2, LedgerKept DEF StoreHolds
<1> QED
  BY <1>3, <1>5, <1>6, <1>7, <1>8, <1>9 DEF IInv

\* The one decision is stored: nothing it is about has been done.
LEMMA DecisionStored ==
  ASSUME IInv, NEW c \in Caller, job[c].at = "append", version = 1, StoreDecision(c),
         UNCHANGED <<tier, row, objects, ledger, ledgerRows, execs>>,
         failures' \in 0..MaxFailures,
         NEW j \in Job, job' = [job EXCEPT ![c] = j],
         j = IdleJob \/ j = [job[c] EXCEPT !.at = "refresh"]
  PROVE  IInv'
<1> DEFINE t == job[c].todo
<1>1. /\ TypeOK /\ row \in 0..version /\ job[c] \in Job /\ t \in Seq(Decision)
      /\ version' = 2 /\ decision' = t /\ bySystem' = job[c].system /\ bySystem' \in BOOLEAN
      /\ CallHolds(c)
  BY DEF IInv, TypeOK, Job, StoreDecision
<1>2. /\ job' \in [Caller -> Job] /\ job'[c] = j
      /\ \A d \in Caller \ {c} : job'[d] = job[d]
  BY <1>1, JobTypes
<1>3. TypeOK'
  <2>1. row' \in 0..2
    BY <1>1
  <2> QED
    BY <1>1, <1>2, <2>1 DEF TypeOK, Job
<1>4. Autonomous' = Autonomous /\ Remaining' = Remaining /\ (AutoDecided' <=> AutoDecided)
  BY DEF Autonomous, Remaining, AutoDecided
<1>5. /\ job[c].handled = {} /\ ActionsOf(t) \subseteq Remaining
      /\ (job[c].system => AutoDecided) /\ job[c].onward = "idle"
  BY <1>1, OpenProposal DEF CallHolds, MayDecide
<1>6. StoreHolds
  BY DEF IInv
<1>7. CallHolds(c)' /\ ~Undoing(c)'
  <2>1. CASE j = IdleJob
    BY <1>2, <2>1, IdleHolds
  <2>2. CASE j = [job[c] EXCEPT !.at = "refresh"]
    <3>1. /\ job'[c].at = "refresh" /\ job'[c].onward = "idle" /\ job'[c].todo = t
          /\ job'[c].handled = {} /\ job'[c].system = job[c].system
      BY <1>1, <1>2, <1>5, <2>2 DEF Job
    <3>2. Claims(c)' = ActionsOf(t)
      BY <3>1 DEF Claims, Carrying
    <3>3. PartWay(t, t, {})
      <4>1. SubSeq(t, 0 + 1, Len(t)) = t /\ 0 \in 0..Len(t)
        BY <1>1
      <4>2. {t[i].action : i \in 1..0} = {}
        OBVIOUS
      <4> QED
        BY <4>1, <4>2 DEF PartWay
    <3>4. FollowsDecision(c)'
      BY <1>1, <3>1, <3>3 DEF FollowsDecision
    <3>5. NotYetDone(c)'
      <4> SUFFICES ASSUME NEW a \in ActionsOf(t) PROVE execs[a] = 0 /\ ~HasRecord(a)
        BY <3>2 DEF NotYetDone, HasRecord
      <4>1. a \in Action /\ a \notin Autonomous /\ execs[a] \in Nat
        BY <1>1, <1>5 DEF Remaining, TypeOK
      <4> QED
        BY <1>6, <4>1 DEF StoreHolds, OnlyWhenAllowed, Once
    <3> QED
      BY <1>4, <1>5, <3>1, <3>4, <3>5
      DEF CallHolds, Rested, ProposesFirst, MayDecide, HoldsEntry, HoldsUndo, Undoing
  <2> QED
    BY <2>1, <2>2
<1>8. ASSUME NEW d \in Caller \ {c} PROVE CallHolds(d)' /\ ~Deciding(d)'
  BY <1>2, OpenProposal, VersionKept
<1>9. OneDecides'
  BY <1>8 DEF OneDecides
<1>10. UndosApart'
  <2>1. \A d \in Caller \ {c} : (Undoing(d)' <=> Undoing(d)) /\ Taken(d)' = Taken(d)
    BY <1>2 DEF Undoing, Taken
  <2> QED
    BY <1>2, <1>7, <2>1 DEF IInv, UndosApart
<1>11. StoreHolds'
  <2>1. DecidesRemaining'
    BY <1>1, <1>4, <1>5 DEF DecidesRemaining
  <2>2. Once' /\ OnlyWhenAllowed'
    BY <1>1, <1>4, <1>6 DEF StoreHolds, Once, HasRecord, OnlyWhenAllowed
  <2> QED
    BY <1>6, <2>1, <2>2, LedgerKept DEF StoreHolds
<1> QED
  BY <1>3, <1>7, <1>8, <1>9, <1>10, <1>11 DEF IInv

LEMMA RecordProposalKeepsIInv ==
  ASSUME IInv, NEW c \in Caller, RecordProposal(c)
  PROVE  IInv'
<1> DEFINE j == [job[c] EXCEPT !.at = "publish"]
<1>1. /\ job[c].at = "record" /\ version' = 1 /\ job' = [job EXCEPT ![c] = j]
      /\ UNCHANGED <<tier, decision, bySystem, row, objects, ledger, ledgerRows, execs, failures>>
  BY DEF RecordProposal, At, ledgerVars
<1>2. j \in Job /\ failures \in 0..MaxFailures
  BY DEF IInv, TypeOK, Job
<1> QED
  BY <1>1, <1>2, ProposalRecorded

\* The version check: the decision is stored, or the call ends.
LEMMA AppendDecisionKeepsIInv ==
  ASSUME IInv, NEW c \in Caller, AppendDecision(c)
  PROVE  IInv'
<1> DEFINE j == [job[c] EXCEPT !.at = "refresh"]
<1>1. /\ job[c].at = "append"
      /\ UNCHANGED <<tier, row, objects, ledger, ledgerRows, execs, failures>>
  BY DEF AppendDecision, At, ledgerVars
<1>2. j \in Job /\ failures \in 0..MaxFailures
  BY DEF IInv, TypeOK, Job
<1>3. CASE version = 1
  <2>1. StoreDecision(c) /\ job' = [job EXCEPT ![c] = j]
    BY <1>3 DEF AppendDecision
  <2> QED
    BY <1>1, <1>2, <1>3, <2>1, DecisionStored
<1>4. CASE version # 1
  <2>1. UNCHANGED <<version, decision, bySystem>> /\ Return(c)
    BY <1>4 DEF AppendDecision
  <2> QED
    BY <1>1, <1>2, <2>1, ReturnKeepsIInv DEF SameStore
<1> QED
  BY <1>3, <1>4

\* An append may have taken effect although the call is lost.
LEMMA CallFailsKeepsIInv ==
  ASSUME IInv, NEW c \in Caller, CallFails(c)
  PROVE  IInv'
<1>1. /\ Fails /\ Return(c) /\ job' = [job EXCEPT ![c] = IdleJob]
      /\ UNCHANGED <<tier, row, objects, ledger, ledgerRows, execs>>
  BY DEF CallFails, Return, ledgerVars
<1>2. failures' \in 0..MaxFailures
  BY <1>1, FailsTypes DEF IInv
<1>3. CASE UNCHANGED <<version, decision, bySystem>>
  BY <1>1, <1>2, <1>3, ReturnKeepsIInv DEF SameStore
<1>4. CASE At(c, "record") /\ version' = 1 /\ UNCHANGED <<decision, bySystem>>
  BY <1>1, <1>2, <1>4, IdleIsJob, ProposalRecorded DEF At
<1>5. CASE At(c, "append") /\ version = 1 /\ StoreDecision(c)
  BY <1>1, <1>2, <1>5, IdleIsJob, DecisionStored DEF At
<1> QED
  BY <1>3, <1>4, <1>5 DEF CallFails

\* A step of no call: the store's history and every call's locals stay.
LEMMA OutsideStep ==
  ASSUME IInv, TypeOK', SameStore, job' = job, ObjectsGo({})
  PROVE  IInv'
<1>1. \A c \in Caller : CallHolds(c)'
  BY CallKept
<1>2. StoreHolds'
  BY StoreKept
<1>3. OneDecides' /\ UndosApart'
  BY DEF IInv, OneDecides, UndosApart, Deciding, Claims, Undoing, Taken
<1> QED
  BY <1>1, <1>2, <1>3 DEF IInv

LEMMA DeleteByHandKeepsIInv ==
  ASSUME IInv, NEW t \in Task, DeleteByHand(t)
  PROVE  IInv'
<1>1. /\ SameStore /\ UNCHANGED <<row, ledgerRows, job, failures>>
      /\ objects[t] = "live" /\ objects' = [objects EXCEPT ![t] = "deleted"]
  BY DEF DeleteByHand, SameStore, storeVars, ledgerVars
<1>2. TypeOK /\ objects \in [Task -> {"none", "live", "deleted"}]
  BY DEF IInv, TypeOK
<1>3. objects' \in [Task -> {"none", "live", "deleted"}]
  BY <1>1, <1>2
<1>4. TypeOK'
  BY <1>1, <1>2, <1>3 DEF TypeOK, SameStore
<1>5. ObjectsGo({})
  BY <1>1, <1>2, TasksOf DEF ObjectsGo
<1> QED
  BY <1>1, <1>4, <1>5, OutsideStep

LEMMA CatchUpKeepsIInv ==
  ASSUME IInv, CatchUpElsewhere
  PROVE  IInv'
<1>1. /\ SameStore /\ UNCHANGED <<job, objects, failures>>
      /\ row' = version /\ ledgerRows' = Len(ledger)
  BY DEF CatchUpElsewhere, SameStore
<1>2. TypeOK /\ version \in 0..2 /\ ledger \in Seq(Entry)
  BY DEF IInv, TypeOK
<1>3. row' \in 0..version /\ ledgerRows' \in 0..Len(ledger)
  BY <1>1, <1>2
<1>4. TypeOK'
  BY <1>1, <1>2, <1>3 DEF TypeOK, SameStore
<1> QED
  BY <1>1, <1>4, NoObjects, OutsideStep

\* After a crash nobody holds anything.
LEMMA CrashKeepsIInv ==
  ASSUME IInv, Crash
  PROVE  IInv'
<1>1. /\ SameStore /\ UNCHANGED <<row, ledgerRows, objects>> /\ Fails
      /\ job' = [c \in Caller |-> IdleJob]
  BY DEF Crash, SameStore, storeVars, ledgerVars
<1>2. failures' \in 0..MaxFailures /\ TypeOK
  BY <1>1, FailsTypes DEF IInv
<1>3. job' \in [Caller -> Job]
  BY <1>1, IdleIsJob
<1>4. TypeOK'
  BY <1>1, <1>2, <1>3 DEF TypeOK, SameStore, Job
<1>5. \A c \in Caller : CallHolds(c)' /\ ~Deciding(c)' /\ ~Undoing(c)'
  BY <1>1, IdleHolds
<1>6. StoreHolds'
  BY <1>1, NoObjects, StoreKept
<1> QED
  BY <1>4, <1>5, <1>6 DEF IInv, OneDecides, UndosApart

-------------------------------------------------------------------------------
\* Only the proposer has started, with the autonomous actions before it.
LEMMA InitIInv == Init => IInv
<1> SUFFICES ASSUME Init PROVE IInv
  OBVIOUS
<1>1. PICK d \in Decisions :
        /\ Approves(d, Autonomous)
        /\ job = [c \in Caller |->
                    IF c = Proposer
                      THEN [IdleJob EXCEPT !.at = "next", !.todo = d, !.onward = "record"]
                      ELSE IdleJob]
  BY DEF Init
<1> DEFINE j == [IdleJob EXCEPT !.at = "next", !.todo = d, !.onward = "record"]
<1>2. j \in Job /\ d \in Seq(Decision)
  BY IdleIsJob, ActionAssumption DEF Job
<1>3. job \in [Caller -> Job]
  BY <1>1, <1>2, IdleIsJob
<1>4. /\ tier \in [Action -> Tier] /\ version = 0 /\ decision = <<>> /\ bySystem = FALSE
      /\ row = 0 /\ ledger = <<>> /\ ledgerRows = 0 /\ failures = 0
      /\ objects = [t \in Task |-> "none"] /\ execs = [a \in Action |-> 0]
  BY DEF Init
<1>5. TypeOK
  <2>1. /\ decision \in Seq(Decision) /\ ledger \in Seq(Entry) /\ Len(ledger) = 0
        /\ failures \in 0..MaxFailures
    BY <1>4, ActionAssumption
  <2>2. objects \in [Task -> {"none", "live", "deleted"}] /\ execs \in [Action -> Nat]
    BY <1>4
  <2>3. version \in 0..2 /\ row \in 0..version /\ ledgerRows \in 0..Len(ledger)
    BY <1>4, <2>1
  <2>4. tier \in [Action -> Tier] /\ bySystem \in BOOLEAN
    BY <1>4
  <2> QED
    BY <1>3, <2>1, <2>2, <2>3, <2>4 DEF TypeOK, Job
<1>6. \A a : ~HasRecord(a)
  BY <1>4 DEF HasRecord
<1>7. CallHolds(Proposer)
  <2>1. /\ job[Proposer].at = "next" /\ job[Proposer].todo = d /\ job[Proposer].handled = {}
        /\ job[Proposer].onward = "record" /\ job[Proposer].system = FALSE
    BY <1>1, ActionAssumption DEF IdleJob
  <2>2. Claims(Proposer) = Autonomous
    BY <1>1, <2>1 DEF Claims, Carrying, Looping, ActionsOf, Approves
  <2>3. NotYetDone(Proposer)
    BY <1>4, <1>6, <2>2 DEF NotYetDone, Autonomous
  <2> QED
    BY <1>4, <2>1, <2>2, <2>3
    DEF CallHolds, Rested, ProposesFirst, FollowsDecision, Deciding, MayDecide, HoldsEntry,
        HoldsUndo, Undoing, Looping
<1>8. ASSUME NEW c \in Caller \ {Proposer}
      PROVE  CallHolds(c) /\ ~Deciding(c) /\ ~Undoing(c)
  <2>1. job[c] = IdleJob
    BY <1>1
  <2>2. /\ job[c].at = "idle" /\ job[c].onward = "idle" /\ job[c].system = FALSE
    BY <2>1 DEF IdleJob
  <2>3. Claims(c) = {}
    BY <2>2 DEF Claims, Carrying, Looping
  <2> QED
    BY <2>1, <2>2, <2>3
    DEF CallHolds, Rested, ProposesFirst, FollowsDecision, MayDecide, NotYetDone, HoldsEntry,
        HoldsUndo, Deciding, Undoing
<1>9. OneDecides /\ UndosApart
  BY <1>8 DEF OneDecides, UndosApart
<1>10. StoreHolds
  <2>1. \A a \in Action : execs[a] = 0 /\ \A k \in 1..Titles[a] : objects[<<a, k>>] = "none"
    BY <1>4, TasksOf
  <2>2. Once /\ OnlyWhenAllowed /\ DecidesRemaining
    BY <1>4, <1>6, <2>1 DEF Once, OnlyWhenAllowed, DecidesRemaining
  <2>3. DOMAIN ledger = {}
    BY <1>4
  <2> QED
    BY <2>2, <2>3 DEF StoreHolds, LedgerHolds, LedgerIsTrue, UndoneOnce
<1> QED
  BY <1>5, <1>7, <1>8, <1>9, <1>10 DEF IInv

\* Every step keeps it.
LEMMA NextKeepsIInv == IInv /\ [Next]_vars => IInv'
<1> SUFFICES ASSUME IInv, [Next]_vars PROVE IInv'
  OBVIOUS
<1>1. ASSUME NEW c \in Caller, CallStep(c) PROVE IInv'
  <2>1. CASE EndLoop(c) \/ SkipDuplicate(c) \/ Reject(c) \/ Dispatch(c)
    BY <2>1, EndLoopKeepsIInv, SkipDuplicateKeepsIInv, RejectKeepsIInv, DispatchKeepsIInv
  <2>2. CASE CreateTask(c) \/ Relate(c) \/ Executed(c) \/ RecordEntry(c)
    BY <2>2, CreateTaskKeepsIInv, RelateKeepsIInv, ExecutedKeepsIInv, RecordEntryKeepsIInv
  <2>3. CASE RecordProposal(c) \/ PublishProposal(c) \/ ReadProposal(c)
    BY <2>3, RecordProposalKeepsIInv, PublishKeepsIInv, ReadProposalKeepsIInv
  <2>4. CASE AppendDecision(c) \/ RefreshRow(c)
    BY <2>4, AppendDecisionKeepsIInv, RefreshRowKeepsIInv
  <2>5. CASE LookupUndo(c) \/ SoftDelete(c) \/ Undone(c)
    BY <2>5, LookupUndoKeepsIInv, SoftDeleteKeepsIInv, UndoneKeepsIInv
  <2> QED
    BY <1>1, <2>1, <2>2, <2>3, <2>4, <2>5 DEF CallStep
<1>2. ASSUME NEW c \in Caller, Disturbed(c) PROVE IInv'
  BY <1>2, ExecuteFailsKeepsIInv, RecordEntryFailsKeepsIInv, CallFailsKeepsIInv,
     SoftDeleteFailsKeepsIInv DEF Disturbed
<1>3. CASE \E c \in Caller, d \in Decisions : StartDecide(c, d)
  BY <1>3, StartDecideKeepsIInv
<1>4. CASE \E c \in Caller, i \in DOMAIN ledger : StartUndo(c, i)
  BY <1>4, StartUndoKeepsIInv
<1>5. CASE \E t \in Task : DeleteByHand(t)
  BY <1>5, DeleteByHandKeepsIInv
<1>6. CASE CatchUpElsewhere \/ Crash
  BY <1>6, CatchUpKeepsIInv, CrashKeepsIInv
<1>7. CASE UNCHANGED vars
  <2>1. SameStore /\ UNCHANGED <<row, ledgerRows, objects, job, failures>>
    BY <1>7 DEF vars, storeVars, ledgerVars, SameStore
  <2>2. TypeOK'
    BY <2>1 DEF IInv, TypeOK, SameStore
  <2> QED
    BY <2>1, <2>2, NoObjects, OutsideStep
<1> QED
  BY <1>1, <1>2, <1>3, <1>4, <1>5, <1>6, <1>7 DEF Next

\* The invariant is inductive: it holds in every reachable state, for every set
\* of actions, decisions and callers, and any number of failures.
THEOREM Inductive == Spec => []IInv
<1>1. Init => IInv
  BY InitIInv
<1>2. IInv /\ [Next]_vars => IInv'
  BY NextKeepsIInv
<1> QED
  BY <1>1, <1>2, PTL DEF Spec

\* The locals of a call and the store are of their types.
THEOREM TypesHold == Spec => []TypeOK
<1>1. IInv => TypeOK
  BY DEF IInv
<1> QED
  BY <1>1, Inductive, PTL

\* An action is carried out only if its tier exempts it or the recorded decision
\* approves it, and of tier "propose" only if a human decided (propose, decide,
\* decideAsSystem).
THEOREM AllowedOnly == Spec => []OnlyWhenAllowed
<1>1. IInv => OnlyWhenAllowed
  BY DEF IInv, StoreHolds
<1> QED
  BY <1>1, Inductive, PTL

\* The ledger has one record of an action, and what it says was done was done
\* (recordLedgerEntry after each executor).
THEOREM LedgerTrue == Spec => []LedgerIsTrue
<1>1. IInv => LedgerIsTrue
  BY DEF IInv, StoreHolds
<1> QED
  BY <1>1, Inductive, PTL

\* Racing undos of a record: one succeeds at most, and leaves none of its tasks
\* (undoAction).
THEOREM OneUndoSucceeds == Spec => []UndoneOnce
<1>1. IInv => UndoneOnce
  BY DEF IInv, StoreHolds
<1> QED
  BY <1>1, Inductive, PTL

-------------------------------------------------------------------------------
\* The part of the store the contract is about.
SameContract == UNCHANGED <<tier, decision, execs>> /\ (version' = 2 <=> version = 2)

LEMMA SameContractStutters == SameContract => UNCHANGED Contract!contractVars
BY DEF SameContract, Contract!contractVars, Autonomous, Verdict

\* The initial states map to initial states.
LEMMA ContractInit == Init => Contract!Init
<1> SUFFICES ASSUME Init PROVE Contract!Init
  OBVIOUS
<1>1. decision = <<>> /\ version = 0 /\ execs = [a \in Action |-> 0]
  BY DEF Init
<1>2. \A a, v : ~Verdict(decision, a, v)
  BY <1>1 DEF Verdict
<1> QED
  BY <1>1, <1>2 DEF Contract!Init, Autonomous

\* Storing the decision is deciding.
LEMMA ContractDecides ==
  ASSUME version = 1, version' = 2, UNCHANGED <<tier, execs>>
  PROVE  Contract!Decide
<1>1. Autonomous' = Autonomous
  BY DEF Autonomous
<1> QED
  BY <1>1 DEF Contract!Decide

\* Dispatching an action is carrying it out.
LEMMA ContractCarriesOut ==
  ASSUME IInv, NEW c \in Caller, Dispatch(c)
  PROVE  \E a \in Action : Contract!CarryOut(a)
<1> DEFINE a == First(c).action
<1>1. /\ NextIs(c) /\ ~AlreadyHandled(c) /\ First(c).verdict = "approved"
      /\ execs' = [execs EXCEPT ![a] = execs[a] + 1]
      /\ UNCHANGED <<tier, version, decision>>
  BY DEF Dispatch, storeVars
<1>2. a \in Action /\ execs[a] = 0 /\ (a \in Autonomous \/ Verdict(decision, a, "approved"))
  BY <1>1, MayCarryOut
<1>3. execs' = [execs EXCEPT ![a] = 1]
  BY <1>1, <1>2
<1> DEFINE verdicts == [b \in Action |->
                          CASE Verdict(decision, b, "approved") -> "approved"
                            [] Verdict(decision, b, "rejected") -> "rejected"
                            [] OTHER -> "none"]
<1>4. Contract!CarryOut(a)
  <2>1. Autonomous' = Autonomous /\ verdicts' = verdicts
    BY <1>1 DEF Autonomous, Verdict
  <2>2. a \in Autonomous \/ verdicts[a] = "approved"
    <3>1. verdicts[a] = CASE Verdict(decision, a, "approved") -> "approved"
                          [] Verdict(decision, a, "rejected") -> "rejected"
                          [] OTHER -> "none"
      BY <1>2
    <3>2. ~(Verdict(decision, a, "approved") /\ Verdict(decision, a, "rejected"))
      <4> SUFFICES ASSUME NEW i \in DOMAIN decision, NEW k \in DOMAIN decision,
                          decision[i] = [action |-> a, verdict |-> "approved"],
                          decision[k] = [action |-> a, verdict |-> "rejected"],
                          \A n \in 1..(i - 1) : decision[n].action # a,
                          \A n \in 1..(k - 1) : decision[n].action # a
                   PROVE  FALSE
        BY DEF Verdict
      <4>1. DOMAIN decision = 1..Len(decision) /\ Len(decision) \in Nat
        BY DEF IInv, TypeOK
      <4>2. i = k \/ i \in 1..(k - 1) \/ k \in 1..(i - 1)
        BY <4>1
      <4>3. decision[i].action = a /\ decision[k].action = a /\ decision[i].verdict # decision[k].verdict
        OBVIOUS
      <4> QED
        BY <4>2, <4>3
    <3> QED
      BY <1>2, <3>1, <3>2
  <2>3. (version = 2)' <=> (version = 2)
    BY <1>1
  <2> QED
    BY <1>2, <1>3, <2>1, <2>2, <2>3 DEF Contract!CarryOut
<1> QED
  BY <1>2, <1>4

\* Every step is a step of the contract or invisible to it.
LEMMA ContractNext == IInv /\ [Next]_vars => [Contract!Next]_(Contract!contractVars)
<1> SUFFICES ASSUME IInv, [Next]_vars
             PROVE  Contract!Next \/ SameContract
  BY SameContractStutters
<1>1. ASSUME NEW c \in Caller, CallStep(c) PROVE Contract!Next \/ SameContract
  <2>1. CASE EndLoop(c) \/ SkipDuplicate(c) \/ Reject(c) \/ CreateTask(c) \/ Relate(c)
             \/ Executed(c) \/ RecordEntry(c)
    BY <2>1 DEF EndLoop, SkipDuplicate, Reject, CreateTask, Relate, Executed, RecordEntry,
                storeVars, SameContract
  <2>2. CASE PublishProposal(c) \/ ReadProposal(c) \/ RefreshRow(c)
    BY <2>2 DEF PublishProposal, ReadProposal, RefreshRow, storeVars, SameContract
  <2>3. CASE LookupUndo(c) \/ SoftDelete(c) \/ Undone(c)
    BY <2>3 DEF LookupUndo, SoftDelete, Undone, storeVars, SameContract
  <2>4. CASE Dispatch(c)
    BY <2>4, ContractCarriesOut DEF Contract!Next
  <2>5. CASE RecordProposal(c)
    <3>1. version = 0
      BY <2>5 DEF RecordProposal, At, IInv, CallHolds, ProposesFirst
    <3> QED
      BY <2>5, <3>1 DEF RecordProposal, SameContract
  <2>6. CASE AppendDecision(c)
    <3>1. CASE version = 1
      BY <2>6, <3>1, ContractDecides DEF AppendDecision, StoreDecision, Contract!Next
    <3>2. CASE version # 1
      BY <2>6, <3>2 DEF AppendDecision, SameContract
    <3> QED
      BY <3>1, <3>2
  <2> QED
    BY <1>1, <2>1, <2>2, <2>3, <2>4, <2>5, <2>6 DEF CallStep
<1>2. ASSUME NEW c \in Caller, Disturbed(c) PROVE Contract!Next \/ SameContract
  <2>1. CASE ExecuteFails(c) \/ RecordEntryFails(c) \/ SoftDeleteFails(c)
    BY <2>1 DEF ExecuteFails, Thrown, RecordEntryFails, SoftDeleteFails, storeVars, SameContract
  <2>2. CASE CallFails(c)
    <3>1. UNCHANGED <<tier, execs>>
      BY <2>2 DEF CallFails
    <3>2. CASE UNCHANGED <<version, decision, bySystem>>
      BY <3>1, <3>2 DEF SameContract
    <3>3. CASE At(c, "record") /\ version' = 1 /\ UNCHANGED <<decision, bySystem>>
      <4>1. version = 0
        BY <3>3 DEF At, IInv, CallHolds, ProposesFirst
      <4> QED
        BY <3>1, <3>3, <4>1 DEF SameContract
    <3>4. CASE At(c, "append") /\ version = 1 /\ StoreDecision(c)
      BY <3>1, <3>4, ContractDecides DEF StoreDecision, Contract!Next
    <3> QED
      BY <2>2, <3>2, <3>3, <3>4 DEF CallFails
  <2> QED
    BY <1>2, <2>1, <2>2 DEF Disturbed
<1>3. CASE \E c \in Caller, d \in Decisions : StartDecide(c, d)
  BY <1>3 DEF StartDecide, storeVars, SameContract
<1>4. CASE \E c \in Caller, i \in DOMAIN ledger : StartUndo(c, i)
  BY <1>4 DEF StartUndo, storeVars, SameContract
<1>5. CASE (\E t \in Task : DeleteByHand(t)) \/ CatchUpElsewhere \/ Crash
  BY <1>5 DEF DeleteByHand, CatchUpElsewhere, Crash, storeVars, SameContract
<1>6. CASE UNCHANGED vars
  BY <1>6 DEF vars, storeVars, SameContract
<1> QED
  BY <1>1, <1>2, <1>3, <1>4, <1>5, <1>6 DEF Next

\* The service keeps the contract: a set of actions is decided once, and an action
\* is carried out at most once, approved or exempt.
THEOREM KeepsTheContract == Spec => ImplementsContract
<1>1. Init => Contract!Init
  BY ContractInit
<1>2. IInv /\ [Next]_vars => [Contract!Next]_(Contract!contractVars)
  BY ContractNext
<1> QED
  BY <1>1, <1>2, Inductive, PTL DEF Spec, ImplementsContract, Contract!Spec

-------------------------------------------------------------------------------
(***************************************************************************)
(* Conversations in which actions are proposed (DirectMessages).           *)
(***************************************************************************)
CONSTANTS MaxEvents, MaxNow, MaxMishaps

VARIABLES log, shown, request, now, proposals, mishaps

T == INSTANCE DirectMessages

TextMessage == [of : Nat, proposal : BOOLEAN, time : Nat]

Sends ==
  [at : {"idle"}]
    \union [at : {"read"}, of : Nat, proposal : BOOLEAN, version : Nat]
    \union [at : {"append"}, version : Nat, message : TextMessage]
    \union [at : {"catch up"}, of : Nat, message : Nat]
    \union [at : {"propose"}, of : Nat]
    \union [at : {"reply"}, of : Nat, proposal : BOOLEAN]

\* The message of the user that a request is to answer, or 0.
Answering(q) ==
  CASE q.at = "catch up" /\ q.of = 0 -> q.message
    [] q.at \in {"propose", "reply", "read"} -> q.of
    [] q.at = "append" -> q.message.of
    [] OTHER -> 0

\* What a request knows of the conversation: the message it is to answer is there
\* and has no reply; whether a proposal was made of it; how much of the stream its
\* version covers, and that what is covered is not stamped later than its message.
Following(q, texts, told, clock) ==
  /\ q \in Sends
  /\ Answering(q) # 0 =>
       /\ Answering(q) \in 1..Len(texts)
       /\ texts[Answering(q)].of = 0
       /\ \A j \in 1..Len(texts) : texts[j].of # Answering(q)
  /\ q.at \in {"propose", "reply"} => q.of # 0
  /\ q.at = "catch up" /\ q.of = 0 => q.message # 0
  /\ q.at \in {"catch up", "propose"} => Answering(q) \notin told
  /\ q.at \in {"read", "reply"} /\ q.of # 0 => (q.proposal <=> q.of \in told)
  /\ q.at = "append" /\ q.message.of # 0 => (q.message.proposal <=> q.message.of \in told)
  /\ q.at \in {"read", "append"} => Answering(q) <= q.version /\ q.version <= Len(texts)
  /\ q.at = "append" =>
       /\ q.message.time <= clock
       /\ \A i \in 1..q.version : texts[i].time <= q.message.time

\* The conversation: stamped in order and not in the future, one reply to a message.
Orderly(texts, told, clock) ==
  /\ texts \in Seq(TextMessage)
  /\ told \subseteq 1..Len(texts)
  /\ \A i \in 1..Len(texts) : texts[i].time <= clock
  /\ \A i, j \in 1..Len(texts) : i < j => texts[i].time <= texts[j].time
  /\ \A j \in 1..Len(texts) : texts[j].of # 0 =>
       /\ texts[j].of < j /\ texts[texts[j].of].of = 0
       /\ texts[j].proposal <=> texts[j].of \in told
       /\ \A k \in 1..Len(texts) : texts[k].of = texts[j].of => k = j

\* No message is answered by two requests.
OneAnswers ==
  \A c, d \in Caller : c # d /\ Answering(request[c]) # 0 =>
    Answering(request[c]) # Answering(request[d])

\* A proposal made of the last message is about to be told, or something failed.
LastIsTold ==
  \A i \in proposals : i = Len(log) =>
    mishaps >= 1 \/ \E c \in Caller : Answering(request[c]) = i

TalkInv ==
  /\ Orderly(log, proposals, now)
  /\ now \in Nat /\ mishaps \in Nat
  /\ DOMAIN request = Caller
  /\ \A c \in Caller : Following(request[c], log, proposals, now)
  /\ OneAnswers
  /\ LastIsTold

-------------------------------------------------------------------------------
LEMMA IdleFollows ==
  ASSUME NEW texts, NEW told, NEW clock, 0 \notin told
  PROVE  Following([at |-> "idle"], texts, told, clock) /\ Answering([at |-> "idle"]) = 0
BY DEF Following, Answering, Sends

LEMMA TalkStarts == T!Init => TalkInv
<1> SUFFICES ASSUME T!Init PROVE TalkInv
  OBVIOUS
<1>1. ASSUME NEW c \in Caller
      PROVE  Following(request[c], log, proposals, now) /\ Answering(request[c]) = 0
  <2>1. request[c] = [at |-> "idle"] /\ proposals = {}
    BY DEF T!Init, T!Idle
  <2> QED
    BY <2>1, IdleFollows
<1>2. Orderly(log, proposals, now)
  BY DEF T!Init, Orderly
<1> QED
  BY <1>1, <1>2 DEF T!Init, TalkInv, OneAnswers, LastIsTold

LEMMA NoneIsNaught ==
  ASSUME NEW texts, NEW told, NEW clock, Orderly(texts, told, clock)
  PROVE  0 \notin told /\ Len(texts) \in Nat /\ told \subseteq Nat
BY DEF Orderly

\* A request goes on, with the same message to answer or with none, and leaves the
\* conversation alone.
LEMMA RequestGoesOn ==
  ASSUME TalkInv, NEW c \in Caller, NEW q, T!Go(c, q),
         UNCHANGED <<log, now, proposals>>, mishaps' \in Nat, mishaps' >= mishaps,
         Following(q, log, proposals, now),
         \/ Answering(q) = Answering(request[c])
         \/ Answering(q) = 0 /\ (mishaps' >= 1 \/ Answering(request[c]) # Len(log)
                                   \/ Answering(request[c]) \notin proposals)
  PROVE  TalkInv'
<1>1. /\ DOMAIN request' = Caller /\ request'[c] = q
      /\ \A d \in Caller : d # c => request'[d] = request[d]
  BY DEF TalkInv, T!Go
<1>2. \A d \in Caller : Following(request'[d], log', proposals', now')
  <2> TAKE d \in Caller
  <2>1. Following(request'[d], log, proposals, now)
    BY <1>1 DEF TalkInv
  <2> QED
    BY <2>1
<1>3. OneAnswers'
  <2> SUFFICES ASSUME NEW d \in Caller, NEW e \in Caller, d # e, Answering(request'[d]) # 0
               PROVE  Answering(request'[d]) # Answering(request'[e])
    BY DEF OneAnswers
  <2>1. OneAnswers
    BY DEF TalkInv
  <2>2. \A f \in Caller : Answering(request'[f]) \in {0, Answering(request[f])}
    <3> TAKE f \in Caller
    <3>1. CASE f = c
      BY <1>1, <3>1
    <3>2. CASE f # c
      BY <1>1, <3>2
    <3> QED
      BY <3>1, <3>2
  <2> QED
    BY <2>1, <2>2 DEF OneAnswers
<1>4. LastIsTold'
  <2> SUFFICES ASSUME NEW i \in proposals, i = Len(log), ~(mishaps' >= 1)
               PROVE  \E d \in Caller : Answering(request'[d]) = i
    BY DEF LastIsTold
  <2>1. ~(mishaps >= 1)
    BY DEF TalkInv
  <2>2. PICK d \in Caller : Answering(request[d]) = i
    BY <2>1 DEF TalkInv, LastIsTold
  <2>3. CASE d = c
    <3>1. Answering(q) = Answering(request[c])
      BY <2>2, <2>3
    <3> QED
      BY <1>1, <2>2, <2>3, <3>1
  <2>4. CASE d # c
    <3>1. request'[d] = request[d]
      BY <1>1, <2>4
    <3> QED
      BY <2>2, <3>1
  <2> QED
    BY <2>3, <2>4
<1>5. Orderly(log', proposals', now') /\ now' \in Nat
  BY DEF TalkInv
<1> QED
  BY <1>1, <1>2, <1>3, <1>4, <1>5 DEF TalkInv

LEMMA SendKeepsTalk ==
  ASSUME TalkInv, NEW c \in Caller, T!Send(c)
  PROVE  TalkInv'
<1>0. PICK q : q = [at |-> "read", of |-> 0, proposal |-> FALSE, version |-> Len(log)]
  OBVIOUS
<1>1. T!Go(c, q) /\ request[c].at = "idle" /\ UNCHANGED <<log, now, proposals, mishaps>>
  BY <1>0 DEF T!Send, T!ReadStream
<1>2. Len(log) \in Nat
  BY NoneIsNaught DEF TalkInv
<1>3. Following(q, log, proposals, now) /\ Answering(q) = 0
  <2>1. q \in Sends /\ q.at = "read" /\ q.of = 0 /\ q.version = Len(log)
    BY <1>0, <1>2 DEF Sends
  <2>2. Answering(q) = 0
    BY <2>1 DEF Answering
  <2> QED
    BY <1>2, <2>1, <2>2 DEF Following
<1>4. Answering(request[c]) = 0
  BY <1>1 DEF Answering
<1> QED
  BY <1>1, <1>3, <1>4, RequestGoesOn DEF TalkInv

LEMMA ReplyKeepsTalk ==
  ASSUME TalkInv, NEW c \in Caller, T!Reply(c)
  PROVE  TalkInv'
<1>1. PICK r \in Sends : r = request[c] /\ r.at = "reply" /\ Following(r, log, proposals, now)
  BY DEF TalkInv, Following, T!Reply
<1>2. r.of \in Nat /\ r.proposal \in BOOLEAN
  BY <1>1 DEF Sends
<1>3. PICK q : q = [at |-> "read", of |-> r.of, proposal |-> r.proposal, version |-> Len(log)]
  OBVIOUS
<1>4. T!Go(c, q) /\ UNCHANGED <<log, now, proposals, mishaps>>
  BY <1>1, <1>3 DEF T!Reply, T!ReadStream
<1>5. Len(log) \in Nat
  BY NoneIsNaught DEF TalkInv
<1>6. Answering(r) = r.of /\ Answering(q) = r.of
  BY <1>1, <1>3 DEF Answering
<1>7. q \in Sends /\ q.at = "read" /\ q.of = r.of /\ q.proposal = r.proposal /\ q.version = Len(log)
  BY <1>2, <1>3, <1>5 DEF Sends
<1>8. Following(q, log, proposals, now)
  BY <1>1, <1>2, <1>5, <1>6, <1>7 DEF Following
<1> QED
  BY <1>1, <1>4, <1>6, <1>8, RequestGoesOn DEF TalkInv

LEMMA TakeTimeKeepsTalk ==
  ASSUME TalkInv, NEW c \in Caller, T!TakeTime(c)
  PROVE  TalkInv'
<1>1. PICK r \in Sends : r = request[c] /\ r.at = "read" /\ Following(r, log, proposals, now)
  BY DEF TalkInv, Following, T!TakeTime
<1>2. r.of \in Nat /\ r.proposal \in BOOLEAN /\ r.version \in Nat
  BY <1>1 DEF Sends
<1>3. PICK m : m = [of |-> r.of, proposal |-> r.proposal, time |-> now]
  OBVIOUS
<1>4. m \in TextMessage /\ m.of = r.of /\ m.proposal = r.proposal /\ m.time = now
  BY <1>2, <1>3 DEF TextMessage, TalkInv
<1>5. PICK q : q = [at |-> "append", version |-> r.version, message |-> m]
  OBVIOUS
<1>6. T!Go(c, q) /\ UNCHANGED <<log, now, proposals, mishaps>>
  BY <1>1, <1>3, <1>5 DEF T!TakeTime
<1>7. Answering(r) = r.of /\ Answering(q) = r.of
  BY <1>1, <1>4, <1>5 DEF Answering
<1>8. q \in Sends /\ q.at = "append" /\ q.message = m /\ q.version = r.version
  BY <1>2, <1>4, <1>5 DEF Sends
<1>9. \A i \in 1..r.version : log[i].time <= now
  <2>1. r.version <= Len(log) /\ Len(log) \in Nat
    BY <1>1, NoneIsNaught DEF TalkInv, Following
  <2>2. \A i \in 1..Len(log) : log[i].time <= now
    BY DEF TalkInv, Orderly
  <2> QED
    BY <1>2, <2>1, <2>2
<1>10. Following(q, log, proposals, now)
  <2>1. now <= now
    BY DEF TalkInv
  <2> QED
    BY <1>1, <1>2, <1>4, <1>7, <1>8, <1>9, <2>1 DEF Following
<1> QED
  BY <1>1, <1>6, <1>7, <1>10, RequestGoesOn DEF TalkInv

LEMMA CatchUpKeepsTalk ==
  ASSUME TalkInv, NEW c \in Caller, T!CatchUp(c)
  PROVE  TalkInv'
<1>1. PICK r \in Sends : r = request[c] /\ r.at = "catch up" /\ Following(r, log, proposals, now)
  BY DEF TalkInv, Following, T!CatchUp
<1>2. r.of \in Nat /\ r.message \in Nat
  BY <1>1 DEF Sends
<1>3. UNCHANGED <<log, now, proposals, mishaps>> /\ mishaps' \in Nat /\ mishaps' >= mishaps
  <2>1. UNCHANGED <<log, now, proposals, mishaps>>
    BY DEF T!CatchUp
  <2>2. mishaps \in Nat
    BY DEF TalkInv
  <2> QED
    BY <2>1, <2>2
<1>4. CASE r.of = 0
  <2>1. PICK q : q = [at |-> "propose", of |-> r.message]
    OBVIOUS
  <2>2. T!Go(c, q)
    BY <1>1, <1>4, <2>1 DEF T!CatchUp
  <2>3. /\ q \in Sends /\ q.at = "propose" /\ q.of = r.message
        /\ Answering(q) = r.message /\ Answering(r) = r.message
    BY <1>1, <1>2, <1>4, <2>1 DEF Answering, Sends
  <2>4. Following(q, log, proposals, now)
    BY <1>1, <1>4, <2>3 DEF Following
  <2> QED
    BY <1>1, <1>3, <2>2, <2>3, <2>4, RequestGoesOn
<1>5. CASE r.of # 0
  <2>1. T!Go(c, [at |-> "idle"])
    BY <1>1, <1>5 DEF T!CatchUp, T!Idle
  <2>2. Answering(r) = 0
    BY <1>1, <1>5 DEF Answering
  <2>3. 0 \notin proposals
    BY NoneIsNaught DEF TalkInv
  <2> QED
    BY <1>1, <1>3, <2>1, <2>2, <2>3, IdleFollows, RequestGoesOn
<1> QED
  BY <1>4, <1>5

LEMMA FailKeepsTalk ==
  ASSUME TalkInv, NEW c \in Caller, T!Fail(c)
  PROVE  TalkInv'
<1>1. T!Go(c, [at |-> "idle"]) /\ UNCHANGED <<log, now, proposals>> /\ mishaps' = mishaps + 1
  BY DEF T!Fail, T!Idle
<1>2. mishaps' \in Nat /\ mishaps' >= mishaps /\ mishaps' >= 1
  BY <1>1 DEF TalkInv
<1>3. 0 \notin proposals
  BY NoneIsNaught DEF TalkInv
<1> QED
  BY <1>1, <1>2, <1>3, IdleFollows, RequestGoesOn

LEMMA ProposeKeepsTalk ==
  ASSUME TalkInv, NEW c \in Caller, T!Propose(c)
  PROVE  TalkInv'
<1>1. PICK r \in Sends : r = request[c] /\ r.at = "propose" /\ Following(r, log, proposals, now)
  BY DEF TalkInv, Following, T!Propose
<1>2. r.of \in Nat
  BY <1>1 DEF Sends
<1>3. Answering(r) = r.of
  BY <1>1 DEF Answering
<1>4. PICK proposal \in BOOLEAN :
        /\ proposals' = IF proposal THEN proposals \union {r.of} ELSE proposals
        /\ T!Go(c, [at |-> "reply", of |-> r.of, proposal |-> proposal])
  BY <1>1 DEF T!Propose
<1>5. PICK q : q = [at |-> "reply", of |-> r.of, proposal |-> proposal]
  OBVIOUS
<1>6. UNCHANGED <<log, now, mishaps>>
  BY DEF T!Propose
<1>7. /\ DOMAIN request' = Caller /\ request'[c] = q
      /\ \A d \in Caller : d # c => request'[d] = request[d]
  BY <1>4, <1>5 DEF TalkInv, T!Go
<1>8. q \in Sends /\ q.at = "reply" /\ q.of = r.of /\ q.proposal = proposal /\ Answering(q) = r.of
  BY <1>2, <1>5 DEF Sends, Answering
<1>9. \A d \in Caller : Answering(request'[d]) = Answering(request[d])
  <2> TAKE d \in Caller
  <2>1. CASE d = c
    BY <1>1, <1>3, <1>7, <1>8, <2>1
  <2>2. CASE d # c
    BY <1>7, <2>2
  <2> QED
    BY <2>1, <2>2
<1>10. /\ r.of # 0 /\ r.of \in 1..Len(log) /\ r.of \notin proposals /\ log[r.of].of = 0
       /\ \A j \in 1..Len(log) : log[j].of # r.of
  BY <1>1, <1>3 DEF Following
<1>11. PICK told : told = proposals'
  OBVIOUS
<1>12. /\ told \subseteq 1..Len(log)
       /\ r.of \in told <=> proposal
       /\ \A x : x # r.of => (x \in told <=> x \in proposals)
  <2>1. proposals \subseteq 1..Len(log)
    BY DEF TalkInv, Orderly
  <2> QED
    BY <1>4, <1>10, <1>11, <2>1
<1>13. Orderly(log, told, now)
  <2>1. Orderly(log, proposals, now)
    BY DEF TalkInv
  <2>2. \A j \in 1..Len(log) : log[j].of \in told <=> log[j].of \in proposals
    BY <1>10, <1>12
  <2> QED
    BY <1>12, <2>1, <2>2 DEF Orderly
<1>14. \A d \in Caller : Following(request'[d], log, told, now)
  <2> TAKE d \in Caller
  <2>1. CASE d = c
    <3>1. Following(q, log, told, now)
      BY <1>8, <1>10, <1>12 DEF Following
    <3> QED
      BY <1>7, <2>1, <3>1
  <2>2. CASE d # c
    <3>1. Answering(request[d]) # r.of
      BY <1>1, <1>3, <1>10, <2>2 DEF TalkInv, OneAnswers
    <3>2. PICK s : s = request[d] /\ Following(s, log, proposals, now) /\ Answering(s) # r.of
      BY <3>1 DEF TalkInv
    <3>3. Answering(s) \in told <=> Answering(s) \in proposals
      BY <1>12, <3>2
    <3>4. /\ s.at \in {"read", "reply"} => s.of = Answering(s)
          /\ s.at = "append" => s.message.of = Answering(s)
      BY DEF Answering
    <3>5. Following(s, log, told, now)
      BY <3>2, <3>3, <3>4 DEF Following
    <3> QED
      BY <1>7, <2>2, <3>2, <3>5
  <2> QED
    BY <2>1, <2>2
<1>15. OneAnswers'
  BY <1>9 DEF TalkInv, OneAnswers
<1>16. LastIsTold'
  <2> SUFFICES ASSUME NEW i \in told, i = Len(log), ~(mishaps >= 1)
               PROVE  \E d \in Caller : Answering(request'[d]) = i
    BY <1>6, <1>11 DEF LastIsTold
  <2>1. CASE i = r.of
    BY <1>7, <1>8, <2>1
  <2>2. CASE i # r.of
    <3>1. i \in proposals
      BY <1>12, <2>2
    <3>2. PICK d \in Caller : Answering(request[d]) = i
      BY <3>1 DEF TalkInv, LastIsTold
    <3> QED
      BY <1>9, <3>2
  <2> QED
    BY <2>1, <2>2
<1> QED
  BY <1>6, <1>7, <1>11, <1>13, <1>14, <1>15, <1>16 DEF TalkInv

\* What a request knows is not changed by a message that does not reply to the one
\* it is to answer.
LEMMA OthersFollow ==
  ASSUME NEW texts, NEW told, NEW clock, Orderly(texts, told, clock),
         NEW q, Following(q, texts, told, clock),
         NEW m \in TextMessage, Answering(q) = 0 \/ Answering(q) # m.of
  PROVE  Following(q, Append(texts, m), told, clock)
<1>1. PICK n \in Nat : n = Len(texts)
  BY NoneIsNaught
<1>2. PICK later : later = Append(texts, m)
  OBVIOUS
<1>3. Len(later) = n + 1 /\ later[n + 1] = m /\ \A i \in 1..n : later[i] = texts[i]
  BY <1>1, <1>2 DEF Orderly
<1>4. ASSUME Answering(q) # 0
      PROVE  /\ Answering(q) \in 1..Len(later)
             /\ later[Answering(q)].of = 0
             /\ \A j \in 1..Len(later) : later[j].of # Answering(q)
  <2>1. PICK i : i = Answering(q)
    OBVIOUS
  <2>2. i \in 1..n /\ texts[i].of = 0 /\ \A j \in 1..n : texts[j].of # i
    BY <1>1, <1>4, <2>1 DEF Following
  <2>3. i # m.of
    BY <1>4, <2>1
  <2> QED
    BY <1>3, <2>1, <2>2, <2>3
<1>5. q.at \in {"read", "append"} => q.version \in Nat
  BY DEF Following, Sends
<1>6. ASSUME q.at \in {"read", "append"}
      PROVE  Answering(q) <= q.version /\ q.version <= Len(later)
  <2>1. Answering(q) <= q.version /\ q.version <= n
    BY <1>1, <1>6 DEF Following
  <2>2. q.version \in Nat
    BY <1>5, <1>6
  <2> QED
    BY <1>3, <2>1, <2>2
<1>7. q.at = "append" =>
       /\ q.message.time <= clock
       /\ \A i \in 1..q.version : later[i].time <= q.message.time
  BY <1>1, <1>3, <1>5 DEF Following
<1> QED
  BY <1>2, <1>4, <1>6, <1>7 DEF Following

LEMMA AppendKeepsTalk ==
  ASSUME TalkInv, NEW c \in Caller, T!AppendMessage(c)
  PROVE  TalkInv'
<1>1. PICK r \in Sends : r = request[c] /\ r.at = "append" /\ Following(r, log, proposals, now)
  BY DEF TalkInv, Following, T!AppendMessage
<1>2. r.version \in Nat /\ r.message \in TextMessage
  BY <1>1 DEF Sends
<1>3. PICK m \in TextMessage : m = r.message
  BY <1>2
<1>4. Answering(r) = m.of /\ m.of \in Nat
  BY <1>1, <1>3 DEF Answering, TextMessage
<1>5. UNCHANGED <<now, proposals, mishaps>>
  BY DEF T!AppendMessage
<1>6. PICK n \in Nat : n = Len(log)
  BY NoneIsNaught DEF TalkInv
<1>7. Orderly(log, proposals, now)
  BY DEF TalkInv
<1>8. CASE r.version # n
  <2>1. T!Go(c, [at |-> "idle"]) /\ log' = log
    BY <1>1, <1>6, <1>8 DEF T!AppendMessage, T!Idle
  <2>2. m.of # n
    BY <1>1, <1>2, <1>4, <1>6, <1>8 DEF Following
  <2>3. 0 \notin proposals
    BY NoneIsNaught DEF TalkInv
  <2> QED
    BY <1>1, <1>4, <1>5, <1>6, <2>1, <2>2, <2>3, IdleFollows, RequestGoesOn DEF TalkInv
<1>9. CASE r.version = n
  <2>1. PICK q : q = [at |-> "catch up", of |-> m.of, message |-> n + 1]
    OBVIOUS
  <2>2. PICK later : later = Append(log, m)
    OBVIOUS
  <2>3. log' = later /\ T!Go(c, q)
    BY <1>1, <1>3, <1>6, <1>9, <2>1, <2>2 DEF T!AppendMessage
  <2>4. /\ later \in Seq(TextMessage)
        /\ Len(later) = n + 1 /\ later[n + 1] = m /\ \A i \in 1..n : later[i] = log[i]
    BY <1>6, <1>7, <2>2 DEF Orderly
  <2>5. /\ DOMAIN request' = Caller /\ request'[c] = q
        /\ \A d \in Caller : d # c => request'[d] = request[d]
    BY <2>3 DEF TalkInv, T!Go
  <2>6. proposals \subseteq 1..n
    BY <1>6, <1>7 DEF Orderly
  <2>7. \A i \in 1..n : log[i].time <= m.time /\ m.time <= now
    BY <1>1, <1>3, <1>6, <1>9 DEF Following
  <2>8. m.time <= now
    BY <1>1, <1>3 DEF Following
  <2>9. \A i \in 1..n : log[i] \in TextMessage
    BY <1>6, <1>7 DEF Orderly
  <2>10. m.of # 0 =>
          /\ m.of \in 1..n /\ log[m.of].of = 0 /\ (m.proposal <=> m.of \in proposals)
          /\ \A j \in 1..n : log[j].of # m.of
    BY <1>1, <1>3, <1>4, <1>6 DEF Following
  <2>11. Orderly(later, proposals, now)
    <3>1. \A i \in 1..Len(later) : later[i].time <= now
      BY <1>6, <1>7, <2>4, <2>8 DEF Orderly
    <3>2. \A i, j \in 1..Len(later) : i < j => later[i].time <= later[j].time
      <4> SUFFICES ASSUME NEW i \in 1..(n + 1), NEW j \in 1..(n + 1), i < j
                   PROVE  later[i].time <= later[j].time
        BY <2>4
      <4>1. i \in 1..n
        OBVIOUS
      <4>2. CASE j \in 1..n
        BY <1>6, <1>7, <2>4, <4>1, <4>2 DEF Orderly
      <4>3. CASE j = n + 1
        BY <2>4, <2>7, <4>1, <4>3
      <4> QED
        BY <4>2, <4>3
    <3>3. ASSUME NEW j \in 1..(n + 1), later[j].of # 0
          PROVE  /\ later[j].of < j /\ later[later[j].of].of = 0
                 /\ later[j].proposal <=> later[j].of \in proposals
                 /\ \A k \in 1..(n + 1) : later[k].of = later[j].of => k = j
      <4>1. CASE j = n + 1
        <5>1. later[j] = m
          BY <2>4, <4>1
        <5> QED
          BY <2>4, <2>10, <3>3, <4>1, <5>1
      <4>2. CASE j \in 1..n
        <5>1. later[j] = log[j] /\ log[j].of \in Nat /\ log[j].of # 0
          BY <2>4, <2>9, <3>3, <4>2 DEF TextMessage
        <5>2. /\ log[j].of < j /\ log[log[j].of].of = 0
              /\ log[j].proposal <=> log[j].of \in proposals
              /\ \A k \in 1..n : log[k].of = log[j].of => k = j
          BY <1>6, <1>7, <4>2, <5>1 DEF Orderly
        <5>3. log[j].of \in 1..n
          BY <4>2, <5>1, <5>2
        <5>4. m.of # log[j].of
          BY <2>10, <4>2, <5>1
        <5> QED
          BY <2>4, <4>2, <5>1, <5>2, <5>3, <5>4
      <4> QED
        BY <4>1, <4>2
    <3> QED
      BY <2>4, <2>6, <3>1, <3>2, <3>3 DEF Orderly
  <2>12. q \in Sends /\ q.at = "catch up" /\ q.of = m.of /\ q.message = n + 1
    <3>1. m.of \in Nat /\ n + 1 \in Nat
      BY <1>4
    <3> QED
      BY <2>1, <3>1 DEF Sends
  <2>13. Answering(q) = IF m.of = 0 THEN n + 1 ELSE 0
    BY <2>12 DEF Answering
  <2>14. m.of = 0 => \A j \in 1..(n + 1) : later[j].of # n + 1
    <3> SUFFICES ASSUME m.of = 0, NEW j \in 1..(n + 1), later[j].of = n + 1 PROVE FALSE
      OBVIOUS
    <3>1. later[j].of # 0 /\ j \in 1..Len(later)
      BY <2>4
    <3>2. later[j].of < j
      BY <2>11, <3>1 DEF Orderly
    <3> QED
      BY <3>2
  <2>15. Following(q, later, proposals, now)
    <3>1. m.of = 0 => n + 1 \in 1..(n + 1) /\ n + 1 \notin proposals /\ n + 1 # 0
      BY <2>6
    <3>2. 0 \notin proposals
      BY <2>6
    <3>3. CASE m.of = 0
      BY <2>4, <2>12, <2>13, <2>14, <3>1, <3>3 DEF Following
    <3>4. CASE m.of # 0
      BY <2>12, <2>13, <3>2, <3>4 DEF Following
    <3> QED
      BY <3>3, <3>4
  <2>16. \A d \in Caller : d # c => (Answering(request[d]) = 0 \/ Answering(request[d]) # m.of)
    BY <1>1, <1>4 DEF TalkInv, OneAnswers
  <2>17. \A d \in Caller : Following(request'[d], later, proposals, now)
    <3> TAKE d \in Caller
    <3>1. CASE d = c
      BY <2>5, <2>15, <3>1
    <3>2. CASE d # c
      <4>1. Following(request[d], log, proposals, now)
        BY DEF TalkInv
      <4>2. Following(request[d], later, proposals, now)
        BY <1>7, <2>2, <2>16, <3>2, <4>1, OthersFollow
      <4> QED
        BY <2>5, <3>2, <4>2
    <3> QED
      BY <3>1, <3>2
  <2>18. \A d \in Caller : d # c => Answering(request[d]) # n + 1
    <3> TAKE d \in Caller
    <3>1. PICK s : s = request[d] /\ Following(s, log, proposals, now)
      BY DEF TalkInv
    <3>2. Answering(s) # 0 => Answering(s) \in 1..n
      BY <1>6, <3>1 DEF Following
    <3> QED
      BY <3>1, <3>2
  <2>19. OneAnswers'
    <3> SUFFICES ASSUME NEW d \in Caller, NEW e \in Caller, d # e, Answering(request'[d]) # 0
                 PROVE  Answering(request'[d]) # Answering(request'[e])
      BY DEF OneAnswers
    <3>1. CASE d = c
      BY <2>5, <2>13, <2>18, <3>1
    <3>2. CASE d # c /\ e = c
      BY <2>5, <2>13, <2>18, <3>2
    <3>3. CASE d # c /\ e # c
      BY <2>5, <3>3 DEF TalkInv, OneAnswers
    <3> QED
      BY <3>1, <3>2, <3>3
  <2>20. LastIsTold'
    <3>1. \A i \in proposals : i # n + 1
      BY <2>6
    <3> QED
      BY <1>5, <2>3, <2>4, <3>1 DEF LastIsTold
  <2> QED
    BY <1>5, <2>3, <2>5, <2>11, <2>17, <2>19, <2>20 DEF TalkInv
<1> QED
  BY <1>6, <1>8, <1>9

LEMMA TickKeepsTalk ==
  ASSUME TalkInv, T!Tick
  PROVE  TalkInv'
<1>1. PICK later \in Nat : later = now' /\ later = now + 1
  BY DEF T!Tick, TalkInv
<1>2. UNCHANGED <<log, request, proposals, mishaps>> /\ now \in Nat
  BY DEF T!Tick, TalkInv
<1>3. Orderly(log, proposals, later)
  <2>1. Orderly(log, proposals, now)
    BY DEF TalkInv
  <2>2. ASSUME NEW i \in 1..Len(log) PROVE log[i].time <= later
    <3>1. log[i] \in TextMessage /\ log[i].time <= now
      BY <2>1 DEF Orderly
    <3>2. log[i].time \in Nat
      BY <3>1 DEF TextMessage
    <3> QED
      BY <1>1, <1>2, <3>1, <3>2
  <2> QED
    BY <2>1, <2>2 DEF Orderly
<1>4. \A c \in Caller : Following(request[c], log, proposals, later)
  <2> TAKE c \in Caller
  <2>1. PICK s : s = request[c] /\ Following(s, log, proposals, now)
    BY DEF TalkInv
  <2>2. s.at = "append" => s.message.time \in Nat
    BY <2>1 DEF Following, Sends, TextMessage
  <2>3. s.at = "append" => s.message.time <= later
    BY <1>1, <1>2, <2>1, <2>2 DEF Following
  <2>4. Following(s, log, proposals, later)
    BY <2>1, <2>3 DEF Following
  <2> QED
    BY <2>1, <2>4
<1>5. OneAnswers' /\ LastIsTold' /\ DOMAIN request' = Caller
  BY <1>2 DEF TalkInv, OneAnswers, LastIsTold
<1> QED
  BY <1>1, <1>2, <1>3, <1>4, <1>5 DEF TalkInv

LEMMA TalkGoesOn == TalkInv /\ [T!Next]_T!vars => TalkInv'
<1> SUFFICES ASSUME TalkInv, [T!Next]_T!vars PROVE TalkInv'
  OBVIOUS
<1>1. ASSUME NEW c \in Caller,
             \/ T!Send(c) \/ T!TakeTime(c) \/ T!AppendMessage(c) \/ T!CatchUp(c)
             \/ T!Propose(c) \/ T!Reply(c) \/ T!Fail(c)
      PROVE  TalkInv'
  BY <1>1, SendKeepsTalk, TakeTimeKeepsTalk, AppendKeepsTalk, CatchUpKeepsTalk,
     ProposeKeepsTalk, ReplyKeepsTalk, FailKeepsTalk
<1>2. ASSUME UNCHANGED T!vars PROVE TalkInv'
  BY <1>2 DEF T!vars, TalkInv, OneAnswers, LastIsTold
<1> QED
  BY <1>1, <1>2, TickKeepsTalk DEF T!Next

LEMMA TalkHolds == T!Spec => []TalkInv
BY TalkStarts, TalkGoesOn, PTL DEF T!Spec

\* A conversation is listed in the order of its stream, whoever else writes to it
\* (ListedInOrder); a message gets one reply, after it, which names the proposal
\* made of it (OneReply); and a proposal of which the conversation is silent, with
\* no request about to speak of it and no later message, is the outcome of a
\* failure (ProposalsAreTold).  For any number of requests and messages.
THEOREM ConversationsHold ==
  T!Spec => [](T!ListedInOrder /\ T!OneReply /\ T!ProposalsAreTold)
<1>1. ASSUME TalkInv PROVE T!ListedInOrder /\ T!OneReply /\ T!ProposalsAreTold
  <2>1. Orderly(log, proposals, now)
    BY <1>1 DEF TalkInv
  <2>2. PICK n \in Nat : n = Len(log) /\ DOMAIN log = 1..n
    BY <2>1 DEF Orderly
  <2>3. T!ListedInOrder
    BY <2>1, <2>2 DEF Orderly, T!ListedInOrder
  <2>4. T!OneReply
    BY <2>1, <2>2 DEF Orderly, T!OneReply
  <2>5. ASSUME NEW i \in T!Untold PROVE i = n /\ mishaps >= 1
    <3>1. i \in proposals /\ i \in 1..n
      BY <2>1, <2>2, <2>5 DEF Orderly, T!Untold
    <3>2. \A j \in 1..n : j <= i
      <4>1. \A j \in DOMAIN log : log[j].of # i
        BY <2>5 DEF T!Untold, T!Told
      <4>2. \A j \in DOMAIN log : j <= i \/ log[j].of = i
        BY <2>5 DEF T!Untold
      <4> QED
        BY <2>2, <4>1, <4>2
    <3>3. i = n
      BY <3>1, <3>2
    <3>4. ASSUME NEW c \in Caller, Answering(request[c]) = i PROVE FALSE
      <4>1. PICK s : s = request[c] /\ Following(s, log, proposals, now) /\ Answering(s) = i
        BY <1>1, <3>4 DEF TalkInv
      <4>2. T!Answers(s) # i
        BY <2>5, <4>1 DEF T!Untold
      <4>3. s.at \notin {"catch up", "propose"}
        BY <3>1, <4>1 DEF Following
      <4>4. i # 0
        BY <3>1
      <4> QED
        BY <4>1, <4>2, <4>3, <4>4 DEF Answering, T!Answers
    <3> QED
      BY <1>1, <2>2, <3>1, <3>3, <3>4 DEF TalkInv, LastIsTold
  <2>6. Cardinality(T!Untold) <= mishaps
    <3>1. mishaps \in Nat
      BY <1>1 DEF TalkInv
    <3>2. CASE T!Untold = {}
      BY <3>1, <3>2, FS_EmptySet
    <3>3. CASE T!Untold # {}
      <4>1. T!Untold = {n} /\ mishaps >= 1
        BY <2>5, <3>3
      <4> QED
        BY <3>1, <4>1, FS_Singleton
    <3> QED
      BY <3>2, <3>3
  <2>7. T!ProposalsAreTold
    <3>1. T!Cardinality(T!Untold) = Cardinality(T!Untold)
      BY DEF T!Cardinality, Cardinality
    <3> QED
      BY <2>6, <3>1 DEF T!ProposalsAreTold
  <2> QED
    BY <2>3, <2>4, <2>7
<1> QED
  BY <1>1, TalkHolds, PTL

-------------------------------------------------------------------------------
(***************************************************************************)
(* Meetings whose transcripts actions are proposed from (MeetingDetails).  *)
(***************************************************************************)
CONSTANTS Delivery, MaxUpdates, MaxChanges

VARIABLES transcript, mode, old, update, sweep, proposed, updates, changes, overlaps, cleared

M == INSTANCE MeetingDetails

Deliveries ==
  [at : {"idle"}]
    \union [at : {"update"}, id : Nat, transcript : {"value", "null", "absent"}, new : BOOLEAN]
    \union [at : {"propose"}]

Proposing == {d \in Delivery : update[d].at = "propose"}
Bringing == {d \in Delivery : update[d].at = "update" /\ update[d].new}

\* Proposals that were recorded, are on their way, or will be with a transcript
\* that was found to be new.
Proposals == proposed + Cardinality(Proposing) + Cardinality(Bringing)

Known(d) == update[d].at = "update" /\ update[d].transcript = "value" /\ ~update[d].new

\* There is one proposal more than overlaps and clearings only as long as there is
\* a transcript, or a delivery brings one that it found to be new; and what was
\* found not to be new has been proposed before, or something failed.
MeetingInv ==
  /\ update \in [Delivery -> Deliveries]
  /\ \A d \in Delivery : update[d].at = "update" /\ update[d].new => update[d].transcript = "value"
  /\ \A d \in Delivery : update[d].at = "update" => update[d].id # 0
  /\ transcript \in Nat /\ proposed \in Nat /\ overlaps \in Nat /\ cleared \in Nat
  /\ updates \in Nat /\ mishaps \in Nat
  /\ IsFiniteSet(Proposing) /\ IsFiniteSet(Bringing)
  /\ Proposals <= overlaps + cleared + 1
  /\ transcript = 0 /\ Bringing = {} => Proposals <= overlaps + cleared
  /\ transcript # 0 \/ (\E d \in Delivery : Known(d)) =>
       proposed + Cardinality(Proposing) + mishaps >= 1

-------------------------------------------------------------------------------
One(b) == IF b THEN 1 ELSE 0

\* How many a set has when it may have lost one element and gained it.
LEMMA OneComesOrGoes ==
  ASSUME NEW A, NEW B, NEW x, IsFiniteSet(A), NEW b \in BOOLEAN,
         \A y : y \in B <=> (y \in A /\ y # x) \/ (y = x /\ b)
  PROVE  /\ IsFiniteSet(B)
         /\ Cardinality(B) = Cardinality(A) - One(x \in A) + One(b)
<1>1. /\ IsFiniteSet(A \ {x}) /\ x \notin A \ {x}
      /\ Cardinality(A \ {x}) = IF x \in A THEN Cardinality(A) - 1 ELSE Cardinality(A)
  BY FS_RemoveElement
<1>2. Cardinality(A) \in Nat /\ Cardinality(A \ {x}) \in Nat
  BY <1>1, FS_CardinalityType
<1>3. CASE b
  <2>1. B = (A \ {x}) \union {x}
    BY <1>3
  <2>2. IsFiniteSet(B) /\ Cardinality(B) = Cardinality(A \ {x}) + 1
    BY <1>1, <2>1, FS_AddElement
  <2> QED
    BY <1>1, <1>2, <1>3, <2>2 DEF One
<1>4. CASE ~b
  <2>1. B = A \ {x}
    BY <1>4
  <2> QED
    BY <1>1, <1>2, <1>4, <2>1 DEF One
<1> QED
  BY <1>3, <1>4

LEMMA MeetingStarts == M!Init => MeetingInv
<1> SUFFICES ASSUME M!Init PROVE MeetingInv
  OBVIOUS
<1>1. update \in [Delivery -> Deliveries] /\ \A d \in Delivery : update[d].at = "idle"
  BY DEF M!Init, M!Idle, Deliveries
<1>2. Proposing = {} /\ Bringing = {} /\ ~\E d \in Delivery : Known(d)
  BY <1>1 DEF Proposing, Bringing, Known
<1>3. IsFiniteSet({}) /\ Cardinality({}) = 0
  BY FS_EmptySet
<1> QED
  BY <1>1, <1>2, <1>3 DEF M!Init, MeetingInv, Proposals

\* A delivery goes on.
LEMMA DeliveryMoves ==
  ASSUME MeetingInv, NEW d \in Delivery, NEW u \in Deliveries, M!Go(d, u)
  PROVE  /\ update' \in [Delivery -> Deliveries] /\ update'[d] = u
         /\ \A e \in Delivery \ {d} : update'[e] = update[e]
         /\ IsFiniteSet(Proposing') /\ IsFiniteSet(Bringing')
         /\ Cardinality(Proposing') =
              Cardinality(Proposing) - One(update[d].at = "propose") + One(u.at = "propose")
         /\ Cardinality(Bringing') =
              Cardinality(Bringing) - One(update[d].at = "update" /\ update[d].new)
                                    + One(u.at = "update" /\ u.new)
         /\ \A e : e \in Bringing' <=> (e \in Bringing /\ e # d) \/ (e = d /\ u.at = "update" /\ u.new)
<1>1. /\ update' \in [Delivery -> Deliveries] /\ update'[d] = u
      /\ \A e \in Delivery \ {d} : update'[e] = update[e]
  BY DEF MeetingInv, M!Go
<1>2. PICK P : P = Proposing'
  OBVIOUS
<1>3. PICK Q : Q = Bringing'
  OBVIOUS
<1>4. \A e : e \in P <=> (e \in Proposing /\ e # d) \/ (e = d /\ u.at = "propose")
  BY <1>1, <1>2 DEF Proposing
<1>5. \A e : e \in Q <=> (e \in Bringing /\ e # d) \/ (e = d /\ (u.at = "update" /\ u.new))
  BY <1>1, <1>3 DEF Bringing
<1>6. IsFiniteSet(Proposing) /\ IsFiniteSet(Bringing)
  BY DEF MeetingInv
<1>7. IsFiniteSet(P) /\ Cardinality(P) = Cardinality(Proposing) - One(d \in Proposing) + One(u.at = "propose")
  <2>1. PICK b \in BOOLEAN : b = (u.at = "propose")
    OBVIOUS
  <2>2. \A e : e \in P <=> (e \in Proposing /\ e # d) \/ (e = d /\ b)
    BY <1>4, <2>1
  <2>3. IsFiniteSet(P) /\ Cardinality(P) = Cardinality(Proposing) - One(d \in Proposing) + One(b)
    BY <1>6, <2>2, OneComesOrGoes
  <2> QED
    BY <2>1, <2>3
<1>8. IsFiniteSet(Q)
      /\ Cardinality(Q) = Cardinality(Bringing) - One(d \in Bringing) + One(u.at = "update" /\ u.new)
  <2>1. PICK b \in BOOLEAN : b <=> (u.at = "update" /\ u.new)
    OBVIOUS
  <2>2. \A e : e \in Q <=> (e \in Bringing /\ e # d) \/ (e = d /\ b)
    BY <1>5, <2>1
  <2>3. IsFiniteSet(Q) /\ Cardinality(Q) = Cardinality(Bringing) - One(d \in Bringing) + One(b)
    BY <1>6, <2>2, OneComesOrGoes
  <2> QED
    BY <2>1, <2>3 DEF One
<1>9. One(d \in Proposing) = One(update[d].at = "propose")
  BY DEF One, Proposing
<1>10. One(d \in Bringing) = One(update[d].at = "update" /\ update[d].new)
  BY DEF One, Bringing
<1> QED
  BY <1>1, <1>2, <1>3, <1>5, <1>7, <1>8, <1>9, <1>10

\* How many there are.
LEMMA HowMany ==
  ASSUME MeetingInv
  PROVE  /\ Cardinality(Proposing) \in Nat /\ Cardinality(Bringing) \in Nat
         /\ Cardinality(Bringing) = 0 <=> Bringing = {}
BY FS_CardinalityType, FS_EmptySet DEF MeetingInv

LEMMA ReadKeepsMeeting ==
  ASSUME MeetingInv, NEW d \in Delivery, M!ReadRow(d)
  PROVE  MeetingInv'
<1>1. PICK t \in {"value", "null", "absent"} :
        M!Go(d, [at |-> "update", id |-> updates + 1, transcript |-> t,
                 new |-> t = "value" /\ transcript = 0])
  BY DEF M!ReadRow
<1>2. PICK u : u = [at |-> "update", id |-> updates + 1, transcript |-> t,
                    new |-> t = "value" /\ transcript = 0]
  OBVIOUS
<1>3. /\ u.at = "update" /\ u.id = updates + 1 /\ u.transcript = t
      /\ u.new <=> (t = "value" /\ transcript = 0)
      /\ u \in Deliveries
  <2>1. updates + 1 \in Nat
    BY DEF MeetingInv
  <2>2. u.at = "update" /\ u.id = updates + 1 /\ u.transcript = t
    BY <1>2
  <2>3. u.new = (t = "value" /\ transcript = 0)
    BY <1>2
  <2>4. u \in Deliveries
    BY <1>2, <2>1 DEF Deliveries
  <2> QED
    BY <2>2, <2>3, <2>4
<1>4. /\ updates' = updates + 1 /\ update[d].at = "idle"
      /\ UNCHANGED <<transcript, proposed, mishaps, cleared>>
      /\ overlaps' = IF \E e \in Delivery : update[e].at = "update" THEN overlaps + 1 ELSE overlaps
  BY DEF M!ReadRow
<1>5. /\ update' \in [Delivery -> Deliveries] /\ update'[d] = u
      /\ \A e \in Delivery \ {d} : update'[e] = update[e]
      /\ IsFiniteSet(Proposing') /\ IsFiniteSet(Bringing')
      /\ Cardinality(Proposing') = Cardinality(Proposing)
      /\ Cardinality(Bringing') = Cardinality(Bringing) + One(u.at = "update" /\ u.new)
      /\ \A e : e \in Bringing' <=> (e \in Bringing /\ e # d) \/ (e = d /\ u.at = "update" /\ u.new)
  BY <1>1, <1>2, <1>3, <1>4, HowMany, DeliveryMoves DEF One
<1>6. PICK n \in Nat : n = Cardinality(Bringing) /\ (n = 0 <=> Bringing = {})
  BY HowMany
<1>7. PICK p \in Nat : p = Cardinality(Proposing) /\ p = Cardinality(Proposing')
  BY <1>5, HowMany
<1>8. /\ proposed + p + n <= overlaps + cleared + 1
      /\ transcript = 0 /\ Bringing = {} => proposed + p + n <= overlaps + cleared
      /\ transcript # 0 \/ (\E e \in Delivery : Known(e)) => proposed + p + mishaps >= 1
  BY <1>6, <1>7 DEF MeetingInv, Proposals
<1>9. Bringing # {} => overlaps' = overlaps + 1
  BY <1>4 DEF Bringing
<1>10. /\ transcript \in Nat /\ proposed \in Nat /\ overlaps \in Nat /\ cleared \in Nat
       /\ updates \in Nat /\ mishaps \in Nat
       /\ overlaps' \in Nat /\ overlaps' >= overlaps /\ updates' \in Nat /\ updates' # 0
  BY <1>4 DEF MeetingInv
<1>11. Proposals' = proposed + p + Cardinality(Bringing')
  BY <1>4, <1>7 DEF Proposals
<1>12. CASE u.new
  <2>1. Cardinality(Bringing') = n + 1 /\ transcript = 0 /\ d \in Bringing'
    BY <1>3, <1>5, <1>6, <1>12 DEF One
  <2>2. Proposals' <= overlaps' + cleared' + 1
    BY <1>4, <1>6, <1>8, <1>9, <1>10, <1>11, <2>1
  <2>3. \A e \in Delivery : Known(e)' => Known(e)
    BY <1>3, <1>5, <1>12 DEF Known
  <2>4. transcript' # 0 \/ (\E e \in Delivery : Known(e)') => proposed' + p + mishaps' >= 1
    BY <1>4, <1>8, <2>3
  <2> QED
    BY <1>3, <1>4, <1>5, <1>7, <1>10, <2>1, <2>2, <2>4 DEF MeetingInv
<1>13. CASE ~u.new
  <2>1. Cardinality(Bringing') = n /\ (Bringing' = {} => Bringing = {})
    BY <1>4, <1>5, <1>6, <1>13 DEF One, Bringing
  <2>2. Proposals' <= overlaps' + cleared' + 1
    BY <1>4, <1>8, <1>10, <1>11, <2>1
  <2>3. transcript' = 0 /\ Bringing' = {} => Proposals' <= overlaps' + cleared'
    BY <1>4, <1>8, <1>10, <1>11, <2>1
  <2>4. transcript' # 0 \/ (\E e \in Delivery : Known(e)') => proposed' + p + mishaps' >= 1
    <3>1. \A e \in Delivery : e # d => (Known(e)' <=> Known(e))
      BY <1>5 DEF Known
    <3>2. Known(d)' => transcript # 0
      BY <1>3, <1>5, <1>13 DEF Known
    <3> QED
      BY <1>4, <1>8, <3>1, <3>2
  <2> QED
    BY <1>3, <1>4, <1>5, <1>7, <1>10, <1>13, <2>2, <2>3, <2>4 DEF MeetingInv
<1> QED
  BY <1>12, <1>13

\* The other steps of a delivery, by what they do to the counts.
LEMMA StoreKeepsMeeting ==
  ASSUME MeetingInv, NEW d \in Delivery, M!StoreUpdate(d)
  PROVE  MeetingInv'
<1>1. PICK r \in Deliveries : r = update[d] /\ r.at = "update"
  BY DEF M!StoreUpdate, MeetingInv
<1>2. r.id \in Nat /\ r.transcript \in {"value", "null", "absent"} /\ r.new \in BOOLEAN
  BY <1>1 DEF Deliveries
<1>3. /\ r.new => r.transcript = "value"
      /\ r.id # 0
  BY <1>1 DEF MeetingInv
<1>4. /\ r.transcript = "value" => transcript' = r.id
      /\ r.transcript = "null" => transcript' = 0
      /\ r.transcript = "absent" => transcript' = transcript
      /\ cleared' = IF transcript # 0 /\ transcript' = 0 THEN cleared + 1 ELSE cleared
      /\ M!Go(d, IF r.new THEN [at |-> "propose"] ELSE M!Idle)
      /\ UNCHANGED <<proposed, updates, mishaps, overlaps>>
  BY <1>1 DEF M!StoreUpdate, M!counters
<1>5. PICK u \in Deliveries : /\ M!Go(d, u)
                              /\ r.new => u.at = "propose"
                              /\ ~r.new => u.at = "idle"
  <2>1. [at |-> "propose"] \in Deliveries /\ M!Idle \in Deliveries
    BY DEF Deliveries, M!Idle
  <2> QED
    BY <1>2, <1>4, <2>1 DEF M!Idle
<1>6. /\ update' \in [Delivery -> Deliveries] /\ update'[d] = u
      /\ \A e \in Delivery \ {d} : update'[e] = update[e]
      /\ IsFiniteSet(Proposing') /\ IsFiniteSet(Bringing')
      /\ Cardinality(Proposing') = Cardinality(Proposing) + One(r.new)
      /\ Cardinality(Bringing') = Cardinality(Bringing) - One(r.new)
      /\ \A e : e \in Bringing' <=> (e \in Bringing /\ e # d)
  <2>1. u.at # "update" /\ update[d].at = "update"
    BY <1>1, <1>2, <1>5
  <2>2. /\ update' \in [Delivery -> Deliveries] /\ update'[d] = u
        /\ \A e \in Delivery \ {d} : update'[e] = update[e]
        /\ IsFiniteSet(Proposing') /\ IsFiniteSet(Bringing')
        /\ Cardinality(Proposing') =
             Cardinality(Proposing) - One(update[d].at = "propose") + One(u.at = "propose")
        /\ Cardinality(Bringing') =
             Cardinality(Bringing) - One(update[d].at = "update" /\ update[d].new)
                                   + One(u.at = "update" /\ u.new)
        /\ \A e : e \in Bringing' <=> (e \in Bringing /\ e # d) \/ (e = d /\ u.at = "update" /\ u.new)
    BY <1>5, DeliveryMoves
  <2>3. /\ One(update[d].at = "propose") = 0 /\ One(u.at = "propose") = One(r.new)
        /\ One(update[d].at = "update" /\ update[d].new) = One(r.new)
        /\ One(u.at = "update" /\ u.new) = 0
    BY <1>1, <1>2, <1>5, <2>1 DEF One
  <2>4. Cardinality(Proposing) \in Nat /\ Cardinality(Bringing) \in Nat /\ One(r.new) \in Nat
    BY HowMany DEF One
  <2> QED
    BY <2>1, <2>2, <2>3, <2>4
<1>7. PICK p \in Nat, n \in Nat : p = Cardinality(Proposing) /\ n = Cardinality(Bringing)
  BY HowMany
<1>8. /\ proposed + p + n <= overlaps + cleared + 1
      /\ transcript = 0 /\ Bringing = {} => proposed + p + n <= overlaps + cleared
      /\ transcript # 0 \/ (\E e \in Delivery : Known(e)) => proposed + p + mishaps >= 1
  BY <1>7 DEF MeetingInv, Proposals
<1>9. /\ transcript \in Nat /\ proposed \in Nat /\ overlaps \in Nat /\ cleared \in Nat
      /\ updates \in Nat /\ mishaps \in Nat
      /\ transcript' \in Nat /\ cleared' \in Nat /\ cleared' >= cleared
      /\ transcript # 0 /\ transcript' = 0 => cleared' = cleared + 1
  BY <1>2, <1>4 DEF MeetingInv
<1>10. Proposals' = proposed + p + n
  <2>1. One(r.new) \in {0, 1}
    BY DEF One
  <2> QED
    BY <1>4, <1>6, <1>7, <1>9, <2>1 DEF Proposals
<1>11. r.new => transcript' # 0
  BY <1>3, <1>4
<1>12. d \notin Bringing <=> ~r.new
  BY <1>1, <1>2 DEF Bringing
<1>13. Proposals' <= overlaps' + cleared' + 1
  BY <1>4, <1>8, <1>9, <1>10
<1>14. transcript' = 0 /\ Bringing' = {} => Proposals' <= overlaps' + cleared'
  <2> SUFFICES ASSUME transcript' = 0, Bringing' = {} PROVE proposed + p + n <= overlaps + cleared'
    BY <1>4, <1>10
  <2>1. Bringing = {}
    BY <1>6, <1>11, <1>12
  <2>2. CASE transcript = 0
    <3>1. cleared' = cleared
      BY <1>4, <2>2
    <3> QED
      BY <1>8, <2>1, <2>2, <3>1
  <2>3. CASE transcript # 0
    <3>1. cleared' = cleared + 1
      BY <1>9, <2>3
    <3> QED
      BY <1>8, <1>9, <3>1
  <2> QED
    BY <2>2, <2>3
<1>15. transcript' # 0 \/ (\E e \in Delivery : Known(e)') =>
         proposed' + Cardinality(Proposing') + mishaps' >= 1
  <2>1. CASE r.new
    BY <1>4, <1>6, <1>7, <1>9, <2>1 DEF One
  <2>2. CASE ~r.new
    <3>1. \A e \in Delivery : Known(e)' => Known(e)
      BY <1>2, <1>5, <1>6, <2>2 DEF Known
    <3>2. transcript' # 0 => transcript # 0 \/ Known(d)
      BY <1>1, <1>2, <1>4, <2>2 DEF Known
    <3>3. Cardinality(Proposing') = p
      BY <1>6, <1>7, <2>2 DEF One
    <3> QED
      BY <1>4, <1>8, <3>1, <3>2, <3>3
  <2> QED
    BY <1>2, <2>1, <2>2
<1>16. \A e \in Delivery : update'[e].at = "update" =>
         (update'[e].new => update'[e].transcript = "value") /\ update'[e].id # 0
  <2> TAKE e \in Delivery
  <2>1. CASE e = d
    BY <1>2, <1>5, <1>6, <2>1
  <2>2. CASE e # d
    BY <1>6, <2>2 DEF MeetingInv
  <2> QED
    BY <2>1, <2>2
<1> QED
  BY <1>4, <1>6, <1>9, <1>13, <1>14, <1>15, <1>16 DEF MeetingInv

LEMMA EndKeepsMeeting ==
  ASSUME MeetingInv, NEW d \in Delivery, M!Propose(d) \/ M!Fail(d)
  PROVE  MeetingInv'
<1>1. PICK r \in Deliveries : r = update[d]
  BY DEF MeetingInv
<1>2. M!Idle \in Deliveries /\ M!Idle.at = "idle"
  BY DEF M!Idle, Deliveries
<1>3. M!Go(d, M!Idle) /\ UNCHANGED <<transcript, updates, overlaps, cleared>>
  BY DEF M!Propose, M!Fail, M!counters
<1>4. /\ update' \in [Delivery -> Deliveries] /\ update'[d] = M!Idle
      /\ \A e \in Delivery \ {d} : update'[e] = update[e]
      /\ IsFiniteSet(Proposing') /\ IsFiniteSet(Bringing')
      /\ Cardinality(Proposing') = Cardinality(Proposing) - One(r.at = "propose")
      /\ Cardinality(Bringing') = Cardinality(Bringing) - One(r.at = "update" /\ r.new)
      /\ \A e : e \in Bringing' <=> (e \in Bringing /\ e # d)
  <2>1. PICK u \in Deliveries : u = M!Idle /\ u.at = "idle"
    BY <1>2
  <2>2. /\ update' \in [Delivery -> Deliveries] /\ update'[d] = u
        /\ \A e \in Delivery \ {d} : update'[e] = update[e]
        /\ IsFiniteSet(Proposing') /\ IsFiniteSet(Bringing')
        /\ Cardinality(Proposing') =
             Cardinality(Proposing) - One(update[d].at = "propose") + One(u.at = "propose")
        /\ Cardinality(Bringing') =
             Cardinality(Bringing) - One(update[d].at = "update" /\ update[d].new)
                                   + One(u.at = "update" /\ u.new)
        /\ \A e : e \in Bringing' <=> (e \in Bringing /\ e # d) \/ (e = d /\ u.at = "update" /\ u.new)
    BY <1>3, <2>1, DeliveryMoves
  <2>3. One(u.at = "propose") = 0 /\ One(u.at = "update" /\ u.new) = 0
    BY <2>1 DEF One
  <2>4. /\ Cardinality(Proposing) \in Nat /\ Cardinality(Bringing) \in Nat
        /\ One(r.at = "propose") \in Nat /\ One(r.at = "update" /\ r.new) \in Nat
    BY HowMany DEF One
  <2> QED
    BY <1>1, <2>1, <2>2, <2>3, <2>4
<1>5. PICK p \in Nat, n \in Nat : p = Cardinality(Proposing) /\ n = Cardinality(Bringing)
  BY HowMany
<1>6. /\ proposed + p + n <= overlaps + cleared + 1
      /\ transcript = 0 /\ Bringing = {} => proposed + p + n <= overlaps + cleared
      /\ transcript # 0 \/ (\E e \in Delivery : Known(e)) => proposed + p + mishaps >= 1
  BY <1>5 DEF MeetingInv, Proposals
<1>7. /\ transcript \in Nat /\ proposed \in Nat /\ overlaps \in Nat /\ cleared \in Nat
      /\ updates \in Nat /\ mishaps \in Nat
      /\ proposed' \in Nat /\ mishaps' \in Nat
  BY DEF MeetingInv, M!Propose, M!Fail, M!GoesWrong, M!counters
<1>8. PICK p1 \in Nat, n1 \in Nat : p1 = Cardinality(Proposing') /\ n1 = Cardinality(Bringing')
  BY <1>4, FS_CardinalityType
<1>9. /\ proposed' + p1 + n1 <= proposed + p + n
      /\ proposed' + p1 + mishaps' >= proposed + p + mishaps
      /\ d \in Bringing => proposed' + p1 + n1 <= proposed + p + n - 1
  <2>1. CASE M!Propose(d)
    <3>1. r.at = "propose" /\ proposed' = proposed + 1 /\ mishaps' = mishaps
      BY <1>1, <2>1 DEF M!Propose, M!counters
    <3>2. p1 = p - 1 /\ n1 = n /\ d \notin Bringing
      BY <1>1, <1>4, <1>5, <1>8, <3>1 DEF One, Bringing
    <3> QED
      BY <1>7, <3>1, <3>2
  <2>2. CASE M!Fail(d)
    <3>1. proposed' = proposed /\ mishaps' = mishaps + 1
      BY <2>2 DEF M!Fail, M!GoesWrong
    <3>2. p1 = p - One(r.at = "propose") /\ n1 = n - One(r.at = "update" /\ r.new)
      BY <1>4, <1>5, <1>8
    <3>3. /\ One(r.at = "propose") \in {0, 1} /\ One(r.at = "update" /\ r.new) \in {0, 1}
          /\ d \in Bringing => One(r.at = "update" /\ r.new) = 1
      BY <1>1 DEF One, Bringing
    <3> QED
      BY <1>7, <3>1, <3>2, <3>3
  <2> QED
    BY <2>1, <2>2
<1>10. PICK k \in Int : k = proposed + p + n
  BY <1>5, <1>7
<1>11. PICK k1 \in Int : k1 = proposed' + p1 + n1
  BY <1>7, <1>8
<1>12. PICK l \in Int : l = overlaps + cleared
  BY <1>7
<1>13. k1 <= k /\ (d \in Bringing => k1 <= k - 1)
  BY <1>5, <1>7, <1>8, <1>9, <1>10, <1>11
<1>14. k <= l + 1 /\ (transcript = 0 /\ Bringing = {} => k <= l)
  BY <1>6, <1>10, <1>12
<1>15. Proposals' = k1 /\ overlaps' + cleared' = l
  BY <1>3, <1>8, <1>11, <1>12 DEF Proposals
<1>16. Proposals' <= overlaps' + cleared' + 1
  <2>1. k1 <= l + 1
    BY <1>10, <1>11, <1>12, <1>13, <1>14
  <2> QED
    BY <1>15, <2>1
<1>17. transcript' = 0 /\ Bringing' = {} => Proposals' <= overlaps' + cleared'
  <2> SUFFICES ASSUME transcript = 0, Bringing' = {} PROVE k1 <= l
    BY <1>3, <1>15
  <2>1. CASE d \in Bringing
    <3>1. k1 <= k - 1 /\ k <= l + 1
      BY <1>13, <1>14, <2>1
    <3> QED
      BY <1>10, <1>11, <1>12, <3>1
  <2>2. CASE d \notin Bringing
    <3>1. Bringing = {}
      BY <1>4, <2>2
    <3>2. k1 <= k /\ k <= l
      BY <1>13, <1>14, <3>1
    <3> QED
      BY <1>10, <1>11, <1>12, <3>2
  <2> QED
    BY <2>1, <2>2
<1>18. transcript' # 0 \/ (\E e \in Delivery : Known(e)') =>
         proposed' + Cardinality(Proposing') + mishaps' >= 1
  <2>1. \A e \in Delivery : Known(e)' => Known(e)
    BY <1>2, <1>4 DEF Known
  <2> QED
    BY <1>3, <1>6, <1>7, <1>8, <1>9, <2>1
<1>19. \A e \in Delivery : update'[e].at = "update" =>
         (update'[e].new => update'[e].transcript = "value") /\ update'[e].id # 0
  <2> TAKE e \in Delivery
  <2>1. CASE e = d
    BY <1>2, <1>4, <2>1
  <2>2. CASE e # d
    BY <1>4, <2>2 DEF MeetingInv
  <2> QED
    BY <2>1, <2>2
<1> QED
  BY <1>3, <1>4, <1>7, <1>16, <1>17, <1>18, <1>19 DEF MeetingInv

\* The sweeper clears the transcript, and nothing else matters.
LEMMA SweepKeepsMeeting ==
  ASSUME MeetingInv, M!Change \/ M!SweepRead \/ M!SweepDecide \/ M!SweepClear \/ UNCHANGED M!vars
  PROVE  MeetingInv'
<1>1. /\ UNCHANGED <<update, proposed, updates, mishaps, overlaps>>
      /\ \/ transcript' = transcript /\ cleared' = cleared
         \/ transcript' = 0 /\ cleared' = IF transcript # 0 THEN cleared + 1 ELSE cleared
  BY DEF M!Change, M!SweepRead, M!SweepDecide, M!SweepClear, M!vars, M!counters
<1>2. /\ Proposing' = Proposing /\ Bringing' = Bringing /\ Proposals' = Proposals
      /\ \A e \in Delivery : Known(e)' <=> Known(e)
  BY <1>1 DEF Proposing, Bringing, Proposals, Known
<1>3. PICK k \in Int : k = Proposals
  <2>1. proposed \in Nat
    BY DEF MeetingInv
  <2> QED
    BY <2>1, HowMany DEF Proposals
<1>4. CASE transcript' = transcript /\ cleared' = cleared
  BY <1>1, <1>2, <1>4 DEF MeetingInv
<1>5. CASE transcript' = 0 /\ cleared' = IF transcript # 0 THEN cleared + 1 ELSE cleared
  <2>1. /\ overlaps \in Nat /\ cleared \in Nat /\ cleared' \in Nat
        /\ k <= overlaps + cleared + 1
        /\ transcript = 0 /\ Bringing = {} => k <= overlaps + cleared
    BY <1>3, <1>5 DEF MeetingInv
  <2>2. k <= overlaps + cleared' + 1 /\ (Bringing = {} => k <= overlaps + cleared')
    BY <1>5, <2>1
  <2> QED
    BY <1>1, <1>2, <1>3, <1>5, <2>1, <2>2 DEF MeetingInv
<1> QED
  BY <1>1, <1>4, <1>5

LEMMA MeetingGoesOn == MeetingInv /\ [M!Next]_M!vars => MeetingInv'
BY ReadKeepsMeeting, StoreKeepsMeeting, EndKeepsMeeting, SweepKeepsMeeting DEF M!Next

LEMMA MeetingHolds == M!Spec => []MeetingInv
BY MeetingStarts, MeetingGoesOn, PTL DEF M!Spec

\* The actions of a meeting are proposed once, but for deliveries that overlapped
\* and transcripts that were cleared, and they are proposed if a transcript is
\* there, unless something failed (ProposedOnce): for any number of calls of the
\* webhook, whenever the sweeper runs.
THEOREM MeetingProposedOnce == M!Spec => []M!ProposedOnce
<1>1. ASSUME MeetingInv PROVE M!ProposedOnce
  <2>1. M!UnderWay = Cardinality(Proposing)
    <3>1. M!Cardinality(Proposing) = Cardinality(Proposing)
      BY DEF M!Cardinality, Cardinality
    <3> QED
      BY <3>1 DEF M!UnderWay, Proposing
  <2>2. /\ Cardinality(Proposing) \in Nat /\ Cardinality(Bringing) \in Nat
        /\ proposed \in Nat /\ overlaps \in Nat /\ cleared \in Nat
        /\ proposed + Cardinality(Proposing) + Cardinality(Bringing) <= overlaps + cleared + 1
        /\ transcript # 0 => proposed + Cardinality(Proposing) + mishaps >= 1
    BY <1>1, HowMany DEF MeetingInv, Proposals
  <2> QED
    BY <2>1, <2>2 DEF M!ProposedOnce
<1> QED
  BY <1>1, MeetingHolds, PTL
===============================================================================
