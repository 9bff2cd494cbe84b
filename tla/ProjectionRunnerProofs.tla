------------------------ MODULE ProjectionRunnerProofs ------------------------
(***************************************************************************)
(* Proofs about ProjectionRunner for every set of calls and writers, every *)
(* log, page size and number of failures, as long as nothing drives the    *)
(* projection during a reset (RebuildAlone).  What a reader of the rows    *)
(* sees (EffectivelyOnce, NothingSkipped) is not inductive: it says        *)
(* nothing of the call that holds the lock.  IInv adds that this call has  *)
(* read from the committed checkpoint on, in order, and left nothing out,  *)
(* and that what lies below a position that was read is committed or       *)
(* counted as overtaken.  At the end, what is kept up to date behind other *)
(* state: the embedding of a search row (EmbeddingInv), the copy of an     *)
(* external calendar (CalendarInv) and the lists and forms of the web      *)
(* client's panels (PanelsInv).                                            *)
(***************************************************************************)
EXTENDS ProjectionRunner, FiniteSets, FiniteSetTheorems, TLAPS

Reading == {"read", "apply", "commit"}
Holding == {"checkpoint"} \union Reading

\* The calls past TakeLock are the one that has the lock.
LockHeld == \A r \in Runner : rpc[r] \in Holding <=> lock = r

\* A reset runs alone, and deletes all the rows there are.
ResetAlone ==
  \A r \in Runner :
    /\ rpc[r] \in Resetting => \A q \in Runner \ {r} : rpc[q] = "idle"
    /\ rpc[r] = "restart" => doomed[r] = Len(applied)
    /\ rpc[r] = "rewind" => doomed[r] = Len(applied)

Ascending(s) == \A i, j \in DOMAIN s : i < j => s[i] < s[j]

\* What lies at or below position n was committed by the time something later
\* was read, or is counted as overtaken.
Passed(n) == \A p \in Positions : p <= n => p \in visible \union overtaken

\* The rows of an open transaction come after the committed ones, in order.
OwnRowsInOrder(r) ==
  /\ Ascending(mine[r])
  /\ \A i \in DOMAIN mine[r] :
       /\ mine[r][i] \in visible \intersect Handled
       /\ checkpoint < mine[r][i]

\* How far the call has come: from the checkpoint up to its cursor everything is
\* dealt with, and nothing after it until a page is read.
ReadUpToCursor(r) ==
  /\ checkpoint <= cursor[r]
  /\ ~wrote[r] => cursor[r] = checkpoint
  /\ Passed(cursor[r])
  /\ \A p \in visible \intersect Handled :
       checkpoint < p /\ p <= cursor[r] => p \in RowsOf(mine[r]) \union overtaken
  /\ rpc[r] # "apply" => \A i \in DOMAIN mine[r] : mine[r][i] <= cursor[r]

\* The page in hand lies after the cursor; its first events are applied.
PageInHand(r) ==
  /\ cursor[r] < pageEnd[r]
  /\ Passed(pageEnd[r])
  /\ \A p \in page[r] : p \in visible /\ cursor[r] < p /\ p <= pageEnd[r]
  /\ \A i \in DOMAIN mine[r] :
       mine[r][i] <= pageEnd[r] /\ \A p \in page[r] : mine[r][i] < p
  /\ \A p \in visible \intersect Handled :
       cursor[r] < p /\ p <= pageEnd[r] => p \in page[r] \union RowsOf(mine[r]) \union overtaken

InOrder(r) ==
  /\ rpc[r] \in Reading => OwnRowsInOrder(r) /\ ReadUpToCursor(r)
  /\ rpc[r] = "apply" => PageInHand(r)
  /\ rpc[r] \notin Reading => mine[r] = <<>>
  /\ wrote[r] => rpc[r] \in Reading \union {"restart"}

IInv ==
  /\ TypeOK
  /\ LockHeld
  /\ ResetAlone
  /\ \A r \in Runner : InOrder(r)
  /\ Passed(checkpoint)
  /\ EffectivelyOnce
  /\ NothingSkipped

-------------------------------------------------------------------------------
\* The initial state has nothing read and nothing applied.
LEMMA InitIInv == Init => IInv
<1> SUFFICES ASSUME Init PROVE IInv
  OBVIOUS
<1> USE RunnerAssumption
<1>1. TypeOK
  BY DEF Init, FeedInit, TypeOK, Positions, CatchingUp
<1>2. LockHeld /\ ResetAlone /\ \A r \in Runner : InOrder(r)
  BY DEF Init, LockHeld, ResetAlone, InOrder, Holding, Reading, Resetting
<1>3. Passed(checkpoint) /\ EffectivelyOnce /\ NothingSkipped
  BY DEF Init, FeedInit, Passed, Positions, EffectivelyOnce, NothingSkipped
<1> QED
  BY <1>1, <1>2, <1>3 DEF IInv

\* What writers do keeps the types.
LEMMA FeedKeepsTypes ==
  ASSUME TypeOK, FeedStep, UNCHANGED runnerVars
  PROVE  TypeOK'
<1> USE RunnerAssumption
<1>1. PICK w \in Writer : \/ Draw(w)
                         \/ \E P \in SUBSET open[w] : Drop(w, P)
                         \/ Publish(w)
  BY DEF FeedStep
<1>2. nextPos' \in Nat \ {0} /\ open' \in [Writer -> SUBSET Positions] /\ visible' \subseteq Positions
  <2>1. CASE Draw(w)
    BY <2>1 DEF Draw, TypeOK, Positions
  <2>2. CASE \E P \in SUBSET open[w] : Drop(w, P)
    BY <2>2 DEF Drop, TypeOK
  <2>3. CASE Publish(w)
    BY <2>3 DEF Publish, TypeOK
  <2> QED
    BY <1>1, <2>1, <2>2, <2>3
<1> QED
  BY <1>2 DEF TypeOK, runnerVars

\* So does the end of a transaction, which clears what the call holds.
LEMMA LeaveKeepsTypes ==
  ASSUME TypeOK, NEW r \in Runner, NEW label \in {"idle", "lock"}, Leave(r, label),
         UNCHANGED <<feedVars, overtaken>>, checkpoint' \in Nat,
         applied' \in Seq(Positions), failures' \in 0..MaxFailures
  PROVE  TypeOK'
<1>1. rpc' \in [Runner -> {"idle"} \union CatchingUp \union Resetting]
  BY DEF TypeOK, Leave, Goto, CatchingUp
<1>2. lock' \in Runner \union {Nobody} /\ page' \in [Runner -> SUBSET Positions]
  BY DEF TypeOK, Leave
<1>3. /\ cursor' \in [Runner -> Nat] /\ pageEnd' \in [Runner -> Nat]
      /\ doomed' \in [Runner -> Nat]
  BY DEF TypeOK, Leave
<1>4. lastPage' \in [Runner -> BOOLEAN] /\ wrote' \in [Runner -> BOOLEAN]
  BY DEF TypeOK, Leave
<1>5. mine' \in [Runner -> Seq(Positions)]
  BY DEF TypeOK, Leave
<1>6. nextPos' \in Nat \ {0} /\ open' \in [Writer -> SUBSET Positions]
      /\ visible' \subseteq Positions /\ overtaken' \subseteq Positions
  BY DEF TypeOK, feedVars
<1> QED
  BY <1>1, <1>2, <1>3, <1>4, <1>5, <1>6 DEF TypeOK

\* And so does every step of a call.
LEMMA CallKeepsTypes ==
  ASSUME TypeOK, NEW r \in Runner,
         CatchUp(r) \/ Rebuild(r) \/ RunnerStep(r) \/ Fail(r)
  PROVE  TypeOK'
<1> USE RunnerAssumption
<1>1. CASE CatchUp(r)
  BY <1>1 DEF TypeOK, CatchUp, Goto, feedVars, CatchingUp
<1>2. CASE Rebuild(r)
  BY <1>2 DEF TypeOK, Rebuild, Goto, feedVars, Resetting
<1>3. CASE TakeLock(r)
  BY <1>3 DEF TypeOK, TakeLock, Goto, feedVars, CatchingUp
<1>4. CASE ReadCheckpoint(r)
  BY <1>4 DEF TypeOK, ReadCheckpoint, Goto, feedVars, CatchingUp
<1>5. CASE ReadPage(r)
  <2>1. PICK P \in SUBSET visible :
          /\ page' = [page EXCEPT ![r] = P]
          /\ IF P = {}
               THEN Goto(r, "commit") /\ UNCHANGED <<pageEnd, lastPage, overtaken>>
               ELSE /\ Goto(r, "apply")
                    /\ \E last \in P :
                         /\ \A p \in P : p <= last
                         /\ pageEnd' = [pageEnd EXCEPT ![r] = last]
                         /\ overtaken' = overtaken \union ((1..last) \ visible)
                    /\ lastPage' = [lastPage EXCEPT ![r] = Cardinality(P) < PageSize]
    BY <1>5 DEF ReadPage
  <2>2. page' \in [Runner -> SUBSET Positions] /\ P \subseteq Positions
    BY <2>1 DEF TypeOK
  <2>3. rpc' \in [Runner -> {"idle"} \union CatchingUp \union Resetting]
    BY <2>1 DEF TypeOK, Goto, CatchingUp
  <2>4. lastPage' \in [Runner -> BOOLEAN]
    <3> DEFINE full == Cardinality(P) < PageSize
    <3>1. full \in BOOLEAN
      OBVIOUS
    <3>2. UNCHANGED lastPage \/ lastPage' = [lastPage EXCEPT ![r] = full]
      BY <2>1
    <3> HIDE DEF full
    <3> QED
      BY <3>1, <3>2 DEF TypeOK
  <2>5. pageEnd' \in [Runner -> Nat] /\ overtaken' \subseteq Positions
    <3>1. CASE P = {}
      BY <2>1, <3>1 DEF TypeOK
    <3>2. CASE P # {}
      <4>1. PICK last \in P : /\ pageEnd' = [pageEnd EXCEPT ![r] = last]
                             /\ overtaken' = overtaken \union ((1..last) \ visible)
        BY <2>1, <3>2
      <4>2. last \in Nat /\ 1..last \subseteq Positions
        BY <2>2 DEF Positions
      <4> QED
        BY <4>1, <4>2 DEF TypeOK
    <3> QED
      BY <3>1, <3>2
  <2>6. UNCHANGED <<nextPos, open, visible, checkpoint, applied, lock, cursor, mine, wrote,
                    doomed, failures>>
    BY <1>5 DEF ReadPage, feedVars
  <2> QED
    BY <2>2, <2>3, <2>4, <2>5, <2>6 DEF TypeOK
<1>6. CASE Apply(r)
  <2>1. PICK p \in page[r] :
          /\ page' = [page EXCEPT ![r] = @ \ {p}]
          /\ mine' = IF p \in Handled THEN [mine EXCEPT ![r] = Append(@, p)] ELSE mine
    BY <1>6 DEF Apply
  <2>2. mine' \in [Runner -> Seq(Positions)]
    <3>1. p \in Positions /\ mine[r] \in Seq(Positions)
      BY DEF TypeOK
    <3>2. Append(mine[r], p) \in Seq(Positions)
      BY <3>1
    <3> QED
      BY <2>1, <3>2 DEF TypeOK
  <2> QED
    BY <1>6, <2>1, <2>2 DEF TypeOK, Apply, feedVars
<1>7. CASE WriteCheckpoint(r)
  BY <1>7 DEF TypeOK, WriteCheckpoint, Goto, feedVars, CatchingUp
<1>8. CASE Commit(r)
  <2>1. applied \o mine[r] \in Seq(Positions)
    BY DEF TypeOK
  <2> QED
    BY <1>8, <2>1, LeaveKeepsTypes DEF Commit, TypeOK
<1>9. CASE Reset(r)
  BY <1>9 DEF TypeOK, Reset, Goto, feedVars, Resetting
<1>10. CASE Rewind(r)
  BY <1>10 DEF TypeOK, Rewind, Goto, feedVars, Resetting
<1>11. CASE CommitReset(r)
  <2>1. SubSeq(applied, doomed[r] + 1, Len(applied)) \in Seq(Positions)
    BY DEF TypeOK
  <2> QED
    BY <1>11, <2>1, LeaveKeepsTypes DEF CommitReset, TypeOK
<1>12. CASE Fail(r)
  <2>1. failures' \in 0..MaxFailures
    BY <1>12 DEF TypeOK, Fail
  <2> QED
    BY <1>12, <2>1, LeaveKeepsTypes DEF Fail, TypeOK
<1> QED
  BY <1>1, <1>2, <1>3, <1>4, <1>5, <1>6, <1>7, <1>8, <1>9, <1>10, <1>11, <1>12
     DEF RunnerStep

-------------------------------------------------------------------------------
\* A step of one call leaves the others in order, if it changes nothing they hold
\* and the checkpoint only while they do not read.
LEMMA OthersStayInOrder ==
  ASSUME IInv, NEW q \in Runner, visible' = visible, overtaken \subseteq overtaken',
         rpc'[q] = rpc[q], cursor'[q] = cursor[q], page'[q] = page[q],
         pageEnd'[q] = pageEnd[q], mine'[q] = mine[q], wrote'[q] = wrote[q],
         checkpoint' = checkpoint \/ rpc[q] \notin Reading
  PROVE  InOrder(q)'
<1>1. InOrder(q)
  BY DEF IInv
<1>2. rpc[q] \notin Reading => InOrder(q)'
  BY <1>1 DEF InOrder, Reading
<1>3. ASSUME rpc[q] \in Reading PROVE InOrder(q)'
  <2>1. checkpoint' = checkpoint /\ cursor[q] \in Nat /\ pageEnd[q] \in Nat
    BY <1>3 DEF IInv, TypeOK
  <2>2. Passed(cursor[q])' /\ (rpc[q] = "apply" => Passed(pageEnd[q])')
    <3>1. Passed(cursor[q]) /\ (rpc[q] = "apply" => Passed(pageEnd[q]))
      BY <1>1, <1>3 DEF InOrder, ReadUpToCursor, PageInHand
    <3> QED
      BY <2>1, <3>1 DEF Passed, Positions
  <2>3. OwnRowsInOrder(q)'
    BY <1>1, <1>3, <2>1 DEF InOrder, OwnRowsInOrder, Ascending
  <2>4. ReadUpToCursor(q)'
    BY <1>1, <1>3, <2>1, <2>2 DEF InOrder, ReadUpToCursor, RowsOf
  <2>5. rpc[q] = "apply" => PageInHand(q)'
    BY <1>1, <1>3, <2>1, <2>2 DEF InOrder, PageInHand, RowsOf
  <2> QED
    BY <1>1, <1>3, <2>3, <2>4, <2>5 DEF InOrder
<1> QED
  BY <1>2, <1>3

\* What becomes visible below a position that was read was counted as overtaken.
LEMMA FeedKeepsIInv ==
  ASSUME IInv, FeedStep, UNCHANGED runnerVars
  PROVE  IInv'
<1>1. visible \subseteq visible' /\ visible' \subseteq Positions
  BY DEF FeedStep, Draw, Drop, Publish, IInv, TypeOK
<1>2. TypeOK'
  BY FeedKeepsTypes DEF IInv
<1>3. LockHeld' /\ ResetAlone'
  BY DEF IInv, LockHeld, ResetAlone, runnerVars
<1>4. Passed(checkpoint)' /\ EffectivelyOnce' /\ NothingSkipped'
  <2>1. checkpoint \in Nat /\ Passed(checkpoint)
    BY DEF IInv, TypeOK
  <2>2. /\ \A p \in visible' : p <= checkpoint => p \in visible \union overtaken
        /\ Passed(checkpoint)'
    BY <1>1, <2>1 DEF Passed, runnerVars
  <2> QED
    BY <1>1, <2>2 DEF IInv, EffectivelyOnce, NothingSkipped, runnerVars
<1>5. ASSUME NEW q \in Runner PROVE InOrder(q)'
  <2>1. InOrder(q) /\ cursor[q] \in Nat /\ pageEnd[q] \in Nat
    BY DEF IInv, TypeOK
  <2>2. ASSUME rpc[q] \in Reading PROVE OwnRowsInOrder(q)' /\ ReadUpToCursor(q)'
    <3>1. OwnRowsInOrder(q)'
      BY <1>1, <2>1, <2>2 DEF InOrder, OwnRowsInOrder, Ascending, runnerVars
    <3>2. Passed(cursor[q])
      BY <2>1, <2>2 DEF InOrder, ReadUpToCursor
    <3>3. /\ \A p \in visible' : p <= cursor[q] => p \in visible \union overtaken
          /\ Passed(cursor[q])'
      BY <1>1, <3>2 DEF Passed, runnerVars
    <3>4. ReadUpToCursor(q)'
      BY <1>1, <2>1, <2>2, <3>3 DEF InOrder, ReadUpToCursor, RowsOf, runnerVars
    <3> QED
      BY <3>1, <3>4
  <2>3. ASSUME rpc[q] = "apply" PROVE PageInHand(q)'
    <3>1. Passed(pageEnd[q]) /\ PageInHand(q)
      BY <2>1, <2>3 DEF InOrder, PageInHand
    <3>2. /\ \A p \in visible' : p <= pageEnd[q] => p \in visible \union overtaken
          /\ Passed(pageEnd[q])'
      BY <1>1, <3>1 DEF Passed, runnerVars
    <3> QED
      BY <1>1, <2>1, <3>1, <3>2 DEF PageInHand, RowsOf, runnerVars
  <2> QED
    BY <2>1, <2>2, <2>3 DEF InOrder, runnerVars
<1> QED
  BY <1>2, <1>3, <1>4, <1>5 DEF IInv

-------------------------------------------------------------------------------
\* The committed part is as it was when neither rows nor checkpoint change.
LEMMA CommittedUnchanged ==
  ASSUME IInv, visible' = visible, overtaken \subseteq overtaken',
         applied' = applied, checkpoint' = checkpoint
  PROVE  Passed(checkpoint)' /\ EffectivelyOnce' /\ NothingSkipped'
BY DEF IInv, Passed, EffectivelyOnce, NothingSkipped, RowsOf

\* A call that begins, or the reset before it, holds nothing yet; with RebuildAlone
\* neither begins during a reset, nor a reset during a call.
LEMMA BeginKeepsIInv ==
  ASSUME IInv, RebuildAlone, NEW r \in Runner, CatchUp(r) \/ Rebuild(r)
  PROVE  IInv'
<1>1. TypeOK'
  BY CallKeepsTypes DEF IInv
<1>2. /\ rpc[r] = "idle"
      /\ \/ rpc' = [rpc EXCEPT ![r] = "lock"] /\ \A q \in Runner : rpc[q] \notin Resetting
         \/ rpc' = [rpc EXCEPT ![r] = "reset"] /\ \A q \in Runner : rpc[q] = "idle"
      /\ UNCHANGED <<feedVars, checkpoint, applied, lock, cursor, page, pageEnd,
                      lastPage, mine, wrote, doomed, overtaken, failures>>
  BY DEF CatchUp, Rebuild, Goto
<1>3. LockHeld'
  BY <1>2 DEF IInv, TypeOK, LockHeld, Holding, Reading
<1>4. ResetAlone'
  BY <1>2, SMTT(30) DEF IInv, TypeOK, ResetAlone, Resetting
<1>5. \A q \in Runner : InOrder(q)'
  <2>1. InOrder(r)'
    BY <1>2 DEF IInv, TypeOK, InOrder, Reading
  <2> QED
    BY <1>2, <2>1, OthersStayInOrder DEF IInv, TypeOK, feedVars
<1> QED
  BY <1>1, <1>2, <1>3, <1>4, <1>5, CommittedUnchanged DEF IInv, feedVars

\* The call that gets the lock starts from the committed checkpoint.
LEMMA StartKeepsIInv ==
  ASSUME IInv, NEW r \in Runner, TakeLock(r) \/ ReadCheckpoint(r)
  PROVE  IInv'
<1>1. TypeOK'
  BY CallKeepsTypes DEF IInv, RunnerStep
<1>2. /\ rpc[r] \in {"lock", "checkpoint"}
      /\ rpc' = [rpc EXCEPT ![r] = IF rpc[r] = "lock" THEN "checkpoint" ELSE "read"]
      /\ IF rpc[r] = "lock" THEN lock = Nobody /\ lock' = r /\ cursor' = cursor
                            ELSE lock' = lock /\ cursor' = [cursor EXCEPT ![r] = checkpoint]
      /\ UNCHANGED <<feedVars, checkpoint, applied, page, pageEnd, lastPage, mine,
                      wrote, doomed, overtaken, failures>>
  BY DEF TakeLock, ReadCheckpoint, Goto
<1>3. LockHeld'
  BY <1>2, RunnerAssumption DEF IInv, TypeOK, LockHeld, Holding, Reading
<1>4. ResetAlone'
  BY <1>2 DEF IInv, TypeOK, ResetAlone, Resetting
<1>5. InOrder(r)'
  <2>1. InOrder(r) /\ mine[r] = <<>> /\ ~wrote[r]
    BY <1>2 DEF IInv, InOrder, Reading
  <2>2. CASE rpc[r] = "lock"
    BY <1>2, <2>1, <2>2 DEF IInv, TypeOK, InOrder, Reading
  <2>3. CASE rpc[r] = "checkpoint"
    <3>1. rpc'[r] = "read" /\ cursor'[r] = checkpoint /\ mine'[r] = <<>> /\ ~wrote'[r]
      BY <1>2, <2>1, <2>3 DEF IInv, TypeOK
    <3>2. Passed(cursor[r])' /\ checkpoint \in Nat
      BY <1>2, <3>1 DEF IInv, TypeOK, Passed, feedVars
    <3> QED
      BY <1>2, <3>1, <3>2 DEF IInv, TypeOK, InOrder, OwnRowsInOrder, ReadUpToCursor,
                              Ascending, RowsOf, feedVars, Positions
  <2> QED
    BY <1>2, <2>2, <2>3
<1>6. ASSUME NEW q \in Runner PROVE InOrder(q)'
  BY <1>2, <1>5, OthersStayInOrder DEF IInv, TypeOK, feedVars
<1> QED
  BY <1>1, <1>2, <1>3, <1>4, <1>6, CommittedUnchanged DEF IInv, feedVars

\* A page begins right after the cursor, and leaves out nothing that is visible up
\* to its end.
LEMMA ReadPageKeepsIInv ==
  ASSUME IInv, NEW r \in Runner, ReadPage(r)
  PROVE  IInv'
<1>1. TypeOK'
  BY CallKeepsTypes DEF IInv, RunnerStep
<1>2. PICK P \in SUBSET visible :
        /\ IsPage(P, cursor[r])
        /\ page' = [page EXCEPT ![r] = P]
        /\ IF P = {}
             THEN Goto(r, "commit") /\ UNCHANGED <<pageEnd, lastPage, overtaken>>
             ELSE /\ Goto(r, "apply")
                  /\ \E last \in P :
                       /\ \A p \in P : p <= last
                       /\ pageEnd' = [pageEnd EXCEPT ![r] = last]
                       /\ overtaken' = overtaken \union ((1..last) \ visible)
  BY DEF ReadPage
<1>3. /\ rpc[r] = "read"
      /\ rpc' = [rpc EXCEPT ![r] = IF P = {} THEN "commit" ELSE "apply"]
      /\ overtaken \subseteq overtaken'
      /\ UNCHANGED <<feedVars, checkpoint, applied, lock, cursor, mine, wrote, doomed, failures>>
      /\ \A q \in Runner \ {r} : page'[q] = page[q] /\ pageEnd'[q] = pageEnd[q]
  BY <1>2 DEF ReadPage, Goto, IInv, TypeOK
<1>4. LockHeld' /\ ResetAlone'
  BY <1>3 DEF IInv, TypeOK, LockHeld, Holding, Reading, ResetAlone, Resetting
<1>5. InOrder(r)'
  <2>1. InOrder(r) /\ cursor[r] \in Nat /\ OwnRowsInOrder(r) /\ ReadUpToCursor(r)
    BY <1>3 DEF IInv, TypeOK, InOrder, Reading
  <2>2. Passed(cursor[r])'
    BY <1>3, <2>1 DEF ReadUpToCursor, Passed, feedVars
  <2>3. OwnRowsInOrder(r)' /\ ReadUpToCursor(r)'
    BY <1>3, <2>1, <2>2 DEF OwnRowsInOrder, ReadUpToCursor, Ascending, RowsOf, feedVars
  <2>4. rpc'[r] = "apply" => PageInHand(r)'
    <3> SUFFICES ASSUME P # {} PROVE PageInHand(r)'
      BY <1>3 DEF IInv, TypeOK
    <3>1. PICK last \in P : /\ \A p \in P : p <= last
                           /\ pageEnd' = [pageEnd EXCEPT ![r] = last]
                           /\ overtaken' = overtaken \union ((1..last) \ visible)
      BY <1>2
    <3>2. P \subseteq Positions /\ visible \subseteq Positions
      BY DEF IInv, TypeOK
    <3>3. page'[r] = P /\ pageEnd'[r] = last /\ cursor'[r] = cursor[r] /\ mine'[r] = mine[r]
      BY <1>2, <1>3, <3>1 DEF IInv, TypeOK
    <3>4. \A p \in P : cursor[r] < p
      BY <1>2, <2>1, <3>2 DEF IsPage, Positions
    <3>5. Passed(last)'
      BY <1>3, <3>1, <3>2 DEF Passed, Positions, feedVars
    <3>6. \A p \in visible : cursor[r] < p /\ p <= last => p \in P
      BY <1>2, <2>1, <3>1, <3>2 DEF IsPage, Positions
    <3>7. ASSUME NEW i \in DOMAIN mine[r]
          PROVE  mine[r][i] <= last /\ \A p \in P : mine[r][i] < p
      <4>1. mine[r][i] <= cursor[r] /\ mine[r][i] \in Positions
        <5>1. mine[r][i] <= cursor[r]
          BY <1>3, <2>1 DEF ReadUpToCursor
        <5>2. mine[r][i] \in visible
          BY <2>1 DEF OwnRowsInOrder
        <5> QED
          BY <3>2, <5>1, <5>2
      <4>2. last \in Nat /\ \A p \in P : p \in Nat /\ cursor[r] < p
        BY <3>1, <3>2, <3>4 DEF Positions
      <4>3. mine[r][i] \in Nat /\ cursor[r] \in Nat
        BY <4>1 DEF Positions, IInv, TypeOK
      <4> QED
        BY <4>1, <4>2, <4>3
    <3> QED
      BY <1>3, <3>1, <3>3, <3>4, <3>5, <3>6, <3>7 DEF PageInHand, feedVars
  <2> QED
    BY <1>3, <2>1, <2>3, <2>4 DEF InOrder, IInv, TypeOK, Reading
<1>6. ASSUME NEW q \in Runner PROVE InOrder(q)'
  BY <1>3, <1>5, OthersStayInOrder DEF IInv, TypeOK, feedVars
<1> QED
  BY <1>1, <1>3, <1>4, <1>6, CommittedUnchanged DEF IInv, feedVars

\* The next event of the page comes after the rows of the transaction.
LEMMA ApplyKeepsIInv ==
  ASSUME IInv, NEW r \in Runner, Apply(r)
  PROVE  IInv'
<1> DEFINE s == mine[r]
<1>1. TypeOK'
  BY CallKeepsTypes DEF IInv, RunnerStep
<1>2. PICK p \in page[r] :
        /\ \A q \in page[r] : p <= q
        /\ page' = [page EXCEPT ![r] = @ \ {p}]
        /\ mine' = IF p \in Handled THEN [mine EXCEPT ![r] = Append(@, p)] ELSE mine
  BY DEF Apply
<1>3. /\ rpc[r] = "apply"
      /\ UNCHANGED <<feedVars, checkpoint, applied, lock, rpc, cursor, pageEnd, lastPage,
                      wrote, doomed, overtaken, failures>>
      /\ \A q \in Runner \ {r} : page'[q] = page[q] /\ mine'[q] = mine[q]
      /\ page'[r] = page[r] \ {p}
      /\ mine'[r] = IF p \in Handled THEN Append(s, p) ELSE s
  BY <1>2 DEF Apply, IInv, TypeOK
<1>4. LockHeld' /\ ResetAlone'
  BY <1>3 DEF IInv, LockHeld, ResetAlone
<1>5. InOrder(r)'
  <2>1. OwnRowsInOrder(r) /\ ReadUpToCursor(r) /\ PageInHand(r)
    BY <1>3 DEF IInv, InOrder, Reading
  <2>2. /\ s \in Seq(Positions) /\ page[r] \subseteq Positions /\ p \in Positions
        /\ checkpoint \in Nat /\ cursor[r] \in Nat /\ pageEnd[r] \in Nat
    BY DEF IInv, TypeOK
  <2>3. /\ p \in visible /\ cursor[r] < p /\ p <= pageEnd[r]
        /\ checkpoint < p
        /\ \A i \in DOMAIN s : s[i] < p
    BY <2>1, <2>2 DEF PageInHand, ReadUpToCursor, Positions
  <2>4. RowsOf(mine'[r]) = RowsOf(s) \union (IF p \in Handled THEN {p} ELSE {})
    <3>1. CASE p \in Handled
      <4>1. DOMAIN mine'[r] = DOMAIN s \union {Len(s) + 1}
        BY <1>3, <2>2, <3>1
      <4>2. \A i \in DOMAIN s : mine'[r][i] = s[i]
        BY <1>3, <2>2, <3>1
      <4>3. mine'[r][Len(s) + 1] = p
        BY <1>3, <2>2, <3>1
      <4> QED
        BY <3>1, <4>1, <4>2, <4>3 DEF RowsOf
    <3>2. CASE p \notin Handled
      BY <1>3, <3>2 DEF RowsOf
    <3> QED
      BY <3>1, <3>2
  <2>5. ASSUME NEW i \in DOMAIN mine'[r]
        PROVE  \/ i \in DOMAIN s /\ mine'[r][i] = s[i]
               \/ i = Len(s) + 1 /\ mine'[r][i] = p /\ p \in Handled
    BY <1>3, <2>2
  <2>6. OwnRowsInOrder(r)'
    <3>1. Ascending(mine[r])'
      <4> SUFFICES ASSUME NEW i \in DOMAIN mine'[r], NEW j \in DOMAIN mine'[r], i < j
                   PROVE  mine'[r][i] < mine'[r][j]
        BY DEF Ascending
      <4>1. i \in DOMAIN s /\ mine'[r][i] = s[i]
        BY <1>3, <2>2
      <4> QED
        BY <2>1, <2>3, <2>5, <4>1 DEF OwnRowsInOrder, Ascending
    <3> QED
      BY <1>3, <2>1, <2>3, <2>5, <3>1 DEF OwnRowsInOrder, feedVars
  <2>7. ReadUpToCursor(r)'
    BY <1>3, <2>1, <2>4 DEF ReadUpToCursor, Passed, feedVars
  <2>8. PageInHand(r)'
    <3>1. ASSUME NEW i \in DOMAIN mine'[r]
          PROVE  mine'[r][i] <= pageEnd[r] /\ \A q \in page'[r] : mine'[r][i] < q
      <4>1. CASE i \in DOMAIN s /\ mine'[r][i] = s[i]
        BY <1>3, <2>1, <4>1 DEF PageInHand
      <4>2. CASE mine'[r][i] = p
        BY <1>2, <1>3, <2>2, <2>3, <4>2 DEF Positions
      <4> QED
        BY <2>5, <4>1, <4>2
    <3>2. \A q \in visible \intersect Handled :
            cursor[r] < q /\ q <= pageEnd[r] => q \in page'[r] \union RowsOf(mine'[r]) \union overtaken
      BY <1>3, <2>1, <2>4 DEF PageInHand
    <3> QED
      BY <1>3, <2>1, <3>1, <3>2 DEF PageInHand, Passed, feedVars
  <2> QED
    BY <1>3, <2>6, <2>7, <2>8 DEF InOrder, Reading
<1>6. ASSUME NEW q \in Runner PROVE InOrder(q)'
  BY <1>3, <1>5, OthersStayInOrder DEF IInv, feedVars
<1> QED
  BY <1>1, <1>3, <1>4, <1>6, CommittedUnchanged DEF IInv, feedVars

\* A page that is dealt with moves the cursor to its end.
LEMMA WriteCheckpointKeepsIInv ==
  ASSUME IInv, NEW r \in Runner, WriteCheckpoint(r)
  PROVE  IInv'
<1>1. TypeOK'
  BY CallKeepsTypes DEF IInv, RunnerStep
<1>2. /\ rpc[r] = "apply" /\ page[r] = {}
      /\ rpc'[r] \in {"commit", "read"} /\ cursor'[r] = pageEnd[r] /\ wrote'[r]
      /\ \A q \in Runner \ {r} :
           rpc'[q] = rpc[q] /\ cursor'[q] = cursor[q] /\ wrote'[q] = wrote[q]
      /\ UNCHANGED <<feedVars, checkpoint, applied, lock, page, pageEnd, lastPage, mine,
                      doomed, overtaken, failures>>
  BY DEF WriteCheckpoint, Goto, IInv, TypeOK
<1>3. LockHeld' /\ ResetAlone'
  BY <1>2 DEF IInv, LockHeld, Holding, Reading, ResetAlone, Resetting
<1>4. InOrder(r)'
  <2>1. OwnRowsInOrder(r) /\ ReadUpToCursor(r) /\ PageInHand(r)
    BY <1>2 DEF IInv, InOrder, Reading
  <2>2. /\ checkpoint \in Nat /\ cursor[r] \in Nat /\ pageEnd[r] \in Nat
        /\ visible \subseteq Positions
    BY DEF IInv, TypeOK
  <2>3. OwnRowsInOrder(r)'
    BY <1>2, <2>1 DEF OwnRowsInOrder, Ascending, feedVars
  <2>4. ReadUpToCursor(r)'
    <3>1. checkpoint <= pageEnd[r] /\ Passed(pageEnd[r])'
      BY <1>2, <2>1, <2>2 DEF ReadUpToCursor, PageInHand, Passed, feedVars
    <3>2. \A q \in visible \intersect Handled :
            checkpoint < q /\ q <= pageEnd[r] => q \in RowsOf(mine[r]) \union overtaken
      <4> SUFFICES ASSUME NEW q \in visible \intersect Handled, checkpoint < q, q <= pageEnd[r]
                   PROVE  q \in RowsOf(mine[r]) \union overtaken
        OBVIOUS
      <4>1. CASE q <= cursor[r]
        BY <2>1, <4>1 DEF ReadUpToCursor
      <4>2. CASE cursor[r] < q
        BY <1>2, <2>1, <4>2 DEF PageInHand
      <4> QED
        BY <2>2, <4>1, <4>2 DEF Positions
    <3> QED
      BY <1>2, <2>1, <3>1, <3>2 DEF ReadUpToCursor, PageInHand, RowsOf, Passed, feedVars
  <2> QED
    BY <1>2, <2>3, <2>4 DEF InOrder, Reading
<1>5. ASSUME NEW q \in Runner PROVE InOrder(q)'
  BY <1>2, <1>4, OthersStayInOrder DEF IInv, feedVars
<1> QED
  BY <1>1, <1>2, <1>3, <1>5, CommittedUnchanged DEF IInv, feedVars

-------------------------------------------------------------------------------
\* A call that leaves holds nothing any more, and nobody else did.
LEMMA LeaveKeepsOrder ==
  ASSUME IInv, NEW r \in Runner, NEW label \in {"idle", "lock"}, Leave(r, label),
         rpc[r] # "idle", label = "lock" => rpc[r] \in Resetting,
         visible' = visible, overtaken' = overtaken,
         applied' = applied \/ \A q \in Runner \ {r} : rpc[q] \notin Resetting,
         checkpoint' = checkpoint \/ \A q \in Runner \ {r} : rpc[q] \notin Reading
  PROVE  LockHeld' /\ ResetAlone' /\ \A q \in Runner : InOrder(q)'
<1>1. /\ rpc' = [rpc EXCEPT ![r] = label]
      /\ lock' = IF lock = r THEN Nobody ELSE lock
      /\ mine'[r] = <<>> /\ ~wrote'[r]
      /\ \A q \in Runner \ {r} :
           /\ cursor'[q] = cursor[q] /\ page'[q] = page[q] /\ pageEnd'[q] = pageEnd[q]
           /\ mine'[q] = mine[q] /\ wrote'[q] = wrote[q] /\ doomed'[q] = doomed[q]
  BY DEF Leave, Goto, IInv, TypeOK
<1>2. LockHeld'
  BY <1>1, RunnerAssumption DEF IInv, TypeOK, LockHeld, Holding, Reading
<1>3. ResetAlone'
  <2>1. \A q \in Runner \ {r} : rpc[q] \notin Resetting
    BY DEF IInv, ResetAlone
  <2> QED
    BY <1>1, <2>1 DEF IInv, TypeOK, ResetAlone, Resetting
<1>4. ASSUME NEW q \in Runner PROVE InOrder(q)'
  <2>1. CASE q = r
    BY <1>1, <2>1 DEF IInv, TypeOK, InOrder, Reading
  <2>2. CASE q # r
    BY <1>1, <2>2, OthersStayInOrder DEF IInv, TypeOK
  <2> QED
    BY <2>1, <2>2
<1> QED
  BY <1>2, <1>3, <1>4

\* The rows of the transaction follow the committed ones, and the checkpoint
\* moves past them together with them.
LEMMA CommitKeepsIInv ==
  ASSUME IInv, NEW r \in Runner, Commit(r)
  PROVE  IInv'
<1> DEFINE s == mine[r]
<1>1. TypeOK'
  BY CallKeepsTypes DEF IInv, RunnerStep
<1>2. /\ rpc[r] = "commit"
      /\ applied' = applied \o s
      /\ checkpoint' = IF wrote[r] THEN cursor[r] ELSE checkpoint
      /\ Leave(r, "idle")
      /\ visible' = visible /\ overtaken' = overtaken
  BY DEF Commit, feedVars
<1>3. LockHeld' /\ ResetAlone' /\ \A q \in Runner : InOrder(q)'
  <2>1. \A q \in Runner \ {r} : rpc[q] \notin Resetting /\ rpc[q] \notin Reading
    BY <1>2 DEF IInv, LockHeld, ResetAlone, Holding, Reading
  <2> QED
    BY <1>2, <2>1, LeaveKeepsOrder
<1>4. OwnRowsInOrder(r) /\ ReadUpToCursor(r)
  BY <1>2 DEF IInv, InOrder, Reading
<1>5. /\ s \in Seq(Positions) /\ applied \in Seq(Positions)
      /\ checkpoint \in Nat /\ cursor[r] \in Nat /\ wrote[r] \in BOOLEAN
  BY DEF IInv, TypeOK
<1>6. checkpoint' = cursor[r] /\ checkpoint <= cursor[r]
  BY <1>2, <1>4, <1>5 DEF ReadUpToCursor
<1>7. \A i \in DOMAIN s :
        /\ s[i] \in visible \intersect Handled /\ s[i] \in Nat
        /\ checkpoint < s[i] /\ s[i] <= cursor[r]
  <2> SUFFICES ASSUME NEW i \in DOMAIN s
               PROVE  /\ s[i] \in visible \intersect Handled /\ s[i] \in Nat
                      /\ checkpoint < s[i] /\ s[i] <= cursor[r]
    OBVIOUS
  <2>1. s[i] \in Positions
    BY <1>5
  <2>2. s[i] \in Nat
    BY <2>1 DEF Positions
  <2> QED
    BY <1>2, <1>4, <1>5, <2>2 DEF OwnRowsInOrder, ReadUpToCursor
<1>8. \A i \in DOMAIN applied :
        /\ applied[i] \in visible \intersect Handled /\ applied[i] \in Nat
        /\ applied[i] <= checkpoint
  <2> SUFFICES ASSUME NEW i \in DOMAIN applied
               PROVE  /\ applied[i] \in visible \intersect Handled
                      /\ applied[i] \in Nat /\ applied[i] <= checkpoint
    OBVIOUS
  <2>1. applied[i] \in Positions
    BY <1>5
  <2>2. applied[i] \in Nat
    BY <2>1 DEF Positions
  <2> QED
    BY <2>2 DEF IInv, EffectivelyOnce
<1>9. ASSUME NEW i \in DOMAIN applied'
      PROVE  \/ i \in DOMAIN applied /\ applied'[i] = applied[i]
             \/ /\ i \notin DOMAIN applied /\ i - Len(applied) \in DOMAIN s
                /\ applied'[i] = s[i - Len(applied)]
  BY <1>2, <1>5
<1>10. RowsOf(applied') = RowsOf(applied) \union RowsOf(s)
  <2>1. RowsOf(applied') \subseteq RowsOf(applied) \union RowsOf(s)
    BY <1>9 DEF RowsOf
  <2>2. RowsOf(applied) \subseteq RowsOf(applied')
    <3>1. \A i \in DOMAIN applied : i \in DOMAIN applied' /\ applied'[i] = applied[i]
      BY <1>2, <1>5
    <3> QED
      BY <3>1 DEF RowsOf
  <2>3. RowsOf(s) \subseteq RowsOf(applied')
    <3>1. \A i \in DOMAIN s : /\ Len(applied) + i \in DOMAIN applied'
                            /\ applied'[Len(applied) + i] = s[i]
      BY <1>2, <1>5
    <3> QED
      BY <3>1 DEF RowsOf
  <2> QED
    BY <2>1, <2>2, <2>3
<1>11. EffectivelyOnce'
  <2>1. ASSUME NEW i \in DOMAIN applied', NEW j \in DOMAIN applied', i < j
        PROVE  applied'[i] < applied'[j]
    <3>1. CASE i \in DOMAIN applied /\ j \in DOMAIN applied
      BY <1>9, <2>1, <3>1 DEF IInv, EffectivelyOnce
    <3>2. CASE i \in DOMAIN applied /\ j \notin DOMAIN applied
      BY <1>5, <1>7, <1>8, <1>9, <3>2
    <3>3. CASE i \notin DOMAIN applied
      <4>1. j \notin DOMAIN applied /\ i - Len(applied) < j - Len(applied)
        BY <1>2, <1>5, <2>1, <3>3
      <4> QED
        BY <1>4, <1>9, <2>1, <3>3, <4>1 DEF OwnRowsInOrder, Ascending
    <3> QED
      BY <3>1, <3>2, <3>3
  <2>2. ASSUME NEW i \in DOMAIN applied'
        PROVE  applied'[i] \in visible \intersect Handled /\ applied'[i] <= cursor[r]
    BY <1>5, <1>6, <1>7, <1>8, <1>9
  <2> QED
    BY <1>2, <1>6, <2>1, <2>2 DEF EffectivelyOnce
<1>12. Passed(checkpoint)'
  BY <1>2, <1>4, <1>6 DEF ReadUpToCursor, Passed
<1>13. NothingSkipped'
  <2> SUFFICES ASSUME NEW p \in visible \intersect Handled, p <= cursor[r]
               PROVE  p \in RowsOf(applied') \union overtaken
    BY <1>2, <1>6 DEF NothingSkipped
  <2>1. CASE p <= checkpoint
    BY <1>10, <2>1 DEF IInv, NothingSkipped
  <2>2. CASE checkpoint < p
    BY <1>4, <1>10, <2>2 DEF ReadUpToCursor
  <2>3. p \in Nat
    BY DEF IInv, TypeOK, Positions
  <2> QED
    BY <1>5, <2>1, <2>2, <2>3
<1> QED
  BY <1>1, <1>3, <1>11, <1>12, <1>13 DEF IInv

\* A call that fails leaves what is committed as it is.
LEMMA FailKeepsIInv ==
  ASSUME IInv, NEW r \in Runner, Fail(r)
  PROVE  IInv'
<1>1. TypeOK'
  BY CallKeepsTypes DEF IInv
<1>2. /\ Leave(r, "idle") /\ rpc[r] # "idle"
      /\ UNCHANGED <<visible, overtaken, applied, checkpoint>>
  BY DEF Fail, feedVars
<1>3. LockHeld' /\ ResetAlone' /\ \A q \in Runner : InOrder(q)'
  BY <1>2, LeaveKeepsOrder
<1> QED
  BY <1>1, <1>2, <1>3, CommittedUnchanged DEF IInv

\* A reset takes note of all rows there are.
LEMMA ResetKeepsIInv ==
  ASSUME IInv, NEW r \in Runner, Reset(r) \/ Rewind(r)
  PROVE  IInv'
<1>1. TypeOK'
  BY CallKeepsTypes DEF IInv, RunnerStep
<1>2. /\ rpc[r] \in {"reset", "rewind"}
      /\ rpc' = [rpc EXCEPT ![r] = IF rpc[r] = "reset" THEN "rewind" ELSE "restart"]
      /\ doomed'[r] = IF rpc[r] = "reset" THEN Len(applied) ELSE doomed[r]
      /\ wrote'[r] => rpc[r] = "rewind" \/ wrote[r]
      /\ \A q \in Runner \ {r} : doomed'[q] = doomed[q] /\ wrote'[q] = wrote[q]
      /\ UNCHANGED <<feedVars, checkpoint, applied, lock, cursor, page, pageEnd, lastPage,
                      mine, overtaken, failures>>
  BY DEF Reset, Rewind, Goto, IInv, TypeOK
<1>3. LockHeld'
  BY <1>2 DEF IInv, TypeOK, LockHeld, Holding, Reading
<1>4. ResetAlone'
  BY <1>2 DEF IInv, TypeOK, ResetAlone, Resetting
<1>5. ASSUME NEW q \in Runner PROVE InOrder(q)'
  <2>1. CASE q = r
    BY <1>2, <2>1 DEF IInv, TypeOK, InOrder, Reading
  <2>2. CASE q # r
    BY <1>2, <2>2, OthersStayInOrder DEF IInv, TypeOK, feedVars
  <2> QED
    BY <2>1, <2>2
<1> QED
  BY <1>1, <1>2, <1>3, <1>4, <1>5, CommittedUnchanged DEF IInv, feedVars

\* What a reset leaves is a projection without rows, at checkpoint 0.
LEMMA CommitResetKeepsIInv ==
  ASSUME IInv, NEW r \in Runner, CommitReset(r)
  PROVE  IInv'
<1>1. TypeOK'
  BY CallKeepsTypes DEF IInv, RunnerStep
<1>2. /\ rpc[r] = "restart" /\ doomed[r] = Len(applied)
      /\ applied' = SubSeq(applied, doomed[r] + 1, Len(applied))
      /\ checkpoint' = 0
      /\ Leave(r, "lock")
      /\ visible' = visible /\ overtaken' = overtaken
  BY DEF CommitReset, feedVars, IInv, ResetAlone
<1>3. applied' = <<>>
  BY <1>2 DEF IInv, TypeOK
<1>4. LockHeld' /\ ResetAlone' /\ \A q \in Runner : InOrder(q)'
  <2>1. \A q \in Runner \ {r} : rpc[q] \notin Resetting /\ rpc[q] \notin Reading
    BY <1>2 DEF IInv, ResetAlone, Resetting, Reading
  <2> QED
    BY <1>2, <2>1, LeaveKeepsOrder DEF Resetting
<1>5. Passed(checkpoint)' /\ EffectivelyOnce' /\ NothingSkipped'
  BY <1>2, <1>3 DEF Passed, EffectivelyOnce, NothingSkipped, Positions, IInv, TypeOK
<1> QED
  BY <1>1, <1>4, <1>5 DEF IInv

-------------------------------------------------------------------------------
\* The invariant is inductive.
LEMMA NextKeepsIInv ==
  ASSUME IInv, RebuildAlone, [Next]_vars
  PROVE  IInv'
<1>1. CASE FeedStep /\ UNCHANGED runnerVars
  BY <1>1, FeedKeepsIInv
<1>2. ASSUME NEW r \in Runner, CatchUp(r) \/ Rebuild(r)
      PROVE  IInv'
  BY <1>2, BeginKeepsIInv
<1>3. ASSUME NEW r \in Runner, RunnerStep(r)
      PROVE  IInv'
  BY <1>3, StartKeepsIInv, ReadPageKeepsIInv, ApplyKeepsIInv, WriteCheckpointKeepsIInv,
     CommitKeepsIInv, ResetKeepsIInv, CommitResetKeepsIInv DEF RunnerStep
<1>4. ASSUME NEW r \in Runner, Fail(r)
      PROVE  IInv'
  BY <1>4, FailKeepsIInv
<1>5. CASE UNCHANGED vars
  BY <1>5 DEF vars, feedVars, runnerVars, IInv, TypeOK, LockHeld, ResetAlone, InOrder,
     OwnRowsInOrder, ReadUpToCursor, PageInHand, Ascending, Passed, RowsOf,
     EffectivelyOnce, NothingSkipped
<1> QED
  BY <1>1, <1>2, <1>3, <1>4, <1>5 DEF Next

\* The types hold in every behaviour, whoever drives the projection during a
\* reset.
THEOREM TypesHold == Spec => []TypeOK
<1>1. Init => TypeOK
  BY InitIInv DEF IInv
<1>2. ASSUME TypeOK, [Next]_vars PROVE TypeOK'
  <2>1. CASE UNCHANGED vars
    BY <1>2, <2>1 DEF vars, feedVars, runnerVars, TypeOK
  <2> QED
    BY <1>2, <2>1, FeedKeepsTypes, CallKeepsTypes DEF Next
<1> QED
  BY <1>1, <1>2, PTL DEF Spec

\* catchUp and rebuild keep IInv if nothing else drives the projection during a
\* reset.
THEOREM Inductive == ASSUME RebuildAlone PROVE Spec => []IInv
<1>1. Init => IInv
  BY InitIInv
<1>2. IInv /\ [Next]_vars => IInv'
  BY NextKeepsIInv
<1> QED
  BY <1>1, <1>2, PTL DEF Spec

\* The rows of a projection are those of distinct committed events, in the order of
\* their positions and none beyond the checkpoint: catchUp's lock and its one
\* transaction make an event count once, whatever overlaps, fails or is retried.
THEOREM AppliedOnce == ASSUME RebuildAlone PROVE Spec => []EffectivelyOnce
<1>1. IInv => EffectivelyOnce
  BY DEF IInv
<1> QED
  BY <1>1, Inductive, PTL

\* An event the checkpoint has passed is in the rows, unless it was committed
\* after a later one had been read.
THEOREM OnlyOvertakenSkipped == ASSUME RebuildAlone PROVE Spec => []NothingSkipped
<1>1. IInv => NothingSkipped
  BY DEF IInv
<1> QED
  BY <1>1, Inductive, PTL

\* Only the commit of a reset moves a checkpoint back.
THEOREM CheckpointGrows == ASSUME RebuildAlone PROVE Spec => CheckpointMonotone
<1>1. ASSUME IInv, [Next]_vars
      PROVE  checkpoint' < checkpoint => \E r \in Runner : rpc[r] = "restart"
  <2> SUFFICES ASSUME checkpoint' # checkpoint, \A r \in Runner : rpc[r] # "restart"
               PROVE  ~(checkpoint' < checkpoint)
    BY <1>1 DEF IInv, TypeOK
  <2>1. PICK r \in Runner : Commit(r)
    BY <1>1 DEF Next, vars, runnerVars, FeedStep, RunnerStep, CatchUp, Rebuild, TakeLock,
       ReadCheckpoint, ReadPage, Apply, WriteCheckpoint, Reset, Rewind, CommitReset, Fail
  <2>2. ReadUpToCursor(r) /\ checkpoint' = cursor[r]
    BY <1>1, <2>1 DEF Commit, IInv, InOrder, Reading
  <2> QED
    BY <1>1, <2>2 DEF ReadUpToCursor, IInv, TypeOK
<1>2. IInv /\ [Next]_vars => [checkpoint' < checkpoint => \E r \in Runner : rpc[r] = "restart"]_vars
  BY <1>1
<1> QED
  BY <1>2, Inductive, PTL DEF Spec, CheckpointMonotone

-------------------------------------------------------------------------------
(***************************************************************************)
(* The embedding of a search row (SearchIndex).                            *)
(***************************************************************************)
CONSTANTS Caller, Refresh, MaxEvents, MaxMishaps

VARIABLES log, shown, embedding, timer, request, refresh, mishaps, overlapped, lost

I == INSTANCE SearchIndex

Embedding(x) == refresh[x].at = "embed"

EmbeddingTypes ==
  /\ log \in Nat /\ shown \in Nat /\ timer \in BOOLEAN /\ lost \in BOOLEAN /\ overlapped \in BOOLEAN
  /\ request \in [Caller -> {"idle", "catch up"}]
  /\ refresh \in [Refresh -> [at : {"idle", "embed"}, text : Nat]]

\* The row is of the whole stream, unless a write has still to catch it up or
\* something failed since.
RowIsWhole == shown = log \/ lost \/ \E c \in Caller : request[c] = "catch up"

\* A refresh that began alone has been the only one since.
OneRefresh == ~overlapped => \A x, y \in Refresh : Embedding(x) /\ Embedding(y) => x = y

\* When no refresh is due, the last one to begin, if it began alone, is of the text
\* that is shown, or it has ended and the embedding is of that text.
LastIsOfTheText ==
  ~timer /\ ~lost /\ ~overlapped =>
    \/ \E x \in Refresh : Embedding(x) /\ refresh[x].text = shown
    \/ embedding = shown /\ \A x \in Refresh : ~Embedding(x)

EmbeddingInv == EmbeddingTypes /\ RowIsWhole /\ OneRefresh /\ LastIsOfTheText

LEMMA EmbeddingStarts == I!Init => EmbeddingInv
<1> SUFFICES ASSUME I!Init PROVE EmbeddingInv
  OBVIOUS
<1>1. EmbeddingTypes
  BY DEF I!Init, EmbeddingTypes
<1>2. \A x \in Refresh : ~Embedding(x)
  BY DEF I!Init, Embedding
<1>3. shown = log /\ timer = TRUE
  BY DEF I!Init
<1> QED
  BY <1>1, <1>2, <1>3 DEF EmbeddingInv, RowIsWhole, OneRefresh, LastIsOfTheText

LEMMA WriteKeepsEmbedding ==
  ASSUME EmbeddingInv, NEW c \in Caller, I!AppendEvent(c) \/ I!CatchUp(c)
  PROVE  EmbeddingInv'
<1>0. EmbeddingTypes /\ RowIsWhole /\ OneRefresh /\ LastIsOfTheText
  BY DEF EmbeddingInv
<1>1. CASE I!AppendEvent(c)
  <2>1. /\ request' = [request EXCEPT ![c] = "catch up"]
        /\ UNCHANGED <<shown, embedding, timer, refresh, mishaps, overlapped, lost>>
    BY <1>1 DEF I!AppendEvent, I!Go
  <2>2. log' \in Nat
    <3>1. log \in Nat
      BY <1>0 DEF EmbeddingTypes
    <3>2. log' = log + 1 \/ log' = log
      BY <1>1 DEF I!AppendEvent
    <3> QED
      BY <3>1, <3>2
  <2>3. request' \in [Caller -> {"idle", "catch up"}] /\ request'[c] = "catch up"
    BY <1>0, <2>1 DEF EmbeddingTypes
  <2>4. EmbeddingTypes' /\ RowIsWhole'
    BY <1>0, <2>1, <2>2, <2>3 DEF EmbeddingTypes, RowIsWhole
  <2>5. OneRefresh' /\ LastIsOfTheText'
    BY <1>0, <2>1 DEF OneRefresh, LastIsOfTheText, Embedding
  <2> QED
    BY <2>4, <2>5 DEF EmbeddingInv
<1>2. CASE I!CatchUp(c)
  <2>1. /\ shown' = log /\ timer' = TRUE /\ lost' = FALSE
        /\ request' = [request EXCEPT ![c] = "idle"]
        /\ UNCHANGED <<log, embedding, refresh, mishaps, overlapped>>
    BY <1>2 DEF I!CatchUp, I!Go
  <2>2. request' \in [Caller -> {"idle", "catch up"}]
    BY <1>0, <2>1 DEF EmbeddingTypes
  <2>3. EmbeddingTypes'
    BY <1>0, <2>1, <2>2 DEF EmbeddingTypes
  <2>4. RowIsWhole' /\ OneRefresh' /\ LastIsOfTheText'
    BY <1>0, <2>1 DEF RowIsWhole, OneRefresh, LastIsOfTheText, Embedding
  <2> QED
    BY <2>3, <2>4 DEF EmbeddingInv
<1> QED
  BY <1>1, <1>2

LEMMA RefreshKeepsEmbedding ==
  ASSUME EmbeddingInv, NEW x \in Refresh, I!ReadText(x) \/ I!StoreEmbedding(x)
  PROVE  EmbeddingInv'
<1>1. CASE I!ReadText(x)
  <2>1. /\ timer' = FALSE /\ refresh' = [refresh EXCEPT ![x] = [at |-> "embed", text |-> shown]]
        /\ overlapped' = (\E y \in Refresh : Embedding(y))
        /\ UNCHANGED <<log, shown, embedding, request, mishaps, lost>>
    BY <1>1 DEF I!ReadText, I!GoRefresh, Embedding
  <2>2. /\ refresh' \in [Refresh -> [at : {"idle", "embed"}, text : Nat]]
        /\ refresh'[x].at = "embed" /\ refresh'[x].text = shown
        /\ \A y \in Refresh : y # x => refresh'[y] = refresh[y]
    BY <2>1 DEF EmbeddingInv, EmbeddingTypes, RowIsWhole, OneRefresh, LastIsOfTheText
  <2>3. overlapped' \in BOOLEAN
    BY <2>1
  <2>4. ~overlapped' => \A y, z \in Refresh : Embedding(y)' /\ Embedding(z)' => y = z
    BY <2>1, <2>2 DEF Embedding
  <2>5. \E y \in Refresh : Embedding(y)' /\ refresh'[y].text = shown'
    BY <2>1, <2>2 DEF Embedding
  <2> QED
    BY <2>1, <2>2, <2>3, <2>4, <2>5 DEF EmbeddingInv, EmbeddingTypes, RowIsWhole, OneRefresh, LastIsOfTheText
<1>2. CASE I!StoreEmbedding(x)
  <2>1. /\ refresh[x].at = "embed" /\ embedding' = refresh[x].text
        /\ refresh' = [refresh EXCEPT ![x] = [at |-> "idle", text |-> 0]]
        /\ UNCHANGED <<log, shown, timer, request, mishaps, overlapped, lost>>
    BY <1>2 DEF I!StoreEmbedding, I!GoRefresh
  <2>2. /\ refresh' \in [Refresh -> [at : {"idle", "embed"}, text : Nat]]
        /\ refresh'[x].at = "idle"
        /\ \A y \in Refresh : y # x => refresh'[y] = refresh[y]
    BY <2>1 DEF EmbeddingInv, EmbeddingTypes, RowIsWhole, OneRefresh, LastIsOfTheText
  <2>3. ~overlapped' => \A y \in Refresh : ~Embedding(y)'
    BY <2>1, <2>2 DEF EmbeddingInv, EmbeddingTypes, RowIsWhole, OneRefresh, LastIsOfTheText, Embedding
  <2>4. ~timer' /\ ~lost' /\ ~overlapped' => embedding' = shown'
    BY <2>1 DEF EmbeddingInv, EmbeddingTypes, RowIsWhole, OneRefresh, LastIsOfTheText, Embedding
  <2> QED
    BY <2>1, <2>2, <2>3, <2>4 DEF EmbeddingInv, EmbeddingTypes, RowIsWhole, OneRefresh, LastIsOfTheText
<1> QED
  BY <1>1, <1>2

LEMMA FailKeepsEmbedding == EmbeddingInv /\ I!Fail => EmbeddingInv'
<1> SUFFICES ASSUME EmbeddingInv, I!Fail PROVE EmbeddingInv'
  OBVIOUS
<1>1. lost' = TRUE /\ UNCHANGED <<log, shown, embedding, overlapped>>
  BY DEF I!Fail
<1>2. /\ timer' \in BOOLEAN /\ request' \in [Caller -> {"idle", "catch up"}]
      /\ refresh' \in [Refresh -> [at : {"idle", "embed"}, text : Nat]]
      /\ \A x \in Refresh : Embedding(x)' => Embedding(x)
  <2>1. ASSUME NEW c \in Caller, I!Go(c, "idle"), UNCHANGED <<timer, refresh>>
        PROVE  /\ timer' \in BOOLEAN /\ request' \in [Caller -> {"idle", "catch up"}]
               /\ refresh' = refresh
    BY <2>1 DEF I!Go, EmbeddingInv, EmbeddingTypes
  <2>2. ASSUME NEW x \in Refresh, I!GoRefresh(x, "idle", 0), UNCHANGED <<timer, request>>
        PROVE  /\ timer' \in BOOLEAN /\ request' \in [Caller -> {"idle", "catch up"}]
               /\ refresh' \in [Refresh -> [at : {"idle", "embed"}, text : Nat]]
               /\ \A y \in Refresh : Embedding(y)' => Embedding(y)
    BY <2>2 DEF I!GoRefresh, EmbeddingInv, EmbeddingTypes, Embedding
  <2>3. ASSUME timer' = FALSE, request' = [c \in Caller |-> "idle"],
               refresh' = [x \in Refresh |-> [at |-> "idle", text |-> 0]]
        PROVE  /\ timer' \in BOOLEAN /\ request' \in [Caller -> {"idle", "catch up"}]
               /\ refresh' \in [Refresh -> [at : {"idle", "embed"}, text : Nat]]
               /\ \A y \in Refresh : Embedding(y)' => Embedding(y)
    BY <2>3 DEF Embedding
  <2>4. refresh \in [Refresh -> [at : {"idle", "embed"}, text : Nat]]
    BY DEF EmbeddingInv, EmbeddingTypes, RowIsWhole, OneRefresh, LastIsOfTheText
  <2> QED
    BY <2>1, <2>2, <2>3, <2>4 DEF I!Fail, Embedding
<1> QED
  BY <1>1, <1>2 DEF EmbeddingInv, EmbeddingTypes, RowIsWhole, OneRefresh, LastIsOfTheText

LEMMA EmbeddingGoesOn == EmbeddingInv /\ [I!Next]_I!vars => EmbeddingInv'
<1>1. ASSUME EmbeddingInv, UNCHANGED I!vars PROVE EmbeddingInv'
  <2>1. EmbeddingTypes' /\ RowIsWhole'
    BY <1>1 DEF I!vars, EmbeddingInv, EmbeddingTypes, RowIsWhole
  <2>2. OneRefresh' /\ LastIsOfTheText'
    BY <1>1 DEF I!vars, EmbeddingInv, OneRefresh, LastIsOfTheText, Embedding
  <2> QED
    BY <2>1, <2>2 DEF EmbeddingInv
<1> QED
  BY <1>1, WriteKeepsEmbedding, RefreshKeepsEmbedding, FailKeepsEmbedding DEF I!Next

\* When all is quiet the embedding is that of the object's text, unless the last
\* refresh overlapped with another or something failed since the last write
\* (EmbeddingFollows): for any number of writes and refreshes at a time.
THEOREM EmbeddingIsOfTheText == I!Spec => []I!EmbeddingFollows
<1>1. EmbeddingInv => I!EmbeddingFollows
  BY DEF EmbeddingInv, EmbeddingTypes, RowIsWhole, LastIsOfTheText, Embedding, I!EmbeddingFollows, I!Quiet
<1> QED
  BY <1>1, EmbeddingStarts, EmbeddingGoesOn, PTL DEF I!Spec

-------------------------------------------------------------------------------
(***************************************************************************)
(* The copy of an external calendar (CalendarSync).                        *)
(***************************************************************************)
CONSTANTS Poll, Event, MaxChanges, MaxTokens, MaxAccounts

VARIABLES remote, cache, account, valid, poll, changes, seen

H == INSTANCE CalendarSync

Copies == [Event -> Nat]

Polls ==
  [at : {"idle"}]
    \union [at : {"account", "list"}, id : Nat]
    \union [at : {"refresh", "store"}, id : 1..MaxAccounts, token : Nat]
    \union [at : {"upsert"}, id : Nat, events : Copies, todo : SUBSET Event]

CalendarTypes ==
  /\ remote \in Copies /\ cache \in Copies /\ seen \in Copies
  /\ account \in [connected : BOOLEAN, id : 1..MaxAccounts, token : Nat, fresh : BOOLEAN]
  /\ valid \in [1..MaxAccounts -> Nat]
  /\ poll \in [Poll -> Polls]
  /\ changes \in Nat /\ mishaps \in Nat /\ overlapped \in BOOLEAN

Busy(p) == poll[p].at # "idle"
Writes(p) == poll[p].at = "upsert" /\ H!Row(poll[p])

\* A run is of this account or an earlier one, whose events have gone with it; the
\* tokens of accounts to come are as they are given out.
AccountsSucceed ==
  /\ ~account.connected => cache = H!Nothing /\ account.id < MaxAccounts
  /\ \A p \in Poll : Busy(p) => poll[p].id <= account.id
  /\ \A a \in 1..MaxAccounts : a > account.id => valid[a] = 1

\* One run at a time that does not fail: the token it is about to store is accepted,
\* and so is the row's, but for that; what it has still to write is what it was
\* given last, and the rest of the cache is that already.
OneRunFollows ==
  /\ \A p, q \in Poll : Busy(p) /\ Busy(q) => p = q
  /\ \A p \in Poll : poll[p].at = "store" => poll[p].token = valid[poll[p].id]
  /\ account.connected =>
       \/ account.token = valid[account.id]
       \/ \E p \in Poll : poll[p].at = "store" /\ poll[p].id = account.id
  /\ \A p \in Poll : Writes(p) => \A e \in poll[p].todo : poll[p].events[e] = seen[e]
  /\ \A e \in Event :
       cache[e] = seen[e] \/ \E p \in Poll : Writes(p) /\ e \in poll[p].todo

CalendarInv ==
  /\ CalendarTypes
  /\ AccountsSucceed
  /\ mishaps = 0 /\ ~overlapped => OneRunFollows

-------------------------------------------------------------------------------
LEMMA CalendarStarts ==
  ASSUME MaxAccounts \in Nat \ {0}, H!Init
  PROVE  CalendarInv
<1>1. 1 \in 1..MaxAccounts
  OBVIOUS
<1>2. CalendarTypes
  BY <1>1 DEF H!Init, H!Nothing, H!Connected, H!Idle, CalendarTypes, Copies, Polls
<1>3. \A p \in Poll : ~Busy(p)
  BY DEF H!Init, H!Idle, Busy
<1>4. account.connected /\ account.id = 1 /\ account.token = 1 /\ valid = [a \in 1..MaxAccounts |-> 1]
  BY DEF H!Init, H!Connected
<1>5. AccountsSucceed
  BY <1>3, <1>4 DEF AccountsSucceed
<1>6. OneRunFollows
  BY <1>1, <1>3, <1>4 DEF H!Init, H!Nothing, OneRunFollows, Busy, Writes
<1> QED
  BY <1>2, <1>5, <1>6 DEF CalendarInv

\* A run goes on: the others stay where they are.
LEMMA RunGoesOn ==
  ASSUME CalendarTypes, NEW p \in Poll, NEW q \in Polls, H!Go(p, q)
  PROVE  /\ poll' \in [Poll -> Polls] /\ poll'[p] = q
         /\ \A r \in Poll : r # p => poll'[r] = poll[r]
BY DEF CalendarTypes, H!Go

LEMMA BeginKeepsCalendar ==
  ASSUME CalendarInv, NEW p \in Poll, H!Begin(p)
  PROVE  CalendarInv'
<1>1. CalendarTypes /\ AccountsSucceed
  BY DEF CalendarInv
<1>2. PICK q : q = [at |-> "account", id |-> account.id]
  OBVIOUS
<1>3. q \in Polls /\ q.at = "account" /\ q.id = account.id
  BY <1>1, <1>2 DEF CalendarTypes, Polls
<1>4. /\ H!Go(p, q) /\ account.connected /\ poll[p].at = "idle"
      /\ overlapped' = (overlapped \/ \E r \in Poll : Busy(r))
      /\ UNCHANGED <<remote, cache, account, valid, changes, mishaps, seen>>
  BY <1>2 DEF H!Begin, Busy
<1>5. /\ poll' \in [Poll -> Polls] /\ poll'[p] = q
      /\ \A r \in Poll : r # p => poll'[r] = poll[r]
  BY <1>1, <1>3, <1>4, RunGoesOn
<1>6. CalendarTypes'
  BY <1>1, <1>4, <1>5 DEF CalendarTypes
<1>7. AccountsSucceed'
  <2>1. account.id <= account.id
    BY <1>1 DEF CalendarTypes
  <2> QED
    BY <1>1, <1>3, <1>4, <1>5, <2>1 DEF AccountsSucceed, Busy, H!Nothing
<1>8. ASSUME mishaps' = 0, ~overlapped' PROVE OneRunFollows'
  <2>1. OneRunFollows /\ \A r \in Poll : ~Busy(r)
    BY <1>4, <1>8 DEF CalendarInv
  <2>2. \A r \in Poll : r # p => ~Busy(r)'
    BY <1>5, <2>1 DEF Busy
  <2>3. \A r \in Poll : ~Writes(r) /\ ~Writes(r)' /\ poll[r].at # "store" /\ poll'[r].at # "store"
    BY <1>3, <1>5, <2>1, <2>2 DEF Busy, Writes
  <2> QED
    BY <1>4, <2>1, <2>2, <2>3 DEF OneRunFollows
<1> QED
  BY <1>6, <1>7, <1>8 DEF CalendarInv

LEMMA ReadAccountKeepsCalendar ==
  ASSUME CalendarInv, NEW p \in Poll, H!ReadAccount(p)
  PROVE  CalendarInv'
<1>1. CalendarTypes /\ AccountsSucceed
  BY DEF CalendarInv
<1>2. /\ poll[p].at = "account" /\ poll[p] \in Polls
      /\ UNCHANGED <<remote, cache, account, valid, changes, mishaps, seen, overlapped>>
  BY <1>1 DEF H!ReadAccount, CalendarTypes
<1>3. poll[p].id \in Nat
  BY <1>2 DEF Polls
<1>4. PICK q \in Polls :
        /\ H!Go(p, q) /\ q.at \in {"idle", "list", "refresh"}
        /\ q.at # "idle" => q.id = poll[p].id
        /\ q.at = "refresh" => q.token = account.token /\ q.id = account.id
  <2>1. CASE ~H!Row(poll[p])
    <3>1. H!Go(p, H!Idle)
      BY <2>1, <1>2 DEF H!ReadAccount
    <3> QED
      BY <3>1 DEF H!Idle, Polls
  <2>2. CASE H!Row(poll[p]) /\ account.fresh
    <3>1. PICK q : q = [at |-> "list", id |-> poll[p].id]
      OBVIOUS
    <3>2. H!Go(p, q)
      BY <2>2, <3>1 DEF H!ReadAccount
    <3>3. q \in Polls
      BY <3>1, <1>3 DEF Polls
    <3> QED
      BY <3>1, <3>2, <3>3
  <2>3. CASE H!Row(poll[p]) /\ ~account.fresh
    <3>1. PICK q : q = [at |-> "refresh", id |-> poll[p].id, token |-> account.token]
      OBVIOUS
    <3>2. H!Go(p, q)
      BY <2>3, <3>1 DEF H!ReadAccount
    <3>3. poll[p].id = account.id /\ account.id \in 1..MaxAccounts /\ account.token \in Nat
      BY <1>1, <2>3 DEF CalendarTypes, H!Row
    <3>4. q \in Polls
      BY <3>1, <3>3 DEF Polls
    <3> QED
      BY <3>1, <3>2, <3>3, <3>4
  <2> QED
    BY <2>1, <2>2, <2>3
<1>5. /\ poll' \in [Poll -> Polls] /\ poll'[p] = q
      /\ \A r \in Poll : r # p => poll'[r] = poll[r]
  BY <1>1, <1>4, RunGoesOn
<1>6. CalendarTypes'
  BY <1>1, <1>2, <1>5 DEF CalendarTypes
<1>7. \A r \in Poll : Busy(r)' => Busy(r) /\ poll'[r].id = poll[r].id
  BY <1>2, <1>4, <1>5 DEF Busy
<1>8. AccountsSucceed'
  BY <1>1, <1>2, <1>7 DEF AccountsSucceed, H!Nothing
<1>9. ASSUME mishaps' = 0, ~overlapped' PROVE OneRunFollows'
  <2>1. OneRunFollows
    BY <1>2, <1>9 DEF CalendarInv
  <2>2. ~Writes(p) /\ ~Writes(p)' /\ poll[p].at # "store" /\ poll'[p].at # "store"
    BY <1>2, <1>4, <1>5 DEF Writes
  <2>3. \A r \in Poll : Writes(r)' <=> Writes(r)
    BY <1>2, <1>5, <2>2 DEF Writes, H!Row
  <2>4. \A r \in Poll : Writes(r) \/ poll[r].at = "store" \/ poll'[r].at = "store" => poll'[r] = poll[r]
    BY <1>5, <2>2
  <2> QED
    BY <1>2, <1>7, <2>1, <2>3, <2>4 DEF OneRunFollows
<1> QED
  BY <1>6, <1>8, <1>9 DEF CalendarInv

LEMMA RefreshKeepsCalendar ==
  ASSUME CalendarInv, NEW p \in Poll, H!RefreshToken(p)
  PROVE  CalendarInv'
<1>1. CalendarTypes /\ AccountsSucceed
  BY DEF CalendarInv
<1>2. /\ poll[p].at = "refresh" /\ poll[p] \in Polls
      /\ UNCHANGED <<remote, cache, account, changes, mishaps, seen, overlapped>>
  BY <1>1 DEF H!RefreshToken, CalendarTypes
<1>3. PICK a \in 1..MaxAccounts, t \in Nat : poll[p] = [at |-> "refresh", id |-> a, token |-> t]
  BY <1>2 DEF Polls
<1>4. PICK u \in Nat : u = t + 1 /\ poll[p].id = a /\ poll[p].token = t
  BY <1>3
<1>5. PICK q \in Polls :
        /\ H!Go(p, q)
        /\ \/ q.at = "idle" /\ UNCHANGED valid
           \/ /\ q.at = "store" /\ q.id = a /\ q.token \in Nat
              /\ valid' = [valid EXCEPT ![a] = q.token]
  <2>1. CASE H!Go(p, H!Idle) /\ UNCHANGED valid
    BY <2>1 DEF H!Idle, Polls
  <2>2. CASE t = valid[a] /\ H!Go(p, [poll[p] EXCEPT !.at = "store"]) /\ UNCHANGED valid
    <3>1. PICK q : q = [at |-> "store", id |-> a, token |-> t]
      OBVIOUS
    <3>2. H!Go(p, q)
      BY <2>2, <3>1, <1>3
    <3>3. q \in Polls
      BY <3>1 DEF Polls
    <3>4. valid' = [valid EXCEPT ![a] = t]
      BY <1>1, <2>2 DEF CalendarTypes
    <3> QED
      BY <3>1, <3>2, <3>3, <3>4
  <2>3. CASE /\ valid' = [valid EXCEPT ![a] = u]
             /\ H!Go(p, [poll[p] EXCEPT !.at = "store", !.token = u])
    <3>1. PICK q : q = [poll[p] EXCEPT !.at = "store", !.token = u]
      OBVIOUS
    <3>2. H!Go(p, q)
      BY <2>3, <3>1
    <3>3. q = [at |-> "store", id |-> a, token |-> u]
      <4>1. PICK w : w = poll[p] /\ w = [at |-> "refresh", id |-> a, token |-> t]
        BY <1>3
      <4>2. q = [[w EXCEPT !.at = "store"] EXCEPT !.token = u]
        BY <3>1, <4>1
      <4>3. [w EXCEPT !.at = "store"] = [at |-> "store", id |-> a, token |-> t]
        BY <4>1
      <4> QED
        BY <4>2, <4>3
    <3>4. q \in Polls
      BY <3>3, <1>4 DEF Polls
    <3> QED
      BY <2>3, <3>2, <3>3, <3>4, <1>4
  <2> QED
    BY <2>1, <2>2, <2>3, <1>4 DEF H!RefreshToken
<1>6. /\ poll' \in [Poll -> Polls] /\ poll'[p] = q
      /\ \A r \in Poll : r # p => poll'[r] = poll[r]
  BY <1>1, <1>5, RunGoesOn
<1>7. valid' \in [1..MaxAccounts -> Nat] /\ \A b \in 1..MaxAccounts : b # a => valid'[b] = valid[b]
  BY <1>1, <1>5 DEF CalendarTypes
<1>8. CalendarTypes'
  BY <1>1, <1>2, <1>6, <1>7 DEF CalendarTypes
<1>9. \A r \in Poll : Busy(r)' => Busy(r) /\ poll'[r].id = poll[r].id
  BY <1>2, <1>4, <1>5, <1>6 DEF Busy
<1>10. AccountsSucceed'
  <2>1. a <= account.id /\ a \in Int /\ account.id \in Int
    BY <1>1, <1>2, <1>4 DEF AccountsSucceed, CalendarTypes, Busy
  <2>2. \A b \in 1..MaxAccounts : b > account.id => b # a
    BY <2>1
  <2>3. \A b \in 1..MaxAccounts : b > account.id => valid'[b] = 1
    BY <1>1, <1>7, <2>2 DEF AccountsSucceed
  <2> QED
    BY <1>1, <1>2, <1>9, <2>3 DEF AccountsSucceed, H!Nothing
<1>11. ASSUME mishaps' = 0, ~overlapped' PROVE OneRunFollows'
  <2>1. OneRunFollows
    BY <1>2, <1>11 DEF CalendarInv
  <2>2. Busy(p) /\ \A r \in Poll : r # p => ~Busy(r) /\ ~Busy(r)'
    BY <1>2, <1>9, <2>1 DEF OneRunFollows, Busy
  <2>3. \A r \in Poll : ~Writes(r) /\ ~Writes(r)' /\ poll[r].at # "store"
    BY <1>2, <1>5, <1>6, <2>2 DEF Busy, Writes
  <2>4. \A r \in Poll : poll'[r].at = "store" => r = p
    BY <2>2 DEF Busy
  <2>5. q.at = "store" => q.token = valid'[a]
    BY <1>1, <1>5 DEF CalendarTypes
  <2>6. \A r \in Poll : poll'[r].at = "store" => poll'[r].token = valid'[poll'[r].id]
    BY <1>5, <1>6, <2>4, <2>5
  <2>7. account.connected => account.token = valid[account.id]
    BY <2>1, <2>3 DEF OneRunFollows
  <2>8. account.connected => \/ account.token = valid'[account.id]
                             \/ poll'[p].at = "store" /\ poll'[p].id = account.id
    BY <1>1, <1>5, <1>6, <1>7, <2>7 DEF CalendarTypes
  <2>9. \A r, s \in Poll : Busy(r)' /\ Busy(s)' => r = s
    BY <2>2
  <2>10. \A e \in Event : cache[e] = seen[e]
    BY <2>1, <2>3 DEF OneRunFollows
  <2> QED
    BY <1>2, <2>3, <2>6, <2>8, <2>9, <2>10 DEF OneRunFollows
<1> QED
  BY <1>8, <1>10, <1>11 DEF CalendarInv

LEMMA StoreKeepsCalendar ==
  ASSUME CalendarInv, NEW p \in Poll, H!StoreTokens(p)
  PROVE  CalendarInv'
<1>1. CalendarTypes /\ AccountsSucceed
  BY DEF CalendarInv
<1>2. /\ poll[p].at = "store" /\ poll[p] \in Polls
      /\ UNCHANGED <<remote, cache, valid, changes, mishaps, seen, overlapped>>
  BY <1>1 DEF H!StoreTokens, CalendarTypes
<1>3. PICK a \in 1..MaxAccounts, t \in Nat : poll[p] = [at |-> "store", id |-> a, token |-> t]
  BY <1>2 DEF Polls
<1>4. poll[p].id = a /\ poll[p].token = t /\ a \in Nat
  BY <1>3
<1>5. PICK q : q = [at |-> "list", id |-> a]
  OBVIOUS
<1>6. q \in Polls /\ H!Go(p, q) /\ q.at = "list" /\ q.id = a
  BY <1>2, <1>4, <1>5 DEF H!StoreTokens, Polls
<1>7. /\ poll' \in [Poll -> Polls] /\ poll'[p] = q
      /\ \A r \in Poll : r # p => poll'[r] = poll[r]
  BY <1>1, <1>6, RunGoesOn
<1>8. /\ account' \in [connected : BOOLEAN, id : 1..MaxAccounts, token : Nat, fresh : BOOLEAN]
      /\ account'.connected = account.connected /\ account'.id = account.id
      /\ account'.token = IF account.connected /\ account.id = a THEN t ELSE account.token
  <2>1. CASE H!Row(poll[p])
    <3>1. account' = [connected |-> TRUE, id |-> a, token |-> t, fresh |-> TRUE]
      BY <2>1, <1>4 DEF H!StoreTokens, H!Connected
    <3>2. account.connected = TRUE /\ account.id = a
      BY <1>1, <1>4, <2>1 DEF H!Row, CalendarTypes
    <3> QED
      BY <3>1, <3>2
  <2>2. CASE ~H!Row(poll[p])
    <3>1. account' = account /\ ~(account.connected /\ account.id = a)
      BY <2>2, <1>4 DEF H!StoreTokens, H!Row
    <3> QED
      BY <3>1, <1>1 DEF CalendarTypes
  <2> QED
    BY <2>1, <2>2
<1>9. CalendarTypes'
  BY <1>1, <1>2, <1>7, <1>8 DEF CalendarTypes
<1>10. \A r \in Poll : Busy(r)' => Busy(r) /\ poll'[r].id = poll[r].id
  BY <1>2, <1>4, <1>6, <1>7 DEF Busy
<1>11. AccountsSucceed'
  BY <1>1, <1>2, <1>8, <1>10 DEF AccountsSucceed, H!Nothing
<1>12. ASSUME mishaps' = 0, ~overlapped' PROVE OneRunFollows'
  <2>1. OneRunFollows
    BY <1>2, <1>12 DEF CalendarInv
  <2>2. Busy(p) /\ \A r \in Poll : r # p => ~Busy(r) /\ ~Busy(r)'
    BY <1>2, <1>10, <2>1 DEF OneRunFollows, Busy
  <2>3. \A r \in Poll : ~Writes(r) /\ ~Writes(r)' /\ poll'[r].at # "store"
    BY <1>2, <1>6, <1>7, <2>2 DEF Busy, Writes
  <2>4. t = valid[a]
    BY <1>2, <1>4, <2>1 DEF OneRunFollows
  <2>5. account.connected => account.token = valid[account.id] \/ a = account.id
    BY <1>2, <1>4, <2>1, <2>2 DEF OneRunFollows, Busy
  <2>6. account'.connected => account'.token = valid[account'.id]
    BY <1>8, <2>4, <2>5
  <2>7. \A r, s \in Poll : Busy(r)' /\ Busy(s)' => r = s
    BY <2>2
  <2>8. \A e \in Event : cache[e] = seen[e]
    BY <2>1, <2>3 DEF OneRunFollows
  <2> QED
    BY <1>2, <2>3, <2>6, <2>7, <2>8 DEF OneRunFollows
<1> QED
  BY <1>9, <1>11, <1>12 DEF CalendarInv

LEMMA ListKeepsCalendar ==
  ASSUME CalendarInv, NEW p \in Poll, H!ListEvents(p)
  PROVE  CalendarInv'
<1>1. CalendarTypes /\ AccountsSucceed
  BY DEF CalendarInv
<1>2. /\ poll[p].at = "list" /\ poll[p] \in Polls
      /\ UNCHANGED <<remote, cache, account, valid, changes, mishaps, overlapped>>
  BY <1>1 DEF H!ListEvents, CalendarTypes
<1>3. PICK a \in Nat : a = poll[p].id
  BY <1>2 DEF Polls
<1>4. PICK given \in SUBSET Event : given = H!Given
  BY DEF H!Given
<1>5. PICK events \in Copies : events = remote
  BY <1>1 DEF CalendarTypes
<1>6. PICK q : q = [at |-> "upsert", id |-> a, events |-> events, todo |-> given]
  OBVIOUS
<1>7. q \in Polls /\ q.at = "upsert" /\ q.id = a /\ q.events = events /\ q.todo = given
  BY <1>6 DEF Polls
<1>8. H!Go(p, q)
  BY <1>3, <1>4, <1>5, <1>6 DEF H!ListEvents
<1>9. /\ poll' \in [Poll -> Polls] /\ poll'[p] = q
      /\ \A r \in Poll : r # p => poll'[r] = poll[r]
  BY <1>1, <1>7, <1>8, RunGoesOn
<1>10. seen' = [e \in Event |-> IF H!Row(poll[p]) /\ e \in given THEN events[e] ELSE seen[e]]
  BY <1>4, <1>5 DEF H!ListEvents
<1>11. seen' \in Copies
  BY <1>1, <1>5, <1>10 DEF CalendarTypes, Copies
<1>12. CalendarTypes'
  BY <1>1, <1>2, <1>9, <1>11 DEF CalendarTypes
<1>13. \A r \in Poll : Busy(r)' => Busy(r) /\ poll'[r].id = poll[r].id
  BY <1>2, <1>3, <1>7, <1>9 DEF Busy
<1>14. AccountsSucceed'
  BY <1>1, <1>2, <1>13 DEF AccountsSucceed, H!Nothing
<1>15. ASSUME mishaps' = 0, ~overlapped' PROVE OneRunFollows'
  <2>1. OneRunFollows
    BY <1>2, <1>15 DEF CalendarInv
  <2>2. Busy(p) /\ \A r \in Poll : r # p => ~Busy(r) /\ ~Busy(r)'
    BY <1>2, <1>13, <2>1 DEF OneRunFollows, Busy
  <2>3. \A r \in Poll : ~Writes(r) /\ poll[r].at # "store" /\ poll'[r].at # "store"
    BY <1>2, <1>7, <1>9, <2>2 DEF Busy, Writes
  <2>4. \A r \in Poll : Writes(r)' => r = p
    BY <2>2 DEF Busy, Writes
  <2>5. Writes(p)' <=> H!Row(poll[p])
    BY <1>2, <1>3, <1>7, <1>9 DEF Writes, H!Row
  <2>6. \A r \in Poll : Writes(r)' => \A e \in poll'[r].todo : poll'[r].events[e] = seen'[e]
    BY <1>7, <1>9, <1>10, <2>4, <2>5
  <2>7. \A e \in Event : cache[e] = seen[e]
    BY <2>1, <2>3 DEF OneRunFollows
  <2>8. ASSUME NEW e \in Event PROVE cache'[e] = seen'[e] \/ (Writes(p)' /\ e \in poll'[p].todo)
    BY <1>2, <1>7, <1>9, <1>10, <2>5, <2>7
  <2>9. account'.connected => account'.token = valid'[account'.id]
    BY <1>2, <2>1, <2>3 DEF OneRunFollows
  <2>10. \A r, s \in Poll : Busy(r)' /\ Busy(s)' => r = s
    BY <2>2
  <2> QED
    BY <2>3, <2>6, <2>8, <2>9, <2>10 DEF OneRunFollows
<1> QED
  BY <1>12, <1>14, <1>15 DEF CalendarInv

LEMMA UpsertKeepsCalendar ==
  ASSUME CalendarInv, NEW p \in Poll, H!Upsert(p)
  PROVE  CalendarInv'
<1>1. CalendarTypes /\ AccountsSucceed
  BY DEF CalendarInv
<1>2. /\ poll[p].at = "upsert" /\ poll[p] \in Polls
      /\ UNCHANGED <<remote, account, valid, changes, mishaps, seen, overlapped>>
  BY <1>1 DEF H!Upsert, CalendarTypes
<1>3. PICK a \in Nat, events \in Copies, todo \in SUBSET Event :
        poll[p] = [at |-> "upsert", id |-> a, events |-> events, todo |-> todo]
  BY <1>2 DEF Polls
<1>4. poll[p].id = a /\ poll[p].events = events /\ poll[p].todo = todo
  BY <1>3
<1>5. PICK q \in Polls :
        /\ H!Go(p, q)
        /\ \/ q.at = "idle" /\ (todo = {} \/ ~H!Row(poll[p])) /\ UNCHANGED cache
           \/ /\ q.at = "upsert" /\ q.id = a /\ q.events = events /\ H!Row(poll[p])
              /\ \E e \in todo : /\ q.todo = todo \ {e}
                                 /\ cache' = [cache EXCEPT ![e] = events[e]]
  <2>1. CASE todo = {} \/ ~H!Row(poll[p])
    <3>1. H!Go(p, H!Idle) /\ UNCHANGED cache
      BY <2>1, <1>4 DEF H!Upsert
    <3> QED
      BY <3>1, <2>1 DEF H!Idle, Polls
  <2>2. CASE ~(todo = {} \/ ~H!Row(poll[p]))
    <3>1. PICK e \in todo : /\ cache' = [cache EXCEPT ![e] = events[e]]
                            /\ H!Go(p, [poll[p] EXCEPT !.todo = @ \ {e}])
      BY <2>2, <1>4 DEF H!Upsert
    <3>2. PICK q : q = [at |-> "upsert", id |-> a, events |-> events, todo |-> todo \ {e}]
      OBVIOUS
    <3>3. [poll[p] EXCEPT !.todo = @ \ {e}] = q
      BY <3>2, <1>3
    <3>4. todo \ {e} \in SUBSET Event
      OBVIOUS
    <3>5. q \in Polls
      BY <3>2, <3>4 DEF Polls
    <3>6. q.at = "upsert" /\ q.id = a /\ q.events = events /\ q.todo = todo \ {e}
      BY <3>2
    <3> QED
      BY <2>2, <3>1, <3>3, <3>5, <3>6
  <2> QED
    BY <2>1, <2>2
<1>6. /\ poll' \in [Poll -> Polls] /\ poll'[p] = q
      /\ \A r \in Poll : r # p => poll'[r] = poll[r]
  BY <1>1, <1>5, RunGoesOn
<1>7. cache' \in Copies
  BY <1>1, <1>5 DEF CalendarTypes, Copies
<1>8. CalendarTypes'
  BY <1>1, <1>2, <1>6, <1>7 DEF CalendarTypes
<1>9. \A r \in Poll : Busy(r)' => Busy(r) /\ poll'[r].id = poll[r].id
  BY <1>2, <1>4, <1>5, <1>6 DEF Busy
<1>10. AccountsSucceed'
  <2>1. ~account.connected => UNCHANGED cache
    BY <1>5 DEF H!Row
  <2> QED
    BY <1>1, <1>2, <1>9, <2>1 DEF AccountsSucceed, H!Nothing
<1>11. ASSUME mishaps' = 0, ~overlapped' PROVE OneRunFollows'
  <2>1. OneRunFollows
    BY <1>2, <1>11 DEF CalendarInv
  <2>2. Busy(p) /\ \A r \in Poll : r # p => ~Busy(r) /\ ~Busy(r)'
    BY <1>2, <1>9, <2>1 DEF OneRunFollows, Busy
  <2>3. \A r \in Poll : poll[r].at # "store" /\ poll'[r].at # "store"
    BY <1>2, <1>5, <1>6, <2>2 DEF Busy
  <2>4. \A r \in Poll : Writes(r) \/ Writes(r)' => r = p
    BY <2>2 DEF Busy, Writes
  <2>5. Writes(p) <=> H!Row(poll[p])
    BY <1>2 DEF Writes
  <2>6. H!Row(poll[p]) => \A e \in todo : events[e] = seen[e]
    BY <1>4, <2>1, <2>5 DEF OneRunFollows
  <2>7. \A e \in Event : cache[e] = seen[e] \/ (H!Row(poll[p]) /\ e \in todo)
    BY <1>4, <2>1, <2>4, <2>5 DEF OneRunFollows
  <2>8. account'.connected => account'.token = valid'[account'.id]
    BY <1>2, <2>1, <2>3 DEF OneRunFollows
  <2>9. \A r, s \in Poll : Busy(r)' /\ Busy(s)' => r = s
    BY <2>2
  <2>10. CASE q.at = "idle" /\ (todo = {} \/ ~H!Row(poll[p])) /\ UNCHANGED cache
    <3>1. \A r \in Poll : ~Writes(r)'
      BY <1>6, <2>4, <2>10 DEF Writes
    <3>2. \A e \in Event : cache'[e] = seen'[e]
      BY <1>2, <2>7, <2>10
    <3> QED
      BY <2>3, <2>8, <2>9, <3>1, <3>2 DEF OneRunFollows
  <2>11. CASE ~(q.at = "idle" /\ (todo = {} \/ ~H!Row(poll[p])) /\ UNCHANGED cache)
    <3>1. PICK e \in todo : /\ q.at = "upsert" /\ q.id = a /\ q.events = events /\ H!Row(poll[p])
                            /\ q.todo = todo \ {e}
                            /\ cache' = [cache EXCEPT ![e] = events[e]]
      BY <1>5, <2>11
    <3>2. Writes(p)'
      BY <1>2, <1>4, <1>6, <3>1 DEF Writes, H!Row
    <3>3. \A r \in Poll : Writes(r)' => \A f \in poll'[r].todo : poll'[r].events[f] = seen'[f]
      BY <1>2, <1>6, <2>4, <2>6, <3>1
    <3>4. cache \in [Event -> Nat]
      BY <1>1 DEF CalendarTypes, Copies
    <3>5. \A f \in Event : cache'[f] = seen[f] \/ f \in todo \ {e}
      BY <2>6, <2>7, <3>1, <3>4
    <3>6. \A f \in Event : cache'[f] = seen'[f] \/ \E r \in Poll : Writes(r)' /\ f \in poll'[r].todo
      BY <1>2, <1>6, <3>1, <3>2, <3>5
    <3> QED
      BY <2>3, <2>8, <2>9, <3>3, <3>6 DEF OneRunFollows
  <2> QED
    BY <2>10, <2>11
<1> QED
  BY <1>8, <1>10, <1>11 DEF CalendarInv

LEMMA FailKeepsCalendar ==
  ASSUME CalendarInv, NEW p \in Poll, H!Fail(p)
  PROVE  CalendarInv'
<1>1. CalendarTypes /\ AccountsSucceed
  BY DEF CalendarInv
<1>2. /\ H!Go(p, H!Idle)
      /\ UNCHANGED <<remote, cache, account, valid, changes, seen, overlapped>>
  BY DEF H!Fail
<1>3. mishaps' \in Nat /\ mishaps' # 0
  <2>1. mishaps \in Nat
    BY <1>1 DEF CalendarTypes
  <2>2. mishaps' = mishaps + 1
    BY DEF H!Fail
  <2> QED
    BY <2>1, <2>2
<1>4. H!Idle \in Polls /\ H!Idle.at = "idle"
  BY DEF H!Idle, Polls
<1>5. /\ poll' \in [Poll -> Polls] /\ poll'[p] = H!Idle
      /\ \A r \in Poll : r # p => poll'[r] = poll[r]
  BY <1>1, <1>2, <1>4, RunGoesOn
<1>6. CalendarTypes'
  BY <1>1, <1>2, <1>3, <1>5 DEF CalendarTypes
<1>7. \A r \in Poll : Busy(r)' => Busy(r) /\ poll'[r].id = poll[r].id
  BY <1>4, <1>5 DEF Busy
<1>8. AccountsSucceed'
  BY <1>1, <1>2, <1>7 DEF AccountsSucceed, H!Nothing
<1> QED
  BY <1>3, <1>6, <1>8 DEF CalendarInv

\* An access token expires, an external event changes: no run's step.
LEMMA OutsideKeepsCalendar ==
  ASSUME CalendarInv, H!Expire \/ H!Change
  PROVE  CalendarInv'
<1>1. CalendarTypes /\ AccountsSucceed
  BY DEF CalendarInv
<1>2. UNCHANGED <<cache, valid, poll, mishaps, seen, overlapped>>
  BY DEF H!Expire, H!Change
<1>3. /\ account' \in [connected : BOOLEAN, id : 1..MaxAccounts, token : Nat, fresh : BOOLEAN]
      /\ account'.connected = account.connected /\ account'.id = account.id
      /\ account'.token = account.token
  <2>1. account \in [connected : BOOLEAN, id : 1..MaxAccounts, token : Nat, fresh : BOOLEAN]
    BY <1>1 DEF CalendarTypes
  <2>2. account' = account \/ account' = [account EXCEPT !.fresh = FALSE]
    BY DEF H!Expire, H!Change
  <2> QED
    BY <2>1, <2>2
<1>4. remote' \in Copies /\ changes' \in Nat
  <2>1. changes \in Nat /\ remote \in Copies
    BY <1>1 DEF CalendarTypes
  <2>2. CASE H!Expire
    BY <2>1, <2>2 DEF H!Expire
  <2>3. CASE H!Change
    <3>1. PICK n \in Nat : n = changes + 1
      BY <2>1
    <3>2. changes' = n /\ \E e \in Event, version \in {0, n} : remote' = [remote EXCEPT ![e] = version]
      BY <2>3, <3>1 DEF H!Change
    <3> QED
      BY <2>1, <3>2 DEF Copies
  <2> QED
    BY <2>2, <2>3
<1>5. CalendarTypes'
  BY <1>1, <1>2, <1>3, <1>4 DEF CalendarTypes
<1>6. AccountsSucceed'
  BY <1>1, <1>2, <1>3 DEF AccountsSucceed, H!Nothing, Busy
<1>7. \A r \in Poll : (Writes(r)' <=> Writes(r)) /\ (Busy(r)' <=> Busy(r))
  BY <1>2, <1>3 DEF Writes, H!Row, Busy
<1>8. ASSUME mishaps' = 0, ~overlapped' PROVE OneRunFollows'
  <2>1. OneRunFollows
    BY <1>2, <1>8 DEF CalendarInv
  <2> QED
    BY <1>2, <1>3, <1>7, <2>1 DEF OneRunFollows
<1> QED
  BY <1>5, <1>6, <1>8 DEF CalendarInv

\* No run writes under an account that is gone, or under one that has just come.
LEMMA AccountKeepsCalendar ==
  ASSUME MaxAccounts \in Nat \ {0}, CalendarInv, H!Disconnect \/ H!Connect
  PROVE  CalendarInv'
<1>1. CalendarTypes /\ AccountsSucceed
  BY DEF CalendarInv
<1>2. UNCHANGED <<remote, valid, poll, changes, mishaps, overlapped>>
  BY DEF H!Disconnect, H!Connect
<1>3. account \in [connected : BOOLEAN, id : 1..MaxAccounts, token : Nat, fresh : BOOLEAN]
  BY <1>1 DEF CalendarTypes
<1>4. PICK n \in 1..MaxAccounts : n = account.id
  BY <1>3
<1>5. \A p \in Poll : Busy(p) => poll[p].id \in Int /\ poll[p].id <= n
  <2>1. \A p \in Poll : Busy(p) => poll[p].id \in Int
    BY <1>1 DEF CalendarTypes, Polls, Busy
  <2> QED
    BY <1>1, <1>4, <2>1 DEF AccountsSucceed
<1>6. CASE H!Disconnect
  <2>1. /\ account.connected /\ account.id < MaxAccounts
        /\ account' = [account EXCEPT !.connected = FALSE]
        /\ cache' = H!Nothing /\ seen' = H!Nothing
    BY <1>6 DEF H!Disconnect
  <2>2. /\ account' \in [connected : BOOLEAN, id : 1..MaxAccounts, token : Nat, fresh : BOOLEAN]
        /\ ~account'.connected /\ account'.id = n
    BY <1>3, <1>4, <2>1
  <2>3. H!Nothing \in Copies
    BY DEF H!Nothing, Copies
  <2>4. CalendarTypes'
    BY <1>1, <1>2, <2>1, <2>2, <2>3 DEF CalendarTypes
  <2>5. AccountsSucceed'
    BY <1>1, <1>2, <1>4, <2>1, <2>2 DEF AccountsSucceed, Busy, H!Nothing
  <2>6. \A r \in Poll : ~Writes(r)'
    BY <2>2 DEF Writes, H!Row
  <2>7. ASSUME mishaps' = 0, ~overlapped' PROVE OneRunFollows'
    <3>1. OneRunFollows
      BY <1>2, <2>7 DEF CalendarInv
    <3> QED
      BY <1>2, <2>1, <2>2, <2>6, <3>1 DEF OneRunFollows, Busy
  <2> QED
    BY <2>4, <2>5, <2>7 DEF CalendarInv
<1>7. CASE H!Connect
  <2>1. ~account.connected /\ UNCHANGED <<cache, seen>>
    BY <1>7 DEF H!Connect
  <2>2. n < MaxAccounts
    BY <1>1, <1>4, <2>1 DEF AccountsSucceed
  <2>3. PICK m \in 1..MaxAccounts : m = n + 1
    BY <1>4, <2>2
  <2>4. account' = [connected |-> TRUE, id |-> m, token |-> 1, fresh |-> TRUE]
    BY <1>4, <1>7, <2>3 DEF H!Connect, H!Connected
  <2>5. /\ account' \in [connected : BOOLEAN, id : 1..MaxAccounts, token : Nat, fresh : BOOLEAN]
        /\ account'.connected /\ account'.id = m /\ account'.token = 1
    BY <2>4
  <2>6. CalendarTypes'
    BY <1>1, <1>2, <2>1, <2>5 DEF CalendarTypes
  <2>7. \A p \in Poll : Busy(p) => poll[p].id <= m /\ poll[p].id # m
    BY <1>5, <2>3
  <2>8. \A a \in 1..MaxAccounts : a >= m => valid[a] = 1
    BY <1>1, <1>4, <2>3 DEF AccountsSucceed
  <2>9. AccountsSucceed'
    <3>1. \A a \in 1..MaxAccounts : a > m => a >= m
      OBVIOUS
    <3> QED
      BY <1>2, <2>5, <2>7, <2>8, <3>1 DEF AccountsSucceed, Busy
  <2>10. \A r \in Poll : ~Writes(r) /\ ~Writes(r)'
    BY <1>2, <2>1, <2>5, <2>7 DEF Writes, H!Row, Busy
  <2>11. ASSUME mishaps' = 0, ~overlapped' PROVE OneRunFollows'
    <3>1. OneRunFollows
      BY <1>2, <2>11 DEF CalendarInv
    <3>2. valid'[m] = 1
      BY <1>2, <2>3, <2>8
    <3> QED
      BY <1>2, <2>1, <2>5, <2>10, <3>1, <3>2 DEF OneRunFollows, Busy
  <2> QED
    BY <2>6, <2>9, <2>11 DEF CalendarInv
<1> QED
  BY <1>6, <1>7

LEMMA CalendarGoesOn ==
  ASSUME MaxAccounts \in Nat \ {0}, CalendarInv, [H!Next]_H!vars
  PROVE  CalendarInv'
<1>1. CASE UNCHANGED H!vars
  <2>1. CalendarTypes' /\ AccountsSucceed'
    BY <1>1 DEF H!vars, CalendarInv, CalendarTypes, AccountsSucceed, Busy, H!Nothing
  <2>2. (mishaps = 0 /\ ~overlapped => OneRunFollows)'
    BY <1>1 DEF H!vars, CalendarInv, OneRunFollows, Busy, Writes, H!Row
  <2> QED
    BY <2>1, <2>2 DEF CalendarInv
<1> QED
  BY <1>1, BeginKeepsCalendar, ReadAccountKeepsCalendar, RefreshKeepsCalendar, StoreKeepsCalendar,
     ListKeepsCalendar, UpsertKeepsCalendar, FailKeepsCalendar, OutsideKeepsCalendar,
     AccountKeepsCalendar
  DEF H!Next

\* The synchronisation of a calendar (StoredTokenWorks, CacheFollows,
\* NothingWithoutAccount), for any number of runs, events, refresh tokens,
\* connections and changes: between runs the row's refresh token is one that the
\* provider accepts and the cache holds what was last heard of each event, unless a
\* run failed or runs overlapped; and no cached event outlives its account.
THEOREM CalendarIsFollowed ==
  ASSUME MaxAccounts \in Nat \ {0}
  PROVE  H!Spec => [](H!StoredTokenWorks /\ H!CacheFollows /\ H!NothingWithoutAccount)
<1>1. CalendarInv => H!StoredTokenWorks /\ H!CacheFollows /\ H!NothingWithoutAccount
  <2> SUFFICES ASSUME CalendarInv
               PROVE  H!StoredTokenWorks /\ H!CacheFollows /\ H!NothingWithoutAccount
    OBVIOUS
  <2>1. H!Quiet /\ mishaps = 0 /\ ~overlapped => OneRunFollows /\ \A p \in Poll : ~Writes(p)
    BY DEF H!Quiet, CalendarInv, Writes
  <2>2. H!StoredTokenWorks
    BY <2>1 DEF H!StoredTokenWorks, H!Quiet, OneRunFollows
  <2>3. H!CacheFollows
    <3>1. cache \in [Event -> Nat] /\ seen \in [Event -> Nat]
      BY DEF CalendarInv, CalendarTypes, Copies
    <3> QED
      BY <2>1, <3>1 DEF H!CacheFollows, OneRunFollows
  <2>4. H!NothingWithoutAccount
    BY DEF H!NothingWithoutAccount, CalendarInv, AccountsSucceed
  <2> QED
    BY <2>2, <2>3, <2>4
<1> QED
  BY <1>1, CalendarStarts, CalendarGoesOn, PTL DEF H!Spec

-------------------------------------------------------------------------------
(***************************************************************************)
(* The panels of the web client (Panels).                                  *)
(***************************************************************************)
CONSTANTS MaxTyped, MaxCalls

VARIABLES panel, rows, list, fetch, form, calls, typed, thrown, during

W == INSTANCE Panels

\* What the panels have in common.  A list that is fetched is fetched anew after
\* everything the panel does to it; what a button does at once leaves no text; a
\* secret comes with a row, and its form is cleared when it is sent or closed.
Common(p) ==
  /\ p.lists /\ p.op # "none" => p.op \in p.refreshes
  /\ p.lists /\ p.acts => "close" \in p.refreshes
  /\ p.local => ~p.lists /\ p.op = "make"
  /\ p.atOnce => p.clears = "sent" /\ ~p.seeds /\ p.op # "none"
  /\ p.reveals => /\ ~p.each /\ p.op = "make" /\ ~p.atOnce
                      /\ \/ p.clears = "sent"
                         \/ p.clears = "closed" /\ p.dialog
  /\ p.seeds => p.op = "change"
  /\ p.settles => p.op = "make" /\ p.clears = "answered"
  /\ p.op \in {"make", "change", "none"}
  /\ p.clears \in {"sent", "answered", "closed", "never"}
  /\ p.dialog \in BOOLEAN /\ p.local \in BOOLEAN

Stages == {"sent", "half", "done", "refused", "answered", "failed", "lost"}

Row == [text : Nat, open : BOOLEAN, at : Nat, whole : BOOLEAN]
Form == [open : BOOLEAN, draft : Nat, secret : Nat]
Calls ==
  [op : {"make", "change", "close"}, text : Nat, row : Nat, at : Nat, stage : Stages,
   crowded : BOOLEAN, late : BOOLEAN, first : BOOLEAN]

LEMMA PanelsHaveInCommon == \A p \in W!AllPanels : Common(p)
<1>1. Common(W!AgentDirectoryPanel)
  BY DEF W!AgentDirectoryPanel, W!Panel, Common, W!useAgents
<1>2. Common(W!CommentThread)
  BY DEF W!CommentThread, W!Panel, Common, W!useComments
<1>3. Common(W!DirectMessagePanel)
  BY DEF W!DirectMessagePanel, W!Panel, Common, W!useDmMessages
<1>4. Common(W!MemoryPassportPanel)
  BY DEF W!MemoryPassportPanel, W!Panel, Common, W!useMemoryRecords
<1>5. Common(W!MemoryRecordRow)
  BY DEF W!MemoryRecordRow, W!Panel, Common, W!useMemoryRecords
<1>6. Common(W!MemoryImportWizard)
  BY DEF W!MemoryImportWizard, W!Panel, Common, W!useMemoryRecords
<1>7. Common(W!McpAccessPanel)
  BY DEF W!McpAccessPanel, W!Panel, Common, W!useMcpGrants
<1>8. Common(W!WebhookSubscriptionsPanel)
  BY DEF W!WebhookSubscriptionsPanel, W!Panel, Common, W!useWebhookSubscriptions
<1>9. Common(W!FederationLinksPanel)
  BY DEF W!FederationLinksPanel, W!Panel, Common, W!useFederationLinks
<1>10. Common(W!FederationScope)
  BY DEF W!FederationScope, W!Panel, Common, W!useFederationScope
<1>11. Common(W!FederationCredentials)
  BY DEF W!FederationCredentials, W!Panel, Common, W!useFederationCredentials
<1>12. Common(W!AutonomyTierPanel)
  BY DEF W!AutonomyTierPanel, W!Panel, Common, W!useAutonomyTierSettings
<1>13. Common(W!AvailabilitySelector)
  BY DEF W!AvailabilitySelector, W!Panel, Common, W!useAvailability
<1>14. Common(W!NotificationPreferencesPanel)
  BY DEF W!NotificationPreferencesPanel, W!Panel, Common, W!useNotificationPreference
<1>15. Common(W!AutomationHistoryPanel)
  BY DEF W!AutomationHistoryPanel, W!Panel, Common, W!useProposals
<1>16. Common(W!FlightRecorderPanel)
  BY DEF W!FlightRecorderPanel, W!Panel, Common, W!useAgentActionRecords
<1>17. Common(W!TriggerSuggestionsPanel)
  BY DEF W!TriggerSuggestionsPanel, W!Panel, Common, W!useTriggerSuggestions
<1>18. Common(W!IntegrationsPanel)
  BY DEF W!IntegrationsPanel, W!Panel, Common, W!useIntegrations
<1>19. Common(W!SaveViewButton)
  BY DEF W!SaveViewButton, W!Panel, Common, W!useSavedViews
<1>20. Common(W!CreateTimeblockModal)
  BY DEF W!CreateTimeblockModal, W!Panel, Common
<1>21. Common(W!NotetakerInviteDialog)
  BY DEF W!NotetakerInviteDialog, W!Panel, Common, W!useInviteMeetingBot
<1>22. Common(W!ArtifactGenerationForm)
  BY DEF W!ArtifactGenerationForm, W!Panel, Common, W!useGenerateArtifact
<1>23. Common(W!WidgetGenerationForm)
  BY DEF W!WidgetGenerationForm, W!Panel, Common, W!useGenerateWidget
<1>24. Common(W!BaselineCreationForm)
  BY DEF W!BaselineCreationForm, W!Panel, Common, W!useCaptureBaseline
<1>25. Common(W!BaselineViewer)
  BY DEF W!BaselineViewer, W!Panel, Common, W!useExplainDeviation
<1>26. Common(W!CreateObjectButton)
  BY DEF W!CreateObjectButton, W!Panel, Common
<1>27. Common(W!CommandPalette)
  BY DEF W!CommandPalette, W!Panel, Common, W!useProposals
<1> QED
  BY <1>1, <1>2, <1>3, <1>4, <1>5, <1>6, <1>7, <1>8, <1>9, <1>10, <1>11, <1>12, <1>13, <1>14, <1>15, <1>16, <1>17, <1>18, <1>19, <1>20, <1>21, <1>22, <1>23, <1>24, <1>25, <1>26, <1>27 DEF W!AllPanels

-------------------------------------------------------------------------------
Underway(c) == c.stage \in {"sent", "half", "done"}
Served(c) == c.stage \in {"half", "done", "answered"}

PanelTypes ==
  /\ panel \in W!AllPanels
  /\ calls \in Seq(Calls) /\ rows \in Seq(Row)
  /\ \E r : \E k, f \in BOOLEAN : list = [known |-> k, failed |-> f, rows |-> r]
  /\ \E r : \E s \in {"none", "asked", "read"} : fetch = [stage |-> s, rows |-> r]
  /\ form \in Form
  /\ typed \in 0..MaxTyped

\* Calls are of the form or of a row's button; only a row that is closed is refused,
\* and a form changes the first row.
CallsOfPanel ==
  \A i \in DOMAIN calls :
    /\ calls[i].op = panel.op \/ (calls[i].op = "close" /\ panel.acts)
    /\ calls[i].op = "make" => calls[i].stage # "refused"
    /\ calls[i].op = "change" => calls[i].row = 1
    /\ calls[i].op # "make" \/ Served(calls[i]) => calls[i].row \in DOMAIN rows

\* A call sent while another of its kind was under way is known to be.
CallsQueue ==
  \A i, j \in DOMAIN calls :
    i < j /\ calls[i].op = calls[j].op /\ Underway(calls[i]) =>
      calls[j].crowded /\ calls[j].op \notin panel.guards

\* The texts that rows are made of are sent in the order they were typed, and the
\* form's is the last.
TextsInOrder ==
  /\ \A i, j \in DOMAIN calls :
       i < j /\ calls[i].op = "make" /\ calls[j].op = "make" => calls[i].text <= calls[j].text
  /\ \A i \in DOMAIN calls :
       calls[i].op = "make" =>
         /\ calls[i].text \in 1..typed
         /\ form.draft # 0 => calls[i].text <= form.draft
  /\ form.draft \in 0..typed \/ form.draft = MaxTyped + 1
  /\ panel.op = "make" => form.draft <= typed
  /\ panel.atOnce => form.draft = 0

\* Whether a later call is of the same kind.
Late(i) == \E j \in DOMAIN calls : j > i /\ calls[j].op = calls[i].op

\* What an answered call did is in r.
Shows(c, r) ==
  /\ c.row \in DOMAIN r
  /\ c.op = "change" => r[c.row].at >= c.at
  /\ c.op = "close" => ~r[c.row].open

\* Every row a list has is the server's, and what was served is in the rows.
RowsServed ==
  /\ 1 \in DOMAIN rows
  /\ DOMAIN list.rows \subseteq DOMAIN rows
  /\ fetch.stage = "read" => DOMAIN fetch.rows \subseteq DOMAIN rows
  /\ \A i \in DOMAIN calls : Served(calls[i]) => Shows(calls[i], rows)

\* What is answered is in the list that is shown, or in the one that is on its way.
AnswersListed ==
  /\ ~panel.lists => fetch.stage = "none" /\ (list.known => panel.local)
  /\ panel.lists =>
       \A i \in DOMAIN calls :
         calls[i].stage = "answered" /\ ~calls[i].first =>
           /\ fetch.stage = "none" /\ list.known /\ ~list.failed => Shows(calls[i], list.rows)
           /\ fetch.stage = "read" => Shows(calls[i], fetch.rows)
  /\ panel.local =>
       \A i \in DOMAIN calls :
         calls[i].stage = "answered" /\ calls[i].op = "make" =>
           calls[i].row \in DOMAIN list.rows \/ calls[i].late

\* A text that was typed while none was under way is still in the form when its own
\* request is; and what became of every text.
DraftIsSent ==
  form.draft \in 1..typed /\ ~(form.draft \in during) =>
    \A i \in DOMAIN calls :
      calls[i].op = panel.op /\ Underway(calls[i]) => calls[i].text = form.draft

OnItsWay(t) ==
  \E i \in DOMAIN calls :
    calls[i].text = t /\ (calls[i].stage = "answered" \/ panel.clears = "sent" \/ panel.settles)

TextsAre ==
  \A t \in 1..typed :
    t = form.draft \/ t \in thrown \/ OnItsWay(t) \/ (t \in during /\ panel.clears = "answered")

\* A panel whose form is cleared: its rows come from its calls, and a text is sent again
\* only after a failure, or for an excuse.
Clearing == panel.op = "make" /\ ~(panel.clears \in {"closed", "never"} /\ ~panel.reveals)

Excused(t) ==
  \E i \in DOMAIN calls :
    /\ calls[i].op = "make" /\ calls[i].text = t
    /\ calls[i].stage = "lost" \/ ("make" \notin panel.guards /\ calls[i].crowded)

RowsMadeByCalls ==
  panel.op = "make" =>
    /\ \A k \in DOMAIN rows :
         rows[k].text # 0 =>
           \E i \in DOMAIN calls :
             /\ calls[i].op = "make" /\ calls[i].row = k /\ calls[i].text = rows[k].text
             /\ Served(calls[i]) \/ calls[i].stage = "lost"

SentOnce ==
  Clearing =>
    /\ \A i, j \in DOMAIN calls :
         i < j /\ calls[i].op = "make" /\ calls[j].op = "make" /\ calls[i].text = calls[j].text =>
           calls[i].stage = "failed" \/ Excused(calls[i].text)
    /\ \A i \in DOMAIN calls :
         calls[i].op = "make" /\ calls[i].stage = "answered" /\ calls[i].text = form.draft =>
           Excused(calls[i].text) \/ (panel.reveals /\ panel.clears = "closed" /\ form.secret # 0)
    /\ panel.clears = "sent" =>
         \A i \in DOMAIN calls : calls[i].op = "make" => calls[i].text # form.draft

\* The last value that was served, of those that were not sent on top of another.
LastServed ==
  \A i \in DOMAIN calls :
    /\ calls[i].op = "change" /\ Served(calls[i]) /\ ~calls[i].crowded
    /\ \A j \in DOMAIN calls : calls[j].op = "change" => j <= i
    => rows[1].text = calls[i].text

SecretsSeen ==
  panel.reveals =>
    /\ form.open /\ form.secret # 0 => form.secret \in seen
    /\ form.secret # 0 /\ ~(form.secret \in seen) =>
         \A i \in DOMAIN calls : calls[i].op = "make" /\ Underway(calls[i]) => Late(i)
    /\ \A i \in DOMAIN calls :
         calls[i].op = "make" /\ calls[i].stage = "answered" =>
           calls[i].row \in seen \/ calls[i].row = form.secret \/ calls[i].late

-------------------------------------------------------------------------------
\* The new call c, at place n.
Added(n, c) ==
  /\ calls' \in Seq(Calls) /\ DOMAIN calls' = DOMAIN calls \union {n} /\ calls'[n] = c
  /\ n \in Nat /\ c \in Calls
  /\ \A i \in DOMAIN calls : i \in Nat /\ i < n /\ calls'[i] = calls[i]
  /\ c.stage = "sent" /\ ~c.late
  /\ \A i \in DOMAIN calls :
       calls[i].op = c.op /\ Underway(calls[i]) => c.crowded /\ c.op \notin panel.guards

LEMMA CallIsAdded ==
  ASSUME PanelTypes, NEW op \in {"make", "change", "close"}, NEW text \in Nat, NEW row \in Nat,
         calls' = Append(calls, W!Call(op, text, row)), W!Enabled(op)
  PROVE  \E n, c : Added(n, c) /\ c.op = op /\ c.text = text /\ c.row = row
<1>1. calls \in Seq(Calls)
  BY DEF PanelTypes
<1>2. PICK pending \in BOOLEAN : pending <=> W!Pending(op) # {}
  OBVIOUS
<1>3. PICK c : c = [op |-> op, text |-> text, row |-> row, at |-> 0, stage |-> "sent",
                    crowded |-> pending, late |-> FALSE, first |-> FALSE]
  OBVIOUS
<1>4. W!Call(op, text, row) = c
  <2>1. (W!Pending(op) # {}) = pending
    BY <1>2
  <2> QED
    BY <1>3, <2>1 DEF W!Call
<1>5. c \in Calls /\ c.op = op /\ c.text = text /\ c.row = row /\ c.stage = "sent" /\ ~c.late
      /\ (c.crowded <=> pending)
  BY <1>3 DEF Calls, Stages
<1>6. PICK n \in Nat : n = Len(calls) + 1
  BY <1>1
<1>7. /\ calls' \in Seq(Calls) /\ DOMAIN calls' = DOMAIN calls \union {n} /\ calls'[n] = c
      /\ \A i \in DOMAIN calls : i \in Nat /\ i < n /\ calls'[i] = calls[i]
  BY <1>1, <1>4, <1>5, <1>6
<1>8. ASSUME NEW i \in DOMAIN calls, calls[i].op = op, Underway(calls[i])
      PROVE  pending /\ op \notin panel.guards
  <2>1. i \in W!Pending(op)
    BY <1>8 DEF W!Pending, W!Under, Underway
  <2> QED
    BY <2>1, <1>2 DEF W!Enabled
<1>9. Added(n, c)
  BY <1>5, <1>6, <1>7, <1>8 DEF Added
<1> QED
  BY <1>5, <1>9

\* The call at place i becomes c.
Moved(i, c) ==
  /\ calls' \in Seq(Calls) /\ DOMAIN calls' = DOMAIN calls /\ calls'[i] = c /\ c \in Calls
  /\ \A j \in DOMAIN calls : j # i => calls'[j] = calls[j]
  /\ c.op = calls[i].op /\ c.text = calls[i].text /\ c.crowded = calls[i].crowded

LEMMA CallIsMoved ==
  ASSUME PanelTypes, NEW i \in DOMAIN calls, NEW c \in Calls, calls' = [calls EXCEPT ![i] = c],
         c.op = calls[i].op, c.text = calls[i].text, c.crowded = calls[i].crowded
  PROVE  Moved(i, c)
<1>1. calls \in Seq(Calls)
  BY DEF PanelTypes
<1> QED
  BY <1>1 DEF Moved

\* The row at place k is made, or becomes r; or the rows stay as they are.
RowMade(k, text) ==
  /\ rows' \in Seq(Row) /\ DOMAIN rows' = DOMAIN rows \union {k} /\ k \notin DOMAIN rows
  /\ k \in Nat \ {0, 1} /\ rows'[k].text = text
  /\ \A n \in DOMAIN rows : rows'[n] = rows[n]

RowSet(k, r) ==
  /\ rows' \in Seq(Row) /\ DOMAIN rows' = DOMAIN rows /\ k \in DOMAIN rows
  /\ rows'[k] = r /\ r \in Row
  /\ \A n \in DOMAIN rows : n # k => rows'[n] = rows[n]

ServedAs(i, c) ==
  \/ c.op = "make" /\ c.stage \in {"half", "done"} /\ RowMade(c.row, c.text)
  \/ /\ c.op = "change" /\ c.stage = "done" /\ c.row = calls[i].row
     /\ \E r : RowSet(c.row, r) /\ r.text = c.text /\ r.at = c.at /\ r.at = rows[c.row].at + 1
                                /\ r.open = rows[c.row].open
  \/ /\ c.op = "close" /\ c.stage = "done" /\ c.row = calls[i].row
     /\ \E r : RowSet(c.row, r) /\ r.text = rows[c.row].text /\ r.at = rows[c.row].at /\ ~r.open
  \/ c.op # "make" /\ c.stage = "refused" /\ c.row = calls[i].row /\ rows' = rows

\* An entry that gets a stage, a row and a version, or a stage alone.
Restaged(c, stage, row, at) == [[[c EXCEPT !.stage = stage] EXCEPT !.row = row] EXCEPT !.at = at]
Staged(c, stage) == [c EXCEPT !.stage = stage]
Result(i, stage, row, at) == [calls EXCEPT ![i].stage = stage, ![i].row = row, ![i].at = at]

LEMMA CallIsStaged ==
  ASSUME NEW c \in Calls, NEW stage \in Stages
  PROVE  /\ Staged(c, stage) \in Calls /\ Staged(c, stage).stage = stage
         /\ Staged(c, stage).op = c.op /\ Staged(c, stage).text = c.text
         /\ Staged(c, stage).row = c.row /\ Staged(c, stage).at = c.at
         /\ Staged(c, stage).crowded = c.crowded /\ Staged(c, stage).late = c.late
         /\ Staged(c, stage).first = c.first
BY DEF Staged, Calls

LEMMA CallIsRestaged ==
  ASSUME NEW c \in Calls, NEW stage \in Stages, NEW row \in Nat, NEW at \in Nat
  PROVE  \A d : d = Restaged(c, stage, row, at) =>
           /\ d \in Calls /\ d.stage = stage /\ d.row = row /\ d.at = at
           /\ d.op = c.op /\ d.text = c.text /\ d.crowded = c.crowded /\ d.late = c.late
<1> TAKE d
<1> HAVE d = Restaged(c, stage, row, at)
<1>1. PICK c1, c2 : c1 = [c EXCEPT !.stage = stage] /\ c2 = [c1 EXCEPT !.row = row]
  OBVIOUS
<1>2. /\ c1 \in Calls /\ c1.stage = stage
      /\ c1.op = c.op /\ c1.text = c.text /\ c1.crowded = c.crowded /\ c1.late = c.late
  BY <1>1 DEF Calls
<1>3. /\ c2 \in Calls /\ c2.stage = stage /\ c2.row = row
      /\ c2.op = c.op /\ c2.text = c.text /\ c2.crowded = c.crowded /\ c2.late = c.late
  BY <1>1, <1>2 DEF Calls
<1>4. d = [c2 EXCEPT !.at = at]
  BY <1>1 DEF Restaged
<1> QED
  BY <1>3, <1>4 DEF Calls

LEMMA ResultIsMove ==
  ASSUME PanelTypes, NEW i \in DOMAIN calls, NEW stage \in Stages, NEW row \in Nat, NEW at \in Nat
  PROVE  Result(i, stage, row, at) = [calls EXCEPT ![i] = Restaged(calls[i], stage, row, at)]
<1>1. calls \in Seq(Calls)
  BY DEF PanelTypes
<1>2. PICK c1, c2, c3 : /\ c1 = [calls[i] EXCEPT !.stage = stage] /\ c2 = [c1 EXCEPT !.row = row]
                        /\ c3 = [c2 EXCEPT !.at = at]
  OBVIOUS
<1>3. PICK f1, f2 : f1 = [calls EXCEPT ![i] = c1] /\ f2 = [f1 EXCEPT ![i] = c2]
  OBVIOUS
<1>4. f1[i] = c1 /\ DOMAIN f1 = DOMAIN calls /\ f2[i] = c2 /\ DOMAIN f2 = DOMAIN calls
  BY <1>1, <1>3
<1>5. [calls EXCEPT ![i].stage = stage] = f1
  BY <1>1, <1>2, <1>3
<1>6. [f1 EXCEPT ![i].row = row] = f2
  BY <1>2, <1>3, <1>4
<1>7. [f2 EXCEPT ![i].at = at] = [f2 EXCEPT ![i] = c3]
  BY <1>2, <1>3, <1>4
<1>8. [f2 EXCEPT ![i] = c3] = [calls EXCEPT ![i] = c3]
  BY <1>1, <1>3, <1>4
<1>9. Restaged(calls[i], stage, row, at) = c3
  BY <1>2 DEF Restaged
<1> QED
  BY <1>5, <1>6, <1>7, <1>8, <1>9 DEF Result

\* A row that is closed, or is made whole.
Closed(r) == [r EXCEPT !.open = FALSE]
Whole(r) == [r EXCEPT !.whole = TRUE]

LEMMA RowIsClosed ==
  ASSUME NEW r \in Row
  PROVE  /\ Closed(r) \in Row /\ Closed(r).text = r.text /\ Closed(r).at = r.at /\ ~Closed(r).open
         /\ Whole(r) \in Row /\ Whole(r).text = r.text /\ Whole(r).at = r.at
         /\ Whole(r).open = r.open
<1>1. Closed(r) \in Row /\ Closed(r).text = r.text /\ Closed(r).at = r.at /\ ~Closed(r).open
  BY DEF Closed, Row
<1>2. Whole(r) \in Row /\ Whole(r).text = r.text /\ Whole(r).at = r.at /\ Whole(r).open = r.open
  BY DEF Whole, Row
<1> QED
  BY <1>1, <1>2

LEMMA RowIsMade ==
  ASSUME rows \in Seq(Row), 1 \in DOMAIN rows, NEW text \in Nat, NEW whole \in BOOLEAN,
         rows' = Append(rows, W!NewRow(text, whole)), NEW k, k = Len(rows) + 1
  PROVE  RowMade(k, text)
<1>1. PICK r : r = [text |-> text, open |-> TRUE, at |-> 0, whole |-> whole]
  OBVIOUS
<1>2. r \in Row /\ r.text = text
  BY <1>1 DEF Row
<1>3. rows' = Append(rows, r)
  BY <1>1 DEF W!NewRow
<1> QED
  BY <1>2, <1>3 DEF RowMade

LEMMA RowIsSet ==
  ASSUME rows \in Seq(Row), NEW k \in DOMAIN rows, NEW r \in Row, rows' = [rows EXCEPT ![k] = r]
  PROVE  RowSet(k, r)
BY DEF RowSet

Rewritten(k, text) == [rows EXCEPT ![k].text = text, ![k].at = @ + 1]

LEMMA RowGetsText ==
  ASSUME rows \in Seq(Row), NEW k \in DOMAIN rows, NEW text \in Nat, NEW at \in Nat,
         at = rows[k].at + 1, rows' = Rewritten(k, text)
  PROVE  \E r : RowSet(k, r) /\ r.text = text /\ r.at = at /\ r.open = rows[k].open
<1>1. PICK was : was \in Row /\ was = rows[k]
  OBVIOUS
<1>2. PICK r1 : r1 = [was EXCEPT !.text = text]
  OBVIOUS
<1>3. r1 \in Row /\ r1.text = text /\ r1.at = was.at /\ r1.open = was.open
  BY <1>1, <1>2 DEF Row
<1>4. PICK r : r = [r1 EXCEPT !.at = at]
  OBVIOUS
<1>5. r \in Row /\ r.text = text /\ r.at = at /\ r.open = was.open
  BY <1>3, <1>4 DEF Row
<1>6. PICK f : f = [rows EXCEPT ![k].text = text]
  OBVIOUS
<1>7. f = [rows EXCEPT ![k] = r1]
  BY <1>1, <1>2, <1>6
<1>8. DOMAIN f = DOMAIN rows /\ f[k] = r1
  BY <1>7
<1>9. f[k].at + 1 = at
  BY <1>1, <1>3, <1>8
<1>10. rows' = [f EXCEPT ![k].at = f[k].at + 1]
  BY <1>6 DEF Rewritten
<1>11. rows' = [f EXCEPT ![k].at = at]
  BY <1>9, <1>10
<1>12. rows' = [f EXCEPT ![k] = r]
  BY <1>4, <1>8, <1>11
<1>13. rows' = [rows EXCEPT ![k] = r]
  BY <1>7, <1>12
<1>14. RowSet(k, r)
  BY <1>5, <1>13, RowIsSet
<1> QED
  BY <1>1, <1>5, <1>14

LEMMA ServeMoves ==
  ASSUME PanelTypes, CallsOfPanel, 1 \in DOMAIN rows, NEW i \in DOMAIN calls, W!Serve(i)
  PROVE  /\ calls[i].stage = "sent"
         /\ \E c : Moved(i, c) /\ c.late = calls[i].late /\ ServedAs(i, c)
         /\ UNCHANGED <<panel, list, fetch, form, typed, thrown, during, seen, mishaps>>
<1>1. /\ calls[i].stage = "sent"
      /\ UNCHANGED <<panel, list, fetch, form, typed, thrown, during, seen, mishaps>>
  BY DEF W!Serve
<1>2. calls \in Seq(Calls) /\ calls[i] \in Calls /\ rows \in Seq(Row)
  BY DEF PanelTypes
<1>3. PICK op \in {"make", "change", "close"}, text \in Nat, row \in Nat :
        calls[i].op = op /\ calls[i].text = text /\ calls[i].row = row
  BY <1>2 DEF Calls
<1>4. row \in DOMAIN rows \/ op = "make"
  BY <1>3 DEF CallsOfPanel
<1>5. ASSUME NEW stage \in {"half", "done"}, NEW k \in Nat, NEW at \in Nat,
             calls' = Result(i, stage, k, at)
      PROVE  \E c : /\ Moved(i, c) /\ c.late = calls[i].late /\ c.op = op /\ c.text = text
                    /\ c.stage = stage /\ c.row = k /\ c.at = at
  <2>1. PICK c : c = Restaged(calls[i], stage, k, at)
    OBVIOUS
  <2>2. stage \in Stages
    BY DEF Stages
  <2>3. /\ c \in Calls /\ c.stage = stage /\ c.row = k /\ c.at = at
        /\ c.op = calls[i].op /\ c.text = calls[i].text
        /\ c.crowded = calls[i].crowded /\ c.late = calls[i].late
    <3>1. PICK was : was = calls[i]
      OBVIOUS
    <3>2. was \in Calls /\ c = Restaged(was, stage, k, at)
      BY <1>2, <2>1, <3>1
    <3>3. /\ c \in Calls /\ c.stage = stage /\ c.row = k /\ c.at = at
          /\ c.op = was.op /\ c.text = was.text /\ c.crowded = was.crowded /\ c.late = was.late
      BY <2>2, <3>2, CallIsRestaged
    <3> QED
      BY <3>1, <3>3
  <2>4. calls' = [calls EXCEPT ![i] = c]
    BY <1>5, <2>1, <2>2, ResultIsMove
  <2>5. Moved(i, c)
    BY <2>3, <2>4, CallIsMoved
  <2> QED
    BY <1>3, <2>3, <2>5
<1>6. CASE /\ op = "make"
           /\ rows' = Append(rows, W!NewRow(text, ~panel.halves))
           /\ calls' = Result(i, IF panel.halves THEN "half" ELSE "done", Len(rows) + 1, 0)
  <2>1. PICK k \in Nat : k = Len(rows) + 1
    BY <1>2
  <2>2. PICK stage \in {"half", "done"} : stage = IF panel.halves THEN "half" ELSE "done"
    OBVIOUS
  <2>3. calls' = Result(i, stage, k, 0)
    BY <1>6, <2>1, <2>2
  <2>4. PICK c : /\ Moved(i, c) /\ c.late = calls[i].late /\ c.op = op /\ c.text = text
                 /\ c.stage = stage /\ c.row = k
    BY <1>5, <2>3
  <2>5. RowMade(k, text)
    <3>1. (~panel.halves) \in BOOLEAN
      OBVIOUS
    <3> QED
      BY <1>2, <1>6, <2>1, <3>1, RowIsMade
  <2>6. ServedAs(i, c)
    BY <1>6, <2>4, <2>5 DEF ServedAs
  <2> QED
    BY <1>1, <2>4, <2>6
<1>7. CASE /\ op = "change"
           /\ rows' = Rewritten(row, text)
           /\ calls' = Result(i, "done", row, rows[row].at + 1)
  <2>1. row \in DOMAIN rows /\ rows[row] \in Row
    BY <1>2, <1>4, <1>7
  <2>2. PICK at \in Nat : at = rows[row].at + 1
    BY <2>1 DEF Row
  <2>3. \E r : RowSet(row, r) /\ r.text = text /\ r.at = at /\ r.open = rows[row].open
    BY <1>2, <1>7, <2>1, <2>2, RowGetsText
  <2>4. calls' = Result(i, "done", row, at)
    BY <1>7, <2>2
  <2>5. PICK c : /\ Moved(i, c) /\ c.late = calls[i].late /\ c.op = op /\ c.text = text
                 /\ c.stage = "done" /\ c.row = row /\ c.at = at
    BY <1>5, <2>4
  <2>6. ServedAs(i, c)
    <3>1. \E r : RowSet(c.row, r) /\ r.text = c.text /\ r.at = c.at /\ r.at = rows[c.row].at + 1
                 /\ r.open = rows[c.row].open
      BY <2>2, <2>3, <2>5
    <3>2. c.op = "change" /\ c.stage = "done" /\ c.row = calls[i].row
      BY <1>3, <1>7, <2>5
    <3> QED
      BY <3>1, <3>2 DEF ServedAs
  <2> QED
    BY <1>1, <2>5, <2>6
<1>8. CASE /\ op = "close"
           /\ rows' = [rows EXCEPT ![row].open = FALSE]
           /\ calls' = Result(i, "done", row, 0)
  <2>1. row \in DOMAIN rows /\ rows[row] \in Row
    BY <1>2, <1>4, <1>8
  <2>2. PICK r : r = Closed(rows[row])
    OBVIOUS
  <2>3. r \in Row /\ r.text = rows[row].text /\ r.at = rows[row].at /\ ~r.open
    BY <2>1, <2>2, RowIsClosed
  <2>4. rows' = [rows EXCEPT ![row] = r]
    BY <1>8, <2>1, <2>2 DEF Closed
  <2>5. PICK c : /\ Moved(i, c) /\ c.late = calls[i].late /\ c.op = op /\ c.text = text
                 /\ c.stage = "done" /\ c.row = row
    BY <1>5, <1>8
  <2>6. RowSet(row, r)
    BY <1>2, <2>1, <2>3, <2>4, RowIsSet
  <2>7. ServedAs(i, c)
    BY <1>3, <1>8, <2>3, <2>5, <2>6 DEF ServedAs
  <2> QED
    BY <1>1, <2>5, <2>7
<1>9. CASE op # "make" /\ calls' = [calls EXCEPT ![i].stage = "refused"] /\ rows' = rows
  <2>1. PICK c : c = Staged(calls[i], "refused")
    OBVIOUS
  <2>2. /\ c \in Calls /\ c.op = op /\ c.text = text /\ c.crowded = calls[i].crowded
        /\ c.row = row /\ c.late = calls[i].late /\ c.stage = "refused"
    BY <1>2, <1>3, <2>1, CallIsStaged DEF Stages
  <2>3. calls' = [calls EXCEPT ![i] = c]
    BY <1>9, <2>1 DEF Staged
  <2>4. Moved(i, c)
    BY <1>3, <2>2, <2>3, CallIsMoved
  <2>5. ServedAs(i, c)
    BY <1>3, <1>9, <2>2 DEF ServedAs
  <2> QED
    BY <1>1, <2>2, <2>4, <2>5
<1>10. \/ /\ op = "make"
          /\ rows' = Append(rows, W!NewRow(text, ~panel.halves))
          /\ calls' = Result(i, IF panel.halves THEN "half" ELSE "done", Len(rows) + 1, 0)
       \/ /\ op = "change"
          /\ rows' = Rewritten(row, text)
          /\ calls' = Result(i, "done", row, rows[row].at + 1)
       \/ /\ op = "close"
          /\ rows' = [rows EXCEPT ![row].open = FALSE]
          /\ calls' = Result(i, "done", row, 0)
       \/ op # "make" /\ calls' = [calls EXCEPT ![i].stage = "refused"] /\ rows' = rows
  BY <1>3 DEF W!Serve, Result, Rewritten
<1> QED
  BY <1>6, <1>7, <1>8, <1>9, <1>10

LEMMA ScheduleMoves ==
  ASSUME PanelTypes, CallsOfPanel, NEW i \in DOMAIN calls, W!Schedule(i)
  PROVE  /\ calls[i].stage = "half" /\ calls[i].row \in DOMAIN rows
         /\ \E c : /\ Moved(i, c) /\ c.late = calls[i].late /\ c.stage = "done"
                   /\ c.row = calls[i].row /\ c.at = calls[i].at
         /\ \E r : /\ RowSet(calls[i].row, r) /\ r.text = rows[calls[i].row].text
                   /\ r.at = rows[calls[i].row].at /\ r.open = rows[calls[i].row].open
         /\ UNCHANGED <<panel, list, fetch, form, typed, thrown, during, seen, mishaps>>
<1>1. /\ calls[i].stage = "half"
      /\ calls' = [calls EXCEPT ![i].stage = "done"]
      /\ rows' = [rows EXCEPT ![calls[i].row].whole = TRUE]
      /\ UNCHANGED <<panel, list, fetch, form, typed, thrown, during, seen, mishaps>>
  BY DEF W!Schedule
<1>2. calls[i] \in Calls /\ rows \in Seq(Row)
  BY DEF PanelTypes
<1>3. calls[i].row \in DOMAIN rows
  BY <1>1 DEF CallsOfPanel, Served
<1>4. PICK c : c = Staged(calls[i], "done")
  OBVIOUS
<1>5. /\ c \in Calls /\ c.op = calls[i].op /\ c.text = calls[i].text /\ c.crowded = calls[i].crowded
      /\ c.row = calls[i].row /\ c.late = calls[i].late /\ c.stage = "done" /\ c.at = calls[i].at
  BY <1>2, <1>4, CallIsStaged DEF Stages
<1>6. calls' = [calls EXCEPT ![i] = c]
  BY <1>1, <1>4 DEF Staged
<1>7. Moved(i, c)
  BY <1>5, <1>6, CallIsMoved
<1>8. PICK k : k = calls[i].row
  OBVIOUS
<1>9. PICK r : r = Whole(rows[k])
  OBVIOUS
<1>10. rows[k] \in Row
  BY <1>2, <1>3, <1>8
<1>11. r \in Row /\ r.text = rows[k].text /\ r.at = rows[k].at /\ r.open = rows[k].open
  BY <1>9, <1>10, RowIsClosed
<1>12. rows' = [rows EXCEPT ![k] = r]
  BY <1>1, <1>8, <1>9 DEF Whole
<1>13. RowSet(k, r)
  BY <1>2, <1>3, <1>8, <1>11, <1>12, RowIsSet
<1> QED
  BY <1>1, <1>3, <1>5, <1>7, <1>8, <1>11, <1>13

AnsweredAs(i, late, first) ==
  [calls EXCEPT ![i].stage = "answered", ![i].late = late, ![i].first = first]

LEMMA AnswerMoves ==
  ASSUME PanelTypes, NEW i \in DOMAIN calls, W!Answer(i)
  PROVE  /\ calls[i].stage = "done"
         /\ \E c : /\ Moved(i, c) /\ (c.late <=> Late(i)) /\ c.stage = "answered"
                   /\ c.row = calls[i].row /\ c.at = calls[i].at
                   /\ c.first <=> ~list.known /\ fetch.stage # "none"
         /\ UNCHANGED <<panel, rows, typed, thrown, during, mishaps>>
<1>1. calls[i].stage = "done" /\ UNCHANGED <<panel, rows, typed, thrown, during, mishaps>>
  BY DEF W!Answer
<1>2. calls \in Seq(Calls) /\ calls[i] \in Calls
  BY DEF PanelTypes
<1>3. PICK late \in BOOLEAN : late = W!Overtaken(i)
  BY DEF W!Overtaken
<1>4. PICK first \in BOOLEAN : first = (~list.known /\ fetch.stage # "none")
  OBVIOUS
<1>5. calls' = AnsweredAs(i, late, first)
  BY <1>3, <1>4 DEF W!Answer, AnsweredAs
<1>6. PICK c1, c2, c3 : /\ c1 = [calls[i] EXCEPT !.stage = "answered"]
                        /\ c2 = [c1 EXCEPT !.late = late] /\ c3 = [c2 EXCEPT !.first = first]
  OBVIOUS
<1>7. /\ c1 \in Calls /\ c1.op = calls[i].op /\ c1.text = calls[i].text
      /\ c1.crowded = calls[i].crowded /\ c1.row = calls[i].row /\ c1.at = calls[i].at
      /\ c1.stage = "answered"
  BY <1>2, <1>6 DEF Calls, Stages
<1>8. /\ c2 \in Calls /\ c2.op = calls[i].op /\ c2.text = calls[i].text
      /\ c2.crowded = calls[i].crowded /\ c2.row = calls[i].row /\ c2.at = calls[i].at
      /\ c2.stage = "answered" /\ c2.late = late
  BY <1>3, <1>6, <1>7 DEF Calls
<1>9. /\ c3 \in Calls /\ c3.op = calls[i].op /\ c3.text = calls[i].text
      /\ c3.crowded = calls[i].crowded /\ c3.row = calls[i].row /\ c3.at = calls[i].at
      /\ c3.stage = "answered" /\ c3.late = late /\ c3.first = first
  BY <1>4, <1>6, <1>8 DEF Calls
<1>10. calls' = [calls EXCEPT ![i] = c3]
  <2>1. PICK f1, f2 : f1 = [calls EXCEPT ![i] = c1] /\ f2 = [f1 EXCEPT ![i] = c2]
    OBVIOUS
  <2>2. f1[i] = c1 /\ DOMAIN f1 = DOMAIN calls /\ f2[i] = c2 /\ DOMAIN f2 = DOMAIN calls
    BY <1>2, <2>1
  <2>3. [calls EXCEPT ![i].stage = "answered"] = f1
    BY <1>2, <1>6, <2>1
  <2>4. [f1 EXCEPT ![i].late = late] = f2
    BY <1>6, <2>1, <2>2
  <2>5. [f2 EXCEPT ![i].first = first] = [f2 EXCEPT ![i] = c3]
    BY <1>6, <2>1, <2>2
  <2>6. [f2 EXCEPT ![i] = c3] = [calls EXCEPT ![i] = c3]
    BY <1>2, <2>1, <2>2
  <2> QED
    BY <1>5, <2>3, <2>4, <2>5, <2>6 DEF AnsweredAs
<1>11. Moved(i, c3)
  BY <1>9, <1>10, CallIsMoved
<1>12. c3.late <=> Late(i)
  BY <1>3, <1>9 DEF W!Overtaken, Late
<1>13. c3.first <=> ~list.known /\ fetch.stage # "none"
  BY <1>4, <1>9
<1> QED
  BY <1>1, <1>9, <1>11, <1>12, <1>13

LEMMA FailMoves ==
  ASSUME PanelTypes, NEW i \in DOMAIN calls, W!Fail(i)
  PROVE  /\ calls[i].stage = "refused" \/ Underway(calls[i])
         /\ \E c : /\ Moved(i, c) /\ c.late = calls[i].late /\ c.row = calls[i].row
                   /\ c.stage = IF calls[i].stage \in {"done", "half"} THEN "lost" ELSE "failed"
         /\ UNCHANGED <<panel, rows, list, fetch, typed, thrown, during, seen>>
<1>1. /\ calls[i].stage = "refused" \/ Underway(calls[i])
      /\ UNCHANGED <<panel, rows, list, fetch, typed, thrown, during, seen>>
  BY DEF W!Fail, W!Under, Underway
<1>2. calls[i] \in Calls
  BY DEF PanelTypes
<1>3. PICK stage \in {"lost", "failed"} :
        stage = IF calls[i].stage \in {"done", "half"} THEN "lost" ELSE "failed"
  OBVIOUS
<1>4. PICK c : c = Staged(calls[i], stage)
  OBVIOUS
<1>5. stage \in Stages
  BY <1>3 DEF Stages
<1>6. /\ c \in Calls /\ c.op = calls[i].op /\ c.text = calls[i].text /\ c.crowded = calls[i].crowded
      /\ c.row = calls[i].row /\ c.late = calls[i].late /\ c.stage = stage
  BY <1>2, <1>4, <1>5, CallIsStaged
<1>7. calls' = [calls EXCEPT ![i].stage = stage]
  BY <1>3 DEF W!Fail
<1>8. calls' = [calls EXCEPT ![i] = c]
  BY <1>4, <1>7 DEF Staged
<1>9. Moved(i, c)
  BY <1>6, <1>8, CallIsMoved
<1> QED
  BY <1>1, <1>3, <1>6, <1>9


-------------------------------------------------------------------------------
\* What the other steps do.
LEMMA TypeDoes ==
  ASSUME PanelTypes, MaxTyped \in Nat, W!Type
  PROVE  /\ form.open /\ form.secret = 0 /\ panel.op # "none" /\ ~panel.atOnce
         /\ typed < MaxTyped /\ typed' = typed + 1
         /\ form' \in Form /\ form'.open = form.open /\ form'.secret = form.secret
         /\ form'.draft = typed'
         /\ thrown' = thrown \union ({form.draft} \ {0})
         /\ during \subseteq during' /\ during' \subseteq during \union {typed'}
         /\ (\E i \in DOMAIN calls : calls[i].op = panel.op /\ Underway(calls[i]))
              => typed' \in during'
         /\ UNCHANGED <<panel, rows, list, fetch, calls, seen>>
<1>1. /\ form.open /\ form.secret = 0 /\ panel.op # "none" /\ ~panel.atOnce
      /\ typed < MaxTyped /\ typed' = typed + 1
      /\ thrown' = thrown \union ({form.draft} \ {0})
      /\ UNCHANGED <<panel, rows, list, fetch, calls, seen>>
  BY DEF W!Type, W!FormShown
<1>2. PICK t : t = typed + 1 /\ t \in Nat
  BY DEF PanelTypes
<1>3. form' = [form EXCEPT !.draft = t]
  BY <1>2 DEF W!Type
<1>4. form \in Form
  BY DEF PanelTypes
<1>5. form' \in Form /\ form'.open = form.open /\ form'.secret = form.secret /\ form'.draft = t
  BY <1>2, <1>3, <1>4 DEF Form
<1>6. during' = IF W!Pending(panel.op) = {} THEN during ELSE during \union {typed'}
  BY <1>1 DEF W!Type
<1>7. ASSUME NEW i \in DOMAIN calls, calls[i].op = panel.op, Underway(calls[i])
      PROVE  typed' \in during'
  <2>1. i \in W!Pending(panel.op)
    BY <1>7 DEF W!Pending, W!Under, Underway
  <2> QED
    BY <1>6, <2>1
<1> QED
  BY <1>1, <1>2, <1>5, <1>6, <1>7

LEMMA OpenDoes ==
  ASSUME PanelTypes, W!OpenForm
  PROVE  /\ form' \in Form /\ form'.open /\ form'.secret = form.secret /\ form'.draft = form.draft
         /\ seen' = seen \union ({form.secret} \ {0})
         /\ UNCHANGED <<panel, rows, list, fetch, calls, typed, thrown, during>>
<1>1. form \in Form
  BY DEF PanelTypes
<1> QED
  BY <1>1 DEF W!OpenForm, Form

LEMMA CloseDoes ==
  ASSUME PanelTypes, W!CloseForm
  PROVE  /\ form' \in Form /\ form'.secret = 0 /\ form.open /\ (panel.dialog \/ form.secret # 0)
         /\ form'.draft = IF panel.dialog THEN 0 ELSE form.draft
         /\ thrown' = IF panel.dialog THEN thrown \union ({form.draft} \ {0}) ELSE thrown
         /\ UNCHANGED <<panel, rows, list, fetch, calls, typed, during, seen>>
<1>1. form \in Form
  BY DEF PanelTypes
<1>2. PICK d \in Nat : d = IF panel.dialog THEN 0 ELSE form.draft
  BY <1>1 DEF Form
<1>3. PICK o \in BOOLEAN : o = ~panel.dialog
  OBVIOUS
<1>4. form' = [open |-> o, secret |-> 0, draft |-> d]
  BY <1>2, <1>3 DEF W!CloseForm
<1>5. form' \in Form /\ form'.secret = 0 /\ form'.draft = d
  BY <1>2, <1>3, <1>4 DEF Form
<1> QED
  BY <1>2, <1>5 DEF W!CloseForm

LEMMA SubmitDoes ==
  ASSUME PanelTypes, W!Submit
  PROVE  /\ form.open /\ form.secret = 0 /\ form.draft # 0 /\ ~panel.atOnce
         /\ \E n, c : Added(n, c) /\ c.op = panel.op /\ c.text = form.draft /\ c.row = 1
         /\ form' \in Form /\ form'.secret = form.secret
         /\ form'.draft = IF panel.clears = "sent" THEN 0 ELSE form.draft
         /\ UNCHANGED <<panel, rows, list, fetch, typed, thrown, during, seen>>
<1>1. /\ form.open /\ form.secret = 0 /\ form.draft # 0 /\ ~panel.atOnce
      /\ panel.op # "none" /\ W!Enabled(panel.op)
      /\ calls' = Append(calls, W!Call(panel.op, form.draft, 1))
      /\ UNCHANGED <<panel, rows, list, fetch, typed, thrown, during, seen>>
  BY DEF W!Submit, W!FormShown
<1>2. form \in Form
  BY DEF PanelTypes
<1>3. PICK op \in {"make", "change", "close"} : op = panel.op
  BY <1>1, PanelsHaveInCommon DEF PanelTypes, Common
<1>4. PICK d \in Nat : d = form.draft
  BY <1>2 DEF Form
<1>5. \E n, c : Added(n, c) /\ c.op = op /\ c.text = d /\ c.row = 1
  <2>1. calls' = Append(calls, W!Call(op, d, 1)) /\ W!Enabled(op)
    BY <1>1, <1>3, <1>4
  <2> QED
    BY <2>1, CallIsAdded
<1>6. PICK e \in Nat : e = IF panel.clears = "sent" THEN 0 ELSE form.draft
  BY <1>4
<1>7. PICK o \in BOOLEAN : o = (form.open /\ panel.closes # "sent")
  OBVIOUS
<1>8. PICK f : f = [form EXCEPT !.draft = e]
  OBVIOUS
<1>9. f \in Form /\ f.secret = form.secret /\ f.draft = e /\ f.open = form.open
  BY <1>2, <1>6, <1>8 DEF Form
<1>10. form' = [f EXCEPT !.open = o]
  <2>1. form' = [f EXCEPT !.open = f.open /\ panel.closes # "sent"]
    BY <1>6, <1>8 DEF W!Submit
  <2> QED
    BY <1>7, <1>9, <2>1
<1>11. form' \in Form /\ form'.secret = f.secret /\ form'.draft = e
  BY <1>7, <1>9, <1>10 DEF Form
<1> QED
  BY <1>1, <1>3, <1>4, <1>5, <1>6, <1>9, <1>11

LEMMA ChooseDoes ==
  ASSUME PanelTypes, MaxTyped \in Nat, W!Choose
  PROVE  /\ panel.atOnce /\ typed < MaxTyped /\ typed' = typed + 1
         /\ \E n, c : Added(n, c) /\ c.op = panel.op /\ c.text = typed' /\ c.row = 1
         /\ UNCHANGED <<panel, rows, list, fetch, form, thrown, during, seen>>
<1>1. /\ panel.atOnce /\ typed < MaxTyped /\ typed' = typed + 1 /\ W!Enabled(panel.op)
      /\ calls' = Append(calls, W!Call(panel.op, typed + 1, 1))
      /\ UNCHANGED <<panel, rows, list, fetch, form, thrown, during, seen>>
  BY DEF W!Choose
<1>2. PICK op \in {"make", "change", "close"} : op = panel.op
  BY <1>1, PanelsHaveInCommon DEF PanelTypes, Common
<1>3. PICK d \in Nat : d = typed + 1
  BY DEF PanelTypes
<1>4. calls' = Append(calls, W!Call(op, d, 1)) /\ W!Enabled(op)
  BY <1>1, <1>2, <1>3
<1>5. \E n, c : Added(n, c) /\ c.op = op /\ c.text = d /\ c.row = 1
  BY <1>4, CallIsAdded
<1> QED
  BY <1>1, <1>2, <1>3, <1>5

LEMMA ActDoes ==
  ASSUME PanelTypes, RowsServed, W!Act
  PROVE  /\ panel.acts
         /\ \E n, c : Added(n, c) /\ c.op = "close" /\ c.row \in DOMAIN rows
         /\ UNCHANGED <<panel, rows, list, fetch, form, typed, thrown, during, seen>>
<1>1. PICK k \in DOMAIN list.rows : calls' = Append(calls, W!Call("close", 0, k))
  BY DEF W!Act
<1>2. k \in DOMAIN rows /\ k \in Nat
  BY DEF PanelTypes, RowsServed
<1>3. W!Enabled("close") /\ panel.acts
      /\ UNCHANGED <<panel, rows, list, fetch, form, typed, thrown, during, seen>>
  BY DEF W!Act
<1>4. \E n, c : Added(n, c) /\ c.op = "close" /\ c.text = 0 /\ c.row = k
  BY <1>1, <1>2, <1>3, CallIsAdded
<1> QED
  BY <1>2, <1>3, <1>4

\* The form an answer leaves.
FormSettled(i) ==
  \/ form' = form /\ (calls[i].op # panel.op \/ (Late(i) /\ ~panel.each))
  \/ /\ calls[i].op = panel.op /\ (~Late(i) \/ panel.each)
     /\ form' \in Form
     /\ form'.draft = IF panel.clears = "answered" THEN 0 ELSE form.draft
     /\ form'.secret = IF panel.reveals THEN calls[i].row ELSE form.secret

LEMMA SettledIs ==
  ASSUME PanelTypes, NEW i \in DOMAIN calls, form' = W!Settled(i)
  PROVE  FormSettled(i)
<1>1. form \in Form /\ calls[i] \in Calls
  BY DEF PanelTypes
<1>2. W!Overtaken(i) <=> Late(i)
  BY DEF W!Overtaken, Late
<1>3. CASE calls[i].op # panel.op \/ (Late(i) /\ ~panel.each)
  BY <1>2, <1>3 DEF W!Settled, FormSettled
<1>4. CASE calls[i].op = panel.op /\ (~Late(i) \/ panel.each)
  <2>1. PICK o \in BOOLEAN : o = (form.open /\ panel.closes # "answered")
    OBVIOUS
  <2>2. PICK d \in Nat : d = IF panel.clears = "answered" THEN 0 ELSE form.draft
    BY <1>1 DEF Form
  <2>3. PICK s \in Nat : s = IF panel.reveals THEN calls[i].row ELSE form.secret
    BY <1>1 DEF Form, Calls
  <2>4. form' = [open |-> o, draft |-> d, secret |-> s]
    BY <1>2, <1>4, <2>1, <2>2, <2>3 DEF W!Settled
  <2>5. form' \in Form /\ form'.draft = d /\ form'.secret = s
    BY <2>4 DEF Form
  <2> QED
    BY <1>4, <2>2, <2>3, <2>5 DEF FormSettled
<1> QED
  BY <1>3, <1>4

LEMMA AnswerDoes ==
  ASSUME PanelTypes, CallsOfPanel, NEW i \in DOMAIN calls, W!Answer(i)
  PROVE  /\ FormSettled(i)
         /\ seen' = IF form'.open THEN seen \union ({form'.secret} \ {0}) ELSE seen
         /\ \/ /\ panel.lists /\ list' = list
               /\ \/ (list.known \/ fetch.stage = "none") /\ fetch' = W!Asked
                  \/ ~list.known /\ fetch.stage # "none" /\ fetch' = fetch
            \/ /\ ~panel.lists /\ fetch' = fetch
               /\ \/ /\ list'.known = list.known /\ list'.failed = list.failed
                     /\ DOMAIN list'.rows = DOMAIN list.rows \union {calls[i].row}
                     /\ \E r : \E k, f \in BOOLEAN : list' = [known |-> k, failed |-> f, rows |-> r]
                     /\ calls[i].op = "make"
                  \/ list' = list /\ (panel.local /\ calls[i].op = "make" => Late(i))
<1>1. form' = W!Settled(i)
      /\ seen' = IF form'.open THEN seen \union ({form'.secret} \ {0}) ELSE seen
  BY DEF W!Answer
<1>2. FormSettled(i)
  BY <1>1, SettledIs
<1>3. Common(panel)
  BY PanelsHaveInCommon DEF PanelTypes
<1>4. calls[i] \in Calls /\ (calls[i].op = panel.op \/ (calls[i].op = "close" /\ panel.acts))
  BY DEF PanelTypes, CallsOfPanel
<1>5. panel.lists => calls[i].op \in panel.refreshes
  BY <1>3, <1>4 DEF Common, Calls
<1>6. W!Overtaken(i) <=> Late(i)
  BY DEF W!Overtaken, Late
<1>7. CASE panel.lists
  <2>1. W!Invalidate /\ list' = list
    BY <1>5, <1>7 DEF W!Answer
  <2> QED
    BY <1>1, <1>2, <1>7, <2>1 DEF W!Invalidate
<1>8. CASE ~panel.lists
  <2>0. PICK r : \E k, f \in BOOLEAN : list = [known |-> k, failed |-> f, rows |-> r]
    BY DEF PanelTypes
  <2>1. PICK k, f \in BOOLEAN : list = [known |-> k, failed |-> f, rows |-> r]
    BY <2>0
  <2>2. PICK s : s = [n \in DOMAIN r \union {calls[i].row} |->
                        IF n = calls[i].row THEN W!NewRow(calls[i].text, TRUE) ELSE r[n]]
    OBVIOUS
  <2>3. fetch' = fetch
        /\ list' = IF panel.local /\ calls[i].op = "make" /\ ~W!Overtaken(i)
                     THEN [list EXCEPT !.rows = s] ELSE list
    BY <1>8, <2>1, <2>2 DEF W!Answer
  <2>4. CASE panel.local /\ calls[i].op = "make" /\ ~W!Overtaken(i)
    <3>1. list' = [known |-> k, failed |-> f, rows |-> s]
      BY <2>1, <2>3, <2>4
    <3>2. DOMAIN s = DOMAIN r \union {calls[i].row}
      BY <2>2
    <3>3. /\ list'.known = list.known /\ list'.failed = list.failed
          /\ DOMAIN list'.rows = DOMAIN list.rows \union {calls[i].row}
          /\ \E q : \E m, n \in BOOLEAN : list' = [known |-> m, failed |-> n, rows |-> q]
      BY <2>1, <3>1, <3>2
    <3> QED
      BY <1>1, <1>2, <1>8, <2>3, <2>4, <3>3
  <2>5. CASE ~(panel.local /\ calls[i].op = "make" /\ ~W!Overtaken(i))
    BY <1>1, <1>2, <1>6, <1>8, <2>3, <2>5
  <2> QED
    BY <2>4, <2>5
<1> QED
  BY <1>7, <1>8

LEMMA FailDoes ==
  ASSUME PanelTypes, NEW i \in DOMAIN calls, W!Fail(i)
  PROVE  form' = form \/ (panel.settles /\ FormSettled(i))
BY SettledIs DEF W!Fail

\* The rows after somebody else's step, and after any.
RowsGrow ==
  /\ rows' \in Seq(Row) /\ DOMAIN rows \subseteq DOMAIN rows'
  /\ \A k \in DOMAIN rows :
       rows'[k].at >= rows[k].at /\ (~rows[k].open => ~rows'[k].open)

LEMMA RowsMadeGrow ==
  ASSUME rows \in Seq(Row)
  PROVE  /\ \A k, text : RowMade(k, text) => RowsGrow
         /\ \A k, r : RowSet(k, r) /\ r.at >= rows[k].at /\ (~rows[k].open => ~r.open) => RowsGrow
         /\ rows' = rows => RowsGrow
<1>1. \A k \in DOMAIN rows : rows[k] \in Row /\ rows[k].at \in Nat /\ rows[k].at >= rows[k].at
  <2>1. TAKE k \in DOMAIN rows
  <2>2. rows[k] \in Row
    OBVIOUS
  <2> QED
    BY <2>2 DEF Row
<1>2. \A k, text : RowMade(k, text) => RowsGrow
  BY <1>1 DEF RowMade, RowsGrow
<1>3. \A k, r : RowSet(k, r) /\ r.at >= rows[k].at /\ (~rows[k].open => ~r.open) => RowsGrow
  <2>1. TAKE k, r
  <2>2. HAVE RowSet(k, r) /\ r.at >= rows[k].at /\ (~rows[k].open => ~r.open)
  <2>3. rows' \in Seq(Row) /\ DOMAIN rows' = DOMAIN rows /\ rows'[k] = r
        /\ \A n \in DOMAIN rows : n # k => rows'[n] = rows[n]
    BY <2>2 DEF RowSet
  <2>4. \A n \in DOMAIN rows : rows'[n].at >= rows[n].at /\ (~rows[n].open => ~rows'[n].open)
    BY <1>1, <2>2, <2>3
  <2> QED
    BY <2>3, <2>4 DEF RowsGrow
<1>4. rows' = rows => RowsGrow
  BY <1>1 DEF RowsGrow
<1> QED
  BY <1>2, <1>3, <1>4

LEMMA ElsewhereDoes ==
  ASSUME PanelTypes, 1 \in DOMAIN rows, W!Elsewhere
  PROVE  /\ RowsGrow
         /\ \A k \in DOMAIN rows : rows'[k].text = rows[k].text
         /\ \A k \in DOMAIN rows' \ DOMAIN rows : rows'[k].text = 0
         /\ UNCHANGED <<panel, list, fetch, form, calls, typed, thrown, during, seen>>
<1>1. UNCHANGED <<panel, list, fetch, form, calls, typed, thrown, during, seen>>
  BY DEF W!Elsewhere
<1>2. rows \in Seq(Row)
  BY DEF PanelTypes
<1>3. CASE rows' = Append(rows, W!NewRow(0, TRUE))
  <2>1. PICK k : k = Len(rows) + 1
    OBVIOUS
  <2>2. RowMade(k, 0)
    BY <1>2, <1>3, <2>1, RowIsMade
  <2>3. RowsGrow
    BY <1>2, <2>2, RowsMadeGrow
  <2> QED
    BY <1>1, <2>2, <2>3 DEF RowMade
<1>4. CASE \E k \in DOMAIN rows : rows[k].open /\ rows' = [rows EXCEPT ![k].open = FALSE]
  <2>1. PICK k \in DOMAIN rows : rows' = [rows EXCEPT ![k].open = FALSE]
    BY <1>4
  <2>2. PICK r : r = Closed(rows[k])
    OBVIOUS
  <2>3. rows[k] \in Row
    BY <1>2
  <2>4. r \in Row /\ r.text = rows[k].text /\ r.at = rows[k].at /\ ~r.open
    BY <2>2, <2>3, RowIsClosed
  <2>5. rows' = [rows EXCEPT ![k] = r]
    BY <2>1, <2>2 DEF Closed
  <2>6. RowSet(k, r)
    BY <1>2, <2>4, <2>5, RowIsSet
  <2>7. r.at >= rows[k].at
    BY <2>3, <2>4 DEF Row
  <2>8. RowsGrow
    BY <1>2, <2>4, <2>6, <2>7, RowsMadeGrow
  <2> QED
    BY <1>1, <2>4, <2>6, <2>8 DEF RowSet
<1> QED
  BY <1>1, <1>3, <1>4 DEF W!Elsewhere

LEMMA ServeGrows ==
  ASSUME PanelTypes, NEW i \in DOMAIN calls, NEW c, Moved(i, c), ServedAs(i, c)
  PROVE  RowsGrow
<1>1. rows \in Seq(Row)
  BY DEF PanelTypes
<1>2. CASE RowMade(c.row, c.text)
  BY <1>1, <1>2, RowsMadeGrow
<1>3. CASE \E r : RowSet(c.row, r) /\ r.at = rows[c.row].at + 1 /\ r.open = rows[c.row].open
  <2>1. PICK r : RowSet(c.row, r) /\ r.at = rows[c.row].at + 1 /\ r.open = rows[c.row].open
    BY <1>3
  <2>2. rows[c.row] \in Row
    BY <1>1, <2>1 DEF RowSet
  <2>3. r.at >= rows[c.row].at
    BY <2>1, <2>2 DEF Row
  <2> QED
    BY <1>1, <2>1, <2>3, RowsMadeGrow
<1>4. CASE \E r : RowSet(c.row, r) /\ r.at = rows[c.row].at /\ ~r.open
  <2>1. PICK r : RowSet(c.row, r) /\ r.at = rows[c.row].at /\ ~r.open
    BY <1>4
  <2>2. rows[c.row] \in Row
    BY <1>1, <2>1 DEF RowSet
  <2>3. r.at >= rows[c.row].at
    BY <2>1, <2>2 DEF Row
  <2> QED
    BY <1>1, <2>1, <2>3, RowsMadeGrow
<1>5. CASE rows' = rows
  BY <1>1, <1>5, RowsMadeGrow
<1> QED
  BY <1>2, <1>3, <1>4, <1>5 DEF ServedAs

-------------------------------------------------------------------------------
\* How the calls and the rows go from step to step.
Step ==
  \/ W!Type \/ W!OpenForm \/ W!CloseForm \/ W!Submit \/ W!Choose \/ W!Act
  \/ \E i \in DOMAIN calls : W!Serve(i) \/ W!Schedule(i) \/ W!Answer(i) \/ W!Fail(i)
  \/ W!Refetch \/ W!Read \/ W!Fetched \/ W!FetchFails \/ W!Elsewhere

Adds == \E n, c : Added(n, c)
Advances(i, c) ==
  /\ Moved(i, c)
  /\ Underway(calls[i]) \/ calls[i].stage = "refused"
  /\ Underway(c) => Underway(calls[i])
  /\ c.row # calls[i].row => c.op = "make"
  /\ c.op = "make" => c.stage # "refused"
  /\ c.op # "make" \/ Served(c) => c.row \in DOMAIN rows'

LEMMA CallsAdvance ==
  ASSUME PanelTypes, CallsOfPanel, RowsServed, NEW i \in DOMAIN calls,
         W!Serve(i) \/ W!Schedule(i) \/ W!Answer(i) \/ W!Fail(i)
  PROVE  (\E c : Advances(i, c)) /\ RowsGrow /\ panel' = panel /\ typed' = typed
<1>0. 1 \in DOMAIN rows /\ rows \in Seq(Row) /\ calls[i] \in Calls
  BY DEF RowsServed, PanelTypes
<1>1. CASE W!Serve(i)
  <2>1. PICK c : Moved(i, c) /\ c.late = calls[i].late /\ ServedAs(i, c)
    BY <1>0, <1>1, ServeMoves
  <2>2. calls[i].stage = "sent" /\ panel' = panel /\ typed' = typed
    BY <1>0, <1>1, ServeMoves
  <2>3. RowsGrow
    BY <2>1, ServeGrows
  <2>4. c.op # "make" => calls[i].row \in DOMAIN rows
    BY <2>1 DEF Moved, CallsOfPanel
  <2>5. c.op # "make" \/ Served(c) => c.row \in DOMAIN rows'
    BY <2>1, <2>3, <2>4 DEF ServedAs, RowMade, RowSet, RowsGrow, Served
  <2>6. (c.row # calls[i].row => c.op = "make") /\ (c.op = "make" => c.stage # "refused")
    BY <2>1 DEF ServedAs
  <2> QED
    BY <2>1, <2>2, <2>3, <2>5, <2>6 DEF Advances, Underway
<1>2. CASE W!Schedule(i)
  <2>1. PICK c : Moved(i, c) /\ c.stage = "done" /\ c.row = calls[i].row
    BY <1>2, ScheduleMoves
  <2>2. PICK r : /\ RowSet(calls[i].row, r) /\ r.at = rows[calls[i].row].at
                 /\ r.open = rows[calls[i].row].open
    BY <1>2, ScheduleMoves
  <2>3. /\ calls[i].stage = "half" /\ calls[i].row \in DOMAIN rows
        /\ panel' = panel /\ typed' = typed
    BY <1>2, ScheduleMoves
  <2>4. rows[calls[i].row] \in Row
    BY <1>0, <2>3
  <2>5. r.at >= rows[calls[i].row].at
    BY <2>2, <2>4 DEF Row
  <2>6. RowsGrow
    BY <1>0, <2>2, <2>5, RowsMadeGrow
  <2> QED
    BY <2>1, <2>3, <2>6 DEF Advances, Underway, RowsGrow
<1>3. CASE W!Answer(i)
  <2>1. PICK c : Moved(i, c) /\ c.stage = "answered" /\ c.row = calls[i].row
    BY <1>3, AnswerMoves
  <2>2. calls[i].stage = "done" /\ panel' = panel /\ typed' = typed /\ rows' = rows
    BY <1>3, AnswerMoves
  <2>3. calls[i].row \in DOMAIN rows
    BY <2>2 DEF CallsOfPanel, Served
  <2>4. RowsGrow
    BY <1>0, <2>2, RowsMadeGrow
  <2> QED
    BY <2>1, <2>2, <2>3, <2>4 DEF Advances, Underway
<1>4. CASE W!Fail(i)
  <2>1. PICK c : /\ Moved(i, c) /\ c.row = calls[i].row
                 /\ c.stage = IF calls[i].stage \in {"done", "half"} THEN "lost" ELSE "failed"
    BY <1>4, FailMoves
  <2>2. /\ calls[i].stage = "refused" \/ Underway(calls[i])
        /\ panel' = panel /\ typed' = typed /\ rows' = rows
    BY <1>4, FailMoves
  <2>3. c.stage \in {"lost", "failed"}
    BY <2>1
  <2>4. c.op # "make" => c.row \in DOMAIN rows'
    BY <2>1, <2>2 DEF CallsOfPanel, Moved
  <2>5. RowsGrow
    BY <1>0, <2>2, RowsMadeGrow
  <2> QED
    BY <2>1, <2>2, <2>3, <2>4, <2>5 DEF Advances, Underway, Served
<1> QED
  BY <1>1, <1>2, <1>3, <1>4

Followed == PanelTypes /\ CallsOfPanel /\ CallsQueue /\ TextsInOrder /\ RowsServed

LEMMA TypesKept ==
  ASSUME Followed, MaxTyped \in Nat, Step
  PROVE  PanelTypes'
<1> USE DEF Followed
<1>0. PanelTypes
  OBVIOUS
<1>1. CASE W!Type
  <2>0. typed \in 0..MaxTyped /\ typed < MaxTyped /\ typed' = typed + 1
    BY <1>0, <1>1, TypeDoes DEF PanelTypes
  <2>1. typed' \in 0..MaxTyped
    BY <2>0
  <2>2. form' \in Form /\ UNCHANGED <<panel, rows, list, fetch, calls>>
    BY <1>1, TypeDoes
  <2> QED
    BY <1>0, <2>1, <2>2 DEF PanelTypes
<1>2. CASE W!OpenForm
  <2>1. form' \in Form /\ UNCHANGED <<panel, rows, list, fetch, calls, typed>>
    BY <1>2, OpenDoes
  <2> QED
    BY <1>0, <2>1 DEF PanelTypes
<1>3. CASE W!CloseForm
  <2>1. form' \in Form /\ UNCHANGED <<panel, rows, list, fetch, calls, typed>>
    BY <1>3, CloseDoes
  <2> QED
    BY <1>0, <2>1 DEF PanelTypes
<1>4. CASE W!Submit
  <2>1. form' \in Form /\ UNCHANGED <<panel, rows, list, fetch, typed>> /\ calls' \in Seq(Calls)
    BY <1>4, SubmitDoes DEF Added
  <2> QED
    BY <1>0, <2>1 DEF PanelTypes
<1>5. CASE W!Choose
  <2>1. form' = form /\ UNCHANGED <<panel, rows, list, fetch>> /\ calls' \in Seq(Calls)
    BY <1>5, ChooseDoes DEF Added
  <2>0. typed \in 0..MaxTyped /\ typed < MaxTyped /\ typed' = typed + 1
    BY <1>0, <1>5, ChooseDoes DEF PanelTypes
  <2>2. typed' \in 0..MaxTyped
    BY <2>0
  <2> QED
    BY <1>0, <2>1, <2>2 DEF PanelTypes
<1>6. CASE W!Act
  <2>1. form' = form /\ UNCHANGED <<panel, rows, list, fetch, typed>> /\ calls' \in Seq(Calls)
    BY <1>6, ActDoes DEF Added
  <2> QED
    BY <1>0, <2>1 DEF PanelTypes
<1>7. ASSUME NEW i \in DOMAIN calls, W!Serve(i) \/ W!Schedule(i) \/ W!Answer(i) \/ W!Fail(i)
      PROVE  PanelTypes'
  <2>1. calls' \in Seq(Calls) /\ rows' \in Seq(Row) /\ panel' = panel /\ typed' = typed
    BY <1>7, CallsAdvance DEF Advances, Moved, RowsGrow
  <2>2. form' \in Form
    <3>1. FormSettled(i) => form' \in Form
      BY <1>0 DEF FormSettled, PanelTypes
    <3>2. W!Answer(i) => FormSettled(i)
      BY AnswerDoes
    <3>3. W!Fail(i) => form' = form \/ FormSettled(i)
      BY FailDoes
    <3>4. W!Serve(i) \/ W!Schedule(i) => form' = form
      BY DEF W!Serve, W!Schedule
    <3> QED
      BY <1>0, <1>7, <3>1, <3>2, <3>3, <3>4 DEF PanelTypes
  <2>3. \E r : \E k, f \in BOOLEAN : list' = [known |-> k, failed |-> f, rows |-> r]
    <3>1. ~W!Answer(i) => list' = list
      BY <1>7 DEF W!Serve, W!Schedule, W!Fail
    <3>2. W!Answer(i) => \/ list' = list
                         \/ \E r : \E k, f \in BOOLEAN : list' = [known |-> k, failed |-> f, rows |-> r]
      BY AnswerDoes
    <3> QED
      BY <1>0, <3>1, <3>2 DEF PanelTypes
  <2>4. \E r : \E s \in {"none", "asked", "read"} : fetch' = [stage |-> s, rows |-> r]
    <3>1. ~W!Answer(i) => fetch' = fetch
      BY <1>7 DEF W!Serve, W!Schedule, W!Fail
    <3>2. W!Answer(i) => fetch' = fetch \/ fetch' = W!Asked
      BY AnswerDoes
    <3>3. W!Asked = [stage |-> "asked", rows |-> << >>]
      BY DEF W!Asked, W!Idle
    <3> QED
      BY <1>0, <3>1, <3>2, <3>3 DEF PanelTypes
  <2> QED
    BY <1>0, <2>1, <2>2, <2>3, <2>4 DEF PanelTypes
<1>8. CASE W!Refetch
  <2>1. fetch' = [stage |-> "asked", rows |-> << >>]
        /\ UNCHANGED <<panel, rows, list, form, calls, typed>>
    BY <1>8 DEF W!Refetch, W!Asked, W!Idle
  <2> QED
    BY <1>0, <2>1 DEF PanelTypes
<1>9. CASE W!Read
  <2>1. fetch' = [stage |-> "read", rows |-> rows]
        /\ UNCHANGED <<panel, rows, list, form, calls, typed>>
    BY <1>9 DEF W!Read
  <2> QED
    BY <1>0, <2>1 DEF PanelTypes
<1>10. CASE W!Fetched
  <2>1. fetch' = [stage |-> "none", rows |-> << >>]
        /\ list' = [known |-> TRUE, failed |-> FALSE, rows |-> fetch.rows]
        /\ UNCHANGED <<panel, rows, form, calls, typed>>
    BY <1>10 DEF W!Fetched, W!Idle
  <2> QED
    BY <1>0, <2>1 DEF PanelTypes
<1>11. CASE W!FetchFails
  <2>1. fetch' = [stage |-> "none", rows |-> << >>] /\ list' = [list EXCEPT !.failed = TRUE]
        /\ UNCHANGED <<panel, rows, form, calls, typed>>
    BY <1>11 DEF W!FetchFails, W!Idle
  <2>2. PICK r : \E k, f \in BOOLEAN : list = [known |-> k, failed |-> f, rows |-> r]
    BY <1>0 DEF PanelTypes
  <2>3. PICK k, f \in BOOLEAN : list = [known |-> k, failed |-> f, rows |-> r]
    BY <2>2
  <2>4. list' = [known |-> k, failed |-> TRUE, rows |-> r]
    BY <2>1, <2>3
  <2> QED
    BY <1>0, <2>1, <2>4 DEF PanelTypes
<1>12. CASE W!Elsewhere
  <2>1. rows' \in Seq(Row) /\ UNCHANGED <<panel, list, fetch, form, calls, typed>>
    BY <1>12, ElsewhereDoes DEF RowsServed, RowsGrow
  <2> QED
    BY <1>0, <2>1 DEF PanelTypes
<1> QED
  BY <1>1, <1>2, <1>3, <1>4, <1>5, <1>6, <1>7, <1>8, <1>9, <1>10, <1>11, <1>12 DEF Step

\* The other steps leave the calls alone, or add one.
LEMMA CallsStep ==
  ASSUME Followed, MaxTyped \in Nat, Step
  PROVE  /\ panel' = panel /\ typed' >= typed /\ RowsGrow
         /\ \/ calls' = calls
            \/ \E n, c : /\ Added(n, c) /\ c.row \in DOMAIN rows
                         /\ \/ c.op = panel.op /\ c.row = 1
                            \/ c.op = "close" /\ panel.acts
            \/ \E i \in DOMAIN calls : \E c : Advances(i, c)
<1> USE DEF Followed
<1>0. 1 \in DOMAIN rows /\ rows \in Seq(Row) /\ typed \in Nat
  BY DEF RowsServed, PanelTypes
<1>1. rows' = rows => RowsGrow
  BY <1>0, RowsMadeGrow
<1>2. CASE W!Type
  BY <1>0, <1>1, <1>2, TypeDoes
<1>3. CASE W!OpenForm
  BY <1>0, <1>1, <1>3, OpenDoes
<1>4. CASE W!CloseForm
  BY <1>0, <1>1, <1>4, CloseDoes
<1>5. CASE W!Submit
  BY <1>0, <1>1, <1>5, SubmitDoes
<1>6. CASE W!Choose
  BY <1>0, <1>1, <1>6, ChooseDoes
<1>7. CASE W!Act
  BY <1>0, <1>1, <1>7, ActDoes
<1>8. ASSUME NEW i \in DOMAIN calls, W!Serve(i) \/ W!Schedule(i) \/ W!Answer(i) \/ W!Fail(i)
      PROVE  (\E c : Advances(i, c)) /\ RowsGrow /\ panel' = panel /\ typed' >= typed
  BY <1>0, <1>8, CallsAdvance
<1>9. CASE W!Refetch \/ W!Read \/ W!Fetched \/ W!FetchFails
  BY <1>0, <1>1, <1>9 DEF W!Refetch, W!Read, W!Fetched, W!FetchFails
<1>10. CASE W!Elsewhere
  BY <1>0, <1>10, ElsewhereDoes
<1> QED
  BY <1>2, <1>3, <1>4, <1>5, <1>6, <1>7, <1>8, <1>9, <1>10 DEF Step

LEMMA CallsOfPanelKept ==
  ASSUME Followed, MaxTyped \in Nat, Step
  PROVE  CallsOfPanel'
<1> USE DEF Followed
<1>1. panel' = panel /\ RowsGrow
  BY CallsStep
<1>2. CASE calls' = calls
  BY <1>1, <1>2 DEF CallsOfPanel, RowsGrow, Served
<1>3. ASSUME NEW n, NEW c, Added(n, c), c.row \in DOMAIN rows,
             (c.op = panel.op /\ c.row = 1) \/ (c.op = "close" /\ panel.acts)
      PROVE  CallsOfPanel'
  <2>1. c.stage = "sent" /\ c.row \in DOMAIN rows'
    BY <1>1, <1>3 DEF Added, RowsGrow
  <2>2. \A i \in DOMAIN calls' : (i \in DOMAIN calls /\ calls'[i] = calls[i]) \/ calls'[i] = c
    BY <1>3 DEF Added
  <2>3. ASSUME NEW i \in DOMAIN calls'
        PROVE /\ calls'[i].op = panel.op \/ (calls'[i].op = "close" /\ panel.acts)
              /\ calls'[i].op = "make" => calls'[i].stage # "refused"
              /\ calls'[i].op = "change" => calls'[i].row = 1
              /\ calls'[i].op # "make" \/ Served(calls'[i]) => calls'[i].row \in DOMAIN rows'
    <3>1. CASE i \in DOMAIN calls /\ calls'[i] = calls[i]
      BY <1>1, <3>1 DEF CallsOfPanel, RowsGrow
    <3>2. CASE calls'[i] = c
      BY <1>3, <2>1, <3>2
    <3> QED
      BY <2>2, <3>1, <3>2
  <2> QED
    BY <1>1, <2>3 DEF CallsOfPanel, Served
<1>4. ASSUME NEW i \in DOMAIN calls, NEW c, Advances(i, c)
      PROVE  CallsOfPanel'
  <2>1. \A j \in DOMAIN calls' : j \in DOMAIN calls /\ (calls'[j] = calls[j] \/ (j = i /\ calls'[j] = c))
    BY <1>4 DEF Advances, Moved
  <2>2. /\ c.op = panel.op \/ (c.op = "close" /\ panel.acts)
        /\ c.op = "make" => c.stage # "refused"
        /\ c.op = "change" => c.row = 1
        /\ c.op # "make" \/ Served(c) => c.row \in DOMAIN rows'
    BY <1>4 DEF CallsOfPanel, Advances, Moved
  <2>3. ASSUME NEW j \in DOMAIN calls'
        PROVE /\ calls'[j].op = panel.op \/ (calls'[j].op = "close" /\ panel.acts)
              /\ calls'[j].op = "make" => calls'[j].stage # "refused"
              /\ calls'[j].op = "change" => calls'[j].row = 1
              /\ calls'[j].op # "make" \/ Served(calls'[j]) => calls'[j].row \in DOMAIN rows'
    <3>1. CASE j \in DOMAIN calls /\ calls'[j] = calls[j]
      BY <1>1, <3>1 DEF CallsOfPanel, RowsGrow
    <3>2. CASE calls'[j] = c
      BY <2>2, <3>2
    <3> QED
      BY <2>1, <3>1, <3>2
  <2> QED
    BY <1>1, <2>3 DEF CallsOfPanel, Served
<1> QED
  BY <1>2, <1>3, <1>4, CallsStep

LEMMA CallsQueueKept ==
  ASSUME Followed, MaxTyped \in Nat, Step
  PROVE  CallsQueue'
<1> USE DEF Followed
<1>1. panel' = panel
  BY CallsStep
<1>2. CASE calls' = calls
  BY <1>1, <1>2 DEF CallsQueue
<1>3. ASSUME NEW n, NEW c, Added(n, c)
      PROVE  CallsQueue'
  <2>1. \A i \in DOMAIN calls' : i = n \/ i \in DOMAIN calls
    BY <1>3 DEF Added
  <2>2. \A i \in DOMAIN calls : i \in Nat /\ i < n /\ calls'[i] = calls[i]
    BY <1>3 DEF Added
  <2>3. ASSUME NEW i \in DOMAIN calls', NEW j \in DOMAIN calls', i < j,
               calls'[i].op = calls'[j].op, Underway(calls'[i])
        PROVE  calls'[j].crowded /\ calls'[j].op \notin panel.guards
    <3>1. n \in Nat
      BY <1>3 DEF Added
    <3>2. i \in DOMAIN calls
      BY <2>1, <2>2, <2>3, <3>1
    <3>3. CASE j = n
      BY <1>3, <2>2, <2>3, <3>2, <3>3 DEF Added
    <3>4. CASE j \in DOMAIN calls
      BY <2>2, <2>3, <3>2, <3>4 DEF CallsQueue
    <3> QED
      BY <2>1, <3>3, <3>4
  <2> QED
    BY <1>1, <2>3 DEF CallsQueue, Underway
<1>4. ASSUME NEW i \in DOMAIN calls, NEW c, Advances(i, c)
      PROVE  CallsQueue'
  <2>1. DOMAIN calls' = DOMAIN calls
    BY <1>4 DEF Advances, Moved
  <2>2. ASSUME NEW j \in DOMAIN calls
        PROVE  /\ calls'[j].op = calls[j].op /\ (calls'[j].crowded <=> calls[j].crowded)
               /\ Underway(calls'[j]) => Underway(calls[j])
    BY <1>4 DEF Advances, Moved
  <2>3. ASSUME NEW j \in DOMAIN calls, NEW k \in DOMAIN calls, j < k,
               calls'[j].op = calls'[k].op, Underway(calls'[j])
        PROVE  calls'[k].crowded /\ calls'[k].op \notin panel.guards
    <3>1. calls[j].op = calls[k].op /\ Underway(calls[j])
      BY <2>2, <2>3
    <3>2. calls[k].crowded /\ calls[k].op \notin panel.guards
      BY <2>3, <3>1 DEF CallsQueue
    <3> QED
      BY <2>2, <3>2
  <2> QED
    BY <1>1, <2>1, <2>3 DEF CallsQueue, Underway
<1> QED
  BY <1>2, <1>3, <1>4, CallsStep

\* What a step does to the form's text, and to the texts of the calls.
LEMMA DraftStep ==
  ASSUME Followed, MaxTyped \in Nat, Step
  PROVE  \/ W!Type
         \/ calls' = calls /\ typed' = typed /\ form'.draft \in {form.draft, 0}
         \/ \E n, c : /\ Added(n, c) /\ form'.draft \in {form.draft, 0}
                      /\ \/ c.text = form.draft /\ form.draft # 0 /\ typed' = typed
                         \/ c.text = typed' /\ typed' = typed + 1 /\ panel.atOnce
                         \/ c.op # "make" /\ typed' = typed
         \/ /\ \E i \in DOMAIN calls : \E c : Advances(i, c)
            /\ typed' = typed /\ form'.draft \in {form.draft, 0}
<1> USE DEF Followed
<1>1. CASE W!OpenForm
  BY <1>1, OpenDoes
<1>2. CASE W!CloseForm
  BY <1>2, CloseDoes
<1>3. CASE W!Submit
  BY <1>3, SubmitDoes
<1>4. CASE W!Choose
  BY <1>4, ChooseDoes
<1>5. CASE W!Act
  <2>1. PICK n, c : Added(n, c) /\ c.op = "close"
    BY <1>5, ActDoes
  <2> QED
    BY <1>5, <2>1, ActDoes
<1>6. ASSUME NEW i \in DOMAIN calls, W!Serve(i) \/ W!Schedule(i) \/ W!Answer(i) \/ W!Fail(i)
      PROVE  (\E c : Advances(i, c)) /\ typed' = typed /\ form'.draft \in {form.draft, 0}
  <2>1. (\E c : Advances(i, c)) /\ typed' = typed
    BY <1>6, CallsAdvance
  <2>2. FormSettled(i) => form'.draft \in {form.draft, 0}
    BY DEF FormSettled
  <2>3. form' = form => form'.draft \in {form.draft, 0}
    OBVIOUS
  <2>4. W!Answer(i) => FormSettled(i)
    BY AnswerDoes
  <2>5. W!Fail(i) => form' = form \/ FormSettled(i)
    BY FailDoes
  <2>6. W!Serve(i) \/ W!Schedule(i) => form' = form
    BY DEF W!Serve, W!Schedule
  <2> QED
    BY <1>6, <2>1, <2>2, <2>3, <2>4, <2>5, <2>6
<1>7. CASE W!Refetch \/ W!Read \/ W!Fetched \/ W!FetchFails
  BY <1>7 DEF W!Refetch, W!Read, W!Fetched, W!FetchFails
<1>8. CASE W!Elsewhere
  BY <1>8 DEF W!Elsewhere
<1> QED
  BY <1>1, <1>2, <1>3, <1>4, <1>5, <1>6, <1>7, <1>8 DEF Step

LEMMA TextsInOrderKept ==
  ASSUME Followed, MaxTyped \in Nat, Step
  PROVE  TextsInOrder'
<1> USE DEF Followed
<1>0. /\ panel' = panel /\ typed \in Nat /\ form.draft \in Nat
      /\ \A i \in DOMAIN calls : calls[i].text \in Nat
  <2>1. panel' = panel
    BY CallsStep
  <2>2. form \in Form /\ typed \in 0..MaxTyped /\ calls \in Seq(Calls)
    BY DEF PanelTypes
  <2>3. \A i \in DOMAIN calls : calls[i] \in Calls
    BY <2>2
  <2> QED
    BY <2>1, <2>2, <2>3 DEF Form, Calls
<1>1. CASE W!Type
  <2>1. /\ typed' = typed + 1 /\ form'.draft = typed' /\ calls' = calls /\ ~panel.atOnce
    BY <1>1, TypeDoes
  <2> QED
    BY <1>0, <2>1 DEF TextsInOrder
<1>2. ASSUME typed' = typed, form'.draft \in {form.draft, 0}
      PROVE  /\ form'.draft \in 0..typed' \/ form'.draft = MaxTyped + 1
             /\ panel'.op = "make" => form'.draft <= typed'
             /\ panel'.atOnce => form'.draft = 0
  BY <1>0, <1>2 DEF TextsInOrder
<1>3. CASE calls' = calls /\ typed' = typed /\ form'.draft \in {form.draft, 0}
  BY <1>0, <1>2, <1>3 DEF TextsInOrder
<1>4. ASSUME NEW n, NEW c, Added(n, c), form'.draft \in {form.draft, 0},
             \/ c.text = form.draft /\ form.draft # 0 /\ typed' = typed
             \/ c.text = typed' /\ typed' = typed + 1 /\ panel.atOnce
             \/ c.op # "make" /\ typed' = typed
      PROVE  TextsInOrder'
  <2>1. \A i \in DOMAIN calls' : i = n \/ i \in DOMAIN calls
    BY <1>4 DEF Added
  <2>2. \A i \in DOMAIN calls : i \in Nat /\ i < n /\ calls'[i] = calls[i]
    BY <1>4 DEF Added
  <2>3. n \in Nat /\ calls'[n] = c
    BY <1>4 DEF Added
  <2>4. c.op = "make" => panel.op = "make"
    <3>1. CallsOfPanel'
      BY CallsOfPanelKept
    <3>2. n \in DOMAIN calls'
      BY <1>4 DEF Added
    <3>3. calls'[n].op = "make" => panel'.op = "make"
      BY <3>1, <3>2 DEF CallsOfPanel
    <3> QED
      BY <1>0, <2>3, <3>3
  <2>5. c.op = "make" =>
          /\ c.text \in 1..typed' /\ (form'.draft # 0 => c.text <= form'.draft)
          /\ \A i \in DOMAIN calls : calls[i].op = "make" => calls[i].text <= c.text
    <3>1. CASE c.text = form.draft /\ form.draft # 0 /\ typed' = typed
      BY <1>0, <1>4, <2>4, <3>1 DEF TextsInOrder
    <3>2. CASE c.text = typed' /\ typed' = typed + 1 /\ panel.atOnce
      BY <1>0, <1>4, <3>2 DEF TextsInOrder
    <3> QED
      BY <1>4, <3>1, <3>2
  <2>6. ASSUME NEW i \in DOMAIN calls', NEW j \in DOMAIN calls', i < j,
               calls'[i].op = "make", calls'[j].op = "make"
        PROVE  calls'[i].text <= calls'[j].text
    <3>1. i \in DOMAIN calls
      BY <2>1, <2>2, <2>3, <2>6
    <3>2. CASE j = n
      BY <2>2, <2>3, <2>5, <2>6, <3>1, <3>2
    <3>3. CASE j \in DOMAIN calls
      BY <2>2, <2>6, <3>1, <3>3 DEF TextsInOrder
    <3> QED
      BY <2>1, <3>2, <3>3
  <2>7. ASSUME NEW i \in DOMAIN calls', calls'[i].op = "make"
        PROVE  /\ calls'[i].text \in 1..typed'
               /\ form'.draft # 0 => calls'[i].text <= form'.draft
    <3>1. CASE i = n
      BY <2>3, <2>5, <2>7, <3>1
    <3>2. CASE i \in DOMAIN calls
      <4>1. /\ calls'[i].text \in 1..typed /\ (form.draft # 0 => calls'[i].text <= form.draft)
        BY <2>2, <2>7, <3>2 DEF TextsInOrder
      <4> QED
        BY <1>0, <1>4, <4>1
    <3> QED
      BY <2>1, <3>1, <3>2
  <2>8. /\ form'.draft \in 0..typed' \/ form'.draft = MaxTyped + 1
        /\ panel'.op = "make" => form'.draft <= typed'
        /\ panel'.atOnce => form'.draft = 0
    BY <1>0, <1>4 DEF TextsInOrder
  <2> QED
    BY <2>6, <2>7, <2>8 DEF TextsInOrder
<1>5. ASSUME NEW i \in DOMAIN calls, NEW c, Advances(i, c), typed' = typed,
             form'.draft \in {form.draft, 0}
      PROVE  TextsInOrder'
  <2>1. /\ DOMAIN calls' = DOMAIN calls
        /\ \A j \in DOMAIN calls : calls'[j].op = calls[j].op /\ calls'[j].text = calls[j].text
    BY <1>5 DEF Advances, Moved
  <2>2. \A j, k \in DOMAIN calls' :
          j < k /\ calls'[j].op = "make" /\ calls'[k].op = "make" => calls'[j].text <= calls'[k].text
    BY <2>1 DEF TextsInOrder
  <2>3. \A j \in DOMAIN calls' :
          calls'[j].op = "make" =>
            calls'[j].text \in 1..typed' /\ (form'.draft # 0 => calls'[j].text <= form'.draft)
    BY <1>5, <2>1 DEF TextsInOrder
  <2> QED
    BY <1>2, <1>5, <2>2, <2>3 DEF TextsInOrder
<1> QED
  BY <1>1, <1>3, <1>4, <1>5, DraftStep

LEMMA ShownStaysShown ==
  ASSUME RowsGrow, rows \in Seq(Row), NEW c \in Calls, Shows(c, rows)
  PROVE  Shows(c, rows)'
<1>1. c.row \in DOMAIN rows /\ c.row \in DOMAIN rows' /\ c.at \in Nat
  BY DEF Shows, RowsGrow, Calls
<1>2. rows[c.row] \in Row /\ rows'[c.row] \in Row
  BY <1>1 DEF RowsGrow
<1>3. rows[c.row].at \in Nat /\ rows'[c.row].at \in Nat
  BY <1>2 DEF Row
<1> QED
  BY <1>1, <1>3 DEF Shows, RowsGrow

\* What is answered was served.
LEMMA ServeShows ==
  ASSUME PanelTypes, CallsOfPanel, RowsServed, NEW i \in DOMAIN calls,
         W!Serve(i) \/ W!Schedule(i) \/ W!Answer(i) \/ W!Fail(i)
  PROVE  \A j \in DOMAIN calls' : Served(calls'[j]) => Shows(calls'[j], rows')
<1>0. /\ 1 \in DOMAIN rows /\ rows \in Seq(Row) /\ RowsGrow
      /\ \A j \in DOMAIN calls : calls[j] \in Calls
  <2>1. rows \in Seq(Row) /\ calls \in Seq(Calls)
    BY DEF PanelTypes
  <2> QED
    BY <2>1, CallsAdvance DEF RowsServed
<1>1. \A j \in DOMAIN calls : Served(calls[j]) => Shows(calls[j], rows')
  <2>1. TAKE j \in DOMAIN calls
  <2>2. HAVE Served(calls[j])
  <2>3. calls[j] \in Calls /\ Shows(calls[j], rows)
    BY <1>0, <2>2 DEF RowsServed
  <2>4. PICK c \in Calls : c = calls[j]
    BY <2>3
  <2>5. Shows(c, rows)'
    BY <1>0, <2>3, <2>4, ShownStaysShown
  <2> QED
    BY <2>4, <2>5 DEF Shows
<1>2. ASSUME NEW c, Moved(i, c), Served(c) => Shows(c, rows')
      PROVE  \A j \in DOMAIN calls' : Served(calls'[j]) => Shows(calls'[j], rows')
  BY <1>1, <1>2 DEF Moved
<1>3. CASE W!Serve(i)
  <2>1. PICK c : Moved(i, c) /\ ServedAs(i, c)
    BY <1>0, <1>3, ServeMoves
  <2>2. CASE c.op = "make" /\ RowMade(c.row, c.text)
    BY <1>2, <2>1, <2>2 DEF RowMade, Shows
  <2>3. CASE \E r : c.op = "change" /\ RowSet(c.row, r) /\ r.at = c.at
    <3>1. PICK r : RowSet(c.row, r) /\ r.at = c.at
      BY <2>3
    <3>2. c.at \in Nat
      BY <2>1 DEF Moved, Calls
    <3> QED
      BY <1>2, <2>1, <2>3, <3>1, <3>2 DEF RowSet, Shows
  <2>4. CASE \E r : c.op = "close" /\ RowSet(c.row, r) /\ ~r.open
    BY <1>2, <2>1, <2>4 DEF RowSet, Shows
  <2>5. CASE c.stage = "refused"
    BY <1>2, <2>1, <2>5 DEF Served
  <2> QED
    BY <2>1, <2>2, <2>3, <2>4, <2>5 DEF ServedAs
<1>4. CASE W!Schedule(i)
  <2>1. PICK c : /\ Moved(i, c) /\ c.row = calls[i].row /\ c.at = calls[i].at
    BY <1>4, ScheduleMoves
  <2>2. Served(calls[i])
    BY <1>4, ScheduleMoves DEF Served
  <2> QED
    BY <1>1, <1>2, <2>1, <2>2 DEF Shows, Moved
<1>5. CASE W!Answer(i)
  <2>1. PICK c : /\ Moved(i, c) /\ c.row = calls[i].row /\ c.at = calls[i].at
    BY <1>5, AnswerMoves
  <2>2. Served(calls[i])
    BY <1>5, AnswerMoves DEF Served
  <2> QED
    BY <1>1, <1>2, <2>1, <2>2 DEF Shows, Moved
<1>6. CASE W!Fail(i)
  <2>1. PICK c : /\ Moved(i, c)
                 /\ c.stage = IF calls[i].stage \in {"done", "half"} THEN "lost" ELSE "failed"
    BY <1>6, FailMoves
  <2>2. ~Served(c)
    BY <2>1 DEF Served
  <2> QED
    BY <1>2, <2>1, <2>2
<1> QED
  BY <1>3, <1>4, <1>5, <1>6

LEMMA RowsServedKept ==
  ASSUME Followed, MaxTyped \in Nat, Step
  PROVE  RowsServed'
<1> USE DEF Followed
<1>0. /\ 1 \in DOMAIN rows' /\ DOMAIN rows \subseteq DOMAIN rows' /\ rows \in Seq(Row) /\ RowsGrow
      /\ \A j \in DOMAIN calls : calls[j] \in Calls
  <2>1. rows \in Seq(Row) /\ calls \in Seq(Calls)
    BY DEF PanelTypes
  <2> QED
    BY <2>1, CallsStep DEF RowsServed, RowsGrow
<1>1. \A j \in DOMAIN calls : Served(calls[j]) => Shows(calls[j], rows')
  <2>1. TAKE j \in DOMAIN calls
  <2>2. HAVE Served(calls[j])
  <2>3. calls[j] \in Calls /\ Shows(calls[j], rows)
    BY <1>0, <2>2 DEF RowsServed
  <2>4. PICK c \in Calls : c = calls[j]
    BY <2>3
  <2>5. Shows(c, rows)'
    BY <1>0, <2>3, <2>4, ShownStaysShown
  <2> QED
    BY <2>4, <2>5 DEF Shows
<1>2. DOMAIN list.rows \subseteq DOMAIN rows
      /\ (fetch.stage = "read" => DOMAIN fetch.rows \subseteq DOMAIN rows)
  BY DEF RowsServed
<1>3. /\ DOMAIN list'.rows \subseteq DOMAIN rows'
      /\ fetch'.stage = "read" => DOMAIN fetch'.rows \subseteq DOMAIN rows'
  <2>1. CASE list' = list /\ fetch' = fetch
    BY <1>0, <1>2, <2>1
  <2>2. ASSUME NEW i \in DOMAIN calls, W!Answer(i)
        PROVE  /\ DOMAIN list'.rows \subseteq DOMAIN rows'
               /\ fetch'.stage = "read" => DOMAIN fetch'.rows \subseteq DOMAIN rows'
    <3>1. calls[i].row \in DOMAIN rows
      BY <2>2, AnswerMoves DEF CallsOfPanel, Served
    <3>2. W!Asked.stage = "asked"
      BY DEF W!Asked, W!Idle
    <3>3. \/ list' = list
          \/ DOMAIN list'.rows = DOMAIN list.rows \union {calls[i].row}
      BY <2>2, AnswerDoes
    <3>4. fetch' = fetch \/ fetch' = W!Asked
      BY <2>2, AnswerDoes
    <3> QED
      BY <1>0, <1>2, <3>1, <3>2, <3>3, <3>4
  <2>3. CASE W!Refetch
    BY <1>0, <1>2, <2>3 DEF W!Refetch, W!Asked, W!Idle
  <2>4. CASE W!Read
    BY <1>0, <1>2, <2>4 DEF W!Read
  <2>5. CASE W!Fetched
    BY <1>0, <1>2, <2>5 DEF W!Fetched, W!Idle
  <2>6. CASE W!FetchFails
    <3>1. list' = [list EXCEPT !.failed = TRUE] /\ fetch'.stage = "none"
      BY <2>6 DEF W!FetchFails, W!Idle
    <3>2. list'.rows = list.rows
      BY <3>1 DEF PanelTypes
    <3> QED
      BY <1>0, <1>2, <3>1, <3>2
  <2>7. ASSUME NEW i \in DOMAIN calls, W!Serve(i) \/ W!Schedule(i) \/ W!Fail(i)
        PROVE  list' = list /\ fetch' = fetch
    BY <2>7 DEF W!Serve, W!Schedule, W!Fail
  <2>8. CASE W!Type \/ W!OpenForm \/ W!CloseForm \/ W!Submit \/ W!Choose \/ W!Act \/ W!Elsewhere
    BY <2>1, <2>8 DEF W!Type, W!OpenForm, W!CloseForm, W!Submit, W!Choose, W!Act, W!Elsewhere
  <2> QED
    BY <2>1, <2>2, <2>3, <2>4, <2>5, <2>6, <2>7, <2>8 DEF Step
<1>4. \A j \in DOMAIN calls' : Served(calls'[j]) => Shows(calls'[j], rows')
  <2>1. CASE calls' = calls
    BY <1>1, <2>1
  <2>2. ASSUME NEW n, NEW c, Added(n, c)
        PROVE  \A j \in DOMAIN calls' : Served(calls'[j]) => Shows(calls'[j], rows')
    BY <1>1, <2>2 DEF Added, Served
  <2>3. ASSUME NEW i \in DOMAIN calls, W!Serve(i) \/ W!Schedule(i) \/ W!Answer(i) \/ W!Fail(i)
        PROVE  \A j \in DOMAIN calls' : Served(calls'[j]) => Shows(calls'[j], rows')
    BY <2>3, ServeShows
  <2>4. CASE W!Type \/ W!OpenForm \/ W!CloseForm \/ W!Refetch \/ W!Read \/ W!Fetched \/ W!FetchFails
             \/ W!Elsewhere
    BY <2>1, <2>4 DEF W!Type, W!OpenForm, W!CloseForm, W!Refetch, W!Read, W!Fetched, W!FetchFails,
      W!Elsewhere
  <2>5. CASE W!Submit \/ W!Choose \/ W!Act
    BY <2>2, <2>5, SubmitDoes, ChooseDoes, ActDoes
  <2> QED
    BY <2>3, <2>4, <2>5 DEF Step
<1> QED
  BY <1>0, <1>3, <1>4 DEF RowsServed, Shows

-------------------------------------------------------------------------------
\* The list that is shown.
LEMMA AnswersListedKept ==
  ASSUME Followed, AnswersListed, MaxTyped \in Nat, Step
  PROVE  AnswersListed'
<1> USE DEF Followed
<1>0. /\ panel' = panel /\ PanelTypes /\ CallsOfPanel /\ Common(panel)
  BY CallsStep, PanelsHaveInCommon DEF PanelTypes
<1>1. panel.local => ~panel.lists
  BY <1>0 DEF Common
<1>2. ASSUME list' = list, fetch' = fetch,
             \A j \in DOMAIN calls' :
               calls'[j].stage = "answered" => j \in DOMAIN calls /\ calls'[j] = calls[j]
      PROVE  AnswersListed'
  BY <1>0, <1>2 DEF AnswersListed, Shows
<1>3. ASSUME NEW n, NEW c, Added(n, c), list' = list, fetch' = fetch
      PROVE  AnswersListed'
  <2>1. \A j \in DOMAIN calls' :
          calls'[j].stage = "answered" => j \in DOMAIN calls /\ calls'[j] = calls[j]
    BY <1>3 DEF Added
  <2> QED
    BY <1>2, <1>3, <2>1
<1>4. ASSUME NEW i \in DOMAIN calls, W!Serve(i) \/ W!Schedule(i) \/ W!Fail(i)
      PROVE  AnswersListed'
  <2>1. list' = list /\ fetch' = fetch
    BY <1>4 DEF W!Serve, W!Schedule, W!Fail
  <2>2. PICK c : Moved(i, c) /\ c.stage # "answered"
    <3>1. W!Serve(i) => \E c : Moved(i, c) /\ c.stage # "answered"
      BY <1>0, ServeMoves DEF ServedAs, RowsServed
    <3>2. W!Schedule(i) => \E c : Moved(i, c) /\ c.stage # "answered"
      BY <1>0, ScheduleMoves
    <3>3. W!Fail(i) => \E c : Moved(i, c) /\ c.stage # "answered"
      BY <1>0, FailMoves
    <3> QED
      BY <1>4, <3>1, <3>2, <3>3
  <2>3. \A j \in DOMAIN calls' :
          calls'[j].stage = "answered" => j \in DOMAIN calls /\ calls'[j] = calls[j]
    BY <2>2 DEF Moved
  <2> QED
    BY <1>2, <2>1, <2>3
<1>5. ASSUME NEW i \in DOMAIN calls, W!Answer(i)
      PROVE  AnswersListed'
  <2>1. PICK c : /\ Moved(i, c) /\ (c.late <=> Late(i)) /\ c.row = calls[i].row
                 /\ c.first <=> ~list.known /\ fetch.stage # "none"
    BY <1>0, <1>5, AnswerMoves
  <2>2. /\ DOMAIN calls' = DOMAIN calls /\ c.op = calls[i].op
        /\ \A j \in DOMAIN calls : calls'[j] = IF j = i THEN c ELSE calls[j]
    BY <2>1 DEF Moved
  <2>3. CASE panel.lists /\ list' = list /\ fetch' = W!Asked
    <3>1. fetch'.stage = "asked"
      BY <2>3 DEF W!Asked, W!Idle
    <3> QED
      BY <1>0, <1>1, <2>3, <3>1 DEF AnswersListed
  <2>4. CASE panel.lists /\ list' = list /\ ~list.known /\ fetch.stage # "none" /\ fetch' = fetch
    <3>1. c.first
      BY <2>1, <2>4
    <3> QED
      BY <1>0, <1>1, <2>2, <2>4, <3>1 DEF AnswersListed, Shows
  <2>5. ASSUME ~panel.lists, fetch' = fetch, list'.known = list.known,
               DOMAIN list.rows \subseteq DOMAIN list'.rows,
               panel.local /\ c.op = "make" => c.row \in DOMAIN list'.rows \/ c.late
        PROVE  AnswersListed'
    BY <1>0, <2>2, <2>5 DEF AnswersListed
  <2>6. \/ /\ panel.lists /\ list' = list
           /\ \/ fetch' = W!Asked
              \/ ~list.known /\ fetch.stage # "none" /\ fetch' = fetch
        \/ /\ ~panel.lists /\ fetch' = fetch
           /\ \/ /\ list'.known = list.known
                 /\ DOMAIN list'.rows = DOMAIN list.rows \union {calls[i].row}
              \/ list' = list /\ (panel.local /\ calls[i].op = "make" => Late(i))
    BY <1>0, <1>5, AnswerDoes
  <2>7. CASE /\ ~panel.lists /\ fetch' = fetch /\ list'.known = list.known
             /\ DOMAIN list'.rows = DOMAIN list.rows \union {calls[i].row}
    BY <2>1, <2>5, <2>7
  <2>8. CASE ~panel.lists /\ fetch' = fetch /\ list' = list
             /\ (panel.local /\ calls[i].op = "make" => Late(i))
    BY <2>1, <2>2, <2>5, <2>8
  <2> QED
    BY <2>3, <2>4, <2>6, <2>7, <2>8
<1>6. CASE W!Refetch
  <2>1. fetch'.stage = "asked" /\ list' = list /\ calls' = calls /\ panel.lists
    BY <1>6 DEF W!Refetch, W!Asked, W!Idle
  <2> QED
    BY <1>0, <1>1, <2>1 DEF AnswersListed
<1>7. CASE W!Read
  <2>1. /\ fetch'.stage = "read" /\ fetch'.rows = rows /\ list' = list /\ calls' = calls
        /\ fetch.stage = "asked"
    BY <1>7 DEF W!Read
  <2>2. panel.lists
    BY <2>1 DEF AnswersListed
  <2>3. \A j \in DOMAIN calls : calls[j].stage = "answered" => Shows(calls[j], rows)
    BY DEF RowsServed, Served
  <2> QED
    BY <1>0, <1>1, <2>1, <2>2, <2>3 DEF AnswersListed, Shows
<1>8. CASE W!Fetched
  <2>1. /\ fetch'.stage = "none" /\ list'.rows = fetch.rows /\ calls' = calls /\ fetch.stage = "read"
    BY <1>8 DEF W!Fetched, W!Idle
  <2>2. panel.lists
    BY <2>1 DEF AnswersListed
  <2> QED
    BY <1>0, <1>1, <2>1, <2>2 DEF AnswersListed, Shows
<1>9. CASE W!FetchFails
  <2>1. fetch.stage # "none" /\ fetch'.stage = "none" /\ list' = [list EXCEPT !.failed = TRUE]
        /\ calls' = calls
    BY <1>9 DEF W!FetchFails, W!Idle
  <2>2. list'.failed
    BY <1>0, <2>1 DEF PanelTypes
  <2>3. panel.lists
    BY <2>1 DEF AnswersListed
  <2> QED
    BY <1>0, <1>1, <2>1, <2>2, <2>3 DEF AnswersListed
<1>10. CASE W!Type \/ W!OpenForm \/ W!CloseForm \/ W!Elsewhere
  BY <1>2, <1>10 DEF W!Type, W!OpenForm, W!CloseForm, W!Elsewhere
<1>11. CASE W!Submit \/ W!Choose \/ W!Act
  BY <1>0, <1>3, <1>11, SubmitDoes, ChooseDoes, ActDoes
<1> QED
  BY <1>4, <1>5, <1>6, <1>7, <1>8, <1>9, <1>10, <1>11 DEF Step

LEMMA ListCurrent ==
  ASSUME Followed, AnswersListed
  PROVE  W!ListIsCurrent
<1> USE DEF Followed
<1>1. Common(panel)
  BY PanelsHaveInCommon DEF PanelTypes
<1>2. SUFFICES ASSUME list.known, ~list.failed, fetch.stage = "none",
                      NEW i \in DOMAIN calls, calls[i].stage = "answered"
               PROVE  \/ W!Reflects(i) \/ (~panel.local /\ calls[i].first)
                      \/ (panel.local /\ (calls[i].op = "close" \/ calls[i].late))
  BY DEF W!ListIsCurrent, W!ListShown
<1>3. CASE panel.lists
  BY <1>1, <1>2, <1>3 DEF AnswersListed, Shows, W!Reflects, Common
<1>4. CASE ~panel.lists
  <2>1. panel.local /\ panel.op = "make"
    BY <1>1, <1>2, <1>4 DEF AnswersListed, Common
  <2>2. calls[i].op \in {"make", "close"}
    BY <2>1 DEF CallsOfPanel
  <2> QED
    BY <1>2, <2>1, <2>2 DEF AnswersListed, W!Reflects
<1> QED
  BY <1>3, <1>4

-------------------------------------------------------------------------------
\* The last choice.
LEMMA LastServedKept ==
  ASSUME Followed, LastServed, MaxTyped \in Nat, Step
  PROVE  LastServed'
<1> USE DEF Followed
<1>0. PanelTypes /\ CallsOfPanel /\ 1 \in DOMAIN rows /\ rows \in Seq(Row)
  BY DEF RowsServed, PanelTypes
<1>1. ASSUME rows'[1].text = rows[1].text, calls' = calls
      PROVE  LastServed'
  BY <1>1 DEF LastServed, Served
<1>2. ASSUME NEW n, NEW c, Added(n, c), rows' = rows
      PROVE  LastServed'
  <2>1. /\ DOMAIN calls' = DOMAIN calls \union {n} /\ calls'[n] = c /\ c.stage = "sent"
        /\ \A i \in DOMAIN calls : calls'[i] = calls[i]
    BY <1>2 DEF Added
  <2>2. ASSUME NEW i \in DOMAIN calls', calls'[i].op = "change", Served(calls'[i]),
               ~calls'[i].crowded, \A j \in DOMAIN calls' : calls'[j].op = "change" => j <= i
        PROVE  rows'[1].text = calls'[i].text
    <3>1. i \in DOMAIN calls
      BY <2>1, <2>2 DEF Served
    <3>2. \A j \in DOMAIN calls : calls[j].op = "change" => j <= i
      BY <2>1, <2>2
    <3> QED
      BY <1>2, <2>1, <2>2, <3>1, <3>2 DEF LastServed
  <2> QED
    BY <2>2 DEF LastServed, Served
<1>3. ASSUME NEW i \in DOMAIN calls, NEW c, Moved(i, c), Served(c) => Served(calls[i]),
             rows'[1].text = rows[1].text
      PROVE  LastServed'
  <2>1. DOMAIN calls' = DOMAIN calls
    BY <1>3 DEF Moved
  <2>2. ASSUME NEW j \in DOMAIN calls
        PROVE  /\ calls'[j].op = calls[j].op /\ (calls'[j].crowded <=> calls[j].crowded)
               /\ calls'[j].text = calls[j].text
               /\ Served(calls'[j]) => Served(calls[j])
    BY <1>3 DEF Moved
  <2>3. ASSUME NEW j \in DOMAIN calls, calls'[j].op = "change", Served(calls'[j]),
               ~calls'[j].crowded, \A k \in DOMAIN calls' : calls'[k].op = "change" => k <= j
        PROVE  rows'[1].text = calls'[j].text
    <3>1. \A k \in DOMAIN calls : calls[k].op = "change" => k <= j
      BY <2>1, <2>2, <2>3
    <3>2. calls[j].op = "change" /\ Served(calls[j]) /\ ~calls[j].crowded
      BY <2>2, <2>3
    <3>3. rows[1].text = calls[j].text
      BY <3>1, <3>2 DEF LastServed
    <3> QED
      BY <1>3, <2>2, <3>3
  <2> QED
    BY <2>1, <2>3 DEF LastServed, Served
<1>4. ASSUME NEW i \in DOMAIN calls, NEW c, Moved(i, c), calls[i].stage = "sent",
             c.op = "change", rows'[1].text = c.text
      PROVE  LastServed'
  <2>1. DOMAIN calls' = DOMAIN calls /\ calls'[i] = c /\ calls[i].op = "change"
    BY <1>4 DEF Moved
  <2>2. ASSUME NEW j \in DOMAIN calls, j # i, calls'[j].op = "change",
               ~calls'[j].crowded, \A k \in DOMAIN calls' : calls'[k].op = "change" => k <= j
        PROVE  FALSE
    <3>1. i < j
      <4>1. i <= j
        BY <1>4, <2>1, <2>2
      <4>2. i \in Nat /\ j \in Nat
        BY <1>0 DEF PanelTypes
      <4> QED
        BY <2>2, <4>1, <4>2
    <3>2. calls'[j] = calls[j]
      BY <1>4, <2>2 DEF Moved
    <3>3. Underway(calls[i])
      BY <1>4 DEF Underway
    <3> QED
      BY <2>1, <2>2, <3>1, <3>2, <3>3 DEF CallsQueue
  <2> QED
    BY <1>4, <2>1, <2>2 DEF LastServed
<1>5. ASSUME NEW i \in DOMAIN calls, W!Serve(i)
      PROVE  LastServed'
  <2>1. PICK c : Moved(i, c) /\ ServedAs(i, c)
    BY <1>0, <1>5, ServeMoves
  <2>2. calls[i].stage = "sent"
    BY <1>0, <1>5, ServeMoves
  <2>3. CASE c.op = "make" /\ RowMade(c.row, c.text)
    <3>1. rows'[1] = rows[1]
      BY <1>0, <2>3 DEF RowMade
    <3> QED
      <4>1. CASE c.op = "change"
        BY <2>3, <4>1
      <4>2. \A j \in DOMAIN calls : calls[j].op # "change"
        <5>1. panel.op = "make"
          BY <2>1, <2>3 DEF CallsOfPanel, Moved
        <5> QED
          BY <5>1 DEF CallsOfPanel
      <4>3. \A j \in DOMAIN calls' : calls'[j].op # "change"
        BY <2>1, <2>3, <4>2 DEF Moved
      <4> QED
        BY <4>3 DEF LastServed
  <2>4. CASE \E r : c.op = "change" /\ c.row = calls[i].row /\ RowSet(c.row, r) /\ r.text = c.text
    <3>1. c.row = 1
      BY <2>1, <2>4 DEF CallsOfPanel, Moved
    <3>2. rows'[1].text = c.text
      BY <2>4, <3>1 DEF RowSet
    <3> QED
      BY <1>4, <2>1, <2>2, <2>4, <3>2
  <2>5. CASE \E r : c.op = "close" /\ RowSet(c.row, r) /\ r.text = rows[c.row].text
    <3>1. rows'[1].text = rows[1].text
      BY <1>0, <2>5 DEF RowSet
    <3>2. ASSUME NEW j \in DOMAIN calls', calls'[j].op = "change"
          PROVE  j \in DOMAIN calls /\ calls'[j] = calls[j]
      BY <2>1, <2>5, <3>2 DEF Moved
    <3>3. \A k \in DOMAIN calls : calls[k].op = "change" => k \in DOMAIN calls' /\ calls'[k].op = "change"
      BY <2>1 DEF Moved
    <3>4. ASSUME NEW j \in DOMAIN calls', calls'[j].op = "change", Served(calls'[j]),
                 ~calls'[j].crowded, \A k \in DOMAIN calls' : calls'[k].op = "change" => k <= j
          PROVE  rows'[1].text = calls'[j].text
      <4>1. \A k \in DOMAIN calls : calls[k].op = "change" => k <= j
        BY <3>3, <3>4
      <4> QED
        BY <3>1, <3>2, <3>4, <4>1 DEF LastServed
    <3> QED
      BY <3>4 DEF LastServed, Served
  <2>6. CASE c.stage = "refused" /\ rows' = rows
    BY <1>3, <2>1, <2>6 DEF Served
  <2> QED
    BY <2>1, <2>3, <2>4, <2>5, <2>6 DEF ServedAs
<1>6. ASSUME NEW i \in DOMAIN calls, W!Schedule(i)
      PROVE  LastServed'
  <2>1. PICK c : Moved(i, c) /\ c.stage = "done"
    BY <1>0, <1>6, ScheduleMoves
  <2>2. PICK r : RowSet(calls[i].row, r) /\ r.text = rows[calls[i].row].text
    BY <1>0, <1>6, ScheduleMoves
  <2>3. rows'[1].text = rows[1].text
    BY <1>0, <2>2 DEF RowSet
  <2>4. Served(calls[i])
    BY <1>0, <1>6, ScheduleMoves DEF Served
  <2> QED
    BY <1>3, <2>1, <2>3, <2>4
<1>7. ASSUME NEW i \in DOMAIN calls, W!Answer(i)
      PROVE  LastServed'
  <2>1. PICK c : Moved(i, c)
    BY <1>0, <1>7, AnswerMoves
  <2>2. Served(calls[i]) /\ rows' = rows
    BY <1>0, <1>7, AnswerMoves DEF Served
  <2> QED
    BY <1>3, <2>1, <2>2
<1>8. ASSUME NEW i \in DOMAIN calls, W!Fail(i)
      PROVE  LastServed'
  <2>1. PICK c : /\ Moved(i, c)
                 /\ c.stage = IF calls[i].stage \in {"done", "half"} THEN "lost" ELSE "failed"
    BY <1>0, <1>8, FailMoves
  <2>2. ~Served(c) /\ rows' = rows
    BY <1>0, <1>8, <2>1, FailMoves DEF Served
  <2> QED
    BY <1>3, <2>1, <2>2
<1>9. CASE W!Type \/ W!OpenForm \/ W!CloseForm \/ W!Refetch \/ W!Read \/ W!Fetched \/ W!FetchFails
  BY <1>1, <1>9 DEF W!Type, W!OpenForm, W!CloseForm, W!Refetch, W!Read, W!Fetched, W!FetchFails
<1>10. CASE W!Submit \/ W!Choose \/ W!Act
  <2>1. \E n, c : Added(n, c) /\ rows' = rows
    BY <1>0, <1>10, SubmitDoes, ChooseDoes, ActDoes
  <2> QED
    BY <1>2, <2>1
<1>11. CASE W!Elsewhere
  BY <1>0, <1>1, <1>11, ElsewhereDoes
<1> QED
  BY <1>5, <1>6, <1>7, <1>8, <1>9, <1>10, <1>11 DEF Step

LEMMA LastStands ==
  ASSUME LastServed
  PROVE  W!LastChoiceStands
BY DEF LastServed, W!LastChoiceStands, Served

-------------------------------------------------------------------------------
\* The secrets that are shown once.
LEMMA LaterStaysLater ==
  ASSUME NEW i \in DOMAIN calls, Late(i),
         (\E n, c : Added(n, c)) \/ (\E j \in DOMAIN calls : \E c : Moved(j, c))
  PROVE  Late(i)'
<1>1. ASSUME NEW n, NEW c, Added(n, c)
      PROVE  Late(i)'
  BY <1>1 DEF Added, Late
<1>2. ASSUME NEW j \in DOMAIN calls, NEW c, Moved(j, c)
      PROVE  Late(i)'
  BY <1>2 DEF Moved, Late
<1> QED
  BY <1>1, <1>2

LEMMA SecretsSeenKept ==
  ASSUME Followed, SecretsSeen, MaxTyped \in Nat, Step
  PROVE  SecretsSeen'
<1> USE DEF Followed
<1>0. /\ panel' = panel /\ PanelTypes /\ CallsOfPanel /\ Common(panel)
      /\ \A i \in DOMAIN calls : calls[i].stage = "answered" => calls[i].row # 0
  <2>1. panel' = panel /\ PanelTypes /\ CallsOfPanel /\ Common(panel)
    BY CallsStep, PanelsHaveInCommon DEF PanelTypes
  <2>2. rows \in Seq(Row)
    BY DEF PanelTypes
  <2>3. \A i \in DOMAIN calls : calls[i].stage = "answered" => calls[i].row \in DOMAIN rows
    BY DEF CallsOfPanel, Served
  <2> QED
    BY <2>1, <2>2, <2>3
<1>1. SUFFICES ASSUME panel.reveals PROVE SecretsSeen'
  BY <1>0 DEF SecretsSeen
<1>2. ~panel.each /\ panel.op = "make" /\ ~panel.atOnce /\ ~panel.settles
  BY <1>0, <1>1 DEF Common
<1>3. ASSUME calls' = calls, seen \subseteq seen', form'.secret = form.secret \/ form'.secret = 0,
             form'.open /\ form'.secret # 0 => form'.secret \in seen',
             form'.secret # form.secret => form.secret \in seen' \/ form.secret = 0
      PROVE  SecretsSeen'
  BY <1>0, <1>1, <1>3 DEF SecretsSeen, Underway, Late
<1>4. ASSUME NEW n, NEW c, Added(n, c), seen' = seen, form'.secret = form.secret,
             form'.open => form.open,
             c.op = "make" => form.secret = 0
      PROVE  SecretsSeen'
  <2>1. /\ DOMAIN calls' = DOMAIN calls \union {n} /\ calls'[n] = c /\ c.stage = "sent"
        /\ \A i \in DOMAIN calls : calls'[i] = calls[i]
    BY <1>4 DEF Added
  <2>2. form'.open /\ form'.secret # 0 => form'.secret \in seen'
    BY <1>1, <1>4 DEF SecretsSeen
  <2>3. ASSUME form'.secret # 0, ~(form'.secret \in seen'),
               NEW i \in DOMAIN calls', calls'[i].op = "make", Underway(calls'[i])
        PROVE  Late(i)'
    <3>1. i \in DOMAIN calls /\ calls'[i] = calls[i]
      BY <1>4, <2>1, <2>3
    <3>2. Late(i)
      BY <1>1, <1>4, <2>3, <3>1 DEF SecretsSeen
    <3> QED
      BY <1>4, <3>1, <3>2, LaterStaysLater
  <2>4. ASSUME NEW i \in DOMAIN calls', calls'[i].op = "make", calls'[i].stage = "answered"
        PROVE  calls'[i].row \in seen' \/ calls'[i].row = form'.secret \/ calls'[i].late
    <3>1. i \in DOMAIN calls /\ calls'[i] = calls[i]
      BY <2>1, <2>4
    <3> QED
      BY <1>1, <1>4, <2>4, <3>1 DEF SecretsSeen
  <2> QED
    BY <2>2, <2>3, <2>4 DEF SecretsSeen, Underway
<1>5. ASSUME NEW i \in DOMAIN calls, NEW c, Moved(i, c), c.stage # "answered",
             Underway(c) => Underway(calls[i]), seen' = seen, form' = form
      PROVE  SecretsSeen'
  <2>1. /\ DOMAIN calls' = DOMAIN calls /\ calls'[i] = c /\ c.op = calls[i].op
        /\ \A j \in DOMAIN calls : j # i => calls'[j] = calls[j]
    BY <1>5 DEF Moved
  <2>2. form'.open /\ form'.secret # 0 => form'.secret \in seen'
    BY <1>1, <1>5 DEF SecretsSeen
  <2>3. ASSUME form'.secret # 0, ~(form'.secret \in seen'),
               NEW j \in DOMAIN calls', calls'[j].op = "make", Underway(calls'[j])
        PROVE  Late(j)'
    <3>1. j \in DOMAIN calls /\ calls[j].op = "make" /\ Underway(calls[j])
      BY <1>5, <2>1, <2>3
    <3>2. Late(j)
      BY <1>1, <1>5, <2>3, <3>1 DEF SecretsSeen
    <3> QED
      BY <1>5, <3>1, <3>2, LaterStaysLater
  <2>4. ASSUME NEW j \in DOMAIN calls', calls'[j].op = "make", calls'[j].stage = "answered"
        PROVE  calls'[j].row \in seen' \/ calls'[j].row = form'.secret \/ calls'[j].late
    <3>1. j \in DOMAIN calls /\ calls'[j] = calls[j]
      BY <1>5, <2>1, <2>4
    <3> QED
      BY <1>1, <1>5, <2>4, <3>1 DEF SecretsSeen
  <2> QED
    BY <2>2, <2>3, <2>4 DEF SecretsSeen, Underway
<1>6. ASSUME NEW i \in DOMAIN calls, W!Serve(i) \/ W!Schedule(i) \/ W!Fail(i)
      PROVE  SecretsSeen'
  <2>1. seen' = seen
    BY <1>6 DEF W!Serve, W!Schedule, W!Fail
  <2>2. form' = form
    BY <1>0, <1>2, <1>6, FailDoes DEF W!Serve, W!Schedule
  <2>3. PICK c : Moved(i, c) /\ c.stage # "answered" /\ (Underway(c) => Underway(calls[i]))
    <3>1. CASE W!Serve(i)
      <4>1. \E c : Moved(i, c) /\ ServedAs(i, c)
        BY <1>0, <3>1, ServeMoves DEF RowsServed
      <4>2. Underway(calls[i])
        BY <1>0, <3>1, ServeMoves DEF RowsServed, Underway
      <4> QED
        BY <4>1, <4>2 DEF ServedAs
    <3>2. CASE W!Schedule(i)
      BY <1>0, <3>2, ScheduleMoves DEF Underway
    <3>3. CASE W!Fail(i)
      <4>1. PICK c : Moved(i, c) /\ c.stage = IF calls[i].stage \in {"done", "half"} THEN "lost" ELSE "failed"
        BY <1>0, <3>3, FailMoves
      <4> QED
        BY <4>1 DEF Underway
    <3> QED
      BY <1>6, <3>1, <3>2, <3>3
  <2> QED
    BY <1>5, <2>1, <2>2, <2>3
<1>7. ASSUME NEW i \in DOMAIN calls, W!Answer(i)
      PROVE  SecretsSeen'
  <2>1. PICK c : Moved(i, c) /\ (c.late <=> Late(i)) /\ c.stage = "answered" /\ c.row = calls[i].row
    BY <1>0, <1>7, AnswerMoves
  <2>2. /\ DOMAIN calls' = DOMAIN calls /\ calls'[i] = c /\ c.op = calls[i].op
        /\ \A j \in DOMAIN calls : j # i => calls'[j] = calls[j]
    BY <2>1 DEF Moved
  <2>3. seen' = IF form'.open THEN seen \union ({form'.secret} \ {0}) ELSE seen
    BY <1>0, <1>7, AnswerDoes
  <2>4. seen \subseteq seen' /\ (form'.open /\ form'.secret # 0 => form'.secret \in seen')
    BY <2>3
  <2>5. \A j \in DOMAIN calls : Late(j) => Late(j)'
    BY <2>1, LaterStaysLater
  <2>6. ~Underway(c) /\ Underway(calls[i])
    BY <1>0, <1>7, <2>1, AnswerMoves DEF Underway
  <2>7. CASE form' = form /\ (calls[i].op # "make" \/ Late(i))
    <3>1. ASSUME form'.secret # 0, ~(form'.secret \in seen'),
                 NEW j \in DOMAIN calls', calls'[j].op = "make", Underway(calls'[j])
          PROVE  Late(j)'
      <4>1. j \in DOMAIN calls /\ calls'[j] = calls[j]
        BY <2>2, <2>6, <3>1
      <4>2. Late(j)
        BY <1>1, <2>4, <2>7, <3>1, <4>1 DEF SecretsSeen
      <4> QED
        BY <2>5, <4>1, <4>2
    <3>2. ASSUME NEW j \in DOMAIN calls', calls'[j].op = "make", calls'[j].stage = "answered"
          PROVE  calls'[j].row \in seen' \/ calls'[j].row = form'.secret \/ calls'[j].late
      <4>1. CASE j = i
        BY <2>1, <2>2, <2>7, <3>2, <4>1
      <4>2. CASE j # i
        BY <1>1, <2>2, <2>4, <2>7, <3>2, <4>2 DEF SecretsSeen
      <4> QED
        BY <4>1, <4>2
    <3> QED
      BY <2>4, <3>1, <3>2 DEF SecretsSeen, Underway
  <2>8. CASE calls[i].op = "make" /\ ~Late(i) /\ form'.secret = calls[i].row
    <3>1. ASSUME NEW j \in DOMAIN calls', calls'[j].op = "make", Underway(calls'[j])
          PROVE  Late(j)'
      <4>1. j \in DOMAIN calls /\ calls'[j] = calls[j] /\ j # i
        BY <2>2, <2>6, <3>1
      <4>2. i \in Nat /\ j \in Nat
        BY <1>0, <4>1 DEF PanelTypes
      <4>3. j < i
        BY <2>8, <3>1, <4>1, <4>2 DEF Late
      <4>4. Late(j)
        BY <2>8, <3>1, <4>1, <4>2, <4>3 DEF Late
      <4> QED
        BY <2>5, <4>1, <4>4
    <3>2. form.secret = 0 \/ form.secret \in seen
      BY <1>1, <2>6, <2>8 DEF SecretsSeen
    <3>3. ASSUME NEW j \in DOMAIN calls', calls'[j].op = "make", calls'[j].stage = "answered"
          PROVE  calls'[j].row \in seen' \/ calls'[j].row = form'.secret \/ calls'[j].late
      <4>1. CASE j = i
        BY <2>1, <2>2, <2>8, <4>1
      <4>2. CASE j # i
        BY <1>0, <1>1, <2>2, <2>4, <3>2, <3>3, <4>2 DEF SecretsSeen
      <4> QED
        BY <4>1, <4>2
    <3> QED
      BY <2>4, <3>1, <3>3 DEF SecretsSeen, Underway
  <2>9. FormSettled(i)
    BY <1>0, <1>7, AnswerDoes
  <2> QED
    BY <1>1, <1>2, <2>7, <2>8, <2>9 DEF FormSettled
<1>8. CASE W!Type
  BY <1>1, <1>3, <1>8, TypeDoes
<1>9. CASE W!OpenForm
  BY <1>3, <1>9, OpenDoes
<1>10. CASE W!CloseForm
  <2>1. form.secret = 0 \/ form.secret \in seen
    BY <1>1, <1>10, CloseDoes DEF SecretsSeen
  <2> QED
    BY <1>3, <1>10, <2>1, CloseDoes
<1>11. CASE W!Submit
  <2>1. (form'.open => form.open) /\ form.secret = 0 /\ seen' = seen /\ form'.secret = form.secret
    BY <1>11, SubmitDoes
  <2>2. \E n, c : Added(n, c)
    BY <1>11, SubmitDoes
  <2> QED
    BY <1>4, <2>1, <2>2
<1>12. CASE W!Choose
  BY <1>2, <1>12, ChooseDoes
<1>13. CASE W!Act
  <2>1. seen' = seen /\ form' = form
    BY <1>13, ActDoes
  <2>2. \E n, c : Added(n, c) /\ c.op = "close"
    BY <1>13, ActDoes
  <2> QED
    BY <1>4, <2>1, <2>2
<1>14. CASE W!Refetch \/ W!Read \/ W!Fetched \/ W!FetchFails \/ W!Elsewhere
  <2>1. calls' = calls /\ seen' = seen /\ form' = form
    BY <1>14 DEF W!Refetch, W!Read, W!Fetched, W!FetchFails, W!Elsewhere
  <2> QED
    BY <1>1, <1>3, <2>1 DEF SecretsSeen
<1> QED
  BY <1>6, <1>7, <1>8, <1>9, <1>10, <1>11, <1>12, <1>13, <1>14 DEF Step

LEMMA SecretsAreShown ==
  ASSUME SecretsSeen
  PROVE  W!SecretsShown
BY DEF SecretsSeen, W!SecretsShown

-------------------------------------------------------------------------------
\* The texts that were typed.
LEMMA OnItsWayStays ==
  ASSUME Followed, MaxTyped \in Nat, Step, NEW t, OnItsWay(t)
  PROVE  OnItsWay(t)'
<1>1. PICK i \in DOMAIN calls :
        calls[i].text = t /\ (calls[i].stage = "answered" \/ panel.clears = "sent" \/ panel.settles)
  BY DEF OnItsWay
<1>2. panel' = panel
  BY CallsStep
<1>3. CASE calls' = calls
  BY <1>1, <1>2, <1>3 DEF OnItsWay
<1>4. ASSUME NEW n, NEW c, Added(n, c)
      PROVE  OnItsWay(t)'
  <2>1. i \in DOMAIN calls' /\ calls'[i] = calls[i]
    BY <1>4 DEF Added
  <2> QED
    BY <1>1, <1>2, <2>1 DEF OnItsWay
<1>5. ASSUME NEW j \in DOMAIN calls, NEW c, Advances(j, c)
      PROVE  OnItsWay(t)'
  <2>1. i \in DOMAIN calls' /\ calls'[i].text = calls[i].text
    BY <1>5 DEF Advances, Moved
  <2>2. calls[i].stage = "answered" => calls'[i] = calls[i]
    BY <1>5 DEF Advances, Moved, Underway
  <2> QED
    BY <1>1, <1>2, <2>1, <2>2 DEF OnItsWay
<1> QED
  BY <1>3, <1>4, <1>5, CallsStep

LEMMA DraftIsSentKept ==
  ASSUME Followed, DraftIsSent, MaxTyped \in Nat, Step
  PROVE  DraftIsSent'
<1> USE DEF Followed
<1>0. /\ panel' = panel /\ PanelTypes /\ Common(panel) /\ typed \in Nat
  <2>1. PanelTypes /\ Common(panel) /\ CallsOfPanel
    BY PanelsHaveInCommon DEF PanelTypes
  <2>2. typed \in 0..MaxTyped
    BY DEF PanelTypes
  <2> QED
    BY <2>1, <2>2, CallsStep
<1>1. CASE W!Type
  <2>1. /\ calls' = calls /\ form'.draft = typed'
        /\ (\E i \in DOMAIN calls : calls[i].op = panel.op /\ Underway(calls[i])) => typed' \in during'
    BY <1>1, <1>0, TypeDoes
  <2> QED
    BY <1>0, <2>1 DEF DraftIsSent, Underway
<1>2. ASSUME calls' = calls, typed' = typed, during' = during, form'.draft \in {form.draft, 0}
      PROVE  DraftIsSent'
  BY <1>0, <1>2 DEF DraftIsSent, Underway
<1>3. ASSUME NEW n, NEW c, Added(n, c), typed' = typed, during' = during,
             form'.draft \in {form.draft, 0}, c.op = panel.op => c.text = form.draft
      PROVE  DraftIsSent'
  <2>1. /\ DOMAIN calls' = DOMAIN calls \union {n} /\ calls'[n] = c
        /\ \A i \in DOMAIN calls : calls'[i] = calls[i]
    BY <1>3 DEF Added
  <2>2. ASSUME form'.draft \in 1..typed', ~(form'.draft \in during'),
               NEW i \in DOMAIN calls', calls'[i].op = panel.op, Underway(calls'[i])
        PROVE  calls'[i].text = form'.draft
    <3>1. form'.draft = form.draft
      BY <1>3, <2>2
    <3>2. CASE i = n
      BY <1>3, <2>1, <2>2, <3>1, <3>2
    <3>3. CASE i \in DOMAIN calls
      BY <1>3, <2>1, <2>2, <3>1, <3>3 DEF DraftIsSent
    <3> QED
      BY <2>1, <3>2, <3>3
  <2> QED
    BY <1>0, <2>2 DEF DraftIsSent, Underway
<1>4. ASSUME NEW i \in DOMAIN calls, NEW c, Advances(i, c), typed' = typed, during' = during,
             form'.draft \in {form.draft, 0}
      PROVE  DraftIsSent'
  <2>1. DOMAIN calls' = DOMAIN calls
    BY <1>4 DEF Advances, Moved
  <2>2. ASSUME NEW j \in DOMAIN calls
        PROVE  /\ calls'[j].op = calls[j].op /\ calls'[j].text = calls[j].text
               /\ Underway(calls'[j]) => Underway(calls[j])
    BY <1>4 DEF Advances, Moved
  <2>3. ASSUME form'.draft \in 1..typed', ~(form'.draft \in during'),
               NEW j \in DOMAIN calls, calls'[j].op = panel.op, Underway(calls'[j])
        PROVE  calls'[j].text = form'.draft
    <3>1. form'.draft = form.draft
      BY <1>4, <2>3
    <3> QED
      BY <1>4, <2>2, <2>3, <3>1 DEF DraftIsSent
  <2> QED
    BY <1>0, <2>1, <2>3 DEF DraftIsSent, Underway
<1>5. CASE W!Choose
  <2>1. form'.draft = 0
    BY <1>0, <1>5, ChooseDoes DEF TextsInOrder
  <2> QED
    BY <2>1 DEF DraftIsSent
<1>6. CASE W!Submit
  <2>1. PICK n, c : Added(n, c) /\ c.text = form.draft
    BY <1>0, <1>6, SubmitDoes
  <2>2. typed' = typed /\ during' = during /\ form'.draft \in {form.draft, 0}
    BY <1>0, <1>6, SubmitDoes
  <2> QED
    BY <1>3, <2>1, <2>2
<1>7. CASE W!Act
  <2>1. PICK n, c : Added(n, c) /\ c.op = "close"
    BY <1>0, <1>7, ActDoes
  <2>2. typed' = typed /\ during' = during /\ form' = form
    BY <1>0, <1>7, ActDoes
  <2>3. panel.op # "close"
    BY <1>0 DEF Common
  <2> QED
    BY <1>3, <2>1, <2>2, <2>3
<1>8. ASSUME NEW i \in DOMAIN calls, W!Serve(i) \/ W!Schedule(i) \/ W!Answer(i) \/ W!Fail(i)
      PROVE  DraftIsSent'
  <2>1. PICK c : Advances(i, c)
    BY <1>8, CallsAdvance
  <2>2. typed' = typed /\ during' = during
    BY <1>8 DEF W!Serve, W!Schedule, W!Answer, W!Fail
  <2>3. FormSettled(i) \/ form' = form
    BY <1>8, AnswerDoes, FailDoes DEF W!Serve, W!Schedule
  <2>4. form'.draft \in {form.draft, 0}
    BY <2>3 DEF FormSettled
  <2> QED
    BY <1>4, <2>1, <2>2, <2>4
<1>9. CASE W!OpenForm
  BY <1>0, <1>2, <1>9, OpenDoes
<1>10. CASE W!CloseForm
  BY <1>0, <1>2, <1>10, CloseDoes
<1>11. CASE W!Refetch \/ W!Read \/ W!Fetched \/ W!FetchFails \/ W!Elsewhere
  BY <1>2, <1>11 DEF W!Refetch, W!Read, W!Fetched, W!FetchFails, W!Elsewhere
<1> QED
  BY <1>1, <1>5, <1>6, <1>7, <1>8, <1>9, <1>10, <1>11 DEF Step

LEMMA TextsAreKept ==
  ASSUME Followed, DraftIsSent, TextsAre, MaxTyped \in Nat, Step
  PROVE  TextsAre'
<1> USE DEF Followed
<1>0. /\ panel' = panel /\ PanelTypes /\ CallsOfPanel /\ Common(panel) /\ typed \in Nat
  <2>1. PanelTypes /\ Common(panel) /\ CallsOfPanel
    BY PanelsHaveInCommon DEF PanelTypes
  <2>2. typed \in 0..MaxTyped
    BY DEF PanelTypes
  <2> QED
    BY <2>1, <2>2, CallsStep
<1>1. \A t : OnItsWay(t) => OnItsWay(t)'
  BY OnItsWayStays
\* A step that leaves the typed texts keeps them if it keeps that of the form.
<1>2. ASSUME typed' = typed, thrown \subseteq thrown', during' = during,
             \A d \in 1..typed : d = form.draft =>
               \/ form'.draft = d \/ d \in thrown' \/ OnItsWay(d)'
               \/ (d \in during /\ panel.clears = "answered")
      PROVE  TextsAre'
  <2>1. ASSUME NEW t \in 1..typed
        PROVE  \/ t = form'.draft \/ t \in thrown' \/ OnItsWay(t)'
               \/ (t \in during' /\ panel'.clears = "answered")
    <3>1. \/ t = form.draft \/ t \in thrown \/ OnItsWay(t)
          \/ (t \in during /\ panel.clears = "answered")
      BY DEF TextsAre
    <3>2. CASE t = form.draft
      BY <1>0, <1>2, <3>2
    <3>3. CASE t # form.draft
      BY <1>0, <1>1, <1>2, <3>1, <3>3
    <3> QED
      BY <3>2, <3>3
  <2> QED
    BY <1>2, <2>1 DEF TextsAre, OnItsWay
<1>3. CASE W!Type
  <2>1. /\ typed' = typed + 1 /\ form'.draft = typed' /\ during \subseteq during'
        /\ thrown' = thrown \union ({form.draft} \ {0})
    BY <1>0, <1>3, TypeDoes
  <2>2. ASSUME NEW t \in 1..typed'
        PROVE  \/ t = form'.draft \/ t \in thrown' \/ OnItsWay(t)'
               \/ (t \in during' /\ panel'.clears = "answered")
    <3>1. CASE t \in 1..typed
      <4>1. \/ t = form.draft \/ t \in thrown \/ OnItsWay(t)
            \/ (t \in during /\ panel.clears = "answered")
        BY <3>1 DEF TextsAre
      <4>2. t # 0
        BY <3>1
      <4> QED
        BY <1>0, <1>1, <2>1, <4>1, <4>2
    <3>2. t \in 1..typed \/ t = typed'
      BY <1>0, <2>1
    <3> QED
      BY <2>1, <3>1, <3>2
  <2> QED
    BY <2>2 DEF TextsAre, OnItsWay
<1>4. CASE W!OpenForm
  BY <1>0, <1>2, <1>4, OpenDoes
<1>5. CASE W!CloseForm
  <2>1. form.draft \in 1..typed => form'.draft = form.draft \/ form.draft \in thrown'
    BY <1>0, <1>5, CloseDoes
  <2> QED
    BY <1>0, <1>2, <1>5, <2>1, CloseDoes
<1>6. CASE W!Submit
  <2>1. PICK n, c : Added(n, c) /\ c.text = form.draft
    BY <1>0, <1>6, SubmitDoes
  <2>2. typed' = typed /\ thrown' = thrown /\ during' = during
        /\ form'.draft = IF panel.clears = "sent" THEN 0 ELSE form.draft
    BY <1>0, <1>6, SubmitDoes
  <2>3. n \in DOMAIN calls' /\ calls'[n] = c
    BY <2>1 DEF Added
  <2>4. \A d : d = form.draft /\ panel.clears = "sent" => OnItsWay(d)'
    BY <1>0, <2>1, <2>3 DEF OnItsWay
  <2> QED
    BY <1>2, <2>2, <2>4
<1>7. CASE W!Choose
  <2>1. PICK n, c : Added(n, c) /\ c.text = typed'
    BY <1>0, <1>7, ChooseDoes
  <2>2. /\ panel.atOnce /\ typed' = typed + 1 /\ thrown' = thrown /\ during' = during /\ form' = form
    BY <1>0, <1>7, ChooseDoes
  <2>3. panel.clears = "sent"
    BY <1>0, <2>2 DEF Common
  <2>4. OnItsWay(typed)'
    BY <1>0, <2>1, <2>3 DEF OnItsWay, Added
  <2>5. ASSUME NEW t \in 1..typed'
        PROVE  \/ t = form'.draft \/ t \in thrown' \/ OnItsWay(t)'
               \/ (t \in during' /\ panel'.clears = "answered")
    <3>1. CASE t \in 1..typed
      <4>1. \/ t = form.draft \/ t \in thrown \/ OnItsWay(t)
            \/ (t \in during /\ panel.clears = "answered")
        BY <3>1 DEF TextsAre
      <4> QED
        BY <1>0, <1>1, <2>2, <4>1
    <3>2. t \in 1..typed \/ t = typed'
      BY <1>0, <2>2
    <3>3. CASE t = typed'
      BY <2>4, <3>3 DEF OnItsWay
    <3> QED
      BY <3>1, <3>2, <3>3
  <2> QED
    BY <2>5 DEF TextsAre, OnItsWay
<1>8. CASE W!Act
  BY <1>0, <1>2, <1>8, ActDoes
<1>9. ASSUME NEW i \in DOMAIN calls, W!Serve(i) \/ W!Schedule(i)
      PROVE  TextsAre'
  BY <1>2, <1>9 DEF W!Serve, W!Schedule
<1>10. ASSUME NEW i \in DOMAIN calls, FormSettled(i), Underway(calls[i]),
              NEW c, Moved(i, c), c.stage = "answered" \/ panel.settles,
              typed' = typed, thrown' = thrown, during' = during
       PROVE  TextsAre'
  <2>1. CASE form' = form
    BY <1>2, <1>10, <2>1
  <2>2. CASE /\ calls[i].op = panel.op
             /\ form'.draft = IF panel.clears = "answered" THEN 0 ELSE form.draft
    <3>1. CASE form.draft \in 1..typed /\ panel.clears = "answered" /\ ~(form.draft \in during)
      <4>1. calls[i].text = form.draft
        BY <1>10, <2>2, <3>1 DEF DraftIsSent
      <4>2. i \in DOMAIN calls' /\ calls'[i] = c /\ c.text = form.draft
        BY <1>10, <4>1 DEF Moved
      <4>3. \A d : d = form.draft => OnItsWay(d)'
        BY <1>0, <1>10, <4>2 DEF OnItsWay
      <4> QED
        BY <1>2, <1>10, <4>3
    <3>2. CASE ~(form.draft \in 1..typed /\ panel.clears = "answered" /\ ~(form.draft \in during))
      BY <1>2, <1>10, <2>2, <3>2
    <3> QED
      BY <3>1, <3>2
  <2> QED
    BY <1>10, <2>1, <2>2 DEF FormSettled
<1>11. ASSUME NEW i \in DOMAIN calls, W!Answer(i)
       PROVE  TextsAre'
  <2>1. PICK c : Moved(i, c) /\ c.stage = "answered"
    BY <1>0, <1>11, AnswerMoves
  <2>2. calls[i].stage = "done" /\ typed' = typed /\ thrown' = thrown /\ during' = during
    BY <1>0, <1>11, AnswerMoves
  <2>3. FormSettled(i)
    BY <1>0, <1>11, AnswerDoes
  <2>4. Underway(calls[i])
    BY <2>2 DEF Underway
  <2> QED
    BY <1>10, <2>1, <2>2, <2>3, <2>4
<1>12. ASSUME NEW i \in DOMAIN calls, W!Fail(i)
       PROVE  TextsAre'
  <2>1. PICK c : Moved(i, c)
    BY <1>0, <1>12, FailMoves
  <2>2. /\ calls[i].stage = "refused" \/ Underway(calls[i])
        /\ typed' = typed /\ thrown' = thrown /\ during' = during
    BY <1>0, <1>12, FailMoves
  <2>3. CASE form' = form
    BY <1>2, <2>2, <2>3
  <2>4. CASE panel.settles /\ FormSettled(i) /\ form' # form
    <3>1. calls[i].op = "make"
      BY <1>0, <2>4 DEF Common, FormSettled
    <3>2. Underway(calls[i])
      BY <1>0, <2>2, <3>1 DEF CallsOfPanel
    <3> QED
      BY <1>10, <2>1, <2>2, <2>4, <3>2
  <2> QED
    BY <1>0, <1>12, <2>3, <2>4, FailDoes
<1>13. CASE W!Refetch \/ W!Read \/ W!Fetched \/ W!FetchFails \/ W!Elsewhere
  BY <1>2, <1>13 DEF W!Refetch, W!Read, W!Fetched, W!FetchFails, W!Elsewhere
<1> QED
  BY <1>3, <1>4, <1>5, <1>6, <1>7, <1>8, <1>9, <1>11, <1>12, <1>13 DEF Step

LEMMA TextsAreThere ==
  ASSUME TextsAre
  PROVE  W!TextsKept
BY DEF TextsAre, OnItsWay, W!TextsKept

-------------------------------------------------------------------------------
\* The rows that are made.
LEMMA RowsMadeByCallsKept ==
  ASSUME Followed, RowsMadeByCalls, MaxTyped \in Nat, Step
  PROVE  RowsMadeByCalls'
<1> USE DEF Followed
<1>0. panel' = panel /\ PanelTypes /\ CallsOfPanel /\ 1 \in DOMAIN rows /\ rows \in Seq(Row)
  BY CallsStep DEF RowsServed, PanelTypes
<1>1. SUFFICES ASSUME panel.op = "make" PROVE RowsMadeByCalls'
  BY <1>0 DEF RowsMadeByCalls
\* A row whose text is an old row's, or nobody's, has its call as long as calls go on.
<1>2. ASSUME \A k \in DOMAIN rows' :
               (k \in DOMAIN rows /\ rows'[k].text = rows[k].text) \/ rows'[k].text = 0,
             \A i \in DOMAIN calls :
               calls[i].op = "make" /\ (Served(calls[i]) \/ calls[i].stage = "lost") =>
                 /\ i \in DOMAIN calls' /\ calls'[i].op = "make" /\ calls'[i].row = calls[i].row
                 /\ calls'[i].text = calls[i].text
                 /\ Served(calls'[i]) \/ calls'[i].stage = "lost"
      PROVE  RowsMadeByCalls'
  <2>1. ASSUME NEW k \in DOMAIN rows', rows'[k].text # 0
        PROVE  \E i \in DOMAIN calls' :
                 /\ calls'[i].op = "make" /\ calls'[i].row = k /\ calls'[i].text = rows'[k].text
                 /\ Served(calls'[i]) \/ calls'[i].stage = "lost"
    <3>1. k \in DOMAIN rows /\ rows'[k].text = rows[k].text
      BY <1>2, <2>1
    <3>2. PICK i \in DOMAIN calls :
            /\ calls[i].op = "make" /\ calls[i].row = k /\ calls[i].text = rows[k].text
            /\ Served(calls[i]) \/ calls[i].stage = "lost"
      BY <1>1, <2>1, <3>1 DEF RowsMadeByCalls
    <3> QED
      BY <1>2, <3>1, <3>2
  <2> QED
    BY <2>1 DEF RowsMadeByCalls, Served
<1>3. ASSUME rows' = rows, calls' = calls
      PROVE  RowsMadeByCalls'
  BY <1>2, <1>3
<1>4. ASSUME rows' = rows, NEW n, NEW c, Added(n, c)
      PROVE  RowsMadeByCalls'
  <2>1. \A i \in DOMAIN calls : i \in DOMAIN calls' /\ calls'[i] = calls[i]
    BY <1>4 DEF Added
  <2> QED
    BY <1>2, <1>4, <2>1
<1>5. ASSUME NEW i \in DOMAIN calls, NEW c, Moved(i, c),
             Served(calls[i]) => Served(c) \/ c.stage = "lost",
             calls[i].stage # "lost", Served(calls[i]) => c.row = calls[i].row
      PROVE  \A j \in DOMAIN calls :
               calls[j].op = "make" /\ (Served(calls[j]) \/ calls[j].stage = "lost") =>
                 /\ j \in DOMAIN calls' /\ calls'[j].op = "make" /\ calls'[j].row = calls[j].row
                 /\ calls'[j].text = calls[j].text
                 /\ Served(calls'[j]) \/ calls'[j].stage = "lost"
  <2>1. TAKE j \in DOMAIN calls
  <2>2. CASE j = i
    BY <1>5, <2>2 DEF Moved
  <2>3. CASE j # i
    BY <1>5, <2>3 DEF Moved
  <2> QED
    BY <2>2, <2>3
<1>6. ASSUME NEW i \in DOMAIN calls, W!Serve(i)
      PROVE  RowsMadeByCalls'
  <2>1. PICK c : Moved(i, c) /\ ServedAs(i, c)
    BY <1>0, <1>6, ServeMoves
  <2>2. calls[i].stage = "sent" /\ ~Served(calls[i])
    BY <1>0, <1>6, ServeMoves DEF Served
  <2>3. \A j \in DOMAIN calls :
          calls[j].op = "make" /\ (Served(calls[j]) \/ calls[j].stage = "lost") =>
            /\ j \in DOMAIN calls' /\ calls'[j].op = "make" /\ calls'[j].row = calls[j].row
            /\ calls'[j].text = calls[j].text
            /\ Served(calls'[j]) \/ calls'[j].stage = "lost"
    BY <1>5, <2>1, <2>2
  <2>4. CASE c.op = "make" /\ c.stage \in {"half", "done"} /\ RowMade(c.row, c.text)
    <3>1. i \in DOMAIN calls' /\ calls'[i] = c /\ Served(c)
      BY <2>1, <2>4 DEF Moved, Served
    <3>2. ASSUME NEW k \in DOMAIN rows', rows'[k].text # 0
          PROVE  \E j \in DOMAIN calls' :
                   /\ calls'[j].op = "make" /\ calls'[j].row = k /\ calls'[j].text = rows'[k].text
                   /\ Served(calls'[j]) \/ calls'[j].stage = "lost"
      <4>1. CASE k = c.row
        BY <2>4, <3>1, <4>1 DEF RowMade
      <4>2. CASE k \in DOMAIN rows
        <5>1. rows'[k] = rows[k]
          BY <2>4, <4>2 DEF RowMade
        <5>2. PICK j \in DOMAIN calls :
                /\ calls[j].op = "make" /\ calls[j].row = k /\ calls[j].text = rows[k].text
                /\ Served(calls[j]) \/ calls[j].stage = "lost"
          BY <1>1, <3>2, <4>2, <5>1 DEF RowsMadeByCalls
        <5> QED
          BY <2>3, <5>1, <5>2
      <4> QED
        BY <2>4, <4>1, <4>2 DEF RowMade
    <3> QED
      BY <3>2 DEF RowsMadeByCalls, Served
  <2>5. CASE \E r : RowSet(c.row, r) /\ r.text = rows[c.row].text
    BY <1>2, <2>3, <2>5 DEF RowSet
  <2>6. CASE rows' = rows
    BY <1>2, <2>3, <2>6
  <2>7. c.op # "change"
    BY <1>1, <2>1 DEF Moved, CallsOfPanel
  <2> QED
    BY <2>1, <2>4, <2>5, <2>6, <2>7 DEF ServedAs
<1>7. ASSUME NEW i \in DOMAIN calls, W!Schedule(i)
      PROVE  RowsMadeByCalls'
  <2>1. PICK c : Moved(i, c) /\ c.stage = "done" /\ c.row = calls[i].row
    BY <1>0, <1>7, ScheduleMoves
  <2>2. PICK r : RowSet(calls[i].row, r) /\ r.text = rows[calls[i].row].text
    BY <1>0, <1>7, ScheduleMoves
  <2>3. Served(c) /\ calls[i].stage # "lost"
    BY <1>0, <1>7, <2>1, ScheduleMoves DEF Served
  <2>4. \A k \in DOMAIN rows' : k \in DOMAIN rows /\ rows'[k].text = rows[k].text
    BY <2>2 DEF RowSet
  <2> QED
    BY <1>2, <1>5, <2>1, <2>3, <2>4
<1>8. ASSUME NEW i \in DOMAIN calls, W!Answer(i)
      PROVE  RowsMadeByCalls'
  <2>1. PICK c : Moved(i, c) /\ c.stage = "answered" /\ c.row = calls[i].row
    BY <1>0, <1>8, AnswerMoves
  <2>2. Served(c) /\ calls[i].stage # "lost" /\ rows' = rows
    BY <1>0, <1>8, <2>1, AnswerMoves DEF Served
  <2> QED
    BY <1>2, <1>5, <2>1, <2>2
<1>9. ASSUME NEW i \in DOMAIN calls, W!Fail(i)
      PROVE  RowsMadeByCalls'
  <2>1. PICK c : /\ Moved(i, c) /\ c.row = calls[i].row
                 /\ c.stage = IF calls[i].stage \in {"done", "half"} THEN "lost" ELSE "failed"
    BY <1>0, <1>9, FailMoves
  <2>2. (calls[i].stage = "refused" \/ Underway(calls[i])) /\ rows' = rows
    BY <1>0, <1>9, FailMoves
  <2>3. calls[i].stage # "lost" /\ (Served(calls[i]) => c.stage = "lost")
    BY <2>1, <2>2 DEF Underway, Served
  <2> QED
    BY <1>2, <1>5, <2>1, <2>2, <2>3
<1>10. CASE W!Type \/ W!OpenForm \/ W!CloseForm \/ W!Refetch \/ W!Read \/ W!Fetched \/ W!FetchFails
  BY <1>3, <1>10 DEF W!Type, W!OpenForm, W!CloseForm, W!Refetch, W!Read, W!Fetched, W!FetchFails
<1>11. CASE W!Submit \/ W!Choose \/ W!Act
  <2>1. \E n, c : Added(n, c) /\ rows' = rows
    BY <1>0, <1>11, SubmitDoes, ChooseDoes, ActDoes
  <2> QED
    BY <1>4, <2>1
<1>12. CASE W!Elsewhere
  <2>1. calls' = calls
    BY <1>12 DEF W!Elsewhere
  <2>2. \A k \in DOMAIN rows' : (k \in DOMAIN rows /\ rows'[k].text = rows[k].text) \/ rows'[k].text = 0
    BY <1>0, <1>12, ElsewhereDoes
  <2> QED
    BY <1>2, <2>1, <2>2
<1> QED
  BY <1>6, <1>7, <1>8, <1>9, <1>10, <1>11, <1>12 DEF Step

LEMMA ExcusedStays ==
  ASSUME Followed, MaxTyped \in Nat, Step, NEW t, Excused(t)
  PROVE  Excused(t)'
<1>1. PICK i \in DOMAIN calls :
        /\ calls[i].op = "make" /\ calls[i].text = t
        /\ calls[i].stage = "lost" \/ ("make" \notin panel.guards /\ calls[i].crowded)
  BY DEF Excused
<1>2. panel' = panel
  BY CallsStep
<1>3. CASE calls' = calls
  BY <1>1, <1>2, <1>3 DEF Excused
<1>4. ASSUME NEW n, NEW c, Added(n, c)
      PROVE  Excused(t)'
  <2>1. i \in DOMAIN calls' /\ calls'[i] = calls[i]
    BY <1>4 DEF Added
  <2> QED
    BY <1>1, <1>2, <2>1 DEF Excused
<1>5. ASSUME NEW j \in DOMAIN calls, NEW c, Advances(j, c)
      PROVE  Excused(t)'
  <2>1. /\ i \in DOMAIN calls' /\ calls'[i].op = calls[i].op /\ calls'[i].text = calls[i].text
        /\ calls'[i].crowded <=> calls[i].crowded
    BY <1>5 DEF Advances, Moved
  <2>2. calls[i].stage = "lost" => calls'[i] = calls[i]
    BY <1>5 DEF Advances, Moved, Underway
  <2> QED
    BY <1>1, <1>2, <2>1, <2>2 DEF Excused
<1> QED
  BY <1>3, <1>4, <1>5, CallsStep

LEMMA SentOnceKept ==
  ASSUME Followed, SentOnce, MaxTyped \in Nat, Step
  PROVE  SentOnce'
<1> USE DEF Followed
<1>0. /\ panel' = panel /\ PanelTypes /\ CallsOfPanel /\ Common(panel) /\ typed \in Nat
      /\ form.draft \in Nat
  <2>1. PanelTypes /\ Common(panel) /\ CallsOfPanel
    BY PanelsHaveInCommon DEF PanelTypes
  <2>2. typed \in 0..MaxTyped /\ form \in Form
    BY DEF PanelTypes
  <2> QED
    BY <2>1, <2>2, CallsStep DEF Form
<1>1. SUFFICES ASSUME Clearing PROVE SentOnce'
  BY <1>0 DEF SentOnce, Clearing
<1>2. \A t : Excused(t) => Excused(t)'
  BY ExcusedStays
<1>3. /\ panel.op = "make" /\ (panel.clears \in {"sent", "answered"} \/ panel.reveals)
      /\ panel.reveals => panel.clears = "sent" \/ (panel.clears = "closed" /\ panel.dialog)
      /\ panel.settles => panel.clears = "answered"
  BY <1>0, <1>1 DEF Clearing, Common
<1>4. \A i \in DOMAIN calls :
        /\ calls[i].op = "make" => calls[i].text \in 1..typed
        /\ i \in Nat
  BY <1>0 DEF TextsInOrder, PanelTypes
\* The three parts, for the texts as they are.
<1>5. ASSUME
        \A i, j \in DOMAIN calls' : \A t :
             i < j /\ calls'[i].op = "make" /\ calls'[j].op = "make" /\ calls'[i].text = t
               /\ calls'[j].text = t => calls'[i].stage = "failed" \/ Excused(t)',
        \A i \in DOMAIN calls' : \A t :
             calls'[i].op = "make" /\ calls'[i].stage = "answered" /\ calls'[i].text = t
               /\ form'.draft = t =>
               Excused(t)' \/ (panel.reveals /\ panel.clears = "closed" /\ form'.secret # 0),
        panel.clears = "sent" =>
             \A i \in DOMAIN calls' : calls'[i].op = "make" => calls'[i].text # form'.draft
      PROVE  SentOnce'
  BY <1>0, <1>5 DEF SentOnce, Excused
<1>6. /\ \A i, j \in DOMAIN calls : \A t :
           i < j /\ calls[i].op = "make" /\ calls[j].op = "make" /\ calls[i].text = t
             /\ calls[j].text = t => calls[i].stage = "failed" \/ Excused(t)
      /\ \A i \in DOMAIN calls : \A t :
           calls[i].op = "make" /\ calls[i].stage = "answered" /\ calls[i].text = t
             /\ form.draft = t =>
             Excused(t) \/ (panel.reveals /\ panel.clears = "closed" /\ form.secret # 0)
      /\ panel.clears = "sent" =>
           \A i \in DOMAIN calls : calls[i].op = "make" => calls[i].text # form.draft
  BY <1>1 DEF SentOnce
<1>7. CASE W!Type
  <2>1. calls' = calls /\ typed' = typed + 1 /\ form'.draft = typed'
    BY <1>0, <1>7, TypeDoes
  <2>2. \A i \in DOMAIN calls : calls[i].op = "make" => calls[i].text # form'.draft
    BY <1>0, <1>4, <2>1
  <2> QED
    BY <1>2, <1>5, <1>6, <2>1, <2>2
<1>8. ASSUME calls' = calls,
             \/ form'.draft = form.draft
                /\ (form'.secret = form.secret \/ ~panel.reveals \/ panel.clears # "closed")
             \/ form'.draft = 0
      PROVE  SentOnce'
  <2>1. \A i \in DOMAIN calls : calls[i].op = "make" => calls[i].text # 0
    BY <1>0, <1>4
  <2> QED
    BY <1>2, <1>5, <1>6, <1>8, <2>1
<1>9. CASE W!OpenForm
  BY <1>0, <1>8, <1>9, OpenDoes
<1>10. CASE W!CloseForm
  BY <1>0, <1>3, <1>8, <1>10, CloseDoes
<1>11. ASSUME NEW n, NEW c, Added(n, c), form'.secret = form.secret,
              form'.draft = form.draft \/ form'.draft = 0,
              c.op = "make" =>
                /\ c.text # 0 /\ (panel.clears = "sent" => form'.draft = 0)
                /\ \A i \in DOMAIN calls : \A t :
                     calls[i].op = "make" /\ calls[i].text = t /\ c.text = t =>
                       calls[i].stage = "failed" \/ Excused(t)'
       PROVE  SentOnce'
  <2>1. /\ DOMAIN calls' = DOMAIN calls \union {n} /\ calls'[n] = c /\ c.stage = "sent" /\ n \in Nat
        /\ \A i \in DOMAIN calls : i < n /\ calls'[i] = calls[i]
    BY <1>11 DEF Added
  <2>2. ASSUME NEW i \in DOMAIN calls', NEW j \in DOMAIN calls', NEW t, i < j,
               calls'[i].op = "make", calls'[j].op = "make", calls'[i].text = t, calls'[j].text = t
        PROVE  calls'[i].stage = "failed" \/ Excused(t)'
    <3>1. i \in DOMAIN calls
      BY <1>4, <2>1, <2>2
    <3>2. CASE j = n
      BY <1>11, <2>1, <2>2, <3>1, <3>2
    <3>3. CASE j \in DOMAIN calls
      BY <1>2, <1>6, <2>1, <2>2, <3>1, <3>3
    <3> QED
      BY <2>1, <3>2, <3>3
  <2>3. ASSUME NEW i \in DOMAIN calls', NEW t, calls'[i].op = "make", calls'[i].stage = "answered",
               calls'[i].text = t, form'.draft = t
        PROVE  Excused(t)' \/ (panel.reveals /\ panel.clears = "closed" /\ form'.secret # 0)
    <3>1. i \in DOMAIN calls /\ calls'[i] = calls[i]
      BY <2>1, <2>3
    <3>2. t # 0
      BY <1>4, <2>3, <3>1
    <3> QED
      BY <1>2, <1>6, <1>11, <2>3, <3>1, <3>2
  <2>4. ASSUME panel.clears = "sent", NEW i \in DOMAIN calls', calls'[i].op = "make"
        PROVE  calls'[i].text # form'.draft
    <3>1. CASE i = n
      BY <1>11, <2>1, <2>4, <3>1
    <3>2. CASE i \in DOMAIN calls
      <4>1. calls'[i].text # 0 /\ calls'[i].text # form.draft
        BY <1>4, <1>6, <2>1, <2>4, <3>2
      <4> QED
        BY <1>11, <4>1
    <3> QED
      BY <2>1, <3>1, <3>2
  <2> QED
    BY <1>5, <2>2, <2>3, <2>4
<1>12. CASE W!Submit
  <2>1. PICK n, c : Added(n, c) /\ c.op = panel.op /\ c.text = form.draft
    BY <1>0, <1>12, SubmitDoes
  <2>2. /\ form.secret = 0 /\ form.draft # 0 /\ form'.secret = form.secret
        /\ form'.draft = IF panel.clears = "sent" THEN 0 ELSE form.draft
    BY <1>0, <1>12, SubmitDoes
  <2>3. n \in DOMAIN calls' /\ calls'[n] = c
    BY <2>1 DEF Added
  <2>4. ASSUME NEW i \in DOMAIN calls, NEW t, calls[i].op = "make", calls[i].text = t, c.text = t
        PROVE  calls[i].stage = "failed" \/ Excused(t)'
    <3>1. CASE Underway(calls[i])
      <4>1. c.crowded /\ "make" \notin panel.guards
        BY <1>3, <2>1, <2>4, <3>1 DEF Added
      <4> QED
        BY <1>0, <1>3, <2>1, <2>3, <2>4, <4>1 DEF Excused
    <3>2. CASE calls[i].stage = "answered"
      BY <1>2, <1>6, <2>1, <2>2, <2>4, <3>2
    <3>3. CASE calls[i].stage = "lost"
      <4>1. Excused(t)
        BY <2>4, <3>3 DEF Excused
      <4> QED
        BY <1>2, <4>1
    <3>4. calls[i].stage # "refused"
      BY <1>0, <2>4 DEF CallsOfPanel
    <3>5. calls[i] \in Calls
      BY <1>0 DEF PanelTypes
    <3>6. calls[i].stage \in Stages
      BY <3>5 DEF Calls
    <3> QED
      BY <3>1, <3>2, <3>3, <3>4, <3>6 DEF Stages, Underway
  <2>5. form'.draft = form.draft \/ form'.draft = 0
    BY <2>2
  <2> QED
    BY <1>11, <2>1, <2>2, <2>4, <2>5
<1>13. CASE W!Choose
  <2>1. PICK n, c : Added(n, c) /\ c.text = typed'
    BY <1>0, <1>13, ChooseDoes
  <2>2. panel.atOnce /\ typed' = typed + 1 /\ form' = form
    BY <1>0, <1>13, ChooseDoes
  <2>3. form.draft = 0
    BY <2>2 DEF TextsInOrder
  <2>4. \A i \in DOMAIN calls : calls[i].op = "make" => calls[i].text # c.text
    BY <1>0, <1>4, <2>1, <2>2
  <2>5. c.text # 0
    BY <1>0, <2>1, <2>2
  <2> QED
    BY <1>11, <2>1, <2>2, <2>3, <2>4, <2>5
<1>14. CASE W!Act
  <2>1. PICK n, c : Added(n, c) /\ c.op = "close"
    BY <1>0, <1>14, ActDoes
  <2>2. form' = form
    BY <1>0, <1>14, ActDoes
  <2> QED
    BY <1>11, <2>1, <2>2
\* A call that moves, and the form with it.
<1>15. ASSUME NEW i \in DOMAIN calls, NEW c, Advances(i, c),
              form'.draft = form.draft \/ form'.draft = 0,
              \A j \in DOMAIN calls : \A t :
                calls[j].op = "make" /\ calls'[j].stage = "answered" /\ calls[j].text = t
                  /\ form'.draft = t =>
                  Excused(t)' \/ (panel.reveals /\ panel.clears = "closed" /\ form'.secret # 0)
       PROVE  SentOnce'
  <2>1. DOMAIN calls' = DOMAIN calls
    BY <1>15 DEF Advances, Moved
  <2>2. ASSUME NEW j \in DOMAIN calls
        PROVE  /\ calls'[j].op = calls[j].op /\ calls'[j].text = calls[j].text
               /\ calls[j].stage = "failed" => calls'[j].stage = "failed"
    BY <1>15 DEF Advances, Moved, Underway
  <2>3. ASSUME NEW j \in DOMAIN calls, NEW k \in DOMAIN calls, NEW t, j < k,
               calls'[j].op = "make", calls'[k].op = "make", calls'[j].text = t, calls'[k].text = t
        PROVE  calls'[j].stage = "failed" \/ Excused(t)'
    <3>1. calls[j].op = "make" /\ calls[k].op = "make" /\ calls[j].text = t /\ calls[k].text = t
      BY <2>2, <2>3
    <3>2. calls[j].stage = "failed" \/ Excused(t)
      BY <1>6, <2>3, <3>1
    <3> QED
      BY <1>2, <2>2, <3>2
  <2>4. ASSUME panel.clears = "sent", NEW j \in DOMAIN calls, calls'[j].op = "make"
        PROVE  calls'[j].text # form'.draft
    <3>1. calls[j].text # 0 /\ calls[j].text # form.draft
      BY <1>4, <1>6, <2>2, <2>4
    <3> QED
      BY <1>15, <2>2, <3>1
  <2>5. ASSUME NEW j \in DOMAIN calls, NEW t, calls'[j].op = "make", calls'[j].stage = "answered",
               calls'[j].text = t, form'.draft = t
        PROVE  Excused(t)' \/ (panel.reveals /\ panel.clears = "closed" /\ form'.secret # 0)
    BY <1>15, <2>2, <2>5
  <2> QED
    BY <1>5, <2>1, <2>3, <2>4, <2>5
<1>16. ASSUME NEW j \in DOMAIN calls, NEW t, calls[j].op = "make", calls[j].stage = "answered",
              calls[j].text = t, form'.draft = t,
              form'.draft = form.draft \/ form'.draft = 0,
              panel.reveals /\ panel.clears = "closed" /\ form.secret # 0 => form'.secret # 0
       PROVE  Excused(t)' \/ (panel.reveals /\ panel.clears = "closed" /\ form'.secret # 0)
  <2>1. t # 0
    BY <1>4, <1>16
  <2> QED
    BY <1>2, <1>6, <1>16, <2>1
<1>17. ASSUME NEW i \in DOMAIN calls, W!Serve(i) \/ W!Schedule(i) \/ W!Fail(i)
       PROVE  SentOnce'
  <2>1. PICK c : Advances(i, c)
    BY <1>17, CallsAdvance
  <2>2. form' = form \/ (panel.settles /\ FormSettled(i))
    BY <1>0, <1>17, FailDoes DEF W!Serve, W!Schedule
  <2>3. form'.draft = form.draft \/ form'.draft = 0
    BY <2>2 DEF FormSettled
  <2>4. panel.reveals /\ panel.clears = "closed" /\ form.secret # 0 => form'.secret # 0
    BY <1>3, <2>2
  <2>5. \A j \in DOMAIN calls : calls'[j].stage = "answered" => calls[j].stage = "answered"
    <3>1. PICK d : Moved(i, d) /\ d.stage # "answered"
      <4>1. W!Serve(i) => \E d : Moved(i, d) /\ d.stage # "answered"
        BY <1>0, ServeMoves DEF ServedAs, RowsServed
      <4>2. W!Schedule(i) => \E d : Moved(i, d) /\ d.stage # "answered"
        BY <1>0, ScheduleMoves
      <4>3. W!Fail(i) => \E d : Moved(i, d) /\ d.stage # "answered"
        BY <1>0, FailMoves
      <4> QED
        BY <1>17, <4>1, <4>2, <4>3
    <3> QED
      BY <3>1 DEF Moved
  <2> QED
    BY <1>15, <1>16, <2>1, <2>3, <2>4, <2>5
<1>18. ASSUME NEW i \in DOMAIN calls, W!Answer(i)
       PROVE  SentOnce'
  <2>1. PICK c : Advances(i, c)
    BY <1>18, CallsAdvance
  <2>2. calls[i].stage = "done"
    BY <1>0, <1>18, AnswerMoves
  <2>3. calls[i].row # 0
    <3>1. calls[i].row \in DOMAIN rows
      BY <1>0, <2>2 DEF CallsOfPanel, Served
    <3> QED
      BY <1>0, <3>1 DEF PanelTypes
  <2>4. \A j \in DOMAIN calls : j # i => calls'[j] = calls[j]
    BY <2>1 DEF Advances, Moved
  <2>5. CASE form' = form /\ (calls[i].op # "make" \/ Late(i))
    <3>1. ASSUME NEW j \in DOMAIN calls, NEW t, calls[j].op = "make", calls'[j].stage = "answered",
                 calls[j].text = t, form'.draft = t
          PROVE  Excused(t)' \/ (panel.reveals /\ panel.clears = "closed" /\ form'.secret # 0)
      <4>1. CASE j # i
        BY <1>16, <2>4, <2>5, <3>1, <4>1
      <4>2. CASE j = i
        <5>1. PICK k \in DOMAIN calls : k > i /\ calls[k].op = "make"
          BY <2>5, <3>1, <4>2 DEF Late
        <5>2. i < k
          BY <1>4, <5>1
        <5>3. calls[i].text <= calls[k].text /\ calls[k].text <= form.draft
              /\ calls[i].text \in Nat /\ calls[k].text \in Nat
          <6>1. calls[i].text \in 1..typed /\ calls[k].text \in 1..typed
            BY <1>4, <3>1, <4>2, <5>1
          <6>2. form.draft # 0
            BY <2>5, <3>1, <4>2, <6>1
          <6>3. calls[i].text <= calls[k].text
            BY <3>1, <4>2, <5>1, <5>2 DEF TextsInOrder
          <6>4. calls[k].text <= form.draft
            BY <5>1, <6>2 DEF TextsInOrder
          <6> QED
            BY <6>1, <6>3, <6>4
        <5>4. calls[k].text = t
          BY <1>0, <2>5, <3>1, <4>2, <5>3
        <5>5. Excused(t)
          BY <1>6, <2>2, <3>1, <4>2, <5>1, <5>2, <5>4
        <5> QED
          BY <1>2, <5>5
      <4> QED
        BY <4>1, <4>2
    <3> QED
      BY <1>15, <2>1, <2>5, <3>1
  <2>6. CASE /\ calls[i].op = "make"
             /\ form'.draft = IF panel.clears = "answered" THEN 0 ELSE form.draft
             /\ form'.secret = IF panel.reveals THEN calls[i].row ELSE form.secret
    <3>1. ASSUME NEW j \in DOMAIN calls, NEW t, calls[j].op = "make", calls'[j].stage = "answered",
                 calls[j].text = t, form'.draft = t
          PROVE  Excused(t)' \/ (panel.reveals /\ panel.clears = "closed" /\ form'.secret # 0)
      <4>1. t # 0
        BY <1>4, <3>1
      <4>2. panel.clears # "answered"
        BY <2>6, <3>1, <4>1
      <4>3. panel.clears # "sent"
        BY <1>6, <2>6, <3>1, <4>2
      <4> QED
        BY <1>3, <2>3, <2>6, <4>2, <4>3
    <3>2. form'.draft = form.draft \/ form'.draft = 0
      BY <2>6
    <3> QED
      BY <1>15, <2>1, <3>1, <3>2
  <2>7. FormSettled(i)
    BY <1>0, <1>18, AnswerDoes
  <2> QED
    BY <1>3, <2>5, <2>6, <2>7 DEF FormSettled
<1>19. CASE W!Refetch \/ W!Read \/ W!Fetched \/ W!FetchFails \/ W!Elsewhere
  BY <1>8, <1>19 DEF W!Refetch, W!Read, W!Fetched, W!FetchFails, W!Elsewhere
<1> QED
  BY <1>7, <1>9, <1>10, <1>12, <1>13, <1>14, <1>17, <1>18, <1>19 DEF Step

LEMMA MadeTwice ==
  ASSUME Followed, RowsMadeByCalls, SentOnce
  PROVE  W!MadeOnce
<1> USE DEF Followed
<1>1. rows \in Seq(Row) /\ calls \in Seq(Calls)
  BY DEF PanelTypes
<1>2. SUFFICES ASSUME NEW t \in 1..typed, panel.op = "make", ~Excused(t), Clearing,
                      Cardinality({k \in DOMAIN rows : rows[k].text = t}) > 1
               PROVE  FALSE
  BY DEF W!MadeOnce, Excused, Clearing, Cardinality, W!Cardinality
<1>3. PICK made : made = {k \in DOMAIN rows : rows[k].text = t}
  OBVIOUS
<1>4. t # 0
  BY DEF PanelTypes
<1>5. \E k, l \in made : k # l
  <2>1. SUFFICES ASSUME \A k, l \in made : k = l PROVE FALSE
    OBVIOUS
  <2>2. CASE made = {}
    BY <1>2, <1>3, <2>2, FS_EmptySet
  <2>3. ASSUME NEW k \in made
        PROVE  FALSE
    <3>1. made = {k}
      BY <2>1, <2>3
    <3>2. Cardinality(made) = 1
      BY <3>1, FS_Singleton
    <3> QED
      BY <1>2, <1>3, <3>2
  <2> QED
    BY <2>2, <2>3
<1>6. PICK k \in made, l \in made : k # l
  BY <1>5
<1>7. PICK i \in DOMAIN calls :
        /\ calls[i].op = "make" /\ calls[i].row = k /\ calls[i].text = t
        /\ Served(calls[i]) \/ calls[i].stage = "lost"
  BY <1>2, <1>3, <1>4, <1>6 DEF RowsMadeByCalls
<1>8. PICK j \in DOMAIN calls :
        /\ calls[j].op = "make" /\ calls[j].row = l /\ calls[j].text = t
        /\ Served(calls[j]) \/ calls[j].stage = "lost"
  BY <1>2, <1>3, <1>4, <1>6 DEF RowsMadeByCalls
<1>9. i < j \/ j < i
  <2>1. i \in Nat /\ j \in Nat /\ i # j
    BY <1>1, <1>6, <1>7, <1>8
  <2> QED
    BY <2>1
<1>10. calls[i].stage # "failed" /\ calls[j].stage # "failed"
  BY <1>7, <1>8 DEF Served
<1> QED
  BY <1>2, <1>7, <1>8, <1>9, <1>10 DEF SentOnce

-------------------------------------------------------------------------------
PanelsInv ==
  /\ Followed /\ AnswersListed /\ LastServed /\ SecretsSeen
  /\ DraftIsSent /\ TextsAre /\ RowsMadeByCalls /\ SentOnce

LEMMA PanelsStart ==
  ASSUME MaxTyped \in Nat, W!Init
  PROVE  PanelsInv
<1>1. /\ panel \in W!AllPanels /\ Common(panel) /\ calls = << >> /\ typed = 0
      /\ rows = <<[text |-> 0, open |-> TRUE, at |-> 0, whole |-> TRUE]>>
  BY PanelsHaveInCommon DEF W!Init
<1>2. /\ 1 \in DOMAIN rows /\ rows \in Seq(Row) /\ calls \in Seq(Calls) /\ DOMAIN calls = {}
      /\ \A k \in DOMAIN rows : rows[k].text = 0
  <2>1. PICK r : r = [text |-> 0, open |-> TRUE, at |-> 0, whole |-> TRUE]
    OBVIOUS
  <2>2. r \in Row /\ r.text = 0
    BY <2>1 DEF Row
  <2>3. rows = <<r>>
    BY <1>1, <2>1
  <2>4. rows \in Seq(Row) /\ DOMAIN rows = {1} /\ rows[1] = r
    BY <2>2, <2>3
  <2>5. calls \in Seq(Calls) /\ DOMAIN calls = {}
    BY <1>1
  <2> QED
    BY <2>2, <2>4, <2>5
<1>3. list = [known |-> panel.local, failed |-> FALSE, rows |-> << >>] /\ panel.local \in BOOLEAN
  BY <1>1 DEF W!Init, Common
<1>4. \/ panel.lists /\ fetch = [stage |-> "asked", rows |-> << >>]
      \/ ~panel.lists /\ fetch = [stage |-> "none", rows |-> << >>]
  BY DEF W!Init, W!Asked, W!Idle
<1>5. /\ form \in Form /\ form.secret = 0 /\ form.draft \in {0, MaxTyped + 1}
      /\ form.draft # 0 => panel.seeds
  <2>1. PICK d \in {0, MaxTyped + 1} : d = IF panel.seeds THEN MaxTyped + 1 ELSE 0
    OBVIOUS
  <2>2. PICK o \in BOOLEAN : o = ~panel.dialog
    OBVIOUS
  <2>3. form = [open |-> o, secret |-> 0, draft |-> d]
    BY <2>1, <2>2 DEF W!Init, W!Defaults
  <2>4. d \in Nat
    OBVIOUS
  <2> QED
    BY <2>1, <2>3, <2>4 DEF Form
<1>6. PanelTypes
  <2>1. \E r : \E k, f \in BOOLEAN : list = [known |-> k, failed |-> f, rows |-> r]
    BY <1>3
  <2>2. \E r : \E s \in {"none", "asked", "read"} : fetch = [stage |-> s, rows |-> r]
    BY <1>4
  <2>3. typed \in 0..MaxTyped
    BY <1>1
  <2> QED
    BY <1>1, <1>2, <1>5, <2>1, <2>2, <2>3 DEF PanelTypes
<1>7. CallsOfPanel /\ CallsQueue
  BY <1>2 DEF CallsOfPanel, CallsQueue
<1>8. TextsInOrder
  BY <1>1, <1>2, <1>5 DEF TextsInOrder, Common
<1>9. RowsServed /\ AnswersListed
  BY <1>2, <1>3, <1>4 DEF RowsServed, AnswersListed
<1>10. LastServed /\ SecretsSeen /\ SentOnce
  BY <1>2, <1>5 DEF LastServed, SecretsSeen, SentOnce
<1>11. DraftIsSent /\ TextsAre /\ RowsMadeByCalls
  BY <1>1, <1>2 DEF DraftIsSent, TextsAre, RowsMadeByCalls
<1> QED
  BY <1>6, <1>7, <1>8, <1>9, <1>10, <1>11 DEF PanelsInv, Followed

LEMMA PanelsStep ==
  ASSUME MaxTyped \in Nat, PanelsInv, W!Next \/ UNCHANGED W!vars
  PROVE  PanelsInv'
<1>1. CASE UNCHANGED W!vars
  <2>1. UNCHANGED <<panel, rows, list, fetch, form, calls, typed, thrown, during, seen>>
    BY <1>1 DEF W!vars
  <2>2. PanelTypes' /\ CallsOfPanel'
    BY <2>1 DEF PanelsInv, Followed, PanelTypes, CallsOfPanel, Served
  <2>3. CallsQueue' /\ TextsInOrder' /\ RowsServed'
    BY <2>1 DEF PanelsInv, Followed, CallsQueue, TextsInOrder, RowsServed, Underway, Served, Shows
  <2>4. AnswersListed' /\ LastServed'
    BY <2>1 DEF PanelsInv, AnswersListed, LastServed, Served, Shows
  <2>5. SecretsSeen' /\ DraftIsSent'
    BY <2>1 DEF PanelsInv, SecretsSeen, DraftIsSent, Underway, Late
  <2>6. TextsAre' /\ RowsMadeByCalls'
    BY <2>1 DEF PanelsInv, TextsAre, OnItsWay, RowsMadeByCalls, Served
  <2>7. SentOnce'
    BY <2>1 DEF PanelsInv, SentOnce, Clearing, Excused
  <2> QED
    BY <2>2, <2>3, <2>4, <2>5, <2>6, <2>7 DEF PanelsInv, Followed
<1>2. CASE Step
  <2>1. Followed'
    BY <1>2, TypesKept, CallsOfPanelKept, CallsQueueKept, TextsInOrderKept, RowsServedKept
    DEF PanelsInv, Followed
  <2>2. AnswersListed' /\ LastServed' /\ SecretsSeen'
    BY <1>2, AnswersListedKept, LastServedKept, SecretsSeenKept DEF PanelsInv
  <2>3. DraftIsSent' /\ TextsAre' /\ RowsMadeByCalls' /\ SentOnce'
    BY <1>2, DraftIsSentKept, TextsAreKept, RowsMadeByCallsKept, SentOnceKept DEF PanelsInv
  <2> QED
    BY <2>1, <2>2, <2>3 DEF PanelsInv
<1> QED
  BY <1>1, <1>2 DEF W!Next, Step

\* Of every panel of the web client, for any number of texts, requests and failures: an
\* answer is in the list that is shown, a text that was typed is not lost, one text makes
\* one row, the last choice stands, and a secret that is answered is shown, but for the
\* cases the definitions name (useMutation, invalidateQueries and the panels' handlers).
THEOREM PanelsKeepTheirWord ==
  ASSUME MaxTyped \in Nat
  PROVE  W!Spec => [](/\ W!ListIsCurrent /\ W!TextsKept /\ W!MadeOnce /\ W!LastChoiceStands
                      /\ W!SecretsShown)
<1>1. W!Init => PanelsInv
  BY PanelsStart
<1>2. PanelsInv /\ [W!Next]_W!vars => PanelsInv'
  BY PanelsStep
<1>3. PanelsInv => /\ W!ListIsCurrent /\ W!TextsKept /\ W!MadeOnce /\ W!LastChoiceStands
                   /\ W!SecretsShown
  BY ListCurrent, TextsAreThere, MadeTwice, LastStands, SecretsAreShown DEF PanelsInv
<1> QED
  BY <1>1, <1>2, <1>3, PTL DEF W!Spec
===============================================================================
