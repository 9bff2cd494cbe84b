----------------------------- MODULE WorkersProofs ----------------------------
(***************************************************************************)
(* Theorems about the workers: the leased queues and an agent's limits, for*)
(* every set of jobs, runs and processes and every limit, the automation   *)
(* triggers, for every set of runs, triggers and objects and every         *)
(* interval, and the types of them all.                                    *)
(*                                                                         *)
(* The promises (OneClaimant, EffectsPaidFor, TriesBounded, OutcomeTrue,   *)
(* FiringsPaidFor) count what has happened, and say nothing of what the    *)
(* runs at work may still do.  The inductive invariants add the chances:   *)
(* who may still take effect for a job without a further mishap, and how   *)
(* often it may still be claimed by each of them; who may still fire a     *)
(* trigger, and whether its next firing may come early.                    *)
(***************************************************************************)
EXTENDS MCWorkers, FiniteSetTheorems, TLAPS

-------------------------------------------------------------------------------
\* The leased queues and the limits.

Row == [job : Job, at : Nat, attempts : Nat]
Hopeful == {"deliver", "skill", "lock", "rate", "sandbox", "reply", "retry", "refuse"}
Places == {"idle", "loop", "succeed", "replied"} \union Hopeful

\* The locals of a run.
Locals(r) ==
  /\ run[r] \in [at : Places, process : Process \union {Nobody}, rows : SUBSET Row,
                 row : Row \union {Nobody}]
  /\ Busy(r) => run[r].row \in Row
  /\ run[r].at # "idle" => run[r].process \in Process

\* What a run selected is not ahead of the table; it is behind what was claimed
\* or put off since.
Selected(r) ==
  \A row \in run[r].rows :
    LET j == row.job IN
    /\ row.at <= nextAttemptAt[j]
    /\ j \notin due => row.at < nextAttemptAt[j]
    /\ status[j] = "pending" /\ row.at = nextAttemptAt[j] => row.attempts = attempts[j]
    /\ status[j] # "none"
    /\ row.attempts < MaxAttempts

\* A run at work has the job's lease, unless something went wrong with it.
Working(r) ==
  Busy(r) =>
    LET j == JobOf(r) IN
    /\ status[j] # "none"
    /\ run[r].row.attempts < MaxAttempts
    /\ run[r].at \in {"succeed", "replied"} => effects[j] > 0
    /\ mishaps[j] = 0 => /\ status[j] = "pending" /\ j \notin due
                         /\ nextAttemptAt[j] = run[r].row.at + 1
                         /\ run[r].at # "replied"

Alone(r, q) ==
  Busy(r) /\ Busy(q) /\ JobOf(r) = JobOf(q) /\ mishaps[JobOf(r)] = 0 => r = q

\* Nobody has the job, and it may be claimed without a further mishap.
Open(j) ==
  \/ status[j] = "none"
  \/ status[j] = "pending" /\ (j \in due \/ \A r \in Run : ~HoldsLease(r, j))

\* How often the job may still be claimed, without a further mishap, after its
\* present attempt by run o, or by whoever comes when nobody has it; negative when
\* that attempt does not count any more.
Chance(j, o) ==
  IF o = Nobody
    THEN IF Open(j) THEN MaxAttempts - attempts[j] ELSE -1
    ELSE IF WorksOn(o, j) /\ run[o].at \in Hopeful
           THEN MaxAttempts - 1 - run[o].row.attempts ELSE -1

Owner == Run \union {Nobody}
Chances(j) == [o \in Owner |-> Chance(j, o)]
Having(f) == {o \in Owner : f[o] >= 0}
Spare(f) == {x \in Owner \X (1..MaxAttempts) : x[2] <= f[x[1]]}

Within(e, t, m, f) ==
  /\ e + Cardinality(Having(f)) <= 1 + m
  /\ t + Cardinality(Spare(f)) <= MaxAttempts * (1 + m)

Paid(j) == Within(effects[j], tries[j], mishaps[j], Chances(j))

\* The job's row and its ledger.
Recorded(j) ==
  /\ status[j] \in {"none", "pending"} => attempts[j] < MaxAttempts
  /\ status[j] \in {"delivered", "done"} \/ "succeeded" \in ledger[j] => effects[j] > 0
  /\ mishaps[j] = 0 /\ status[j] = "failed" => effects[j] = 0
  /\ mishaps[j] = 0 /\ status[j] \notin Final => ledger[j] = {}
  /\ mishaps[j] = 0 => Cardinality(ledger[j]) <= 1

Sane == TypeOK /\ \A r \in Run : Locals(r)

JobsInv ==
  /\ \A r \in Run : Selected(r) /\ Working(r)
  /\ \A r, q \in Run : Alone(r, q)
  /\ \A j \in Job : Paid(j) /\ Recorded(j)

LimitsInv == NothingLeaks /\ RateRespected

IInv == Sane /\ JobsInv /\ LimitsInv

-------------------------------------------------------------------------------
\* Counting chances.

LEMMA FiniteCounts ==
  ASSUME NEW f \in [Owner -> Int]
  PROVE  /\ IsFiniteSet(Having(f)) /\ Cardinality(Having(f)) \in Nat
         /\ IsFiniteSet(Spare(f)) /\ Cardinality(Spare(f)) \in Nat
<1> USE LeasedJobsAssumption
<1>1. IsFiniteSet(Owner)
  BY FS_AddElement DEF Owner
<1>2. IsFiniteSet(1..MaxAttempts)
  BY FS_Interval
<1>3. IsFiniteSet(Owner \X (1..MaxAttempts))
  BY <1>1, <1>2, FS_Product
<1>4. Having(f) \subseteq Owner /\ Spare(f) \subseteq Owner \X (1..MaxAttempts)
  BY DEF Having, Spare
<1>5. IsFiniteSet(Having(f)) /\ IsFiniteSet(Spare(f))
  BY <1>1, <1>3, <1>4, FS_Subset
<1> QED
  BY <1>5, FS_CardinalityType

\* Nobody has more chances than before.
LEMMA Fewer ==
  ASSUME NEW f \in [Owner -> Int], NEW g \in [Owner -> Int],
         \A o \in Owner : g[o] <= f[o]
  PROVE  /\ Cardinality(Having(g)) <= Cardinality(Having(f))
         /\ Cardinality(Spare(g)) <= Cardinality(Spare(f))
<1>1. Having(g) \subseteq Having(f)
  BY DEF Having
<1>2. Spare(g) \subseteq Spare(f)
  BY LeasedJobsAssumption DEF Spare
<1> QED
  BY <1>1, <1>2, FiniteCounts, FS_Subset

\* One has none any more.
LEMMA Ended ==
  ASSUME NEW f \in [Owner -> Int], NEW g \in [Owner -> Int], NEW o \in Owner,
         f[o] >= 0, g[o] < 0, \A x \in Owner : g[x] <= f[x]
  PROVE  Cardinality(Having(g)) + 1 <= Cardinality(Having(f))
<1>1. o \in Having(f) /\ Having(g) \subseteq Having(f) \ {o}
  BY DEF Having
<1>2. IsFiniteSet(Having(f) \ {o}) /\ Cardinality(Having(f) \ {o}) = Cardinality(Having(f)) - 1
  BY <1>1, FiniteCounts, FS_RemoveElement
<1>3. Cardinality(Having(g)) <= Cardinality(Having(f) \ {o})
  BY <1>1, <1>2, FS_Subset
<1> QED
  BY <1>2, <1>3, FiniteCounts

\* Pairs of U, of which some are renamed in T.
LEMMA Renamed ==
  ASSUME NEW U, IsFiniteSet(U), NEW T, NEW o, NEW n, NEW A, NEW B, T \subseteq A \X B,
         \A x \in T : IF x[1] = n THEN <<o, x[2]>> \in U ELSE x \in U /\ x[1] # o
  PROVE  Cardinality(T) <= Cardinality(U)
<1> DEFINE h == [x \in T |-> IF x[1] = n THEN <<o, x[2]>> ELSE x]
<1>1. h \in [T -> U]
  OBVIOUS
<1>2. ASSUME NEW x \in T, NEW y \in T, h[x] = h[y] PROVE x = y
  <2>1. x = <<x[1], x[2]>> /\ y = <<y[1], y[2]>>
    OBVIOUS
  <2>2. CASE x[1] = n /\ y[1] = n
    BY <1>2, <2>1, <2>2
  <2>3. CASE x[1] # n /\ y[1] # n
    BY <1>2, <2>3
  <2>4. CASE x[1] = n /\ y[1] # n
    BY <1>2, <2>4
  <2>5. CASE x[1] # n /\ y[1] = n
    BY <1>2, <2>5
  <2> QED
    BY <2>2, <2>3, <2>4, <2>5
<1> HIDE DEF h
<1>3. h \in Injection(T, U)
  BY <1>1, <1>2 DEF Injection, IsInjective
<1> QED
  BY <1>3, FS_Injection

\* Owner o's chance has gone to n.
LEMMA Moved ==
  ASSUME NEW f \in [Owner -> Int], NEW g \in [Owner -> Int],
         NEW o \in Owner, NEW n \in Owner, o # n,
         f[o] >= 0, g[o] < 0, g[n] <= f[o],
         \A x \in Owner \ {o, n} : g[x] <= f[x]
  PROVE  /\ Cardinality(Having(g)) <= Cardinality(Having(f))
         /\ Cardinality(Spare(g)) <= Cardinality(Spare(f))
         /\ f[o] \in 1..MaxAttempts /\ g[n] < f[o] =>
              Cardinality(Spare(g)) + 1 <= Cardinality(Spare(f))
<1>1. o \in Having(f) /\ Having(g) \subseteq (Having(f) \ {o}) \union {n}
  BY DEF Having
<1>2. Cardinality(Having(g)) <= Cardinality(Having(f))
  <2>1. IsFiniteSet(Having(f) \ {o}) /\ Cardinality(Having(f) \ {o}) = Cardinality(Having(f)) - 1
    BY <1>1, FiniteCounts, FS_RemoveElement
  <2>2. /\ IsFiniteSet((Having(f) \ {o}) \union {n})
        /\ Cardinality((Having(f) \ {o}) \union {n}) <= Cardinality(Having(f))
    <3>1. IsFiniteSet(Having(f)) /\ Cardinality(Having(f)) \in Nat
      BY FiniteCounts
    <3> DEFINE A == Having(f) \ {o}
    <3>2. /\ IsFiniteSet(A \union {n})
          /\ Cardinality(A \union {n}) = IF n \in A THEN Cardinality(A) ELSE Cardinality(A) + 1
      BY <2>1, FS_AddElement
    <3> HIDE DEF A
    <3>3. IsFiniteSet(A \union {n}) /\ Cardinality(A \union {n}) <= Cardinality(Having(f))
      <4>1. Cardinality(A) = Cardinality(Having(f)) - 1
        BY <2>1 DEF A
      <4> QED
        BY <3>1, <3>2, <4>1
    <3> QED
      BY <3>3 DEF A
  <2>3. Cardinality(Having(g)) <= Cardinality((Having(f) \ {o}) \union {n})
    BY <1>1, <2>2, FS_Subset
  <2> QED
    BY <2>2, <2>3, FiniteCounts, FS_CardinalityType
<1>3. Spare(g) \subseteq Owner \X (1..MaxAttempts)
  BY DEF Spare
<1>4. ASSUME NEW x \in Spare(g)
      PROVE  /\ x[1] \in Owner /\ x[2] \in 1..MaxAttempts /\ x[2] <= g[x[1]]
             /\ x[1] = n => <<o, x[2]>> \in Spare(f)
             /\ x[1] # n => x \in Spare(f) /\ x[1] # o
  <2>1. x[1] \in Owner /\ x[2] \in 1..MaxAttempts /\ x[2] <= g[x[1]] /\ x = <<x[1], x[2]>>
    BY DEF Spare
  <2>2. x[2] \in Nat \ {0}
    BY <2>1, LeasedJobsAssumption
  <2>3. x[1] # o
    BY <2>1, <2>2
  <2>4. CASE x[1] = n
    BY <2>1, <2>2, <2>4 DEF Spare
  <2>5. CASE x[1] # n
    BY <2>1, <2>2, <2>3, <2>5 DEF Spare
  <2> QED
    BY <2>1, <2>3, <2>4, <2>5
<1>5. Cardinality(Spare(g)) <= Cardinality(Spare(f))
  <2>1. \A x \in Spare(g) : IF x[1] = n THEN <<o, x[2]>> \in Spare(f)
                                        ELSE x \in Spare(f) /\ x[1] # o
    BY <1>4
  <2>2. IsFiniteSet(Spare(f))
    BY FiniteCounts
  <2> QED
    BY <1>3, <2>1, <2>2, Renamed
<1>6. ASSUME f[o] \in 1..MaxAttempts, g[n] < f[o]
      PROVE  Cardinality(Spare(g)) + 1 <= Cardinality(Spare(f))
  <2> DEFINE last == <<o, f[o]>>
             U == Spare(f) \ {last}
  <2>1. last \in Spare(f)
    BY <1>6 DEF Spare
  <2>2. IsFiniteSet(U) /\ Cardinality(U) = Cardinality(Spare(f)) - 1
    BY <2>1, FiniteCounts, FS_RemoveElement
  <2>3. ASSUME NEW x \in Spare(g)
        PROVE  IF x[1] = n THEN <<o, x[2]>> \in U ELSE x \in U /\ x[1] # o
    <3>1. CASE x[1] = n
      <4>1. x[2] <= g[n] /\ x[2] \in 1..MaxAttempts
        BY <1>4, <3>1
      <4>2. x[2] # f[o]
        BY <1>6, <4>1, LeasedJobsAssumption
      <4> QED
        BY <1>4, <3>1, <4>2
    <3>2. CASE x[1] # n
      <4>1. x \in Spare(f) /\ x[1] # o
        BY <1>4, <3>2
      <4>2. x # last
        BY <4>1
      <4> QED
        BY <3>2, <4>1, <4>2
    <3> QED
      BY <3>1, <3>2
  <2> HIDE DEF U
  <2>4. Cardinality(Spare(g)) <= Cardinality(U)
    BY <1>3, <2>2, <2>3, Renamed
  <2> QED
    BY <2>2, <2>4, FiniteCounts
<1> QED
  BY <1>2, <1>5, <1>6

\* One that had none has one; an owner has at most MaxAttempts.
LEMMA Gained ==
  ASSUME NEW f \in [Owner -> Int], NEW g \in [Owner -> Int], NEW n \in Owner,
         \A x \in Owner \ {n} : g[x] <= f[x]
  PROVE  /\ Cardinality(Having(g)) <= Cardinality(Having(f)) + 1
         /\ Cardinality(Spare(g)) <= Cardinality(Spare(f)) + MaxAttempts
<1>1. Having(g) \subseteq Having(f) \union {n}
  BY DEF Having
<1>2. Cardinality(Having(g)) <= Cardinality(Having(f)) + 1
  <2>1. /\ IsFiniteSet(Having(f) \union {n})
        /\ Cardinality(Having(f) \union {n}) <= Cardinality(Having(f)) + 1
    <3>1. IsFiniteSet(Having(f)) /\ Cardinality(Having(f)) \in Nat
      BY FiniteCounts
    <3>2. CASE n \in Having(f)
      <4>1. Having(f) \union {n} = Having(f)
        BY <3>2
      <4>2. Cardinality(Having(f) \union {n}) = Cardinality(Having(f))
        BY <4>1
      <4> DEFINE c == Cardinality(Having(f))
      <4> HIDE DEF c
      <4>3. c \in Nat => c <= c + 1
        OBVIOUS
      <4> QED
        BY <3>1, <4>1, <4>2, <4>3 DEF c
    <3>3. CASE n \notin Having(f)
      <4>1. /\ IsFiniteSet(Having(f) \union {n})
            /\ Cardinality(Having(f) \union {n}) = Cardinality(Having(f)) + 1
        BY <3>1, <3>3, FS_AddElement, Zenon
      <4>2. Cardinality(Having(f)) + 1 <= Cardinality(Having(f)) + 1
        BY <3>1
      <4> QED
        BY <4>1, <4>2
    <3> QED
      BY <3>2, <3>3
  <2>2. Cardinality(Having(g)) <= Cardinality(Having(f) \union {n})
    BY <1>1, <2>1, FS_Subset
  <2> QED
    BY <2>1, <2>2, FiniteCounts, FS_CardinalityType
<1>3. Cardinality(Spare(g)) <= Cardinality(Spare(f)) + MaxAttempts
  <2> DEFINE own == {n} \X (1..MaxAttempts)
  <2>1. IsFiniteSet(own) /\ Cardinality(own) = MaxAttempts
    <3>1. IsFiniteSet({n}) /\ Cardinality({n}) = 1
      BY FS_Singleton
    <3>2. IsFiniteSet(1..MaxAttempts) /\ Cardinality(1..MaxAttempts) = MaxAttempts
      BY FS_Interval, LeasedJobsAssumption
    <3> DEFINE B == 1..MaxAttempts
               A == {n}
    <3> HIDE DEF A, B
    <3>3. IsFiniteSet(A \X B) /\ Cardinality(A \X B) = Cardinality(A) * Cardinality(B)
      BY <3>1, <3>2, FS_Product DEF A, B
    <3>4. Cardinality(A) = 1 /\ Cardinality(B) = MaxAttempts
      BY <3>1, <3>2 DEF A, B
    <3>5. IsFiniteSet(A \X B) /\ Cardinality(A \X B) = MaxAttempts
      BY <3>3, <3>4, LeasedJobsAssumption
    <3> QED
      BY <3>5 DEF A, B
  <2> HIDE DEF own
  <2>2. /\ IsFiniteSet(Spare(f) \union own)
        /\ Cardinality(Spare(f) \union own) <= Cardinality(Spare(f)) + MaxAttempts
    <3>1. /\ IsFiniteSet(Spare(f) \union own)
          /\ Cardinality(Spare(f) \union own) =
               Cardinality(Spare(f)) + Cardinality(own) - Cardinality(Spare(f) \intersect own)
      BY <2>1, FiniteCounts, FS_Union
    <3>2. Cardinality(Spare(f) \intersect own) \in Nat
      BY <2>1, FS_Intersection, FS_CardinalityType, FiniteCounts
    <3> QED
      BY <2>1, <3>1, <3>2, FiniteCounts, LeasedJobsAssumption
  <2>3. Spare(g) \subseteq Spare(f) \union own
    <3> SUFFICES ASSUME NEW x \in Spare(g) PROVE x \in Spare(f) \union own
      OBVIOUS
    <3>1. x[1] \in Owner /\ x[2] \in 1..MaxAttempts /\ x[2] <= g[x[1]] /\ x = <<x[1], x[2]>>
      BY DEF Spare
    <3>2. CASE x[1] = n
      BY <3>1, <3>2 DEF own
    <3>3. CASE x[1] # n
      <4>1. x[2] <= f[x[1]]
        BY <3>1, <3>3, LeasedJobsAssumption
      <4> QED
        BY <3>1, <4>1 DEF Spare
    <3> QED
      BY <3>2, <3>3
  <2>4. Cardinality(Spare(g)) <= Cardinality(Spare(f) \union own)
    BY <2>2, <2>3, FS_Subset
  <2> QED
    BY <2>2, <2>4, FiniteCounts, FS_CardinalityType, LeasedJobsAssumption
<1> QED
  BY <1>2, <1>3

LEMMA Products ==
  ASSUME NEW m \in Nat
  PROVE  /\ MaxAttempts * (1 + m) \in Nat
         /\ MaxAttempts * (1 + (m + 1)) = MaxAttempts * (1 + m) + MaxAttempts
  BY LeasedJobsAssumption

\* What each kind of step does to the account of a job: e effects, t claims and m
\* mishaps so far, f the chances before it and g those after.
LEMMA WithinFewer ==
  ASSUME NEW f \in [Owner -> Int], NEW g \in [Owner -> Int],
         NEW e \in Nat, NEW t \in Nat, NEW m \in Nat, NEW n \in {m, m + 1},
         Within(e, t, m, f), \A o \in Owner : g[o] <= f[o]
  PROVE  /\ Within(e, t, n, g)
         /\ n = m + 1 => Within(e + 1, t, n, g)
<1>1. /\ Cardinality(Having(g)) <= Cardinality(Having(f))
      /\ Cardinality(Spare(g)) <= Cardinality(Spare(f))
  BY Fewer
<1> QED
  BY <1>1, FiniteCounts, Products, LeasedJobsAssumption DEF Within

LEMMA WithinEnded ==
  ASSUME NEW f \in [Owner -> Int], NEW g \in [Owner -> Int], NEW o \in Owner,
         NEW e \in Nat, NEW t \in Nat, NEW m \in Nat, Within(e, t, m, f),
         f[o] >= 0, g[o] < 0, \A x \in Owner : g[x] <= f[x]
  PROVE  Within(e + 1, t, m, g)
<1>1. /\ Cardinality(Having(g)) + 1 <= Cardinality(Having(f))
      /\ Cardinality(Spare(g)) <= Cardinality(Spare(f))
  BY Fewer, Ended
<1> QED
  BY <1>1, FiniteCounts, Products DEF Within

LEMMA WithinMoved ==
  ASSUME NEW f \in [Owner -> Int], NEW g \in [Owner -> Int],
         NEW o \in Owner, NEW n \in Owner, o # n,
         NEW e \in Nat, NEW t \in Nat, NEW m \in Nat, Within(e, t, m, f),
         f[o] >= 0, g[o] < 0, g[n] <= f[o],
         \A x \in Owner \ {o, n} : g[x] <= f[x]
  PROVE  /\ Within(e, t, m, g)
         /\ f[o] \in 1..MaxAttempts /\ g[n] < f[o] => Within(e, t + 1, m, g)
<1>1. /\ Cardinality(Having(g)) <= Cardinality(Having(f))
      /\ Cardinality(Spare(g)) <= Cardinality(Spare(f))
      /\ f[o] \in 1..MaxAttempts /\ g[n] < f[o] =>
           Cardinality(Spare(g)) + 1 <= Cardinality(Spare(f))
  BY Moved
<1> QED
  BY <1>1, FiniteCounts, Products DEF Within

LEMMA WithinGained ==
  ASSUME NEW f \in [Owner -> Int], NEW g \in [Owner -> Int], NEW n \in Owner,
         NEW e \in Nat, NEW t \in Nat, NEW m \in Nat, Within(e, t, m, f),
         \A x \in Owner \ {n} : g[x] <= f[x]
  PROVE  Within(e, t, m + 1, g)
<1>1. /\ Cardinality(Having(g)) <= Cardinality(Having(f)) + 1
      /\ Cardinality(Spare(g)) <= Cardinality(Spare(f)) + MaxAttempts
  BY Gained
<1> QED
  BY <1>1, FiniteCounts, Products, LeasedJobsAssumption DEF Within

-------------------------------------------------------------------------------
\* What the actions do to the runs.

LEMMA RowOf ==
  ASSUME Sane, NEW r \in Run, Busy(r)
  PROVE  /\ JobOf(r) \in Job /\ run[r].row \in Row
         /\ run[r].row.at \in Nat /\ run[r].row.attempts \in Nat
  BY DEF Sane, Locals, Busy, JobOf, Row

LEMMA GotoMoves ==
  ASSUME Sane, NEW r \in Run, NEW place \in Places \ {"idle", "loop"}, Busy(r),
         Goto(r, place)
  PROVE  /\ DOMAIN run' = Run
         /\ \A q \in Run \ {r} : run'[q] = run[q]
         /\ run'[r].at = place /\ run'[r].row = run[r].row
         /\ run'[r].rows = run[r].rows /\ run'[r].process = run[r].process
         /\ \A q \in Run : Locals(q)' /\ (Busy(q)' <=> Busy(q)) /\ JobOf(q)' = JobOf(q)
<1>1. DOMAIN run = Run /\ Locals(r)
  BY DEF Sane, TypeOK
<1>2. DOMAIN run' = Run /\ \A q \in Run \ {r} : run'[q] = run[q]
  BY <1>1 DEF Goto
<1>3. run'[r] = [run[r] EXCEPT !.at = place]
  BY <1>1 DEF Goto
<1>4. /\ run'[r].at = place /\ run'[r].row = run[r].row
      /\ run'[r].rows = run[r].rows /\ run'[r].process = run[r].process
      /\ Locals(r)'
  BY <1>1, <1>3 DEF Locals, Busy, Places
<1>5. ASSUME NEW q \in Run \ {r} PROVE Locals(q)'
  BY <1>2 DEF Sane, Locals, Busy
<1> QED
  BY <1>2, <1>4, <1>5 DEF Busy, JobOf

LEMMA NextRowLeaves ==
  ASSUME Sane, NEW r \in Run, Busy(r), NextRow(r)
  PROVE  /\ DOMAIN run' = Run
         /\ \A q \in Run \ {r} : run'[q] = run[q]
         /\ run'[r].at = "loop" /\ run'[r].rows = run[r].rows /\ ~Busy(r)'
         /\ \A q \in Run : Locals(q)'
<1>1. DOMAIN run = Run /\ Locals(r)
  BY DEF Sane, TypeOK
<1>2. DOMAIN run' = Run /\ \A q \in Run \ {r} : run'[q] = run[q]
  BY <1>1 DEF NextRow
<1>3. run'[r] = [run[r] EXCEPT !.at = "loop", !.row = Nobody]
  BY <1>1 DEF NextRow
<1>4. run'[r].at = "loop" /\ run'[r].rows = run[r].rows /\ Locals(r)' /\ ~Busy(r)'
  BY <1>1, <1>3 DEF Locals, Busy, Places
<1>5. ASSUME NEW q \in Run \ {r} PROVE Locals(q)'
  BY <1>2 DEF Sane, Locals, Busy
<1> QED
  BY <1>2, <1>4, <1>5

-------------------------------------------------------------------------------
\* The accounts of the jobs.

LEMMA ChanceIsInt ==
  ASSUME Sane, NEW j \in Job, NEW o \in Owner
  PROVE  Chance(j, o) \in Int
<1>1. CASE o = Nobody
  BY <1>1, LeasedJobsAssumption DEF Chance, Sane, TypeOK
<1>2. CASE o \in Run /\ WorksOn(o, j)
  BY <1>2, RowOf, LeasedJobsAssumption DEF Chance, WorksOn
<1>3. CASE o \in Run /\ ~WorksOn(o, j)
  BY <1>3, LeasedJobsAssumption DEF Chance
<1> QED
  BY <1>1, <1>2, <1>3 DEF Owner

LEMMA ChancesAreInts ==
  ASSUME Sane, Sane', NEW j \in Job
  PROVE  /\ Chances(j) \in [Owner -> Int] /\ Chances(j)' \in [Owner -> Int]
         /\ \A o \in Owner : Chances(j)[o] = Chance(j, o) /\ Chances(j)'[o] = Chance(j, o)'
         /\ \A o \in Owner : Chance(j, o) \in Int /\ Chance(j, o)' \in Int
<1>1. \A o \in Owner : Chance(j, o) \in Int
  BY ChanceIsInt
<1>2. ASSUME NEW o \in Owner PROVE Chance(j, o)' \in Int
  <2>1. CASE o = Nobody
    BY <2>1, LeasedJobsAssumption DEF Chance, Sane, TypeOK
  <2>2. CASE o \in Run /\ WorksOn(o, j)'
    <3>1. run'[o].row.attempts \in Nat
      BY <2>2 DEF Sane, Locals, Busy, JobOf, Row, WorksOn
    <3> QED
      BY <2>2, <3>1, LeasedJobsAssumption DEF Chance
  <2>3. CASE o \in Run /\ ~WorksOn(o, j)'
    BY <2>3, LeasedJobsAssumption DEF Chance
  <2> QED
    BY <2>1, <2>2, <2>3 DEF Owner
<1>3. Chances(j) = [o \in Owner |-> Chance(j, o)]
  BY DEF Chances
<1>4. Chances(j)' = [o \in Owner |-> Chance(j, o)']
  BY DEF Chances
<1>5. /\ Chances(j) \in [Owner -> Int]
      /\ \A o \in Owner : Chances(j)[o] = Chance(j, o) /\ Chance(j, o) \in Int
  BY <1>1, <1>3
<1>6. /\ Chances(j)' \in [Owner -> Int]
      /\ \A o \in Owner : Chances(j)'[o] = Chance(j, o)' /\ Chance(j, o)' \in Int
  BY <1>2, <1>4
<1> QED
  BY <1>5, <1>6

LEMMA PaidFewer ==
  ASSUME Sane, Sane', NEW j \in Job, Paid(j),
         \A o \in Owner : Chance(j, o)' <= Chance(j, o),
         tries'[j] = tries[j], mishaps'[j] \in {mishaps[j], mishaps[j] + 1},
         \/ effects'[j] = effects[j]
         \/ effects'[j] = effects[j] + 1 /\ mishaps'[j] = mishaps[j] + 1
  PROVE  Paid(j)'
<1> DEFINE f == Chances(j)
           g == Chances(j)'
<1>1. effects[j] \in Nat /\ tries[j] \in Nat /\ mishaps[j] \in Nat
  BY DEF Sane, TypeOK
<1>2. f \in [Owner -> Int] /\ g \in [Owner -> Int] /\ \A o \in Owner : g[o] <= f[o]
  BY ChancesAreInts
<1>3. Within(effects[j], tries[j], mishaps[j], f)
  BY DEF Paid
<1> HIDE DEF f, g
<1>4. /\ Within(effects[j], tries[j], mishaps'[j], g)
      /\ mishaps'[j] = mishaps[j] + 1 => Within(effects[j] + 1, tries[j], mishaps'[j], g)
  BY <1>1, <1>2, <1>3, WithinFewer
<1>5. Within(effects'[j], tries'[j], mishaps'[j], g)
  BY <1>4
<1> QED
  BY <1>5 DEF Paid, g

LEMMA PaidEnded ==
  ASSUME Sane, Sane', NEW j \in Job, Paid(j), NEW r \in Run,
         \A o \in Owner : Chance(j, o)' <= Chance(j, o),
         Chance(j, r) >= 0, Chance(j, r)' < 0,
         effects'[j] = effects[j] + 1, tries'[j] = tries[j], mishaps'[j] = mishaps[j]
  PROVE  Paid(j)'
<1> DEFINE f == Chances(j)
           g == Chances(j)'
<1>1. effects[j] \in Nat /\ tries[j] \in Nat /\ mishaps[j] \in Nat
  BY DEF Sane, TypeOK
<1>2. r \in Owner
  BY DEF Owner
<1>3. /\ f \in [Owner -> Int] /\ g \in [Owner -> Int] /\ \A o \in Owner : g[o] <= f[o]
      /\ f[r] >= 0 /\ g[r] < 0
  BY <1>2, ChancesAreInts
<1>4. Within(effects[j], tries[j], mishaps[j], f)
  BY DEF Paid
<1> HIDE DEF f, g
<1>5. Within(effects[j] + 1, tries[j], mishaps[j], g)
  BY <1>1, <1>2, <1>3, <1>4, WithinEnded
<1>6. Within(effects'[j], tries'[j], mishaps'[j], g)
  BY <1>5
<1> QED
  BY <1>6 DEF Paid, g

LEMMA PaidMoved ==
  ASSUME Sane, Sane', NEW j \in Job, Paid(j), NEW o \in Owner, NEW n \in Owner, o # n,
         Chance(j, o) >= 0, Chance(j, o)' < 0, Chance(j, n)' <= Chance(j, o),
         \A x \in Owner \ {o, n} : Chance(j, x)' <= Chance(j, x),
         effects'[j] = effects[j], mishaps'[j] = mishaps[j],
         \/ tries'[j] = tries[j]
         \/ /\ tries'[j] = tries[j] + 1
            /\ Chance(j, o) \in 1..MaxAttempts /\ Chance(j, n)' < Chance(j, o)
  PROVE  Paid(j)'
<1> DEFINE f == Chances(j)
           g == Chances(j)'
<1>1. effects[j] \in Nat /\ tries[j] \in Nat /\ mishaps[j] \in Nat
  BY DEF Sane, TypeOK
<1>2. /\ f \in [Owner -> Int] /\ g \in [Owner -> Int]
      /\ f[o] = Chance(j, o) /\ g[o] = Chance(j, o)' /\ g[n] = Chance(j, n)'
      /\ \A x \in Owner \ {o, n} : g[x] <= f[x]
  BY ChancesAreInts
<1>3. Within(effects[j], tries[j], mishaps[j], f)
  BY DEF Paid
<1> HIDE DEF f, g
<1>4. /\ Within(effects[j], tries[j], mishaps[j], g)
      /\ f[o] \in 1..MaxAttempts /\ g[n] < f[o] =>
           Within(effects[j], tries[j] + 1, mishaps[j], g)
  BY <1>1, <1>2, <1>3, WithinMoved
<1>5. Within(effects'[j], tries'[j], mishaps'[j], g)
  BY <1>2, <1>4
<1> QED
  BY <1>5 DEF Paid, g

LEMMA PaidGained ==
  ASSUME Sane, Sane', NEW j \in Job, Paid(j),
         \A q \in Run : Chance(j, q)' <= Chance(j, q),
         effects'[j] = effects[j], tries'[j] = tries[j], mishaps'[j] = mishaps[j] + 1
  PROVE  Paid(j)'
<1> DEFINE f == Chances(j)
           g == Chances(j)'
<1>1. effects[j] \in Nat /\ tries[j] \in Nat /\ mishaps[j] \in Nat
  BY DEF Sane, TypeOK
<1>2. /\ f \in [Owner -> Int] /\ g \in [Owner -> Int] /\ Nobody \in Owner
      /\ \A x \in Owner \ {Nobody} : g[x] <= f[x]
  BY ChancesAreInts DEF Owner
<1>3. Within(effects[j], tries[j], mishaps[j], f)
  BY DEF Paid
<1> HIDE DEF f, g
<1>4. Within(effects[j], tries[j], mishaps[j] + 1, g)
  BY <1>1, <1>2, <1>3, WithinGained
<1>5. Within(effects'[j], tries'[j], mishaps'[j], g)
  BY <1>4
<1> QED
  BY <1>5 DEF Paid, g

\* What a step leaves alone.
RowKept(j) ==
  /\ status'[j] = status[j] /\ attempts'[j] = attempts[j]
  /\ nextAttemptAt'[j] = nextAttemptAt[j] /\ (j \in due' <=> j \in due)

CountsKept(j) ==
  effects'[j] = effects[j] /\ tries'[j] = tries[j] /\ mishaps'[j] = mishaps[j]

WorkKept(j) ==
  \A q \in Run : /\ WorksOn(q, j)' <=> WorksOn(q, j)
                 /\ WorksOn(q, j) => run'[q].row = run[q].row

LEMMA OpenKept ==
  ASSUME NEW j \in Job, RowKept(j), WorkKept(j)
  PROVE  /\ Open(j)' <=> Open(j)
         /\ Chance(j, Nobody)' = Chance(j, Nobody)
<1>1. ASSUME NEW q \in Run PROVE HoldsLease(q, j)' <=> HoldsLease(q, j)
  BY DEF HoldsLease, RowKept, WorkKept
<1>2. Open(j)' <=> Open(j)
  BY <1>1 DEF Open, RowKept
<1> QED
  BY <1>2 DEF Chance, RowKept

\* The chances of a run that works on j as before, or does not work on it.
LEMMA ChanceKept ==
  ASSUME NEW j \in Job, WorkKept(j), NEW q \in Run
  PROVE  /\ (run'[q].at \in Hopeful <=> run[q].at \in Hopeful) =>
              Chance(j, q)' = Chance(j, q)
         /\ ~WorksOn(q, j) => Chance(j, q)' = Chance(j, q)
         /\ run'[q].at \notin Hopeful => Chance(j, q)' = -1
<1>1. q # Nobody
  BY LeasedJobsAssumption
<1>2. (run'[q].at \in Hopeful <=> run[q].at \in Hopeful) => Chance(j, q)' = Chance(j, q)
  BY <1>1 DEF Chance, WorkKept
<1>3. ~WorksOn(q, j) => Chance(j, q)' = Chance(j, q)
  BY <1>1 DEF Chance, WorkKept
<1>4. run'[q].at \notin Hopeful => Chance(j, q)' = -1
  BY <1>1 DEF Chance
<1> QED
  BY <1>2, <1>3, <1>4

\* A step that does not touch j.
LEMMA Untouched ==
  ASSUME Sane, Sane', NEW j \in Job, Paid(j), Recorded(j),
         RowKept(j), CountsKept(j), ledger'[j] = ledger[j], WorkKept(j),
         \A q \in Run : WorksOn(q, j) => run'[q].at = run[q].at
  PROVE  Paid(j)' /\ Recorded(j)'
<1>1. ASSUME NEW o \in Owner PROVE Chance(j, o)' = Chance(j, o)
  <2>1. CASE o = Nobody
    BY <2>1, OpenKept
  <2>2. CASE o \in Run
    BY <2>2, ChanceKept
  <2> QED
    BY <2>1, <2>2 DEF Owner
<1>2. Paid(j)'
  BY <1>1, PaidFewer, ChancesAreInts DEF CountsKept
<1>3. Recorded(j)'
  BY DEF Recorded, RowKept, CountsKept
<1> QED
  BY <1>2, <1>3

-------------------------------------------------------------------------------
\* The runs and the rows they work on.

\* A row only moves on: what was selected of it falls behind.
Later(j) ==
  /\ nextAttemptAt'[j] >= nextAttemptAt[j]
  /\ nextAttemptAt'[j] = nextAttemptAt[j] =>
       /\ j \notin due' => j \notin due
       /\ status'[j] = "pending" /\ status[j] # "none" =>
            status[j] = "pending" /\ attempts'[j] = attempts[j]
  /\ status[j] # "none" => status'[j] # "none"
  /\ effects'[j] >= effects[j] /\ mishaps'[j] >= mishaps[j]

LEMMA SelectedLater ==
  ASSUME Sane, Sane', \A j \in Job : Later(j), NEW r \in Run, Selected(r),
         run'[r].rows \subseteq run[r].rows
  PROVE  Selected(r)'
<1> SUFFICES ASSUME NEW row \in run'[r].rows
             PROVE  LET j == row.job IN
                    /\ row.at <= nextAttemptAt'[j]
                    /\ j \notin due' => row.at < nextAttemptAt'[j]
                    /\ status'[j] = "pending" /\ row.at = nextAttemptAt'[j] =>
                         row.attempts = attempts'[j]
                    /\ status'[j] # "none"
                    /\ row.attempts < MaxAttempts
  BY DEF Selected
<1> DEFINE j == row.job
<1>1. row \in Row /\ j \in Job /\ row.at \in Nat
  BY DEF Sane, Locals, Row
<1>2. nextAttemptAt[j] \in Nat /\ nextAttemptAt'[j] \in Nat
  BY <1>1 DEF Sane, TypeOK
<1>3. /\ row.at <= nextAttemptAt[j]
      /\ j \notin due => row.at < nextAttemptAt[j]
      /\ status[j] = "pending" /\ row.at = nextAttemptAt[j] => row.attempts = attempts[j]
      /\ status[j] # "none"
      /\ row.attempts < MaxAttempts
  BY DEF Selected
<1>4. Later(j)
  BY <1>1
<1> HIDE DEF j
<1>5. /\ row.at <= nextAttemptAt'[j]
      /\ j \notin due' => row.at < nextAttemptAt'[j]
      /\ status'[j] = "pending" /\ row.at = nextAttemptAt'[j] => row.attempts = attempts'[j]
      /\ status'[j] # "none"
      /\ row.attempts < MaxAttempts
  BY <1>1, <1>2, <1>3, <1>4 DEF Later
<1> QED
  BY <1>5 DEF j

LEMMA WorkingOn ==
  ASSUME Sane, Sane', \A j \in Job : Later(j), NEW r \in Run, Working(r),
         Busy(r)' => /\ Busy(r) /\ run'[r].row = run[r].row
                     /\ run'[r].at \in {"succeed", "replied"} => effects'[JobOf(r)] > 0
                     /\ mishaps'[JobOf(r)] = 0 => RowKept(JobOf(r)) /\ run'[r].at # "replied"
  PROVE  Working(r)'
<1> SUFFICES ASSUME Busy(r)' PROVE Working(r)'
  BY DEF Working
<1> DEFINE j == JobOf(r)
<1>1. Busy(r) /\ j \in Job /\ JobOf(r)' = j /\ run'[r].row = run[r].row
  BY RowOf DEF JobOf
<1>2. mishaps[j] \in Nat /\ mishaps'[j] \in Nat /\ Later(j)
  BY <1>1 DEF Sane, TypeOK
<1>3. mishaps'[j] = 0 => mishaps[j] = 0
  BY <1>2 DEF Later
<1>4. /\ status[j] # "none" /\ run[r].row.attempts < MaxAttempts
      /\ mishaps[j] = 0 => /\ status[j] = "pending" /\ j \notin due
                           /\ nextAttemptAt[j] = run[r].row.at + 1
  BY <1>1 DEF Working
<1>5. /\ run'[r].at \in {"succeed", "replied"} => effects'[j] > 0
      /\ mishaps'[j] = 0 => RowKept(j) /\ run'[r].at # "replied"
  BY <1>1
<1> HIDE DEF j
<1>6. /\ status'[j] # "none" /\ run'[r].row.attempts < MaxAttempts
      /\ run'[r].at \in {"succeed", "replied"} => effects'[j] > 0
      /\ mishaps'[j] = 0 => /\ status'[j] = "pending" /\ j \notin due'
                            /\ nextAttemptAt'[j] = run'[r].row.at + 1
                            /\ run'[r].at # "replied"
  BY <1>1, <1>2, <1>3, <1>4, <1>5 DEF Later, RowKept
<1> QED
  BY <1>1, <1>6 DEF Working

LEMMA AloneKept ==
  ASSUME Sane, Sane', \A j \in Job : Later(j), \A r, q \in Run : Alone(r, q),
         \A r \in Run : Busy(r)' => Busy(r) /\ run'[r].row = run[r].row
  PROVE  \A r, q \in Run : Alone(r, q)'
<1> SUFFICES ASSUME NEW r \in Run, NEW q \in Run, Busy(r)', Busy(q)',
                    JobOf(r)' = JobOf(q)', mishaps'[JobOf(r)'] = 0
             PROVE  r = q
  BY DEF Alone
<1>1. /\ Busy(r) /\ Busy(q) /\ JobOf(r)' = JobOf(r) /\ JobOf(q)' = JobOf(q)
      /\ JobOf(r) \in Job
  BY RowOf DEF JobOf
<1>2. mishaps[JobOf(r)] = 0
  BY <1>1 DEF Sane, TypeOK, Later
<1> QED
  BY <1>1, <1>2 DEF Alone

\* Steps of a run at work: what is left to show is about its own job.
LEMMA StepOf ==
  ASSUME Sane, Sane', JobsInv, NEW r \in Run, NEW i \in Job, WorksOn(r, i),
         \A q \in Run \ {r} : run'[q] = run[q],
         run'[r].rows = run[r].rows,
         \A j \in Job : Later(j),
         \A j \in Job \ {i} : RowKept(j) /\ CountsKept(j) /\ ledger'[j] = ledger[j],
         Busy(r)' => /\ run'[r].row = run[r].row
                     /\ run'[r].at \in {"succeed", "replied"} => effects'[i] > 0
                     /\ mishaps'[i] = 0 => RowKept(i) /\ run'[r].at # "replied",
         Paid(i)', Recorded(i)'
  PROVE  JobsInv'
<1>1. ASSUME NEW q \in Run PROVE Selected(q)'
  BY <1>1, SelectedLater DEF JobsInv
<1>2. ASSUME NEW q \in Run PROVE Working(q)'
  <2>1. CASE q = r
    <3>1. Working(r) /\ Busy(r) /\ JobOf(r) = i
      BY DEF JobsInv, WorksOn
    <3>2. Busy(r)' => /\ Busy(r) /\ run'[r].row = run[r].row
                      /\ run'[r].at \in {"succeed", "replied"} => effects'[JobOf(r)] > 0
                      /\ mishaps'[JobOf(r)] = 0 => RowKept(JobOf(r)) /\ run'[r].at # "replied"
      BY <3>1
    <3> QED
      BY <2>1, <3>1, <3>2, WorkingOn
  <2>2. ASSUME q # r, Busy(q)'
        PROVE  /\ Busy(q) /\ run'[q].row = run[q].row
               /\ run'[q].at \in {"succeed", "replied"} => effects'[JobOf(q)] > 0
               /\ mishaps'[JobOf(q)] = 0 => RowKept(JobOf(q)) /\ run'[q].at # "replied"
    <3>1. run'[q] = run[q] /\ Busy(q)
      BY <2>2 DEF Busy
    <3>2. JobOf(q) \in Job /\ Later(JobOf(q)) /\ Working(q) /\ Alone(r, q)
      BY <3>1, RowOf DEF JobsInv
    <3>3. /\ effects[JobOf(q)] \in Nat /\ effects'[JobOf(q)] \in Nat
          /\ mishaps[JobOf(q)] \in Nat /\ mishaps'[JobOf(q)] \in Nat
      BY <3>2 DEF Sane, TypeOK
    <3>4. run'[q].at \in {"succeed", "replied"} => effects'[JobOf(q)] > 0
      BY <3>1, <3>2, <3>3 DEF Working, Later
    <3>5. ASSUME mishaps'[JobOf(q)] = 0 PROVE RowKept(JobOf(q)) /\ run'[q].at # "replied"
      <4>1. mishaps[JobOf(q)] = 0
        BY <3>2, <3>3, <3>5 DEF Later
      <4>2. JobOf(q) # i
        BY <2>2, <3>1, <3>2, <4>1 DEF Alone, WorksOn
      <4>3. run'[q].at # "replied"
        BY <3>1, <3>2, <4>1 DEF Working
      <4> QED
        BY <3>2, <4>2, <4>3
    <3> QED
      BY <3>1, <3>4, <3>5
  <2>3. CASE q # r
    <3>1. Working(q)
      BY DEF JobsInv
    <3> QED
      BY <2>2, <2>3, <3>1, WorkingOn
  <2> QED
    BY <2>1, <2>3
<1>3. \A s, q \in Run : Alone(s, q)'
  <2>1. \A q \in Run : Busy(q)' => Busy(q) /\ run'[q].row = run[q].row
    BY DEF Busy, WorksOn
  <2> QED
    BY <2>1, AloneKept DEF JobsInv
<1>4. ASSUME NEW j \in Job PROVE Paid(j)' /\ Recorded(j)'
  <2>1. CASE j = i
    BY <2>1
  <2>2. CASE j # i
    <3>1. ASSUME NEW q \in Run
          PROVE  /\ WorksOn(q, j)' <=> WorksOn(q, j)
                 /\ WorksOn(q, j) => run'[q] = run[q]
      <4>1. CASE q = r
        BY <2>2, <4>1 DEF WorksOn, JobOf
      <4>2. CASE q # r
        BY <4>2 DEF WorksOn, JobOf, Busy
      <4> QED
        BY <4>1, <4>2
    <3>2. WorkKept(j) /\ \A q \in Run : WorksOn(q, j) => run'[q].at = run[q].at
      BY <3>1 DEF WorkKept
    <3>3. Paid(j) /\ Recorded(j)
      BY DEF JobsInv
    <3> QED
      BY <2>2, <3>2, <3>3, Untouched
  <2> QED
    BY <2>1, <2>2
<1> QED
  BY <1>1, <1>2, <1>3, <1>4 DEF JobsInv

-------------------------------------------------------------------------------
\* The actions of a run between its claim and its last update.

LEMMA Wrong ==
  ASSUME Sane, NEW U, GoesWrong(U)
  PROVE  /\ mishaps' \in [Job -> Nat]
         /\ \A j \in Job : mishaps'[j] = IF j \in U THEN mishaps[j] + 1 ELSE mishaps[j]
  BY DEF GoesWrong, Sane, TypeOK

LEMMA MoveSane ==
  ASSUME Sane, NEW r \in Run, Busy(r), NEW place \in Places \ {"idle", "loop"},
         Goto(r, place), UNCHANGED <<rowVars, ledger, tries>>,
         effects' \in [Job -> Nat], mishaps' \in [Job -> Nat],
         slots' \in [Process -> 0..MaxSlots], lock' \in Run \union {Nobody},
         actions' \in Nat
  PROVE  Sane'
<1>1. DOMAIN run' = Run /\ \A q \in Run : Locals(q)'
  BY GotoMoves
<1>2. TypeOK'
  BY <1>1 DEF TypeOK, Sane, rowVars
<1> QED
  BY <1>1, <1>2 DEF Sane

LEMMA MoveKeeps ==
  ASSUME Sane, Sane', JobsInv, NEW r \in Run, NEW i \in Job, WorksOn(r, i),
         NEW place \in Places \ {"idle", "loop"}, Goto(r, place),
         UNCHANGED <<rowVars, ledger, tries>>,
         \A j \in Job \ {i} : effects'[j] = effects[j] /\ mishaps'[j] = mishaps[j],
         mishaps'[i] \in {mishaps[i], mishaps[i] + 1},
         effects'[i] \in {effects[i], effects[i] + 1},
         effects'[i] = effects[i] + 1 =>
           mishaps'[i] = mishaps[i] + 1 \/ place \notin Hopeful,
         run[r].at \in Hopeful \/ (place \notin Hopeful /\ effects'[i] = effects[i]),
         place \in {"succeed", "replied"} => effects'[i] > 0,
         place = "replied" => mishaps'[i] = mishaps[i] + 1
  PROVE  JobsInv'
<1>1. /\ Busy(r) /\ JobOf(r) = i /\ run[r].row.attempts < MaxAttempts
      /\ run[r].row.attempts \in Nat
  BY RowOf DEF WorksOn, JobsInv, Working
<1>2. /\ \A q \in Run \ {r} : run'[q] = run[q]
      /\ run'[r].at = place /\ run'[r].row = run[r].row /\ run'[r].rows = run[r].rows
      /\ \A q \in Run : (Busy(q)' <=> Busy(q)) /\ JobOf(q)' = JobOf(q)
  BY <1>1, GotoMoves
<1>3. \A j \in Job : RowKept(j) /\ ledger'[j] = ledger[j] /\ tries'[j] = tries[j]
  BY DEF rowVars, RowKept
<1>4. /\ \A j \in Job : effects[j] \in Nat /\ mishaps[j] \in Nat
      /\ \A j \in Job : effects'[j] \in Nat /\ mishaps'[j] \in Nat
  BY DEF Sane, TypeOK
<1>5. ASSUME NEW j \in Job PROVE Later(j)
  <2>1. effects'[j] >= effects[j] /\ mishaps'[j] >= mishaps[j]
    BY <1>4
  <2>2. nextAttemptAt[j] \in Nat
    BY DEF Sane, TypeOK
  <2> QED
    BY <1>3, <2>1, <2>2 DEF Later, RowKept
<1>6. \A j \in Job \ {i} : RowKept(j) /\ CountsKept(j) /\ ledger'[j] = ledger[j]
  BY <1>3 DEF CountsKept
<1>7. WorkKept(i)
  BY <1>2 DEF WorkKept, WorksOn
<1>8. Paid(i)'
  <2>1. Chance(i, r)' <= Chance(i, r)
    <3>1. CASE run[r].at \in Hopeful /\ place \in Hopeful
      BY <1>2, <1>7, <3>1, ChanceKept, ChancesAreInts DEF Owner
    <3>2. CASE place \notin Hopeful
      <4>1. Chance(i, r)' = -1
        BY <1>2, <1>7, <3>2, ChanceKept
      <4>2. Chance(i, r) >= -1
        BY <1>1, LeasedJobsAssumption DEF Chance
      <4> QED
        BY <4>1, <4>2
    <3> QED
      BY <3>1, <3>2
  <2>2. ASSUME NEW o \in Owner PROVE Chance(i, o)' <= Chance(i, o)
    <3>1. CASE o = Nobody
      BY <1>3, <1>7, <3>1, OpenKept, ChancesAreInts
    <3>2. CASE o = r
      BY <2>1, <3>2
    <3>3. CASE o \in Run \ {r}
      BY <1>2, <1>7, <3>3, ChanceKept, ChancesAreInts
    <3> QED
      BY <3>1, <3>2, <3>3 DEF Owner
  <2>3. CASE effects'[i] = effects[i] \/ mishaps'[i] = mishaps[i] + 1
    BY <1>3, <2>2, <2>3, PaidFewer DEF JobsInv
  <2>4. CASE effects'[i] = effects[i] + 1 /\ mishaps'[i] = mishaps[i]
    <3>1. run[r].at \in Hopeful /\ place \notin Hopeful
      BY <1>4, <2>4
    <3>2. Chance(i, r) >= 0
      BY <1>1, <3>1, LeasedJobsAssumption DEF Chance, WorksOn
    <3>3. Chance(i, r)' < 0
      BY <1>2, <1>7, <3>1, ChanceKept
    <3> QED
      BY <1>3, <2>2, <2>4, <3>2, <3>3, PaidEnded DEF JobsInv
  <2> QED
    BY <2>3, <2>4
<1>9. Recorded(i)'
  <2>1. Recorded(i) /\ Working(r)
    BY DEF JobsInv
  <2>2. mishaps'[i] = 0 => mishaps[i] = 0 /\ status[i] = "pending"
    BY <1>1, <1>4, <2>1 DEF Working
  <2>3. effects[i] > 0 => effects'[i] > 0
    BY <1>4
  <2> QED
    BY <1>3, <2>1, <2>2, <2>3 DEF Recorded, RowKept
<1>10. Busy(r)' => /\ run'[r].row = run[r].row
                   /\ run'[r].at \in {"succeed", "replied"} => effects'[i] > 0
                   /\ mishaps'[i] = 0 => RowKept(i) /\ run'[r].at # "replied"
  BY <1>2, <1>3, <1>4
<1> QED
  BY <1>2, <1>5, <1>6, <1>8, <1>9, <1>10, StepOf

LEMMA AtWork ==
  ASSUME IInv, NEW r \in Run, run[r].at \notin {"idle", "loop"}
  PROVE  /\ Busy(r) /\ JobOf(r) \in Job /\ WorksOn(r, JobOf(r))
         /\ run[r].process \in Process
         /\ effects[JobOf(r)] \in Nat /\ mishaps[JobOf(r)] \in Nat
<1>1. Sane /\ Busy(r)
  BY DEF IInv, Busy
<1> QED
  BY <1>1, RowOf DEF Sane, TypeOK, Locals, WorksOn

\* An effect of r's job, in sight.
LEMMA Effect ==
  ASSUME Sane, NEW i \in Job, effects' = [effects EXCEPT ![i] = @ + 1]
  PROVE  /\ effects' \in [Job -> Nat] /\ effects'[i] = effects[i] + 1
         /\ \A j \in Job \ {i} : effects'[j] = effects[j]
  BY DEF Sane, TypeOK

LEMMA DeliverOrReplyKeeps ==
  ASSUME IInv, NEW r \in Run, Deliver(r) \/ Reply(r)
  PROVE  Sane' /\ JobsInv'
<1> DEFINE i == JobOf(r)
<1>1. run[r].at \in {"deliver", "reply"}
  BY DEF Deliver, Reply
<1>2. /\ Busy(r) /\ i \in Job /\ WorksOn(r, i) /\ effects[i] \in Nat
      /\ Sane /\ JobsInv /\ TypeOK
  BY <1>1, AtWork DEF IInv, Sane
<1>3. /\ UNCHANGED <<rowVars, ledger, tries>> /\ UNCHANGED mishaps
      /\ UNCHANGED slots /\ UNCHANGED lock /\ UNCHANGED actions
  BY DEF Deliver, Reply, limitVars
<1>4. /\ mishaps' \in [Job -> Nat] /\ slots' \in [Process -> 0..MaxSlots]
      /\ lock' \in Run \union {Nobody} /\ actions' \in Nat
  BY <1>2, <1>3 DEF TypeOK
<1>5. \/ effects' = [effects EXCEPT ![i] = @ + 1] /\ Goto(r, "succeed")
      \/ UNCHANGED effects /\ Goto(r, "retry")
  BY DEF Deliver, Reply
<1>6. {"succeed", "retry"} \subseteq Places \ {"idle", "loop"}
      /\ "retry" \in Hopeful /\ "succeed" \notin Hopeful /\ run[r].at \in Hopeful
  BY <1>1 DEF Places, Hopeful
<1> HIDE DEF i
<1>7. CASE effects' = [effects EXCEPT ![i] = @ + 1] /\ Goto(r, "succeed")
  <2>1. /\ effects' \in [Job -> Nat] /\ effects'[i] = effects[i] + 1
        /\ \A j \in Job \ {i} : effects'[j] = effects[j]
    BY <1>2, <1>7, Effect
  <2>2. Sane'
    BY <1>2, <1>3, <1>4, <1>6, <1>7, <2>1, MoveSane
  <2>3. effects'[i] > 0 /\ effects'[i] \in {effects[i], effects[i] + 1}
    BY <1>2, <2>1
  <2>4. JobsInv'
    BY <1>2, <1>3, <1>6, <1>7, <2>1, <2>2, <2>3, MoveKeeps
  <2> QED
    BY <2>2, <2>4
<1>8. CASE UNCHANGED effects /\ Goto(r, "retry")
  <2>1. effects' \in [Job -> Nat] /\ effects'[i] # effects[i] + 1
    BY <1>2, <1>8 DEF TypeOK
  <2>2. Sane'
    BY <1>2, <1>3, <1>4, <1>6, <1>8, <2>1, MoveSane
  <2>3. JobsInv'
    BY <1>2, <1>3, <1>6, <1>8, <2>1, <2>2, MoveKeeps
  <2> QED
    BY <2>2, <2>3
<1> QED
  BY <1>5, <1>7, <1>8

LEMMA EffectUnseenKeeps ==
  ASSUME IInv, NEW r \in Run, EffectUnseen(r)
  PROVE  Sane' /\ JobsInv'
<1> DEFINE i == JobOf(r)
<1>1. run[r].at \in {"deliver", "reply"}
  BY DEF EffectUnseen
<1>2. /\ Busy(r) /\ i \in Job /\ WorksOn(r, i) /\ effects[i] \in Nat
      /\ Sane /\ JobsInv /\ TypeOK
  BY <1>1, AtWork DEF IInv, Sane
<1>3. /\ UNCHANGED <<rowVars, ledger, tries>>
      /\ UNCHANGED slots /\ UNCHANGED lock /\ UNCHANGED actions
  BY DEF EffectUnseen, limitVars
<1>4. /\ GoesWrong({i}) /\ effects' = [effects EXCEPT ![i] = @ + 1] /\ Goto(r, "retry")
  BY DEF EffectUnseen
<1>5. "retry" \in Places \ {"idle", "loop"} /\ "retry" \in Hopeful /\ run[r].at \in Hopeful
  BY <1>1 DEF Places, Hopeful
<1> HIDE DEF i
<1>6. /\ mishaps' \in [Job -> Nat] /\ mishaps'[i] = mishaps[i] + 1
      /\ \A j \in Job \ {i} : mishaps'[j] = mishaps[j]
  BY <1>2, <1>4, Wrong
<1>7. /\ effects' \in [Job -> Nat] /\ effects'[i] = effects[i] + 1
      /\ \A j \in Job \ {i} : effects'[j] = effects[j]
  BY <1>2, <1>4, Effect
<1>8. /\ slots' \in [Process -> 0..MaxSlots] /\ lock' \in Run \union {Nobody}
      /\ actions' \in Nat
  BY <1>2, <1>3 DEF TypeOK
<1>9. Sane'
  BY <1>2, <1>3, <1>4, <1>5, <1>6, <1>7, <1>8, MoveSane
<1>10. JobsInv'
  BY <1>2, <1>3, <1>4, <1>5, <1>6, <1>7, <1>9, MoveKeeps
<1> QED
  BY <1>9, <1>10

\* A move of a run inside the limits, or to and from them, which no job notices.
LEMMA LimitMoveKeeps ==
  ASSUME IInv, NEW r \in Run, NEW place \in Places \ {"idle", "loop"}, Goto(r, place),
         run[r].at \in Hopeful, place \in Hopeful,
         UNCHANGED <<rowVars, ledger, effects, tries>>,
         mishaps' = mishaps \/ GoesWrong({JobOf(r)}),
         slots' \in [Process -> 0..MaxSlots], lock' \in Run \union {Nobody},
         actions' \in Nat
  PROVE  Sane' /\ JobsInv'
<1> DEFINE i == JobOf(r)
<1>1. /\ Busy(r) /\ i \in Job /\ WorksOn(r, i) /\ effects[i] \in Nat /\ mishaps[i] \in Nat
      /\ Sane /\ JobsInv /\ TypeOK
  BY AtWork DEF IInv, Sane, Hopeful
<1>2. mishaps' = mishaps \/ GoesWrong({i})
  OBVIOUS
<1> HIDE DEF i
<1>3. /\ mishaps' \in [Job -> Nat] /\ mishaps'[i] \in {mishaps[i], mishaps[i] + 1}
      /\ \A j \in Job \ {i} : mishaps'[j] = mishaps[j]
  <2>1. CASE mishaps' = mishaps
    BY <1>1, <2>1 DEF TypeOK
  <2>2. CASE GoesWrong({i})
    BY <1>1, <2>2, Wrong
  <2> QED
    BY <1>2, <2>1, <2>2
<1>4. effects' \in [Job -> Nat] /\ effects' = effects /\ effects'[i] # effects[i] + 1
  BY <1>1 DEF TypeOK
<1>5. place \notin {"succeed", "replied"}
  BY DEF Hopeful
<1>6. Sane'
  BY <1>1, <1>3, <1>4, MoveSane
<1>7. JobsInv'
  BY <1>1, <1>3, <1>4, <1>5, <1>6, MoveKeeps
<1> QED
  BY <1>6, <1>7

-------------------------------------------------------------------------------
\* The limits.

Inside(p) == {r \in Run : run[r].process = p /\ run[r].at \in {"lock", "rate", "sandbox"}}
AtSandbox == {r \in Run : run[r].at = "sandbox"}

LEMMA LimitsSay ==
  /\ LimitsInv <=>
       /\ \A p \in Process : slots[p] = Cardinality(Inside(p))
       /\ \A r \in Run : lock = r <=> run[r].at \in {"rate", "sandbox"}
       /\ actions + Cardinality(AtSandbox) <= MaxActions
  /\ LimitsInv' <=>
       /\ \A p \in Process : slots'[p] = Cardinality(Inside(p)')
       /\ \A r \in Run : lock' = r <=> run'[r].at \in {"rate", "sandbox"}
       /\ actions' + Cardinality(AtSandbox') <= MaxActions
<1>1. LimitsInv <=>
        /\ \A p \in Process : slots[p] = Cardinality(Inside(p))
        /\ \A r \in Run : lock = r <=> run[r].at \in {"rate", "sandbox"}
        /\ actions + Cardinality(AtSandbox) <= MaxActions
  BY DEF LimitsInv, NothingLeaks, RateRespected, Inside, AtSandbox
<1>2. LimitsInv' <=>
        /\ \A p \in Process : slots'[p] = Cardinality(Inside(p)')
        /\ \A r \in Run : lock' = r <=> run'[r].at \in {"rate", "sandbox"}
        /\ actions' + Cardinality(AtSandbox') <= MaxActions
  BY DEF LimitsInv, NothingLeaks, RateRespected, Inside, AtSandbox
<1> QED
  BY <1>1, <1>2

LEMMA FinitelyManyInside ==
  /\ \A p \in Process : IsFiniteSet(Inside(p)) /\ Cardinality(Inside(p)) \in Nat
  /\ \A p \in Process : IsFiniteSet(Inside(p)') /\ Cardinality(Inside(p)') \in Nat
  /\ IsFiniteSet(AtSandbox) /\ Cardinality(AtSandbox) \in Nat
  /\ IsFiniteSet(AtSandbox') /\ Cardinality(AtSandbox') \in Nat
<1>1. \A X \in SUBSET Run : IsFiniteSet(X) /\ Cardinality(X) \in Nat
  BY LeasedJobsAssumption, FS_Subset, FS_CardinalityType
<1>2. \A p \in Process : Inside(p) \in SUBSET Run /\ Inside(p)' \in SUBSET Run
  BY DEF Inside
<1>3. AtSandbox \in SUBSET Run /\ AtSandbox' \in SUBSET Run
  BY DEF AtSandbox
<1> QED
  BY <1>1, <1>2, <1>3

\* A step that no limit notices.
LEMMA LimitsStay ==
  ASSUME LimitsInv, UNCHANGED limitVars,
         \A q \in Run :
           /\ run'[q].at \in {"lock", "rate", "sandbox"} <=>
                run[q].at \in {"lock", "rate", "sandbox"}
           /\ run[q].at \in {"lock", "rate", "sandbox"} =>
                run'[q].at = run[q].at /\ run'[q].process = run[q].process
  PROVE  LimitsInv'
<1>1. slots' = slots /\ lock' = lock /\ actions' = actions
  BY DEF limitVars
<1>2. \A p \in Process : Inside(p)' = Inside(p)
  BY DEF Inside
<1>3. AtSandbox' = AtSandbox
  BY DEF AtSandbox
<1>4. \A r \in Run : run'[r].at \in {"rate", "sandbox"} <=> run[r].at \in {"rate", "sandbox"}
  OBVIOUS
<1> QED
  BY <1>1, <1>2, <1>3, <1>4, LimitsSay

LEMMA StartSkillKeeps ==
  ASSUME IInv, NEW r \in Run, StartSkill(r)
  PROVE  IInv'
<1>1. run[r].at = "skill"
  BY DEF StartSkill
<1>2. Sane /\ TypeOK /\ LimitsInv /\ Busy(r) /\ run[r].process \in Process
  BY <1>1, AtWork DEF IInv, Sane
<1>0. PICK p \in Process : p = run[r].process
  BY <1>2
<1>3. /\ UNCHANGED <<rowVars, ledger, effects, tries>> /\ mishaps' = mishaps
      /\ lock' = lock /\ actions' = actions
  BY DEF StartSkill, history
<1>4. \/ \E place \in {"refuse", "retry"} : Goto(r, place) /\ slots' = slots
      \/ slots[p] < MaxSlots /\ slots' = [slots EXCEPT ![p] = @ + 1] /\ Goto(r, "lock")
  BY <1>0 DEF StartSkill
<1>5. lock' \in Run \union {Nobody} /\ actions' \in Nat
  BY <1>2, <1>3 DEF TypeOK
<1>6. /\ {"refuse", "retry", "lock"} \subseteq Places \ {"idle", "loop"}
      /\ {"skill", "refuse", "retry", "lock"} \subseteq Hopeful
  BY DEF Places, Hopeful
<1>7. ASSUME NEW place \in {"refuse", "retry"}, Goto(r, place), slots' = slots
      PROVE  IInv'
  <2>1. slots' \in [Process -> 0..MaxSlots]
    BY <1>2, <1>7 DEF TypeOK
  <2>2. Sane' /\ JobsInv'
    BY <1>1, <1>3, <1>5, <1>6, <1>7, <2>1, LimitMoveKeeps
  <2>3. \A q \in Run \ {r} : run'[q] = run[q]
    BY <1>2, <1>6, <1>7, GotoMoves
  <2>4. run'[r].at = place
    BY <1>2, <1>6, <1>7, GotoMoves
  <2>5. LimitsInv'
    <3>1. UNCHANGED limitVars
      BY <1>3, <1>7 DEF limitVars
    <3> QED
      BY <1>1, <1>2, <2>3, <2>4, <3>1, LimitsStay
  <2> QED
    BY <2>2, <2>5 DEF IInv
<1>8. ASSUME slots[p] < MaxSlots, slots' = [slots EXCEPT ![p] = @ + 1], Goto(r, "lock")
      PROVE  IInv'
  <2>1. /\ slots \in [Process -> 0..MaxSlots] /\ slots' \in [Process -> 0..MaxSlots]
        /\ slots'[p] = slots[p] + 1 /\ \A q \in Process \ {p} : slots'[q] = slots[q]
    BY <1>2, <1>8, LeasedJobsAssumption DEF TypeOK
  <2>2. Sane' /\ JobsInv'
    BY <1>1, <1>3, <1>5, <1>6, <1>8, <2>1, LimitMoveKeeps
  <2>3. /\ \A q \in Run \ {r} : run'[q] = run[q]
        /\ run'[r].at = "lock" /\ run'[r].process = p
    BY <1>2, <1>6, <1>8, <1>0, GotoMoves
  <2>4. Inside(p)' = Inside(p) \union {r} /\ r \notin Inside(p)
    BY <1>0, <1>1, <2>3 DEF Inside
  <2>5. slots'[p] = Cardinality(Inside(p)')
    <3>1. Cardinality(Inside(p) \union {r}) = Cardinality(Inside(p)) + 1
      BY <1>2, <2>4, FinitelyManyInside, FS_AddElement
    <3> QED
      BY <1>2, <2>1, <2>4, <3>1, LimitsSay
  <2>6. \A q \in Process \ {p} : Inside(q)' = Inside(q)
    BY <1>0, <1>1, <2>3 DEF Inside
  <2>7. AtSandbox' = AtSandbox
    BY <1>1, <2>3 DEF AtSandbox
  <2>8. \A q \in Run : lock' = q <=> run'[q].at \in {"rate", "sandbox"}
    BY <1>1, <1>2, <1>3, <2>3, LimitsSay
  <2>9. LimitsInv'
    <3>1. \A q \in Process : slots'[q] = Cardinality(Inside(q)')
      <4>1. \A q \in Process \ {p} : slots[q] = Cardinality(Inside(q))
        BY <1>2, LimitsSay
      <4> QED
        BY <2>1, <2>5, <2>6, <4>1
    <3>2. actions' + Cardinality(AtSandbox') <= MaxActions
      BY <1>2, <1>3, <2>7, LimitsSay
    <3> QED
      BY <2>8, <3>1, <3>2, LimitsSay
  <2> QED
    BY <2>2, <2>9 DEF IInv
<1> QED
  BY <1>4, <1>7, <1>8

LEMMA TakeLockKeeps ==
  ASSUME IInv, NEW r \in Run, TakeLock(r)
  PROVE  IInv'
<1>1. run[r].at = "lock" /\ lock = Nobody /\ lock' = r /\ Goto(r, "rate")
  BY DEF TakeLock
<1>2. Sane /\ TypeOK /\ LimitsInv /\ Busy(r)
  BY <1>1, AtWork DEF IInv, Sane
<1>3. /\ UNCHANGED <<rowVars, ledger, effects, tries>> /\ mishaps' = mishaps
      /\ slots' = slots /\ actions' = actions
  BY DEF TakeLock, history
<1>4. "rate" \in Places \ {"idle", "loop"} /\ {"lock", "rate"} \subseteq Hopeful
  BY DEF Places, Hopeful
<1>5. /\ slots' \in [Process -> 0..MaxSlots] /\ lock' \in Run \union {Nobody}
      /\ actions' \in Nat
  BY <1>1, <1>2, <1>3 DEF TypeOK
<1>6. Sane' /\ JobsInv'
  BY <1>1, <1>3, <1>4, <1>5, LimitMoveKeeps
<1>7. /\ \A q \in Run \ {r} : run'[q] = run[q]
      /\ run'[r].at = "rate" /\ run'[r].process = run[r].process
  BY <1>1, <1>2, <1>4, GotoMoves
<1>8. \A p \in Process : Inside(p)' = Inside(p)
  BY <1>1, <1>7 DEF Inside
<1>9. AtSandbox' = AtSandbox
  BY <1>1, <1>7 DEF AtSandbox
<1>10. \A q \in Run : lock' = q <=> run'[q].at \in {"rate", "sandbox"}
  <2>1. \A q \in Run : run[q].at \notin {"rate", "sandbox"}
    BY <1>1, <1>2, LimitsSay, LeasedJobsAssumption
  <2> QED
    BY <1>1, <1>7, <2>1
<1>11. LimitsInv'
  BY <1>2, <1>3, <1>8, <1>9, <1>10, LimitsSay
<1> QED
  BY <1>6, <1>11 DEF IInv

\* The way out of the limits gives back the slot and the lock.
LEMMA GiveBackWorks ==
  ASSUME IInv, NEW r \in Run, run[r].at \in {"rate", "sandbox"}, GiveBack(r),
         NEW place \in {"reply", "retry"}, Goto(r, place)
  PROVE  /\ slots' \in [Process -> 0..MaxSlots] /\ lock' \in Run \union {Nobody}
         /\ \A p \in Process : slots'[p] = Cardinality(Inside(p)')
         /\ \A q \in Run : lock' = q <=> run'[q].at \in {"rate", "sandbox"}
         /\ AtSandbox \subseteq {r} /\ AtSandbox' = {}
<1>1. Sane /\ TypeOK /\ LimitsInv /\ Busy(r) /\ run[r].process \in Process
  BY AtWork DEF IInv, Sane
<1>2. PICK p \in Process : p = run[r].process
  BY <1>1
<1>3. lock' = Nobody /\ slots' = [slots EXCEPT ![p] = @ - 1]
  BY <1>2 DEF GiveBack
<1>4. place \in Places \ {"idle", "loop"}
  BY DEF Places, Hopeful
<1>5. /\ \A q \in Run \ {r} : run'[q] = run[q]
      /\ run'[r].at = place /\ run'[r].process = p
  BY <1>1, <1>2, <1>4, GotoMoves
<1>6. \A q \in Run \ {r} : run[q].at \notin {"rate", "sandbox"}
  <2>1. lock = r
    BY <1>1, LimitsSay
  <2> QED
    BY <1>1, <2>1, LimitsSay
<1>7. AtSandbox \subseteq {r} /\ AtSandbox' = {}
  BY <1>5, <1>6 DEF AtSandbox
<1>8. \A q \in Run : lock' = q <=> run'[q].at \in {"rate", "sandbox"}
  BY <1>3, <1>5, <1>6, LeasedJobsAssumption
<1>9. r \in Inside(p) /\ Inside(p)' = Inside(p) \ {r}
  BY <1>2, <1>5 DEF Inside
<1>10. /\ Cardinality(Inside(p)) = slots[p] /\ Cardinality(Inside(p)) \in Nat
       /\ Cardinality(Inside(p)') = slots[p] - 1 /\ Cardinality(Inside(p)') \in Nat
  BY <1>1, <1>9, FinitelyManyInside, FS_RemoveElement, LimitsSay
<1>11. /\ slots \in [Process -> 0..MaxSlots] /\ slots' \in [Process -> 0..MaxSlots]
       /\ slots'[p] = slots[p] - 1 /\ \A q \in Process \ {p} : slots'[q] = slots[q]
  BY <1>1, <1>3, <1>10, LeasedJobsAssumption DEF TypeOK
<1>12. \A q \in Process \ {p} : Inside(q)' = Inside(q) /\ slots[q] = Cardinality(Inside(q))
  BY <1>1, <1>2, <1>5, LimitsSay DEF Inside
<1>13. \A q \in Process : slots'[q] = Cardinality(Inside(q)')
  BY <1>10, <1>11, <1>12
<1> QED
  BY <1>3, <1>7, <1>8, <1>11, <1>13

LEMMA CheckRateKeeps ==
  ASSUME IInv, NEW r \in Run, CheckRate(r)
  PROVE  IInv'
<1>1. run[r].at = "rate"
  BY DEF CheckRate
<1>2. Sane /\ TypeOK /\ LimitsInv /\ Busy(r)
  BY <1>1, AtWork DEF IInv, Sane
<1>3. /\ UNCHANGED <<rowVars, ledger, effects, tries>> /\ mishaps' = mishaps
      /\ actions' = actions /\ actions' \in Nat
  BY <1>2 DEF CheckRate, history, TypeOK
<1>4. /\ {"retry", "sandbox"} \subseteq Places \ {"idle", "loop"}
      /\ {"retry", "rate", "sandbox"} \subseteq Hopeful
  BY DEF Places, Hopeful
<1>5. CASE actions >= MaxActions
  <2>1. GiveBack(r) /\ Goto(r, "retry")
    BY <1>5 DEF CheckRate
  <2>2. /\ slots' \in [Process -> 0..MaxSlots] /\ lock' \in Run \union {Nobody}
        /\ \A p \in Process : slots'[p] = Cardinality(Inside(p)')
        /\ \A q \in Run : lock' = q <=> run'[q].at \in {"rate", "sandbox"}
        /\ AtSandbox \subseteq {r} /\ AtSandbox' = {}
    BY <1>1, <2>1, GiveBackWorks
  <2>3. Sane' /\ JobsInv'
    BY <1>1, <1>3, <1>4, <2>1, <2>2, LimitMoveKeeps
  <2>4. AtSandbox = {}
    BY <1>1, <2>2 DEF AtSandbox
  <2>5. LimitsInv'
    BY <1>2, <1>3, <2>2, <2>4, LimitsSay
  <2> QED
    BY <2>3, <2>5 DEF IInv
<1>6. CASE ~(actions >= MaxActions)
  <2>1. slots' = slots /\ lock' = lock /\ Goto(r, "sandbox")
    BY <1>6 DEF CheckRate
  <2>2. slots' \in [Process -> 0..MaxSlots] /\ lock' \in Run \union {Nobody}
    BY <1>2, <2>1 DEF TypeOK
  <2>3. Sane' /\ JobsInv'
    BY <1>1, <1>3, <1>4, <2>1, <2>2, LimitMoveKeeps
  <2>4. /\ \A q \in Run \ {r} : run'[q] = run[q]
        /\ run'[r].at = "sandbox" /\ run'[r].process = run[r].process
    BY <1>2, <1>4, <2>1, GotoMoves
  <2>5. \A p \in Process : Inside(p)' = Inside(p)
    BY <1>1, <2>4 DEF Inside
  <2>6. \A q \in Run : lock' = q <=> run'[q].at \in {"rate", "sandbox"}
    BY <1>1, <1>2, <2>1, <2>4, LimitsSay
  <2>7. AtSandbox' = {r}
    <3>1. \A q \in Run \ {r} : run[q].at # "sandbox"
      BY <1>1, <1>2, LimitsSay
    <3> QED
      BY <2>4, <3>1 DEF AtSandbox
  <2>8. actions' + Cardinality(AtSandbox') <= MaxActions
    <3>1. Cardinality({r}) = 1
      BY FS_Singleton
    <3>2. actions + 1 <= MaxActions
      BY <1>2, <1>6, LeasedJobsAssumption DEF TypeOK
    <3> QED
      BY <1>3, <2>7, <3>1, <3>2
  <2>9. LimitsInv'
    BY <1>2, <2>1, <2>5, <2>6, <2>8, LimitsSay
  <2> QED
    BY <2>3, <2>9 DEF IInv
<1> QED
  BY <1>5, <1>6

LEMMA SandboxKeeps ==
  ASSUME IInv, NEW r \in Run, Sandbox(r)
  PROVE  IInv'
<1>1. run[r].at = "sandbox" /\ GiveBack(r)
  BY DEF Sandbox
<1>2. Sane /\ TypeOK /\ LimitsInv /\ Busy(r)
  BY <1>1, AtWork DEF IInv, Sane
<1>3. PICK place \in {"reply", "retry"} : Goto(r, place)
  BY DEF Sandbox
<1>4. /\ UNCHANGED <<rowVars, ledger, effects, tries>>
      /\ mishaps' = mishaps \/ GoesWrong({JobOf(r)})
      /\ actions' \in {actions, actions + 1} /\ actions' \in Nat
  BY <1>2 DEF Sandbox, TypeOK
<1>5. place \in Places \ {"idle", "loop"} /\ place \in Hopeful /\ run[r].at \in Hopeful
  BY <1>1 DEF Places, Hopeful
<1>6. /\ slots' \in [Process -> 0..MaxSlots] /\ lock' \in Run \union {Nobody}
      /\ \A p \in Process : slots'[p] = Cardinality(Inside(p)')
      /\ \A q \in Run : lock' = q <=> run'[q].at \in {"rate", "sandbox"}
      /\ AtSandbox \subseteq {r} /\ AtSandbox' = {}
  BY <1>1, <1>3, GiveBackWorks
<1>7. Sane' /\ JobsInv'
  BY <1>3, <1>4, <1>5, <1>6, LimitMoveKeeps
<1>8. actions' + Cardinality(AtSandbox') <= MaxActions
  <2>1. AtSandbox = {r}
    BY <1>1, <1>6 DEF AtSandbox
  <2>2. Cardinality({r}) = 1 /\ Cardinality({}) = 0
    BY FS_Singleton, FS_EmptySet
  <2>3. actions + 1 <= MaxActions
    BY <1>2, <2>1, <2>2, LimitsSay
  <2>4. actions \in Nat
    BY <1>2 DEF TypeOK
  <2>5. actions' <= MaxActions
    BY <1>4, <2>3, <2>4, LeasedJobsAssumption
  <2> QED
    BY <1>4, <1>6, <2>2, <2>5
<1>9. LimitsInv'
  BY <1>6, <1>8, LimitsSay
<1> QED
  BY <1>7, <1>9 DEF IInv

-------------------------------------------------------------------------------
\* The last update of a row.

\* The limits do not notice a run outside them that goes to its next row.
LEMMA LeaveLimits ==
  ASSUME Sane, LimitsInv, NEW r \in Run, Busy(r), NextRow(r), UNCHANGED limitVars,
         run[r].at \notin {"lock", "rate", "sandbox"}
  PROVE  LimitsInv'
<1>1. run'[r].at = "loop" /\ \A q \in Run \ {r} : run'[q] = run[q]
  BY NextRowLeaves
<1> QED
  BY <1>1, LimitsStay

LEMMA LeaveSane ==
  ASSUME Sane, NEW r \in Run, Busy(r), NextRow(r),
         UNCHANGED limitVars, UNCHANGED <<effects, tries>>, mishaps' \in [Job -> Nat],
         status' \in [Job -> {"none", "pending"} \union Final],
         attempts' \in [Job -> 0..MaxAttempts], nextAttemptAt' \in [Job -> Nat],
         due' \subseteq Job, removed' \subseteq Webhook,
         ledger' \in [Job -> SUBSET {"succeeded", "failed"}]
  PROVE  Sane'
<1>1. DOMAIN run' = Run /\ \A q \in Run : Locals(q)'
  BY NextRowLeaves
<1>2. TypeOK'
  BY <1>1 DEF TypeOK, Sane, limitVars
<1> QED
  BY <1>1, <1>2 DEF Sane

\* A run with a chance has not taken effect without a mishap to pay for it.
LEMMA HopefulPays ==
  ASSUME IInv, NEW r \in Run, NEW i \in Job, WorksOn(r, i), run[r].at \in Hopeful
  PROVE  /\ Chance(i, r) = MaxAttempts - 1 - run[r].row.attempts /\ Chance(i, r) >= 0
         /\ effects[i] <= mishaps[i]
<1>1. /\ Sane /\ Paid(i) /\ Working(r) /\ r \in Owner
      /\ effects[i] \in Nat /\ mishaps[i] \in Nat
  BY DEF IInv, JobsInv, Owner, Sane, TypeOK
<1>2. /\ run[r].row.attempts \in Nat /\ run[r].row.attempts < MaxAttempts
  BY <1>1, RowOf DEF Working, WorksOn
<1>3. Chance(i, r) = MaxAttempts - 1 - run[r].row.attempts /\ Chance(i, r) >= 0
  BY <1>2, LeasedJobsAssumption DEF Chance
<1> DEFINE f == Chances(i)
<1>4. f = [o \in Owner |-> Chance(i, o)] /\ f[r] >= 0
  BY <1>1, <1>3 DEF Chances
<1>5. \A o \in Owner : Chance(i, o) \in Int
  BY <1>1, ChanceIsInt
<1>6. f \in [Owner -> Int]
  BY <1>4, <1>5
<1>7. effects[i] + Cardinality(Having(f)) <= 1 + mishaps[i]
  BY <1>1 DEF Paid, Within
<1> HIDE DEF f
<1>8. Cardinality(Having(f)) >= 1
  <2>1. r \in Having(f) /\ {r} \subseteq Having(f)
    BY <1>1, <1>4 DEF Having
  <2>2. Cardinality({r}) <= Cardinality(Having(f)) /\ Cardinality({r}) = 1
    BY <1>6, <2>1, FiniteCounts, FS_Subset, FS_Singleton
  <2> QED
    BY <1>6, <2>2, FiniteCounts
<1>9. effects[i] <= mishaps[i]
  BY <1>1, <1>6, <1>7, <1>8, FiniteCounts
<1> QED
  BY <1>3, <1>9

LEMMA LeaveKeeps ==
  ASSUME Sane, Sane', JobsInv, NEW r \in Run, NEW i \in Job, WorksOn(r, i), NextRow(r),
         UNCHANGED <<effects, tries>>,
         mishaps'[i] \in {mishaps[i], mishaps[i] + 1},
         \A j \in Job \ {i} :
           RowKept(j) /\ mishaps'[j] = mishaps[j] /\ ledger'[j] = ledger[j],
         Later(i), Recorded(i)',
         \/ mishaps'[i] = mishaps[i] + 1
         \/ status'[i] \in Final
         \/ /\ Chance(i, r) = MaxAttempts - 1 - run[r].row.attempts /\ Chance(i, r) >= 0
            /\ attempts'[i] = run[r].row.attempts + 1
  PROVE  JobsInv'
<1>1. Busy(r) /\ run[r].row.attempts \in Nat
  BY RowOf DEF WorksOn
<1>2. /\ \A q \in Run \ {r} : run'[q] = run[q]
      /\ run'[r].at = "loop" /\ run'[r].rows = run[r].rows /\ ~Busy(r)'
  BY <1>1, NextRowLeaves
<1>3. r # Nobody /\ r \in Owner /\ Nobody \in Owner /\ MaxAttempts \in Nat
  BY LeasedJobsAssumption DEF Owner
<1>4. ASSUME NEW q \in Run \ {r} PROVE Chance(i, q)' = Chance(i, q)
  BY <1>2, LeasedJobsAssumption DEF Chance, WorksOn, Busy, JobOf
<1>5. Chance(i, r)' = -1
  BY <1>2, <1>3 DEF Chance, WorksOn
<1>6. Chance(i, r) >= -1
  <2>1. run[r].row.attempts < MaxAttempts
    BY <1>1 DEF JobsInv, Working
  <2> QED
    BY <1>1, <1>3, <2>1 DEF Chance
<1>7. \A q \in Run : Chance(i, q)' <= Chance(i, q)
  <2>1. \A q \in Run : Chance(i, q) \in Int
    BY ChancesAreInts DEF Owner
  <2> QED
    BY <1>4, <1>5, <1>6, <2>1
<1>8. tries'[i] = tries[i] /\ effects'[i] = effects[i] /\ Paid(i)
  BY DEF JobsInv
<1>9. Paid(i)'
  <2>1. CASE mishaps'[i] = mishaps[i] + 1
    BY <1>7, <1>8, <2>1, PaidGained
  <2>2. CASE status'[i] \in Final
    <3>1. Chance(i, Nobody)' = -1
      BY <2>2 DEF Chance, Open, Final
    <3>2. Chance(i, Nobody) >= -1
      BY <1>3 DEF Chance, Sane, TypeOK
    <3>3. ASSUME NEW o \in Owner PROVE Chance(i, o)' <= Chance(i, o)
      BY <1>3, <1>7, <3>1, <3>2, ChancesAreInts DEF Owner
    <3> QED
      BY <1>8, <3>3, PaidFewer
  <2>3. CASE /\ Chance(i, r) = MaxAttempts - 1 - run[r].row.attempts /\ Chance(i, r) >= 0
             /\ attempts'[i] = run[r].row.attempts + 1
             /\ mishaps'[i] = mishaps[i]
    <3>1. Chance(i, Nobody)' <= Chance(i, r)
      <4>1. Chance(i, Nobody)' \in {MaxAttempts - attempts'[i], -1}
        BY DEF Chance
      <4> QED
        BY <1>1, <1>3, <2>3, <4>1
    <3>2. \A x \in Owner \ {r, Nobody} : Chance(i, x)' <= Chance(i, x)
      BY <1>7 DEF Owner
    <3>3. Chance(i, r)' < 0 /\ Chance(i, r) >= 0 /\ mishaps'[i] = mishaps[i]
      BY <1>5, <2>3
    <3> QED
      BY <1>3, <1>8, <3>1, <3>2, <3>3, PaidMoved
  <2> QED
    BY <2>1, <2>2, <2>3
<1>10. \A j \in Job : Later(j)
  <2>1. ASSUME NEW j \in Job \ {i} PROVE Later(j)
    <3>1. /\ nextAttemptAt[j] \in Nat /\ effects[j] \in Nat /\ mishaps[j] \in Nat
          /\ effects'[j] = effects[j] /\ mishaps'[j] = mishaps[j]
      BY DEF Sane, TypeOK
    <3> QED
      BY <3>1 DEF Later, RowKept
  <2> QED
    BY <2>1
<1>11. \A j \in Job \ {i} : RowKept(j) /\ CountsKept(j) /\ ledger'[j] = ledger[j]
  BY DEF CountsKept
<1> QED
  BY <1>2, <1>9, <1>10, <1>11, StepOf

LEMMA AtMostOne ==
  ASSUME NEW x, NEW X \in SUBSET {x}
  PROVE  Cardinality(X) <= 1
<1>1. Cardinality({x}) = 1 /\ IsFiniteSet({x})
  BY FS_Singleton
<1>2. Cardinality(X) <= Cardinality({x}) /\ Cardinality(X) \in Nat
  BY <1>1, FS_Subset, FS_CardinalityType
<1> QED
  BY <1>1, <1>2

\* An update that ends the job: its outcome goes to the ledger with its status.
LEMMA FinishKeeps ==
  ASSUME IInv, NEW r \in Run, run[r].at \in {"succeed", "replied", "refuse", "retry"},
         NextRow(r), NEW new \in Final, SetStatus(JobOf(r), new),
         NEW X \in {{}, {"succeeded"}, {"failed"}},
         ledger' = [ledger EXCEPT ![JobOf(r)] = @ \union X],
         \/ attempts' = attempts
         \/ attempts' = [attempts EXCEPT ![JobOf(r)] = run[r].row.attempts + 1],
         UNCHANGED <<nextAttemptAt, due, removed, limitVars, history>>,
         run[r].at = "succeed" => new # "failed",
         new # "failed" \/ "succeeded" \in X => run[r].at \in {"succeed", "replied"}
  PROVE  IInv'
<1>0. PICK i \in Job : i = JobOf(r)
  BY AtWork DEF IInv
<1>1. /\ Busy(r) /\ i \in Job /\ WorksOn(r, i) /\ effects[i] \in Nat /\ mishaps[i] \in Nat
      /\ Sane /\ TypeOK /\ JobsInv /\ LimitsInv
  BY <1>0, AtWork DEF IInv, Sane
<1>2. /\ Working(r) /\ Recorded(i) /\ run[r].row.attempts \in Nat
  BY <1>0, <1>1, RowOf DEF JobsInv
<1>3. /\ run[r].row.attempts < MaxAttempts
      /\ run[r].at \in {"succeed", "replied"} => effects[i] > 0
      /\ mishaps[i] = 0 => status[i] = "pending" /\ run[r].at # "replied"
  BY <1>0, <1>1, <1>2 DEF Working
<1>4. /\ status' = [status EXCEPT ![i] = new]
      /\ ledger' = [ledger EXCEPT ![i] = @ \union X]
      /\ attempts' = attempts \/ attempts' = [attempts EXCEPT ![i] = run[r].row.attempts + 1]
  BY <1>0 DEF SetStatus
<1>5. run[r].at \notin {"succeed", "replied"} => effects[i] <= mishaps[i]
  <2>1. run[r].at \notin {"succeed", "replied"} => run[r].at \in Hopeful
    BY DEF Hopeful
  <2> QED
    BY <1>1, <2>1, HopefulPays
<1>6. /\ nextAttemptAt' = nextAttemptAt /\ due' = due /\ UNCHANGED limitVars
      /\ effects' = effects /\ tries' = tries /\ mishaps' = mishaps /\ removed' = removed
  BY DEF history
<1>7. /\ status' \in [Job -> {"none", "pending"} \union Final]
      /\ status'[i] = new /\ \A j \in Job \ {i} : status'[j] = status[j]
  BY <1>1, <1>4 DEF TypeOK
<1>8. /\ attempts' \in [Job -> 0..MaxAttempts]
      /\ \A j \in Job \ {i} : attempts'[j] = attempts[j]
  <2>1. run[r].row.attempts + 1 \in 0..MaxAttempts
    BY <1>2, <1>3, LeasedJobsAssumption
  <2> QED
    BY <1>1, <1>4, <2>1 DEF TypeOK
<1>9. /\ ledger' \in [Job -> SUBSET {"succeeded", "failed"}]
      /\ ledger'[i] = ledger[i] \union X
      /\ \A j \in Job \ {i} : ledger'[j] = ledger[j]
  <2> DEFINE Y == ledger[i] \union X
  <2>1. ledger \in [Job -> SUBSET {"succeeded", "failed"}]
    BY <1>1 DEF TypeOK
  <2>2. Y \in SUBSET {"succeeded", "failed"}
    BY <1>1, <2>1
  <2>3. ledger' = [ledger EXCEPT ![i] = Y]
    BY <1>4
  <2> HIDE DEF Y
  <2>4. /\ ledger' \in [Job -> SUBSET {"succeeded", "failed"}] /\ ledger'[i] = Y
        /\ \A j \in Job \ {i} : ledger'[j] = ledger[j]
    BY <1>1, <2>1, <2>2, <2>3
  <2> QED
    BY <2>4 DEF Y
<1>10. /\ nextAttemptAt' \in [Job -> Nat] /\ due' \subseteq Job /\ mishaps' \in [Job -> Nat]
       /\ removed' \subseteq Webhook
  BY <1>1, <1>6 DEF TypeOK
<1>11. Sane'
  BY <1>1, <1>6, <1>7, <1>8, <1>9, <1>10, LeaveSane
<1>12. Later(i)
  <2>1. nextAttemptAt[i] \in Nat
    BY <1>1 DEF TypeOK
  <2> QED
    BY <1>1, <1>6, <1>7, <2>1 DEF Later, Final
<1>13. Recorded(i)'
  <2>1. status'[i] \in {"delivered", "done"} \/ "succeeded" \in ledger'[i] => effects'[i] > 0
    <3>1. status'[i] \in {"delivered", "done"} => effects[i] > 0
      BY <1>3, <1>7
    <3>2. "succeeded" \in ledger'[i] => effects[i] > 0
      BY <1>2, <1>3, <1>9 DEF Recorded
    <3> QED
      BY <1>6, <3>1, <3>2
  <2>2. mishaps'[i] = 0 /\ status'[i] = "failed" => effects'[i] = 0
    <3>1. ASSUME mishaps[i] = 0, new = "failed" PROVE effects[i] = 0
      <4>1. run[r].at \notin {"succeed", "replied"}
        BY <1>3, <3>1
      <4> QED
        BY <1>1, <1>5, <3>1, <4>1
    <3> QED
      BY <1>6, <1>7, <3>1
  <2>3. mishaps'[i] = 0 => Cardinality(ledger'[i]) <= 1
    <3>1. ASSUME mishaps[i] = 0 PROVE Cardinality(ledger'[i]) <= 1
      <4>1. ledger'[i] = X
        BY <1>2, <1>3, <1>9, <3>1 DEF Recorded, Final
      <4>2. PICK x : X \subseteq {x}
        OBVIOUS
      <4> QED
        BY <4>1, <4>2, AtMostOne
    <3> QED
      BY <1>6, <3>1
  <2> QED
    BY <1>7, <2>1, <2>2, <2>3 DEF Recorded, Final
<1>14. \A j \in Job \ {i} : RowKept(j) /\ mishaps'[j] = mishaps[j] /\ ledger'[j] = ledger[j]
  BY <1>6, <1>7, <1>8, <1>9 DEF RowKept
<1>15. status'[i] \in Final
  BY <1>7
<1>16. JobsInv'
  <2>1. UNCHANGED <<effects, tries>> /\ mishaps'[i] \in {mishaps[i], mishaps[i] + 1}
    BY <1>6
  <2> QED
    BY <1>1, <1>11, <1>12, <1>13, <1>14, <1>15, <2>1, LeaveKeeps
<1>17. LimitsInv'
  BY <1>1, <1>6, LeaveLimits
<1> QED
  BY <1>11, <1>16, <1>17 DEF IInv

LEMMA SucceedKeeps ==
  ASSUME IInv, NEW r \in Run, Succeed(r)
  PROVE  IInv'
<1>1. run[r].at = "succeed" /\ NextRow(r)
  BY DEF Succeed
<1>2. PICK new \in {"delivered", "done"} : SetStatus(JobOf(r), new)
  BY DEF Succeed
<1>3. PICK X \in {{}, {"succeeded"}} : ledger' = [ledger EXCEPT ![JobOf(r)] = @ \union X]
  <2>1. {o \in {"succeeded"} : JobOf(r) \in Mention} \in {{}, {"succeeded"}}
    OBVIOUS
  <2>2. ledger' = [ledger EXCEPT ![JobOf(r)] =
                     @ \union {o \in {"succeeded"} : JobOf(r) \in Mention}]
    BY DEF Succeed
  <2> QED
    BY <2>1, <2>2
<1>4. attempts' = attempts /\ UNCHANGED <<nextAttemptAt, due, removed, limitVars, history>>
  BY DEF Succeed
<1>5. new \in Final /\ new # "failed"
  BY DEF Final
<1> QED
  BY <1>1, <1>2, <1>3, <1>4, <1>5, FinishKeeps

LEMMA MarkRepliedKeeps ==
  ASSUME IInv, NEW r \in Run, MarkReplied(r)
  PROVE  IInv'
<1>1. /\ run[r].at = "replied" /\ NextRow(r) /\ SetStatus(JobOf(r), "failed")
      /\ attempts' = [attempts EXCEPT ![JobOf(r)] = run[r].row.attempts + 1]
      /\ ledger' = [ledger EXCEPT ![JobOf(r)] = @ \union {"succeeded"}]
      /\ UNCHANGED <<nextAttemptAt, due, removed, limitVars, history>>
  BY DEF MarkReplied
<1>2. "failed" \in Final
  BY DEF Final
<1> QED
  BY <1>1, <1>2, FinishKeeps

LEMMA RefuseKeeps ==
  ASSUME IInv, NEW r \in Run, Refuse(r)
  PROVE  IInv'
<1>1. /\ run[r].at = "refuse" /\ NextRow(r) /\ SetStatus(JobOf(r), "failed")
      /\ attempts' = [attempts EXCEPT ![JobOf(r)] = run[r].row.attempts + 1]
      /\ ledger' = [ledger EXCEPT ![JobOf(r)] = @ \union {"failed"}]
      /\ UNCHANGED <<nextAttemptAt, due, removed, limitVars, history>>
  BY DEF Refuse
<1>2. "failed" \in Final /\ "succeeded" \notin {"failed"}
  BY DEF Final
<1> QED
  BY <1>1, <1>2, FinishKeeps

\* Back to pending: the run's chance goes to whoever comes next.
LEMMA PutOffKeeps ==
  ASSUME IInv, NEW r \in Run, run[r].at = "retry", NextRow(r),
         run[r].row.attempts + 1 < MaxAttempts, SetStatus(JobOf(r), "pending"),
         attempts' = [attempts EXCEPT ![JobOf(r)] = run[r].row.attempts + 1],
         nextAttemptAt' = [nextAttemptAt EXCEPT ![JobOf(r)] = @ + 1],
         due' = due \ {JobOf(r)}, ledger' = ledger, UNCHANGED <<removed, limitVars, history>>
  PROVE  IInv'
<1>0. PICK i \in Job : i = JobOf(r)
  BY AtWork DEF IInv
<1>1. /\ Busy(r) /\ WorksOn(r, i) /\ effects[i] \in Nat /\ mishaps[i] \in Nat
      /\ Sane /\ TypeOK /\ JobsInv /\ LimitsInv
  BY <1>0, AtWork DEF IInv, Sane
<1>2. Working(r) /\ Recorded(i) /\ run[r].row.attempts \in Nat /\ run[r].at \in Hopeful
  BY <1>0, <1>1, RowOf DEF JobsInv, Hopeful
<1>3. mishaps[i] = 0 => status[i] = "pending"
  BY <1>0, <1>1, <1>2 DEF Working
<1>4. /\ effects' = effects /\ tries' = tries /\ mishaps' = mishaps /\ UNCHANGED limitVars
  BY DEF history
<1>5. /\ status' \in [Job -> {"none", "pending"} \union Final] /\ status'[i] = "pending"
      /\ \A j \in Job \ {i} : status'[j] = status[j]
  BY <1>0, <1>1 DEF TypeOK, SetStatus
<1>6. /\ attempts' \in [Job -> 0..MaxAttempts]
      /\ attempts'[i] = run[r].row.attempts + 1
      /\ \A j \in Job \ {i} : attempts'[j] = attempts[j]
  <2>1. run[r].row.attempts + 1 \in 0..MaxAttempts
    BY <1>2, LeasedJobsAssumption
  <2> QED
    BY <1>0, <1>1, <2>1 DEF TypeOK
<1>7. /\ nextAttemptAt' \in [Job -> Nat] /\ nextAttemptAt[i] \in Nat
      /\ nextAttemptAt'[i] = nextAttemptAt[i] + 1
      /\ \A j \in Job \ {i} : nextAttemptAt'[j] = nextAttemptAt[j]
  BY <1>0, <1>1 DEF TypeOK
<1>8. /\ due' \subseteq Job /\ removed' \subseteq Webhook
      /\ \A j \in Job \ {i} : j \in due' <=> j \in due
  BY <1>0, <1>1 DEF TypeOK
<1>9. /\ ledger' \in [Job -> SUBSET {"succeeded", "failed"}] /\ mishaps' \in [Job -> Nat]
  BY <1>1, <1>4 DEF TypeOK
<1>10. Sane'
  BY <1>1, <1>4, <1>5, <1>6, <1>7, <1>8, <1>9, LeaveSane
<1>11. Later(i)
  BY <1>1, <1>4, <1>5, <1>7 DEF Later
<1>12. Recorded(i)'
  <2>1. attempts'[i] < MaxAttempts
    BY <1>6
  <2>2. "succeeded" \in ledger[i] => effects[i] > 0
    BY <1>2 DEF Recorded
  <2>3. mishaps[i] = 0 => ledger[i] = {} /\ Cardinality(ledger[i]) <= 1
    BY <1>2, <1>3 DEF Recorded, Final
  <2> QED
    BY <1>4, <1>5, <2>1, <2>2, <2>3 DEF Recorded
<1>13. \A j \in Job \ {i} : RowKept(j) /\ mishaps'[j] = mishaps[j] /\ ledger'[j] = ledger[j]
  BY <1>4, <1>5, <1>6, <1>7, <1>8 DEF RowKept
<1>14. /\ Chance(i, r) = MaxAttempts - 1 - run[r].row.attempts /\ Chance(i, r) >= 0
  BY <1>1, <1>2, HopefulPays
<1>15. JobsInv'
  <2>1. UNCHANGED <<effects, tries>> /\ mishaps'[i] \in {mishaps[i], mishaps[i] + 1}
    BY <1>4
  <2> QED
    BY <1>1, <1>6, <1>10, <1>11, <1>12, <1>13, <1>14, <2>1, LeaveKeeps
<1>16. LimitsInv'
  BY <1>1, <1>4, LeaveLimits
<1> QED
  BY <1>10, <1>15, <1>16 DEF IInv

LEMMA RetryKeeps ==
  ASSUME IInv, NEW r \in Run, Retry(r)
  PROVE  IInv'
<1>1. /\ run[r].at = "retry" /\ NextRow(r)
      /\ attempts' = [attempts EXCEPT ![JobOf(r)] = run[r].row.attempts + 1]
      /\ UNCHANGED <<removed, limitVars, history>>
  BY DEF Retry
<1>2. CASE /\ run[r].row.attempts + 1 < MaxAttempts
           /\ SetStatus(JobOf(r), "pending")
           /\ nextAttemptAt' = [nextAttemptAt EXCEPT ![JobOf(r)] = @ + 1]
           /\ due' = due \ {JobOf(r)}
           /\ UNCHANGED ledger
  BY <1>1, <1>2, PutOffKeeps
<1>3. CASE /\ SetStatus(JobOf(r), "failed")
           /\ ledger' = [ledger EXCEPT ![JobOf(r)] =
                           @ \union {o \in {"failed"} : JobOf(r) \in Mention}]
           /\ UNCHANGED <<nextAttemptAt, due>>
  <2>1. PICK X \in {{}, {"failed"}} : ledger' = [ledger EXCEPT ![JobOf(r)] = @ \union X]
    <3>1. {o \in {"failed"} : JobOf(r) \in Mention} \in {{}, {"failed"}}
      OBVIOUS
    <3> QED
      BY <1>3, <3>1
  <2>2. UNCHANGED <<nextAttemptAt, due, removed, limitVars, history>>
    BY <1>1, <1>3
  <2>3. "failed" \in Final /\ "succeeded" \notin X
    BY DEF Final
  <2> QED
    BY <1>1, <1>3, <2>1, <2>2, <2>3, FinishKeeps
<1> QED
  BY <1>2, <1>3 DEF Retry

\* The update fails and the row is left to its lease.
LEMMA GiveUpKeeps ==
  ASSUME IInv, NEW r \in Run, run[r].at \in {"succeed", "replied", "refuse", "retry"},
         NextRow(r), GoesWrong({JobOf(r)}),
         UNCHANGED <<rowVars, limitVars, ledger, effects, tries>>
  PROVE  IInv'
<1>0. PICK i \in Job : i = JobOf(r)
  BY AtWork DEF IInv
<1>1. /\ Busy(r) /\ WorksOn(r, i) /\ effects[i] \in Nat /\ mishaps[i] \in Nat
      /\ Sane /\ TypeOK /\ JobsInv /\ LimitsInv
  BY <1>0, AtWork DEF IInv, Sane
<1>2. /\ mishaps' \in [Job -> Nat] /\ mishaps'[i] = mishaps[i] + 1
      /\ \A j \in Job \ {i} : mishaps'[j] = mishaps[j]
  BY <1>0, <1>1, Wrong
<1>3. /\ UNCHANGED <<rowVars, ledger>> /\ UNCHANGED <<effects, tries>>
      /\ UNCHANGED limitVars
  OBVIOUS
<1>4. Sane'
  <2>1. /\ status' \in [Job -> {"none", "pending"} \union Final]
        /\ attempts' \in [Job -> 0..MaxAttempts] /\ nextAttemptAt' \in [Job -> Nat]
        /\ due' \subseteq Job /\ removed' \subseteq Webhook
        /\ ledger' \in [Job -> SUBSET {"succeeded", "failed"}]
    BY <1>1, <1>3 DEF TypeOK, rowVars
  <2> QED
    BY <1>1, <1>2, <1>3, <2>1, LeaveSane
<1>5. \A j \in Job : RowKept(j) /\ ledger'[j] = ledger[j]
  BY <1>3 DEF RowKept, rowVars
<1>6. Later(i)
  <2>1. nextAttemptAt[i] \in Nat /\ effects'[i] = effects[i]
    BY <1>1, <1>3 DEF TypeOK
  <2> QED
    BY <1>1, <1>2, <1>5, <2>1 DEF Later, RowKept
<1>7. Recorded(i)'
  <2>1. Recorded(i) /\ effects'[i] = effects[i] /\ mishaps'[i] # 0
    BY <1>1, <1>2, <1>3 DEF JobsInv
  <2> QED
    BY <1>5, <2>1 DEF Recorded, RowKept
<1>8. JobsInv'
  BY <1>1, <1>2, <1>3, <1>4, <1>5, <1>6, <1>7, LeaveKeeps
<1>9. LimitsInv'
  BY <1>1, <1>3, LeaveLimits
<1> QED
  BY <1>4, <1>8, <1>9 DEF IInv

LEMMA UpdateFailsKeeps ==
  ASSUME IInv, NEW r \in Run, UpdateFails(r)
  PROVE  IInv'
  BY GiveUpKeeps DEF UpdateFails

\* A move between two places outside the limits.
LEMMA OutsideMove ==
  ASSUME Sane, LimitsInv, NEW r \in Run, Busy(r), NEW place \in Places \ {"idle", "loop"},
         Goto(r, place), UNCHANGED limitVars,
         run[r].at \notin {"lock", "rate", "sandbox"},
         place \notin {"lock", "rate", "sandbox"}
  PROVE  LimitsInv'
<1>1. run'[r].at = place /\ \A q \in Run \ {r} : run'[q] = run[q]
  BY GotoMoves
<1> QED
  BY <1>1, LimitsStay

LEMMA SucceedFailsKeeps ==
  ASSUME IInv, NEW r \in Run, SucceedFails(r)
  PROVE  IInv'
<1>1. /\ run[r].at = "succeed" /\ GoesWrong({JobOf(r)})
      /\ UNCHANGED <<rowVars, limitVars, ledger, effects, tries>>
  BY DEF SucceedFails
<1>2. CASE NextRow(r)
  BY <1>1, <1>2, GiveUpKeeps
<1>3. CASE Goto(r, "replied")
  <2>0. PICK i \in Job : i = JobOf(r)
    BY <1>1, AtWork DEF IInv
  <2>1. /\ Busy(r) /\ WorksOn(r, i) /\ effects[i] \in Nat /\ mishaps[i] \in Nat
        /\ Sane /\ TypeOK /\ JobsInv /\ LimitsInv
    BY <1>1, <2>0, AtWork DEF IInv, Sane
  <2>2. /\ mishaps' \in [Job -> Nat] /\ mishaps'[i] = mishaps[i] + 1
        /\ \A j \in Job \ {i} : mishaps'[j] = mishaps[j]
    BY <1>1, <2>0, <2>1, Wrong
  <2>3. /\ UNCHANGED <<rowVars, ledger, tries>> /\ UNCHANGED limitVars /\ effects' = effects
        /\ effects' \in [Job -> Nat] /\ slots' \in [Process -> 0..MaxSlots]
        /\ lock' \in Run \union {Nobody} /\ actions' \in Nat
    BY <1>1, <2>1 DEF TypeOK, limitVars
  <2>4. "replied" \in Places \ {"idle", "loop"} /\ "replied" \notin Hopeful
    BY DEF Places, Hopeful
  <2>5. effects[i] > 0
    BY <1>1, <2>0, <2>1 DEF JobsInv, Working
  <2>6. Sane'
    BY <1>3, <2>1, <2>2, <2>3, <2>4, MoveSane
  <2>7. effects'[i] = effects[i] /\ effects'[i] > 0 /\ effects'[i] # effects[i] + 1
    BY <2>1, <2>3, <2>5
  <2>8. JobsInv'
    BY <1>3, <2>1, <2>2, <2>3, <2>4, <2>6, <2>7, MoveKeeps
  <2>9. LimitsInv'
    BY <1>1, <1>3, <2>1, <2>3, <2>4, OutsideMove
  <2> QED
    BY <2>6, <2>8, <2>9 DEF IInv
<1> QED
  BY <1>2, <1>3 DEF SucceedFails

-------------------------------------------------------------------------------
\* The table, the timers and the end of a process.

\* Steps in which no run takes a row up or moves it on: what is left to show is
\* about the jobs of T.
LEMMA StillKeeps ==
  ASSUME Sane, Sane', JobsInv, NEW T \in SUBSET Job,
         \A j \in Job : Later(j),
         \A j \in Job \ T : RowKept(j) /\ CountsKept(j) /\ ledger'[j] = ledger[j],
         \A q \in Run : Busy(q)' => /\ Busy(q) /\ run'[q].at = run[q].at
                                    /\ run'[q].row = run[q].row,
         \A q \in Run : \A j \in Job \ T : WorksOn(q, j) => Busy(q)',
         \A q \in Run : Busy(q)' /\ JobOf(q) \in T /\ mishaps'[JobOf(q)] = 0 =>
                          RowKept(JobOf(q)),
         \A q \in Run : Selected(q)',
         \A j \in T : Paid(j)' /\ Recorded(j)'
  PROVE  JobsInv'
<1>1. ASSUME NEW q \in Run PROVE Working(q)'
  <2>1. Working(q)
    BY DEF JobsInv
  <2>2. ASSUME Busy(q)'
        PROVE  /\ Busy(q) /\ run'[q].row = run[q].row
               /\ run'[q].at \in {"succeed", "replied"} => effects'[JobOf(q)] > 0
               /\ mishaps'[JobOf(q)] = 0 => RowKept(JobOf(q)) /\ run'[q].at # "replied"
    <3>1. /\ Busy(q) /\ run'[q].at = run[q].at /\ run'[q].row = run[q].row
          /\ JobOf(q) \in Job /\ Later(JobOf(q))
      BY <2>2, RowOf
    <3>2. /\ effects[JobOf(q)] \in Nat /\ effects'[JobOf(q)] \in Nat
          /\ mishaps[JobOf(q)] \in Nat /\ mishaps'[JobOf(q)] \in Nat
      BY <3>1 DEF Sane, TypeOK
    <3>3. run'[q].at \in {"succeed", "replied"} => effects'[JobOf(q)] > 0
      BY <2>1, <3>1, <3>2 DEF Working, Later
    <3>4. mishaps'[JobOf(q)] = 0 => run'[q].at # "replied"
      BY <2>1, <3>1, <3>2 DEF Working, Later
    <3>5. mishaps'[JobOf(q)] = 0 => RowKept(JobOf(q))
      BY <2>2, <3>1
    <3> QED
      BY <3>1, <3>3, <3>4, <3>5
  <2> QED
    BY <2>1, <2>2, WorkingOn
<1>2. \A s, q \in Run : Alone(s, q)'
  BY AloneKept DEF JobsInv
<1>3. ASSUME NEW j \in Job \ T PROVE Paid(j)' /\ Recorded(j)'
  <2>1. ASSUME NEW q \in Run
        PROVE  /\ WorksOn(q, j)' <=> WorksOn(q, j)
               /\ WorksOn(q, j) => run'[q].row = run[q].row /\ run'[q].at = run[q].at
    BY DEF WorksOn, JobOf
  <2>2. WorkKept(j) /\ \A q \in Run : WorksOn(q, j) => run'[q].at = run[q].at
    BY <2>1 DEF WorkKept
  <2>3. Paid(j) /\ Recorded(j)
    BY DEF JobsInv
  <2> QED
    BY <2>2, <2>3, Untouched
<1> QED
  BY <1>1, <1>2, <1>3 DEF JobsInv

LEMMA EnqueueKeeps ==
  ASSUME IInv, NEW i \in Job, Enqueue(i)
  PROVE  IInv'
<1>1. Sane /\ TypeOK /\ JobsInv /\ LimitsInv
  BY DEF IInv, Sane
<1>2. /\ status[i] = "none" /\ attempts' = attempts /\ nextAttemptAt' = nextAttemptAt
      /\ run' = run /\ UNCHANGED limitVars /\ ledger' = ledger
      /\ effects' = effects /\ tries' = tries /\ mishaps' = mishaps /\ removed' = removed
  BY DEF Enqueue, history
<1>3. /\ status' \in [Job -> {"none", "pending"} \union Final] /\ status'[i] = "pending"
      /\ \A j \in Job \ {i} : status'[j] = status[j]
  BY <1>1 DEF TypeOK, Enqueue
<1>4. due' \subseteq Job /\ i \in due' /\ \A j \in Job \ {i} : j \in due' <=> j \in due
  BY <1>1 DEF TypeOK, Enqueue
<1>5. Sane'
  <2>1. TypeOK'
    BY <1>1, <1>2, <1>3, <1>4 DEF TypeOK, limitVars
  <2>2. \A r \in Run : Locals(r)'
    BY <1>1, <1>2 DEF Sane, Locals, Busy
  <2> QED
    BY <2>1, <2>2 DEF Sane
<1>6. \A j \in Job \ {i} : RowKept(j) /\ CountsKept(j) /\ ledger'[j] = ledger[j]
  BY <1>2, <1>3, <1>4 DEF RowKept, CountsKept
<1>7. ASSUME NEW j \in Job PROVE Later(j)
  <2>1. nextAttemptAt[j] \in Nat /\ effects[j] \in Nat /\ mishaps[j] \in Nat
    BY <1>1 DEF TypeOK
  <2>2. CASE j = i
    BY <1>2, <1>3, <1>4, <2>1, <2>2 DEF Later
  <2>3. CASE j # i
    BY <1>2, <1>6, <2>1, <2>3 DEF Later, RowKept
  <2> QED
    BY <2>2, <2>3
<1>8. \A q \in Run : Busy(q)' <=> Busy(q)
  BY <1>2 DEF Busy
<1>9. \A q \in Run : ~WorksOn(q, i)
  BY <1>1, <1>2 DEF JobsInv, Working, WorksOn
<1>10. \A q \in Run : Selected(q)'
  BY <1>1, <1>2, <1>5, <1>7, SelectedLater DEF JobsInv
<1>11. Paid(i)'
  <2>1. Chance(i, Nobody)' = Chance(i, Nobody)
    BY <1>2, <1>3, <1>4 DEF Chance, Open
  <2>2. \A q \in Run : Chance(i, q)' = Chance(i, q)
    BY <1>2, LeasedJobsAssumption DEF Chance, WorksOn, Busy, JobOf
  <2>3. \A o \in Owner : Chance(i, o)' <= Chance(i, o)
    BY <1>1, <1>5, <2>1, <2>2, ChancesAreInts DEF Owner
  <2> QED
    BY <1>1, <1>2, <1>5, <2>3, PaidFewer DEF JobsInv
<1>12. Recorded(i)'
  <2>1. Recorded(i)
    BY <1>1 DEF JobsInv
  <2> QED
    BY <1>2, <1>3, <2>1 DEF Recorded, Final
<1>13. JobsInv'
  <2>1. {i} \in SUBSET Job
    OBVIOUS
  <2>2. \A q \in Run : Busy(q)' => Busy(q) /\ run'[q].at = run[q].at /\ run'[q].row = run[q].row
    BY <1>2, <1>8
  <2>3. \A q \in Run : \A j \in Job \ {i} : WorksOn(q, j) => Busy(q)'
    BY <1>8 DEF WorksOn
  <2>4. \A q \in Run : Busy(q)' /\ JobOf(q) \in {i} /\ mishaps'[JobOf(q)] = 0 =>
                         RowKept(JobOf(q))
    BY <1>8, <1>9 DEF WorksOn
  <2>5. \A j \in {i} : Paid(j)' /\ Recorded(j)'
    BY <1>11, <1>12
  <2> QED
    BY <1>1, <1>5, <1>6, <1>7, <1>10, <2>1, <2>2, <2>3, <2>4, <2>5, StillKeeps
<1>14. LimitsInv'
  BY <1>1, <1>2, LimitsStay
<1> QED
  BY <1>5, <1>13, <1>14 DEF IInv

LEMMA PassKeeps ==
  ASSUME IInv, NEW i \in Job, Pass(i)
  PROVE  IInv'
<1>1. Sane /\ TypeOK /\ JobsInv /\ LimitsInv
  BY DEF IInv, Sane
<1>2. /\ status[i] = "pending" /\ status' = status /\ attempts' = attempts
      /\ nextAttemptAt' = nextAttemptAt /\ run' = run /\ UNCHANGED limitVars
      /\ ledger' = ledger /\ effects' = effects /\ tries' = tries /\ removed' = removed
  BY DEF Pass
<1>3. /\ mishaps' \in [Job -> Nat]
      /\ \A j \in Job \ {i} : mishaps'[j] = mishaps[j]
      /\ IF \E q \in Run : HoldsLease(q, i) THEN mishaps'[i] = mishaps[i] + 1
                                            ELSE mishaps'[i] = mishaps[i]
  <2>1. CASE \E q \in Run : HoldsLease(q, i)
    <3>1. GoesWrong({i})
      BY <2>1 DEF Pass
    <3> QED
      BY <1>1, <2>1, <3>1, Wrong
  <2>2. CASE ~\E q \in Run : HoldsLease(q, i)
    <3>1. mishaps' = mishaps
      BY <2>2 DEF Pass
    <3> QED
      BY <1>1, <2>2, <3>1 DEF TypeOK
  <2> QED
    BY <2>1, <2>2
<1>4. due' \subseteq Job /\ i \in due' /\ \A j \in Job \ {i} : j \in due' <=> j \in due
  BY <1>1 DEF TypeOK, Pass
<1>5. Sane'
  <2>1. TypeOK'
    BY <1>1, <1>2, <1>3, <1>4 DEF TypeOK, limitVars
  <2>2. \A r \in Run : Locals(r)'
    BY <1>1, <1>2 DEF Sane, Locals, Busy
  <2> QED
    BY <2>1, <2>2 DEF Sane
<1>6. \A j \in Job \ {i} : RowKept(j) /\ CountsKept(j) /\ ledger'[j] = ledger[j]
  BY <1>2, <1>3, <1>4 DEF RowKept, CountsKept
<1>7. /\ mishaps[i] \in Nat /\ mishaps'[i] \in {mishaps[i], mishaps[i] + 1}
  BY <1>1, <1>3 DEF TypeOK
<1>8. ASSUME NEW j \in Job PROVE Later(j)
  <2>1. nextAttemptAt[j] \in Nat /\ effects[j] \in Nat /\ mishaps[j] \in Nat
    BY <1>1 DEF TypeOK
  <2>2. CASE j = i
    BY <1>2, <1>4, <1>7, <2>1, <2>2 DEF Later
  <2>3. CASE j # i
    BY <1>2, <1>3, <1>4, <2>1, <2>3 DEF Later
  <2> QED
    BY <2>2, <2>3
<1>9. \A q \in Run : Busy(q)' <=> Busy(q)
  BY <1>2 DEF Busy
<1>10. \A q \in Run : Selected(q)'
  BY <1>1, <1>2, <1>5, <1>8, SelectedLater DEF JobsInv
<1>11. ASSUME NEW q \in Run, WorksOn(q, i), mishaps'[i] = 0 PROVE FALSE
  <2>1. mishaps[i] = 0
    BY <1>7, <1>11
  <2>2. HoldsLease(q, i)
    BY <1>1, <1>11, <2>1 DEF HoldsLease, WorksOn, JobsInv, Working
  <2> QED
    BY <1>3, <1>7, <1>11, <2>2
<1>12. Paid(i)'
  <2>1. \A q \in Run : Chance(i, q)' = Chance(i, q)
    BY <1>2, LeasedJobsAssumption DEF Chance, WorksOn, Busy, JobOf
  <2>2. \A q \in Run : Chance(i, q)' <= Chance(i, q)
    BY <1>1, <1>5, <2>1, ChancesAreInts DEF Owner
  <2>3. CASE \E q \in Run : HoldsLease(q, i)
    BY <1>1, <1>2, <1>3, <1>5, <2>2, <2>3, PaidGained DEF JobsInv
  <2>4. CASE ~\E q \in Run : HoldsLease(q, i)
    <3>1. Open(i) /\ Open(i)'
      BY <1>2, <1>4, <2>4 DEF Open
    <3>2. Chance(i, Nobody)' = Chance(i, Nobody)
      BY <1>2, <3>1 DEF Chance
    <3>3. \A o \in Owner : Chance(i, o)' <= Chance(i, o)
      BY <1>1, <1>5, <2>2, <3>2, ChancesAreInts DEF Owner
    <3> QED
      BY <1>1, <1>2, <1>5, <1>7, <3>3, PaidFewer DEF JobsInv
  <2> QED
    BY <2>3, <2>4
<1>13. Recorded(i)'
  <2>1. Recorded(i) /\ (mishaps'[i] = 0 => mishaps[i] = 0)
    BY <1>1, <1>7 DEF JobsInv
  <2> QED
    BY <1>2, <2>1 DEF Recorded
<1>14. JobsInv'
  <2>1. {i} \in SUBSET Job
    OBVIOUS
  <2>2. \A q \in Run : Busy(q)' => Busy(q) /\ run'[q].at = run[q].at /\ run'[q].row = run[q].row
    BY <1>2, <1>9
  <2>3. \A q \in Run : \A j \in Job \ {i} : WorksOn(q, j) => Busy(q)'
    BY <1>9 DEF WorksOn
  <2>4. \A q \in Run : Busy(q)' /\ JobOf(q) \in {i} /\ mishaps'[JobOf(q)] = 0 =>
                         RowKept(JobOf(q))
    BY <1>9, <1>11 DEF WorksOn
  <2>5. \A j \in {i} : Paid(j)' /\ Recorded(j)'
    BY <1>12, <1>13
  <2> QED
    BY <1>1, <1>5, <1>6, <1>8, <1>10, <2>1, <2>2, <2>3, <2>4, <2>5, StillKeeps
<1>15. LimitsInv'
  BY <1>1, <1>2, LimitsStay
<1> QED
  BY <1>5, <1>14, <1>15 DEF IInv

\* A run that selects its rows, drops one, or ends: no job notices.
LEMMA RowsOfOneRun ==
  ASSUME IInv, NEW r \in Run, run[r].at \in {"idle", "loop"}, run'[r].at \in {"idle", "loop"},
         DOMAIN run' = Run, \A q \in Run \ {r} : run'[q] = run[q],
         Locals(r)', Selected(r)',
         UNCHANGED <<rowVars, limitVars, ledger, history>>
  PROVE  IInv'
<1>1. Sane /\ TypeOK /\ JobsInv /\ LimitsInv
  BY DEF IInv, Sane
<1>2. /\ UNCHANGED rowVars /\ UNCHANGED limitVars /\ ledger' = ledger
      /\ effects' = effects /\ tries' = tries /\ mishaps' = mishaps
  BY DEF history
<1>3. Sane'
  <2>1. TypeOK'
    BY <1>1, <1>2 DEF TypeOK, rowVars, limitVars
  <2>2. \A q \in Run \ {r} : Locals(q)'
    BY <1>1 DEF Sane, Locals, Busy
  <2> QED
    BY <2>1, <2>2 DEF Sane
<1>4. \A j \in Job : RowKept(j) /\ CountsKept(j) /\ ledger'[j] = ledger[j]
  BY <1>2 DEF RowKept, CountsKept, rowVars
<1>5. ASSUME NEW j \in Job PROVE Later(j)
  <2>1. nextAttemptAt[j] \in Nat /\ effects[j] \in Nat /\ mishaps[j] \in Nat
    BY <1>1 DEF TypeOK
  <2> QED
    BY <1>4, <2>1 DEF Later, RowKept, CountsKept
<1>6. \A q \in Run \ {r} : Selected(q)'
  BY <1>1, <1>3, <1>5, SelectedLater DEF JobsInv
<1>7. ~Busy(r) /\ ~Busy(r)' /\ \A q \in Run \ {r} : Busy(q)' <=> Busy(q)
  BY DEF Busy
<1>8. JobsInv'
  <2>1. \A q \in Run : Busy(q)' => Busy(q) /\ run'[q].at = run[q].at /\ run'[q].row = run[q].row
    BY <1>7
  <2>2. \A q \in Run : \A j \in Job : WorksOn(q, j) => Busy(q)'
    BY <1>7 DEF WorksOn
  <2>3. {} \in SUBSET Job /\ Job \ {} = Job
    OBVIOUS
  <2> QED
    BY <1>1, <1>3, <1>4, <1>5, <1>6, <2>1, <2>2, <2>3, StillKeeps
<1>9. LimitsInv'
  BY <1>1, <1>2, LimitsStay
<1> QED
  BY <1>3, <1>8, <1>9 DEF IInv

LEMMA EndRunKeeps ==
  ASSUME IInv, NEW r \in Run, EndRun(r)
  PROVE  IInv'
<1>1. Sane /\ DOMAIN run = Run /\ run[r].at = "loop" /\ run' = [run EXCEPT ![r] = Idle]
  BY DEF IInv, Sane, TypeOK, EndRun
<1>2. /\ DOMAIN run' = Run /\ run'[r] = Idle /\ \A q \in Run \ {r} : run'[q] = run[q]
  BY <1>1
<1>3. Locals(r)' /\ Selected(r)' /\ run'[r].at = "idle"
  BY <1>2 DEF Locals, Selected, Idle, Places, Busy
<1> QED
  BY <1>1, <1>2, <1>3, RowsOfOneRun DEF EndRun

LEMMA SelectKeeps ==
  ASSUME IInv, NEW r \in Run, Select(r)
  PROVE  IInv'
<1>1. /\ Sane /\ TypeOK /\ DOMAIN run = Run /\ run[r].at = "idle"
      /\ \A j \in Job : Recorded(j)
  BY DEF IInv, Sane, TypeOK, Select, JobsInv
<1>2. PICK p \in Process, table \in {Webhook, Mention} :
        run' = [run EXCEPT ![r] =
          [at |-> "loop", process |-> p, row |-> Nobody,
           rows |-> {[job |-> j, at |-> nextAttemptAt[j], attempts |-> attempts[j]] :
                       j \in {j \in table \ removed : status[j] = "pending" /\ j \in due}}]]
  BY DEF Select
<1> DEFINE found == {j \in table \ removed : status[j] = "pending" /\ j \in due}
           rows == {[job |-> j, at |-> nextAttemptAt[j], attempts |-> attempts[j]] :
                      j \in found}
<1>3. /\ DOMAIN run' = Run /\ \A q \in Run \ {r} : run'[q] = run[q]
      /\ run'[r] = [at |-> "loop", process |-> p, row |-> Nobody, rows |-> rows]
  BY <1>1, <1>2
<1>4. found \subseteq Job
  BY DEF Job
<1>5. ASSUME NEW row \in rows
      PROVE  /\ row \in Row /\ row.job \in Job
             /\ row.at = nextAttemptAt[row.job] /\ row.attempts = attempts[row.job]
             /\ row.job \in due /\ status[row.job] = "pending"
             /\ row.attempts < MaxAttempts
  <2>1. PICK j \in found :
          row = [job |-> j, at |-> nextAttemptAt[j], attempts |-> attempts[j]]
    OBVIOUS
  <2>2. j \in Job /\ status[j] = "pending" /\ j \in due
    BY <1>4
  <2>3. nextAttemptAt[j] \in Nat /\ attempts[j] \in Nat /\ attempts[j] < MaxAttempts
    BY <1>1, <2>2, LeasedJobsAssumption DEF TypeOK, Recorded
  <2> HIDE DEF found
  <2> QED
    BY <2>1, <2>2, <2>3 DEF Row
<1> HIDE DEF rows
<1>6. UNCHANGED rowVars
  BY DEF Select
<1>7. Locals(r)' /\ run'[r].at = "loop"
  BY <1>3, <1>5 DEF Locals, Places, Busy
<1>8. Selected(r)'
  <2>1. run'[r].rows = rows
    BY <1>3
  <2>2. ASSUME NEW row \in rows
        PROVE  /\ row.at <= nextAttemptAt'[row.job] /\ row.job \in due'
               /\ row.attempts = attempts'[row.job] /\ status'[row.job] # "none"
               /\ row.attempts < MaxAttempts
    <3>1. nextAttemptAt[row.job] \in Nat
      BY <1>1, <1>5 DEF TypeOK
    <3> QED
      BY <1>5, <1>6, <3>1 DEF rowVars
  <2> QED
    BY <2>1, <2>2 DEF Selected
<1> QED
  BY <1>1, <1>3, <1>6, <1>7, <1>8, RowsOfOneRun DEF Select

\* The run finds the row taken.
LEMMA PassOverKeeps ==
  ASSUME IInv, NEW r \in Run, run[r].at = "loop", NEW rest \in SUBSET run[r].rows,
         run' = [run EXCEPT ![r].rows = rest],
         UNCHANGED <<rowVars, limitVars, ledger, history>>
  PROVE  IInv'
<1>1. Sane /\ DOMAIN run = Run /\ Locals(r) /\ Selected(r)
  BY DEF IInv, Sane, TypeOK, JobsInv
<1>2. /\ DOMAIN run' = Run /\ \A q \in Run \ {r} : run'[q] = run[q]
      /\ run'[r] = [run[r] EXCEPT !.rows = rest]
  BY <1>1
<1>3. run'[r].rows = rest /\ run'[r].at = "loop" /\ Locals(r)'
  BY <1>1, <1>2 DEF Locals, Busy
<1>4. Selected(r)'
  BY <1>1, <1>3 DEF Selected, rowVars
<1> QED
  BY <1>2, <1>3, <1>4, RowsOfOneRun

LEMMA ClaimsRow ==
  ASSUME IInv, NEW r \in Run, run[r].at = "loop", NEW row \in run[r].rows,
         NEW i \in Job, i = row.job, Claimable(row),
         nextAttemptAt' = [nextAttemptAt EXCEPT ![i] = @ + 1], due' = due \ {i},
         tries' = [tries EXCEPT ![i] = @ + 1],
         NEW place \in {"deliver", "skill"},
         run' = [run EXCEPT ![r].rows = run[r].rows \ {row}, ![r].row = row,
                            ![r].at = place],
         UNCHANGED <<status, attempts, removed, limitVars, ledger, effects, mishaps>>
  PROVE  IInv'
<1>1. Sane /\ TypeOK /\ JobsInv /\ LimitsInv /\ Locals(r) /\ Recorded(i) /\ Paid(i)
  BY DEF IInv, Sane, JobsInv
<1>2. row \in Row /\ row.at \in Nat /\ row.attempts \in Nat
  BY <1>1 DEF Locals, Row
<1>3. /\ status[i] = "pending" /\ nextAttemptAt[i] = row.at /\ i \in due
      /\ row.attempts = attempts[i] /\ row.attempts < MaxAttempts
  BY <1>1, <1>2 DEF Claimable, JobsInv, Selected
<1>4. /\ status' = status /\ attempts' = attempts /\ ledger' = ledger
      /\ effects' = effects /\ mishaps' = mishaps /\ UNCHANGED limitVars
      /\ removed' = removed
  OBVIOUS
<1>5. /\ nextAttemptAt' \in [Job -> Nat] /\ nextAttemptAt'[i] = row.at + 1
      /\ \A j \in Job \ {i} : nextAttemptAt'[j] = nextAttemptAt[j]
  BY <1>1, <1>3 DEF TypeOK
<1>6. /\ tries' \in [Job -> Nat] /\ tries'[i] = tries[i] + 1
      /\ \A j \in Job \ {i} : tries'[j] = tries[j]
  BY <1>1 DEF TypeOK
<1>7. due' \subseteq Job /\ i \notin due' /\ \A j \in Job \ {i} : j \in due' <=> j \in due
  BY <1>1 DEF TypeOK
<1>8. /\ DOMAIN run' = Run /\ \A q \in Run \ {r} : run'[q] = run[q]
      /\ run'[r] = [run[r] EXCEPT !.rows = run[r].rows \ {row}, !.row = row, !.at = place]
  BY <1>1 DEF TypeOK
<1>9. /\ run'[r].at = place /\ run'[r].row = row /\ run'[r].rows = run[r].rows \ {row}
      /\ Locals(r)'
  BY <1>1, <1>2, <1>8 DEF Locals, Busy, Places, Hopeful
<1>10. place \in Hopeful /\ ~Busy(r) /\ Busy(r)' /\ JobOf(r)' = i
  BY <1>9 DEF Hopeful, Busy, JobOf
<1>11. Sane'
  <2>1. TypeOK'
    BY <1>1, <1>4, <1>5, <1>6, <1>7, <1>8 DEF TypeOK, limitVars
  <2>2. \A q \in Run \ {r} : Locals(q)'
    BY <1>1, <1>8 DEF Sane, Locals, Busy
  <2> QED
    BY <1>9, <2>1, <2>2 DEF Sane
<1>12. \A j \in Job \ {i} : RowKept(j) /\ CountsKept(j) /\ ledger'[j] = ledger[j]
  BY <1>4, <1>5, <1>6, <1>7 DEF RowKept, CountsKept
<1>13. ASSUME NEW j \in Job PROVE Later(j)
  <2>1. nextAttemptAt[j] \in Nat /\ effects[j] \in Nat /\ mishaps[j] \in Nat
    BY <1>1 DEF TypeOK
  <2>2. CASE j = i
    BY <1>2, <1>3, <1>4, <1>5, <2>1, <2>2 DEF Later
  <2>3. CASE j # i
    BY <1>4, <1>12, <2>1, <2>3 DEF Later, RowKept
  <2> QED
    BY <2>2, <2>3
<1>14. ASSUME NEW q \in Run PROVE Selected(q)'
  <2>1. run'[q].rows \subseteq run[q].rows
    BY <1>8, <1>9
  <2> QED
    BY <1>1, <1>11, <1>13, <2>1, SelectedLater DEF JobsInv
\* Whoever is at work on the row has outlived its lease.
<1>15. ASSUME NEW q \in Run, WorksOn(q, i) PROVE mishaps[i] # 0
  BY <1>1, <1>3, <1>15 DEF JobsInv, Working, WorksOn
<1>16. ASSUME NEW q \in Run \ {r} PROVE Working(q)'
  <2>1. ASSUME Busy(q)'
        PROVE  /\ Busy(q) /\ run'[q].row = run[q].row
               /\ run'[q].at \in {"succeed", "replied"} => effects'[JobOf(q)] > 0
               /\ mishaps'[JobOf(q)] = 0 => RowKept(JobOf(q)) /\ run'[q].at # "replied"
    <3>1. Busy(q) /\ run'[q] = run[q] /\ Working(q)
      BY <1>1, <1>8, <2>1 DEF Busy, JobsInv
    <3>2. JobOf(q) \in Job
      BY <1>1, <3>1, RowOf
    <3>3. run'[q].at \in {"succeed", "replied"} => effects'[JobOf(q)] > 0
      BY <1>4, <3>1 DEF Working
    <3>4. ASSUME mishaps'[JobOf(q)] = 0 PROVE RowKept(JobOf(q)) /\ run'[q].at # "replied"
      <4>1. run'[q].at # "replied"
        BY <1>4, <3>1, <3>4 DEF Working
      <4>2. JobOf(q) # i
        BY <1>4, <1>15, <3>1, <3>4 DEF WorksOn
      <4> QED
        BY <1>12, <3>2, <4>1, <4>2
    <3> QED
      BY <3>1, <3>3, <3>4
  <2>2. Working(q)
    BY <1>1 DEF JobsInv
  <2> QED
    BY <1>1, <1>11, <1>13, <2>1, <2>2, WorkingOn
<1>17. Working(r)'
  BY <1>3, <1>4, <1>5, <1>7, <1>9, <1>10 DEF Working
<1>18. ASSUME NEW s \in Run, NEW q \in Run PROVE Alone(s, q)'
  <2>1. ASSUME NEW u \in Run \ {r}, Busy(u)', JobOf(u)' = i PROVE mishaps'[i] # 0
    BY <1>4, <1>8, <1>15, <2>1 DEF WorksOn, Busy, JobOf
  <2>2. CASE s # r /\ q # r
    <3>1. Alone(s, q)
      BY <1>1 DEF JobsInv
    <3> QED
      BY <1>4, <1>8, <2>2, <3>1 DEF Alone, Busy, JobOf
  <2>3. CASE s = r /\ q = r
    BY <2>3 DEF Alone
  <2>4. CASE s = r /\ q # r
    BY <1>10, <2>1, <2>4 DEF Alone
  <2>5. CASE s # r /\ q = r
    BY <1>10, <2>1, <2>5 DEF Alone
  <2> QED
    BY <2>2, <2>3, <2>4, <2>5
<1>19. Paid(i)'
  <2>1. r # Nobody /\ r \in Owner /\ Nobody \in Owner /\ MaxAttempts \in Nat
    BY LeasedJobsAssumption DEF Owner
  <2>2. Chance(i, Nobody) = MaxAttempts - attempts[i]
    BY <1>3 DEF Chance, Open
  <2>3. Chance(i, Nobody)' = -1
    <3>1. HoldsLease(r, i)'
      BY <1>5, <1>9, <1>10 DEF HoldsLease, WorksOn
    <3> QED
      BY <1>3, <1>4, <1>7, <3>1 DEF Chance, Open
  <2>4. Chance(i, r)' = MaxAttempts - 1 - attempts[i]
    BY <1>3, <1>9, <1>10, <2>1 DEF Chance, WorksOn
  <2>5. \A x \in Owner \ {Nobody, r} : Chance(i, x)' = Chance(i, x)
    BY <1>8, <2>1 DEF Chance, WorksOn, Busy, JobOf, Owner
  <2>6. \A x \in Owner \ {Nobody, r} : Chance(i, x)' <= Chance(i, x)
    BY <1>1, <1>11, <2>5, ChancesAreInts
  <2>7. attempts[i] \in Nat /\ attempts[i] < MaxAttempts
    BY <1>2, <1>3
  <2>8. /\ Chance(i, Nobody) >= 0 /\ Chance(i, Nobody)' < 0
        /\ Chance(i, Nobody) \in 1..MaxAttempts /\ Chance(i, r)' < Chance(i, Nobody)
        /\ Chance(i, r)' <= Chance(i, Nobody)
    BY <2>1, <2>2, <2>3, <2>4, <2>7
  <2> QED
    BY <1>1, <1>4, <1>6, <1>11, <2>1, <2>6, <2>8, PaidMoved
<1>20. Recorded(i)'
  BY <1>1, <1>4 DEF Recorded
<1>21. ASSUME NEW j \in Job \ {i} PROVE Paid(j)' /\ Recorded(j)'
  <2>1. ASSUME NEW q \in Run
        PROVE  /\ WorksOn(q, j)' <=> WorksOn(q, j)
               /\ WorksOn(q, j) => run'[q] = run[q]
    <3>1. CASE q = r
      BY <1>10, <3>1 DEF WorksOn
    <3>2. CASE q # r
      BY <1>8, <3>2 DEF WorksOn, Busy, JobOf
    <3> QED
      BY <3>1, <3>2
  <2>2. WorkKept(j) /\ \A q \in Run : WorksOn(q, j) => run'[q].at = run[q].at
    BY <2>1 DEF WorkKept
  <2>3. Paid(j) /\ Recorded(j)
    BY <1>1 DEF JobsInv
  <2> QED
    BY <1>1, <1>11, <1>12, <2>2, <2>3, Untouched
<1>22. JobsInv'
  BY <1>14, <1>16, <1>17, <1>18, <1>19, <1>20, <1>21 DEF JobsInv
<1>23. LimitsInv'
  BY <1>1, <1>4, <1>8, <1>9, LimitsStay
<1> QED
  BY <1>11, <1>22, <1>23 DEF IInv

LEMMA ClaimKeeps ==
  ASSUME IInv, NEW r \in Run, Claim(r)
  PROVE  IInv'
<1>1. run[r].at = "loop" /\ Locals(r)
  BY DEF IInv, Sane, Claim
<1>2. PICK row \in run[r].rows :
        IF Claimable(row)
          THEN /\ nextAttemptAt' = [nextAttemptAt EXCEPT ![row.job] = @ + 1]
               /\ due' = due \ {row.job}
               /\ tries' = [tries EXCEPT ![row.job] = @ + 1]
               /\ run' = [run EXCEPT ![r].rows = run[r].rows \ {row}, ![r].row = row,
                            ![r].at = IF row.job \in Webhook THEN "deliver" ELSE "skill"]
          ELSE /\ run' = [run EXCEPT ![r].rows = run[r].rows \ {row}]
               /\ UNCHANGED <<nextAttemptAt, due, tries>>
  BY DEF Claim
<1>3. UNCHANGED <<status, attempts, removed, limitVars, ledger, effects, mishaps>>
  BY DEF Claim
<1>4. row.job \in Job
  BY <1>1 DEF Locals, Row
<1>5. CASE Claimable(row)
  <2>1. PICK i \in Job : i = row.job
    BY <1>4
  <2>2. PICK place \in {"deliver", "skill"} :
          place = IF row.job \in Webhook THEN "deliver" ELSE "skill"
    OBVIOUS
  <2> QED
    BY <1>1, <1>2, <1>3, <1>5, <2>1, <2>2, ClaimsRow
<1>6. CASE ~Claimable(row)
  <2>1. run' = [run EXCEPT ![r].rows = run[r].rows \ {row}]
    BY <1>2, <1>6
  <2>2. UNCHANGED <<rowVars, limitVars, ledger, history>>
    BY <1>2, <1>3, <1>6 DEF rowVars, history
  <2>3. run[r].rows \ {row} \in SUBSET run[r].rows
    OBVIOUS
  <2> QED
    BY <1>1, <2>1, <2>2, <2>3, PassOverKeeps
<1> QED
  BY <1>5, <1>6

LEMMA ClaimFailsKeeps ==
  ASSUME IInv, NEW r \in Run, ClaimFails(r)
  PROVE  IInv'
<1>1. Sane /\ TypeOK /\ JobsInv /\ LimitsInv /\ Locals(r) /\ run[r].at = "loop"
  BY DEF IInv, Sane, ClaimFails
<1>2. PICK row \in run[r].rows :
        /\ GoesWrong({row.job}) /\ run' = [run EXCEPT ![r].rows = @ \ {row}]
        /\ \/ /\ Claimable(row)
              /\ nextAttemptAt' = [nextAttemptAt EXCEPT ![row.job] = @ + 1]
              /\ due' = due \ {row.job}
           \/ UNCHANGED <<nextAttemptAt, due>>
  BY DEF ClaimFails
<1>3. PICK i \in Job : i = row.job
  BY <1>1 DEF Locals, Row
<1>4. /\ status' = status /\ attempts' = attempts /\ ledger' = ledger
      /\ effects' = effects /\ tries' = tries /\ UNCHANGED limitVars /\ removed' = removed
  BY DEF ClaimFails
<1>5. /\ mishaps' \in [Job -> Nat] /\ mishaps[i] \in Nat /\ mishaps'[i] = mishaps[i] + 1
      /\ \A j \in Job \ {i} : mishaps'[j] = mishaps[j]
  BY <1>1, <1>2, <1>3, Wrong DEF TypeOK
<1>6. /\ nextAttemptAt' \in [Job -> Nat] /\ due' \subseteq Job
      /\ \/ nextAttemptAt'[i] = nextAttemptAt[i] + 1
         \/ nextAttemptAt'[i] = nextAttemptAt[i] /\ (i \in due' <=> i \in due)
      /\ \A j \in Job \ {i} : /\ nextAttemptAt'[j] = nextAttemptAt[j]
                              /\ j \in due' <=> j \in due
  <2>1. CASE nextAttemptAt' = [nextAttemptAt EXCEPT ![i] = @ + 1] /\ due' = due \ {i}
    BY <1>1, <2>1 DEF TypeOK
  <2>2. CASE UNCHANGED <<nextAttemptAt, due>>
    BY <1>1, <2>2 DEF TypeOK
  <2> QED
    BY <1>2, <1>3, <2>1, <2>2
<1>7. /\ DOMAIN run' = Run /\ \A q \in Run \ {r} : run'[q] = run[q]
      /\ run'[r] = [run[r] EXCEPT !.rows = run[r].rows \ {row}]
  BY <1>1, <1>2 DEF TypeOK
<1>8. /\ run'[r].at = "loop" /\ run'[r].row = run[r].row
      /\ run'[r].rows = run[r].rows \ {row} /\ Locals(r)'
  BY <1>1, <1>7 DEF Locals, Busy
<1>9. Sane'
  <2>1. TypeOK'
    BY <1>1, <1>4, <1>5, <1>6, <1>7 DEF TypeOK, limitVars
  <2>2. \A q \in Run \ {r} : Locals(q)'
    BY <1>1, <1>7 DEF Sane, Locals, Busy
  <2> QED
    BY <1>8, <2>1, <2>2 DEF Sane
<1>10. \A j \in Job \ {i} : RowKept(j) /\ CountsKept(j) /\ ledger'[j] = ledger[j]
  BY <1>4, <1>5, <1>6 DEF RowKept, CountsKept
<1>11. ASSUME NEW j \in Job PROVE Later(j)
  <2>1. nextAttemptAt[j] \in Nat /\ effects[j] \in Nat /\ mishaps[j] \in Nat
    BY <1>1 DEF TypeOK
  <2>2. CASE j = i
    BY <1>4, <1>5, <1>6, <2>1, <2>2 DEF Later
  <2>3. CASE j # i
    BY <1>4, <1>10, <2>1, <2>3 DEF Later, RowKept, CountsKept
  <2> QED
    BY <2>2, <2>3
<1>12. \A q \in Run : Selected(q)'
  <2>1. \A q \in Run : run'[q].rows \subseteq run[q].rows
    BY <1>7, <1>8
  <2> QED
    BY <1>1, <1>9, <1>11, <2>1, SelectedLater DEF JobsInv
<1>13. /\ \A q \in Run : (Busy(q)' <=> Busy(q)) /\ run'[q].row = run[q].row
       /\ \A q \in Run : run'[q].at = run[q].at
  BY <1>1, <1>7, <1>8 DEF Busy
<1>14. Paid(i)'
  <2>1. \A q \in Run : Chance(i, q)' = Chance(i, q)
    BY <1>13, LeasedJobsAssumption DEF Chance, WorksOn, JobOf
  <2>2. \A q \in Run : Chance(i, q)' <= Chance(i, q)
    BY <1>1, <1>9, <2>1, ChancesAreInts DEF Owner
  <2> QED
    BY <1>1, <1>4, <1>5, <1>9, <2>2, PaidGained DEF JobsInv
<1>15. Recorded(i)'
  <2>1. Recorded(i) /\ mishaps'[i] # 0
    BY <1>1, <1>5 DEF JobsInv
  <2> QED
    BY <1>4, <2>1 DEF Recorded
<1>16. JobsInv'
  <2>1. {i} \in SUBSET Job
    OBVIOUS
  <2>2. \A q \in Run : Busy(q)' => Busy(q) /\ run'[q].at = run[q].at /\ run'[q].row = run[q].row
    BY <1>13
  <2>3. \A q \in Run : \A j \in Job \ {i} : WorksOn(q, j) => Busy(q)'
    BY <1>13 DEF WorksOn
  <2>4. \A q \in Run : Busy(q)' /\ JobOf(q) \in {i} /\ mishaps'[JobOf(q)] = 0 =>
                         RowKept(JobOf(q))
    BY <1>5
  <2>5. \A j \in {i} : Paid(j)' /\ Recorded(j)'
    BY <1>14, <1>15
  <2> QED
    BY <1>1, <1>9, <1>10, <1>11, <1>12, <2>1, <2>2, <2>3, <2>4, <2>5, StillKeeps
<1>17. LimitsInv'
  BY <1>1, <1>4, <1>7, <1>8, LimitsStay
<1> QED
  BY <1>9, <1>16, <1>17 DEF IInv

LEMMA CrashKeeps ==
  ASSUME IInv, NEW p \in Process, Crash(p)
  PROVE  IInv'
<1> DEFINE gone == {r \in Run : run[r].process = p}
           T == {JobOf(r) : r \in {r \in gone : Busy(r)}}
<1>1. Sane /\ TypeOK /\ JobsInv /\ LimitsInv
  BY DEF IInv, Sane
<1>2. /\ GoesWrong(T)
      /\ run' = [r \in Run |-> IF r \in gone THEN Idle ELSE run[r]]
      /\ slots' = [slots EXCEPT ![p] = 0]
      /\ lock' = IF lock \in gone THEN Nobody ELSE lock
      /\ UNCHANGED rowVars /\ actions' = actions /\ ledger' = ledger
      /\ effects' = effects /\ tries' = tries
  BY DEF Crash
<1>3. /\ T \in SUBSET Job
      /\ \A r \in gone : Busy(r) => JobOf(r) \in T
  BY <1>1, RowOf
<1>4. gone \subseteq Run /\ \A q \in Run : q \in gone <=> run[q].process = p
  OBVIOUS
<1> HIDE DEF gone, T
<1>5. /\ mishaps' \in [Job -> Nat]
      /\ \A j \in T : mishaps[j] \in Nat /\ mishaps'[j] = mishaps[j] + 1
      /\ \A j \in Job \ T : mishaps'[j] = mishaps[j]
  <2>1. \A j \in Job : mishaps[j] \in Nat
    BY <1>1 DEF TypeOK
  <2>2. /\ mishaps' \in [Job -> Nat]
        /\ \A j \in Job : mishaps'[j] = IF j \in T THEN mishaps[j] + 1 ELSE mishaps[j]
    BY <1>1, <1>2, Wrong
  <2> QED
    BY <1>3, <2>1, <2>2
<1>6. /\ DOMAIN run' = Run /\ \A q \in gone : run'[q] = Idle
      /\ \A q \in Run \ gone : run'[q] = run[q]
  BY <1>2, <1>4
<1>7. \A q \in gone : /\ run'[q].at = "idle" /\ run'[q].rows = {} /\ ~Busy(q)'
                      /\ Locals(q)'
  BY <1>6 DEF Idle, Busy, Locals, Places
<1>8. /\ slots' \in [Process -> 0..MaxSlots] /\ slots'[p] = 0
      /\ \A q \in Process \ {p} : slots'[q] = slots[q]
  BY <1>1, <1>2, LeasedJobsAssumption DEF TypeOK
<1>9. Sane'
  <2>1. TypeOK'
    <3>1. lock' \in Run \union {Nobody}
      BY <1>1, <1>2 DEF TypeOK
    <3> QED
      BY <1>1, <1>2, <1>5, <1>6, <1>8, <3>1 DEF TypeOK, rowVars
  <2>2. \A q \in Run \ gone : Locals(q)'
    BY <1>1, <1>6 DEF Sane, Locals, Busy
  <2> QED
    BY <1>7, <2>1, <2>2 DEF Sane
<1>10. \A j \in Job : /\ RowKept(j) /\ ledger'[j] = ledger[j]
                      /\ effects'[j] = effects[j] /\ tries'[j] = tries[j]
  BY <1>2 DEF RowKept, rowVars
<1>11. ASSUME NEW j \in Job PROVE Later(j)
  <2>1. nextAttemptAt[j] \in Nat /\ effects[j] \in Nat /\ mishaps[j] \in Nat
    BY <1>1 DEF TypeOK
  <2>2. mishaps'[j] >= mishaps[j]
    BY <1>5, <2>1
  <2> QED
    BY <1>10, <2>1, <2>2 DEF Later, RowKept
<1>12. \A q \in Run : Selected(q)'
  <2>1. \A q \in Run : run'[q].rows \subseteq run[q].rows
    BY <1>6, <1>7
  <2> QED
    BY <1>1, <1>9, <1>11, <2>1, SelectedLater DEF JobsInv
<1>13. \A q \in Run : Busy(q)' => Busy(q) /\ run'[q] = run[q]
  BY <1>6, <1>7 DEF Busy
<1>14. \A q \in Run : \A j \in Job \ T : WorksOn(q, j) => Busy(q)'
  <2>1. ASSUME NEW q \in Run, NEW j \in Job \ T, WorksOn(q, j) PROVE Busy(q)'
    <3>1. q \notin gone
      BY <1>3, <2>1 DEF WorksOn
    <3> QED
      BY <1>6, <2>1, <3>1 DEF WorksOn, Busy
  <2> QED
    BY <2>1
<1>15. ASSUME NEW j \in T PROVE Paid(j)' /\ Recorded(j)'
  <2>1. j \in Job /\ Paid(j) /\ Recorded(j) /\ mishaps'[j] = mishaps[j] + 1 /\ mishaps'[j] # 0
    BY <1>1, <1>3, <1>5 DEF JobsInv
  <2>2. ASSUME NEW q \in Run PROVE Chance(j, q)' <= Chance(j, q)
    <3>1. Chance(j, q) \in Int /\ q # Nobody
      BY <1>1, <1>9, <2>1, ChancesAreInts, LeasedJobsAssumption DEF Owner
    <3>2. CASE Busy(q)'
      <4>1. run'[q] = run[q] /\ Busy(q)
        BY <1>13, <3>2
      <4>2. Chance(j, q)' = Chance(j, q)
        BY <3>1, <3>2, <4>1 DEF Chance, WorksOn, JobOf
      <4> QED
        BY <3>1, <4>2
    <3>3. CASE ~Busy(q)'
      <4>1. Chance(j, q)' = -1
        BY <3>1, <3>3 DEF Chance, WorksOn
      <4>2. Chance(j, q) >= -1
        <5>1. WorksOn(q, j) => /\ run[q].row.attempts < MaxAttempts
                               /\ run[q].row.attempts \in Nat
          BY <1>1, RowOf DEF JobsInv, Working, WorksOn
        <5> QED
          BY <3>1, <5>1, LeasedJobsAssumption DEF Chance
      <4> QED
        BY <4>1, <4>2
    <3> QED
      BY <3>2, <3>3
  <2>3. Paid(j)'
    BY <1>1, <1>9, <1>10, <2>1, <2>2, PaidGained
  <2>4. Recorded(j)'
    BY <1>10, <2>1 DEF Recorded, RowKept
  <2> QED
    BY <2>3, <2>4
<1>16. JobsInv'
  <2>1. \A j \in Job \ T : RowKept(j) /\ CountsKept(j) /\ ledger'[j] = ledger[j]
    BY <1>5, <1>10 DEF CountsKept
  <2>2. \A q \in Run : Busy(q)' => Busy(q) /\ run'[q].at = run[q].at /\ run'[q].row = run[q].row
    BY <1>13
  <2>3. \A q \in Run : Busy(q)' /\ JobOf(q) \in T /\ mishaps'[JobOf(q)] = 0 =>
                         RowKept(JobOf(q))
    BY <1>5
  <2> QED
    BY <1>1, <1>3, <1>9, <1>11, <1>12, <1>14, <1>15, <2>1, <2>2, <2>3, StillKeeps
<1>17. LimitsInv'
  <2>1. Inside(p)' = {}
    BY <1>4, <1>6, <1>7 DEF Inside
  <2>2. \A q \in Process \ {p} : Inside(q)' = Inside(q)
    <3>1. ASSUME NEW q \in Process \ {p}, NEW r \in Run
          PROVE  r \in Inside(q)' <=> r \in Inside(q)
      <4>1. CASE r \in gone
        BY <1>4, <1>7, <4>1 DEF Inside
      <4>2. CASE r \notin gone
        BY <1>6, <4>2 DEF Inside
      <4> QED
        BY <4>1, <4>2
    <3>2. \A q \in Process : Inside(q) \subseteq Run /\ Inside(q)' \subseteq Run
      BY DEF Inside
    <3> QED
      BY <3>1, <3>2
  <2>3. \A q \in Process : slots'[q] = Cardinality(Inside(q)')
    <3>1. Cardinality({}) = 0
      BY FS_EmptySet
    <3>2. \A q \in Process \ {p} : slots[q] = Cardinality(Inside(q))
      BY <1>1, LimitsSay
    <3> QED
      BY <1>8, <2>1, <2>2, <3>1, <3>2
  <2>4. \A q \in Run : lock' = q <=> run'[q].at \in {"rate", "sandbox"}
    <3>1. \A q \in Run : lock = q <=> run[q].at \in {"rate", "sandbox"}
      BY <1>1, LimitsSay
    <3>2. \A q \in gone : lock' # q
      BY <1>2, <1>4, LeasedJobsAssumption
    <3>3. \A q \in Run \ gone : lock' = q <=> lock = q
      BY <1>2, LeasedJobsAssumption
    <3> QED
      BY <1>6, <1>7, <3>1, <3>2, <3>3
  <2>5. actions' + Cardinality(AtSandbox') <= MaxActions
    <3>1. AtSandbox' \subseteq AtSandbox
      BY <1>6, <1>7 DEF AtSandbox
    <3>2. Cardinality(AtSandbox') <= Cardinality(AtSandbox)
      BY <3>1, FinitelyManyInside, FS_Subset
    <3>3. actions + Cardinality(AtSandbox) <= MaxActions /\ actions \in Nat
      BY <1>1, LimitsSay DEF TypeOK
    <3> QED
      BY <1>2, <3>2, <3>3, FinitelyManyInside, LeasedJobsAssumption
  <2> QED
    BY <2>3, <2>4, <2>5, LimitsSay
<1> QED
  BY <1>9, <1>16, <1>17 DEF IInv

-------------------------------------------------------------------------------
\* The invariant, from the first state on.

LEMMA InitIsSound == Init => IInv
<1> SUFFICES ASSUME Init PROVE IInv
  OBVIOUS
<1>1. Sane
  <2>1. TypeOK
    BY LeasedJobsAssumption DEF Init, TypeOK
  <2>2. \A r \in Run : Locals(r)
    BY DEF Init, Locals, Idle, Places, Busy
  <2> QED
    BY <2>1, <2>2 DEF Sane
<1>2. \A r \in Run : run[r] = Idle /\ ~Busy(r) /\ Selected(r) /\ Working(r)
  BY DEF Init, Idle, Busy, Selected, Working
<1>3. \A r, q \in Run : Alone(r, q)
  BY <1>2 DEF Alone
<1>4. ASSUME NEW j \in Job PROVE Paid(j)
  <2> DEFINE f == [o \in Owner |-> -1]
             g == Chances(j)
  <2>1. effects[j] = 0 /\ tries[j] = 0 /\ mishaps[j] = 0 /\ attempts[j] = 0
    BY DEF Init
  <2>2. \A r \in Run : Chance(j, r) = -1
    BY <1>2, LeasedJobsAssumption DEF Chance, WorksOn
  <2>3. Chance(j, Nobody) \in Int
    BY <2>1, LeasedJobsAssumption DEF Chance
  <2>4. /\ f \in [Owner -> Int] /\ g \in [Owner -> Int] /\ Nobody \in Owner
        /\ \A x \in Owner \ {Nobody} : g[x] <= f[x]
    BY <2>2, <2>3 DEF Chances, Owner
  <2>5. Having(f) = {} /\ Spare(f) = {}
    BY LeasedJobsAssumption DEF Having, Spare
  <2>6. Within(0, 0, 0, g)
    <3> HIDE DEF f, g
    <3>1. /\ Cardinality(Having(g)) <= Cardinality(Having(f)) + 1
          /\ Cardinality(Spare(g)) <= Cardinality(Spare(f)) + MaxAttempts
      BY <2>4, Gained
    <3>2. Cardinality(Having(f)) = 0 /\ Cardinality(Spare(f)) = 0
      BY <2>5, FS_EmptySet
    <3> QED
      BY <2>4, <3>1, <3>2, FiniteCounts, LeasedJobsAssumption DEF Within
  <2> QED
    BY <2>1, <2>6 DEF Paid
<1>5. ASSUME NEW j \in Job PROVE Recorded(j)
  <2>1. Cardinality({}) = 0
    BY FS_EmptySet
  <2> QED
    BY <2>1, LeasedJobsAssumption DEF Recorded, Init
<1>6. JobsInv
  BY <1>2, <1>3, <1>4, <1>5 DEF JobsInv
<1>7. LimitsInv
  <2>1. (\A p \in Process : Inside(p) = {}) /\ AtSandbox = {}
    BY <1>2 DEF Inside, AtSandbox, Idle
  <2>2. \A r \in Run : lock = r <=> run[r].at \in {"rate", "sandbox"}
    BY <1>2, LeasedJobsAssumption DEF Init, Idle
  <2>3. (\A p \in Process : slots[p] = 0) /\ actions = 0
    BY DEF Init
  <2>4. \A p \in Process : slots[p] = Cardinality(Inside(p))
    BY <2>1, <2>3, FS_EmptySet
  <2>5. actions + Cardinality(AtSandbox) <= MaxActions
    BY <2>1, <2>3, FS_EmptySet, LeasedJobsAssumption
  <2> QED
    BY <2>2, <2>4, <2>5, LimitsSay
<1> QED
  BY <1>1, <1>6, <1>7 DEF IInv

LEMMA StutterIsSound ==
  ASSUME IInv, UNCHANGED vars
  PROVE  IInv'
<1>1. Sane /\ TypeOK /\ JobsInv /\ LimitsInv
  BY DEF IInv, Sane
<1>2. /\ run' = run /\ UNCHANGED rowVars /\ UNCHANGED limitVars /\ ledger' = ledger
      /\ effects' = effects /\ tries' = tries /\ mishaps' = mishaps
  BY DEF vars, history
<1>3. Sane'
  <2>1. TypeOK'
    BY <1>1, <1>2 DEF TypeOK, rowVars, limitVars
  <2>2. \A r \in Run : Locals(r)'
    BY <1>1, <1>2 DEF Sane, Locals, Busy
  <2> QED
    BY <2>1, <2>2 DEF Sane
<1>4. \A j \in Job : RowKept(j) /\ CountsKept(j) /\ ledger'[j] = ledger[j]
  BY <1>2 DEF RowKept, CountsKept, rowVars
<1>5. ASSUME NEW j \in Job PROVE Later(j)
  <2>1. nextAttemptAt[j] \in Nat /\ effects[j] \in Nat /\ mishaps[j] \in Nat
    BY <1>1 DEF TypeOK
  <2> QED
    BY <1>4, <2>1 DEF Later, RowKept, CountsKept
<1>6. \A q \in Run : Selected(q)'
  BY <1>1, <1>2, <1>3, <1>5, SelectedLater DEF JobsInv
<1>7. \A q \in Run : Busy(q)' <=> Busy(q)
  BY <1>2 DEF Busy
<1>8. JobsInv'
  <2>1. \A q \in Run : Busy(q)' => Busy(q) /\ run'[q].at = run[q].at /\ run'[q].row = run[q].row
    BY <1>2, <1>7
  <2>2. \A q \in Run : \A j \in Job : WorksOn(q, j) => Busy(q)'
    BY <1>7 DEF WorksOn
  <2>3. {} \in SUBSET Job /\ Job \ {} = Job
    OBVIOUS
  <2> QED
    BY <1>1, <1>3, <1>4, <1>5, <1>6, <2>1, <2>2, <2>3, StillKeeps
<1>9. LimitsInv'
  BY <1>1, <1>2, LimitsStay
<1> QED
  BY <1>3, <1>8, <1>9 DEF IInv

LEMMA RemoveKeeps ==
  ASSUME IInv, NEW i \in Job, Remove(i)
  PROVE  IInv'
<1>1. Sane /\ TypeOK /\ JobsInv /\ LimitsInv
  BY DEF IInv, Sane
<1>2. /\ run' = run /\ UNCHANGED limitVars /\ ledger' = ledger
      /\ status' = status /\ attempts' = attempts /\ nextAttemptAt' = nextAttemptAt
      /\ due' = due /\ removed' \subseteq Webhook
      /\ effects' = effects /\ tries' = tries /\ mishaps' = mishaps
  BY <1>1 DEF Remove, history, TypeOK
<1>3. Sane'
  <2>1. TypeOK'
    BY <1>1, <1>2 DEF TypeOK, limitVars
  <2>2. \A r \in Run : Locals(r)'
    BY <1>1, <1>2 DEF Sane, Locals, Busy
  <2> QED
    BY <2>1, <2>2 DEF Sane
<1>4. \A j \in Job : RowKept(j) /\ CountsKept(j) /\ ledger'[j] = ledger[j]
  BY <1>2 DEF RowKept, CountsKept
<1>5. ASSUME NEW j \in Job PROVE Later(j)
  <2>1. nextAttemptAt[j] \in Nat /\ effects[j] \in Nat /\ mishaps[j] \in Nat
    BY <1>1 DEF TypeOK
  <2> QED
    BY <1>4, <2>1 DEF Later, RowKept, CountsKept
<1>6. \A q \in Run : Selected(q)'
  BY <1>1, <1>2, <1>3, <1>5, SelectedLater DEF JobsInv
<1>7. \A q \in Run : Busy(q)' <=> Busy(q)
  BY <1>2 DEF Busy
<1>8. JobsInv'
  <2>1. \A q \in Run : Busy(q)' => Busy(q) /\ run'[q].at = run[q].at /\ run'[q].row = run[q].row
    BY <1>2, <1>7
  <2>2. \A q \in Run : \A j \in Job : WorksOn(q, j) => Busy(q)'
    BY <1>7 DEF WorksOn
  <2>3. {} \in SUBSET Job /\ Job \ {} = Job
    OBVIOUS
  <2> QED
    BY <1>1, <1>3, <1>4, <1>5, <1>6, <2>1, <2>2, <2>3, StillKeeps
<1>9. LimitsInv'
  BY <1>1, <1>2, LimitsStay
<1> QED
  BY <1>3, <1>8, <1>9 DEF IInv

LEMMA NextIsSound ==
  ASSUME IInv, Next
  PROVE  IInv'
<1>1. ASSUME NEW r \in Run, Deliver(r) \/ Reply(r) \/ EffectUnseen(r) PROVE IInv'
  <2>1. Sane' /\ JobsInv'
    BY <1>1, DeliverOrReplyKeeps, EffectUnseenKeeps
  <2>2. run[r].at \in {"deliver", "reply"} /\ UNCHANGED limitVars
    BY <1>1 DEF Deliver, Reply, EffectUnseen
  <2>3. PICK place \in {"succeed", "retry"} : Goto(r, place)
    BY <1>1 DEF Deliver, Reply, EffectUnseen
  <2>4. place \in Places \ {"idle", "loop"} /\ place \notin {"lock", "rate", "sandbox"}
    BY DEF Places, Hopeful
  <2>5. Busy(r) /\ Sane /\ LimitsInv
    BY <2>2 DEF Busy, IInv
  <2>6. LimitsInv'
    BY <2>2, <2>3, <2>4, <2>5, OutsideMove
  <2> QED
    BY <2>1, <2>6 DEF IInv
<1>2. ASSUME NEW r \in Run, RunStep(r) PROVE IInv'
  BY <1>1, <1>2, EndRunKeeps, ClaimKeeps, StartSkillKeeps, TakeLockKeeps, CheckRateKeeps,
     SandboxKeeps, SucceedKeeps, MarkRepliedKeeps, RefuseKeeps, RetryKeeps DEF RunStep
<1>3. ASSUME NEW r \in Run, SucceedFails(r) \/ UpdateFails(r) \/ ClaimFails(r) \/ Select(r)
      PROVE  IInv'
  BY <1>3, SucceedFailsKeeps, UpdateFailsKeeps, ClaimFailsKeeps, SelectKeeps
<1> QED
  BY <1>1, <1>2, <1>3, EnqueueKeeps, PassKeeps, RemoveKeeps, CrashKeeps DEF Next

\* The invariant of the leased queues, whatever else the server's timers run.
THEOREM JobsInductive == WorkersSpec => []IInv
<1>1. WorkersInit => IInv
  BY InitIsSound DEF WorkersInit
<1>2. ASSUME IInv, WorkersNext PROVE IInv'
  <2>1. Next \/ UNCHANGED vars
    BY <1>2 DEF WorkersNext
  <2> QED
    BY <1>2, <2>1, NextIsSound, StutterIsSound
<1>3. IInv /\ UNCHANGED <<part, vars, schedulerVars, evaluatorVars, poolVars, docVars>> => IInv'
  <2>1. UNCHANGED <<part, vars, schedulerVars, evaluatorVars, poolVars, docVars>> =>
          UNCHANGED vars
    OBVIOUS
  <2> QED
    BY <2>1, StutterIsSound
<1> QED
  BY <1>1, <1>2, <1>3, PTL DEF WorkersSpec

\* At most one run works on a job nothing has gone wrong with; effects and claims
\* beyond the first are paid for by mishaps; a row and the ledger say what happened.
THEOREM QueuesKeepTheirPromises == WorkersSpec => []JobsHold
<1>1. ASSUME IInv PROVE JobsHold
  <2>1. Sane /\ TypeOK /\ JobsInv
    BY <1>1 DEF IInv, Sane
  <2>2. ASSUME NEW j \in Job, mishaps[j] = 0
        PROVE  Cardinality({r \in Run : WorksOn(r, j)}) <= 1
    <3> DEFINE X == {r \in Run : WorksOn(r, j)}
    <3>1. \A r, q \in X : r = q
      BY <2>1, <2>2 DEF JobsInv, Alone, WorksOn
    <3>2. PICK x : X \in SUBSET {x}
      BY <3>1
    <3> HIDE DEF X
    <3>3. Cardinality(X) <= 1
      BY <3>2, AtMostOne
    <3> QED
      BY <3>3 DEF X
  <2>3. ASSUME NEW j \in Job
        PROVE  effects[j] <= 1 + mishaps[j] /\ tries[j] <= MaxAttempts * (1 + mishaps[j])
    <3>1. effects[j] \in Nat /\ tries[j] \in Nat /\ mishaps[j] \in Nat /\ Paid(j)
      BY <2>1 DEF TypeOK, JobsInv
    <3> DEFINE f == Chances(j)
    <3>2. f \in [Owner -> Int]
      BY <2>1, ChanceIsInt DEF Chances
    <3>3. Within(effects[j], tries[j], mishaps[j], f)
      BY <3>1 DEF Paid
    <3> HIDE DEF f
    <3> QED
      BY <3>1, <3>2, <3>3, FiniteCounts, Products DEF Within
  <2>4. OutcomeTrue
    BY <2>1 DEF OutcomeTrue, JobsInv, Recorded
  <2> QED
    BY <2>2, <2>3, <2>4 DEF JobsHold, OneClaimant, EffectsPaidFor, TriesBounded
<1> QED
  BY <1>1, JobsInductive, PTL

\* Slots and lock are held by exactly the actions inside the limits, and the hourly
\* limit holds for actions that overlap.
THEOREM LimitsAreKept == WorkersSpec => []LimitsHold
<1>1. IInv => LimitsHold
  BY DEF IInv, LimitsInv, LimitsHold
<1> QED
  BY <1>1, JobsInductive, PTL

-------------------------------------------------------------------------------
\* The scheduler.

Selection == [trigger : Trigger, last : {S!Never} \union 0..now]

\* Run r has fired trigger t and not yet marked it.
Marks(r, t) == firing[r].at = "mark" /\ firing[r].row.trigger = t

\* Run r may still fire trigger t.
IsAhead(r, t) == t \in S!Undone(r) /\ ~Marks(r, t)
Ahead(t) == {r \in Run : IsAhead(r, t)}

\* What run r selected of trigger t is older than its last firing.
Behind(r, t) == \E row \in firing[r].rows : row.trigger = t /\ row.last < firedAt[t]

\* The next firing of t may come early: a run that is to fire it does not know of
\* the last firing, or the table does not and nobody is about to mark it.
MayRepeat(t) ==
  \/ \E r \in Run : IsAhead(r, t) /\ Behind(r, t)
  \/ lastFiredAt[t] < firedAt[t] /\ \A r \in Run : ~Marks(r, t)

\* Of the runs that may fire t, all but one were begun over another.
Others(A) == IF A = {} THEN 0 ELSE Cardinality(A) - 1
Risk(t) == IF MayRepeat(t) THEN 1 ELSE 0
FiringsPaid(t) == early[t] + Others(Ahead(t)) + Risk(t) <= collisions[t] + accidents

Shape ==
  [at : {"idle", "loop"}, rows : SUBSET Selection]
    \union [at : {"mark"}, rows : SUBSET Selection, row : Selection]

WellFormed(x) ==
  /\ x \in Shape
  /\ x.at = "mark" => x.row \in x.rows
  /\ x.at = "idle" => x.rows = {}
  /\ \A row, other \in x.rows : row.trigger = other.trigger => row = other

SchedulerSane ==
  /\ S!TypeOK
  /\ firing \in [Run -> Shape] /\ \A r \in Run : WellFormed(firing[r])
  /\ early \in [Trigger -> Nat]
  /\ collisions \in [Trigger -> Nat]

SchedulerInv == SchedulerSane /\ \A t \in Trigger : FiringsPaid(t)

-------------------------------------------------------------------------------
LEMMA SchedulerConstants ==
  /\ IsFiniteSet(Run) /\ Interval \in Nat \ {0} /\ MaxNow \in Nat /\ MaxMishaps \in Nat
  /\ S!Never = 0 - Interval /\ S!Never \in Int
BY SchedulerIsSound, LeasedJobsAssumption DEF S!SchedulerAssumption, S!Never

LEMMA SameCardinality == \A A : S!Cardinality(A) = Cardinality(A)
BY Zenon DEF S!Cardinality, Cardinality, S!IsFiniteSet, IsFiniteSet

LEMMA OthersCount ==
  ASSUME NEW A \in SUBSET Run
  PROVE  /\ IsFiniteSet(A) /\ Cardinality(A) \in Nat /\ Others(A) \in Nat
         /\ Others(A) <= Cardinality(A)
         /\ A # {} => Cardinality(A) = Others(A) + 1
<1>1. IsFiniteSet(A) /\ Cardinality(A) \in Nat
  BY SchedulerConstants, FS_Subset, FS_CardinalityType
<1>2. Cardinality(A) = 0 <=> A = {}
  BY <1>1, FS_EmptySet
<1> QED
  BY <1>1, <1>2 DEF Others

LEMMA OthersFewer ==
  ASSUME NEW A \in SUBSET Run, NEW B \in SUBSET A
  PROVE  Others(B) <= Others(A)
<1>1. B \in SUBSET Run
  OBVIOUS
<1>2. Cardinality(B) <= Cardinality(A)
  BY OthersCount, FS_Subset
<1>3. CASE B = {}
  BY <1>3, OthersCount DEF Others
<1>4. CASE B # {}
  BY <1>1, <1>2, <1>4, OthersCount DEF Others
<1> QED
  BY <1>3, <1>4

LEMMA OthersWithout ==
  ASSUME NEW A \in SUBSET Run, NEW r \in A, A \ {r} # {}
  PROVE  Others(A \ {r}) + 1 = Others(A)
<1>1. IsFiniteSet(A \ {r}) /\ Cardinality(A \ {r}) = Cardinality(A) - 1
  BY OthersCount, FS_RemoveElement
<1> QED
  BY <1>1, OthersCount DEF Others

LEMMA OthersWith ==
  ASSUME NEW A \in SUBSET Run, NEW r \in Run \ A
  PROVE  Others(A \union {r}) = Cardinality(A)
<1>1. /\ IsFiniteSet(A \union {r})
      /\ Cardinality(A \union {r}) = IF r \in A THEN Cardinality(A) ELSE Cardinality(A) + 1
  BY OthersCount, FS_AddElement
<1> QED
  BY <1>1, OthersCount DEF Others

-------------------------------------------------------------------------------
\* Moves of one run.

\* The locals of run r become x, and no time passes.
LEMMA RunMoves ==
  ASSUME SchedulerSane, NEW r \in Run, NEW x, firing' = [firing EXCEPT ![r] = x],
         WellFormed(x), now' = now
  PROVE  /\ firing'[r] = x /\ \A q \in Run \ {r} : firing'[q] = firing[q]
         /\ firing' \in [Run -> Shape'] /\ \A q \in Run : WellFormed(firing[q])'
<1>1. Selection' = Selection /\ Shape' = Shape
  BY DEF Selection, Shape, S!Never
<1>2. firing \in [Run -> Shape] /\ x \in Shape
  BY DEF SchedulerSane, WellFormed
<1>3. firing' \in [Run -> Shape] /\ firing'[r] = x /\ \A q \in Run \ {r} : firing'[q] = firing[q]
  BY <1>2
<1>4. ASSUME NEW q \in Run PROVE WellFormed(firing[q])'
  <2>1. WellFormed(firing'[q])
    BY <1>3 DEF SchedulerSane
  <2> QED
    BY <1>1, <2>1 DEF WellFormed
<1> QED
  BY <1>1, <1>3, <1>4

\* What a run that does not move has to do with a trigger.
LEMMA OthersStay ==
  ASSUME NEW r \in Run, NEW t \in Trigger, NEW q \in Run \ {r}, firing'[q] = firing[q]
  PROVE  /\ IsAhead(q, t)' <=> IsAhead(q, t)
         /\ Marks(q, t)' <=> Marks(q, t)
         /\ firedAt'[t] = firedAt[t] => (Behind(q, t)' <=> Behind(q, t))
BY DEF IsAhead, Marks, Behind, S!Undone

LEMMA RiskIs == ASSUME NEW t PROVE Risk(t) \in {0, 1} /\ (Risk(t) = 1 <=> MayRepeat(t))
BY DEF Risk

LEMMA PaidTypes ==
  ASSUME SchedulerSane, NEW t \in Trigger
  PROVE  early[t] \in Nat /\ collisions[t] \in Nat /\ accidents \in Nat
         /\ Ahead(t) \in SUBSET Run /\ Others(Ahead(t)) \in Nat
         /\ now \in Nat /\ firedAt[t] \in Int /\ lastFiredAt[t] \in Int
<1>1. early[t] \in Nat /\ collisions[t] \in Nat /\ accidents \in Nat
  BY SchedulerConstants DEF SchedulerSane, S!TypeOK
<1>2. now \in Nat
  BY SchedulerConstants DEF SchedulerSane, S!TypeOK
<1>3. firedAt[t] \in Int /\ lastFiredAt[t] \in Int
  BY <1>2, SchedulerConstants DEF SchedulerSane, S!TypeOK
<1>4. Ahead(t) \in SUBSET Run
  BY DEF Ahead
<1> QED
  BY <1>1, <1>2, <1>3, <1>4, OthersCount

\* A step that fires nothing for t and begins no run for it, and that lets the
\* next firing come early only at the price of a failure.
LEMMA Quiet ==
  ASSUME SchedulerSane, SchedulerSane', NEW t \in Trigger, FiringsPaid(t),
         early'[t] = early[t], collisions'[t] = collisions[t],
         Ahead(t)' \subseteq Ahead(t),
         \/ accidents' = accidents /\ (MayRepeat(t)' => MayRepeat(t))
         \/ accidents' = accidents + 1
  PROVE  FiringsPaid(t)'
<1>1. Others(Ahead(t)') <= Others(Ahead(t))
  BY OthersFewer, PaidTypes
<1>2. Others(Ahead(t)') \in Nat
  BY PaidTypes, OthersCount
<1>3. Risk(t) \in {0, 1} /\ (Risk(t) = 1 <=> MayRepeat(t))
  BY RiskIs
<1>4. Risk(t)' \in {0, 1} /\ (Risk(t)' = 1 <=> MayRepeat(t)')
  BY DEF Risk
<1>5. Others(Ahead(t))' = Others(Ahead(t)')
  BY DEF Others
<1> QED
  BY <1>1, <1>2, <1>3, <1>4, <1>5, PaidTypes DEF FiringsPaid

\* Run r fires t: early only if it might, and r then has it behind it.
LEMMA Fired ==
  ASSUME SchedulerSane, SchedulerSane', NEW t \in Trigger, FiringsPaid(t), NEW r \in Ahead(t),
         early'[t] = early[t] \/ (early'[t] = early[t] + 1 /\ MayRepeat(t)),
         collisions'[t] = collisions[t], Ahead(t)' = Ahead(t) \ {r},
         \/ accidents' = accidents /\ (Ahead(t)' = {} => ~MayRepeat(t)')
         \/ accidents' = accidents + 1
  PROVE  FiringsPaid(t)'
<1>1. Others(Ahead(t))' = Others(Ahead(t)')
  BY DEF Others
<1>2. Ahead(t)' = {} => Others(Ahead(t)') = 0
  BY DEF Others
<1>3. Ahead(t)' # {} => Others(Ahead(t)') + 1 = Others(Ahead(t))
  BY OthersWithout, PaidTypes
<1>4. Risk(t) \in {0, 1} /\ (Risk(t) = 1 <=> MayRepeat(t))
  BY RiskIs
<1>5. Risk(t)' \in {0, 1} /\ (Risk(t)' = 1 <=> MayRepeat(t)')
  BY DEF Risk
<1>6. Others(Ahead(t)') \in Nat /\ Ahead(t)' \in SUBSET Run
  BY PaidTypes, OthersCount
<1>7. accidents' \in Nat /\ early'[t] \in Nat
  BY PaidTypes
<1> QED
  BY <1>1, <1>2, <1>3, <1>4, <1>5, <1>6, <1>7, PaidTypes DEF FiringsPaid

\* Run r is done with a row it selected: with the trigger it marks, or in the loop.
RowLeaves(r, row) ==
  /\ firing' \in [Run -> Shape'] /\ \A q \in Run : WellFormed(firing[q])'
  /\ \A q \in Run \ {r} : firing'[q] = firing[q]
  /\ row \in Selection
  /\ \A t \in Trigger : /\ ~Marks(r, t)'
                        /\ t # row.trigger => ~Marks(r, t)
                        /\ IsAhead(r, t)' => t # row.trigger /\ IsAhead(r, t)
                        /\ firedAt'[t] = firedAt[t] => (Behind(r, t)' => Behind(r, t))

LEMMA RowGone ==
  ASSUME SchedulerSane, NEW r \in Run, NEW row \in firing[r].rows,
         firing[r].at = "loop" \/ (firing[r].at = "mark" /\ row = firing[r].row),
         firing' = [firing EXCEPT ![r] = [at |-> "loop", rows |-> firing[r].rows \ {row}]],
         now' = now
  PROVE  RowLeaves(r, row)
<1> DEFINE x == [at |-> "loop", rows |-> firing[r].rows \ {row}]
<1>1. firing[r] \in Shape /\ WellFormed(firing[r])
  BY DEF SchedulerSane
<1>2. firing[r].rows \subseteq Selection
  BY <1>1 DEF Shape
<1>3. WellFormed(x)
  <2>1. x \in Shape
    BY <1>2 DEF Shape
  <2> QED
    BY <1>1, <2>1 DEF WellFormed
<1>4. /\ firing'[r] = x /\ \A q \in Run \ {r} : firing'[q] = firing[q]
      /\ firing' \in [Run -> Shape'] /\ \A q \in Run : WellFormed(firing[q])'
  <2> HIDE DEF x
  <2>1. firing' = [firing EXCEPT ![r] = x]
    BY DEF x
  <2> QED
    BY <1>3, <2>1, RunMoves
<1>5. ASSUME NEW t \in Trigger
      PROVE  /\ ~Marks(r, t)'
             /\ t # row.trigger => ~Marks(r, t)
             /\ IsAhead(r, t)' => t # row.trigger /\ IsAhead(r, t)
             /\ firedAt'[t] = firedAt[t] => (Behind(r, t)' => Behind(r, t))
  <2>1. ~Marks(r, t)'
    BY <1>4 DEF Marks
  <2>2. t # row.trigger => ~Marks(r, t)
    BY DEF Marks
  <2>3. t \in S!Undone(r)' => t # row.trigger /\ t \in S!Undone(r)
    BY <1>1, <1>4 DEF WellFormed, S!Undone
  <2>4. firedAt'[t] = firedAt[t] => (Behind(r, t)' => Behind(r, t))
    BY <1>4 DEF Behind
  <2> QED
    BY <2>1, <2>2, <2>3, <2>4 DEF IsAhead
<1> QED
  BY <1>2, <1>4, <1>5 DEF RowLeaves

\* How the runs ahead and the risk of a trigger change when run r moves.
LEMMA AheadOf ==
  ASSUME NEW r \in Run, NEW t \in Trigger, \A q \in Run \ {r} : firing'[q] = firing[q]
  PROVE  /\ IsAhead(r, t)' => IsAhead(r, t) \/ r \in Ahead(t)' \ Ahead(t)
         /\ (IsAhead(r, t)' => IsAhead(r, t)) => Ahead(t)' \subseteq Ahead(t)
         /\ ~IsAhead(r, t)' => Ahead(t)' = Ahead(t) \ {r}
<1>1. \A q \in Run \ {r} : IsAhead(q, t)' <=> IsAhead(q, t)
  BY OthersStay
<1> QED
  BY <1>1 DEF Ahead

LEMMA RiskOf ==
  ASSUME NEW r \in Run, NEW t \in Trigger, \A q \in Run \ {r} : firing'[q] = firing[q],
         firedAt'[t] = firedAt[t],
         IsAhead(r, t)' => IsAhead(r, t) /\ (Behind(r, t)' => Behind(r, t)),
         lastFiredAt'[t] < firedAt'[t] =>
           lastFiredAt[t] < firedAt[t] /\ (Marks(r, t) => Marks(r, t)')
  PROVE  MayRepeat(t)' => MayRepeat(t)
<1>1. \A q \in Run \ {r} : /\ IsAhead(q, t)' <=> IsAhead(q, t)
                           /\ Marks(q, t)' <=> Marks(q, t)
                           /\ Behind(q, t)' <=> Behind(q, t)
  BY OthersStay
<1>2. ASSUME NEW q \in Run, IsAhead(q, t)' /\ Behind(q, t)' PROVE IsAhead(q, t) /\ Behind(q, t)
  BY <1>1, <1>2
<1>3. ASSUME NEW q \in Run, Marks(q, t), lastFiredAt'[t] < firedAt'[t] PROVE Marks(q, t)'
  BY <1>1, <1>3
<1> QED
  BY <1>2, <1>3 DEF MayRepeat

LEMMA SaneAgain ==
  ASSUME firing' \in [Run -> Shape'], \A q \in Run : WellFormed(firing[q])',
         now' \in 0..MaxNow, active' \subseteq Trigger, accidents' \in 0..MaxMishaps,
         lastFiredAt' \in [Trigger -> {S!Never} \union 0..now'],
         firedAt' \in [Trigger -> {S!Never} \union 0..now'],
         early' \in [Trigger -> Nat], collisions' \in [Trigger -> Nat]
  PROVE  SchedulerSane'
<1>1. ASSUME NEW q \in Run
      PROVE  /\ firing'[q].at \in {"idle", "loop", "mark"}
             /\ firing'[q].rows \subseteq [trigger : Trigger, last : {S!Never} \union 0..now']
  BY DEF Shape, Selection, S!Never
<1> QED
  BY <1>1 DEF SchedulerSane, S!TypeOK, S!Never

LEMMA SkipKeeps ==
  ASSUME SchedulerInv, NEW r \in Run, S!Skip(r)
  PROVE  SchedulerInv'
<1>1. PICK row \in firing[r].rows : ~S!IsDue(row.last)
                                    /\ firing' = [firing EXCEPT ![r].rows = @ \ {row}]
  BY DEF S!Skip
<1> USE DEF SchedulerInv
<1>2. firing[r].at = "loop" /\ firing[r] \in Shape /\ firing \in [Run -> Shape]
  BY DEF S!Skip, SchedulerSane
<1>3. firing[r] \in [at : {"idle", "loop"}, rows : SUBSET Selection]
  BY <1>2 DEF Shape
<1>4. firing' = [firing EXCEPT ![r] = [at |-> "loop", rows |-> firing[r].rows \ {row}]]
  <2>1. [firing[r] EXCEPT !.rows = @ \ {row}] = [at |-> "loop", rows |-> firing[r].rows \ {row}]
    BY <1>2, <1>3
  <2> QED
    BY <1>1, <2>1
<1>5. UNCHANGED <<now, active, lastFiredAt, firedAt, early, collisions, accidents>>
  BY DEF S!Skip
<1>6. RowLeaves(r, row)
  <2>1. now' = now
    BY <1>5
  <2> QED
    BY <1>2, <1>4, <2>1, RowGone DEF RowLeaves
<1>7. SchedulerSane'
  BY <1>5, <1>6, SaneAgain DEF SchedulerSane, S!TypeOK, RowLeaves
<1>8. ASSUME NEW t \in Trigger PROVE FiringsPaid(t)'
  <2>1. Ahead(t)' \subseteq Ahead(t)
    BY <1>6, AheadOf DEF RowLeaves
  <2>2. MayRepeat(t)' => MayRepeat(t)
    <3>1. ~Marks(r, t)
      BY <1>2 DEF Marks
    <3> QED
      BY <1>5, <1>6, <3>1, RiskOf DEF RowLeaves
  <2> QED
    BY <1>5, <1>7, <2>1, <2>2, Quiet
<1> QED
  BY <1>7, <1>8

\* Run r turns from the loop to marking a row.
LEMMA TurnsToMark ==
  ASSUME SchedulerSane, NEW r \in Run, NEW row \in firing[r].rows, firing[r].at = "loop",
         firing' = [firing EXCEPT ![r] = [at |-> "mark", rows |-> firing[r].rows, row |-> row]],
         now' = now
  PROVE  /\ firing' \in [Run -> Shape'] /\ \A q \in Run : WellFormed(firing[q])'
         /\ \A q \in Run \ {r} : firing'[q] = firing[q]
         /\ row \in Selection /\ IsAhead(r, row.trigger)
         /\ ~IsAhead(r, row.trigger)' /\ Marks(r, row.trigger)'
         /\ \A t \in Trigger : /\ ~Marks(r, t)
                               /\ t # row.trigger => (IsAhead(r, t)' <=> IsAhead(r, t))
                               /\ firedAt'[t] = firedAt[t] => (Behind(r, t)' <=> Behind(r, t))
<1> DEFINE x == [at |-> "mark", rows |-> firing[r].rows, row |-> row]
<1>1. firing[r] \in Shape /\ WellFormed(firing[r])
  BY DEF SchedulerSane
<1>2. firing[r].rows \subseteq Selection
  BY <1>1 DEF Shape
<1>3. WellFormed(x)
  <2>1. x \in Shape
    BY <1>2 DEF Shape
  <2> QED
    BY <1>1, <2>1 DEF WellFormed
<1>4. /\ firing'[r] = x /\ \A q \in Run \ {r} : firing'[q] = firing[q]
      /\ firing' \in [Run -> Shape'] /\ \A q \in Run : WellFormed(firing[q])'
  <2> HIDE DEF x
  <2>1. firing' = [firing EXCEPT ![r] = x]
    BY DEF x
  <2> QED
    BY <1>3, <2>1, RunMoves
<1>5. IsAhead(r, row.trigger) /\ ~IsAhead(r, row.trigger)' /\ Marks(r, row.trigger)'
  BY <1>4 DEF IsAhead, Marks, S!Undone
<1>6. ASSUME NEW t \in Trigger
      PROVE  /\ ~Marks(r, t)
             /\ t # row.trigger => (IsAhead(r, t)' <=> IsAhead(r, t))
             /\ firedAt'[t] = firedAt[t] => (Behind(r, t)' <=> Behind(r, t))
  BY <1>4 DEF Marks, IsAhead, S!Undone, Behind
<1> QED
  BY <1>2, <1>4, <1>5, <1>6

\* A firing comes early only for a run that does not know of the one before.
LEMMA EarlyIfBehind ==
  ASSUME SchedulerSane, NEW r \in Run, NEW row \in firing[r].rows, IsAhead(r, row.trigger),
         row \in Selection, S!IsDue(row.last), S!Fires(row.trigger)
  PROVE  /\ early' \in [Trigger -> Nat]
         /\ firedAt' \in [Trigger -> {S!Never} \union 0..now]
         /\ firedAt'[row.trigger] = now
         /\ \/ early'[row.trigger] = early[row.trigger]
            \/ early'[row.trigger] = early[row.trigger] + 1 /\ MayRepeat(row.trigger)
         /\ \A t \in Trigger \ {row.trigger} : early'[t] = early[t] /\ firedAt'[t] = firedAt[t]
<1> DEFINE u == row.trigger
<1>1. u \in Trigger /\ row.last \in {S!Never} \union 0..now
  BY DEF Selection
<1>2. now \in Nat /\ early[u] \in Nat /\ firedAt[u] \in Int
  BY <1>1, PaidTypes
<1>3. early' = [early EXCEPT ![u] = IF now - firedAt[u] < Interval THEN @ + 1 ELSE @]
      /\ firedAt' = [firedAt EXCEPT ![u] = now]
  BY DEF S!Fires
<1>4. early \in [Trigger -> Nat] /\ firedAt \in [Trigger -> {S!Never} \union 0..now]
  BY DEF SchedulerSane, S!TypeOK
<1>5. early' \in [Trigger -> Nat] /\ firedAt' \in [Trigger -> {S!Never} \union 0..now]
  BY <1>1, <1>2, <1>3, <1>4
<1>6. /\ firedAt'[u] = now
      /\ early'[u] = IF now - firedAt[u] < Interval THEN early[u] + 1 ELSE early[u]
      /\ \A t \in Trigger \ {u} : early'[t] = early[t] /\ firedAt'[t] = firedAt[t]
  BY <1>1, <1>3, <1>4
<1>7. ASSUME now - firedAt[u] < Interval PROVE MayRepeat(u)
  <2>1. row.last < firedAt[u]
    <3>1. CASE row.last = S!Never
      BY <1>2, <1>7, <3>1, SchedulerConstants
    <3>2. CASE row.last # S!Never /\ now - row.last >= Interval
      BY <1>1, <1>2, <1>7, <3>2, SchedulerConstants
    <3> QED
      BY <3>1, <3>2 DEF S!IsDue
  <2>2. Behind(r, u)
    BY <2>1 DEF Behind
  <2> QED
    BY <2>2 DEF MayRepeat
<1> QED
  BY <1>5, <1>6, <1>7

LEMMA ProposeKeeps ==
  ASSUME SchedulerInv, NEW r \in Run, S!Propose(r)
  PROVE  SchedulerInv'
<1> USE DEF SchedulerInv
<1>1. PICK row \in firing[r].rows :
        /\ S!IsDue(row.last) /\ S!Fires(row.trigger)
        /\ firing' = [firing EXCEPT ![r] = [at |-> "mark", rows |-> firing[r].rows, row |-> row]]
  BY DEF S!Propose
<1>2. PICK u \in Trigger : u = row.trigger
  BY DEF SchedulerSane, WellFormed, Shape, Selection
<1>3. firing[r].at = "loop" /\ UNCHANGED <<now, active, lastFiredAt, collisions, accidents>>
  BY DEF S!Propose
<1>4. /\ firing' \in [Run -> Shape'] /\ \A q \in Run : WellFormed(firing[q])'
      /\ \A q \in Run \ {r} : firing'[q] = firing[q]
      /\ row \in Selection /\ IsAhead(r, u) /\ ~IsAhead(r, u)' /\ Marks(r, u)'
      /\ \A t \in Trigger : /\ ~Marks(r, t)
                            /\ t # u => (IsAhead(r, t)' <=> IsAhead(r, t))
                            /\ firedAt'[t] = firedAt[t] => (Behind(r, t)' <=> Behind(r, t))
  <2>1. now' = now
    BY <1>3
  <2> QED
    BY <1>1, <1>2, <1>3, <2>1, TurnsToMark
<1>5. /\ early' \in [Trigger -> Nat] /\ firedAt' \in [Trigger -> {S!Never} \union 0..now]
      /\ early'[u] = early[u] \/ (early'[u] = early[u] + 1 /\ MayRepeat(u))
      /\ \A t \in Trigger \ {u} : early'[t] = early[t] /\ firedAt'[t] = firedAt[t]
  <2>1. IsAhead(r, row.trigger)
    BY <1>2, <1>4
  <2>2. /\ early' \in [Trigger -> Nat] /\ firedAt' \in [Trigger -> {S!Never} \union 0..now]
        /\ \/ early'[row.trigger] = early[row.trigger]
           \/ early'[row.trigger] = early[row.trigger] + 1 /\ MayRepeat(row.trigger)
        /\ \A t \in Trigger \ {row.trigger} : early'[t] = early[t] /\ firedAt'[t] = firedAt[t]
    BY <1>1, <1>4, <2>1, EarlyIfBehind
  <2> QED
    BY <1>2, <2>2
<1>6. SchedulerSane'
  BY <1>3, <1>4, <1>5, SaneAgain DEF SchedulerSane, S!TypeOK
<1>7. ASSUME NEW t \in Trigger PROVE FiringsPaid(t)'
  <2>1. CASE t = u
    <3>1. r \in Ahead(t) /\ Ahead(t)' = Ahead(t) \ {r}
      BY <1>4, <2>1, AheadOf DEF Ahead
    <3>2. Ahead(t)' = {} => ~MayRepeat(t)'
      <4>1. Ahead(t)' = {} => \A q \in Run : ~IsAhead(q, t)'
        BY DEF Ahead
      <4> QED
        BY <1>4, <2>1, <4>1 DEF MayRepeat
    <3> QED
      BY <1>3, <1>5, <1>6, <2>1, <3>1, <3>2, Fired
  <2>2. CASE t # u
    <3>1. Ahead(t)' \subseteq Ahead(t)
      BY <1>4, <2>2, AheadOf
    <3>2. MayRepeat(t)' => MayRepeat(t)
      BY <1>3, <1>4, <1>5, <2>2, RiskOf
    <3> QED
      BY <1>3, <1>5, <1>6, <2>2, <3>1, <3>2, Quiet
  <2> QED
    BY <2>1, <2>2
<1> QED
  BY <1>6, <1>7

LEMMA ProposeFailsKeeps ==
  ASSUME SchedulerInv, NEW r \in Run, S!ProposeFails(r)
  PROVE  SchedulerInv'
<1> USE DEF SchedulerInv
<1>1. PICK row \in firing[r].rows :
        /\ S!IsDue(row.last)
        /\ S!Fires(row.trigger) \/ UNCHANGED <<firedAt, early>>
        /\ firing' = [firing EXCEPT ![r].rows = @ \ {row}]
  BY DEF S!ProposeFails
<1>2. PICK u \in Trigger : u = row.trigger
  BY DEF SchedulerSane, WellFormed, Shape, Selection
<1>3. /\ firing[r].at = "loop" /\ UNCHANGED <<now, active, lastFiredAt, collisions>>
      /\ accidents' = accidents + 1 /\ accidents < MaxMishaps
  BY DEF S!ProposeFails
<1>4. firing' = [firing EXCEPT ![r] = [at |-> "loop", rows |-> firing[r].rows \ {row}]]
  <2>1. firing[r] \in [at : {"idle", "loop"}, rows : SUBSET Selection]
    BY <1>3 DEF SchedulerSane, Shape
  <2>2. [firing[r] EXCEPT !.rows = @ \ {row}] = [at |-> "loop", rows |-> firing[r].rows \ {row}]
    BY <1>3, <2>1
  <2> QED
    BY <1>1, <2>2
<1>5. RowLeaves(r, row)
  <2>1. now' = now
    BY <1>3
  <2> QED
    BY <1>3, <1>4, <2>1, RowGone DEF RowLeaves
<1>6. IsAhead(r, u)
  BY <1>2, <1>3 DEF IsAhead, Marks, S!Undone
<1>7. /\ early' \in [Trigger -> Nat] /\ firedAt' \in [Trigger -> {S!Never} \union 0..now]
      /\ early'[u] = early[u] \/ (early'[u] = early[u] + 1 /\ MayRepeat(u))
      /\ \A t \in Trigger \ {u} : early'[t] = early[t] /\ firedAt'[t] = firedAt[t]
  <2>1. CASE S!Fires(row.trigger)
    <3>1. IsAhead(r, row.trigger) /\ row \in Selection
      BY <1>2, <1>5, <1>6 DEF RowLeaves
    <3>2. /\ early' \in [Trigger -> Nat] /\ firedAt' \in [Trigger -> {S!Never} \union 0..now]
          /\ \/ early'[row.trigger] = early[row.trigger]
             \/ early'[row.trigger] = early[row.trigger] + 1 /\ MayRepeat(row.trigger)
          /\ \A t \in Trigger \ {row.trigger} : early'[t] = early[t] /\ firedAt'[t] = firedAt[t]
      BY <1>1, <2>1, <3>1, EarlyIfBehind
    <3> QED
      BY <1>2, <3>2
  <2>2. CASE UNCHANGED <<firedAt, early>>
    BY <2>2 DEF SchedulerSane, S!TypeOK
  <2> QED
    BY <1>1, <2>1, <2>2
<1>8. SchedulerSane'
  <2>1. accidents' \in 0..MaxMishaps
    BY <1>3, SchedulerConstants DEF SchedulerSane, S!TypeOK
  <2> QED
    BY <1>3, <1>5, <1>7, <2>1, SaneAgain DEF SchedulerSane, S!TypeOK, RowLeaves
<1>9. ASSUME NEW t \in Trigger PROVE FiringsPaid(t)'
  <2>1. CASE t = u
    <3>1. r \in Ahead(t) /\ Ahead(t)' = Ahead(t) \ {r}
      BY <1>2, <1>5, <1>6, <2>1, AheadOf DEF Ahead, RowLeaves
    <3> QED
      BY <1>3, <1>7, <1>8, <2>1, <3>1, Fired
  <2>2. CASE t # u
    <3>1. Ahead(t)' \subseteq Ahead(t)
      BY <1>5, AheadOf DEF RowLeaves
    <3> QED
      BY <1>3, <1>7, <1>8, <2>2, <3>1, Quiet
  <2> QED
    BY <2>1, <2>2
<1> QED
  BY <1>8, <1>9

\* The row being marked leaves, whether or not the mark is made.
LEMMA MarkedLeaves ==
  ASSUME SchedulerSane, NEW r \in Run, firing[r].at = "mark", now' = now,
         firing' = [firing EXCEPT ![r] = [at |-> "loop", rows |-> firing[r].rows \ {firing[r].row}]]
  PROVE  firing[r].row \in firing[r].rows /\ RowLeaves(r, firing[r].row)
<1>1. firing[r].row \in firing[r].rows
  BY DEF SchedulerSane, WellFormed
<1>2. PICK row \in firing[r].rows : row = firing[r].row
  BY <1>1
<1>3. firing' = [firing EXCEPT ![r] = [at |-> "loop", rows |-> firing[r].rows \ {row}]]
  BY <1>2
<1>4. RowLeaves(r, row)
  BY <1>2, <1>3, RowGone DEF RowLeaves
<1> QED
  BY <1>1, <1>2, <1>4 DEF RowLeaves

LEMMA MarkKeeps ==
  ASSUME SchedulerInv, NEW r \in Run, S!Mark(r)
  PROVE  SchedulerInv'
<1> USE DEF SchedulerInv
<1>1. /\ firing[r].at = "mark" /\ UNCHANGED <<now, active, firedAt, early, collisions, accidents>>
      /\ lastFiredAt' = [lastFiredAt EXCEPT ![firing[r].row.trigger] = now]
  BY DEF S!Mark
<1>2. PICK row \in firing[r].rows : row = firing[r].row /\ RowLeaves(r, row)
  <2>1. now' = now
    BY <1>1
  <2>2. firing' = [firing EXCEPT ![r] = [at |-> "loop", rows |-> firing[r].rows \ {firing[r].row}]]
    BY DEF S!Mark
  <2> QED
    BY <1>1, <2>1, <2>2, MarkedLeaves DEF RowLeaves
<1>3. PICK u \in Trigger : u = row.trigger
  BY <1>2 DEF RowLeaves, Selection
<1>4. now \in 0..now
  BY SchedulerConstants DEF SchedulerSane, S!TypeOK
<1>5. /\ lastFiredAt' \in [Trigger -> {S!Never} \union 0..now] /\ lastFiredAt'[u] = now
      /\ \A t \in Trigger \ {u} : lastFiredAt'[t] = lastFiredAt[t]
  BY <1>1, <1>2, <1>3, <1>4 DEF SchedulerSane, S!TypeOK
<1>6. SchedulerSane'
  BY <1>1, <1>2, <1>5, SaneAgain DEF SchedulerSane, S!TypeOK, RowLeaves
<1>7. ASSUME NEW t \in Trigger PROVE FiringsPaid(t)'
  <2>1. Ahead(t)' \subseteq Ahead(t)
    BY <1>2, AheadOf DEF RowLeaves
  <2>2. IsAhead(r, t)' => IsAhead(r, t) /\ (Behind(r, t)' => Behind(r, t))
    BY <1>1, <1>2 DEF RowLeaves
  <2>3. MayRepeat(t)' => MayRepeat(t)
    <3>1. CASE t = u
      <4>1. firedAt[t] <= now
        BY <1>4, SchedulerConstants DEF SchedulerSane, S!TypeOK
      <4>2. ~(lastFiredAt'[t] < firedAt'[t])
        BY <1>1, <1>4, <1>5, <3>1, <4>1, PaidTypes
      <4> QED
        BY <1>1, <1>2, <2>2, <4>2, RiskOf DEF RowLeaves
    <3>2. CASE t # u
      <4>1. ~Marks(r, t) /\ lastFiredAt'[t] = lastFiredAt[t]
        BY <1>2, <1>3, <1>5, <3>2 DEF RowLeaves
      <4> QED
        BY <1>1, <1>2, <2>2, <4>1, RiskOf DEF RowLeaves
    <3> QED
      BY <3>1, <3>2
  <2> QED
    BY <1>1, <1>6, <2>1, <2>3, Quiet
<1> QED
  BY <1>6, <1>7

LEMMA MarkFailsKeeps ==
  ASSUME SchedulerInv, NEW r \in Run, S!MarkFails(r)
  PROVE  SchedulerInv'
<1> USE DEF SchedulerInv
<1>1. /\ firing[r].at = "mark" /\ UNCHANGED <<now, active, lastFiredAt, firedAt, early, collisions>>
      /\ accidents' = accidents + 1 /\ accidents < MaxMishaps
  BY DEF S!MarkFails
<1>2. PICK row \in firing[r].rows : row = firing[r].row /\ RowLeaves(r, row)
  <2>1. now' = now
    BY <1>1
  <2>2. firing' = [firing EXCEPT ![r] = [at |-> "loop", rows |-> firing[r].rows \ {firing[r].row}]]
    BY DEF S!MarkFails
  <2> QED
    BY <1>1, <2>1, <2>2, MarkedLeaves DEF RowLeaves
<1>3. SchedulerSane'
  <2>1. accidents' \in 0..MaxMishaps
    BY <1>1, SchedulerConstants DEF SchedulerSane, S!TypeOK
  <2> QED
    BY <1>1, <1>2, <2>1, SaneAgain DEF SchedulerSane, S!TypeOK, RowLeaves
<1>4. ASSUME NEW t \in Trigger PROVE FiringsPaid(t)'
  <2>1. Ahead(t)' \subseteq Ahead(t)
    BY <1>2, AheadOf DEF RowLeaves
  <2> QED
    BY <1>1, <1>3, <2>1, Quiet
<1> QED
  BY <1>3, <1>4

\* A run that is at rest has nothing ahead.
LEMMA AtRest ==
  ASSUME SchedulerSane, NEW r \in Run, firing' = [firing EXCEPT ![r] = S!Idle], now' = now
  PROVE  /\ firing' \in [Run -> Shape'] /\ \A q \in Run : WellFormed(firing[q])'
         /\ \A q \in Run \ {r} : firing'[q] = firing[q]
         /\ \A t \in Trigger : ~IsAhead(r, t)' /\ Ahead(t)' \subseteq Ahead(t)
<1>1. WellFormed(S!Idle)
  BY DEF WellFormed, S!Idle, Shape
<1> DEFINE x == S!Idle
<1> HIDE DEF x
<1>2. WellFormed(x) /\ firing' = [firing EXCEPT ![r] = x]
  BY <1>1 DEF x
<1>3. /\ firing'[r] = x /\ \A q \in Run \ {r} : firing'[q] = firing[q]
      /\ firing' \in [Run -> Shape'] /\ \A q \in Run : WellFormed(firing[q])'
  BY <1>2, RunMoves
<1>4. ASSUME NEW t \in Trigger PROVE ~IsAhead(r, t)' /\ Ahead(t)' \subseteq Ahead(t)
  <2>1. ~IsAhead(r, t)'
    BY <1>3 DEF IsAhead, S!Undone, S!Idle, x
  <2> QED
    BY <1>3, <2>1, AheadOf
<1> QED
  BY <1>3, <1>4

LEMMA FinishRestKeeps ==
  ASSUME SchedulerInv, NEW r \in Run, S!Finish(r)
  PROVE  SchedulerInv'
<1> USE DEF SchedulerInv
<1>1. /\ firing[r].at = "loop"
      /\ UNCHANGED <<now, active, lastFiredAt, firedAt, early, collisions, accidents>>
      /\ firing' = [firing EXCEPT ![r] = S!Idle]
  BY DEF S!Finish
<1>2. /\ firing' \in [Run -> Shape'] /\ \A q \in Run : WellFormed(firing[q])'
      /\ \A q \in Run \ {r} : firing'[q] = firing[q]
      /\ \A t \in Trigger : ~IsAhead(r, t)' /\ Ahead(t)' \subseteq Ahead(t)
  BY <1>1, AtRest
<1>3. SchedulerSane'
  BY <1>1, <1>2, SaneAgain DEF SchedulerSane, S!TypeOK
<1>4. ASSUME NEW t \in Trigger PROVE FiringsPaid(t)'
  <2>1. MayRepeat(t)' => MayRepeat(t)
    <3>1. ~Marks(r, t)
      BY <1>1 DEF Marks
    <3> QED
      BY <1>1, <1>2, <3>1, RiskOf
  <2> QED
    BY <1>1, <1>2, <1>3, <2>1, Quiet
<1> QED
  BY <1>3, <1>4

LEMMA DieKeeps ==
  ASSUME SchedulerInv, NEW r \in Run, S!Die(r)
  PROVE  SchedulerInv'
<1> USE DEF SchedulerInv
<1>1. /\ UNCHANGED <<now, active, lastFiredAt, firedAt, early, collisions>>
      /\ accidents' = accidents + 1 /\ accidents < MaxMishaps
      /\ firing' = [firing EXCEPT ![r] = S!Idle]
  BY DEF S!Die
<1>2. /\ firing' \in [Run -> Shape'] /\ \A q \in Run : WellFormed(firing[q])'
      /\ \A t \in Trigger : Ahead(t)' \subseteq Ahead(t)
  BY <1>1, AtRest
<1>3. SchedulerSane'
  <2>1. accidents' \in 0..MaxMishaps
    BY <1>1, SchedulerConstants DEF SchedulerSane, S!TypeOK
  <2> QED
    BY <1>1, <1>2, <2>1, SaneAgain DEF SchedulerSane, S!TypeOK
<1>4. ASSUME NEW t \in Trigger PROVE FiringsPaid(t)'
  BY <1>1, <1>2, <1>3, Quiet
<1> QED
  BY <1>3, <1>4

\* What does not touch the runs, the table or the history.
LEMMA RunsStand ==
  ASSUME SchedulerInv, SchedulerSane',
         UNCHANGED <<lastFiredAt, firing, firedAt, early, collisions, accidents>>
  PROVE  SchedulerInv'
<1>1. ASSUME NEW t \in Trigger PROVE FiringsPaid(t)'
  <2>1. \A q \in Run : IsAhead(q, t)' <=> IsAhead(q, t)
    BY DEF IsAhead, Marks, S!Undone
  <2>2. Ahead(t)' \subseteq Ahead(t)
    BY <2>1 DEF Ahead
  <2>3. MayRepeat(t)' => MayRepeat(t)
    BY DEF MayRepeat, IsAhead, Behind, Marks, S!Undone
  <2> QED
    BY <2>2, <2>3, Quiet DEF SchedulerInv
<1> QED
  BY <1>1 DEF SchedulerInv

LEMMA DeleteKeeps ==
  ASSUME SchedulerInv, NEW t \in Trigger, S!Delete(t)
  PROVE  SchedulerInv'
<1>1. /\ active' = active \ {t}
      /\ UNCHANGED <<now, lastFiredAt, firing, firedAt, early, collisions, accidents>>
  BY DEF S!Delete
<1>2. Selection' = Selection /\ Shape' = Shape
  BY <1>1 DEF Selection, Shape, S!Never
<1>3. \A q \in Run : WellFormed(firing[q])'
  BY <1>1, <1>2 DEF SchedulerInv, SchedulerSane, WellFormed
<1>4. SchedulerSane'
  BY <1>1, <1>2, <1>3, SaneAgain DEF SchedulerInv, SchedulerSane, S!TypeOK
<1> QED
  BY <1>1, <1>4, RunsStand

LEMMA TickKeeps ==
  ASSUME SchedulerInv, S!Tick
  PROVE  SchedulerInv'
<1>1. /\ now < MaxNow /\ now' = now + 1
      /\ UNCHANGED <<active, lastFiredAt, firing, firedAt, early, collisions, accidents>>
  BY DEF S!Tick
<1>2. now \in Nat /\ 0..now \subseteq 0..now' /\ now' \in 0..MaxNow
  BY <1>1, SchedulerConstants DEF SchedulerInv, SchedulerSane, S!TypeOK
<1>3. Selection \subseteq Selection'
  BY <1>2 DEF Selection, S!Never
<1>4. Shape \subseteq Shape'
  BY <1>3 DEF Shape
<1>5. \A q \in Run : WellFormed(firing[q])'
  BY <1>1, <1>4 DEF SchedulerInv, SchedulerSane, WellFormed
<1>6. firing' \in [Run -> Shape']
  BY <1>1, <1>4 DEF SchedulerInv, SchedulerSane
<1>7. /\ lastFiredAt' \in [Trigger -> {S!Never} \union 0..now']
      /\ firedAt' \in [Trigger -> {S!Never} \union 0..now']
  BY <1>1, <1>2 DEF SchedulerInv, SchedulerSane, S!TypeOK
<1>8. SchedulerSane'
  BY <1>1, <1>2, <1>5, <1>6, <1>7, SaneAgain DEF SchedulerInv, SchedulerSane, S!TypeOK
<1> QED
  BY <1>1, <1>8, RunsStand

\* A run begins: it is over every run that has not finished with the trigger.
LEMMA SelectTriggersKeeps ==
  ASSUME SchedulerInv, NEW r \in Run, S!Select(r)
  PROVE  SchedulerInv'
<1> USE DEF SchedulerInv
<1> DEFINE Old(t) == {s \in Run : t \in S!Undone(s)}
           x == [at |-> "loop", rows |-> {[trigger |-> t, last |-> lastFiredAt[t]] : t \in active}]
<1>1. /\ firing[r].at = "idle" /\ firing' = [firing EXCEPT ![r] = x]
      /\ collisions' = [t \in Trigger |-> IF t \in active THEN collisions[t] + Cardinality(Old(t))
                                                          ELSE collisions[t]]
      /\ UNCHANGED <<now, active, lastFiredAt, firedAt, early, accidents>>
  <2>1. firing[r].at = "idle" /\ UNCHANGED <<now, active, lastFiredAt, firedAt, early, accidents>>
    BY DEF S!Select
  <2>2. firing' = [firing EXCEPT ![r] = x]
    BY Zenon DEF S!Select
  <2>3. collisions' = [t \in Trigger |-> IF t \in active THEN collisions[t] + Cardinality(Old(t))
                                                          ELSE collisions[t]]
    <3>1. \A t : Old(t) = {s \in Run : t \in S!Undone(s)}
      OBVIOUS
    <3> HIDE DEF Old
    <3> QED
      BY <3>1, SameCardinality DEF S!Select
  <2> QED
    BY <2>1, <2>2, <2>3, Zenon
<1>2. WellFormed(x)
  <2>1. active \subseteq Trigger /\ lastFiredAt \in [Trigger -> {S!Never} \union 0..now]
    BY DEF SchedulerSane, S!TypeOK
  <2>2. x.rows \subseteq Selection
    BY <2>1 DEF Selection
  <2>3. x \in Shape
    BY <2>2 DEF Shape
  <2>4. \A row, other \in x.rows : row.trigger = other.trigger => row = other
    OBVIOUS
  <2> QED
    BY <2>3, <2>4 DEF WellFormed
<1>3. /\ firing'[r] = x /\ \A q \in Run \ {r} : firing'[q] = firing[q]
      /\ firing' \in [Run -> Shape'] /\ \A q \in Run : WellFormed(firing[q])'
  <2> HIDE DEF x
  <2>1. now' = now
    BY <1>1
  <2> QED
    BY <1>1, <1>2, <2>1, RunMoves
<1>4. ASSUME NEW t \in Trigger PROVE Old(t) \in SUBSET Run /\ Cardinality(Old(t)) \in Nat
  <2>1. Old(t) \in SUBSET Run
    OBVIOUS
  <2> QED
    BY <2>1, OthersCount
<1>5. collisions' \in [Trigger -> Nat]
  <2> HIDE DEF Old
  <2>1. \A t \in Trigger : collisions[t] \in Nat
    BY DEF SchedulerSane
  <2> QED
    BY <1>1, <1>4, <2>1
<1>6. SchedulerSane'
  BY <1>1, <1>3, <1>5, SaneAgain DEF SchedulerSane, S!TypeOK
<1>7. ASSUME NEW t \in Trigger PROVE FiringsPaid(t)'
  <2>1. ~IsAhead(r, t) /\ ~Marks(r, t) /\ ~Marks(r, t)'
    <3>1. firing[r].rows = {}
      BY <1>1 DEF SchedulerSane, WellFormed
    <3> QED
      BY <1>1, <1>3, <3>1 DEF IsAhead, Marks, S!Undone
  <2>2. CASE t \notin active
    <3>1. ~IsAhead(r, t)'
      BY <1>3, <2>2 DEF IsAhead, S!Undone
    <3>2. Ahead(t)' \subseteq Ahead(t)
      BY <1>3, <3>1, AheadOf
    <3>3. MayRepeat(t)' => MayRepeat(t)
      BY <1>1, <1>3, <2>1, <3>1, RiskOf
    <3>4. collisions'[t] = collisions[t]
      BY <1>1, <2>2
    <3> QED
      BY <1>1, <1>6, <3>2, <3>3, <3>4, Quiet
  <2>3. CASE t \in active
    <3> DEFINE k == Cardinality(Old(t))
               n == Cardinality(Ahead(t))
    <3>1. collisions'[t] = collisions[t] + k
      BY <1>1, <2>3
    <3>2. IsAhead(r, t)'
      <4> DEFINE row == [trigger |-> t, last |-> lastFiredAt[t]]
      <4>1. row \in x.rows /\ row.trigger = t
        BY <2>3
      <4> QED
        BY <1>3, <2>1, <4>1 DEF IsAhead, S!Undone
    <3>3. Ahead(t)' = Ahead(t) \union {r} /\ r \in Run \ Ahead(t)
      <4>1. \A q \in Run \ {r} : IsAhead(q, t)' <=> IsAhead(q, t)
        BY <1>3, OthersStay
      <4> QED
        BY <2>1, <3>2, <4>1 DEF Ahead
    <3>4. Others(Ahead(t)') = n
      BY <3>3, OthersWith, PaidTypes
    <3>5. Ahead(t) \subseteq Old(t)
      BY DEF Ahead, IsAhead
    <3>6. n \in Nat /\ k \in Nat /\ n <= k /\ IsFiniteSet(Old(t))
      <4>1. Old(t) \in SUBSET Run
        OBVIOUS
      <4> HIDE DEF Old
      <4> QED
        BY <3>5, <4>1, OthersCount, PaidTypes, FS_Subset
    <3>7. MayRepeat(t)' /\ ~MayRepeat(t) => n + 1 <= k
      <4>1. SUFFICES ASSUME MayRepeat(t)', ~MayRepeat(t) PROVE n + 1 <= k
        OBVIOUS
      <4>2. PICK q \in Run : Marks(q, t)
        <5>1. CASE \E q \in Run : IsAhead(q, t)' /\ Behind(q, t)'
          <6>1. PICK q \in Run : IsAhead(q, t)' /\ Behind(q, t)'
            BY <5>1
          <6>2. q = r
            <7>1. q # r => IsAhead(q, t) /\ Behind(q, t)
              BY <1>1, <1>3, <6>1, OthersStay
            <7> QED
              BY <4>1, <7>1 DEF MayRepeat
          <6>3. lastFiredAt[t] < firedAt[t]
            BY <1>1, <1>3, <6>1, <6>2 DEF Behind
          <6> QED
            BY <4>1, <6>3 DEF MayRepeat
        <5>2. CASE lastFiredAt'[t] < firedAt'[t] /\ \A q \in Run : ~Marks(q, t)'
          <6>1. \A q \in Run : ~Marks(q, t)
            BY <1>3, <2>1, <5>2, OthersStay
          <6> QED
            BY <1>1, <4>1, <5>2, <6>1 DEF MayRepeat
        <5> QED
          BY <4>1, <5>1, <5>2 DEF MayRepeat
      <4>3. q \in Old(t) /\ q \notin Ahead(t)
        BY <4>2 DEF Marks, Ahead, IsAhead, S!Undone, SchedulerSane, WellFormed
      <4>4. Ahead(t) \subseteq Old(t) \ {q}
        BY <3>5, <4>3
      <4>5. IsFiniteSet(Old(t) \ {q}) /\ Cardinality(Old(t) \ {q}) = k - 1
        <5> HIDE DEF Old
        <5> QED
          BY <3>6, <4>3, FS_RemoveElement
      <4>6. n <= Cardinality(Old(t) \ {q})
        <5> HIDE DEF Old
        <5> QED
          BY <4>4, <4>5, FS_Subset
      <4> QED
        BY <3>6, <4>5, <4>6
    <3>8. n = 0 => Others(Ahead(t)) = 0
      BY OthersCount, PaidTypes
    <3>9. n # 0 => n = Others(Ahead(t)) + 1
      <4>1. n # 0 => Ahead(t) # {}
        BY FS_EmptySet
      <4> QED
        BY <4>1, OthersCount, PaidTypes
    <3>10. Others(Ahead(t))' = Others(Ahead(t)')
      BY DEF Others
    <3>11. Risk(t) \in {0, 1} /\ (Risk(t) = 1 <=> MayRepeat(t))
      BY RiskIs
    <3>12. Risk(t)' \in {0, 1} /\ (Risk(t)' = 1 <=> MayRepeat(t)')
      BY DEF Risk
    <3> HIDE DEF n, k
    <3>13. n + Risk(t)' <= Others(Ahead(t)) + Risk(t) + k
      BY <3>6, <3>7, <3>8, <3>9, <3>11, <3>12, PaidTypes
    <3> QED
      BY <1>1, <3>1, <3>4, <3>6, <3>10, <3>11, <3>12, <3>13, PaidTypes DEF FiringsPaid
  <2> QED
    BY <2>2, <2>3
<1> QED
  BY <1>6, <1>7

LEMMA SchedulerInit == S!Init => SchedulerInv
<1> SUFFICES ASSUME S!Init PROVE SchedulerInv
  OBVIOUS
<1>1. /\ now = 0 /\ active = Trigger /\ accidents = 0
      /\ lastFiredAt = [t \in Trigger |-> S!Never] /\ firedAt = [t \in Trigger |-> S!Never]
      /\ firing = [r \in Run |-> S!Idle]
      /\ early = [t \in Trigger |-> 0] /\ collisions = [t \in Trigger |-> 0]
  BY DEF S!Init
<1>2. WellFormed(S!Idle) /\ S!Idle \in Shape
  BY DEF WellFormed, S!Idle, Shape
<1>3. \A r \in Run : firing[r] = S!Idle
  BY <1>1
<1>4. SchedulerSane
  <2>1. firing \in [Run -> Shape] /\ \A r \in Run : WellFormed(firing[r])
    BY <1>1, <1>2, <1>3
  <2>2. ASSUME NEW q \in Run
        PROVE  /\ firing[q].at \in {"idle", "loop", "mark"}
               /\ firing[q].rows \subseteq [trigger : Trigger, last : {S!Never} \union 0..now]
    BY <1>3 DEF S!Idle
  <2>3. now \in 0..MaxNow /\ accidents \in 0..MaxMishaps
    BY <1>1, SchedulerConstants
  <2>4. early \in [Trigger -> Nat] /\ collisions \in [Trigger -> Nat]
    BY <1>1
  <2> QED
    BY <1>1, <2>1, <2>2, <2>3, <2>4 DEF SchedulerSane, S!TypeOK
<1>5. ASSUME NEW t \in Trigger PROVE FiringsPaid(t)
  <2>1. Ahead(t) = {}
    BY <1>3 DEF Ahead, IsAhead, S!Undone, S!Idle
  <2>2. \A r \in Run : ~IsAhead(r, t)
    BY <2>1 DEF Ahead
  <2>3. lastFiredAt[t] = firedAt[t] /\ firedAt[t] \in Int
    BY <1>1, SchedulerConstants
  <2>4. ~MayRepeat(t)
    BY <2>2, <2>3 DEF MayRepeat
  <2> QED
    BY <1>1, <2>1, <2>4 DEF FiringsPaid, Others, Risk
<1> QED
  BY <1>4, <1>5 DEF SchedulerInv

LEMMA SchedulerStep == SchedulerInv /\ S!Next => SchedulerInv'
<1> SUFFICES ASSUME SchedulerInv, S!Next PROVE SchedulerInv'
  OBVIOUS
<1>1. ASSUME NEW r \in Run, S!Step(r) PROVE SchedulerInv'
  BY <1>1, SelectTriggersKeeps, SkipKeeps, ProposeKeeps, ProposeFailsKeeps, MarkKeeps,
     MarkFailsKeeps, FinishRestKeeps DEF S!Step
<1> QED
  BY <1>1, DieKeeps, DeleteKeeps, TickKeeps DEF S!Next

LEMMA SchedulerStands == SchedulerInv /\ UNCHANGED schedulerVars => SchedulerInv'
<1> SUFFICES ASSUME SchedulerInv, UNCHANGED schedulerVars PROVE SchedulerInv'
  OBVIOUS
<1>1. UNCHANGED <<now, active, lastFiredAt, firing, firedAt, early, collisions, accidents>>
  BY DEF schedulerVars
<1>2. Selection' = Selection /\ Shape' = Shape
  BY <1>1 DEF Selection, Shape, S!Never
<1>3. firing' \in [Run -> Shape'] /\ \A q \in Run : WellFormed(firing[q])'
  BY <1>1, <1>2 DEF SchedulerInv, SchedulerSane, WellFormed
<1>4. SchedulerSane'
  BY <1>1, <1>3, SaneAgain DEF SchedulerInv, SchedulerSane, S!TypeOK
<1> QED
  BY <1>1, <1>4, RunsStand

\* The price of every early firing is among what has been paid.
LEMMA SchedulerPays == SchedulerInv => S!TypeOK /\ S!EarlyFiringsPaidFor
<1> SUFFICES ASSUME SchedulerInv PROVE S!TypeOK /\ S!EarlyFiringsPaidFor
  OBVIOUS
<1>1. ASSUME NEW t \in Trigger PROVE early[t] <= collisions[t] + accidents
  BY RiskIs, PaidTypes DEF SchedulerInv, FiringsPaid
<1> QED
  BY <1>1 DEF SchedulerInv, SchedulerSane, S!EarlyFiringsPaidFor

-------------------------------------------------------------------------------
\* The evaluator of conditions.

Form ==
  [at : {"idle"}] \union [at : {"previous"}, current : SUBSET Object]
    \union [at : {"loop"}, drop : SUBSET Object, fire : SUBSET Object]
    \union [at : {"insert"}, fire : SUBSET Object, object : Object]

\* A run is about to insert a row for object o.
Inserts(o) == \E q \in Run : evaluation[q].at = "insert" /\ evaluation[q].object = o

\* Run q may still fire for o, or take its row away.
Concerns(q, o) ==
  \/ evaluation[q].at = "previous"
  \/ evaluation[q].at = "loop" /\ (o \in evaluation[q].fire \/ o \in evaluation[q].drop)
  \/ evaluation[q].at = "insert" /\ o \in evaluation[q].fire

\* The next run to begin would fire for o.
Rising(o) == o \in matching /\ o \notin stored /\ ~Inserts(o)

\* Run x is to fire for o, or to take its row away though o matches.
Awaits(x, o) ==
  \/ evaluation[x].at = "previous" /\ o \in evaluation[x].current /\ o \notin stored
  \/ evaluation[x].at = "previous" /\ o \in matching /\ o \notin evaluation[x].current
  \/ evaluation[x].at = "loop" /\ (o \in evaluation[x].fire \/ (o \in evaluation[x].drop /\ o \in matching))
  \/ evaluation[x].at = "insert" /\ o \in evaluation[x].fire

\* With the run in A, if there is one, taken as the one that began over no other:
\* what every other run may do was paid for when it began, and what was fired for
\* may be fired for again once.
Pending(A) == {p \in Run \X Object : p[1] \notin A /\ Concerns(p[1], p[2])}
Risky(A) == {o \in fired : Rising(o) \/ \E x \in A : Awaits(x, o)}
Owed(A) == Cardinality(Pending(A)) + Cardinality(Risky(A))
RepeatsPaid(A) == repeated + Owed(A) <= Cardinality(Object) * overlaps + slips

Single(A) == \A x, y \in A : x = y

EvaluatorSane ==
  /\ E!TypeOK
  /\ evaluation \in [Run -> Form]
  /\ \A r \in Run : evaluation[r].at = "loop" =>
       \A o \in Object : ~(o \in evaluation[r].fire /\ o \in evaluation[r].drop)
  /\ repeated \in Nat /\ overlaps \in Nat

EvaluatorInv == EvaluatorSane /\ \E A \in SUBSET Run : Single(A) /\ RepeatsPaid(A)

-------------------------------------------------------------------------------
LEMMA SameCounts == \A A : E!Cardinality(A) = Cardinality(A)
BY Zenon DEF E!Cardinality, Cardinality, E!IsFiniteSet, IsFiniteSet

LEMMA EvaluatorConstants ==
  /\ IsFiniteSet(Run) /\ IsFiniteSet(Object) /\ Cardinality(Object) \in Nat
  /\ MaxChanges \in Nat /\ MaxMishaps \in Nat
<1>1. IsFiniteSet(Object)
  <2>1. E!IsFiniteSet(Object)
    BY EvaluatorIsSound DEF E!EvaluatorAssumption
  <2> QED
    BY <2>1, Zenon DEF E!IsFiniteSet, IsFiniteSet
<1> QED
  BY <1>1, EvaluatorIsSound, LeasedJobsAssumption, FS_CardinalityType DEF E!EvaluatorAssumption

LEMMA CountFewer ==
  ASSUME NEW A, IsFiniteSet(A), NEW B \in SUBSET A
  PROVE  IsFiniteSet(B) /\ Cardinality(B) \in Nat /\ Cardinality(A) \in Nat
         /\ Cardinality(B) <= Cardinality(A)
BY FS_Subset, FS_CardinalityType

LEMMA CountLess ==
  ASSUME NEW A, IsFiniteSet(A), NEW o \in A, NEW B \in SUBSET (A \ {o})
  PROVE  Cardinality(B) + 1 <= Cardinality(A)
<1>1. IsFiniteSet(A \ {o}) /\ Cardinality(A \ {o}) = Cardinality(A) - 1
  BY FS_RemoveElement
<1>2. Cardinality(B) <= Cardinality(A \ {o})
  BY <1>1, FS_Subset
<1>3. Cardinality(A) \in Nat /\ Cardinality(B) \in Nat
  BY <1>1, FS_Subset, FS_CardinalityType
<1> QED
  BY <1>1, <1>2, <1>3

LEMMA CountMore ==
  ASSUME NEW A, IsFiniteSet(A), NEW o, NEW B \in SUBSET (A \union {o})
  PROVE  Cardinality(B) <= Cardinality(A) + 1
<1>1. /\ IsFiniteSet(A \union {o})
      /\ Cardinality(A \union {o}) = IF o \in A THEN Cardinality(A) ELSE Cardinality(A) + 1
  BY FS_AddElement
<1>2. Cardinality(B) <= Cardinality(A \union {o})
  BY <1>1, FS_Subset
<1>3. Cardinality(A) \in Nat /\ Cardinality(B) \in Nat
  BY <1>1, FS_Subset, FS_CardinalityType
<1> QED
  BY <1>1, <1>2, <1>3

LEMMA FiniteDebts ==
  ASSUME EvaluatorSane, NEW A
  PROVE  /\ IsFiniteSet(Pending(A)) /\ Cardinality(Pending(A)) \in Nat
         /\ IsFiniteSet(Risky(A)) /\ Cardinality(Risky(A)) \in Nat
         /\ Risky(A) \subseteq Object
<1>1. IsFiniteSet(Run \X Object)
  BY EvaluatorConstants, FS_Product
<1>2. Pending(A) \subseteq Run \X Object
  BY DEF Pending
<1>3. Risky(A) \subseteq Object
  BY DEF Risky, EvaluatorSane, E!TypeOK
<1> QED
  BY <1>1, <1>2, <1>3, EvaluatorConstants, CountFewer

LEMMA FiniteDebtsAfter ==
  ASSUME EvaluatorSane', NEW A
  PROVE  /\ IsFiniteSet(Pending(A)') /\ Cardinality(Pending(A)') \in Nat
         /\ IsFiniteSet(Risky(A)') /\ Cardinality(Risky(A)') \in Nat
<1>1. IsFiniteSet(Run \X Object)
  BY EvaluatorConstants, FS_Product
<1>2. Pending(A)' \subseteq Run \X Object
  BY DEF Pending
<1>3. Risky(A)' \subseteq Object
  BY DEF Risky, EvaluatorSane, E!TypeOK
<1> QED
  BY <1>1, <1>2, <1>3, EvaluatorConstants, CountFewer

\* What a step of run r, which leaves the other runs alone, does to the debts.
LEMMA PendingKept ==
  ASSUME NEW A, NEW r \in Run, \A q \in Run \ {r} : evaluation'[q] = evaluation[q],
         \A o \in Object : Concerns(r, o)' => Concerns(r, o)
  PROVE  /\ Pending(A)' \subseteq Pending(A)
         /\ \A u \in Object : r \notin A /\ Concerns(r, u) /\ ~Concerns(r, u)' =>
              <<r, u>> \in Pending(A) /\ Pending(A)' \subseteq Pending(A) \ {<<r, u>>}
<1>1. \A q \in Run \ {r}, o \in Object : Concerns(q, o)' <=> Concerns(q, o)
  BY DEF Concerns
<1>2. \A q \in Run, o \in Object : Concerns(q, o)' => Concerns(q, o)
  BY <1>1
<1>3. Pending(A)' \subseteq Pending(A)
  <2> SUFFICES ASSUME NEW p \in Run \X Object, p[1] \notin A, Concerns(p[1], p[2])'
               PROVE  p \in Pending(A)
    BY DEF Pending
  <2>1. p[1] \in Run /\ p[2] \in Object
    OBVIOUS
  <2>2. PICK q \in Run, o \in Object : q = p[1] /\ o = p[2]
    BY <2>1
  <2>3. Concerns(q, o)'
    BY <2>2 DEF Concerns
  <2>4. Concerns(q, o)
    BY <1>2, <2>3
  <2> QED
    BY <2>2, <2>4 DEF Pending, Concerns
<1>4. ASSUME NEW u \in Object, r \notin A, Concerns(r, u), ~Concerns(r, u)'
      PROVE  <<r, u>> \in Pending(A) /\ <<r, u>> \notin Pending(A)'
  <2>1. <<r, u>>[1] = r /\ <<r, u>>[2] = u
    OBVIOUS
  <2>2. <<r, u>> \in Pending(A)
    BY <1>4, <2>1 DEF Pending, Concerns
  <2>3. <<r, u>> \notin Pending(A)'
    BY <1>4, <2>1 DEF Pending, Concerns
  <2> QED
    BY <2>2, <2>3
<1> QED
  BY <1>3, <1>4

LEMMA RiskyKept ==
  ASSUME EvaluatorSane', NEW A \in SUBSET Run, NEW B \in SUBSET Run, NEW U, NEW r \in Run,
         \A q \in Run \ {r} : evaluation'[q] = evaluation[q],
         B \ {r} \subseteq A,
         \A o \in Object \ U :
           /\ o \in fired' => o \in fired
           /\ o \in matching' <=> o \in matching
           /\ o \in stored' <=> o \in stored
           /\ Inserts(o) => Inserts(o)'
           /\ r \in B => (Awaits(r, o)' => Rising(o) \/ (r \in A /\ Awaits(r, o)))
  PROVE  Risky(B)' \subseteq Risky(A) \union U
<1> SUFFICES ASSUME NEW o \in Object \ U, o \in Risky(B)' PROVE o \in Risky(A)
  BY DEF EvaluatorSane, E!TypeOK, Risky
<1>1. o \in fired
  BY DEF Risky
<1>2. CASE Rising(o)'
  BY <1>1, <1>2 DEF Rising, Risky
<1>3. CASE \E x \in B : Awaits(x, o)'
  <2>1. PICK x \in B : Awaits(x, o)'
    BY <1>3
  <2>2. CASE x = r
    BY <1>1, <2>1, <2>2 DEF Risky
  <2>3. CASE x # r
    <3>1. x \in A /\ evaluation'[x] = evaluation[x]
      BY <2>3
    <3>2. Awaits(x, o)
      BY <2>1, <3>1 DEF Awaits
    <3> QED
      BY <1>1, <3>1, <3>2 DEF Risky
  <2> QED
    BY <2>2, <2>3
<1> QED
  BY <1>2, <1>3 DEF Risky

\* A step that costs no more than it pays.
LEMMA Settled ==
  ASSUME EvaluatorSane, EvaluatorSane', NEW A \in SUBSET Run, Single(A), RepeatsPaid(A),
         overlaps' = overlaps,
         repeated' + Cardinality(Pending(A)') + Cardinality(Risky(A)')
           <= repeated + Cardinality(Pending(A)) + Cardinality(Risky(A)) + slips' - slips
  PROVE  EvaluatorInv'
<1> DEFINE paid == Cardinality(Object) * overlaps
<1>1. paid \in Nat
  BY EvaluatorConstants DEF EvaluatorSane
<1>3. repeated \in Nat /\ slips \in Nat /\ repeated' \in Nat /\ slips' \in Nat
  BY EvaluatorConstants DEF EvaluatorSane, E!TypeOK
<1>4. Cardinality(Pending(A)) \in Nat /\ Cardinality(Risky(A)) \in Nat
  BY FiniteDebts
<1>2. repeated + Cardinality(Pending(A)) + Cardinality(Risky(A)) <= paid + slips
  <2>1. repeated + Owed(A) <= paid + slips
    BY DEF RepeatsPaid
  <2> HIDE DEF paid
  <2> QED
    BY <1>3, <1>4, <2>1 DEF Owed
<1>6. Cardinality(Pending(A)') \in Nat /\ Cardinality(Risky(A)') \in Nat
  BY FiniteDebtsAfter
<1>7. repeated' + (Cardinality(Pending(A)') + Cardinality(Risky(A)')) <= paid + slips'
  <2> HIDE DEF paid
  <2> QED
    BY <1>1, <1>2, <1>3, <1>4, <1>6
<1>8. RepeatsPaid(A)'
  BY <1>7 DEF RepeatsPaid, Owed
<1>9. Single(A)'
  BY DEF Single
<1> QED
  BY <1>8, <1>9 DEF EvaluatorInv

\* Nothing fired, nothing more at risk.
LEMMA NothingOwed ==
  ASSUME EvaluatorSane, EvaluatorSane', NEW A \in SUBSET Run, Single(A), RepeatsPaid(A),
         UNCHANGED <<repeated, overlaps, slips>>,
         Pending(A)' \subseteq Pending(A), Risky(A)' \subseteq Risky(A)
  PROVE  EvaluatorInv'
<1>1. repeated \in Nat /\ slips \in Nat
  BY EvaluatorConstants DEF EvaluatorSane, E!TypeOK
<1>2. /\ Cardinality(Pending(A)') \in Nat /\ Cardinality(Pending(A)') <= Cardinality(Pending(A))
      /\ Cardinality(Pending(A)) \in Nat
  BY FiniteDebts, CountFewer
<1>3. /\ Cardinality(Risky(A)') \in Nat /\ Cardinality(Risky(A)') <= Cardinality(Risky(A))
      /\ Cardinality(Risky(A)) \in Nat
  BY FiniteDebts, CountFewer
<1> QED
  BY <1>1, <1>2, <1>3, Settled

\* Nothing fired, and a failure for an object more at risk.
LEMMA FailurePays ==
  ASSUME EvaluatorSane, EvaluatorSane', NEW A \in SUBSET Run, Single(A), RepeatsPaid(A), NEW u,
         UNCHANGED <<repeated, overlaps>>, slips' = slips + 1,
         Pending(A)' \subseteq Pending(A), Risky(A)' \subseteq Risky(A) \union {u}
  PROVE  EvaluatorInv'
<1>1. repeated \in Nat /\ slips \in Nat
  BY EvaluatorConstants DEF EvaluatorSane, E!TypeOK
<1>2. /\ Cardinality(Pending(A)') \in Nat /\ Cardinality(Pending(A)') <= Cardinality(Pending(A))
      /\ Cardinality(Pending(A)) \in Nat
  BY FiniteDebts, CountFewer
<1>3. Cardinality(Risky(A)') <= Cardinality(Risky(A)) + 1
  BY FiniteDebts, CountMore
<1>4. Cardinality(Risky(A)) \in Nat
  BY FiniteDebts
<1>5. Cardinality(Risky(A)') \in Nat
  BY FiniteDebtsAfter
<1> QED
  BY <1>1, <1>2, <1>3, <1>4, <1>5, Settled

\* A run that was paid for puts an object at risk.
LEMMA Charged ==
  ASSUME EvaluatorSane, EvaluatorSane', NEW A \in SUBSET Run, Single(A), RepeatsPaid(A),
         NEW u, NEW p \in Pending(A), UNCHANGED <<repeated, overlaps, slips>>,
         Pending(A)' \subseteq Pending(A) \ {p}, Risky(A)' \subseteq Risky(A) \union {u}
  PROVE  EvaluatorInv'
<1>1. repeated \in Nat /\ slips \in Nat
  BY EvaluatorConstants DEF EvaluatorSane, E!TypeOK
<1>2. Cardinality(Pending(A)') + 1 <= Cardinality(Pending(A))
  BY FiniteDebts, CountLess
<1>3. Cardinality(Risky(A)') <= Cardinality(Risky(A)) + 1
  BY FiniteDebts, CountMore
<1>4. Cardinality(Risky(A)) \in Nat /\ Cardinality(Pending(A)) \in Nat
  BY FiniteDebts
<1>5. Cardinality(Risky(A)') \in Nat /\ Cardinality(Pending(A)') \in Nat
  BY FiniteDebtsAfter
<1> QED
  BY <1>1, <1>2, <1>3, <1>4, <1>5, Settled

\* The locals of run r become x.
LEMMA EvaluationMoves ==
  ASSUME EvaluatorSane, NEW r \in Run, NEW x \in Form,
         x.at = "loop" => \A o \in Object : ~(o \in x.fire /\ o \in x.drop),
         evaluation' = [evaluation EXCEPT ![r] = x],
         live' \in BOOLEAN, matching' \subseteq Object, stored' \subseteq Object,
         fired' \subseteq Object, changes' \in 0..MaxChanges, slips' \in 0..MaxMishaps,
         repeated' \in Nat, overlaps' \in Nat
  PROVE  /\ EvaluatorSane'
         /\ evaluation'[r] = x /\ \A q \in Run \ {r} : evaluation'[q] = evaluation[q]
<1>1. evaluation \in [Run -> Form]
  BY DEF EvaluatorSane
<1>2. /\ evaluation' \in [Run -> Form]
      /\ evaluation'[r] = x /\ \A q \in Run \ {r} : evaluation'[q] = evaluation[q]
  BY <1>1
<1>3. \A q \in Run : evaluation'[q].at \in {"idle", "previous", "loop", "insert"}
  BY <1>2 DEF Form
<1>4. \A q \in Run : evaluation'[q].at = "loop" =>
        \A o \in Object : ~(o \in evaluation'[q].fire /\ o \in evaluation'[q].drop)
  BY <1>2 DEF EvaluatorSane
<1> QED
  BY <1>2, <1>3, <1>4 DEF EvaluatorSane, E!TypeOK

\* The runs that are not in the loop are not disturbed by what r does there.
LEMMA InsertsStay ==
  ASSUME NEW r \in Run, \A q \in Run \ {r} : evaluation'[q] = evaluation[q], NEW o
  PROVE  /\ evaluation[r].at # "insert" => (Inserts(o) => Inserts(o)')
         /\ evaluation[r].at = "insert" /\ evaluation[r].object # o => (Inserts(o) => Inserts(o)')
BY DEF Inserts

LEMMA ReadPreviousKeeps ==
  ASSUME EvaluatorInv, NEW r \in Run, E!ReadPrevious(r)
  PROVE  EvaluatorInv'
<1> DEFINE newly == evaluation[r].current \ stored
           x == IF E!TooMany(newly) THEN E!Idle
                ELSE [at |-> "loop", drop |-> stored \ evaluation[r].current, fire |-> newly]
<1>1. /\ evaluation[r].at = "previous" /\ evaluation' = [evaluation EXCEPT ![r] = x]
      /\ UNCHANGED <<live, matching, stored, changes, fired, repeated, overlaps, slips>>
  BY DEF E!ReadPrevious
<1>2. PICK A \in SUBSET Run : Single(A) /\ RepeatsPaid(A)
  BY DEF EvaluatorInv
<1>3. EvaluatorSane /\ evaluation[r] \in [at : {"previous"}, current : SUBSET Object]
  BY <1>1 DEF EvaluatorInv, EvaluatorSane, Form
<1>4. x \in Form /\ (x.at = "loop" => \A o \in Object : ~(o \in x.fire /\ o \in x.drop))
  <2>1. stored \subseteq Object
    BY <1>3 DEF EvaluatorSane, E!TypeOK
  <2> QED
    BY <1>3, <2>1 DEF Form, E!Idle
<1>5. EvaluatorSane' /\ evaluation'[r] = x /\ \A q \in Run \ {r} : evaluation'[q] = evaluation[q]
  <2> HIDE DEF x
  <2> QED
    BY <1>1, <1>3, <1>4, EvaluationMoves DEF EvaluatorSane, E!TypeOK
<1>6. Pending(A)' \subseteq Pending(A)
  <2>1. \A o \in Object : Concerns(r, o)' => Concerns(r, o)
    BY <1>1 DEF Concerns
  <2> QED
    BY <1>5, <2>1, PendingKept
<1>7. Risky(A)' \subseteq Risky(A) \union {}
  <2>1. ASSUME NEW o \in Object PROVE Awaits(r, o)' => Awaits(r, o)
    <3>1. x.at = "idle" \/ x = [at |-> "loop", drop |-> stored \ evaluation[r].current, fire |-> newly]
      BY DEF E!Idle
    <3> QED
      BY <1>1, <1>5, <3>1 DEF Awaits
  <2>2. \A o \in Object : Inserts(o) => Inserts(o)'
    BY <1>1, <1>5, InsertsStay
  <2> QED
    BY <1>1, <1>5, <2>1, <2>2, RiskyKept
<1> QED
  BY <1>1, <1>2, <1>3, <1>5, <1>6, <1>7, NothingOwed

LEMMA DeleteRowKeeps ==
  ASSUME EvaluatorInv, NEW r \in Run, E!DeleteRow(r)
  PROVE  EvaluatorInv'
<1>1. PICK u \in evaluation[r].drop : stored' = stored \ {u}
                                      /\ evaluation' = [evaluation EXCEPT ![r].drop = @ \ {u}]
  BY DEF E!DeleteRow
<1>2. /\ evaluation[r].at = "loop"
      /\ UNCHANGED <<live, matching, changes, fired, repeated, overlaps, slips>>
  BY DEF E!DeleteRow
<1>3. PICK A \in SUBSET Run : Single(A) /\ RepeatsPaid(A)
  BY DEF EvaluatorInv
<1>4. EvaluatorSane
      /\ evaluation[r] \in [at : {"loop"}, drop : SUBSET Object, fire : SUBSET Object]
  BY <1>2 DEF EvaluatorInv, EvaluatorSane, Form
<1> DEFINE x == [at |-> "loop", drop |-> evaluation[r].drop \ {u}, fire |-> evaluation[r].fire]
<1>5. evaluation' = [evaluation EXCEPT ![r] = x]
  <2>1. [evaluation[r] EXCEPT !.drop = @ \ {u}] = x
    BY <1>2, <1>4
  <2> QED
    BY <1>1, <2>1
<1>6. x \in Form /\ \A o \in Object : ~(o \in x.fire /\ o \in x.drop)
  BY <1>2, <1>4 DEF Form, EvaluatorSane
<1>7. EvaluatorSane' /\ evaluation'[r] = x /\ \A q \in Run \ {r} : evaluation'[q] = evaluation[q]
  <2> HIDE DEF x
  <2> QED
    BY <1>1, <1>2, <1>4, <1>5, <1>6, EvaluationMoves DEF EvaluatorSane, E!TypeOK
<1>8. u \in Object /\ u \notin evaluation[r].fire
  BY <1>1, <1>2, <1>4 DEF EvaluatorSane
<1>9. /\ \A o \in Object : Concerns(r, o)' => Concerns(r, o)
      /\ Concerns(r, u) /\ ~Concerns(r, u)'
  BY <1>1, <1>2, <1>7, <1>8 DEF Concerns
<1>10. Pending(A)' \subseteq Pending(A)
       /\ (r \notin A => <<r, u>> \in Pending(A) /\ Pending(A)' \subseteq Pending(A) \ {<<r, u>>})
  BY <1>7, <1>8, <1>9, PendingKept
<1>11. Risky(A)' \subseteq Risky(A) \union {u}
  <2>1. ASSUME NEW o \in Object \ {u} PROVE Awaits(r, o)' => Awaits(r, o)
    BY <1>1, <1>2, <1>7 DEF Awaits
  <2>2. \A o \in Object : Inserts(o) => Inserts(o)'
    BY <1>2, <1>7, InsertsStay
  <2> QED
    BY <1>1, <1>2, <1>7, <2>1, <2>2, RiskyKept
<1>12. CASE r \in A
  <2>1. u \in Risky(A)' => u \in Risky(A)
    <3>1. SUFFICES ASSUME u \in Risky(A)' PROVE u \in Risky(A)
      OBVIOUS
    <3>2. u \in fired
      BY <1>2, <3>1 DEF Risky
    <3>3. CASE Rising(u)'
      <4>1. Awaits(r, u)
        BY <1>1, <1>2, <3>3 DEF Rising, Awaits
      <4> QED
        BY <1>12, <3>2, <4>1 DEF Risky
    <3>4. CASE \E y \in A : Awaits(y, u)'
      <4>1. PICK y \in A : Awaits(y, u)'
        BY <3>4
      <4>2. Awaits(r, u)'
        <5>1. y = r
          BY <1>3, <1>12 DEF Single
        <5> QED
          BY <4>1, <5>1
      <4>3. ~Awaits(r, u)'
        BY <1>7, <1>8 DEF Awaits
      <4> QED
        BY <4>2, <4>3
    <3> QED
      BY <3>1, <3>3, <3>4 DEF Risky
  <2>2. Risky(A)' \subseteq Risky(A)
    BY <1>11, <2>1
  <2> QED
    BY <1>2, <1>3, <1>4, <1>7, <1>10, <2>2, NothingOwed
<1>13. CASE r \notin A
  BY <1>2, <1>3, <1>4, <1>7, <1>10, <1>11, <1>13, Charged
<1> QED
  BY <1>12, <1>13

LEMMA ProposeForKeeps ==
  ASSUME EvaluatorInv, NEW r \in Run, E!Propose(r)
  PROVE  EvaluatorInv'
<1>1. PICK u \in evaluation[r].fire :
        /\ E!Fires(u)
        /\ evaluation' = [evaluation EXCEPT ![r] =
                            [at |-> "insert", fire |-> evaluation[r].fire \ {u}, object |-> u]]
  BY DEF E!Propose
<1>2. /\ evaluation[r].at = "loop" /\ evaluation[r].drop = {}
      /\ UNCHANGED <<live, matching, stored, changes, overlaps, slips>>
  BY DEF E!Propose
<1>3. PICK A \in SUBSET Run : Single(A) /\ RepeatsPaid(A)
  BY DEF EvaluatorInv
<1>4. EvaluatorSane
      /\ evaluation[r] \in [at : {"loop"}, drop : SUBSET Object, fire : SUBSET Object]
  BY <1>2 DEF EvaluatorInv, EvaluatorSane, Form
<1> DEFINE x == [at |-> "insert", fire |-> evaluation[r].fire \ {u}, object |-> u]
<1>5. u \in Object /\ x \in Form /\ x.at # "loop"
  BY <1>4 DEF Form
<1>6. fired' = fired \union {u} /\ repeated' = IF u \in fired THEN repeated + 1 ELSE repeated
  BY <1>1 DEF E!Fires
<1>7. repeated \in Nat /\ slips \in Nat
  BY <1>4, EvaluatorConstants DEF EvaluatorSane, E!TypeOK
<1>8. EvaluatorSane' /\ evaluation'[r] = x /\ \A q \in Run \ {r} : evaluation'[q] = evaluation[q]
  <2>1. fired' \subseteq Object /\ repeated' \in Nat
    BY <1>4, <1>5, <1>6, <1>7 DEF EvaluatorSane, E!TypeOK
  <2>2. evaluation' = [evaluation EXCEPT ![r] = x]
    BY <1>1
  <2> HIDE DEF x
  <2> QED
    BY <1>2, <1>4, <1>5, <2>1, <2>2, EvaluationMoves DEF EvaluatorSane, E!TypeOK
<1>9. /\ \A o \in Object : Concerns(r, o)' => Concerns(r, o)
      /\ Concerns(r, u) /\ ~Concerns(r, u)'
  BY <1>1, <1>2, <1>8 DEF Concerns
<1>10. Pending(A)' \subseteq Pending(A)
       /\ (r \notin A => <<r, u>> \in Pending(A) /\ Pending(A)' \subseteq Pending(A) \ {<<r, u>>})
  BY <1>5, <1>8, <1>9, PendingKept
<1>11. Risky(A)' \subseteq Risky(A) \union {u}
  <2>1. ASSUME NEW o \in Object \ {u} PROVE Awaits(r, o)' => Awaits(r, o)
    BY <1>1, <1>2, <1>8 DEF Awaits
  <2>2. \A o \in Object : Inserts(o) => Inserts(o)'
    BY <1>2, <1>8, InsertsStay
  <2> QED
    BY <1>2, <1>6, <1>8, <2>1, <2>2, RiskyKept
<1>12. ~Rising(u)'
  BY <1>8 DEF Rising, Inserts
<1>13. ~Awaits(r, u)'
  BY <1>8 DEF Awaits
<1>14. CASE r \in A
  <2>1. u \notin Risky(A)'
    <3>1. \A y \in A : y = r
      BY <1>3, <1>14 DEF Single
    <3>2. \A y \in A : ~Awaits(y, u)'
      BY <1>13, <3>1
    <3> QED
      BY <1>12, <3>2 DEF Risky
  <2>2. u \in fired => u \in Risky(A)
    <3>1. Awaits(r, u)
      BY <1>1, <1>2 DEF Awaits
    <3> QED
      BY <1>14, <3>1 DEF Risky
  <2>3. Risky(A)' \subseteq Risky(A) \ {u}
    BY <1>11, <2>1
  <2>4. /\ Cardinality(Pending(A)') \in Nat /\ Cardinality(Pending(A)') <= Cardinality(Pending(A))
        /\ Cardinality(Pending(A)) \in Nat
    BY <1>4, <1>10, FiniteDebts, CountFewer
  <2>5. /\ Cardinality(Risky(A)') \in Nat /\ Cardinality(Risky(A)') <= Cardinality(Risky(A))
        /\ Cardinality(Risky(A)) \in Nat
    BY <1>4, <2>3, FiniteDebts, CountFewer
  <2>6. u \in fired => Cardinality(Risky(A)') + 1 <= Cardinality(Risky(A))
    BY <1>4, <2>2, <2>3, FiniteDebts, CountLess
  <2>7. repeated' + Cardinality(Pending(A)') + Cardinality(Risky(A)')
          <= repeated + Cardinality(Pending(A)) + Cardinality(Risky(A)) + slips' - slips
    BY <1>2, <1>6, <1>7, <2>4, <2>5, <2>6
  <2> QED
    BY <1>2, <1>3, <1>4, <1>8, <2>7, Settled
<1>15. CASE r \notin A
  <2>1. CASE u \in fired
    <3>1. u \in Risky(A)' => u \in Risky(A)
      <4>1. ASSUME NEW y \in A, Awaits(y, u)' PROVE Awaits(y, u)
        <5>1. evaluation'[y] = evaluation[y]
          BY <1>8, <1>15
        <5> QED
          BY <1>2, <4>1, <5>1 DEF Awaits
      <4> QED
        BY <1>12, <2>1, <4>1 DEF Risky
    <3>2. Risky(A)' \subseteq Risky(A)
      BY <1>11, <3>1
    <3>3. /\ Cardinality(Risky(A)') \in Nat /\ Cardinality(Risky(A)') <= Cardinality(Risky(A))
          /\ Cardinality(Risky(A)) \in Nat
      BY <1>4, <3>2, FiniteDebts, CountFewer
    <3>4. Cardinality(Pending(A)') + 1 <= Cardinality(Pending(A))
      BY <1>4, <1>10, <1>15, FiniteDebts, CountLess
    <3>5. Cardinality(Pending(A)') \in Nat /\ Cardinality(Pending(A)) \in Nat
      BY <1>4, <1>8, FiniteDebts, FiniteDebtsAfter
    <3>6. repeated' + Cardinality(Pending(A)') + Cardinality(Risky(A)')
            <= repeated + Cardinality(Pending(A)) + Cardinality(Risky(A)) + slips' - slips
      BY <1>2, <1>6, <1>7, <2>1, <3>3, <3>4, <3>5
    <3> QED
      BY <1>2, <1>3, <1>4, <1>8, <3>6, Settled
  <2>2. CASE u \notin fired
    <3>1. repeated' = repeated
      BY <1>6, <2>2
    <3> QED
      BY <1>2, <1>3, <1>4, <1>8, <1>10, <1>11, <1>15, <3>1, Charged
  <2> QED
    BY <2>1, <2>2
<1> QED
  BY <1>14, <1>15

LEMMA ProposeForFailsKeeps ==
  ASSUME EvaluatorInv, NEW r \in Run, E!ProposeFails(r)
  PROVE  EvaluatorInv'
<1>1. PICK u \in evaluation[r].fire :
        /\ E!Fires(u) \/ UNCHANGED <<fired, repeated>>
        /\ evaluation' = [evaluation EXCEPT ![r].fire = @ \ {u}]
  BY DEF E!ProposeFails
<1>2. /\ evaluation[r].at = "loop" /\ evaluation[r].drop = {}
      /\ UNCHANGED <<live, matching, stored, changes, overlaps>>
      /\ slips' = slips + 1 /\ slips < MaxMishaps
  BY DEF E!ProposeFails
<1>3. PICK A \in SUBSET Run : Single(A) /\ RepeatsPaid(A)
  BY DEF EvaluatorInv
<1>4. EvaluatorSane
      /\ evaluation[r] \in [at : {"loop"}, drop : SUBSET Object, fire : SUBSET Object]
  BY <1>2 DEF EvaluatorInv, EvaluatorSane, Form
<1> DEFINE x == [at |-> "loop", drop |-> {}, fire |-> evaluation[r].fire \ {u}]
<1>5. u \in Object /\ x \in Form /\ \A o \in Object : ~(o \in x.fire /\ o \in x.drop)
  BY <1>4 DEF Form
<1>6. /\ fired' = fired \union {u} \/ fired' = fired
      /\ repeated' = repeated \/ (repeated' = repeated + 1 /\ u \in fired)
  BY <1>1 DEF E!Fires
<1>7. repeated \in Nat /\ slips \in Nat /\ slips' \in 0..MaxMishaps
  BY <1>2, <1>4, EvaluatorConstants DEF EvaluatorSane, E!TypeOK
<1>8. EvaluatorSane' /\ evaluation'[r] = x /\ \A q \in Run \ {r} : evaluation'[q] = evaluation[q]
  <2>1. fired' \subseteq Object /\ repeated' \in Nat
    BY <1>4, <1>5, <1>6, <1>7 DEF EvaluatorSane, E!TypeOK
  <2>2. evaluation' = [evaluation EXCEPT ![r] = x]
    <3>1. [evaluation[r] EXCEPT !.fire = @ \ {u}] = x
      BY <1>2, <1>4
    <3> QED
      BY <1>1, <3>1
  <2> HIDE DEF x
  <2> QED
    BY <1>2, <1>4, <1>5, <1>7, <2>1, <2>2, EvaluationMoves DEF EvaluatorSane, E!TypeOK
<1>9. /\ \A o \in Object : Concerns(r, o)' => Concerns(r, o)
      /\ Concerns(r, u) /\ ~Concerns(r, u)'
  BY <1>1, <1>2, <1>8 DEF Concerns
<1>10. Pending(A)' \subseteq Pending(A)
       /\ (r \notin A => <<r, u>> \in Pending(A) /\ Pending(A)' \subseteq Pending(A) \ {<<r, u>>})
  BY <1>5, <1>8, <1>9, PendingKept
<1>11. Risky(A)' \subseteq Risky(A) \union {u}
  <2>1. ASSUME NEW o \in Object \ {u} PROVE Awaits(r, o)' => Awaits(r, o)
    BY <1>1, <1>2, <1>8 DEF Awaits
  <2>2. \A o \in Object : Inserts(o) => Inserts(o)'
    BY <1>2, <1>8, InsertsStay
  <2> QED
    BY <1>2, <1>6, <1>8, <2>1, <2>2, RiskyKept
<1>12. /\ Cardinality(Pending(A)') \in Nat /\ Cardinality(Pending(A)') <= Cardinality(Pending(A))
       /\ Cardinality(Pending(A)) \in Nat
  BY <1>4, <1>10, FiniteDebts, CountFewer
<1>13. Cardinality(Risky(A)') <= Cardinality(Risky(A)) + 1
  BY <1>4, <1>11, FiniteDebts, CountMore
<1>14. Cardinality(Risky(A)') \in Nat /\ Cardinality(Risky(A)) \in Nat
  BY <1>4, <1>8, FiniteDebts, FiniteDebtsAfter
<1>15. r \notin A => Cardinality(Pending(A)') + 1 <= Cardinality(Pending(A))
  BY <1>4, <1>10, FiniteDebts, CountLess
<1>16. r \in A /\ u \in fired => Cardinality(Risky(A)') <= Cardinality(Risky(A))
  <2>1. SUFFICES ASSUME r \in A, u \in fired
                 PROVE  Cardinality(Risky(A)') <= Cardinality(Risky(A))
    OBVIOUS
  <2>2. Awaits(r, u)
    BY <1>1, <1>2 DEF Awaits
  <2>3. Risky(A)' \subseteq Risky(A)
    BY <1>11, <2>1, <2>2 DEF Risky
  <2> QED
    BY <1>4, <2>3, FiniteDebts, CountFewer
<1>17. repeated' + Cardinality(Pending(A)') + Cardinality(Risky(A)')
         <= repeated + Cardinality(Pending(A)) + Cardinality(Risky(A)) + slips' - slips
  BY <1>2, <1>6, <1>7, <1>12, <1>13, <1>14, <1>15, <1>16
<1> QED
  BY <1>2, <1>3, <1>4, <1>8, <1>17, Settled

\* Run r goes back to the loop, with or without the row.
LEMMA BackToLoop ==
  ASSUME EvaluatorSane, NEW r \in Run, evaluation[r].at = "insert",
         evaluation' = [evaluation EXCEPT ![r] =
                          [at |-> "loop", drop |-> {}, fire |-> evaluation[r].fire]],
         stored' \subseteq Object, slips' \in 0..MaxMishaps,
         UNCHANGED <<live, matching, changes, fired, repeated, overlaps>>,
         NEW A
  PROVE  /\ EvaluatorSane' /\ \A q \in Run \ {r} : evaluation'[q] = evaluation[q]
         /\ evaluation[r].object \in Object
         /\ Pending(A)' \subseteq Pending(A)
         /\ \A o \in Object : Awaits(r, o)' => Awaits(r, o)
<1> DEFINE x == [at |-> "loop", drop |-> {}, fire |-> evaluation[r].fire]
<1>1. evaluation[r] \in [at : {"insert"}, fire : SUBSET Object, object : Object]
  BY DEF EvaluatorSane, Form
<1>2. x \in Form /\ \A o \in Object : ~(o \in x.fire /\ o \in x.drop)
  BY <1>1 DEF Form
<1>3. EvaluatorSane' /\ evaluation'[r] = x /\ \A q \in Run \ {r} : evaluation'[q] = evaluation[q]
  <2>1. evaluation' = [evaluation EXCEPT ![r] = x]
    OBVIOUS
  <2> HIDE DEF x
  <2> QED
    BY <1>2, <2>1, EvaluationMoves DEF EvaluatorSane, E!TypeOK
<1>4. \A o \in Object : Concerns(r, o)' => Concerns(r, o)
  BY <1>3 DEF Concerns
<1>5. Pending(A)' \subseteq Pending(A)
  BY <1>3, <1>4, PendingKept
<1>6. \A o \in Object : Awaits(r, o)' => Awaits(r, o)
  BY <1>3 DEF Awaits
<1> QED
  BY <1>1, <1>3, <1>5, <1>6

LEMMA InsertRowKeeps ==
  ASSUME EvaluatorInv, NEW r \in Run, E!InsertRow(r)
  PROVE  EvaluatorInv'
<1>1. /\ evaluation[r].at = "insert" /\ stored' = stored \union {evaluation[r].object}
      /\ evaluation' = [evaluation EXCEPT ![r] =
                          [at |-> "loop", drop |-> {}, fire |-> evaluation[r].fire]]
      /\ UNCHANGED <<live, matching, changes, fired, repeated, overlaps, slips>>
  BY DEF E!InsertRow
<1>2. PICK A \in SUBSET Run : Single(A) /\ RepeatsPaid(A)
  BY DEF EvaluatorInv
<1>3. EvaluatorSane /\ stored' \subseteq Object /\ slips' \in 0..MaxMishaps
  <2>1. evaluation[r] \in [at : {"insert"}, fire : SUBSET Object, object : Object]
    BY <1>1 DEF EvaluatorInv, EvaluatorSane, Form
  <2> QED
    BY <1>1, <2>1 DEF EvaluatorInv, EvaluatorSane, E!TypeOK
<1>4. /\ EvaluatorSane' /\ \A q \in Run \ {r} : evaluation'[q] = evaluation[q]
      /\ evaluation[r].object \in Object
      /\ Pending(A)' \subseteq Pending(A)
      /\ \A o \in Object : Awaits(r, o)' => Awaits(r, o)
  BY <1>1, <1>3, BackToLoop
<1>5. PICK u \in Object : u = evaluation[r].object
  BY <1>4
<1>6. Risky(A)' \subseteq Risky(A) \union {u}
  <2>1. \A o \in Object \ {u} : Inserts(o) => Inserts(o)'
    BY <1>1, <1>4, <1>5, InsertsStay
  <2>2. \A o \in Object \ {u} : o \in stored' <=> o \in stored
    BY <1>1, <1>5
  <2> QED
    BY <1>1, <1>4, <2>1, <2>2, RiskyKept
<1>7. u \in Risky(A)' => u \in Risky(A)
  <2>1. SUFFICES ASSUME u \in Risky(A)' PROVE u \in Risky(A)
    OBVIOUS
  <2>2. u \in stored' /\ u \in fired
    BY <1>1, <1>5, <2>1 DEF Risky
  <2>3. PICK y \in A : Awaits(y, u)'
    BY <2>1, <2>2 DEF Risky, Rising
  <2>4. Awaits(y, u)
    <3>1. CASE y = r
      BY <1>4, <1>5, <2>3, <3>1
    <3>2. CASE y # r
      BY <1>1, <1>4, <2>2, <2>3, <3>2 DEF Awaits
    <3> QED
      BY <3>1, <3>2
  <2> QED
    BY <2>2, <2>4 DEF Risky
<1>8. Risky(A)' \subseteq Risky(A)
  BY <1>6, <1>7
<1> QED
  BY <1>1, <1>2, <1>3, <1>4, <1>8, NothingOwed

LEMMA InsertFailsKeeps ==
  ASSUME EvaluatorInv, NEW r \in Run, E!InsertFails(r)
  PROVE  EvaluatorInv'
<1>1. /\ evaluation[r].at = "insert" /\ slips < MaxMishaps /\ slips' = slips + 1
      /\ evaluation' = [evaluation EXCEPT ![r] =
                          [at |-> "loop", drop |-> {}, fire |-> evaluation[r].fire]]
      /\ UNCHANGED <<live, matching, stored, changes, fired, repeated, overlaps>>
  BY DEF E!InsertFails
<1>2. PICK A \in SUBSET Run : Single(A) /\ RepeatsPaid(A)
  BY DEF EvaluatorInv
<1>3. EvaluatorSane /\ stored' \subseteq Object /\ slips' \in 0..MaxMishaps
  BY <1>1, EvaluatorConstants DEF EvaluatorInv, EvaluatorSane, E!TypeOK
<1>4. /\ EvaluatorSane' /\ \A q \in Run \ {r} : evaluation'[q] = evaluation[q]
      /\ evaluation[r].object \in Object
      /\ Pending(A)' \subseteq Pending(A)
      /\ \A o \in Object : Awaits(r, o)' => Awaits(r, o)
  BY <1>1, <1>3, BackToLoop
<1>5. PICK u \in Object : u = evaluation[r].object
  BY <1>4
<1>6. Risky(A)' \subseteq Risky(A) \union {u}
  <2>1. \A o \in Object \ {u} : Inserts(o) => Inserts(o)'
    BY <1>1, <1>4, <1>5, InsertsStay
  <2> QED
    BY <1>1, <1>4, <2>1, RiskyKept
<1> QED
  BY <1>1, <1>2, <1>3, <1>4, <1>6, FailurePays

\* Run r stops: it concerns nothing any more.
LEMMA Stops ==
  ASSUME EvaluatorSane, NEW r \in Run, evaluation' = [evaluation EXCEPT ![r] = E!Idle],
         slips' \in 0..MaxMishaps,
         UNCHANGED <<live, matching, stored, changes, fired, repeated, overlaps>>,
         NEW A
  PROVE  /\ EvaluatorSane' /\ \A q \in Run \ {r} : evaluation'[q] = evaluation[q]
         /\ Pending(A)' \subseteq Pending(A)
         /\ \A o \in Object : ~Awaits(r, o)'
<1>1. E!Idle \in Form /\ E!Idle.at = "idle"
  BY DEF E!Idle, Form
<1> DEFINE x == E!Idle
<1> HIDE DEF x
<1>2. x \in Form /\ x.at = "idle" /\ evaluation' = [evaluation EXCEPT ![r] = x]
  BY <1>1 DEF x
<1>3. EvaluatorSane' /\ evaluation'[r] = x /\ \A q \in Run \ {r} : evaluation'[q] = evaluation[q]
  BY <1>2, EvaluationMoves DEF EvaluatorSane, E!TypeOK
<1>4. \A o \in Object : ~Concerns(r, o)' /\ ~Awaits(r, o)'
  BY <1>2, <1>3 DEF Concerns, Awaits
<1>5. Pending(A)' \subseteq Pending(A)
  BY <1>3, <1>4, PendingKept
<1> QED
  BY <1>3, <1>4, <1>5

LEMMA FinishEvaluationKeeps ==
  ASSUME EvaluatorInv, NEW r \in Run, E!Finish(r)
  PROVE  EvaluatorInv'
<1>1. /\ evaluation[r].at = "loop" /\ evaluation' = [evaluation EXCEPT ![r] = E!Idle]
      /\ UNCHANGED <<live, matching, stored, changes, fired, repeated, overlaps, slips>>
  BY DEF E!Finish
<1>2. PICK A \in SUBSET Run : Single(A) /\ RepeatsPaid(A)
  BY DEF EvaluatorInv
<1>3. EvaluatorSane /\ slips' \in 0..MaxMishaps
  BY <1>1 DEF EvaluatorInv, EvaluatorSane, E!TypeOK
<1>4. /\ EvaluatorSane' /\ \A q \in Run \ {r} : evaluation'[q] = evaluation[q]
      /\ Pending(A)' \subseteq Pending(A)
      /\ \A o \in Object : ~Awaits(r, o)'
  BY <1>1, <1>3, Stops
<1>5. Risky(A)' \subseteq Risky(A) \union {}
  <2>1. \A o \in Object : Inserts(o) => Inserts(o)'
    BY <1>1, <1>4, InsertsStay
  <2> QED
    BY <1>1, <1>4, <2>1, RiskyKept
<1> QED
  BY <1>1, <1>2, <1>3, <1>4, <1>5, NothingOwed

LEMMA DieEvaluatingKeeps ==
  ASSUME EvaluatorInv, NEW r \in Run, E!Die(r)
  PROVE  EvaluatorInv'
<1>1. /\ slips < MaxMishaps /\ slips' = slips + 1
      /\ evaluation' = [evaluation EXCEPT ![r] = E!Idle]
      /\ UNCHANGED <<live, matching, stored, changes, fired, repeated, overlaps>>
  BY DEF E!Die
<1>2. PICK A \in SUBSET Run : Single(A) /\ RepeatsPaid(A)
  BY DEF EvaluatorInv
<1>3. EvaluatorSane /\ slips' \in 0..MaxMishaps
  BY <1>1, EvaluatorConstants DEF EvaluatorInv, EvaluatorSane, E!TypeOK
<1>4. /\ EvaluatorSane' /\ \A q \in Run \ {r} : evaluation'[q] = evaluation[q]
      /\ Pending(A)' \subseteq Pending(A)
      /\ \A o \in Object : ~Awaits(r, o)'
  BY <1>1, <1>3, Stops
<1>5. PICK u : \A o \in Object \ {u} : Inserts(o) => Inserts(o)'
  <2>1. CASE evaluation[r].at = "insert"
    <3>1. \A o \in Object \ {evaluation[r].object} : Inserts(o) => Inserts(o)'
      BY <1>4, <2>1, InsertsStay
    <3> QED
      BY <3>1
  <2>2. CASE evaluation[r].at # "insert"
    BY <1>4, <2>2, InsertsStay
  <2> QED
    BY <2>1, <2>2
<1>6. Risky(A)' \subseteq Risky(A) \union {u}
  BY <1>1, <1>4, <1>5, RiskyKept
<1> QED
  BY <1>1, <1>2, <1>3, <1>4, <1>6, FailurePays

LEMMA ChangeKeeps ==
  ASSUME EvaluatorInv, NEW u \in Object, E!Change(u)
  PROVE  EvaluatorInv'
<1>1. /\ changes < MaxChanges /\ changes' = changes + 1
      /\ matching' = IF u \in matching THEN matching \ {u} ELSE matching \union {u}
      /\ fired' = fired \ {u}
      /\ UNCHANGED <<live, stored, evaluation, repeated, overlaps, slips>>
  BY DEF E!Change
<1>2. PICK A \in SUBSET Run : Single(A) /\ RepeatsPaid(A)
  BY DEF EvaluatorInv
<1>3. EvaluatorSane /\ EvaluatorSane'
  <2>1. /\ changes' \in 0..MaxChanges /\ matching' \subseteq Object /\ fired' \subseteq Object
    BY <1>1, EvaluatorConstants DEF EvaluatorInv, EvaluatorSane, E!TypeOK
  <2> QED
    BY <1>1, <2>1 DEF EvaluatorInv, EvaluatorSane, E!TypeOK
<1>4. Pending(A)' = Pending(A)
  BY <1>1 DEF Pending, Concerns
<1>5. ASSUME NEW o \in Risky(A)' PROVE o \in Risky(A)
  <2>1. o \in fired /\ o # u /\ (o \in matching' <=> o \in matching)
    BY <1>1 DEF Risky
  <2>2. Rising(o)' => Rising(o)
    BY <1>1, <2>1 DEF Rising, Inserts
  <2>3. \A x \in A : Awaits(x, o)' => Awaits(x, o)
    BY <1>1, <2>1 DEF Awaits
  <2> QED
    BY <2>1, <2>2, <2>3 DEF Risky
<1> QED
  BY <1>1, <1>2, <1>3, <1>4, <1>5, NothingOwed

\* What the debts do not depend on.
LEMMA DebtsStand ==
  ASSUME EvaluatorInv, EvaluatorSane',
         UNCHANGED <<matching, stored, evaluation, fired, repeated, overlaps, slips>>
  PROVE  EvaluatorInv'
<1>1. PICK A \in SUBSET Run : Single(A) /\ RepeatsPaid(A)
  BY DEF EvaluatorInv
<1>2. Pending(A)' = Pending(A)
  BY DEF Pending, Concerns
<1>3. Risky(A)' = Risky(A)
  BY DEF Risky, Rising, Inserts, Awaits
<1> QED
  BY <1>1, <1>2, <1>3, NothingOwed DEF EvaluatorInv

LEMMA RetireKeeps ==
  ASSUME EvaluatorInv, E!Retire
  PROVE  EvaluatorInv'
<1>1. live' = FALSE
      /\ UNCHANGED <<matching, stored, evaluation, changes, fired, repeated, overlaps, slips>>
  BY DEF E!Retire
<1>2. EvaluatorSane'
  BY <1>1 DEF EvaluatorInv, EvaluatorSane, E!TypeOK
<1> QED
  BY <1>1, <1>2, DebtsStand

LEMMA TimesMore ==
  ASSUME NEW n \in Nat, NEW m \in Nat, NEW k \in Nat, k >= 1
  PROVE  n * m + n <= n * (m + k)
<1>1. n * (m + k) = n * m + n * k
  OBVIOUS
<1>2. n <= n * k
  <2>1. k = 1 + (k - 1) /\ k - 1 \in Nat
    OBVIOUS
  <2>2. n * k = n + n * (k - 1)
    BY <2>1
  <2>3. n * (k - 1) \in Nat
    BY <2>1
  <2> QED
    BY <2>2, <2>3
<1>3. n * m \in Nat /\ n * k \in Nat
  OBVIOUS
<1> QED
  BY <1>1, <1>2, <1>3

LEMMA ReadCurrentKeeps ==
  ASSUME EvaluatorInv, NEW r \in Run, E!ReadCurrent(r)
  PROVE  EvaluatorInv'
<1> DEFINE x == [at |-> "previous", current |-> matching]
           UnderWay == {s \in Run : evaluation[s].at # "idle"}
           k == Cardinality(UnderWay)
           n == Cardinality(Object)
<1>1. /\ evaluation[r].at = "idle" /\ evaluation' = [evaluation EXCEPT ![r] = x]
      /\ overlaps' = overlaps + k
      /\ UNCHANGED <<live, matching, stored, changes, fired, repeated, slips>>
  <2>1. E!Cardinality(UnderWay) = Cardinality(UnderWay)
    BY SameCounts
  <2> QED
    BY <2>1 DEF E!ReadCurrent
<1>2. PICK A \in SUBSET Run : Single(A) /\ RepeatsPaid(A)
  BY DEF EvaluatorInv
<1>3. k \in Nat /\ (k = 0 => UnderWay = {}) /\ n \in Nat /\ overlaps \in Nat /\ EvaluatorSane
  <2>1. IsFiniteSet(UnderWay)
    BY EvaluatorConstants, FS_Subset
  <2> QED
    BY <2>1, EvaluatorConstants, FS_CardinalityType, FS_EmptySet DEF EvaluatorInv, EvaluatorSane
<1> HIDE DEF k, n
<1>4. EvaluatorSane' /\ evaluation'[r] = x /\ \A q \in Run \ {r} : evaluation'[q] = evaluation[q]
  <2>1. x \in Form /\ x.at # "loop"
    BY <1>3 DEF Form, EvaluatorSane, E!TypeOK
  <2>2. overlaps' \in Nat
    BY <1>1, <1>3
  <2> HIDE DEF x
  <2> QED
    BY <1>1, <1>3, <2>1, <2>2, EvaluationMoves DEF EvaluatorSane, E!TypeOK
<1>5. \A o \in Object : Inserts(o) => Inserts(o)'
  BY <1>1, <1>4, InsertsStay
<1>6. repeated \in Nat /\ slips \in Nat /\ n * overlaps \in Nat
  BY <1>3, EvaluatorConstants DEF EvaluatorSane, E!TypeOK
<1>7. /\ Cardinality(Pending(A)) \in Nat /\ Cardinality(Risky(A)) \in Nat
      /\ IsFiniteSet(Pending(A)) /\ IsFiniteSet(Risky(A))
  BY <1>3, FiniteDebts
<1>8. repeated + Cardinality(Pending(A)) + Cardinality(Risky(A)) <= n * overlaps + slips
  <2>1. repeated + Owed(A) <= n * overlaps + slips
    BY <1>2 DEF RepeatsPaid, n
  <2> QED
    BY <1>6, <1>7, <2>1 DEF Owed
<1>9. CASE k = 0
  <2> DEFINE B == {r}
  <2>1. \A q \in Run \ {r} : evaluation[q].at = "idle"
    BY <1>3, <1>9
  <2>2. Pending(B)' = {}
    <3>1. ASSUME NEW p \in Run \X Object, p[1] # r PROVE ~Concerns(p[1], p[2])'
      <4>1. evaluation'[p[1]].at = "idle"
        BY <1>4, <2>1, <3>1
      <4> QED
        BY <4>1 DEF Concerns
    <3> QED
      BY <3>1 DEF Pending
  <2>3. Risky(B)' \subseteq Risky(A) \union {}
    <3>1. \A o \in Object : ~Inserts(o)
      BY <1>1, <2>1 DEF Inserts
    <3>2. \A o \in Object : Awaits(r, o)' => Rising(o)
      BY <1>1, <1>4, <3>1 DEF Awaits, Rising
    <3>3. B \in SUBSET Run /\ B \ {r} \subseteq A
      OBVIOUS
    <3> HIDE DEF B
    <3> QED
      BY <1>1, <1>4, <1>5, <3>2, <3>3, RiskyKept
  <2>4. Cardinality(Pending(B)') = 0
    BY <2>2, FS_EmptySet
  <2>5. Cardinality(Risky(B)') <= Cardinality(Risky(A)) /\ Cardinality(Risky(B)') \in Nat
    BY <1>7, <2>3, CountFewer
  <2>6. overlaps' = overlaps
    BY <1>1, <1>3, <1>9
  <2>7. repeated' + (Cardinality(Pending(B)') + Cardinality(Risky(B)')) <= n * overlaps' + slips'
    <3>1. repeated + (0 + Cardinality(Risky(B)')) <= n * overlaps + slips
      BY <1>6, <1>7, <1>8, <2>5
    <3> QED
      BY <1>1, <2>4, <2>6, <3>1
  <2>8. RepeatsPaid(B)'
    BY <2>7 DEF RepeatsPaid, Owed, n
  <2>9. B \in SUBSET Run /\ Single(B)'
    BY DEF Single
  <2> QED
    BY <1>4, <2>8, <2>9 DEF EvaluatorInv
<1>10. CASE k # 0
  <2> DEFINE B == A \ {r}
             own == {r} \X Object
  <2>1. B \in SUBSET Run /\ Single(B)' /\ B \ {r} \subseteq A /\ r \notin B
    BY <1>2 DEF Single
  <2>2. Risky(B)' \subseteq Risky(A) \union {}
    <3> HIDE DEF B
    <3> QED
      BY <1>1, <1>4, <1>5, <2>1, RiskyKept
  <2>3. Pending(B)' \subseteq Pending(A) \union own
    <3> SUFFICES ASSUME NEW p \in Run \X Object, p[1] \notin B, Concerns(p[1], p[2])', p \notin own
                 PROVE  p \in Pending(A)
      BY DEF Pending
    <3>1. p[1] # r /\ p[1] \in Run
      OBVIOUS
    <3>2. evaluation'[p[1]] = evaluation[p[1]] /\ p[1] \notin A
      BY <1>4, <3>1
    <3> QED
      BY <3>2 DEF Pending, Concerns
  <2>4. IsFiniteSet(own) /\ Cardinality(own) = n
    <3>1. IsFiniteSet({r}) /\ Cardinality({r}) = 1
      BY FS_Singleton
    <3> DEFINE one == {r}
    <3> HIDE DEF one
    <3>2. IsFiniteSet(one \X Object) /\ Cardinality(one \X Object) = Cardinality(one) * n
      BY <3>1, EvaluatorConstants, FS_Product DEF one, n
    <3>3. Cardinality(one) = 1
      BY <3>1 DEF one
    <3>4. IsFiniteSet(one \X Object) /\ Cardinality(one \X Object) = n
      BY <1>3, <3>2, <3>3
    <3> QED
      BY <3>4 DEF one
  <2> HIDE DEF own
  <2>5. /\ IsFiniteSet(Pending(A) \union own)
        /\ Cardinality(Pending(A) \union own) <= Cardinality(Pending(A)) + n
    <3>1. /\ IsFiniteSet(Pending(A) \union own)
          /\ Cardinality(Pending(A) \union own) =
               Cardinality(Pending(A)) + Cardinality(own) - Cardinality(Pending(A) \intersect own)
      BY <1>7, <2>4, FS_Union
    <3>2. Cardinality(Pending(A) \intersect own) \in Nat
      BY <1>7, FS_Intersection, FS_CardinalityType
    <3> QED
      BY <1>3, <1>7, <2>4, <3>1, <3>2
  <2>6. Cardinality(Pending(B)') <= Cardinality(Pending(A)) + n /\ Cardinality(Pending(B)') \in Nat
    <3>1. /\ Cardinality(Pending(B)') <= Cardinality(Pending(A) \union own)
          /\ Cardinality(Pending(B)') \in Nat /\ Cardinality(Pending(A) \union own) \in Nat
      BY <2>3, <2>5, CountFewer
    <3> QED
      BY <1>3, <1>7, <2>5, <3>1
  <2>7. Cardinality(Risky(B)') <= Cardinality(Risky(A)) /\ Cardinality(Risky(B)') \in Nat
    BY <1>7, <2>2, CountFewer
  <2>8. n * overlaps + n <= n * overlaps'
    BY <1>1, <1>3, <1>10, TimesMore
  <2>9. n * overlaps' \in Nat
    BY <1>1, <1>3
  <2>10. repeated' + (Cardinality(Pending(B)') + Cardinality(Risky(B)')) <= n * overlaps' + slips'
    <3>1. repeated + (Cardinality(Pending(B)') + Cardinality(Risky(B)')) <= n * overlaps' + slips
      BY <1>3, <1>6, <1>7, <1>8, <2>6, <2>7, <2>8, <2>9
    <3> QED
      BY <1>1, <3>1
  <2>11. RepeatsPaid(B)'
    BY <2>10 DEF RepeatsPaid, Owed, n
  <2> QED
    BY <1>4, <2>1, <2>11 DEF EvaluatorInv
<1> QED
  BY <1>9, <1>10

LEMMA EvaluatorInit == E!Init => EvaluatorInv
<1> SUFFICES ASSUME E!Init PROVE EvaluatorInv
  OBVIOUS
<1>1. /\ live = TRUE /\ matching = {} /\ stored = {} /\ changes = 0 /\ fired = {}
      /\ evaluation = [r \in Run |-> E!Idle] /\ repeated = 0 /\ overlaps = 0 /\ slips = 0
  BY DEF E!Init
<1>2. \A r \in Run : evaluation[r].at = "idle" /\ evaluation[r] \in Form
  BY <1>1 DEF E!Idle, Form
<1>3. EvaluatorSane
  <2>1. evaluation \in [Run -> Form]
    BY <1>1, <1>2
  <2>2. changes \in 0..MaxChanges /\ slips \in 0..MaxMishaps
    BY <1>1, EvaluatorConstants
  <2> QED
    BY <1>1, <1>2, <2>1, <2>2 DEF EvaluatorSane, E!TypeOK
<1>4. Pending({}) = {} /\ Risky({}) = {}
  BY <1>1, <1>2 DEF Pending, Concerns, Risky
<1>5. RepeatsPaid({})
  <2>1. Owed({}) = 0
    BY <1>4, FS_EmptySet DEF Owed
  <2>2. Cardinality(Object) * 0 = 0
    BY EvaluatorConstants
  <2> QED
    BY <1>1, <2>1, <2>2 DEF RepeatsPaid
<1> QED
  BY <1>3, <1>5 DEF EvaluatorInv, Single

LEMMA EvaluatorStep == EvaluatorInv /\ E!Next => EvaluatorInv'
<1> SUFFICES ASSUME EvaluatorInv, E!Next PROVE EvaluatorInv'
  OBVIOUS
<1>1. ASSUME NEW r \in Run, E!Step(r) PROVE EvaluatorInv'
  BY <1>1, ReadCurrentKeeps, ReadPreviousKeeps, DeleteRowKeeps, ProposeForKeeps,
     ProposeForFailsKeeps, InsertRowKeeps, InsertFailsKeeps, FinishEvaluationKeeps DEF E!Step
<1> QED
  BY <1>1, DieEvaluatingKeeps, ChangeKeeps, RetireKeeps DEF E!Next

LEMMA EvaluatorStands == EvaluatorInv /\ UNCHANGED evaluatorVars => EvaluatorInv'
<1> SUFFICES ASSUME EvaluatorInv, UNCHANGED evaluatorVars PROVE EvaluatorInv'
  OBVIOUS
<1>1. UNCHANGED <<live, matching, stored, evaluation, changes, fired, repeated, overlaps, slips>>
  BY DEF evaluatorVars
<1>2. EvaluatorSane'
  BY <1>1 DEF EvaluatorInv, EvaluatorSane, E!TypeOK
<1> QED
  BY <1>1, <1>2, DebtsStand

LEMMA EvaluatorPays == EvaluatorInv => E!TypeOK /\ E!RepeatsPaidFor
<1> SUFFICES ASSUME EvaluatorInv PROVE E!TypeOK /\ E!RepeatsPaidFor
  OBVIOUS
<1>1. PICK A \in SUBSET Run : RepeatsPaid(A)
  BY DEF EvaluatorInv
<1> DEFINE paid == Cardinality(Object) * overlaps
<1>2. repeated \in Nat /\ slips \in Nat /\ paid \in Nat /\ EvaluatorSane
  BY EvaluatorConstants DEF EvaluatorInv, EvaluatorSane, E!TypeOK
<1>3. Cardinality(Pending(A)) \in Nat /\ Cardinality(Risky(A)) \in Nat
  BY <1>2, FiniteDebts
<1>4. repeated + Owed(A) <= paid + slips
  BY <1>1 DEF RepeatsPaid
<1>5. repeated <= paid + slips
  <2> HIDE DEF paid
  <2> QED
    BY <1>2, <1>3, <1>4 DEF Owed
<1>6. E!Cardinality(Object) = Cardinality(Object)
  BY SameCounts
<1> QED
  BY <1>2, <1>5, <1>6 DEF E!RepeatsPaidFor, EvaluatorSane

-------------------------------------------------------------------------------
\* The connection pool.

Requests == {c1, c2, c3}
Locks == {proposals, records, workspace}

\* A request that goes on acquiring has a read to come.
PoolInv ==
  /\ P!TypeOK
  /\ \A r \in Requests : mode[r] = "in" => reads[r] >= 1

\* The connections in what the requests need, and those of them held at depth d.
Connections ==
  {x \in UNION {{r} \X DOMAIN MixedWork[r] : r \in Requests} : MixedWork[x[1]][x[2]] = Conn}
HeldAt(d) == {x \in Connections : x[2] <= d[x[1]]}

LEMMA SameNumber == \A A : P!Cardinality(A) = Cardinality(A)
BY Zenon DEF P!Cardinality, Cardinality, P!IsFiniteSet, IsFiniteSet

LEMMA PoolConstants ==
  /\ \A r \in Requests : /\ MixedWork[r] \in Seq(Locks \union {Conn}) /\ MixedWork[r] # <<>>
                         /\ Len(MixedWork[r]) \in Nat \ {0}
                         /\ DOMAIN MixedWork[r] = 1..Len(MixedWork[r])
  /\ Conn \notin Locks /\ Capacity \in Nat /\ MaxReads \in Nat \ {0}
<1>1. /\ MixedWork \in [Requests -> Seq(Locks \union {Conn})]
      /\ \A r \in Requests : MixedWork[r] # <<>>
      /\ Conn \notin Locks /\ Capacity \in Nat /\ MaxReads \in Nat \ {0}
  BY PoolIsSound DEF P!PoolAssumption, Requests, Locks
<1>2. ASSUME NEW r \in Requests
      PROVE  /\ MixedWork[r] \in Seq(Locks \union {Conn})
             /\ Len(MixedWork[r]) \in Nat \ {0} /\ DOMAIN MixedWork[r] = 1..Len(MixedWork[r])
  <2>1. PICK s \in Seq(Locks \union {Conn}) : s = MixedWork[r]
    BY <1>1
  <2>2. s # <<>>
    BY <1>1, <2>1
  <2>3. Len(s) \in Nat \ {0} /\ DOMAIN s = 1..Len(s)
    BY <2>1, <2>2
  <2> QED
    BY <2>1, <2>3
<1> QED
  BY <1>1, <1>2

LEMMA FiniteConnections == IsFiniteSet(Connections)
<1> DEFINE len(r) == Len(MixedWork[r])
           most == len(c1) + len(c2) + len(c3)
<1>1. \A r \in Requests : len(r) \in Nat /\ DOMAIN MixedWork[r] = 1..len(r)
  BY PoolConstants
<1>2. c1 \in Requests /\ c2 \in Requests /\ c3 \in Requests
  BY DEF Requests
<1>3. most \in Nat /\ \A r \in Requests : len(r) <= most
  <2>1. len(c1) \in Nat /\ len(c2) \in Nat /\ len(c3) \in Nat
    BY <1>1, <1>2
  <2>2. most \in Nat /\ len(c1) <= most /\ len(c2) <= most /\ len(c3) <= most
    <3> HIDE DEF len
    <3> QED
      BY <2>1
  <2> QED
    BY <2>2 DEF Requests
<1>4. IsFiniteSet(Requests)
  <2>1. IsFiniteSet({c1})
    BY FS_Singleton
  <2>2. IsFiniteSet({c1} \union {c2})
    BY <2>1, FS_AddElement
  <2>3. IsFiniteSet(({c1} \union {c2}) \union {c3})
    BY <2>2, FS_AddElement
  <2>4. Requests = ({c1} \union {c2}) \union {c3}
    BY DEF Requests
  <2> QED
    BY <2>3, <2>4
<1> HIDE DEF len, most
<1>5. IsFiniteSet(Requests \X (1..most))
  <2>1. IsFiniteSet(1..most)
    BY <1>3, FS_Interval
  <2> QED
    BY <1>4, <2>1, FS_Product
<1>6. Connections \subseteq Requests \X (1..most)
  <2>1. ASSUME NEW r \in Requests PROVE DOMAIN MixedWork[r] \subseteq 1..most
    <3>1. len(r) \in Nat /\ len(r) <= most /\ DOMAIN MixedWork[r] = 1..len(r)
      BY <1>1, <1>3, <2>1
    <3> QED
      BY <1>3, <3>1
  <2> QED
    BY <2>1 DEF Connections
<1> QED
  BY <1>5, <1>6, FS_Subset

LEMMA HeldConns ==
  /\ P!ConnsHeld = HeldAt(depth)
  /\ P!ConnsHeld' = HeldAt(depth')
<1>1. P!ConnsHeld = HeldAt(depth)
  BY DEF P!ConnsHeld, P!Held, HeldAt, Connections, Requests
<1>2. P!ConnsHeld' = HeldAt(depth')
  BY DEF P!ConnsHeld, P!Held, HeldAt, Connections, Requests
<1> QED
  BY <1>1, <1>2

LEMMA HeldCounts ==
  ASSUME NEW d
  PROVE  IsFiniteSet(HeldAt(d)) /\ Cardinality(HeldAt(d)) \in Nat
<1>1. HeldAt(d) \subseteq Connections
  BY DEF HeldAt
<1> QED
  BY <1>1, FiniteConnections, CountFewer

\* A step of request r that takes it to depth n.
LEMMA DepthMoves ==
  ASSUME P!TypeOK, NEW r \in Requests, NEW n \in Nat, depth' = [depth EXCEPT ![r] = n]
  PROVE  /\ depth' \in [Requests -> Nat]
         /\ n <= depth[r] => Cardinality(HeldAt(depth')) <= Cardinality(HeldAt(depth))
         /\ n = depth[r] + 1 => Cardinality(HeldAt(depth')) <= Cardinality(HeldAt(depth)) + 1
         /\ n = depth[r] + 1 /\ (n \in DOMAIN MixedWork[r] => MixedWork[r][n] # Conn) =>
              Cardinality(HeldAt(depth')) <= Cardinality(HeldAt(depth))
<1>1. depth \in [Requests -> Nat]
  BY DEF P!TypeOK, Requests
<1>2. depth' \in [Requests -> Nat] /\ depth'[r] = n /\ \A q \in Requests \ {r} : depth'[q] = depth[q]
  BY <1>1
<1>3. \A x \in Connections : x[1] \in Requests /\ x[2] \in DOMAIN MixedWork[x[1]] /\ x = <<x[1], x[2]>>
                             /\ MixedWork[x[1]][x[2]] = Conn /\ x[2] \in Nat
  <2>1. ASSUME NEW x \in Connections
        PROVE  /\ x[1] \in Requests /\ x[2] \in DOMAIN MixedWork[x[1]] /\ x = <<x[1], x[2]>>
               /\ MixedWork[x[1]][x[2]] = Conn
    BY DEF Connections
  <2>2. ASSUME NEW x \in Connections PROVE x[2] \in Nat
    <3>1. x[2] \in 1..Len(MixedWork[x[1]]) /\ Len(MixedWork[x[1]]) \in Nat
      BY <2>1, PoolConstants
    <3> QED
      BY <3>1
  <2> QED
    BY <2>1, <2>2
<1>4. ASSUME n <= depth[r] PROVE HeldAt(depth') \subseteq HeldAt(depth)
  <2> SUFFICES ASSUME NEW x \in Connections, x[2] <= depth'[x[1]] PROVE x[2] <= depth[x[1]]
    BY DEF HeldAt
  <2> QED
    BY <1>1, <1>2, <1>3, <1>4
<1>5. ASSUME n = depth[r] + 1 PROVE HeldAt(depth') \subseteq HeldAt(depth) \union {<<r, n>>}
  <2> SUFFICES ASSUME NEW x \in Connections, x[2] <= depth'[x[1]], x # <<r, n>>
               PROVE  x[2] <= depth[x[1]]
    BY DEF HeldAt
  <2>1. CASE x[1] = r
    BY <1>1, <1>2, <1>3, <1>5, <2>1
  <2>2. CASE x[1] # r
    BY <1>2, <1>3, <2>2
  <2> QED
    BY <2>1, <2>2
<1>6. ASSUME n = depth[r] + 1, n \in DOMAIN MixedWork[r] => MixedWork[r][n] # Conn
      PROVE  HeldAt(depth') \subseteq HeldAt(depth)
  <2>1. <<r, n>> \notin Connections
    <3>1. <<r, n>>[1] = r /\ <<r, n>>[2] = n
      OBVIOUS
    <3> QED
      BY <1>3, <1>6, <3>1
  <2>2. HeldAt(depth') \subseteq Connections
    BY DEF HeldAt
  <2> QED
    BY <1>5, <1>6, <2>1, <2>2
<1>7. n <= depth[r] => Cardinality(HeldAt(depth')) <= Cardinality(HeldAt(depth))
  BY <1>4, HeldCounts, CountFewer
<1>8. n = depth[r] + 1 => Cardinality(HeldAt(depth')) <= Cardinality(HeldAt(depth)) + 1
  BY <1>5, HeldCounts, CountMore
<1>9. n = depth[r] + 1 /\ (n \in DOMAIN MixedWork[r] => MixedWork[r][n] # Conn) =>
        Cardinality(HeldAt(depth')) <= Cardinality(HeldAt(depth))
  BY <1>6, HeldCounts, CountFewer
<1> QED
  BY <1>2, <1>7, <1>8, <1>9

\* The types of the pool, with the connections counted in the terms used here.
LEMMA PoolTypes ==
  /\ P!TypeOK <=> /\ mode \in [Requests -> {"idle", "in", "out"}]
                  /\ depth \in [Requests -> Nat]
                  /\ reads \in [Requests -> 0..MaxReads]
                  /\ queue \in Seq(Requests)
                  /\ Cardinality(HeldAt(depth)) <= Capacity
  /\ P!TypeOK' <=> /\ mode' \in [Requests -> {"idle", "in", "out"}]
                   /\ depth' \in [Requests -> Nat]
                   /\ reads' \in [Requests -> 0..MaxReads]
                   /\ queue' \in Seq(Requests)
                   /\ Cardinality(HeldAt(depth')) <= Capacity
<1>1. P!Cardinality(P!ConnsHeld) = Cardinality(HeldAt(depth))
  BY SameNumber, HeldConns
<1>2. P!Cardinality(P!ConnsHeld)' = Cardinality(HeldAt(depth'))
  <2>1. P!Cardinality(P!ConnsHeld') = Cardinality(HeldAt(depth'))
    BY SameNumber, HeldConns
  <2> QED
    BY <2>1 DEF P!Cardinality
<1> QED
  BY <1>1, <1>2 DEF P!TypeOK, Requests

\* A step that leaves the modes, the reads and the queue what they should be, and
\* takes no connection more than there are.
LEMMA PoolStays ==
  ASSUME PoolInv, depth' \in [Requests -> Nat], queue' \in Seq(Requests),
         mode' \in [Requests -> {"idle", "in", "out"}], reads' \in [Requests -> 0..MaxReads],
         \A r \in Requests : mode'[r] = "in" => reads'[r] >= 1,
         Cardinality(HeldAt(depth')) <= Cardinality(HeldAt(depth))
  PROVE  PoolInv'
<1>1. Cardinality(HeldAt(depth)) <= Capacity
  BY PoolTypes DEF PoolInv
<1>2. Cardinality(HeldAt(depth')) <= Capacity
  BY <1>1, HeldCounts, PoolConstants
<1>3. P!TypeOK'
  BY <1>2, PoolTypes
<1> QED
  BY <1>3 DEF PoolInv

LEMMA PoolMoves == PoolInv /\ P!Next => PoolInv'
<1> SUFFICES ASSUME PoolInv, P!Next PROVE PoolInv'
  OBVIOUS
<1>1. /\ mode \in [Requests -> {"idle", "in", "out"}] /\ depth \in [Requests -> Nat]
      /\ reads \in [Requests -> 0..MaxReads] /\ queue \in Seq(Requests)
      /\ Cardinality(HeldAt(depth)) <= Capacity
      /\ \A r \in Requests : mode[r] = "in" => reads[r] >= 1
      /\ P!TypeOK
  BY PoolTypes DEF PoolInv
<1>2. Cardinality(HeldAt(depth)) \in Nat /\ MaxReads \in Nat /\ Capacity \in Nat
  BY HeldCounts, PoolConstants
<1>3. CASE P!Grant
  <2>1. /\ queue # <<>> /\ P!Cardinality(P!ConnsHeld) < Capacity
        /\ depth' = [depth EXCEPT ![Head(queue)] = @ + 1] /\ queue' = Tail(queue)
        /\ UNCHANGED <<mode, reads>>
    BY <1>3 DEF P!Grant
  <2>2. PICK r \in Requests : r = Head(queue)
    BY <1>1, <2>1
  <2>3. queue' \in Seq(Requests)
    BY <1>1, <2>1
  <2>4. Cardinality(HeldAt(depth)) < Capacity
    BY <2>1, SameNumber, HeldConns
  <2>5. depth[r] + 1 \in Nat /\ depth' = [depth EXCEPT ![r] = depth[r] + 1]
    BY <1>1, <2>1, <2>2
  <2>6. depth' \in [Requests -> Nat] /\ Cardinality(HeldAt(depth')) <= Cardinality(HeldAt(depth)) + 1
    BY <1>1, <2>5, DepthMoves
  <2>7. Cardinality(HeldAt(depth')) <= Capacity
    BY <1>2, <2>4, <2>6, HeldCounts
  <2>8. P!TypeOK'
    BY <1>1, <2>1, <2>3, <2>6, <2>7, PoolTypes
  <2> QED
    BY <1>1, <2>1, <2>8 DEF PoolInv
<1>4. ASSUME NEW r \in Requests, P!Begin(r) PROVE PoolInv'
  <2>1. PICK n \in 1..MaxReads : reads' = [reads EXCEPT ![r] = n]
    BY <1>4 DEF P!Begin
  <2>2. mode' = [mode EXCEPT ![r] = "in"] /\ UNCHANGED <<depth, queue>>
    BY <1>4 DEF P!Begin
  <2>3. n \in 0..MaxReads /\ n >= 1
    BY <1>2, <2>1
  <2>4. reads' \in [Requests -> 0..MaxReads] /\ mode' \in [Requests -> {"idle", "in", "out"}]
    BY <1>1, <2>1, <2>2, <2>3
  <2>5. \A q \in Requests : mode'[q] = "in" => reads'[q] >= 1
    BY <1>1, <2>1, <2>2, <2>3
  <2>6. Cardinality(HeldAt(depth')) <= Cardinality(HeldAt(depth))
    BY <1>2, <2>2
  <2> QED
    BY <1>1, <2>2, <2>4, <2>5, <2>6, PoolStays
<1>5. ASSUME NEW r \in Requests, P!Connect(r) PROVE PoolInv'
  <2>1. queue' = Append(queue, r) /\ UNCHANGED <<mode, depth, reads>>
    BY <1>5 DEF P!Connect
  <2>2. queue' \in Seq(Requests)
    BY <1>1, <2>1
  <2>3. Cardinality(HeldAt(depth')) <= Cardinality(HeldAt(depth))
    BY <1>2, <2>1
  <2> QED
    BY <1>1, <2>1, <2>2, <2>3, PoolStays
<1>6. ASSUME NEW r \in Requests, P!TakeLock(r) PROVE PoolInv'
  <2>1. PICK l \in Locks : P!Wants(r, l)
    BY <1>6 DEF P!TakeLock, Locks
  <2>2. depth' = [depth EXCEPT ![r] = depth[r] + 1] /\ UNCHANGED <<mode, reads, queue>>
    BY <1>6 DEF P!TakeLock
  <2>3. MixedWork[r][depth[r] + 1] = l
    BY <2>1 DEF P!Wants
  <2>4. l # Conn
    BY <2>1, PoolConstants
  <2>5. depth[r] + 1 \in Nat
    BY <1>1
  <2>6. depth' \in [Requests -> Nat] /\ Cardinality(HeldAt(depth')) <= Cardinality(HeldAt(depth))
    BY <1>1, <2>2, <2>3, <2>4, <2>5, DepthMoves
  <2> QED
    BY <1>1, <2>2, <2>6, PoolStays
<1>7. ASSUME NEW r \in Requests, P!EndRead(r) PROVE PoolInv'
  <2>1. /\ mode[r] = "in" /\ P!Working(r) /\ depth' = [depth EXCEPT ![r] = depth[r] - 1]
        /\ reads' = [reads EXCEPT ![r] = reads[r] - 1] /\ UNCHANGED queue
        /\ mode' = IF reads[r] = 1 THEN [mode EXCEPT ![r] = "out"] ELSE mode
    BY <1>7 DEF P!EndRead
  <2>2. depth[r] \in Nat \ {0}
    BY <2>1, PoolConstants DEF P!Working
  <2>3. depth[r] - 1 \in Nat /\ depth[r] - 1 <= depth[r]
    BY <2>2
  <2>4. depth' \in [Requests -> Nat] /\ Cardinality(HeldAt(depth')) <= Cardinality(HeldAt(depth))
    BY <1>1, <2>1, <2>3, DepthMoves
  <2>5. reads[r] \in 0..MaxReads /\ reads[r] >= 1
    BY <1>1, <2>1
  <2>6. reads[r] - 1 \in 0..MaxReads
    BY <1>2, <2>5
  <2>7. reads' \in [Requests -> 0..MaxReads] /\ mode' \in [Requests -> {"idle", "in", "out"}]
    BY <1>1, <2>1, <2>6
  <2>8. ASSUME NEW q \in Requests, mode'[q] = "in" PROVE reads'[q] >= 1
    <3>1. CASE q = r
      <4>1. reads[r] # 1
        BY <1>1, <2>1, <2>8, <3>1
      <4>2. reads'[r] = reads[r] - 1
        BY <1>1, <2>1
      <4> QED
        BY <1>2, <2>5, <3>1, <4>1, <4>2
    <3>2. CASE q # r
      BY <1>1, <2>1, <2>8, <3>2
    <3> QED
      BY <3>1, <3>2
  <2> QED
    BY <1>1, <2>1, <2>4, <2>7, <2>8, PoolStays
<1>8. ASSUME NEW r \in Requests, P!Unwind(r) PROVE PoolInv'
  <2>1. mode[r] = "out" /\ UNCHANGED <<reads, queue>>
    BY <1>8 DEF P!Unwind
  <2>2. CASE depth[r] = 0
    <3>1. mode' = [mode EXCEPT ![r] = "idle"] /\ UNCHANGED depth
      BY <1>8, <2>2 DEF P!Unwind
    <3>2. mode' \in [Requests -> {"idle", "in", "out"}]
          /\ \A q \in Requests : mode'[q] = "in" => mode[q] = "in"
      BY <1>1, <3>1
    <3>3. Cardinality(HeldAt(depth')) <= Cardinality(HeldAt(depth))
      BY <1>2, <3>1
    <3> QED
      BY <1>1, <2>1, <3>1, <3>2, <3>3, PoolStays
  <2>3. CASE depth[r] # 0
    <3>1. depth' = [depth EXCEPT ![r] = depth[r] - 1] /\ UNCHANGED mode
      BY <1>8, <2>3 DEF P!Unwind
    <3>2. depth[r] - 1 \in Nat /\ depth[r] - 1 <= depth[r]
      BY <1>1, <2>3
    <3>3. depth' \in [Requests -> Nat] /\ Cardinality(HeldAt(depth')) <= Cardinality(HeldAt(depth))
      BY <1>1, <3>1, <3>2, DepthMoves
    <3> QED
      BY <1>1, <2>1, <3>1, <3>3, PoolStays
  <2> QED
    BY <2>2, <2>3
<1> QED
  BY <1>3, <1>4, <1>5, <1>6, <1>7, <1>8 DEF P!Next, P!Advance, Requests

LEMMA PoolInit == P!Init => PoolInv
<1> SUFFICES ASSUME P!Init PROVE PoolInv
  OBVIOUS
<1>1. /\ mode = [r \in Requests |-> "idle"] /\ depth = [r \in Requests |-> 0]
      /\ reads = [r \in Requests |-> 0] /\ queue = <<>>
  BY DEF P!Init, Requests
<1>2. HeldAt(depth) = {}
  <2> SUFFICES ASSUME NEW x \in Connections, x[2] <= depth[x[1]] PROVE FALSE
    BY DEF HeldAt
  <2>1. x[1] \in Requests /\ x[2] \in DOMAIN MixedWork[x[1]]
    BY DEF Connections
  <2>2. x[2] \in 1..Len(MixedWork[x[1]]) /\ Len(MixedWork[x[1]]) \in Nat
    BY <2>1, PoolConstants
  <2> QED
    BY <1>1, <2>1, <2>2
<1>3. Cardinality(HeldAt(depth)) <= Capacity
  BY <1>2, FS_EmptySet, PoolConstants
<1>4. P!TypeOK
  <2>1. 0 \in 0..MaxReads
    BY PoolConstants
  <2>2. reads \in [Requests -> 0..MaxReads]
    BY <1>1, <2>1
  <2> QED
    BY <1>1, <1>3, <2>2, PoolTypes
<1> QED
  BY <1>1, <1>4 DEF PoolInv

LEMMA PoolStands == PoolInv /\ UNCHANGED poolVars => PoolInv'
<1> SUFFICES ASSUME PoolInv, UNCHANGED poolVars PROVE PoolInv'
  OBVIOUS
<1>1. UNCHANGED <<mode, depth, reads, queue>>
  BY DEF poolVars
<1> QED
  BY <1>1, PoolTypes DEF PoolInv

-------------------------------------------------------------------------------
\* The copies of a document.

LEMMA MessageTypes ==
  /\ \A content \in SUBSET {1} : D!Step1(content) \in D!Message /\ D!Update(content) \in D!Message
  /\ \A content, other \in SUBSET {1} : D!Missing(content, other) \in D!Message
  /\ \A m \in D!Message : m.edits \in SUBSET {1}
BY DEF D!Step1, D!Update, D!Missing, D!Message

LEMMA DocumentInit == D!Init => D!TypeOK
<1> SUFFICES ASSUME D!Init PROVE D!TypeOK
  OBVIOUS
<1>1. /\ ws = [c \in Editors |-> "connecting"] /\ conn = [c \in Editors |-> "none"]
      /\ text = [c \in Editors |-> {}] /\ room = {} /\ saved = {} /\ breaks = 0
      /\ up = [c \in Editors |-> <<>>] /\ down = [c \in Editors |-> <<>>]
  BY DEF D!Init
<1>2. <<>> \in Seq(D!Message)
  OBVIOUS
<1>3. 0 \in 0..MaxMishaps
  BY LeasedJobsAssumption
<1> QED
  BY <1>1, <1>2, <1>3 DEF D!TypeOK

LEMMA DocumentMoves == D!TypeOK /\ D!Next => D!TypeOK'
<1> SUFFICES ASSUME D!TypeOK, D!Next PROVE D!TypeOK'
  OBVIOUS
<1>1. /\ ws \in [Editors -> {"closed", "connecting", "open", "destroyed"}]
      /\ conn \in [Editors -> {"none", "loading", "joined"}]
      /\ text \in [Editors -> SUBSET {1}]
      /\ room \in SUBSET {1} /\ saved \in SUBSET {1}
      /\ up \in [Editors -> Seq(D!Message)] /\ down \in [Editors -> Seq(D!Message)]
      /\ breaks \in 0..MaxMishaps
  BY DEF D!TypeOK
<1>2. <<>> \in Seq(D!Message)
  OBVIOUS
<1>3. breaks < MaxMishaps /\ breaks' = breaks + 1 => breaks' \in 0..MaxMishaps
  BY <1>1, LeasedJobsAssumption
<1>4. ASSUME NEW q \in Seq(D!Message), NEW m \in D!Message PROVE Append(q, m) \in Seq(D!Message)
  OBVIOUS
<1>5. ASSUME NEW q \in Seq(D!Message), q # <<>>
      PROVE  Tail(q) \in Seq(D!Message) /\ Head(q) \in D!Message
  BY <1>5
<1>6. ASSUME NEW c \in Editors, D!Open(c) PROVE D!TypeOK'
  <2>1. D!Step1(text[c]) \in D!Message
    BY <1>1, MessageTypes
  <2>2. <<D!Step1(text[c])>> \in Seq(D!Message)
    BY <2>1
  <2> QED
    BY <1>1, <1>6, <2>2 DEF D!TypeOK, D!Open
<1>7. ASSUME NEW c \in Editors, D!Join(c) PROVE D!TypeOK'
  <2>1. D!Step1(room) \in D!Message
    BY <1>1, MessageTypes
  <2>2. D!Pushed(c, down[c], D!Step1(room)) \in Seq(D!Message)
    BY <1>1, <1>4, <2>1 DEF D!Pushed
  <2> QED
    BY <1>1, <1>7, <2>2 DEF D!TypeOK, D!Join
<1>8. ASSUME NEW c \in Editors, D!JoinTooLate(c) PROVE D!TypeOK'
  BY <1>1, <1>2, <1>8 DEF D!TypeOK, D!JoinTooLate
<1>9. ASSUME NEW c \in Editors, D!Receive(c) PROVE D!TypeOK'
  <2> DEFINE m == Head(up[c])
  <2>1. up[c] # <<>> /\ up' = [up EXCEPT ![c] = Tail(@)] /\ UNCHANGED <<ws, conn, text, saved, breaks>>
    BY <1>9 DEF D!Receive
  <2>2. m \in D!Message /\ Tail(up[c]) \in Seq(D!Message) /\ m.edits \in SUBSET {1}
    BY <1>1, <1>5, <2>1, MessageTypes
  <2>3. up' \in [Editors -> Seq(D!Message)]
    BY <1>1, <2>1, <2>2
  <2>4. CASE UNCHANGED room /\ down' = [down EXCEPT ![c] = D!Pushed(c, @, D!Missing(room, m.edits))]
    <3>1. D!Missing(room, m.edits) \in D!Message
      BY <1>1, <2>2, MessageTypes
    <3>2. D!Pushed(c, down[c], D!Missing(room, m.edits)) \in Seq(D!Message)
      BY <1>1, <1>4, <3>1 DEF D!Pushed
    <3>3. down' \in [Editors -> Seq(D!Message)]
      BY <1>1, <2>4, <3>2
    <3> QED
      BY <1>1, <2>1, <2>3, <2>4, <3>3 DEF D!TypeOK
  <2>5. CASE room' = room \union m.edits /\ down' = D!Relayed(c, m.edits \ room)
    <3>1. PICK new \in SUBSET {1} : new = m.edits \ room
      BY <2>2
    <3>2. D!Update(new) \in D!Message
      BY MessageTypes
    <3>3. ASSUME NEW d \in Editors PROVE D!Pushed(d, down[d], D!Update(new)) \in Seq(D!Message)
      BY <1>1, <1>4, <3>2 DEF D!Pushed
    <3>4. D!Relayed(c, new) \in [Editors -> Seq(D!Message)]
      BY <1>1, <3>3 DEF D!Relayed
    <3>5. room' \in SUBSET {1} /\ down' \in [Editors -> Seq(D!Message)]
      BY <1>1, <2>2, <2>5, <3>1, <3>4
    <3> QED
      BY <1>1, <2>1, <2>3, <3>5 DEF D!TypeOK
  <2> QED
    BY <1>9, <2>4, <2>5 DEF D!Receive
<1>10. ASSUME NEW c \in Editors, D!Deliver(c) PROVE D!TypeOK'
  <2> DEFINE m == Head(down[c])
  <2>1. down[c] # <<>> /\ down' = [down EXCEPT ![c] = Tail(@)]
        /\ UNCHANGED <<ws, conn, room, saved, breaks>>
    BY <1>10 DEF D!Deliver
  <2>2. m \in D!Message /\ Tail(down[c]) \in Seq(D!Message) /\ m.edits \in SUBSET {1}
    BY <1>1, <1>5, <2>1, MessageTypes
  <2>3. down' \in [Editors -> Seq(D!Message)]
    BY <1>1, <2>1, <2>2
  <2>4. CASE UNCHANGED text /\ up' = [up EXCEPT ![c] = Append(@, D!Missing(text[c], m.edits))]
    <3>1. D!Missing(text[c], m.edits) \in D!Message
      BY <1>1, <2>2, MessageTypes
    <3>2. Append(up[c], D!Missing(text[c], m.edits)) \in Seq(D!Message)
      BY <1>1, <1>4, <3>1
    <3>3. up' \in [Editors -> Seq(D!Message)]
      BY <1>1, <2>4, <3>2
    <3> QED
      BY <1>1, <2>1, <2>3, <2>4, <3>3 DEF D!TypeOK
  <2>5. CASE UNCHANGED up /\ text' = [text EXCEPT ![c] = @ \union m.edits]
    <3>1. text' \in [Editors -> SUBSET {1}]
      <4>1. text[c] \union m.edits \in SUBSET {1}
        BY <1>1, <2>2
      <4> QED
        BY <1>1, <2>5, <4>1
    <3> QED
      BY <1>1, <2>1, <2>3, <2>5, <3>1 DEF D!TypeOK
  <2> QED
    BY <1>10, <2>4, <2>5 DEF D!Deliver
<1>11. ASSUME NEW c \in Editors, D!Reconnect(c) \/ D!Close(c) PROVE D!TypeOK'
  BY <1>1, <1>11 DEF D!TypeOK, D!Reconnect, D!Close
<1>12. ASSUME NEW c \in Editors, D!Destroy(c) PROVE D!TypeOK'
  BY <1>1, <1>2, <1>12 DEF D!TypeOK, D!Destroy
<1>13. ASSUME NEW c \in Editors, D!Disconnect(c) PROVE D!TypeOK'
  BY <1>1, <1>2, <1>3, <1>13 DEF D!TypeOK, D!Disconnect, D!Lost
<1>14. ASSUME NEW c \in Editors, NEW e \in {1}, D!Type(c, e) PROVE D!TypeOK'
  <2>1. D!Update({e}) \in D!Message
    BY MessageTypes
  <2>2. D!Sent(c, D!Update({e})) \in Seq(D!Message)
    BY <1>1, <1>4, <2>1 DEF D!Sent
  <2>3. text[c] \union {e} \in SUBSET {1}
    BY <1>1
  <2> QED
    BY <1>1, <1>14, <2>2, <2>3 DEF D!TypeOK, D!Type
<1>15. CASE D!Save
  BY <1>1, <1>15 DEF D!TypeOK, D!Save
<1>16. CASE D!Restart
  BY <1>1, <1>2, <1>3, <1>16 DEF D!TypeOK, D!Restart, D!Lost
<1>17. ASSUME NEW c \in Editors, D!Progress(c) PROVE D!TypeOK'
  BY <1>6, <1>7, <1>8, <1>9, <1>10, <1>11, <1>17 DEF D!Progress
<1> QED
  BY <1>12, <1>13, <1>14, <1>15, <1>16, <1>17 DEF D!Next

LEMMA DocumentStands == D!TypeOK /\ UNCHANGED docVars => D!TypeOK'
BY DEF docVars, D!TypeOK

-------------------------------------------------------------------------------
\* All of what runs on timers.

TimersInv == SchedulerInv /\ EvaluatorInv /\ PoolInv /\ D!TypeOK

LEMMA TimersStep ==
  TimersInv /\ [WorkersNext]_<<part, vars, schedulerVars, evaluatorVars, poolVars, docVars>>
    => TimersInv'
<1> SUFFICES ASSUME TimersInv,
                    [WorkersNext]_<<part, vars, schedulerVars, evaluatorVars, poolVars, docVars>>
             PROVE  TimersInv'
  OBVIOUS
<1>1. SchedulerInv /\ EvaluatorInv /\ PoolInv /\ D!TypeOK
  BY DEF TimersInv
<1>2. SchedulerInv'
  BY <1>1, SchedulerStep, SchedulerStands DEF WorkersNext
<1>3. EvaluatorInv'
  BY <1>1, EvaluatorStep, EvaluatorStands DEF WorkersNext
<1>4. PoolInv'
  BY <1>1, PoolMoves, PoolStands DEF WorkersNext
<1>5. D!TypeOK'
  BY <1>1, DocumentMoves, DocumentStands DEF WorkersNext
<1> QED
  BY <1>2, <1>3, <1>4, <1>5 DEF TimersInv

\* What the runs under way may still do is always paid for, whatever the runs,
\* triggers, objects and intervals (runOnce of trigger-scheduler.service.ts,
\* evaluateTrigger of trigger-condition-evaluator.service.ts).
THEOREM TimersInductive == WorkersSpec => []TimersInv
<1>1. WorkersInit => TimersInv
  BY SchedulerInit, EvaluatorInit, PoolInit, DocumentInit DEF WorkersInit, TimersInv
<1> QED
  BY <1>1, TimersStep, PTL DEF WorkersSpec

\* A trigger fires early, or twice for an object that has matched all along, at
\* most once for each overlap of runs and each failure.
THEOREM FiringsArePaidFor == WorkersSpec => []FiringsPaidFor
<1>1. TimersInv => FiringsPaidFor
  BY SchedulerPays, EvaluatorPays DEF TimersInv, FiringsPaidFor
<1> QED
  BY <1>1, TimersInductive, PTL

\* Every component's variables have their types; in particular the pool never
\* lends more connections than it has.
THEOREM TypesAreKept == WorkersSpec => []TypesOK
<1>1. TimersInv /\ IInv => TypesOK
  BY SchedulerPays, EvaluatorPays DEF TimersInv, PoolInv, IInv, Sane, TypesOK
<1> QED
  BY <1>1, TimersInductive, JobsInductive, PTL

===============================================================================
