---------------------------- MODULE VeOLASProofs ----------------------------
(***************************************************************************)
(* veOLAS and its wrapper for any accounts, amounts, week, lock lengths    *)
(* and block times: they implement the abstract locks that VoteWeighting   *)
(* is composed with; voting powers, at any later time and at any past      *)
(* block, add up to the totals; the binary search finds the right point.   *)
(*                                                                         *)
(* Books is the inductive invariant of the accounts, SupplyFollows of the  *)
(* supply as long as a checkpoint comes in time (CheckpointedInTime),      *)
(* Histories, Timely and InStep order the points of the past.              *)
(***************************************************************************)
EXTENDS WveOLAS, FiniteSums, SequenceTheorems

(***************************************************************************)
(* Time and weeks                                                          *)
(***************************************************************************)

LEMMA WeekStartProperties ==
  ASSUME NEW t \in Nat
  PROVE  /\ WeekStart(t) \in Nat /\ WeekStart(t) % WEEK = 0
         /\ WeekStart(t) <= t /\ t < WeekStart(t) + WEEK
  <1> DEFINE k == t \div WEEK
  <1>1. k \in Nat /\ k * WEEK <= t /\ t < k * WEEK + WEEK
    BY VeConstantsAssumption
  <1>2. k * WEEK \in Nat /\ (k * WEEK) % WEEK = 0
    BY <1>1, VeConstantsAssumption
  <1> QED BY <1>1, <1>2 DEF WeekStart

\* Products with a week are ordered as their factors.
LEMMA WeekOrder ==
  ASSUME NEW j \in Int, NEW k \in Int
  PROVE  /\ j * WEEK \in Int
         /\ j <= k => j * WEEK <= k * WEEK
         /\ j < k => j * WEEK + WEEK <= k * WEEK
  <1>1. ASSUME NEW m \in Int, m >= 0 PROVE m * WEEK >= 0 /\ m * WEEK \in Int
    BY <1>1, VeConstantsAssumption
  <1>2. k * WEEK - j * WEEK = (k - j) * WEEK /\ (k - j - 1) * WEEK = (k - j) * WEEK - WEEK
    BY VeConstantsAssumption
  <1>3. j <= k => (k - j) * WEEK >= 0
    BY <1>1
  <1>4. j < k => (k - j - 1) * WEEK >= 0
    BY <1>1
  <1>5. j * WEEK \in Int /\ k * WEEK \in Int /\ (k - j) * WEEK \in Int /\ WEEK \in Int
    BY VeConstantsAssumption
  <1> QED BY <1>2, <1>3, <1>4, <1>5

LEMMA WeekMultiple ==
  ASSUME NEW k \in Nat
  PROVE  k * WEEK \in Nat /\ (k * WEEK) % WEEK = 0
  BY VeConstantsAssumption

LEMMA WholeWeeks ==
  ASSUME NEW t \in Nat, t % WEEK = 0
  PROVE  t = (t \div WEEK) * WEEK /\ t \div WEEK \in Nat /\ WeekStart(t) = t
  BY VeConstantsAssumption DEF WeekStart

(***************************************************************************)
(* The times of a walk                                                     *)
(***************************************************************************)

\* Where step i of a walk starts.
FromTime(from, i, t) == IF i = 1 THEN from ELSE StepTime(from, i - 1, t)

\* A walk makes at least one step; before the last it is at the ends of the weeks
\* that passed, and it ends at t unless it is cut off by MAX_STEPS.
LEMMA WalkTimes ==
  ASSUME NEW from \in Nat, NEW t \in Nat, from <= t
  PROVE  /\ StepsTo(from, t) \in Nat \ {0}
         /\ \A i \in 1 .. StepsTo(from, t) - 1 :
              /\ StepTime(from, i, t) = WeekStart(from) + i * WEEK
              /\ StepTime(from, i, t) < t
         /\ StepTime(from, StepsTo(from, t), t) =
              IF t <= WeekStart(from) + MAX_STEPS * WEEK THEN t
              ELSE WeekStart(from) + MAX_STEPS * WEEK
  <1> DEFINE W == WeekStart(from)
             elapsed == t - W
             needed == IF elapsed <= WEEK THEN 1 ELSE (elapsed + WEEK - 1) \div WEEK
             steps == StepsTo(from, t)
  <1>1. W \in Nat /\ W <= from /\ elapsed \in Nat /\ WEEK \in Nat \ {0} /\ MAX_STEPS \in Nat \ {0}
    BY WeekStartProperties, VeConstantsAssumption
  <1>2. steps = IF needed < MAX_STEPS THEN needed ELSE MAX_STEPS
    BY DEF StepsTo
  <1> HIDE DEF W, steps
  <1>3. /\ needed \in Nat \ {0}
        /\ elapsed <= needed * WEEK
        /\ needed > 1 => needed * WEEK < elapsed + WEEK
    <2>1. CASE elapsed <= WEEK
      BY <1>1, <2>1
    <2>2. CASE ~(elapsed <= WEEK)
      <3> DEFINE k == (elapsed + WEEK - 1) \div WEEK
      <3>1. k \in Nat /\ k * WEEK <= elapsed + WEEK - 1 /\ elapsed + WEEK - 1 < k * WEEK + WEEK
        <4>1. elapsed + WEEK - 1 \in Nat
          BY <1>1
        <4> HIDE DEF elapsed
        <4> QED BY <4>1, VeConstantsAssumption
      <3>2. k # 0
        BY <1>1, <3>1, <2>2
      <3>3. k * WEEK \in Int
        BY <3>1, WeekOrder
      <3>4. needed = k
        BY <2>2
      <3> HIDE DEF k, elapsed, needed
      <3> QED BY <1>1, <3>1, <3>2, <3>3, <3>4
    <2> QED BY <2>1, <2>2
  <1> HIDE DEF needed
  <1>4. steps \in Nat \ {0} /\ steps <= needed /\ steps <= MAX_STEPS
    BY <1>1, <1>2, <1>3
  <1>5. ASSUME NEW i \in 1 .. steps - 1
        PROVE  /\ StepTime(from, i, t) = W + i * WEEK
               /\ StepTime(from, i, t) < t
    <2>1. i \in Nat /\ i < needed /\ needed > 1
      BY <1>3, <1>4
    <2>2. i * WEEK + WEEK <= needed * WEEK /\ i * WEEK \in Int /\ needed * WEEK \in Int
      BY <2>1, <1>3, WeekOrder
    <2>3. W + i * WEEK < t
      BY <2>1, <2>2, <1>1, <1>3
    <2> QED BY <2>3, <1>1, <2>2 DEF StepTime, W
  <1>6. StepTime(from, steps, t) = IF t <= W + MAX_STEPS * WEEK THEN t ELSE W + MAX_STEPS * WEEK
    <2>1. /\ steps * WEEK \in Int /\ MAX_STEPS * WEEK \in Int /\ needed * WEEK \in Int
          /\ steps < MAX_STEPS => steps * WEEK <= MAX_STEPS * WEEK
      BY <1>1, <1>3, <1>4, WeekOrder
    <2>2. StepTime(from, steps, t) = IF W + steps * WEEK > t THEN t ELSE W + steps * WEEK
      BY DEF StepTime, W
    <2>3. CASE steps = needed
      <3>1. needed <= MAX_STEPS => needed * WEEK <= MAX_STEPS * WEEK
        BY <1>1, <1>3, WeekOrder
      <3> QED BY <2>1, <2>2, <2>3, <3>1, <1>1, <1>3, <1>4
    <2>4. CASE steps # needed
      <3>1. steps = MAX_STEPS /\ steps < needed
        BY <2>4, <1>2, <1>4, <1>3
      <3>2. needed > 1 /\ steps * WEEK + WEEK <= needed * WEEK
        BY <3>1, <1>3, <1>4, WeekOrder
      <3>3. steps * WEEK < elapsed
        BY <3>2, <1>3, <2>1, <1>1
      <3> QED BY <2>2, <3>1, <3>3, <2>1, <1>1
    <2> QED BY <2>3, <2>4
  <1> QED BY <1>4, <1>5, <1>6 DEF steps, W

\* A step goes forward, and no week ends inside it.
LEMMA WalkStep ==
  ASSUME NEW from \in Nat, NEW t \in Nat, from <= t, NEW i \in 1 .. StepsTo(from, t)
  PROVE  /\ FromTime(from, i, t) \in Nat /\ StepTime(from, i, t) \in Nat
         /\ from <= FromTime(from, i, t)
         /\ FromTime(from, i, t) <= StepTime(from, i, t)
         /\ StepTime(from, i, t) <= t
         /\ \A e \in Nat : e % WEEK = 0 /\ FromTime(from, i, t) < e => StepTime(from, i, t) <= e
         /\ FromTime(from, i, t) = StepTime(from, i, t) => from = t /\ i = 1
         /\ WeekStart(FromTime(from, i, t)) = WeekStart(from) + (i - 1) * WEEK
  <1> DEFINE W == WeekStart(from)
             a == from \div WEEK
  <1>1. /\ W \in Nat /\ W <= from /\ from < W + WEEK /\ WEEK \in Nat \ {0}
        /\ a \in Nat /\ W = a * WEEK /\ W % WEEK = 0
    BY WeekStartProperties, VeConstantsAssumption DEF WeekStart
  <1>2. /\ i \in Nat \ {0} /\ i <= StepsTo(from, t) /\ StepsTo(from, t) \in Nat \ {0}
    BY WalkTimes
  <1> HIDE DEF W, a
  <1>3. /\ i * WEEK \in Nat /\ (i - 1) * WEEK \in Nat /\ i * WEEK = (i - 1) * WEEK + WEEK
        /\ (a + i) * WEEK = W + i * WEEK /\ (a + (i - 1)) * WEEK = W + (i - 1) * WEEK
    BY <1>1, <1>2
  <1>4. /\ StepTime(from, i, t) \in Nat /\ StepTime(from, i, t) <= t
        /\ StepTime(from, i, t) <= W + i * WEEK
        /\ StepTime(from, i, t) = t \/ StepTime(from, i, t) = W + i * WEEK
    BY <1>1, <1>3 DEF StepTime, W
  <1>5. /\ FromTime(from, i, t) \in Nat /\ FromTime(from, i, t) >= W + (i - 1) * WEEK
        /\ FromTime(from, i, t) <= t
        /\ i # 1 => FromTime(from, i, t) < t /\ FromTime(from, i, t) = W + (i - 1) * WEEK
        /\ from <= FromTime(from, i, t)
    <2>1. CASE i = 1
      BY <2>1, <1>1, <1>3 DEF FromTime
    <2>2. CASE i # 1
      <3>1. i - 1 \in 1 .. StepsTo(from, t) - 1
        BY <2>2, <1>2
      <3>2. /\ StepTime(from, i - 1, t) = W + (i - 1) * WEEK
            /\ StepTime(from, i - 1, t) < t
        BY <3>1, WalkTimes DEF W
      <3>3. (i - 1) * WEEK >= WEEK
        BY <2>2, <1>1, <1>2
      <3> QED BY <2>2, <3>2, <3>3, <1>1, <1>3 DEF FromTime
    <2> QED BY <2>1, <2>2
  <1>6. /\ FromTime(from, i, t) <= StepTime(from, i, t)
        /\ FromTime(from, i, t) = StepTime(from, i, t) => from = t /\ i = 1
    <2>1. CASE i = 1
      <3>1. FromTime(from, i, t) = from
        BY <2>1 DEF FromTime
      <3>2. from < W + i * WEEK
        BY <1>1, <1>3, <2>1
      <3> QED BY <2>1, <3>1, <3>2, <1>4
    <2>2. CASE i # 1
      BY <2>2, <1>1, <1>3, <1>4, <1>5
    <2> QED BY <2>1, <2>2
  <1>7. ASSUME NEW e \in Nat, e % WEEK = 0, FromTime(from, i, t) < e
        PROVE  StepTime(from, i, t) <= e
    <2> DEFINE k == e \div WEEK
    <2>1. e = k * WEEK /\ k \in Nat
      BY <1>7, WholeWeeks
    <2> HIDE DEF k
    <2>2. (a + (i - 1)) * WEEK < k * WEEK
      BY <1>1, <1>3, <1>5, <1>7, <2>1
    <2>3. a + (i - 1) \in Int /\ a + i \in Int /\ k \in Int
      BY <1>1, <1>2, <2>1
    <2>4. a + (i - 1) < k
      <3>1. k <= a + (i - 1) => k * WEEK <= (a + (i - 1)) * WEEK
        BY <2>3, WeekOrder
      <3>2. k * WEEK \in Int /\ (a + (i - 1)) * WEEK \in Int
        BY <2>3, WeekOrder
      <3> QED BY <2>2, <2>3, <3>1, <3>2
    <2>5. (a + i) * WEEK <= k * WEEK
      <3>1. a + i <= k
        BY <2>3, <2>4, <1>1, <1>2
      <3> QED BY <3>1, <2>3, WeekOrder
    <2> QED BY <2>1, <2>5, <1>1, <1>3, <1>4
  <1>8. WeekStart(FromTime(from, i, t)) = W + (i - 1) * WEEK
    <2>1. CASE i = 1
      BY <2>1, <1>1 DEF FromTime, W
    <2>2. CASE i # 1
      <3>1. FromTime(from, i, t) = (a + (i - 1)) * WEEK /\ a + (i - 1) \in Nat
        BY <2>2, <1>1, <1>2, <1>3, <1>5
      <3>2. FromTime(from, i, t) % WEEK = 0
        BY <3>1, WeekMultiple
      <3> QED BY <3>2, <1>5, <1>3, <2>2, WholeWeeks
    <2> QED BY <2>1, <2>2
  <1> QED BY <1>4, <1>5, <1>6, <1>7, <1>8 DEF W

(***************************************************************************)
(* The locks                                                               *)
(***************************************************************************)

LocksTypeOK ==
  /\ now \in StartTime .. MaxTime
  /\ mapLockedBalances \in [Voters -> Locks]

\* What CreateLock and IncreaseUnlockTime accept is a week that VeLocks accepts.
LEMMA UnlockTimeAccepted ==
  ASSUME LocksTypeOK, NEW d \in Durations, UnlockTime(d) > now, UnlockTime(d) <= now + MAXTIME
  PROVE  UnlockTime(d) \in Abstract!UnlockTimes /\ UnlockTime(d) \in Nat \ {0}
  <1>1. now \in Nat /\ d \in Nat
    BY VeConstantsAssumption DEF LocksTypeOK, Durations
  <1>2. UnlockTime(d) \in Nat /\ UnlockTime(d) % WEEK = 0
    BY <1>1, WeekStartProperties DEF UnlockTime
  <1> QED BY <1>1, <1>2, VeConstantsAssumption DEF Abstract!UnlockTimes

\* What the transactions on a lock leave in it, without the points they record.
LEMMA DepositForLock ==
  ASSUME LocksTypeOK, NEW u \in Voters, NEW a \in Nat, NEW t \in Nat,
         DepositForInternal(u, a, t)
  PROVE  /\ UNCHANGED now
         /\ mapLockedBalances' = [mapLockedBalances EXCEPT
              ![u] = [amount |-> mapLockedBalances[u].amount + a,
                      endTime |-> IF t > 0 THEN t ELSE mapLockedBalances[u].endTime]]
  BY DEF DepositForInternal

LEMMA CreateLockRefines ==
  ASSUME LocksTypeOK, NEW u \in Voters, NEW a \in Amounts, NEW d \in Durations,
         CreateLock(u, a, d)
  PROVE  Abstract!CreateLock(u, a, UnlockTime(d)) /\ UnlockTime(d) \in Abstract!UnlockTimes
  <1>1. /\ a \in Nat /\ mapLockedBalances[u].amount = 0
        /\ DepositForInternal(u, a, UnlockTime(d))
    BY VeConstantsAssumption DEF CreateLock
  <1>2. UnlockTime(d) \in Abstract!UnlockTimes /\ UnlockTime(d) \in Nat \ {0}
    BY UnlockTimeAccepted DEF CreateLock
  <1>3. /\ UNCHANGED now
        /\ mapLockedBalances' = [mapLockedBalances EXCEPT
             ![u] = [amount |-> a, endTime |-> UnlockTime(d)]]
    BY <1>1, <1>2, DepositForLock
  <1> QED BY <1>1, <1>2, <1>3 DEF CreateLock, Abstract!CreateLock

LEMMA IncreaseAmountRefines ==
  ASSUME LocksTypeOK, NEW u \in Voters, NEW a \in Amounts, IncreaseAmount(u, a)
  PROVE  Abstract!Deposit(u, a)
  <1>1. a \in Nat /\ DepositForInternal(u, a, 0)
    BY VeConstantsAssumption DEF IncreaseAmount
  <1>2. mapLockedBalances[u] \in Locks
    BY DEF LocksTypeOK
  <1>3. /\ UNCHANGED now
        /\ mapLockedBalances' = [mapLockedBalances EXCEPT
             ![u] = [amount |-> mapLockedBalances[u].amount + a,
                     endTime |-> mapLockedBalances[u].endTime]]
    BY <1>1, DepositForLock
  <1>4. [mapLockedBalances[u] EXCEPT !.amount = @ + a] =
          [amount |-> mapLockedBalances[u].amount + a, endTime |-> mapLockedBalances[u].endTime]
    BY <1>2 DEF Locks
  <1>5. mapLockedBalances' = [mapLockedBalances EXCEPT ![u].amount = @ + a]
    BY <1>3, <1>4
  <1> QED BY <1>3, <1>5 DEF IncreaseAmount, Abstract!Deposit

LEMMA IncreaseUnlockTimeRefines ==
  ASSUME LocksTypeOK, NEW u \in Voters, NEW d \in Durations, IncreaseUnlockTime(u, d)
  PROVE  Abstract!IncreaseUnlockTime(u, UnlockTime(d)) /\ UnlockTime(d) \in Abstract!UnlockTimes
  <1>1. mapLockedBalances[u] \in Locks
    BY DEF LocksTypeOK
  <1>2. UnlockTime(d) \in Abstract!UnlockTimes /\ UnlockTime(d) \in Nat \ {0}
    <2>1. now \in Nat /\ d \in Nat
      BY VeConstantsAssumption DEF LocksTypeOK, Durations
    <2>2. UnlockTime(d) \in Nat
      BY <2>1, WeekStartProperties DEF UnlockTime
    <2>3. UnlockTime(d) > now /\ UnlockTime(d) <= now + MAXTIME
      BY <1>1, <2>1, <2>2 DEF IncreaseUnlockTime, Locks
    <2> QED BY <2>3, UnlockTimeAccepted
  <1>3. /\ UNCHANGED now
        /\ mapLockedBalances' = [mapLockedBalances EXCEPT
             ![u] = [amount |-> mapLockedBalances[u].amount + 0, endTime |-> UnlockTime(d)]]
    BY <1>2, DepositForLock DEF IncreaseUnlockTime
  <1>4. [mapLockedBalances[u] EXCEPT !.endTime = UnlockTime(d)] =
          [amount |-> mapLockedBalances[u].amount + 0, endTime |-> UnlockTime(d)]
    BY <1>1 DEF Locks
  <1>5. mapLockedBalances' = [mapLockedBalances EXCEPT ![u].endTime = UnlockTime(d)]
    BY <1>3, <1>4
  <1> QED BY <1>2, <1>3, <1>5 DEF IncreaseUnlockTime, Abstract!IncreaseUnlockTime

\* Every step of veOLAS is a step of the locks or leaves them alone.
LEMMA StepRefines ==
  ASSUME LocksTypeOK, [Next]_vars
  PROVE  [Abstract!VeNext]_(Abstract!veVars)
  <1>1. ASSUME NEW u \in Voters, Transaction(u)
        PROVE  Abstract!LockStep(u)
    <2>1. ASSUME NEW a \in Amounts, NEW d \in Durations, CreateLock(u, a, d)
          PROVE  Abstract!LockStep(u)
      BY <2>1, CreateLockRefines DEF Abstract!LockStep
    <2>2. ASSUME NEW a \in Amounts, IncreaseAmount(u, a) PROVE Abstract!LockStep(u)
      BY <2>2, IncreaseAmountRefines DEF Abstract!LockStep
    <2>3. ASSUME NEW d \in Durations, IncreaseUnlockTime(u, d) PROVE Abstract!LockStep(u)
      BY <2>3, IncreaseUnlockTimeRefines DEF Abstract!LockStep
    <2>4. CASE Withdraw(u)
      BY <2>4 DEF Withdraw, Abstract!LockStep, Abstract!Withdraw, NoLock, Abstract!NoLock
    <2> QED BY <1>1, <2>1, <2>2, <2>3, <2>4 DEF Transaction
  <1>2. CASE Checkpoint
    BY <1>2 DEF Checkpoint, Abstract!veVars
  <1>3. CASE NextBlock
    <2>1. PICK d \in BlockTimes : now + d <= MaxTime /\ now' = now + d
      BY <1>3 DEF NextBlock
    <2>2. now \in Nat /\ d \in Nat \ {0}
      BY VeConstantsAssumption DEF LocksTypeOK
    <2>3. now' \in now + 1 .. MaxTime
      BY <2>1, <2>2, VeConstantsAssumption
    <2> QED BY <1>3, <2>3 DEF NextBlock, Abstract!VeNext, Abstract!Tick
  <1>4. CASE UNCHANGED vars
    BY <1>4 DEF vars, Abstract!veVars
  <1> QED BY <1>1, <1>2, <1>3, <1>4 DEF Next, Abstract!VeNext

LEMMA LocksTyped == Spec => []LocksTypeOK
  <1>1. Init => LocksTypeOK
    BY VeConstantsAssumption DEF Init, LocksTypeOK, Locks, NoLock
  <1>2. LocksTypeOK /\ [Next]_vars => LocksTypeOK'
    <2> SUFFICES ASSUME LocksTypeOK, [Next]_vars PROVE LocksTypeOK'
      OBVIOUS
    <2>1. [Abstract!VeNext]_(Abstract!veVars)
      BY StepRefines
    <2>2. Abstract!UnlockTimes \subseteq Nat
      BY VeConstantsAssumption DEF LocksTypeOK, Abstract!UnlockTimes
    <2>3. CASE Abstract!Tick
      BY <2>3, VeConstantsAssumption DEF Abstract!Tick, LocksTypeOK
    <2>4. ASSUME NEW u \in Voters, Abstract!LockStep(u) PROVE LocksTypeOK'
      <3>1. mapLockedBalances[u] \in Locks
        BY DEF LocksTypeOK
      <3>2. ASSUME NEW a \in Amounts, NEW t \in Abstract!UnlockTimes, Abstract!CreateLock(u, a, t)
            PROVE  LocksTypeOK'
        BY <3>2, <2>2, VeConstantsAssumption DEF Abstract!CreateLock, LocksTypeOK, Locks
      <3>3. ASSUME NEW a \in Amounts, Abstract!Deposit(u, a) PROVE LocksTypeOK'
        <4>1. a \in Nat /\ mapLockedBalances[u].amount + a \in Nat
          BY <3>1, VeConstantsAssumption DEF Locks
        <4>2. [mapLockedBalances[u] EXCEPT !.amount = @ + a] \in Locks
          BY <3>1, <4>1 DEF Locks
        <4> QED BY <3>3, <4>2 DEF Abstract!Deposit, LocksTypeOK
      <3>4. ASSUME NEW t \in Abstract!UnlockTimes, Abstract!IncreaseUnlockTime(u, t)
            PROVE  LocksTypeOK'
        <4>1. [mapLockedBalances[u] EXCEPT !.endTime = t] \in Locks
          BY <3>1, <2>2 DEF Locks
        <4> QED BY <3>4, <4>1 DEF Abstract!IncreaseUnlockTime, LocksTypeOK
      <3>5. CASE Abstract!Withdraw(u)
        BY <3>5 DEF Abstract!Withdraw, LocksTypeOK, Locks, Abstract!NoLock
      <3> QED BY <2>4, <3>2, <3>3, <3>4, <3>5 DEF Abstract!LockStep
    <2>5. CASE UNCHANGED (Abstract!veVars)
      BY <2>5 DEF Abstract!veVars, LocksTypeOK
    <2> QED BY <2>1, <2>3, <2>4, <2>5 DEF Abstract!VeNext
  <1> QED BY <1>1, <1>2, PTL DEF Spec

\* veOLAS implements the locks that its readers rely on: amounts and ends only grow
\* while a lock lives, a lock is emptied only after its end, and ends are whole weeks
\* at most MAXTIME away (createLock, depositFor, increaseAmount, increaseUnlockTime
\* and withdraw of veOLAS.sol against the promise of module VeLocks).
THEOREM VeOLASImplementsVeLocks == Spec => ImplementsVeLocks
  <1>1. Init => Abstract!VeInit
    BY DEF Init, Abstract!VeInit, NoLock, Abstract!NoLock
  <1>2. LocksTypeOK /\ [Next]_vars => [Abstract!VeNext]_(Abstract!veVars)
    BY StepRefines
  <1> QED BY <1>1, <1>2, LocksTyped, PTL DEF Spec, ImplementsVeLocks, Abstract!VeSpec

(***************************************************************************)
(* The walk of a checkpoint                                                *)
(***************************************************************************)

LastPoint == IF totalNumPoints > 0 THEN SupplyPoint(totalNumPoints) ELSE EmptyPoint(now, block)
WalkSteps == StepsTo(LastPoint.ts, now)

\* The point at the end of step i, from that at its start.
WalkTo(p, i, curSupply) ==
  LET q == Advance(p, StepTime(LastPoint.ts, i, now))
  IN  IF q.ts = now THEN [q EXCEPT !.blockNumber = block, !.balance = curSupply] ELSE q

PointsTypeOK ==
  /\ block \in Nat
  /\ mapSupplyPoints \in Seq(Point) /\ mapSupplyPoints # <<>>
  /\ SupplyPoint(totalNumPoints).ts <= now
  /\ mapSlopeChanges \in [Weeks -> Int]

LEMMA LastPointTyped ==
  ASSUME LocksTypeOK, PointsTypeOK
  PROVE  /\ totalNumPoints \in Nat /\ now \in Nat /\ now <= MaxTime
         /\ LastPoint \in Point /\ LastPoint.ts <= now
         /\ SupplyPoint(totalNumPoints) \in Point
  <1>1. now \in Nat /\ now <= MaxTime /\ block \in Nat
    BY VeConstantsAssumption DEF LocksTypeOK, PointsTypeOK
  <1>2. /\ Len(mapSupplyPoints) \in Nat \ {0}
        /\ \A i \in 1 .. Len(mapSupplyPoints) : mapSupplyPoints[i] \in Point
    BY DEF PointsTypeOK
  <1>3. totalNumPoints \in Nat /\ SupplyPoint(totalNumPoints) \in Point
    BY <1>2 DEF totalNumPoints, SupplyPoint
  <1>4. EmptyPoint(now, block) \in Point /\ EmptyPoint(now, block).ts = now
    BY <1>1 DEF EmptyPoint, Point
  <1> QED BY <1>1, <1>3, <1>4 DEF LastPoint, PointsTypeOK

LEMMA AdvanceTyped ==
  ASSUME LocksTypeOK, PointsTypeOK, NEW p \in Point, NEW t \in 0 .. now
  PROVE  /\ Advance(p, t) \in Point /\ Advance(p, t).ts = t
         /\ Advance(p, t).bias = PositivePart(p.bias - p.slope * (t - p.ts))
         /\ Advance(p, t).slope =
              PositivePart(p.slope + (IF t % WEEK = 0 /\ t > WeekStart(p.ts)
                                      THEN mapSlopeChanges[t] ELSE 0))
         /\ Advance(p, t).blockNumber = p.blockNumber
         /\ Advance(p, t).balance = p.balance
  <1> DEFINE change == IF t % WEEK = 0 /\ t > WeekStart(p.ts) THEN mapSlopeChanges[t] ELSE 0
             bias == PositivePart(p.bias - p.slope * (t - p.ts))
             slope == PositivePart(p.slope + change)
  <1>1. t \in Nat /\ now <= MaxTime /\ p.bias \in Int /\ p.slope \in Int /\ p.ts \in Nat
    BY LastPointTyped DEF Point
  <1>2. change \in Int
    <2>1. CASE t % WEEK = 0
      <3>1. t \in Weeks
        BY <1>1, <2>1, VeConstantsAssumption, LastPointTyped DEF Weeks
      <3> QED BY <3>1 DEF PointsTypeOK
    <2>2. CASE t % WEEK # 0
      BY <2>2
    <2> QED BY <2>1, <2>2
  <1> HIDE DEF change
  <1>3. bias \in Int /\ slope \in Int
    BY <1>1, <1>2 DEF PositivePart
  <1>4. Advance(p, t) = [p EXCEPT !.bias = bias, !.slope = slope, !.ts = t]
    BY DEF Advance, change
  <1> HIDE DEF bias, slope
  <1>5. /\ Advance(p, t) \in Point /\ Advance(p, t).ts = t
        /\ Advance(p, t).bias = bias /\ Advance(p, t).slope = slope
        /\ Advance(p, t).blockNumber = p.blockNumber /\ Advance(p, t).balance = p.balance
    BY <1>1, <1>3, <1>4 DEF Point
  <1> QED BY <1>5 DEF bias, slope, change

LEMMA WalkToTyped ==
  ASSUME LocksTypeOK, PointsTypeOK, NEW p \in Point, NEW i \in 1 .. WalkSteps,
         NEW curSupply \in Nat
  PROVE  WalkTo(p, i, curSupply) \in Point
  <1> DEFINE t == StepTime(LastPoint.ts, i, now)
             q == Advance(p, t)
  <1>1. t \in 0 .. now
    <2>1. LastPoint.ts \in Nat /\ LastPoint.ts <= now /\ now \in Nat
      BY LastPointTyped DEF Point
    <2>2. t \in Nat /\ t <= now
      BY <2>1, WalkStep DEF WalkSteps
    <2> QED BY <2>1, <2>2
  <1>2. q \in Point
    BY <1>1, AdvanceTyped
  <1> HIDE DEF q
  <1>3. [q EXCEPT !.blockNumber = block, !.balance = curSupply] \in Point
    BY <1>2 DEF PointsTypeOK, Point
  <1> QED BY <1>2, <1>3 DEF WalkTo, q

\* The points of a checkpoint are those of a walk from the last point.
LEMMA WalkedPointsDef ==
  ASSUME LocksTypeOK, PointsTypeOK, NEW curSupply \in Nat
  PROVE  \E pt \in [0 .. WalkSteps -> Point] :
           /\ pt[0] = LastPoint
           /\ \A i \in 1 .. WalkSteps : pt[i] = WalkTo(pt[i - 1], i, curSupply)
           /\ WalkedPoints(curSupply) = [i \in 1 .. WalkSteps |-> pt[i]]
           /\ WalkSteps \in Nat \ {0}
  <1>1. LastPoint \in Point /\ WalkSteps \in Nat \ {0}
    <2>1. LastPoint.ts \in Nat /\ LastPoint.ts <= now /\ now \in Nat
      BY LastPointTyped DEF Point
    <2> QED BY <2>1, WalkTimes, LastPointTyped DEF WalkSteps
  <1> DEFINE n == WalkSteps
             step == [i \in 1 .. n |-> [p \in Point |-> WalkTo(p, i, curSupply)]]
             Walks(f) == f = [i \in 0 .. n |-> IF i = 0 THEN LastPoint
                                               ELSE WalkTo(f[i - 1], i, curSupply)]
  <1> HIDE DEF n
  <1>2. \A i \in 1 .. n, p \in Point : step[i][p] = WalkTo(p, i, curSupply)
    OBVIOUS
  <1>3. step \in [1 .. n -> [Point -> Point]]
    BY WalkToTyped DEF n
  <1> HIDE DEF step
  <1>4. PICK f \in [0 .. n -> Point] :
          f[0] = LastPoint /\ \A i \in 1 .. n : f[i] = step[i][f[i - 1]]
    <2>1. n \in Nat /\ LastPoint \in Point
      BY <1>1 DEF n
    <2>2. \E f \in [0 .. n -> Point] : IsWalk(f, LastPoint, step, n)
      BY <2>1, <1>3, WalkExists
    <2> QED BY <2>2 DEF IsWalk
  <1>5. ASSUME NEW i \in 0 .. n
        PROVE  f[i] = IF i = 0 THEN LastPoint ELSE WalkTo(f[i - 1], i, curSupply)
    <2>1. CASE i = 0
      BY <2>1, <1>4
    <2>2. CASE i # 0
      <3>1. i \in 1 .. n /\ i - 1 \in 0 .. n
        BY <1>1, <2>2 DEF n
      <3>2. f[i - 1] \in Point
        BY <3>1, <1>4
      <3> QED BY <2>2, <3>1, <3>2, <1>2, <1>4
    <2> QED BY <2>1, <2>2
  <1>6. Walks(f)
    <2>1. f = [i \in 0 .. n |-> f[i]]
      BY <1>4
    <2> QED BY <2>1, <1>5
  <1> DEFINE pt == CHOOSE g : Walks(g)
  <1>7. Walks(pt)
    <2> HIDE DEF Walks
    <2> QED BY <1>6
  <1>8. WalkedPoints(curSupply) = [i \in 1 .. n |-> pt[i]]
    BY DEF WalkedPoints, WalkTo, LastPoint, WalkSteps, n
  <1> HIDE DEF pt
  <1>9. pt[0] = LastPoint /\ \A i \in 1 .. n : pt[i] = WalkTo(pt[i - 1], i, curSupply)
    BY <1>1, <1>7 DEF n
  <1>10. \A i \in 0 .. n : pt[i] \in Point
    <2> DEFINE T == {i \in 0 .. n : pt[i] \in Point}
    <2>1. 0 \in T
      BY <1>1, <1>9 DEF n
    <2>2. ASSUME NEW i \in 0 .. n, i \in T, i < n PROVE i + 1 \in T
      <3>1. i + 1 \in 1 .. n /\ (i + 1) - 1 = i /\ pt[i] \in Point
        BY <2>2, <1>1 DEF n
      <3>2. pt[i + 1] = WalkTo(pt[i], i + 1, curSupply)
        BY <3>1, <1>9
      <3>3. pt[i + 1] \in Point
        BY <3>1, <3>2, WalkToTyped DEF n
      <3> QED BY <3>1, <3>3
    <2>3. n \in Nat
      BY <1>1 DEF n
    <2> HIDE DEF T
    <2>4. \A i \in 0 .. n : i \in T
      BY <2>1, <2>2, <2>3, IntervalInduction
    <2> QED BY <2>4 DEF T
  <1>11. pt \in [0 .. n -> Point]
    BY <1>7, <1>10
  <1> QED BY <1>1, <1>8, <1>9, <1>11 DEF n

(***************************************************************************)
(* What the locks add up to                                                *)
(***************************************************************************)

LockSlope(lock) == lock.amount \div MAXTIME
SlopeOf(lock, t) == IF lock.endTime > t THEN LockSlope(lock) ELSE 0
BiasOf(lock, t) == IF lock.endTime > t THEN LockSlope(lock) * (lock.endTime - t) ELSE 0
EndingOf(lock, t) == IF lock.endTime = t THEN LockSlope(lock) ELSE 0

AmountSum(locks) == SumFunctionOnSet([u \in Voters |-> locks[u].amount], Voters)
SlopeSum(locks, t) == SumFunctionOnSet([u \in Voters |-> SlopeOf(locks[u], t)], Voters)
BiasSum(locks, t) == SumFunctionOnSet([u \in Voters |-> BiasOf(locks[u], t)], Voters)
EndingSum(locks, t) == SumFunctionOnSet([u \in Voters |-> EndingOf(locks[u], t)], Voters)

LEMMA LockSlopeTyped ==
  ASSUME NEW lock \in Locks, NEW t \in Nat
  PROVE  /\ LockSlope(lock) \in Nat /\ SlopeOf(lock, t) \in Nat
         /\ BiasOf(lock, t) \in Nat /\ EndingOf(lock, t) \in Nat
  <1>1. lock.amount \in Nat /\ lock.endTime \in Nat
    BY DEF Locks
  <1>2. LockSlope(lock) \in Nat
    BY <1>1, VeConstantsAssumption DEF LockSlope
  <1>3. ASSUME lock.endTime > t PROVE LockSlope(lock) * (lock.endTime - t) \in Nat
    <2>1. lock.endTime - t \in Nat
      BY <1>1, <1>3
    <2> QED BY <2>1, <1>2
  <1> QED BY <1>2, <1>3 DEF SlopeOf, BiasOf, EndingOf

LEMMA LockSumsTyped ==
  ASSUME NEW locks \in [Voters -> Locks], NEW t \in Nat
  PROVE  /\ AmountSum(locks) \in Nat /\ \A u \in Voters : locks[u].amount <= AmountSum(locks)
         /\ SlopeSum(locks, t) \in Nat /\ BiasSum(locks, t) \in Nat
         /\ EndingSum(locks, t) \in Nat
  <1>1. IsFiniteSet(Voters) /\ \A u \in Voters : locks[u].amount \in Nat
    BY VeConstantsAssumption DEF Locks
  <1>2. /\ AmountSum(locks) \in Nat
        /\ \A u \in Voters : [v \in Voters |-> locks[v].amount][u] <= AmountSum(locks)
    BY <1>1, SumNat DEF AmountSum
  <1>3. SlopeSum(locks, t) \in Nat
    BY <1>1, SumNat, LockSlopeTyped DEF SlopeSum
  <1>4. BiasSum(locks, t) \in Nat
    BY <1>1, SumNat, LockSlopeTyped DEF BiasSum
  <1>5. EndingSum(locks, t) \in Nat
    BY <1>1, SumNat, LockSlopeTyped DEF EndingSum
  <1> QED BY <1>2, <1>3, <1>4, <1>5

\* Between two times with no end of a lock strictly inside, bias decays with the slope,
\* and the slope loses what ends at the later one.
LEMMA SumsDecay ==
  ASSUME NEW locks \in [Voters -> Locks], NEW s \in Nat, NEW t \in Nat, s < t,
         \A u \in Voters : s < locks[u].endTime => t <= locks[u].endTime
  PROVE  /\ BiasSum(locks, t) = BiasSum(locks, s) - SlopeSum(locks, s) * (t - s)
         /\ SlopeSum(locks, t) = SlopeSum(locks, s) - EndingSum(locks, t)
  <1> DEFINE b(r) == [u \in Voters |-> BiasOf(locks[u], r)]
             c(r) == [u \in Voters |-> SlopeOf(locks[u], r)]
             e == [u \in Voters |-> EndingOf(locks[u], t)]
  <1>1. ASSUME NEW u \in Voters
        PROVE  /\ BiasOf(locks[u], t) = BiasOf(locks[u], s) - SlopeOf(locks[u], s) * (t - s)
               /\ SlopeOf(locks[u], t) = SlopeOf(locks[u], s) - EndingOf(locks[u], t)
    <2> DEFINE k == LockSlope(locks[u])
               end == locks[u].endTime
    <2>1. k \in Nat /\ end \in Nat
      BY LockSlopeTyped DEF Locks
    <2>2. s < end => t <= end
      OBVIOUS
    <2> HIDE DEF k, end
    <2>3. k * (end - s) - k * (t - s) = k * (end - t)
      BY <2>1
    <2>4. BiasOf(locks[u], t) = IF end > t THEN k * (end - t) ELSE 0
      BY DEF BiasOf, k, end
    <2>5. BiasOf(locks[u], s) = IF end > s THEN k * (end - s) ELSE 0
      BY DEF BiasOf, k, end
    <2>6. /\ SlopeOf(locks[u], s) = IF end > s THEN k ELSE 0
          /\ SlopeOf(locks[u], t) = IF end > t THEN k ELSE 0
          /\ EndingOf(locks[u], t) = IF end = t THEN k ELSE 0
      BY DEF SlopeOf, EndingOf, k, end
    <2>7. CASE end > t
      BY <2>1, <2>3, <2>4, <2>5, <2>6, <2>7
    <2>8. CASE end = t
      <3>1. k * (end - t) = 0
        BY <2>1, <2>8
      <3> QED BY <2>1, <2>3, <2>4, <2>5, <2>6, <2>8, <3>1
    <2>9. CASE end < t
      <3>1. ~(end > s)
        BY <2>1, <2>2, <2>9
      <3>2. 0 * (t - s) = 0
        OBVIOUS
      <3> QED BY <2>1, <2>4, <2>5, <2>6, <2>9, <3>1, <3>2
    <2> QED BY <2>1, <2>7, <2>8, <2>9
  <1>2. IsFiniteSet(Voters) /\ t - s \in Int
    BY VeConstantsAssumption
  <1>3. \A u \in Voters : b(s)[u] \in Int /\ c(s)[u] \in Int /\ e[u] \in Int
    BY LockSlopeTyped
  <1>4. \A u \in Voters : b(t)[u] = b(s)[u] - c(s)[u] * (t - s) /\ c(t)[u] = c(s)[u] - e[u] * 1
    BY <1>1, <1>3
  <1> HIDE DEF b, c, e
  <1>5. SumFunctionOnSet(b(t), Voters) =
          SumFunctionOnSet(b(s), Voters) - SumFunctionOnSet(c(s), Voters) * (t - s)
    BY <1>2, <1>3, <1>4, SumLinear
  <1>6. SumFunctionOnSet(c(t), Voters) =
          SumFunctionOnSet(c(s), Voters) - SumFunctionOnSet(e, Voters) * 1
    BY <1>2, <1>3, <1>4, SumLinear
  <1>7. SumFunctionOnSet(e, Voters) \in Int
    BY <1>2, <1>3, SumInt
  <1> QED BY <1>5, <1>6, <1>7 DEF b, c, e, BiasSum, SlopeSum, EndingSum

LEMMA VoterSumUpdate ==
  ASSUME NEW u \in Voters, NEW f, NEW g, \A v \in Voters : f[v] \in Int /\ g[v] \in Int,
         \A v \in Voters \ {u} : g[v] = f[v]
  PROVE  SumFunctionOnSet(g, Voters) = SumFunctionOnSet(f, Voters) - f[u] + g[u]
  <1>1. IsFiniteSet(Voters)
    BY VeConstantsAssumption
  <1> QED BY <1>1, SumUpdate

\* The sums after one lock was replaced.
LEMMA SumsAfterChange ==
  ASSUME NEW locks \in [Voters -> Locks], NEW u \in Voters, NEW lock \in Locks, NEW t \in Nat
  PROVE  LET after == [locks EXCEPT ![u] = lock]
         IN  /\ AmountSum(after) = AmountSum(locks) - locks[u].amount + lock.amount
             /\ SlopeSum(after, t) = SlopeSum(locks, t) - SlopeOf(locks[u], t) + SlopeOf(lock, t)
             /\ BiasSum(after, t) = BiasSum(locks, t) - BiasOf(locks[u], t) + BiasOf(lock, t)
             /\ EndingSum(after, t) =
                  EndingSum(locks, t) - EndingOf(locks[u], t) + EndingOf(lock, t)
  <1> DEFINE after == [locks EXCEPT ![u] = lock]
  <1>1. /\ after \in [Voters -> Locks] /\ after[u] = lock
        /\ \A v \in Voters \ {u} : after[v] = locks[v]
        /\ IsFiniteSet(Voters)
    BY VeConstantsAssumption
  <1> HIDE DEF after
  <1>2. AmountSum(after) = AmountSum(locks) - locks[u].amount + lock.amount
    <2>1. PICK f, g : /\ f = [v \in Voters |-> locks[v].amount]
                      /\ g = [v \in Voters |-> after[v].amount]
      OBVIOUS
    <2>2. /\ \A v \in Voters : f[v] \in Int /\ g[v] \in Int
          /\ \A v \in Voters \ {u} : g[v] = f[v]
          /\ f[u] = locks[u].amount /\ g[u] = lock.amount
      BY <1>1, <2>1 DEF Locks
    <2>3. SumFunctionOnSet(g, Voters) = SumFunctionOnSet(f, Voters) - f[u] + g[u]
      BY <2>2, VoterSumUpdate
    <2> QED BY <2>1, <2>2, <2>3 DEF AmountSum
  <1>3. SlopeSum(after, t) = SlopeSum(locks, t) - SlopeOf(locks[u], t) + SlopeOf(lock, t)
    <2>1. PICK f, g : /\ f = [v \in Voters |-> SlopeOf(locks[v], t)]
                      /\ g = [v \in Voters |-> SlopeOf(after[v], t)]
      OBVIOUS
    <2>2. /\ \A v \in Voters : f[v] \in Int /\ g[v] \in Int
          /\ \A v \in Voters \ {u} : g[v] = f[v]
          /\ f[u] = SlopeOf(locks[u], t) /\ g[u] = SlopeOf(lock, t)
      <3>1. \A v \in Voters : locks[v] \in Locks /\ after[v] \in Locks
        BY <1>1
      <3>2. \A v \in Voters : SlopeOf(locks[v], t) \in Nat /\ SlopeOf(after[v], t) \in Nat
        BY <3>1, LockSlopeTyped
      <3>3. \A v \in Voters : f[v] = SlopeOf(locks[v], t) /\ g[v] = SlopeOf(after[v], t)
        BY <2>1
      <3>4. \A v \in Voters : f[v] \in Int /\ g[v] \in Int
        BY <3>2, <3>3
      <3> QED BY <1>1, <3>3, <3>4
    <2>3. SumFunctionOnSet(g, Voters) = SumFunctionOnSet(f, Voters) - f[u] + g[u]
      BY <2>2, VoterSumUpdate
    <2> QED BY <2>1, <2>2, <2>3 DEF SlopeSum
  <1>4. BiasSum(after, t) = BiasSum(locks, t) - BiasOf(locks[u], t) + BiasOf(lock, t)
    <2>1. PICK f, g : /\ f = [v \in Voters |-> BiasOf(locks[v], t)]
                      /\ g = [v \in Voters |-> BiasOf(after[v], t)]
      OBVIOUS
    <2>2. /\ \A v \in Voters : f[v] \in Int /\ g[v] \in Int
          /\ \A v \in Voters \ {u} : g[v] = f[v]
          /\ f[u] = BiasOf(locks[u], t) /\ g[u] = BiasOf(lock, t)
      <3>1. \A v \in Voters : locks[v] \in Locks /\ after[v] \in Locks
        BY <1>1
      <3>2. \A v \in Voters : BiasOf(locks[v], t) \in Nat /\ BiasOf(after[v], t) \in Nat
        BY <3>1, LockSlopeTyped
      <3>3. \A v \in Voters : f[v] = BiasOf(locks[v], t) /\ g[v] = BiasOf(after[v], t)
        BY <2>1
      <3>4. \A v \in Voters : f[v] \in Int /\ g[v] \in Int
        BY <3>2, <3>3
      <3> QED BY <1>1, <3>3, <3>4
    <2>3. SumFunctionOnSet(g, Voters) = SumFunctionOnSet(f, Voters) - f[u] + g[u]
      BY <2>2, VoterSumUpdate
    <2> QED BY <2>1, <2>2, <2>3 DEF BiasSum
  <1>5. EndingSum(after, t) = EndingSum(locks, t) - EndingOf(locks[u], t) + EndingOf(lock, t)
    <2>1. PICK f, g : /\ f = [v \in Voters |-> EndingOf(locks[v], t)]
                      /\ g = [v \in Voters |-> EndingOf(after[v], t)]
      OBVIOUS
    <2>2. /\ \A v \in Voters : f[v] \in Int /\ g[v] \in Int
          /\ \A v \in Voters \ {u} : g[v] = f[v]
          /\ f[u] = EndingOf(locks[u], t) /\ g[u] = EndingOf(lock, t)
      <3>1. \A v \in Voters : locks[v] \in Locks /\ after[v] \in Locks
        BY <1>1
      <3>2. \A v \in Voters : EndingOf(locks[v], t) \in Nat /\ EndingOf(after[v], t) \in Nat
        BY <3>1, LockSlopeTyped
      <3>3. \A v \in Voters : f[v] = EndingOf(locks[v], t) /\ g[v] = EndingOf(after[v], t)
        BY <2>1
      <3>4. \A v \in Voters : f[v] \in Int /\ g[v] \in Int
        BY <3>2, <3>3
      <3> QED BY <1>1, <3>3, <3>4
    <2>3. SumFunctionOnSet(g, Voters) = SumFunctionOnSet(f, Voters) - f[u] + g[u]
      BY <2>2, VoterSumUpdate
    <2> QED BY <2>1, <2>2, <2>3 DEF EndingSum
  <1> QED BY <1>2, <1>3, <1>4, <1>5 DEF after

(***************************************************************************)
(* A walk keeps up with the locks                                          *)
(***************************************************************************)

\* Ends are whole weeks of the slope changes, and only an empty lock has none.
LockShape ==
  \A u \in Voters :
    /\ mapLockedBalances[u].endTime \in Weeks
    /\ mapLockedBalances[u].endTime <= now + MAXTIME
    /\ mapLockedBalances[u].amount = 0 <=> mapLockedBalances[u].endTime = 0

\* A point of the supply that accounts for all locks at time t.
Follows(pt, t) ==
  /\ pt.ts = t
  /\ pt.slope = SlopeSum(mapLockedBalances, t)
  /\ pt.bias = BiasSum(mapLockedBalances, t)

\* The slopes that end after time t are scheduled to be taken out.
Scheduled(t) ==
  \A w \in Weeks : w > t => mapSlopeChanges[w] = 0 - EndingSum(mapLockedBalances, w)

LEMMA NoEndInTheMiddle ==
  ASSUME LocksTypeOK, LockShape, NEW t \in Nat, t % WEEK # 0
  PROVE  EndingSum(mapLockedBalances, t) = 0
  <1>1. \A u \in Voters : EndingOf(mapLockedBalances[u], t) = 0
    BY DEF LockShape, Weeks, EndingOf
  <1>2. IsFiniteSet(Voters)
    BY VeConstantsAssumption
  <1> QED BY <1>1, <1>2, SumZero DEF EndingSum

\* One step of a walk, from a point that accounts for all locks to the next one.
LEMMA AdvanceFollows ==
  ASSUME LocksTypeOK, PointsTypeOK, LockShape, NEW from \in Nat, from <= now, Scheduled(from),
         NEW i \in 1 .. StepsTo(from, now),
         NEW p \in Point, Follows(p, FromTime(from, i, now))
  PROVE  Follows(Advance(p, StepTime(from, i, now)), StepTime(from, i, now))
  <1> DEFINE s == FromTime(from, i, now)
             t == StepTime(from, i, now)
             locks == mapLockedBalances
             change == IF t % WEEK = 0 /\ t > WeekStart(s) THEN mapSlopeChanges[t] ELSE 0
  <1>1. now \in Nat /\ now <= MaxTime
    BY LastPointTyped
  <1>2. /\ s \in Nat /\ t \in Nat /\ from <= s /\ s <= t /\ t <= now
        /\ \A e \in Nat : e % WEEK = 0 /\ s < e => t <= e
        /\ s = t => from = now
    BY <1>1, WalkStep
  <1>3. locks \in [Voters -> Locks]
    BY DEF LocksTypeOK
  <1> HIDE DEF s, t, locks
  <1>4. /\ Advance(p, t).ts = t
        /\ Advance(p, t).bias = PositivePart(BiasSum(locks, s) - SlopeSum(locks, s) * (t - s))
        /\ Advance(p, t).slope = PositivePart(SlopeSum(locks, s) + change)
    <2>1. p.ts = s /\ p.slope = SlopeSum(locks, s) /\ p.bias = BiasSum(locks, s)
      BY DEF Follows, s, locks
    <2>2. t \in 0 .. now
      BY <1>1, <1>2
    <2> QED BY <2>1, <2>2, AdvanceTyped
  <1> HIDE DEF change
  <1>5. CASE s < t
    <2>1. \A u \in Voters : s < locks[u].endTime => t <= locks[u].endTime
      <3> TAKE u \in Voters
      <3>1. locks[u].endTime \in Nat /\ locks[u].endTime % WEEK = 0
        BY <1>3 DEF LockShape, Weeks, locks, Locks
      <3> QED BY <3>1, <1>2
    <2>2. /\ BiasSum(locks, t) = BiasSum(locks, s) - SlopeSum(locks, s) * (t - s)
          /\ SlopeSum(locks, t) = SlopeSum(locks, s) - EndingSum(locks, t)
      BY <1>2, <1>3, <1>5, <2>1, SumsDecay
    <2>3. /\ BiasSum(locks, t) \in Nat /\ SlopeSum(locks, t) \in Nat
          /\ SlopeSum(locks, s) \in Nat /\ EndingSum(locks, t) \in Nat
      BY <1>2, <1>3, LockSumsTyped
    <2>4. change = 0 - EndingSum(locks, t)
      <3>1. CASE t % WEEK = 0
        <4>1. t \in Weeks /\ t > from
          BY <3>1, <1>1, <1>2, <1>5, VeConstantsAssumption DEF Weeks
        <4>2. t > WeekStart(s)
          BY <1>2, <1>5, WeekStartProperties
        <4> QED BY <3>1, <4>1, <4>2 DEF Scheduled, change, locks
      <3>2. CASE t % WEEK # 0
        BY <3>2, <1>2, NoEndInTheMiddle DEF change, locks
      <3> QED BY <3>1, <3>2
    <2>5. Advance(p, t).bias = BiasSum(locks, t) /\ Advance(p, t).slope = SlopeSum(locks, t)
      <3>1. Advance(p, t).bias = PositivePart(BiasSum(locks, t))
        BY <1>4, <2>2
      <3>2. SlopeSum(locks, s) + change = SlopeSum(locks, t)
        BY <2>2, <2>3, <2>4
      <3> QED BY <1>4, <2>3, <3>1, <3>2 DEF PositivePart
    <2> QED BY <1>4, <2>5 DEF Follows, t, locks
  <1>6. CASE s = t
    <2>1. change = 0
      <3>1. t % WEEK = 0 => WeekStart(s) = t
        BY <1>2, <1>6, WholeWeeks
      <3>2. ~(t > t)
        BY <1>2
      <3> QED BY <3>1, <3>2 DEF change
    <2>2. BiasSum(locks, s) \in Nat /\ SlopeSum(locks, s) \in Nat
      BY <1>2, <1>3, LockSumsTyped
    <2>3. SlopeSum(locks, s) * (t - s) = 0
      <3>1. t - s = 0
        BY <1>2, <1>6
      <3> QED BY <3>1, <2>2
    <2>4. Advance(p, t).bias = BiasSum(locks, s) /\ Advance(p, t).slope = SlopeSum(locks, s)
      BY <1>4, <2>1, <2>2, <2>3 DEF PositivePart
    <2> QED BY <1>4, <1>6, <2>4 DEF Follows, t, locks
  <1> QED BY <1>2, <1>5, <1>6

\* The last point of a checkpoint.
LEMMA WalkEnds ==
  ASSUME LocksTypeOK, PointsTypeOK, NEW curSupply \in Nat
  PROVE  LET walked == WalkedPoints(curSupply)
         IN  /\ walked \in Seq(Point) /\ Len(walked) = WalkSteps /\ WalkSteps \in Nat \ {0}
             /\ walked[WalkSteps] \in Point
             /\ walked[WalkSteps].ts <= now
             /\ walked[WalkSteps].ts = now => walked[WalkSteps].balance = curSupply
             /\ \A t \in Nat : walked[WalkSteps].ts = t =>
                  t = StepTime(LastPoint.ts, WalkSteps, now)
  <1>1. PICK pt \in [0 .. WalkSteps -> Point] :
           /\ pt[0] = LastPoint
           /\ \A i \in 1 .. WalkSteps : pt[i] = WalkTo(pt[i - 1], i, curSupply)
           /\ WalkedPoints(curSupply) = [i \in 1 .. WalkSteps |-> pt[i]]
           /\ WalkSteps \in Nat \ {0}
    BY WalkedPointsDef
  <1> DEFINE walked == WalkedPoints(curSupply)
             n == WalkSteps
             t == StepTime(LastPoint.ts, n, now)
             q == Advance(pt[n - 1], t)
  <1>2. walked \in Seq(Point) /\ Len(walked) = n /\ walked[n] = pt[n] /\ n \in 1 .. n
    BY <1>1
  <1>3. t \in 0 .. now
    <2>1. LastPoint.ts \in Nat /\ LastPoint.ts <= now /\ now \in Nat
      BY LastPointTyped DEF Point
    <2>2. t \in Nat /\ t <= now
      BY <1>2, <2>1, WalkStep DEF WalkSteps
    <2> QED BY <2>1, <2>2
  <1>4. pt[n - 1] \in Point
    BY <1>1
  <1>5. q \in Point /\ q.ts = t
    BY <1>3, <1>4, AdvanceTyped
  <1>6. pt[n] = IF q.ts = now THEN [q EXCEPT !.blockNumber = block, !.balance = curSupply] ELSE q
    BY <1>1, <1>2 DEF WalkTo
  <1> HIDE DEF q, t, walked
  <1>7. /\ pt[n] \in Point /\ pt[n].ts = t
        /\ t = now => pt[n].balance = curSupply
    BY <1>5, <1>6, <1>1 DEF Point
  <1>8. t \in Nat /\ t <= now
    BY <1>3
  <1> QED BY <1>1, <1>2, <1>7, <1>8 DEF t, walked

\* A checkpoint that reaches the present ends at a point that accounts for all locks.
LEMMA WalkFollows ==
  ASSUME LocksTypeOK, PointsTypeOK, LockShape, NEW curSupply \in Nat,
         Follows(LastPoint, LastPoint.ts), Scheduled(LastPoint.ts),
         now <= WeekStart(LastPoint.ts) + MAX_STEPS * WEEK
  PROVE  LET last == WalkedPoints(curSupply)[WalkSteps]
         IN  /\ Follows(last, now) /\ last.balance = curSupply
             /\ \A i \in 1 .. WalkSteps :
                  Follows(WalkedPoints(curSupply)[i], StepTime(LastPoint.ts, i, now))
  <1> DEFINE from == LastPoint.ts
             n == WalkSteps
  <1>1. PICK pt \in [0 .. n -> Point] :
           /\ pt[0] = LastPoint
           /\ \A i \in 1 .. n : pt[i] = WalkTo(pt[i - 1], i, curSupply)
           /\ WalkedPoints(curSupply) = [i \in 1 .. n |-> pt[i]]
           /\ n \in Nat \ {0}
    BY WalkedPointsDef
  <1>2. from \in Nat /\ from <= now /\ now \in Nat /\ n = StepsTo(from, now)
    BY LastPointTyped DEF Point, WalkSteps
  <1>3. Follows(pt[0], from) /\ Scheduled(from)
    BY <1>1
  <1>4. StepTime(from, n, now) = now
    BY <1>2, WalkTimes
  <1>5. ASSUME NEW i \in 1 .. n, NEW p \in Point, Follows(p, FromTime(from, i, now))
        PROVE  Follows(WalkTo(p, i, curSupply), StepTime(from, i, now))
    <2> DEFINE q == Advance(p, StepTime(from, i, now))
    <2>1. Follows(q, StepTime(from, i, now))
      BY <1>2, <1>3, <1>5, AdvanceFollows
    <2>2. q \in Point
      <3>1. StepTime(from, i, now) \in 0 .. now
        BY <1>2, WalkStep
      <3> QED BY <3>1, AdvanceTyped
    <2>3. WalkTo(p, i, curSupply) =
            IF q.ts = now THEN [q EXCEPT !.blockNumber = block, !.balance = curSupply] ELSE q
      BY DEF WalkTo
    <2> HIDE DEF q
    <2>4. /\ WalkTo(p, i, curSupply).ts = q.ts /\ WalkTo(p, i, curSupply).bias = q.bias
          /\ WalkTo(p, i, curSupply).slope = q.slope
      BY <2>2, <2>3 DEF Point
    <2> QED BY <2>1, <2>4 DEF Follows
  <1> HIDE DEF from, n
  <1> DEFINE T == {i \in 0 .. n : i = 0 \/ Follows(pt[i], StepTime(from, i, now))}
  <1>6. \A i \in 0 .. n : i \in T
    <2>1. n \in Nat /\ 0 \in T
      BY <1>1
    <2>2. ASSUME NEW i \in 0 .. n, i \in T, i < n PROVE i + 1 \in T
      <3>1. i + 1 \in 1 .. n /\ i + 1 \in 0 .. n /\ (i + 1) - 1 = i /\ pt[i] \in Point
        BY <2>1, <2>2, <1>1
      <3>2. Follows(pt[i], FromTime(from, i + 1, now))
        BY <2>2, <3>1, <1>3 DEF FromTime
      <3>3. Follows(WalkTo(pt[i], i + 1, curSupply), StepTime(from, i + 1, now))
        BY <3>1, <3>2, <1>5
      <3>4. pt[i + 1] = WalkTo(pt[i], i + 1, curSupply)
        BY <3>1, <1>1
      <3> QED BY <3>1, <3>3, <3>4
    <2> HIDE DEF T
    <2> QED BY <2>1, <2>2, IntervalInduction
  <1>7. Follows(pt[n], now) /\ WalkedPoints(curSupply)[n] = pt[n] /\ n \in 1 .. n
    BY <1>1, <1>4, <1>6
  <1>8. WalkedPoints(curSupply)[n].balance = curSupply
    BY <1>7, WalkEnds DEF Follows, n
  <1>9. \A i \in 1 .. n : Follows(WalkedPoints(curSupply)[i], StepTime(from, i, now))
    BY <1>1, <1>6
  <1> QED BY <1>7, <1>8, <1>9 DEF n, from

(***************************************************************************)
(* The points that a checkpoint leaves                                     *)
(***************************************************************************)

UserPointsTypeOK == mapUserPoints \in [Voters -> Seq(Point)]

\* Slope and bias now, as the code computes them, are those of the lock.
LEMMA SlopeNow ==
  ASSUME LocksTypeOK, NEW lock \in Locks
  PROVE  Slope(lock) = SlopeOf(lock, now) /\ Bias(lock) = BiasOf(lock, now)
  <1>1. lock.amount \in Nat /\ lock.endTime \in Nat /\ now \in Nat
    BY VeConstantsAssumption DEF Locks, LocksTypeOK
  <1>2. lock.amount = 0 => LockSlope(lock) = 0
    BY VeConstantsAssumption DEF LockSlope
  <1>3. Slope(lock) = SlopeOf(lock, now)
    BY <1>1, <1>2 DEF Slope, Live, SlopeOf, LockSlope
  <1>4. lock.endTime - now \in Int /\ 0 * (lock.endTime - now) = 0
    BY <1>1
  <1> QED BY <1>3, <1>4 DEF Bias, SlopeOf, BiasOf

\* What NewSlopeChanges does to each week.
LEMMA SlopeChangeAt ==
  ASSUME LocksTypeOK, PointsTypeOK, NEW old \in Locks, NEW new \in Locks,
         new.endTime # 0 => new.endTime >= old.endTime,
         old.endTime > now => new.endTime > now
  PROVE  /\ NewSlopeChanges(old, new) \in [Weeks -> Int]
         /\ \A w \in Weeks : w > now =>
              NewSlopeChanges(old, new)[w] =
                mapSlopeChanges[w] + EndingOf(old, w) - EndingOf(new, w)
  <1> DEFINE cancelled ==
               IF old.endTime > now
               THEN [mapSlopeChanges EXCEPT ![old.endTime] =
                       @ + Slope(old)
                       - (IF new.endTime = old.endTime THEN Slope(new) ELSE 0)]
               ELSE mapSlopeChanges
             s == Slope(old)
             r == Slope(new)
  <1>1. /\ now \in Nat /\ old.endTime \in Nat /\ new.endTime \in Nat
        /\ mapSlopeChanges \in [Weeks -> Int]
    BY VeConstantsAssumption DEF Locks, LocksTypeOK, PointsTypeOK
  <1>2. s \in Nat /\ r \in Nat
    BY <1>1, SlopeNow, LockSlopeTyped
  <1>3. /\ s = SlopeOf(old, now) /\ r = SlopeOf(new, now)
    BY SlopeNow
  <1>4. NewSlopeChanges(old, new) =
          IF new.endTime > now /\ new.endTime > old.endTime
          THEN [cancelled EXCEPT ![new.endTime] = @ - r] ELSE cancelled
    BY DEF NewSlopeChanges
  <1>5. cancelled = IF old.endTime > now
                    THEN [mapSlopeChanges EXCEPT ![old.endTime] =
                            @ + s - (IF new.endTime = old.endTime THEN r ELSE 0)]
                    ELSE mapSlopeChanges
    OBVIOUS
  <1> HIDE DEF s, r, cancelled
  <1>e. ASSUME NEW f \in [Weeks -> Int], NEW w, NEW v, w \in Weeks => v \in Int
        PROVE  [f EXCEPT ![w] = v] \in [Weeks -> Int]
    BY <1>e
  <1>6. cancelled \in [Weeks -> Int]
    <2> DEFINE v == mapSlopeChanges[old.endTime] + s
                    - (IF new.endTime = old.endTime THEN r ELSE 0)
    <2>1. old.endTime \in Weeks => v \in Int
      BY <1>1, <1>2
    <2>2. cancelled = IF old.endTime > now THEN [mapSlopeChanges EXCEPT ![old.endTime] = v]
                      ELSE mapSlopeChanges
      BY <1>5
    <2> HIDE DEF v
    <2> QED BY <1>1, <2>1, <2>2, <1>e
  <1>7. NewSlopeChanges(old, new) \in [Weeks -> Int]
    <2> DEFINE v == cancelled[new.endTime] - r
    <2>1. new.endTime \in Weeks => v \in Int
      BY <1>2, <1>6
    <2>2. NewSlopeChanges(old, new) =
            IF new.endTime > now /\ new.endTime > old.endTime
            THEN [cancelled EXCEPT ![new.endTime] = v] ELSE cancelled
      BY <1>4
    <2> HIDE DEF v
    <2> QED BY <1>6, <2>1, <2>2, <1>e
  <1>8. ASSUME NEW w \in Weeks, w > now
        PROVE  NewSlopeChanges(old, new)[w] =
                 mapSlopeChanges[w] + EndingOf(old, w) - EndingOf(new, w)
    <2>1. w \in Nat /\ mapSlopeChanges[w] \in Int
      BY <1>1 DEF Weeks
    <2>2. /\ EndingOf(old, w) = IF old.endTime = w THEN s ELSE 0
          /\ EndingOf(new, w) = IF new.endTime = w THEN r ELSE 0
      BY <1>1, <1>3, <1>8, <2>1 DEF EndingOf, SlopeOf
    <2>3. cancelled[w] = mapSlopeChanges[w] + EndingOf(old, w)
                         - (IF new.endTime = w /\ old.endTime = w THEN r ELSE 0)
      BY <1>1, <1>2, <1>5, <1>8, <2>1, <2>2
    <2>4. NewSlopeChanges(old, new)[w] =
            IF new.endTime = w /\ new.endTime > old.endTime THEN cancelled[w] - r
            ELSE cancelled[w]
      BY <1>1, <1>4, <1>6, <1>8, <2>1
    <2>5. EndingOf(old, w) \in Int /\ EndingOf(new, w) \in Int /\ cancelled[w] \in Int
      BY <1>2, <1>6, <2>2
    <2> HIDE DEF cancelled
    <2>6. CASE new.endTime = w
      BY <2>1, <2>2, <2>3, <2>4, <2>5, <2>6, <1>1, <1>2, <1>8
    <2>7. CASE new.endTime # w
      BY <2>1, <2>2, <2>3, <2>4, <2>5, <2>7, <1>1, <1>2
    <2> QED BY <2>6, <2>7
  <1> QED BY <1>7, <1>8

\* What a checkpoint of an account leaves of the supply: the walked points, the last
\* one adjusted by the change of the lock.
LEMMA CheckpointUserSupply ==
  ASSUME LocksTypeOK, PointsTypeOK, NEW u, NEW old \in Locks, NEW new \in Locks,
         NEW curSupply \in Nat, CheckpointUser(u, old, new, curSupply)
  PROVE  LET last == WalkedPoints(curSupply)[WalkSteps]
             pt == mapSupplyPoints'[Len(mapSupplyPoints')]
         IN  /\ mapSupplyPoints' \in Seq(Point)
             /\ Len(mapSupplyPoints') = Len(mapSupplyPoints) + WalkSteps
             /\ pt.ts = last.ts /\ pt.balance = last.balance
             /\ pt.slope = PositivePart(last.slope + SlopeOf(new, now) - SlopeOf(old, now))
             /\ pt.bias = PositivePart(last.bias + BiasOf(new, now) - BiasOf(old, now))
  <1> DEFINE walked == WalkedPoints(curSupply)
             n == WalkSteps
             last == walked[n]
             slope == PositivePart(last.slope + Slope(new) - Slope(old))
             bias == PositivePart(last.bias + Bias(new) - Bias(old))
             pt == [last EXCEPT !.slope = slope, !.bias = bias]
  <1>1. /\ walked \in Seq(Point) /\ Len(walked) = n /\ n \in Nat \ {0} /\ last \in Point
    BY WalkEnds
  <1>2. mapSupplyPoints' = mapSupplyPoints \o [walked EXCEPT ![n] = pt]
    BY <1>1 DEF CheckpointUser
  <1>3. /\ Slope(new) = SlopeOf(new, now) /\ Bias(new) = BiasOf(new, now)
        /\ Slope(old) = SlopeOf(old, now) /\ Bias(old) = BiasOf(old, now)
    BY SlopeNow
  <1>4. /\ Slope(new) \in Nat /\ Bias(new) \in Nat /\ Slope(old) \in Nat /\ Bias(old) \in Nat
    <2>1. now \in Nat
      BY LastPointTyped
    <2> QED BY <1>3, <2>1, LockSlopeTyped
  <1> HIDE DEF walked, n
  <1>5. last.slope \in Int /\ last.bias \in Int
    BY <1>1 DEF Point
  <1>6. slope \in Int /\ bias \in Int
    BY <1>4, <1>5 DEF PositivePart
  <1> HIDE DEF last, slope, bias
  <1>7. /\ pt \in Point /\ pt.ts = last.ts /\ pt.balance = last.balance
        /\ pt.slope = slope /\ pt.bias = bias
    BY <1>1, <1>6 DEF Point, last
  <1> HIDE DEF pt
  <1> DEFINE added == [walked EXCEPT ![n] = pt]
  <1>8. added \in Seq(Point) /\ Len(added) = n /\ added[n] = pt
    <2>1. n \in 1 .. Len(walked)
      BY <1>1
    <2> QED BY <1>1, <1>7, <2>1, ExceptSeq
  <1>9. mapSupplyPoints' = mapSupplyPoints \o added
    BY <1>2
  <1> HIDE DEF added
  <1>10. mapSupplyPoints \in Seq(Point) /\ Len(mapSupplyPoints) \in Nat
    BY DEF PointsTypeOK
  <1>11. /\ mapSupplyPoints' \in Seq(Point)
         /\ Len(mapSupplyPoints') = Len(mapSupplyPoints) + n
         /\ mapSupplyPoints'[Len(mapSupplyPoints')] = pt
    <2>1. /\ mapSupplyPoints' \in Seq(Point)
          /\ Len(mapSupplyPoints') = Len(mapSupplyPoints) + n
          /\ \A i \in 1 .. Len(mapSupplyPoints) + n : mapSupplyPoints'[i] =
                IF i <= Len(mapSupplyPoints) THEN mapSupplyPoints[i]
                ELSE added[i - Len(mapSupplyPoints)]
      BY <1>8, <1>9, <1>10, ConcatProperties
    <2>2. /\ Len(mapSupplyPoints) + n \in 1 .. Len(mapSupplyPoints) + n
          /\ ~(Len(mapSupplyPoints) + n <= Len(mapSupplyPoints))
          /\ (Len(mapSupplyPoints) + n) - Len(mapSupplyPoints) = n
      BY <1>1, <1>10
    <2> QED BY <2>1, <2>2, <1>8
  <1> QED BY <1>3, <1>7, <1>11 DEF n, walked, last, slope, bias

\* The same of a checkpoint that no lock is changed with.
LEMMA CheckpointSupply ==
  ASSUME LocksTypeOK, PointsTypeOK, supply \in Nat, Checkpoint
  PROVE  /\ mapSupplyPoints' \in Seq(Point)
         /\ Len(mapSupplyPoints') = Len(mapSupplyPoints) + WalkSteps
         /\ mapSupplyPoints'[Len(mapSupplyPoints')] = WalkedPoints(supply)[WalkSteps]
  <1> DEFINE walked == WalkedPoints(supply)
             n == WalkSteps
  <1>1. /\ walked \in Seq(Point) /\ Len(walked) = n /\ n \in Nat \ {0}
    BY WalkEnds
  <1>2. mapSupplyPoints' = mapSupplyPoints \o walked
    BY DEF Checkpoint
  <1>3. mapSupplyPoints \in Seq(Point) /\ Len(mapSupplyPoints) \in Nat
    BY DEF PointsTypeOK
  <1> HIDE DEF walked, n
  <1>4. /\ mapSupplyPoints' \in Seq(Point)
        /\ Len(mapSupplyPoints') = Len(mapSupplyPoints) + n
        /\ \A i \in 1 .. Len(mapSupplyPoints) + n : mapSupplyPoints'[i] =
              IF i <= Len(mapSupplyPoints) THEN mapSupplyPoints[i]
              ELSE walked[i - Len(mapSupplyPoints)]
    BY <1>1, <1>2, <1>3, ConcatProperties
  <1>5. /\ Len(mapSupplyPoints) + n \in 1 .. Len(mapSupplyPoints) + n
        /\ ~(Len(mapSupplyPoints) + n <= Len(mapSupplyPoints))
        /\ (Len(mapSupplyPoints) + n) - Len(mapSupplyPoints) = n
    BY <1>1, <1>3
  <1> QED BY <1>4, <1>5 DEF n, walked

\* And of the points of the account.
LEMMA CheckpointUserPoints ==
  ASSUME LocksTypeOK, PointsTypeOK, UserPointsTypeOK, NEW u \in Voters,
         NEW old \in Locks, NEW new \in Locks, NEW curSupply \in Nat,
         CheckpointUser(u, old, new, curSupply)
  PROVE  /\ UserPointsTypeOK'
         /\ LastUserPoint(u)'.slope = SlopeOf(new, now)
         /\ LastUserPoint(u)'.bias = BiasOf(new, now) /\ LastUserPoint(u)'.ts = now
         /\ \A v \in Voters \ {u} : LastUserPoint(v)' = LastUserPoint(v)
  <1> DEFINE pt == [bias |-> Bias(new), slope |-> Slope(new), ts |-> now,
                    blockNumber |-> block, balance |-> new.amount]
  <1>1. Slope(new) = SlopeOf(new, now) /\ Bias(new) = BiasOf(new, now)
    BY SlopeNow
  <1>2. /\ SlopeOf(new, now) \in Nat /\ BiasOf(new, now) \in Nat
        /\ now \in Nat /\ block \in Nat /\ new.amount \in Nat
    BY LastPointTyped, LockSlopeTyped DEF PointsTypeOK, Locks
  <1>3. /\ pt \in Point /\ pt.slope = SlopeOf(new, now) /\ pt.bias = BiasOf(new, now)
        /\ pt.ts = now
    BY <1>1, <1>2 DEF Point
  <1>4. mapUserPoints' = [mapUserPoints EXCEPT ![u] = Append(@, pt)]
    BY DEF CheckpointUser
  <1> HIDE DEF pt
  <1>5. mapUserPoints[u] \in Seq(Point)
    BY DEF UserPointsTypeOK
  <1>6. /\ Append(mapUserPoints[u], pt) \in Seq(Point)
        /\ Append(mapUserPoints[u], pt) # <<>>
        /\ Append(mapUserPoints[u], pt)[Len(Append(mapUserPoints[u], pt))] = pt
    BY <1>3, <1>5, AppendProperties
  <1>7. UserPointsTypeOK'
    BY <1>4, <1>6 DEF UserPointsTypeOK
  <1>8. mapUserPoints'[u] = Append(mapUserPoints[u], pt)
    BY <1>4 DEF UserPointsTypeOK
  <1>9. LastUserPoint(u)' = pt
    BY <1>6, <1>8 DEF LastUserPoint
  <1>10. ASSUME NEW v \in Voters \ {u} PROVE LastUserPoint(v)' = LastUserPoint(v)
    <2>1. mapUserPoints'[v] = mapUserPoints[v]
      BY <1>4 DEF UserPointsTypeOK
    <2> QED BY <2>1 DEF LastUserPoint, EmptyPoint
  <1> QED BY <1>3, <1>7, <1>9, <1>10

(***************************************************************************)
(* The books: the locks, the supply, the tokens and the points of the      *)
(* accounts.  They agree whatever happens.                                 *)
(***************************************************************************)

UserPointsFollow ==
  \A u \in Voters :
    /\ LastUserPoint(u).slope = LockSlope(mapLockedBalances[u])
    /\ LastUserPoint(u).ts <= now
    /\ LastUserPoint(u).bias = BiasOf(mapLockedBalances[u], LastUserPoint(u).ts)
    /\ mapLockedBalances[u].amount > 0 => LastUserPoint(u).ts < mapLockedBalances[u].endTime

Books ==
  /\ LocksTypeOK /\ LockShape /\ PointsTypeOK /\ UserPointsTypeOK
  /\ supply = AmountSum(mapLockedBalances) /\ escrow = supply
  /\ UserPointsFollow
  /\ totalNumPoints = 0 => \A u \in Voters : mapLockedBalances[u] = NoLock

\* The lock that a transaction may leave to an account.
NextLock(u, new) ==
  LET old == mapLockedBalances[u]
  IN  /\ new \in Locks
      /\ new.amount = 0 <=> new.endTime = 0
      /\ new.endTime \in Weeks /\ new.endTime <= now + MAXTIME
      /\ new.endTime # 0 => new.endTime > now /\ new.endTime >= old.endTime
      /\ old.endTime > now => new.endTime > now

LockChange(u, new) ==
  LET old == mapLockedBalances[u]
  IN  /\ NextLock(u, new)
      /\ UNCHANGED <<now, block>>
      /\ mapLockedBalances' = [mapLockedBalances EXCEPT ![u] = new]
      /\ supply' = supply + new.amount - old.amount
      /\ escrow' = escrow + new.amount - old.amount
      /\ CheckpointUser(u, old, new, supply')

LEMMA BooksTyped ==
  ASSUME Books
  PROVE  /\ now \in Nat /\ block \in Nat /\ supply \in Nat /\ escrow \in Nat
         /\ \A u \in Voters : /\ mapLockedBalances[u] \in Locks
                              /\ mapLockedBalances[u].amount \in Nat
                              /\ mapLockedBalances[u].endTime \in Nat
                              /\ mapLockedBalances[u].amount <= supply
  <1>1. mapLockedBalances \in [Voters -> Locks]
    BY DEF Books, LocksTypeOK
  <1>2. now \in Nat /\ block \in Nat
    BY VeConstantsAssumption DEF Books, LocksTypeOK, PointsTypeOK
  <1>3. supply \in Nat /\ \A u \in Voters : mapLockedBalances[u].amount <= supply
    BY <1>1, <1>2, LockSumsTyped DEF Books
  <1> QED BY <1>1, <1>2, <1>3 DEF Books, Locks

\* Every transaction replaces one lock.
LEMMA TransactionChanges ==
  ASSUME Books, NEW u \in Voters, Transaction(u)
  PROVE  \E new \in Locks : LockChange(u, new)
  <1> DEFINE old == mapLockedBalances[u]
  <1>1. /\ now \in Nat /\ supply \in Nat /\ escrow = supply /\ now <= MaxTime
        /\ old \in Locks /\ old.amount \in Nat /\ old.endTime \in Nat
        /\ old.endTime \in Weeks /\ old.endTime <= now + MAXTIME
        /\ old.amount = 0 <=> old.endTime = 0
    BY BooksTyped, LastPointTyped DEF Books, LockShape
  <1>2. ASSUME NEW d \in Durations, UnlockTime(d) > now, UnlockTime(d) <= now + MAXTIME
        PROVE  UnlockTime(d) \in Nat \ {0} /\ UnlockTime(d) \in Weeks
    <2>1. d \in Nat /\ now + d \in Nat
      BY <1>1, VeConstantsAssumption DEF Durations
    <2>2. UnlockTime(d) \in Nat /\ UnlockTime(d) % WEEK = 0
      BY <2>1, WeekStartProperties DEF UnlockTime
    <2> QED BY <1>1, <1>2, <2>2, VeConstantsAssumption DEF Weeks
  <1>3. ASSUME NEW a \in Nat, NEW t \in Nat, DepositForInternal(u, a, t),
               a + old.amount > 0,
               NEW end \in Weeks, end = IF t > 0 THEN t ELSE old.endTime,
               end > now, end <= now + MAXTIME, end >= old.endTime
        PROVE  \E new \in Locks : LockChange(u, new)
    <2> DEFINE new == [amount |-> old.amount + a, endTime |-> end]
    <2>1. end \in Nat
      BY DEF Weeks
    <2>2. /\ new \in Locks /\ new.amount = old.amount + a /\ new.endTime = end
          /\ new = [amount |-> old.amount + a,
                     endTime |-> IF t > 0 THEN t ELSE old.endTime]
      BY <1>1, <1>3, <2>1 DEF Locks
    <2>3. /\ supply' = supply + a /\ escrow' = escrow + a
          /\ UNCHANGED <<now, block>>
          /\ mapLockedBalances' = [mapLockedBalances EXCEPT ![u] = new]
          /\ CheckpointUser(u, old, new, supply + a)
      BY <1>3, <2>2 DEF DepositForInternal
    <2> HIDE DEF new
    <2>4. supply + a = supply + new.amount - old.amount
      BY <1>1, <2>2
    <2>5. NextLock(u, new)
      BY <1>1, <1>3, <2>1, <2>2 DEF NextLock
    <2>6. LockChange(u, new)
      BY <1>1, <2>3, <2>4, <2>5 DEF LockChange
    <2> QED BY <2>2, <2>6
  <1>4. ASSUME NEW a \in Amounts, NEW d \in Durations, CreateLock(u, a, d)
        PROVE  \E new \in Locks : LockChange(u, new)
    <2> DEFINE t == UnlockTime(d)
    <2>1. /\ a \in Nat \ {0} /\ old.amount = 0 /\ t > now /\ t <= now + MAXTIME
          /\ DepositForInternal(u, a, t)
      BY <1>4, VeConstantsAssumption DEF CreateLock
    <2>2. t \in Nat \ {0} /\ t \in Weeks
      BY <2>1, <1>2
    <2> HIDE DEF t, old
    <2>3. t >= old.endTime /\ a + old.amount > 0 /\ t > 0
      BY <1>1, <2>1, <2>2
    <2> QED BY <2>1, <2>2, <2>3, <1>3
  <1>5. ASSUME NEW a \in Amounts, IncreaseAmount(u, a)
        PROVE  \E new \in Locks : LockChange(u, new)
    <2>1. /\ a \in Nat \ {0} /\ old.endTime > now /\ DepositForInternal(u, a, 0)
      BY <1>5, VeConstantsAssumption DEF IncreaseAmount
    <2> HIDE DEF old
    <2>2. a + old.amount > 0 /\ old.endTime >= old.endTime /\ ~(0 > 0)
      BY <1>1, <2>1
    <2> QED BY <1>1, <2>1, <2>2, <1>3
  <1>6. ASSUME NEW d \in Durations, IncreaseUnlockTime(u, d)
        PROVE  \E new \in Locks : LockChange(u, new)
    <2> DEFINE t == UnlockTime(d)
    <2>1. /\ old.amount > 0 /\ old.endTime > now /\ t > old.endTime /\ t <= now + MAXTIME
          /\ DepositForInternal(u, 0, t)
      BY <1>6 DEF IncreaseUnlockTime
    <2>2. d \in Nat /\ now + d \in Nat /\ t \in Nat
      BY <1>1, WeekStartProperties DEF Durations, UnlockTime
    <2>3. t > now
      BY <1>1, <2>1, <2>2
    <2>4. t \in Nat \ {0} /\ t \in Weeks
      BY <2>1, <2>3, <1>2
    <2> HIDE DEF t, old
    <2>5. t >= old.endTime /\ 0 + old.amount > 0 /\ t > 0
      BY <1>1, <2>1, <2>2
    <2> QED BY <2>1, <2>3, <2>4, <2>5, <1>3
  <1>7. CASE Withdraw(u)
    <2>1. /\ old.endTime <= now
          /\ mapLockedBalances' = [mapLockedBalances EXCEPT ![u] = NoLock]
          /\ supply' = supply - old.amount /\ escrow' = escrow - old.amount
          /\ CheckpointUser(u, old, NoLock, supply - old.amount)
          /\ UNCHANGED <<now, block>>
      BY <1>7 DEF Withdraw
    <2>2. NoLock \in Locks /\ NoLock.amount = 0 /\ NoLock.endTime = 0
      BY DEF NoLock, Locks
    <2> HIDE DEF old
    <2>3. 0 \in Weeks /\ 0 <= now + MAXTIME
      BY <1>1, VeConstantsAssumption DEF Weeks
    <2>4. NextLock(u, NoLock)
      BY <1>1, <2>1, <2>2, <2>3 DEF NextLock, old
    <2>5. LockChange(u, NoLock)
      BY <1>1, <2>1, <2>2, <2>4 DEF LockChange, old
    <2> QED BY <2>2, <2>5
  <1> QED BY <1>4, <1>5, <1>6, <1>7 DEF Transaction

\* A replaced lock leaves the books in order.
LEMMA LockChangeKeepsBooks ==
  ASSUME Books, NEW u \in Voters, NEW new \in Locks, LockChange(u, new)
  PROVE  /\ Books'
         /\ mapSlopeChanges' = NewSlopeChanges(mapLockedBalances[u], new)
         /\ totalNumPoints' > 0
  <1> DEFINE old == mapLockedBalances[u]
             curSupply == supply'
  <1>1. /\ NextLock(u, new) /\ UNCHANGED <<now, block>>
        /\ mapLockedBalances' = [mapLockedBalances EXCEPT ![u] = new]
        /\ curSupply = supply + new.amount - old.amount
        /\ escrow' = escrow + new.amount - old.amount
        /\ CheckpointUser(u, old, new, curSupply)
    BY DEF LockChange
  <1>2. /\ LocksTypeOK /\ PointsTypeOK /\ UserPointsTypeOK
        /\ mapLockedBalances \in [Voters -> Locks]
        /\ now \in Nat /\ supply \in Nat /\ escrow = supply
        /\ old \in Locks /\ old.amount \in Nat /\ old.amount <= supply
        /\ new.amount \in Nat /\ new.endTime \in Nat
    BY BooksTyped DEF Books, LocksTypeOK, Locks
  <1>3. curSupply \in Nat
    BY <1>1, <1>2
  <1> HIDE DEF curSupply
  <1>4. LocksTypeOK'
    BY <1>1, <1>2 DEF LocksTypeOK
  <1>5. LockShape'
    BY <1>1, <1>2 DEF Books, LockShape, NextLock
  <1>6. mapSlopeChanges' = NewSlopeChanges(old, new)
    BY <1>1 DEF CheckpointUser
  <1>7. NewSlopeChanges(old, new) \in [Weeks -> Int]
    <2>1. /\ new.endTime # 0 => new.endTime >= old.endTime
          /\ old.endTime > now => new.endTime > now
      BY <1>1 DEF NextLock
    <2> QED BY <1>2, <2>1, SlopeChangeAt
  <1>8. PointsTypeOK' /\ totalNumPoints' > 0
    <2>1. LET last == WalkedPoints(curSupply)[WalkSteps]
              pt == mapSupplyPoints'[Len(mapSupplyPoints')]
          IN  /\ mapSupplyPoints' \in Seq(Point)
              /\ Len(mapSupplyPoints') = Len(mapSupplyPoints) + WalkSteps
              /\ pt.ts = last.ts
      BY <1>1, <1>2, <1>3, CheckpointUserSupply
    <2>2. WalkedPoints(curSupply)[WalkSteps].ts <= now /\ WalkSteps \in Nat \ {0}
      BY <1>2, <1>3, WalkEnds
    <2>3. Len(mapSupplyPoints) \in Nat \ {0}
      BY <1>2 DEF PointsTypeOK
    <2>4. Len(mapSupplyPoints') \in Nat \ {0} /\ Len(mapSupplyPoints') > 1
      BY <2>1, <2>2, <2>3
    <2>5. mapSupplyPoints' # <<>>
      BY <2>4
    <2>6. (SupplyPoint(totalNumPoints))' = mapSupplyPoints'[Len(mapSupplyPoints')]
      BY <2>4 DEF SupplyPoint, totalNumPoints
    <2>7. block' \in Nat
      BY <1>1, <1>2 DEF PointsTypeOK
    <2>8. (SupplyPoint(totalNumPoints))'.ts <= now'
      BY <2>1, <2>2, <2>6, <1>1
    <2>9. PointsTypeOK'
      BY <1>6, <1>7, <2>1, <2>5, <2>7, <2>8 DEF PointsTypeOK
    <2> QED BY <2>4, <2>9 DEF totalNumPoints
  <1>9. supply' = AmountSum(mapLockedBalances') /\ escrow' = supply'
    <2>1. AmountSum(mapLockedBalances') = AmountSum(mapLockedBalances) - old.amount + new.amount
      BY <1>1, <1>2, SumsAfterChange
    <2>2. supply = AmountSum(mapLockedBalances)
      BY DEF Books
    <2> QED BY <1>1, <1>2, <2>1, <2>2 DEF curSupply
  <1>10. /\ UserPointsTypeOK'
         /\ LastUserPoint(u)'.slope = SlopeOf(new, now)
         /\ LastUserPoint(u)'.bias = BiasOf(new, now) /\ LastUserPoint(u)'.ts = now
         /\ \A v \in Voters \ {u} : LastUserPoint(v)' = LastUserPoint(v)
    BY <1>1, <1>2, <1>3, CheckpointUserPoints
  <1>11. UserPointsFollow'
    <2> SUFFICES ASSUME NEW v \in Voters
                 PROVE  LET pt == LastUserPoint(v)'
                            lock == mapLockedBalances'[v]
                        IN  /\ pt.slope = LockSlope(lock) /\ pt.ts <= now'
                            /\ pt.bias = BiasOf(lock, pt.ts)
                            /\ lock.amount > 0 => pt.ts < lock.endTime
      BY DEF UserPointsFollow, LockSlope, BiasOf
    <2>1. CASE v = u
      <3>1. mapLockedBalances'[v] = new
        BY <1>1, <1>2, <2>1
      <3>2. /\ new.amount = 0 <=> new.endTime = 0
            /\ new.endTime # 0 => new.endTime > now
        BY <1>1 DEF NextLock
      <3>3. SlopeOf(new, now) = LockSlope(new)
        <4>1. new.amount = 0 => LockSlope(new) = 0
          BY VeConstantsAssumption DEF LockSlope
        <4> QED BY <3>2, <4>1, <1>2 DEF SlopeOf
      <3> QED BY <2>1, <3>1, <3>2, <3>3, <1>1, <1>2, <1>10
    <2>2. CASE v # u
      <3>1. mapLockedBalances'[v] = mapLockedBalances[v] /\ LastUserPoint(v)' = LastUserPoint(v)
        BY <1>1, <1>2, <1>10, <2>2
      <3> QED BY <3>1, <1>1 DEF Books, UserPointsFollow
    <2> QED BY <2>1, <2>2
  <1>12. ~(totalNumPoints = 0)'
    BY <1>8
  <1> QED BY <1>4, <1>5, <1>6, <1>8, <1>9, <1>10, <1>11, <1>12 DEF Books

LEMMA BooksInit == Init => Books
  <1> SUFFICES ASSUME Init PROVE Books
    OBVIOUS
  <1>1. /\ now = StartTime /\ block = StartBlock /\ supply = 0 /\ escrow = 0
        /\ mapLockedBalances = [u \in Voters |-> NoLock]
        /\ mapSupplyPoints = <<EmptyPoint(StartTime, StartBlock)>>
        /\ mapUserPoints = [u \in Voters |-> <<>>]
        /\ mapSlopeChanges = [t \in Weeks |-> 0]
    BY DEF Init
  <1>2. NoLock \in Locks /\ NoLock.amount = 0 /\ NoLock.endTime = 0
    BY DEF NoLock, Locks
  <1>3. now \in Nat /\ now \in StartTime .. MaxTime /\ block \in Nat /\ MAXTIME \in Nat
    BY <1>1, VeConstantsAssumption
  <1>4. LocksTypeOK /\ LockShape /\ UserPointsTypeOK
    <2>1. 0 \in Weeks /\ 0 <= now + MAXTIME
      BY <1>3, VeConstantsAssumption DEF Weeks
    <2> QED BY <1>1, <1>2, <1>3, <2>1 DEF LocksTypeOK, LockShape, UserPointsTypeOK
  <1>5. PointsTypeOK
    <2>1. EmptyPoint(StartTime, StartBlock) \in Point /\ EmptyPoint(StartTime, StartBlock).ts = now
      BY <1>1, <1>3 DEF EmptyPoint, Point
    <2> HIDE DEF EmptyPoint
    <2>2. /\ mapSupplyPoints \in Seq(Point) /\ mapSupplyPoints # <<>>
          /\ Len(mapSupplyPoints) = 1 /\ mapSupplyPoints[1] = EmptyPoint(StartTime, StartBlock)
      BY <1>1, <2>1
    <2>3. SupplyPoint(totalNumPoints).ts <= now
      BY <2>1, <2>2, <1>3 DEF SupplyPoint, totalNumPoints
    <2>4. mapSlopeChanges \in [Weeks -> Int]
      BY <1>1
    <2> QED BY <1>3, <2>2, <2>3, <2>4 DEF PointsTypeOK
  <1>6. supply = AmountSum(mapLockedBalances) /\ escrow = supply
    <2>1. \A u \in Voters : [v \in Voters |-> mapLockedBalances[v].amount][u] = 0
      BY <1>1, <1>2
    <2>2. IsFiniteSet(Voters)
      BY VeConstantsAssumption
    <2>3. AmountSum(mapLockedBalances) = 0
      BY <2>1, <2>2, SumZero DEF AmountSum
    <2> QED BY <1>1, <2>3
  <1>7. UserPointsFollow
    <2>1. LockSlope(NoLock) = 0 /\ BiasOf(NoLock, 0) = 0
      BY <1>2, VeConstantsAssumption DEF LockSlope, BiasOf
    <2>2. ASSUME NEW u \in Voters
          PROVE  /\ mapLockedBalances[u] = NoLock /\ LastUserPoint(u).slope = 0
                 /\ LastUserPoint(u).bias = 0 /\ LastUserPoint(u).ts = 0
      BY <1>1 DEF LastUserPoint, EmptyPoint
    <2> QED BY <1>2, <1>3, <2>1, <2>2 DEF UserPointsFollow
  <1> QED BY <1>1, <1>4, <1>5, <1>6, <1>7 DEF Books

LEMMA CheckpointKeepsBooks ==
  ASSUME Books, Checkpoint
  PROVE  Books' /\ totalNumPoints' > 0
  <1>1. UNCHANGED <<now, block, supply, mapLockedBalances, mapUserPoints, mapSlopeChanges, escrow>>
    BY DEF Checkpoint
  <1>2. /\ LocksTypeOK /\ PointsTypeOK /\ supply \in Nat
    BY BooksTyped DEF Books
  <1>3. /\ mapSupplyPoints' \in Seq(Point)
        /\ Len(mapSupplyPoints') = Len(mapSupplyPoints) + WalkSteps
        /\ mapSupplyPoints'[Len(mapSupplyPoints')] = WalkedPoints(supply)[WalkSteps]
        /\ WalkedPoints(supply)[WalkSteps].ts <= now /\ WalkSteps \in Nat \ {0}
        /\ Len(mapSupplyPoints) \in Nat \ {0}
    BY <1>2, CheckpointSupply, WalkEnds DEF PointsTypeOK
  <1>4. Len(mapSupplyPoints') \in Nat \ {0} /\ Len(mapSupplyPoints') > 1
    BY <1>3
  <1>5. PointsTypeOK'
    <2>1. (SupplyPoint(totalNumPoints))' = mapSupplyPoints'[Len(mapSupplyPoints')]
      BY <1>4 DEF SupplyPoint, totalNumPoints
    <2>2. mapSupplyPoints' # <<>>
      BY <1>4
    <2>3. (SupplyPoint(totalNumPoints))'.ts <= now'
      BY <2>1, <1>1, <1>3
    <2> QED BY <1>1, <1>2, <1>3, <2>2, <2>3 DEF PointsTypeOK
  <1>6. totalNumPoints' > 0 /\ totalNumPoints' # 0
    <2> DEFINE n == Len(mapSupplyPoints')
    <2>1. n \in Nat /\ n > 1 /\ totalNumPoints' = n - 1
      BY <1>4 DEF totalNumPoints
    <2> HIDE DEF n
    <2>2. n - 1 > 0 /\ n - 1 # 0
      BY <2>1
    <2> QED BY <2>1, <2>2
  <1>7. LocksTypeOK' /\ LockShape' /\ UserPointsTypeOK' /\ UserPointsFollow'
    BY <1>1 DEF Books, LocksTypeOK, LockShape, UserPointsTypeOK, UserPointsFollow, LastUserPoint,
                EmptyPoint, LockSlope, BiasOf
  <1>8. supply' = AmountSum(mapLockedBalances') /\ escrow' = supply'
    BY <1>1 DEF Books
  <1> QED BY <1>5, <1>6, <1>7, <1>8 DEF Books

LEMMA NextBlockKeepsBooks ==
  ASSUME Books, NextBlock
  PROVE  Books'
  <1>1. PICK d \in BlockTimes : now + d <= MaxTime /\ now' = now + d
    BY DEF NextBlock
  <1>2. /\ block' = block + 1
        /\ UNCHANGED <<supply, mapLockedBalances, mapSupplyPoints, mapUserPoints,
                       mapSlopeChanges, escrow>>
    BY DEF NextBlock
  <1>3. /\ now \in Nat /\ block \in Nat /\ d \in Nat /\ now <= now' /\ now' \in StartTime .. MaxTime
    BY <1>1, BooksTyped, VeConstantsAssumption DEF Books, LocksTypeOK
  <1>4. LocksTypeOK' /\ LockShape'
    <2>1. mapLockedBalances \in [Voters -> Locks] /\ MAXTIME \in Nat
      BY VeConstantsAssumption DEF Books, LocksTypeOK
    <2>2. \A u \in Voters : mapLockedBalances[u].endTime <= now' + MAXTIME
      BY <1>3, <2>1 DEF Books, LockShape, Locks
    <2> QED BY <1>2, <1>3, <2>1, <2>2 DEF Books, LockShape, LocksTypeOK
  <1>5. PointsTypeOK'
    <2>1. SupplyPoint(totalNumPoints).ts \in Nat /\ SupplyPoint(totalNumPoints).ts <= now
      BY LastPointTyped DEF Books, PointsTypeOK, Point
    <2>2. SupplyPoint(totalNumPoints).ts <= now'
      BY <1>3, <2>1
    <2>3. SupplyPoint(totalNumPoints)' = SupplyPoint(totalNumPoints)
      BY <1>2 DEF SupplyPoint, totalNumPoints
    <2> QED BY <1>2, <1>3, <2>2, <2>3 DEF Books, PointsTypeOK
  <1>6. UserPointsTypeOK' /\ UserPointsFollow'
    <2>1. \A u \in Voters : LastUserPoint(u)' = LastUserPoint(u)
      BY <1>2 DEF LastUserPoint, EmptyPoint
    <2>2. \A u \in Voters : LastUserPoint(u).ts \in Nat
      <3> TAKE u \in Voters
      <3>1. CASE mapUserPoints[u] = <<>>
        BY <3>1 DEF LastUserPoint, EmptyPoint
      <3>2. CASE mapUserPoints[u] # <<>>
        <4>1. mapUserPoints[u] \in Seq(Point)
          BY DEF Books, UserPointsTypeOK
        <4>2. LastUserPoint(u) \in Point
          BY <3>2, <4>1 DEF LastUserPoint
        <4> QED BY <4>2 DEF Point
      <3> QED BY <3>1, <3>2
    <2>3. \A u \in Voters : LastUserPoint(u).ts <= now'
      BY <1>3, <2>2 DEF Books, UserPointsFollow
    <2> QED BY <1>2, <2>1, <2>3 DEF Books, UserPointsTypeOK, UserPointsFollow, LockSlope, BiasOf
  <1>7. /\ supply' = AmountSum(mapLockedBalances') /\ escrow' = supply'
        /\ (totalNumPoints = 0 => \A u \in Voters : mapLockedBalances[u] = NoLock)'
    BY <1>2 DEF Books, totalNumPoints, NoLock
  <1> QED BY <1>4, <1>5, <1>6, <1>7 DEF Books

LEMMA BooksNext == Books /\ [Next]_vars => Books'
  <1> SUFFICES ASSUME Books, [Next]_vars PROVE Books'
    OBVIOUS
  <1>1. ASSUME NEW u \in Voters, Transaction(u) PROVE Books'
    <2>1. PICK new \in Locks : LockChange(u, new)
      BY <1>1, TransactionChanges
    <2> QED BY <2>1, LockChangeKeepsBooks
  <1>2. CASE Checkpoint
    BY <1>2, CheckpointKeepsBooks
  <1>3. CASE NextBlock
    BY <1>3, NextBlockKeepsBooks
  <1>4. CASE UNCHANGED vars
    BY <1>4 DEF vars, Books, LocksTypeOK, LockShape, PointsTypeOK, UserPointsTypeOK,
                UserPointsFollow, LastUserPoint, EmptyPoint, LockSlope, BiasOf, AmountSum,
                totalNumPoints, SupplyPoint, NoLock
  <1> QED BY <1>1, <1>2, <1>3, <1>4 DEF Next

LEMMA BooksAlways == Spec => []Books
  BY BooksInit, BooksNext, PTL DEF Spec

\* Every variable of veOLAS keeps its type: in particular the supply and the tokens held
\* never go below zero, however locks are withdrawn (supply and the balance in the OLAS
\* token of veOLAS.sol).
THEOREM VeOLASTypeCorrect == Spec => []TypeOK
  <1>1. Books => TypeOK
    <2> SUFFICES ASSUME Books PROVE TypeOK
      OBVIOUS
    <2>1. supply \in Nat /\ escrow \in Nat
      BY BooksTyped
    <2> QED BY <2>1 DEF Books, LocksTypeOK, PointsTypeOK, UserPointsTypeOK, TypeOK
  <1> QED BY <1>1, BooksAlways, PTL

(***************************************************************************)
(* The supply points                                                       *)
(***************************************************************************)

\* The walk of the next checkpoint reaches the present: no MAX_STEPS weeks go by without
\* a checkpoint.
CheckpointedInTime ==
  totalNumPoints > 0 =>
    now <= WeekStart(SupplyPoint(totalNumPoints).ts) + MAX_STEPS * WEEK

\* The last point of the supply accounts for all locks, and the slopes that end later are
\* scheduled; every lock ends within MAXTIME of it.
SupplyFollows ==
  LET pt == SupplyPoint(totalNumPoints)
  IN  /\ Follows(pt, pt.ts) /\ Scheduled(pt.ts) /\ pt.balance = supply
      /\ \A u \in Voters : mapLockedBalances[u].endTime <= pt.ts + MAXTIME

\* Before the first lock there is nothing to account for.
LEMMA NothingLocked ==
  ASSUME Books, totalNumPoints = 0, NEW t \in Nat
  PROVE  /\ SlopeSum(mapLockedBalances, t) = 0 /\ BiasSum(mapLockedBalances, t) = 0
         /\ t > 0 => EndingSum(mapLockedBalances, t) = 0
  <1>1. \A u \in Voters : mapLockedBalances[u] = NoLock
    BY DEF Books
  <1>2. ~(0 > t) /\ IsFiniteSet(Voters)
    BY VeConstantsAssumption
  <1>3. \A u \in Voters : /\ SlopeOf(mapLockedBalances[u], t) = 0
                          /\ BiasOf(mapLockedBalances[u], t) = 0
                          /\ t > 0 => EndingOf(mapLockedBalances[u], t) = 0
    BY <1>1, <1>2 DEF NoLock, SlopeOf, BiasOf, EndingOf
  <1>4. SlopeSum(mapLockedBalances, t) = 0
    BY <1>2, <1>3, SumZero DEF SlopeSum
  <1>5. BiasSum(mapLockedBalances, t) = 0
    BY <1>2, <1>3, SumZero DEF BiasSum
  <1>6. t > 0 => EndingSum(mapLockedBalances, t) = 0
    BY <1>2, <1>3, SumZero DEF EndingSum
  <1> QED BY <1>4, <1>5, <1>6

\* Where the next walk starts.
LEMMA WalkStarts ==
  ASSUME Books, SupplyFollows
  PROVE  /\ Follows(LastPoint, LastPoint.ts) /\ Scheduled(LastPoint.ts)
         /\ CheckpointedInTime => now <= WeekStart(LastPoint.ts) + MAX_STEPS * WEEK
  <1>1. /\ totalNumPoints \in Nat /\ now \in Nat /\ SupplyPoint(totalNumPoints) \in Point
        /\ SupplyPoint(totalNumPoints).ts <= now
    BY LastPointTyped DEF Books, PointsTypeOK
  <1>2. CASE totalNumPoints > 0
    BY <1>2 DEF LastPoint, SupplyFollows, CheckpointedInTime
  <1>3. CASE totalNumPoints = 0
    <2>1. /\ LastPoint.ts = now /\ LastPoint.slope = 0 /\ LastPoint.bias = 0
      BY <1>3 DEF LastPoint, EmptyPoint
    <2>2. Follows(LastPoint, LastPoint.ts)
      BY <2>1, <1>1, <1>3, NothingLocked DEF Follows
    <2>3. Scheduled(now)
      <3>1. SupplyPoint(totalNumPoints).ts \in Nat
        BY <1>1 DEF Point
      <3> QED BY <1>1, <3>1 DEF Scheduled, SupplyFollows, Weeks
    <2>4. now <= WeekStart(now) + MAX_STEPS * WEEK
      <3>1. /\ WeekStart(now) \in Nat /\ now < WeekStart(now) + WEEK
        BY <1>1, WeekStartProperties
      <3>2. 1 * WEEK <= MAX_STEPS * WEEK /\ MAX_STEPS * WEEK \in Int
        BY VeConstantsAssumption, WeekOrder
      <3>3. WEEK \in Nat
        BY VeConstantsAssumption
      <3> QED BY <1>1, <3>1, <3>2, <3>3
    <2> QED BY <2>1, <2>2, <2>3, <2>4
  <1> QED BY <1>1, <1>2, <1>3

LEMMA LockChangeKeepsSupply ==
  ASSUME Books, SupplyFollows, CheckpointedInTime,
         NEW u \in Voters, NEW new \in Locks, LockChange(u, new)
  PROVE  SupplyFollows'
  <1> DEFINE old == mapLockedBalances[u]
             locks == mapLockedBalances
             curSupply == supply'
             last == WalkedPoints(curSupply)[WalkSteps]
             pt == mapSupplyPoints'[Len(mapSupplyPoints')]
  <1>1. /\ UNCHANGED now /\ CheckpointUser(u, old, new, curSupply)
        /\ mapLockedBalances' = [locks EXCEPT ![u] = new]
        /\ NextLock(u, new)
    BY DEF LockChange
  <1>2. /\ LocksTypeOK /\ PointsTypeOK /\ LockShape
        /\ locks \in [Voters -> Locks] /\ old \in Locks /\ now \in Nat
    BY BooksTyped DEF Books, LocksTypeOK
  <1>3. Books' /\ mapSlopeChanges' = NewSlopeChanges(old, new) /\ totalNumPoints' > 0
    BY LockChangeKeepsBooks
  <1>4. curSupply \in Nat
    <2>1. old.amount \in Nat /\ old.amount <= supply /\ supply \in Nat /\ new.amount \in Nat
      BY BooksTyped DEF Locks
    <2> QED BY <2>1 DEF LockChange
  <1> HIDE DEF curSupply
  <1>5. /\ Follows(LastPoint, LastPoint.ts) /\ Scheduled(LastPoint.ts)
        /\ now <= WeekStart(LastPoint.ts) + MAX_STEPS * WEEK
    BY WalkStarts
  <1>6. Follows(last, now) /\ last.balance = curSupply
    BY <1>2, <1>4, <1>5, WalkFollows
  <1>7. /\ pt.ts = last.ts /\ pt.balance = last.balance
        /\ pt.slope = PositivePart(last.slope + SlopeOf(new, now) - SlopeOf(old, now))
        /\ pt.bias = PositivePart(last.bias + BiasOf(new, now) - BiasOf(old, now))
    BY <1>1, <1>2, <1>4, CheckpointUserSupply
  <1>8. SupplyPoint(totalNumPoints)' = pt
    <2>1. Len(mapSupplyPoints') \in Nat
      BY <1>3 DEF Books, PointsTypeOK
    <2> QED BY <2>1 DEF SupplyPoint, totalNumPoints
  <1> HIDE DEF pt, last, locks, old
  <1>9. ASSUME NEW t \in Nat
        PROVE  /\ SlopeSum(mapLockedBalances', t) =
                    SlopeSum(locks, t) - SlopeOf(old, t) + SlopeOf(new, t)
               /\ BiasSum(mapLockedBalances', t) =
                    BiasSum(locks, t) - BiasOf(old, t) + BiasOf(new, t)
               /\ EndingSum(mapLockedBalances', t) =
                    EndingSum(locks, t) - EndingOf(old, t) + EndingOf(new, t)
               /\ SlopeSum(locks, t) \in Nat /\ SlopeSum(mapLockedBalances', t) \in Nat
               /\ BiasSum(locks, t) \in Nat /\ BiasSum(mapLockedBalances', t) \in Nat
               /\ EndingSum(locks, t) \in Nat /\ EndingSum(mapLockedBalances', t) \in Nat
               /\ SlopeOf(old, t) \in Nat /\ BiasOf(old, t) \in Nat /\ EndingOf(old, t) \in Nat
               /\ SlopeOf(new, t) \in Nat /\ BiasOf(new, t) \in Nat /\ EndingOf(new, t) \in Nat
    <2>1. mapLockedBalances' \in [Voters -> Locks]
      BY <1>1, <1>2
    <2>2. /\ SlopeSum(locks, t) \in Nat /\ SlopeSum(mapLockedBalances', t) \in Nat
          /\ BiasSum(locks, t) \in Nat /\ BiasSum(mapLockedBalances', t) \in Nat
          /\ EndingSum(locks, t) \in Nat /\ EndingSum(mapLockedBalances', t) \in Nat
      BY <2>1, <1>2, LockSumsTyped
    <2>3. /\ SlopeOf(old, t) \in Nat /\ BiasOf(old, t) \in Nat /\ EndingOf(old, t) \in Nat
          /\ SlopeOf(new, t) \in Nat /\ BiasOf(new, t) \in Nat /\ EndingOf(new, t) \in Nat
      BY <1>2, LockSlopeTyped
    <2>4. old = locks[u]
      BY DEF old, locks
    <2>5. /\ SlopeSum(mapLockedBalances', t) =
               SlopeSum(locks, t) - SlopeOf(old, t) + SlopeOf(new, t)
          /\ BiasSum(mapLockedBalances', t) =
               BiasSum(locks, t) - BiasOf(old, t) + BiasOf(new, t)
          /\ EndingSum(mapLockedBalances', t) =
               EndingSum(locks, t) - EndingOf(old, t) + EndingOf(new, t)
      BY <2>4, <1>1, <1>2, SumsAfterChange
    <2> QED BY <2>2, <2>3, <2>5
  <1>10. /\ pt.ts = now /\ pt.slope = SlopeSum(mapLockedBalances', now)
         /\ pt.bias = BiasSum(mapLockedBalances', now) /\ pt.balance = curSupply
    <2>1. /\ last.slope = SlopeSum(locks, now) /\ last.bias = BiasSum(locks, now)
          /\ last.ts = now
      BY <1>6 DEF Follows, locks
    <2>2. /\ pt.slope = PositivePart(SlopeSum(locks, now) + SlopeOf(new, now) - SlopeOf(old, now))
          /\ pt.bias = PositivePart(BiasSum(locks, now) + BiasOf(new, now) - BiasOf(old, now))
      BY <1>7, <2>1
    <2>3. /\ SlopeSum(locks, now) + SlopeOf(new, now) - SlopeOf(old, now) =
               SlopeSum(mapLockedBalances', now)
          /\ BiasSum(locks, now) + BiasOf(new, now) - BiasOf(old, now) =
               BiasSum(mapLockedBalances', now)
          /\ SlopeSum(mapLockedBalances', now) \in Nat /\ BiasSum(mapLockedBalances', now) \in Nat
      BY <1>2, <1>9
    <2> QED BY <1>6, <1>7, <2>1, <2>2, <2>3 DEF PositivePart
  <1>11. ASSUME NEW w \in Weeks, w > now
         PROVE  mapSlopeChanges'[w] = 0 - EndingSum(mapLockedBalances', w)
    <2>1. w \in Nat /\ LastPoint.ts \in Nat /\ LastPoint.ts <= now
      BY <1>2, LastPointTyped DEF Weeks, Point
    <2>2. mapSlopeChanges[w] = 0 - EndingSum(locks, w)
      BY <1>2, <1>5, <1>11, <2>1 DEF Scheduled, locks
    <2>3. mapSlopeChanges'[w] = mapSlopeChanges[w] + EndingOf(old, w) - EndingOf(new, w)
      <3>1. /\ new.endTime # 0 => new.endTime >= old.endTime
            /\ old.endTime > now => new.endTime > now
        BY <1>1 DEF NextLock, old
      <3> QED BY <1>2, <1>3, <1>11, <3>1, SlopeChangeAt
    <2> QED BY <2>1, <2>2, <2>3, <1>9
  <1>12. \A v \in Voters : mapLockedBalances'[v].endTime <= now + MAXTIME
    BY <1>1, <1>3 DEF Books, LockShape
  <1> QED BY <1>1, <1>8, <1>10, <1>11, <1>12 DEF SupplyFollows, Follows, Scheduled, Weeks, curSupply,
                                          SlopeSum, BiasSum, EndingSum, SlopeOf, BiasOf,
                                          EndingOf, LockSlope

LEMMA CheckpointKeepsSupply ==
  ASSUME Books, SupplyFollows, CheckpointedInTime, Checkpoint
  PROVE  SupplyFollows'
  <1>1. UNCHANGED <<now, block, supply, mapLockedBalances, mapUserPoints, mapSlopeChanges, escrow>>
    BY DEF Checkpoint
  <1>2. /\ LocksTypeOK /\ PointsTypeOK /\ LockShape /\ supply \in Nat /\ now \in Nat
    BY BooksTyped DEF Books
  <1>3. mapSupplyPoints'[Len(mapSupplyPoints')] = WalkedPoints(supply)[WalkSteps]
    BY <1>2, CheckpointSupply
  <1>4. /\ Follows(LastPoint, LastPoint.ts) /\ Scheduled(LastPoint.ts)
        /\ now <= WeekStart(LastPoint.ts) + MAX_STEPS * WEEK
    BY WalkStarts
  <1> DEFINE last == WalkedPoints(supply)[WalkSteps]
  <1>5. Follows(last, now) /\ last.balance = supply
    BY <1>2, <1>4, WalkFollows
  <1>6. SupplyPoint(totalNumPoints)' = last
    <2>1. Len(mapSupplyPoints') \in Nat
      <3>1. Books'
        BY CheckpointKeepsBooks
      <3> QED BY <3>1 DEF Books, PointsTypeOK
    <2> QED BY <1>3, <2>1 DEF SupplyPoint, totalNumPoints
  <1>7. Scheduled(now)
    <2>1. LastPoint.ts \in Nat /\ LastPoint.ts <= now
      BY <1>2, LastPointTyped DEF Point
    <2> QED BY <1>2, <1>4, <2>1 DEF Scheduled, Weeks
  <1>8. last.ts = now /\ \A u \in Voters : mapLockedBalances[u].endTime <= now + MAXTIME
    BY <1>2, <1>5 DEF LockShape, Follows
  <1> HIDE DEF last
  <1> QED BY <1>1, <1>5, <1>6, <1>7, <1>8 DEF SupplyFollows, Follows, Scheduled, Weeks,
                                        SlopeSum, BiasSum, EndingSum, SlopeOf, BiasOf,
                                        EndingOf, LockSlope

LEMMA SupplyFollowsInit == Init => SupplyFollows
  <1> SUFFICES ASSUME Init PROVE SupplyFollows
    OBVIOUS
  <1>1. Books
    BY BooksInit
  <1>2. /\ mapSupplyPoints = <<EmptyPoint(StartTime, StartBlock)>> /\ supply = 0
        /\ mapSlopeChanges = [t \in Weeks |-> 0]
    BY DEF Init
  <1>3. totalNumPoints = 0 /\ SupplyPoint(totalNumPoints) = EmptyPoint(StartTime, StartBlock)
    <2> HIDE DEF EmptyPoint
    <2>1. Len(mapSupplyPoints) = 1 /\ mapSupplyPoints[1] = EmptyPoint(StartTime, StartBlock)
      BY <1>2
    <2> QED BY <2>1 DEF totalNumPoints, SupplyPoint
  <1>4. StartTime \in Nat
    BY VeConstantsAssumption
  <1>5. Scheduled(StartTime)
    <2>1. \A w \in Weeks : w > StartTime => EndingSum(mapLockedBalances, w) = 0
      <3> SUFFICES ASSUME NEW w \in Weeks, w > StartTime
                   PROVE  EndingSum(mapLockedBalances, w) = 0
        OBVIOUS
      <3>1. w \in Nat /\ w > 0
        BY <1>4 DEF Weeks
      <3> QED BY <1>1, <1>3, <3>1, NothingLocked
    <2> QED BY <1>2, <2>1 DEF Scheduled
  <1>6. Follows(EmptyPoint(StartTime, StartBlock), StartTime)
    BY <1>1, <1>3, <1>4, NothingLocked DEF Follows, EmptyPoint
  <1>7. \A u \in Voters : mapLockedBalances[u].endTime <= StartTime + MAXTIME
    BY <1>4, VeConstantsAssumption DEF Init, NoLock
  <1> QED BY <1>2, <1>3, <1>5, <1>6, <1>7 DEF SupplyFollows, EmptyPoint

LEMMA SupplyFollowsNext ==
  Books /\ SupplyFollows /\ CheckpointedInTime /\ [Next]_vars => SupplyFollows'
  <1> SUFFICES ASSUME Books, SupplyFollows, CheckpointedInTime, [Next]_vars
               PROVE  SupplyFollows'
    OBVIOUS
  <1>1. ASSUME NEW u \in Voters, Transaction(u) PROVE SupplyFollows'
    <2>1. PICK new \in Locks : LockChange(u, new)
      BY <1>1, TransactionChanges
    <2> QED BY <2>1, LockChangeKeepsSupply
  <1>2. CASE Checkpoint
    BY <1>2, CheckpointKeepsSupply
  <1>3. ASSUME UNCHANGED <<supply, mapLockedBalances, mapSupplyPoints, mapSlopeChanges>>
        PROVE  SupplyFollows'
    BY <1>3 DEF SupplyFollows, Follows, Scheduled, SupplyPoint, totalNumPoints, Weeks,
                SlopeSum, BiasSum, EndingSum, SlopeOf, BiasOf, EndingOf, LockSlope
  <1>4. CASE NextBlock
    BY <1>3, <1>4 DEF NextBlock
  <1>5. CASE UNCHANGED vars
    BY <1>3, <1>5 DEF vars
  <1> QED BY <1>1, <1>2, <1>4, <1>5 DEF Next

LEMMA SupplyFollowsAlways == Spec /\ []CheckpointedInTime => []SupplyFollows
  <1>1. Books /\ SupplyFollows /\ CheckpointedInTime /\ [Next]_vars => SupplyFollows'
    BY SupplyFollowsNext
  <1> QED BY <1>1, SupplyFollowsInit, BooksAlways, PTL DEF Spec

\* What VoteWeighting and the governor read is right at any time, for any locks, as long as
\* somebody sends a transaction every MAX_STEPS weeks: the slope of the last point of an
\* account is that of its lock, and the supply, the balance of its last point and the tokens
\* held are what the locks hold (getLastUserPoint, totalSupply, supply).  All but the
\* balance of the last point hold without that condition.
THEOREM VeOLASReadersSeeTheLocks ==
  /\ Spec => [](/\ UserPointsFollow
                /\ supply = AmountSum(mapLockedBalances) /\ escrow = supply)
  /\ Spec /\ []CheckpointedInTime => []ReadersSeeTheLocks
  <1>1. Books => /\ UserPointsFollow
                 /\ supply = AmountSum(mapLockedBalances) /\ escrow = supply
    BY DEF Books
  <1>2. Books /\ SupplyFollows => ReadersSeeTheLocks
    BY DEF Books, SupplyFollows, ReadersSeeTheLocks, UserPointsFollow, LockSlope, AmountSum,
           SumOver
  <1> QED BY <1>1, <1>2, BooksAlways, SupplyFollowsAlways, PTL

(***************************************************************************)
(* Votes add up                                                            *)
(***************************************************************************)

\* The voting power of an account, by its last point, is what its lock is worth at that time.
LEMMA VotesOfLock ==
  ASSUME Books, NEW u \in Voters, NEW t \in Nat
  PROVE  BalanceOfLocked(u, t) = BiasOf(mapLockedBalances[u], t)
  <1> DEFINE pt == LastUserPoint(u)
             k == LockSlope(mapLockedBalances[u])
             end == mapLockedBalances[u].endTime
  <1>1. /\ pt.slope = k /\ pt.bias = BiasOf(mapLockedBalances[u], pt.ts) /\ pt.ts <= now
        /\ mapLockedBalances[u].amount > 0 => pt.ts < end
    BY DEF Books, UserPointsFollow
  <1>2. /\ end \in Nat /\ now \in Nat /\ k \in Nat /\ mapLockedBalances[u].amount \in Nat
        /\ mapLockedBalances[u].amount = 0 <=> end = 0
    <2>1. mapLockedBalances[u] \in Locks
      BY BooksTyped
    <2> QED BY <2>1, BooksTyped, LockSlopeTyped DEF Books, LockShape
  <1>3. pt.ts \in Nat
    <2>1. CASE mapUserPoints[u] = <<>>
      BY <2>1 DEF LastUserPoint, EmptyPoint
    <2>2. CASE mapUserPoints[u] # <<>>
      <3>1. mapUserPoints[u] \in Seq(Point)
        BY DEF Books, UserPointsTypeOK
      <3>2. LastUserPoint(u) \in Point
        BY <2>2, <3>1 DEF LastUserPoint
      <3> QED BY <3>2 DEF Point
    <2> QED BY <2>1, <2>2
  <1>4. BalanceOfLocked(u, t) = PositivePart(pt.bias - pt.slope * (t - pt.ts))
    BY DEF BalanceOfLocked
  <1>5. /\ BiasOf(mapLockedBalances[u], t) = IF end > t THEN k * (end - t) ELSE 0
        /\ BiasOf(mapLockedBalances[u], pt.ts) = IF end > pt.ts THEN k * (end - pt.ts) ELSE 0
    BY DEF BiasOf
  <1>6. CASE mapLockedBalances[u].amount = 0
    <2>1. k = 0 /\ end = 0
      BY <1>2, <1>6, VeConstantsAssumption DEF LockSlope
    <2>2. 0 * (t - pt.ts) = 0
      BY <1>3
    <2> HIDE DEF pt, k, end
    <2>3. pt.bias - pt.slope * (t - pt.ts) = 0
      BY <1>1, <1>3, <1>5, <2>1, <2>2
    <2> QED BY <1>4, <1>5, <2>1, <2>3 DEF PositivePart
  <1>7. CASE mapLockedBalances[u].amount # 0
    <2>1. pt.ts < end
      BY <1>1, <1>2, <1>7
    <2> DEFINE s == pt.ts
    <2>2. s \in Nat /\ k * (end - s) - k * (t - s) = k * (end - t)
      BY <1>2, <1>3
    <2> HIDE DEF pt, k, end
    <2>3. pt.bias - pt.slope * (t - pt.ts) = k * (end - t)
      BY <1>1, <1>5, <2>1, <2>2, <1>2
    <2>4. end > t => k * (end - t) >= 0
      <3>1. end > t => end - t \in Nat
        BY <1>2
      <3>2. \A m \in Nat : k * m >= 0
        BY <1>2
      <3> QED BY <3>1, <3>2
    <2>5. ~(end > t) => k * (end - t) <= 0
      <3>1. ~(end > t) => t - end \in Nat
        BY <1>2
      <3>2. \A m \in Nat : k * m >= 0
        BY <1>2
      <3>3. k * (end - t) = 0 - k * (t - end) /\ k * (t - end) \in Int
        BY <1>2
      <3> QED BY <3>1, <3>2, <3>3
    <2>6. k * (end - t) \in Int
      BY <1>2
    <2> QED BY <1>4, <1>5, <2>3, <2>4, <2>5, <2>6 DEF PositivePart
  <1> QED BY <1>6, <1>7

\* Step i of the walk of _supplyLockedAt from point to time t.
ViewTo(p, i, point, t) ==
  LET r == StepTime(point.ts, i, t)
      bias == p.bias - p.slope * (r - p.ts)
  IN  IF r = t THEN [p EXCEPT !.bias = bias]
      ELSE [p EXCEPT !.bias = bias, !.slope = @ + mapSlopeChanges[r], !.ts = r]

LEMMA ViewToTyped ==
  ASSUME LocksTypeOK, PointsTypeOK, NEW point \in Point, NEW t \in 0 .. MaxTime + MAXTIME,
         point.ts <= t, NEW i \in 1 .. StepsTo(point.ts, t), NEW p \in Point
  PROVE  ViewTo(p, i, point, t) \in Point
  <1> DEFINE r == StepTime(point.ts, i, t)
             bias == p.bias - p.slope * (r - p.ts)
             slope == p.slope + mapSlopeChanges[r]
  <1>1. /\ t \in Nat /\ point.ts \in Nat /\ p.bias \in Int /\ p.slope \in Int /\ p.ts \in Nat
    BY DEF Point
  <1>2. r \in Nat /\ r <= t
    BY <1>1, WalkStep
  <1>3. ASSUME r # t PROVE r \in Weeks
    <2>1. r = WeekStart(point.ts) + i * WEEK
      BY <1>3 DEF StepTime
    <2>2. r % WEEK = 0
      <3> DEFINE a == point.ts \div WEEK
      <3>1. a \in Nat /\ i \in Nat
        BY <1>1, VeConstantsAssumption
      <3>2. r = (a + i) * WEEK /\ a + i \in Nat
        BY <2>1, <3>1, VeConstantsAssumption DEF WeekStart
      <3> QED BY <3>2, WeekMultiple
    <2>3. r \in 0 .. MaxTime + MAXTIME
      BY <1>1, <1>2, VeConstantsAssumption
    <2> QED BY <2>2, <2>3 DEF Weeks
  <1>4. bias \in Int /\ (r # t => slope \in Int)
    BY <1>1, <1>2, <1>3 DEF PointsTypeOK
  <1>5. ViewTo(p, i, point, t) = IF r = t THEN [p EXCEPT !.bias = bias]
                                 ELSE [p EXCEPT !.bias = bias, !.slope = slope, !.ts = r]
    BY DEF ViewTo
  <1> HIDE DEF r, bias, slope
  <1> QED BY <1>1, <1>2, <1>4, <1>5 DEF Point

LEMMA SupplyLockedAtDef ==
  ASSUME LocksTypeOK, PointsTypeOK, NEW point \in Point, NEW t \in 0 .. MaxTime + MAXTIME,
         point.ts <= t
  PROVE  \E pt \in [0 .. StepsTo(point.ts, t) -> Point] :
           /\ pt[0] = point
           /\ \A i \in 1 .. StepsTo(point.ts, t) : pt[i] = ViewTo(pt[i - 1], i, point, t)
           /\ SupplyLockedAt(point, t) = PositivePart(pt[StepsTo(point.ts, t)].bias)
  <1> DEFINE n == StepsTo(point.ts, t)
             step == [i \in 1 .. n |-> [p \in Point |-> ViewTo(p, i, point, t)]]
             Walks(f) == f = [i \in 0 .. n |-> IF i = 0 THEN point
                                               ELSE ViewTo(f[i - 1], i, point, t)]
  <1>1. n \in Nat \ {0}
    <2>1. t \in Nat /\ point.ts \in Nat
      BY DEF Point
    <2> QED BY <2>1, WalkTimes
  <1>0. \A i \in 1 .. n, p \in Point : ViewTo(p, i, point, t) \in Point
    BY ViewToTyped
  <1> HIDE DEF n
  <1>2. \A i \in 1 .. n, p \in Point : step[i][p] = ViewTo(p, i, point, t)
    OBVIOUS
  <1>3. step \in [1 .. n -> [Point -> Point]]
    BY <1>0
  <1> HIDE DEF step
  <1>4. PICK f \in [0 .. n -> Point] :
          f[0] = point /\ \A i \in 1 .. n : f[i] = step[i][f[i - 1]]
    <2>1. \E f \in [0 .. n -> Point] : IsWalk(f, point, step, n)
      BY <1>1, <1>3, WalkExists
    <2> QED BY <2>1 DEF IsWalk
  <1>5. ASSUME NEW i \in 0 .. n
        PROVE  f[i] = IF i = 0 THEN point ELSE ViewTo(f[i - 1], i, point, t)
    <2>1. CASE i = 0
      BY <2>1, <1>4
    <2>2. CASE i # 0
      <3>1. i \in 1 .. n /\ i - 1 \in 0 .. n
        BY <1>1, <2>2
      <3>2. f[i - 1] \in Point
        BY <3>1, <1>4
      <3> QED BY <2>2, <3>1, <3>2, <1>2, <1>4
    <2> QED BY <2>1, <2>2
  <1>6. Walks(f)
    <2>1. f = [i \in 0 .. n |-> f[i]]
      BY <1>4
    <2> QED BY <2>1, <1>5
  <1> DEFINE pt == CHOOSE g : Walks(g)
  <1>7. Walks(pt)
    <2> HIDE DEF Walks
    <2> QED BY <1>6
  <1>8. SupplyLockedAt(point, t) = PositivePart(pt[n].bias)
    BY DEF SupplyLockedAt, ViewTo, n
  <1> HIDE DEF pt
  <1>9. pt[0] = point /\ \A i \in 1 .. n : pt[i] = ViewTo(pt[i - 1], i, point, t)
    BY <1>1, <1>7
  <1>10. \A i \in 0 .. n : pt[i] \in Point
    <2> DEFINE T == {i \in 0 .. n : pt[i] \in Point}
    <2>1. n \in Nat /\ 0 \in T
      BY <1>1, <1>9
    <2>2. ASSUME NEW i \in 0 .. n, i \in T, i < n PROVE i + 1 \in T
      <3>1. i + 1 \in 1 .. n /\ i + 1 \in 0 .. n /\ (i + 1) - 1 = i /\ pt[i] \in Point
        BY <2>1, <2>2
      <3>2. pt[i + 1] = ViewTo(pt[i], i + 1, point, t)
        BY <3>1, <1>9
      <3> QED BY <3>1, <3>2, <1>0
    <2> HIDE DEF T
    <2>4. \A i \in 0 .. n : i \in T
      BY <2>1, <2>2, IntervalInduction
    <2> QED BY <2>4 DEF T
  <1>11. pt \in [0 .. n -> Point]
    BY <1>7, <1>10
  <1> QED BY <1>8, <1>9, <1>11 DEF n

\* One step of the walk, from a point that accounts for all locks: the bias it ends with is
\* right, and so is the slope unless it is the last step.
LEMMA ViewStep ==
  ASSUME LocksTypeOK, PointsTypeOK, LockShape, NEW point \in Point, Scheduled(point.ts),
         NEW t \in 0 .. MaxTime + MAXTIME, point.ts <= t,
         NEW i \in 1 .. StepsTo(point.ts, t),
         NEW p \in Point, Follows(p, FromTime(point.ts, i, t))
  PROVE  LET r == StepTime(point.ts, i, t)
             q == ViewTo(p, i, point, t)
         IN  q.bias = BiasSum(mapLockedBalances, r) /\ (r # t => Follows(q, r))
  <1> DEFINE from == point.ts
             s == FromTime(from, i, t)
             r == StepTime(from, i, t)
             q == ViewTo(p, i, point, t)
             locks == mapLockedBalances
  <1>1. /\ t \in Nat /\ from \in Nat /\ from <= t /\ t <= MaxTime + MAXTIME
        /\ locks \in [Voters -> Locks] /\ p.ts = s
        /\ p.slope = SlopeSum(locks, s) /\ p.bias = BiasSum(locks, s)
    BY DEF Point, LocksTypeOK, Follows
  <1>2. /\ s \in Nat /\ r \in Nat /\ from <= s /\ s <= r /\ r <= t
        /\ \A e \in Nat : e % WEEK = 0 /\ s < e => r <= e
        /\ s = r => from = t
    BY <1>1, WalkStep
  <1>3. r # t => r % WEEK = 0
    <2> SUFFICES ASSUME r # t PROVE r % WEEK = 0
      OBVIOUS
    <2>1. r = WeekStart(from) + i * WEEK
      BY DEF StepTime
    <2> DEFINE a == from \div WEEK
    <2>2. a \in Nat /\ i \in Nat
      BY <1>1, VeConstantsAssumption
    <2>3. r = (a + i) * WEEK /\ a + i \in Nat
      BY <2>1, <2>2, VeConstantsAssumption DEF WeekStart
    <2> QED BY <2>3, WeekMultiple
  <1>4. /\ q.bias = BiasSum(locks, s) - SlopeSum(locks, s) * (r - s)
        /\ r # t => q.ts = r /\ q.slope = SlopeSum(locks, s) + mapSlopeChanges[r]
    <2> HIDE DEF r, s, locks
    <2>1. q = IF r = t THEN [p EXCEPT !.bias = p.bias - p.slope * (r - p.ts)]
              ELSE [p EXCEPT !.bias = p.bias - p.slope * (r - p.ts),
                             !.slope = @ + mapSlopeChanges[r], !.ts = r]
      BY DEF ViewTo, r
    <2> QED BY <2>1, <1>1 DEF Point
  <1>5. BiasSum(locks, s) \in Nat /\ SlopeSum(locks, s) \in Nat
    BY <1>1, <1>2, LockSumsTyped
  <1> HIDE DEF s, r, q, locks
  <1>6. CASE s < r
    <2>1. \A u \in Voters : s < locks[u].endTime => r <= locks[u].endTime
      <3> TAKE u \in Voters
      <3>1. locks[u].endTime \in Nat /\ locks[u].endTime % WEEK = 0
        BY <1>1 DEF LockShape, Weeks, locks, Locks
      <3> QED BY <3>1, <1>2
    <2>2. /\ BiasSum(locks, r) = BiasSum(locks, s) - SlopeSum(locks, s) * (r - s)
          /\ SlopeSum(locks, r) = SlopeSum(locks, s) - EndingSum(locks, r)
      BY <1>1, <1>2, <1>6, <2>1, SumsDecay
    <2>3. EndingSum(locks, r) \in Nat
      BY <1>1, <1>2, LockSumsTyped
    <2>4. r # t => mapSlopeChanges[r] = 0 - EndingSum(locks, r)
      <3> SUFFICES ASSUME r # t PROVE mapSlopeChanges[r] = 0 - EndingSum(locks, r)
        OBVIOUS
      <3>1. r \in Weeks /\ r > from
        BY <1>1, <1>2, <1>3, <1>6, VeConstantsAssumption DEF Weeks
      <3> QED BY <3>1 DEF Scheduled, locks
    <2>5. r # t => q.slope = SlopeSum(locks, r)
      BY <1>4, <1>5, <2>2, <2>3, <2>4
    <2> QED BY <1>4, <2>2, <2>5 DEF Follows, q, r, locks
  <1>7. CASE s = r
    <2>1. r = t
      BY <1>1, <1>2, <1>7
    <2>2. SlopeSum(locks, s) * (r - s) = 0
      <3>1. r - s = 0
        BY <1>2, <1>7
      <3> QED BY <3>1, <1>5
    <2>3. q.bias = BiasSum(locks, r)
      BY <1>4, <1>5, <1>7, <2>2
    <2> QED BY <2>1, <2>3 DEF q, r, locks
  <1> QED BY <1>2, <1>6, <1>7

\* The total at a time from a point on that accounts for all locks is what the locks are
\* worth then: a walk that is cut off has passed the end of every lock.
LEMMA TotalOfLocks ==
  ASSUME Books, NEW point \in Point, Follows(point, point.ts), Scheduled(point.ts),
         \A u \in Voters : mapLockedBalances[u].endTime <= point.ts + MAXTIME,
         NEW t \in point.ts .. MaxTime + MAXTIME
  PROVE  SupplyLockedAt(point, t) = BiasSum(mapLockedBalances, t)
  <1> DEFINE from == point.ts
             locks == mapLockedBalances
             n == StepsTo(from, t)
  <1>1. /\ LocksTypeOK /\ PointsTypeOK /\ LockShape /\ point \in Point
        /\ now \in Nat /\ locks \in [Voters -> Locks]
        /\ Follows(point, from) /\ Scheduled(from)
    BY LastPointTyped DEF Books, LocksTypeOK
  <1>2. t \in Nat /\ t \in 0 .. MaxTime + MAXTIME /\ from \in Nat /\ from <= t
    BY <1>1, VeConstantsAssumption DEF Point
  <1>3. PICK pt \in [0 .. n -> Point] :
          /\ pt[0] = point
          /\ \A i \in 1 .. n : pt[i] = ViewTo(pt[i - 1], i, point, t)
          /\ SupplyLockedAt(point, t) = PositivePart(pt[n].bias)
    BY <1>1, <1>2, SupplyLockedAtDef
  <1>4. /\ n \in Nat \ {0}
        /\ \A i \in 1 .. n - 1 : StepTime(from, i, t) < t
        /\ StepTime(from, n, t) = IF t <= WeekStart(from) + MAX_STEPS * WEEK THEN t
                                  ELSE WeekStart(from) + MAX_STEPS * WEEK
    BY <1>2, WalkTimes
  <1> DEFINE r == StepTime(from, n, t)
  <1>5. ASSUME NEW i \in 1 .. n, NEW p \in Point, Follows(p, FromTime(from, i, t))
        PROVE  /\ ViewTo(p, i, point, t).bias = BiasSum(locks, StepTime(from, i, t))
               /\ StepTime(from, i, t) # t => Follows(ViewTo(p, i, point, t), StepTime(from, i, t))
    BY <1>1, <1>2, <1>5, ViewStep
  <1> HIDE DEF from, n, locks
  <1> DEFINE T == {i \in 0 .. n : i < n => Follows(pt[i], FromTime(from, i + 1, t))}
  <1>6. \A i \in 0 .. n : i \in T
    <2>1. n \in Nat /\ 0 \in T
      BY <1>1, <1>3, <1>4 DEF FromTime
    <2>2. ASSUME NEW i \in 0 .. n, i \in T, i < n PROVE i + 1 \in T
      <3>1. i + 1 \in 1 .. n /\ i + 1 \in 0 .. n /\ (i + 1) - 1 = i /\ pt[i] \in Point
        BY <2>1, <2>2, <1>3
      <3>2. CASE i + 1 < n
        <4>1. StepTime(from, i + 1, t) # t
          <5>1. i + 1 \in 1 .. n - 1 /\ t \in Nat
            BY <2>1, <3>1, <3>2, <1>2
          <5>2. StepTime(from, i + 1, t) < t
            BY <5>1, <1>4
          <5>3. ~(t < t)
            BY <1>2
          <5> QED BY <5>2, <5>3
        <4>2. Follows(pt[i + 1], StepTime(from, i + 1, t))
          BY <2>2, <3>1, <4>1, <1>3, <1>5
        <4>3. FromTime(from, (i + 1) + 1, t) = StepTime(from, i + 1, t)
          <5>1. (i + 1) + 1 # 1 /\ ((i + 1) + 1) - 1 = i + 1
            BY <3>1
          <5> QED BY <5>1 DEF FromTime
        <4> QED BY <3>1, <4>2, <4>3
      <3>3. CASE ~(i + 1 < n)
        BY <3>1, <3>3
      <3> QED BY <3>2, <3>3
    <2> HIDE DEF T
    <2> QED BY <2>1, <2>2, IntervalInduction
  <1>7. pt[n].bias = BiasSum(locks, r)
    <2>1. n - 1 \in T /\ n - 1 < n /\ n \in 1 .. n /\ (n - 1) + 1 = n /\ n - 1 \in 0 .. n
      BY <1>4, <1>6
    <2>2. Follows(pt[n - 1], FromTime(from, n, t)) /\ pt[n - 1] \in Point
      BY <2>1, <1>3
    <2> QED BY <2>1, <2>2, <1>3, <1>5
  <1>8. BiasSum(locks, r) = BiasSum(locks, t)
    <2>1. CASE t <= WeekStart(from) + MAX_STEPS * WEEK
      BY <2>1, <1>4
    <2>2. CASE ~(t <= WeekStart(from) + MAX_STEPS * WEEK)
      <3>1. /\ WeekStart(from) \in Nat /\ from < WeekStart(from) + WEEK
        BY <1>2, WeekStartProperties
      <3>2. MAXTIME + WEEK <= MAX_STEPS * WEEK /\ MAX_STEPS * WEEK \in Int /\ WEEK \in Nat
            /\ MAXTIME \in Nat
        <4>1. MAX_STEPS * WEEK \in Int
          BY VeConstantsAssumption, WeekOrder
        <4> QED BY <4>1, VeConstantsAssumption
      <3>3. r = WeekStart(from) + MAX_STEPS * WEEK /\ r \in Nat /\ r < t /\ from + MAXTIME < r
        <4>1. r = WeekStart(from) + MAX_STEPS * WEEK
          BY <2>2, <1>4
        <4> HIDE DEF r
        <4> QED BY <2>2, <3>1, <3>2, <4>1, <1>2
      <3>4. \A u \in Voters : /\ locks[u].endTime \in Nat
                              /\ locks[u].endTime <= from + MAXTIME
        BY <1>1 DEF from, locks, Locks
      <3> HIDE DEF r
      <3>5. \A u \in Voters : /\ [v \in Voters |-> BiasOf(locks[v], t)][u] = 0
                              /\ [v \in Voters |-> BiasOf(locks[v], r)][u] = 0
        <4>1. \A u \in Voters : ~(locks[u].endTime > r) /\ ~(locks[u].endTime > t)
          BY <3>2, <3>3, <3>4, <1>2
        <4> QED BY <4>1 DEF BiasOf
      <3>6. IsFiniteSet(Voters)
        BY VeConstantsAssumption
      <3>7. BiasSum(locks, t) = 0
        BY <3>5, <3>6, SumZero DEF BiasSum
      <3>8. BiasSum(locks, r) = 0
        BY <3>5, <3>6, SumZero DEF BiasSum
      <3> QED BY <3>7, <3>8
    <2> QED BY <2>1, <2>2
  <1>9. BiasSum(locks, t) \in Nat
    BY <1>1, <1>2, LockSumsTyped
  <1> QED BY <1>3, <1>7, <1>8, <1>9 DEF PositivePart, locks

\* Quorums are taken of what can be voted: now and at every later time the voting powers of
\* the accounts add up to the total, for any accounts, amounts and lock lengths and any order
\* of deposits, extensions, ends and withdrawals, as long as no MAX_STEPS weeks go by
\* without a transaction (getVotes, totalSupplyLockedAtT and _checkpoint).
THEOREM VeOLASVotesAddUp == Spec /\ []CheckpointedInTime => []VotesAddUp
  <1>1. Books /\ SupplyFollows => VotesAddUp
    <2> SUFFICES ASSUME Books, SupplyFollows, NEW t \in now .. MaxTime + MAXTIME
                 PROVE  SumFunctionOnSet([u \in Voters |-> BalanceOfLocked(u, t)], Voters) =
                          TotalSupplyLockedAtT(t)
      BY DEF VotesAddUp, SumOver
    <2>1. t \in Nat /\ t >= now
      BY BooksTyped
    <2>2. [u \in Voters |-> BalanceOfLocked(u, t)] =
            [u \in Voters |-> BiasOf(mapLockedBalances[u], t)]
      BY <2>1, VotesOfLock
    <2>3. TotalSupplyLockedAtT(t) = BiasSum(mapLockedBalances, t)
      <3> DEFINE point == SupplyPoint(totalNumPoints)
      <3>1. point \in Point /\ point.ts <= now /\ now \in Nat
        BY LastPointTyped DEF Books, PointsTypeOK
      <3>2. t \in point.ts .. MaxTime + MAXTIME
        BY <2>1, <3>1, VeConstantsAssumption DEF Point
      <3> HIDE DEF point
      <3>3. SupplyLockedAt(point, t) = BiasSum(mapLockedBalances, t)
        BY <3>1, <3>2, TotalOfLocks DEF SupplyFollows, point
      <3> QED BY <3>3 DEF TotalSupplyLockedAtT, point
    <2> QED BY <2>2, <2>3 DEF BiasSum
  <1> QED BY <1>1, BooksAlways, SupplyFollowsAlways, PTL

(***************************************************************************)
(* The search of a history                                                 *)
(***************************************************************************)

\* The points of a history are in the order of their blocks.
Ordered(points) ==
  \A i, j \in 1 .. Len(points) : i <= j => points[i].blockNumber <= points[j].blockNumber

LEMMA BlocksTyped ==
  ASSUME NEW points \in Seq(Point)
  PROVE  \A i \in 1 .. Len(points) : points[i] \in Point /\ points[i].blockNumber \in Nat
  <1> TAKE i \in 1 .. Len(points)
  <1>1. points[i] \in Point
    BY ElementOfSeq
  <1> QED BY <1>1 DEF Point

\* The last point no later than block b, or the first one.
IsLastBefore(points, b, r) ==
  /\ r \in 0 .. Len(points) - 1
  /\ points[r + 1].blockNumber <= b \/ r = 0
  /\ \A j \in r + 1 .. Len(points) - 1 : points[j + 1].blockNumber > b

LEMMA LastBeforeExists ==
  ASSUME NEW points \in Seq(Point), points # <<>>, NEW b \in Nat
  PROVE  \E r : IsLastBefore(points, b, r)
  <1>1. PICK n \in Nat : n = Len(points) - 1
    <2>1. Len(points) \in Nat /\ Len(points) # 0
      BY LenProperties
    <2> QED BY <2>1
  <1> DEFINE Below(k) == \E r \in 0 .. k : /\ points[r + 1].blockNumber <= b \/ r = 0
                                           /\ \A j \in r + 1 .. k : points[j + 1].blockNumber > b
             T == {k \in 0 .. n : Below(k)}
  <1>2. 0 \in T
    <2>1. 0 \in 0 .. 0 /\ \A j \in 0 + 1 .. 0 : points[j + 1].blockNumber > b
      OBVIOUS
    <2>2. Below(0)
      BY <2>1
    <2> QED BY <1>1, <2>2
  <1>3. ASSUME NEW k \in 0 .. n, k \in T, k < n PROVE k + 1 \in T
    <2>1. PICK l \in 1 .. n : l = k + 1
      BY <1>1, <1>3
    <2>2. PICK r \in 0 .. k : /\ points[r + 1].blockNumber <= b \/ r = 0
                              /\ \A j \in r + 1 .. k : points[j + 1].blockNumber > b
      BY <1>3
    <2>3. points[l + 1].blockNumber \in Nat
      <3>1. l + 1 \in 1 .. Len(points)
        BY <1>1, <2>1, LenProperties
      <3>2. points[l + 1] \in Point
        BY <3>1, ElementOfSeq
      <3> QED BY <3>2 DEF Point
    <2>4. Below(l)
      <3>1. CASE points[l + 1].blockNumber <= b
        <4>1. l \in 0 .. l /\ \A j \in l + 1 .. l : points[j + 1].blockNumber > b
          BY <2>1
        <4> QED BY <3>1, <4>1
      <3>2. CASE ~(points[l + 1].blockNumber <= b)
        <4>1. points[l + 1].blockNumber > b
          BY <2>3, <3>2
        <4>2. \A j \in r + 1 .. l : j \in r + 1 .. k \/ j = l
          BY <2>1
        <4>3. \A j \in r + 1 .. l : points[j + 1].blockNumber > b
          BY <2>2, <4>1, <4>2
        <4>4. r \in 0 .. l
          BY <2>1
        <4> QED BY <2>2, <4>3, <4>4
      <3> QED BY <3>1, <3>2
    <2> HIDE DEF Below
    <2> QED BY <2>1, <2>4
  <1> HIDE DEF T
  <1>4. \A k \in 0 .. n : k \in T
    BY <1>2, <1>3, IntervalInduction
  <1>5. Below(n)
    BY <1>4 DEF T
  <1> QED BY <1>1, <1>5 DEF IsLastBefore

LEMMA LastBeforeUnique ==
  ASSUME NEW points, NEW b \in Nat, Len(points) \in Nat, NEW r, NEW s,
         IsLastBefore(points, b, r), IsLastBefore(points, b, s),
         \A i \in 1 .. Len(points) : points[i].blockNumber \in Nat
  PROVE  r = s
  <1>1. ASSUME NEW x \in 0 .. Len(points) - 1, NEW y \in 0 .. Len(points) - 1, x < y,
               IsLastBefore(points, b, x), IsLastBefore(points, b, y)
        PROVE  FALSE
    <2>1. y \in x + 1 .. Len(points) - 1 /\ y # 0 /\ y + 1 \in 1 .. Len(points)
      BY <1>1
    <2>2. points[y + 1].blockNumber > b /\ points[y + 1].blockNumber <= b
      BY <1>1, <2>1 DEF IsLastBefore
    <2>3. points[y + 1].blockNumber \in Nat
      BY <2>1
    <2> QED BY <2>2, <2>3
  <1>2. r \in 0 .. Len(points) - 1 /\ s \in 0 .. Len(points) - 1
    BY DEF IsLastBefore
  <1>3. ~(r < s) /\ ~(s < r)
    BY <1>1, <1>2
  <1> QED BY <1>2, <1>3

\* Up to that point the blocks are no later, after it they are.
LEMMA LastBeforeSplits ==
  ASSUME NEW points \in Seq(Point), Ordered(points), NEW b \in Nat, NEW r,
         IsLastBefore(points, b, r), NEW mid \in 1 .. Len(points) - 1
  PROVE  points[mid + 1].blockNumber <= b <=> mid <= r
  <1>1. Len(points) \in Nat /\ r \in 0 .. Len(points) - 1
    BY LenProperties DEF IsLastBefore
  <1>2. mid + 1 \in 1 .. Len(points) /\ r + 1 \in 1 .. Len(points)
    BY <1>1
  <1>3. points[mid + 1].blockNumber \in Nat /\ points[r + 1].blockNumber \in Nat
    BY <1>2, BlocksTyped
  <1>4. CASE mid <= r
    <2>1. r # 0 /\ mid + 1 <= r + 1
      BY <1>1, <1>4
    <2>2. points[mid + 1].blockNumber <= points[r + 1].blockNumber
      BY <1>2, <2>1 DEF Ordered
    <2>3. points[r + 1].blockNumber <= b
      BY <2>1 DEF IsLastBefore
    <2> QED BY <1>3, <1>4, <2>2, <2>3
  <1>5. CASE ~(mid <= r)
    <2>1. mid \in r + 1 .. Len(points) - 1
      BY <1>1, <1>5
    <2>2. points[mid + 1].blockNumber > b
      BY <2>1 DEF IsLastBefore
    <2> QED BY <1>3, <1>5, <2>2
  <1> QED BY <1>4, <1>5


\* The points between which the search may stand.
Ranges(points) == [lo : 0 .. Len(points) - 1, hi : 0 .. Len(points) - 1]

LEMMA HalvedTyped ==
  ASSUME NEW points \in Seq(Point), points # <<>>, NEW b \in Nat, NEW q \in Ranges(points)
  PROVE  /\ Halved(points, b, q) \in Ranges(points)
         /\ q.lo >= q.hi => Halved(points, b, q) = q
         /\ q.lo < q.hi => \E mid \in q.lo + 1 .. q.hi :
              IF points[mid + 1].blockNumber <= b
              THEN Halved(points, b, q).lo = mid /\ Halved(points, b, q).hi = q.hi
              ELSE Halved(points, b, q).lo = q.lo /\ Halved(points, b, q).hi = mid - 1
  <1>1. PICK n \in Nat : n = Len(points) - 1
    BY LenProperties, EmptySeq
  <1>2. PICK lo \in 0 .. n, hi \in 0 .. n : lo = q.lo /\ hi = q.hi
    BY <1>1 DEF Ranges
  <1>3. CASE lo >= hi
    BY <1>2, <1>3 DEF Halved
  <1>4. CASE lo < hi
    <2>1. PICK mid \in Nat : mid = (lo + hi + 1) \div 2
      OBVIOUS
    <2>2. mid \in lo + 1 .. hi
      <3>1. 2 * mid <= lo + hi + 1 /\ lo + hi + 1 < 2 * mid + 2
        BY <2>1
      <3> QED BY <1>4, <3>1
    <2>3. mid \in 0 .. n /\ mid - 1 \in 0 .. n
      BY <2>2
    <2>4. Halved(points, b, q) = IF points[mid + 1].blockNumber <= b THEN [q EXCEPT !.lo = mid]
                                 ELSE [q EXCEPT !.hi = mid - 1]
      BY <1>2, <1>4, <2>1 DEF Halved
    <2>5. CASE points[mid + 1].blockNumber <= b
      <3>1. /\ Halved(points, b, q) \in Ranges(points)
            /\ Halved(points, b, q).lo = mid /\ Halved(points, b, q).hi = q.hi
        BY <1>1, <2>3, <2>4, <2>5 DEF Ranges
      <3> QED BY <1>2, <1>4, <2>2, <2>5, <3>1
    <2>6. CASE ~(points[mid + 1].blockNumber <= b)
      <3>1. /\ Halved(points, b, q) \in Ranges(points)
            /\ Halved(points, b, q).lo = q.lo /\ Halved(points, b, q).hi = mid - 1
        BY <1>1, <2>3, <2>4, <2>6 DEF Ranges
      <3> QED BY <1>2, <1>4, <2>2, <2>6, <3>1
    <2> QED BY <2>5, <2>6
  <1> QED BY <1>2, <1>3, <1>4

\* The search as a sequence of rounds.
LEMMA SearchRounds ==
  ASSUME NEW points \in Seq(Point), points # <<>>, NEW b \in Nat
  PROVE  \E range \in [0 .. Len(points) -> Ranges(points)] :
           /\ range[0] = [lo |-> 0, hi |-> Len(points) - 1]
           /\ \A i \in 1 .. Len(points) : range[i] = Halved(points, b, range[i - 1])
           /\ FindPointByBlock(points, b) = range[Len(points)].lo
  <1> DEFINE n == Len(points)
             whole == [lo |-> 0, hi |-> n - 1]
             step == [i \in 1 .. n |-> [q \in Ranges(points) |-> Halved(points, b, q)]]
             Searches(f) == f = [i \in 0 .. n |-> IF i = 0 THEN whole
                                                   ELSE Halved(points, b, f[i - 1])]
  <1>1. n \in Nat /\ whole \in Ranges(points)
    <2>1. n \in Nat /\ n # 0
      BY LenProperties, EmptySeq
    <2>2. 0 \in 0 .. n - 1 /\ n - 1 \in 0 .. n - 1
      BY <2>1
    <2> QED BY <2>1, <2>2 DEF Ranges
  <1> HIDE DEF n, whole
  <1>2. \A i \in 1 .. n, q \in Ranges(points) : step[i][q] = Halved(points, b, q)
    OBVIOUS
  <1>3. step \in [1 .. n -> [Ranges(points) -> Ranges(points)]]
    BY HalvedTyped
  <1> HIDE DEF step
  <1>4. PICK f \in [0 .. n -> Ranges(points)] :
          f[0] = whole /\ \A i \in 1 .. n : f[i] = step[i][f[i - 1]]
    <2>1. \E f \in [0 .. n -> Ranges(points)] : IsWalk(f, whole, step, n)
      BY <1>1, <1>3, WalkExists
    <2> QED BY <2>1 DEF IsWalk
  <1>5. ASSUME NEW i \in 0 .. n
        PROVE  f[i] = IF i = 0 THEN whole ELSE Halved(points, b, f[i - 1])
    <2>1. CASE i = 0
      BY <2>1, <1>4
    <2>2. CASE i # 0
      <3>1. i \in 1 .. n /\ i - 1 \in 0 .. n
        BY <1>1, <2>2
      <3>2. f[i - 1] \in Ranges(points)
        BY <3>1, <1>4
      <3> QED BY <2>2, <3>1, <3>2, <1>2, <1>4
    <2> QED BY <2>1, <2>2
  <1>6. Searches(f)
    <2>1. f = [i \in 0 .. n |-> f[i]]
      BY <1>4
    <2> QED BY <2>1, <1>5
  <1> DEFINE range == CHOOSE g : Searches(g)
  <1>7. Searches(range)
    <2> HIDE DEF Searches
    <2> QED BY <1>6
  <1>8. FindPointByBlock(points, b) = range[n].lo
    BY DEF FindPointByBlock, n, whole
  <1> HIDE DEF range
  <1>9. range[0] = whole /\ \A i \in 1 .. n : range[i] = Halved(points, b, range[i - 1])
    BY <1>1, <1>7
  <1>10. \A i \in 0 .. n : range[i] \in Ranges(points)
    <2> DEFINE T == {i \in 0 .. n : range[i] \in Ranges(points)}
    <2>1. 0 \in T
      BY <1>1, <1>9
    <2>2. ASSUME NEW i \in 0 .. n, i \in T, i < n PROVE i + 1 \in T
      <3>1. i + 1 \in 1 .. n /\ (i + 1) - 1 = i /\ range[i] \in Ranges(points)
        BY <2>2, <1>1
      <3>2. range[i + 1] = Halved(points, b, range[i])
        BY <3>1, <1>9
      <3>3. range[i + 1] \in Ranges(points)
        BY <3>1, <3>2, HalvedTyped
      <3> QED BY <3>1, <3>3
    <2> HIDE DEF T
    <2>3. \A i \in 0 .. n : i \in T
      BY <1>1, <2>1, <2>2, IntervalInduction
    <2> QED BY <2>3 DEF T
  <1>11. range \in [0 .. n -> Ranges(points)]
    BY <1>7, <1>10
  <1> QED BY <1>8, <1>9, <1>11 DEF n, whole

\* The binary search finds the last point no later than block b in every ordered history.
LEMMA SearchFinds ==
  ASSUME NEW points \in Seq(Point), points # <<>>, Ordered(points), NEW b \in Nat, NEW r,
         IsLastBefore(points, b, r)
  PROVE  FindPointByBlock(points, b) = r
  <1>1. PICK n \in Nat \ {0} : n = Len(points)
    BY LenProperties, EmptySeq
  <1>2. r \in 0 .. n - 1
    BY <1>1 DEF IsLastBefore
  <1>3. PICK range \in [0 .. n -> Ranges(points)] :
           /\ range[0] = [lo |-> 0, hi |-> n - 1]
           /\ \A i \in 1 .. n : range[i] = Halved(points, b, range[i - 1])
           /\ FindPointByBlock(points, b) = range[n].lo
    BY <1>1, SearchRounds
  <1> DEFINE T == {i \in 0 .. n : /\ range[i].lo <= r /\ r <= range[i].hi
                                  /\ range[i].hi - range[i].lo <= n - i}
  <1>4. 0 \in T
    <2>1. range[0].lo = 0 /\ range[0].hi = n - 1
      BY <1>3
    <2> QED BY <1>2, <2>1
  <1>5. ASSUME NEW i \in 0 .. n, i \in T, i < n PROVE i + 1 \in T
    <2>1. i + 1 \in 1 .. n /\ (i + 1) - 1 = i /\ i + 1 \in 0 .. n
      BY <1>5
    <2>2. range[i + 1] = Halved(points, b, range[i]) /\ range[i] \in Ranges(points)
      BY <1>3, <2>1
    <2>3. PICK lo \in 0 .. n - 1, hi \in 0 .. n - 1 : lo = range[i].lo /\ hi = range[i].hi
      BY <1>1, <2>2 DEF Ranges
    <2>4. lo <= r /\ r <= hi /\ hi - lo <= n - i
      BY <1>5, <2>3
    <2>5. CASE lo >= hi
      <3>1. range[i + 1].lo = lo /\ range[i + 1].hi = hi
        BY <2>2, <2>3, <2>5, HalvedTyped
      <3>2. hi - lo <= n - (i + 1)
        BY <1>5, <2>4, <2>5
      <3> QED BY <2>1, <2>4, <3>1, <3>2
    <2>6. CASE lo < hi
      <3>1. PICK mid \in lo + 1 .. hi :
              IF points[mid + 1].blockNumber <= b
              THEN range[i + 1].lo = mid /\ range[i + 1].hi = hi
              ELSE range[i + 1].lo = lo /\ range[i + 1].hi = mid - 1
        <4>1. range[i].lo < range[i].hi
          BY <2>3, <2>6
        <4>2. PICK m \in range[i].lo + 1 .. range[i].hi :
                IF points[m + 1].blockNumber <= b
                THEN /\ Halved(points, b, range[i]).lo = m
                     /\ Halved(points, b, range[i]).hi = range[i].hi
                ELSE /\ Halved(points, b, range[i]).lo = range[i].lo
                     /\ Halved(points, b, range[i]).hi = m - 1
          BY <2>2, <4>1, HalvedTyped
        <4> QED BY <2>2, <2>3, <4>2
      <3>2. mid \in 1 .. Len(points) - 1
        BY <1>1, <3>1
      <3>3. points[mid + 1].blockNumber <= b <=> mid <= r
        BY <3>2, LastBeforeSplits
      <3>4. CASE mid <= r
        <4>1. range[i + 1].lo = mid /\ range[i + 1].hi = hi
          BY <3>1, <3>3, <3>4
        <4>2. hi - mid <= n - (i + 1)
          BY <2>4
        <4> QED BY <2>1, <2>4, <3>4, <4>1, <4>2
      <3>5. CASE ~(mid <= r)
        <4>1. range[i + 1].lo = lo /\ range[i + 1].hi = mid - 1
          BY <3>1, <3>3, <3>5
        <4>2. (mid - 1) - lo <= n - (i + 1) /\ r <= mid - 1
          BY <1>2, <2>4, <3>5
        <4> QED BY <2>1, <2>4, <4>1, <4>2
      <3> QED BY <3>4, <3>5
    <2> QED BY <2>5, <2>6
  <1> HIDE DEF T
  <1>6. n \in T
    <2>1. \A i \in 0 .. n : i \in T
      BY <1>4, <1>5, IntervalInduction
    <2> QED BY <2>1
  <1>7. range[n] \in Ranges(points) /\ range[n].lo <= r /\ r <= range[n].hi
        /\ range[n].hi - range[n].lo <= n - n
    BY <1>3, <1>6 DEF T
  <1>8. range[n].lo \in Int /\ range[n].hi \in Int
    BY <1>1, <1>7 DEF Ranges
  <1> QED BY <1>2, <1>3, <1>7, <1>8

(***************************************************************************)
(* The order of the histories                                              *)
(***************************************************************************)

\* No point is of a later block than the present one.
UpTo(points, b) == \A i \in 1 .. Len(points) : points[i].blockNumber <= b

Histories ==
  /\ Ordered(mapSupplyPoints) /\ UpTo(mapSupplyPoints, block)
  /\ \A u \in Voters : Ordered(mapUserPoints[u]) /\ UpTo(mapUserPoints[u], block)

\* A point of a walk is either of the present block or the last one brought forward.
Carried(pt) ==
  pt.blockNumber = LastPoint.blockNumber /\ pt.balance = LastPoint.balance

LEMMA WalkToBlocks ==
  ASSUME LocksTypeOK, PointsTypeOK, NEW p \in Point, NEW i \in 1 .. WalkSteps,
         NEW curSupply \in Nat, p.blockNumber <= block
  PROVE  /\ WalkTo(p, i, curSupply).blockNumber <= block
         /\ p.blockNumber <= WalkTo(p, i, curSupply).blockNumber
         /\ WalkTo(p, i, curSupply).blockNumber = block \/
              /\ WalkTo(p, i, curSupply).blockNumber = p.blockNumber
              /\ WalkTo(p, i, curSupply).balance = p.balance
  <1> DEFINE t == StepTime(LastPoint.ts, i, now)
             q == Advance(p, t)
  <1>1. t \in 0 .. now
    <2>1. LastPoint.ts \in Nat /\ LastPoint.ts <= now /\ now \in Nat
      BY LastPointTyped DEF Point
    <2>2. t \in Nat /\ t <= now
      BY <2>1, WalkStep DEF WalkSteps
    <2> QED BY <2>1, <2>2
  <1>2. q \in Point /\ q.blockNumber = p.blockNumber /\ q.balance = p.balance
    BY <1>1, AdvanceTyped
  <1>3. WalkTo(p, i, curSupply) =
          IF q.ts = now THEN [q EXCEPT !.blockNumber = block, !.balance = curSupply] ELSE q
    BY DEF WalkTo
  <1> HIDE DEF q
  <1>4. block \in Nat /\ p.blockNumber \in Nat
    BY DEF PointsTypeOK, Point
  <1>5. CASE q.ts = now
    <2>1. WalkTo(p, i, curSupply).blockNumber = block
      BY <1>2, <1>3, <1>5 DEF Point
    <2> QED BY <2>1, <1>4
  <1>6. CASE q.ts # now
    BY <1>2, <1>3, <1>4, <1>6
  <1> QED BY <1>5, <1>6

LEMMA WalkBlocks ==
  ASSUME LocksTypeOK, PointsTypeOK, NEW curSupply \in Nat, LastPoint.blockNumber <= block
  PROVE  LET walked == WalkedPoints(curSupply)
         IN  /\ Ordered(walked) /\ UpTo(walked, block)
             /\ \A i \in 1 .. Len(walked) :
                  /\ LastPoint.blockNumber <= walked[i].blockNumber
                  /\ walked[i].blockNumber = block \/ Carried(walked[i])
  <1>1. PICK pt \in [0 .. WalkSteps -> Point] :
           /\ pt[0] = LastPoint
           /\ \A i \in 1 .. WalkSteps : pt[i] = WalkTo(pt[i - 1], i, curSupply)
           /\ WalkedPoints(curSupply) = [i \in 1 .. WalkSteps |-> pt[i]]
           /\ WalkSteps \in Nat \ {0}
    BY WalkedPointsDef
  <1>2. PICK n \in Nat \ {0} : n = WalkSteps
    BY <1>1
  <1> DEFINE walked == WalkedPoints(curSupply)
             from == LastPoint.blockNumber
             at(i) == pt[i].blockNumber
  <1>3. /\ from \in Nat /\ block \in Nat /\ from <= block
        /\ \A i \in 0 .. n : at(i) \in Nat
    <2>1. LastPoint \in Point /\ \A i \in 0 .. n : pt[i] \in Point
      BY <1>1, <1>2, LastPointTyped
    <2> QED BY <2>1 DEF Point, PointsTypeOK
  <1> DEFINE T == {i \in 0 .. n : /\ at(i) <= block /\ from <= at(i)
                                  /\ at(i) = block \/ Carried(pt[i])
                                  /\ \A k \in 0 .. i : at(k) <= at(i)}
  <1>4. 0 \in T
    BY <1>1, <1>3 DEF Carried
  <1>5. ASSUME NEW i \in 0 .. n, i \in T, i < n PROVE i + 1 \in T
    <2>1. PICK j \in 1 .. n : j = i + 1 /\ j - 1 = i /\ j \in 0 .. n
      BY <1>5
    <2>2. pt[j] = WalkTo(pt[i], j, curSupply) /\ pt[i] \in Point
      BY <1>1, <1>2, <2>1
    <2>3. /\ at(i) <= block /\ from <= at(i)
          /\ at(i) = block \/ Carried(pt[i])
          /\ \A k \in 0 .. i : at(k) <= at(i)
      BY <1>5
    <2>4. /\ at(j) <= block /\ at(i) <= at(j)
          /\ at(j) = block \/ (at(j) = at(i) /\ pt[j].balance = pt[i].balance)
      BY <1>2, <2>2, <2>3, WalkToBlocks
    <2>5. at(i) \in Nat /\ at(j) \in Nat
      BY <1>3, <2>1
    <2>6. from <= at(j)
      BY <1>3, <2>3, <2>4, <2>5
    <2>7. at(j) = block \/ Carried(pt[j])
      <3>1. CASE at(i) = block
        BY <3>1, <2>4, <2>5, <1>3
      <3>2. CASE Carried(pt[i])
        BY <3>2, <2>4 DEF Carried
      <3> QED BY <3>1, <3>2, <2>3
    <2>8. \A k \in 0 .. j : at(k) <= at(j)
      <3> TAKE k \in 0 .. j
      <3>1. CASE k = j
        BY <3>1, <2>5
      <3>2. CASE k # j
        <4>1. k \in 0 .. i /\ k \in 0 .. n
          BY <2>1, <3>2
        <4>2. at(k) <= at(i) /\ at(k) \in Nat
          BY <4>1, <1>3, <2>3
        <4> QED BY <4>2, <2>4, <2>5
      <3> QED BY <3>1, <3>2
    <2> HIDE DEF at
    <2> QED BY <2>1, <2>4, <2>6, <2>7, <2>8
  <1> HIDE DEF T
  <1>6. \A i \in 0 .. n : i \in T
    BY <1>4, <1>5, IntervalInduction
  <1>7. Len(walked) = n /\ \A i \in 1 .. n : walked[i] = pt[i] /\ i \in 0 .. n
    BY <1>1, <1>2
  <1> HIDE DEF walked
  <1>8. \A i \in 1 .. n : /\ walked[i].blockNumber <= block /\ from <= walked[i].blockNumber
                          /\ walked[i].blockNumber = block \/ Carried(walked[i])
                          /\ \A k \in 0 .. i : at(k) <= walked[i].blockNumber
    <2> TAKE i \in 1 .. n
    <2>1. i \in T /\ walked[i] = pt[i]
      BY <1>6, <1>7
    <2> QED BY <2>1 DEF T
  <1>9. Ordered(walked)
    <2>1. ASSUME NEW i \in 1 .. n, NEW j \in 1 .. n, i <= j
          PROVE  walked[i].blockNumber <= walked[j].blockNumber
      <3>1. i \in 0 .. j /\ walked[i] = pt[i]
        BY <1>7, <2>1
      <3> QED BY <3>1, <1>8
    <2> QED BY <2>1, <1>7 DEF Ordered
  <1> QED BY <1>7, <1>8, <1>9 DEF UpTo, walked

\* Putting one ordered history after another.
LEMMA OrderedConcat ==
  ASSUME NEW points \in Seq(Point), NEW added \in Seq(Point), NEW b \in Nat,
         Ordered(points), Ordered(added), UpTo(points, b), UpTo(added, b),
         \A i \in 1 .. Len(points), j \in 1 .. Len(added) :
           points[i].blockNumber <= added[j].blockNumber
  PROVE  Ordered(points \o added) /\ UpTo(points \o added, b)
  <1>1. PICK m \in Nat, n \in Nat : m = Len(points) /\ n = Len(added)
    BY LenProperties
  <1> DEFINE both == points \o added
  <1>2. /\ Len(both) = m + n
        /\ \A i \in 1 .. m + n : both[i] = IF i <= m THEN points[i] ELSE added[i - m]
    BY ONLY ConcatProperties, points \in Seq(Point), added \in Seq(Point), <1>1
  <1> HIDE DEF both
  <1>3. ASSUME NEW i \in 1 .. m + n
        PROVE  both[i].blockNumber <= b
    <2>1. CASE i <= m
      <3>1. i \in 1 .. Len(points)
        BY <1>1, <2>1
      <3> QED BY <1>2, <2>1, <3>1 DEF UpTo
    <2>2. CASE ~(i <= m)
      <3>1. i - m \in 1 .. Len(added)
        BY <1>1, <2>2
      <3> QED BY <1>2, <2>2, <3>1 DEF UpTo
    <2> QED BY <2>1, <2>2
  <1>4. ASSUME NEW i \in 1 .. m + n, NEW j \in 1 .. m + n, i <= j
        PROVE  both[i].blockNumber <= both[j].blockNumber
    <2>1. CASE j <= m
      <3>1. i <= m /\ i \in 1 .. Len(points) /\ j \in 1 .. Len(points)
        BY <1>1, <1>4, <2>1
      <3> QED BY <1>2, <1>4, <2>1, <3>1 DEF Ordered
    <2>2. CASE ~(j <= m) /\ i <= m
      <3>1. i \in 1 .. Len(points) /\ j - m \in 1 .. Len(added)
        BY <1>1, <2>2
      <3> QED BY <1>2, <2>2, <3>1
    <2>3. CASE ~(j <= m) /\ ~(i <= m)
      <3>1. i - m \in 1 .. Len(added) /\ j - m \in 1 .. Len(added) /\ i - m <= j - m
        BY <1>1, <1>4, <2>3
      <3> QED BY <1>2, <2>3, <3>1 DEF Ordered
    <2> QED BY <2>1, <2>2, <2>3
  <1>5. Ordered(both) /\ UpTo(both, b)
    BY <1>2, <1>3, <1>4 DEF Ordered, UpTo
  <1> QED BY <1>5 DEF both

\* What a checkpoint adds to the history of the supply: the points of its walk, of which a
\* transaction changes the last one's slope and bias.
AddedAs(added, walked) ==
  /\ Len(added) = Len(walked)
  /\ \A i \in 1 .. Len(walked) : /\ added[i].ts = walked[i].ts
                                 /\ added[i].blockNumber = walked[i].blockNumber
                                 /\ added[i].balance = walked[i].balance
                                 /\ i < Len(walked) => added[i] = walked[i]

LEMMA CheckpointUserAdds ==
  ASSUME LocksTypeOK, PointsTypeOK, NEW u, NEW old \in Locks, NEW new \in Locks,
         NEW curSupply \in Nat, CheckpointUser(u, old, new, curSupply)
  PROVE  \E added \in Seq(Point) : /\ mapSupplyPoints' = mapSupplyPoints \o added
                                   /\ AddedAs(added, WalkedPoints(curSupply))
  <1> DEFINE walked == WalkedPoints(curSupply)
             n == Len(walked)
             last == walked[n]
             slope == PositivePart(last.slope + Slope(new) - Slope(old))
             bias == PositivePart(last.bias + Bias(new) - Bias(old))
             pt == [last EXCEPT !.slope = slope, !.bias = bias]
             added == [walked EXCEPT ![n] = pt]
  <1>1. /\ walked \in Seq(Point) /\ n \in Nat \ {0} /\ last \in Point
    BY WalkEnds
  <1>2. mapSupplyPoints' = mapSupplyPoints \o added
    BY DEF CheckpointUser
  <1>3. /\ Slope(new) \in Nat /\ Bias(new) \in Nat /\ Slope(old) \in Nat /\ Bias(old) \in Nat
    <2>1. now \in Nat
      BY LastPointTyped
    <2> QED BY <2>1, SlopeNow, LockSlopeTyped
  <1> HIDE DEF walked
  <1>4. slope \in Int /\ bias \in Int
    <2>1. last.slope \in Int /\ last.bias \in Int
      BY <1>1 DEF Point
    <2> QED BY <1>3, <2>1 DEF PositivePart
  <1> HIDE DEF n, last, slope, bias
  <1>5. /\ pt \in Point /\ pt.ts = last.ts /\ pt.balance = last.balance
        /\ pt.blockNumber = last.blockNumber
    BY <1>1, <1>4 DEF Point
  <1> HIDE DEF pt
  <1>6. /\ added \in Seq(Point) /\ Len(added) = n
        /\ \A i \in 1 .. n : added[i] = IF i = n THEN pt ELSE walked[i]
    <2>1. n \in 1 .. Len(walked)
      BY <1>1 DEF n
    <2> QED BY <1>1, <1>5, <2>1, ExceptSeq DEF n
  <1> HIDE DEF added
  <1>7. AddedAs(added, walked)
    <2> SUFFICES ASSUME NEW i \in 1 .. n
                 PROVE  /\ added[i].ts = walked[i].ts
                        /\ added[i].blockNumber = walked[i].blockNumber
                        /\ added[i].balance = walked[i].balance
                        /\ i < n => added[i] = walked[i]
      BY <1>6 DEF AddedAs, n
    <2>1. CASE i = n
      BY <1>1, <1>5, <1>6, <2>1 DEF last
    <2>2. CASE i # n
      BY <1>6, <2>2
    <2> QED BY <2>1, <2>2
  <1> QED BY <1>2, <1>6, <1>7 DEF walked

\* The points already there are of no later block than the one a walk starts from.
LEMMA LastPointIsLatest ==
  ASSUME LocksTypeOK, PointsTypeOK, Histories
  PROVE  /\ LastPoint.blockNumber \in Nat /\ LastPoint.blockNumber <= block
         /\ UpTo(mapSupplyPoints, LastPoint.blockNumber)
  <1>1. PICK n \in Nat \ {0} : n = Len(mapSupplyPoints) /\ n \in 1 .. Len(mapSupplyPoints)
    <2>1. Len(mapSupplyPoints) \in Nat /\ Len(mapSupplyPoints) # 0
      BY LenProperties, EmptySeq DEF PointsTypeOK
    <2> QED BY <2>1
  <1>2. LastPoint.blockNumber \in Nat /\ block \in Nat
    BY LastPointTyped DEF Point, PointsTypeOK
  <1>3. CASE totalNumPoints > 0
    <2>1. LastPoint = mapSupplyPoints[n]
      <3>1. (n - 1) + 1 = n
        BY <1>1
      <3> QED BY <1>1, <1>3, <3>1 DEF LastPoint, SupplyPoint, totalNumPoints
    <2>2. \A i \in 1 .. Len(mapSupplyPoints) :
            mapSupplyPoints[i].blockNumber <= mapSupplyPoints[n].blockNumber
      BY <1>1 DEF Histories, Ordered
    <2> QED BY <1>1, <1>2, <2>1, <2>2 DEF Histories, UpTo
  <1>4. CASE ~(totalNumPoints > 0)
    <2>1. LastPoint.blockNumber = block
      BY <1>4 DEF LastPoint, EmptyPoint
    <2> QED BY <1>2, <2>1 DEF Histories
  <1> QED BY <1>3, <1>4

LEMMA AddedKeepsOrder ==
  ASSUME LocksTypeOK, PointsTypeOK, Histories, NEW curSupply \in Nat,
         NEW added \in Seq(Point), AddedAs(added, WalkedPoints(curSupply))
  PROVE  Ordered(mapSupplyPoints \o added) /\ UpTo(mapSupplyPoints \o added, block)
  <1> DEFINE from == LastPoint.blockNumber
  <1>1. from \in Nat /\ from <= block /\ UpTo(mapSupplyPoints, from) /\ block \in Nat
    BY LastPointIsLatest DEF PointsTypeOK
  <1>2. /\ Ordered(added) /\ UpTo(added, block)
        /\ \A j \in 1 .. Len(added) : from <= added[j].blockNumber
    <2> DEFINE walked == WalkedPoints(curSupply)
    <2>1. /\ Ordered(walked) /\ UpTo(walked, block)
          /\ \A i \in 1 .. Len(walked) : from <= walked[i].blockNumber
      BY <1>1, WalkBlocks
    <2>2. /\ Len(added) = Len(walked)
          /\ \A i \in 1 .. Len(walked) : added[i].blockNumber = walked[i].blockNumber
      BY DEF AddedAs
    <2> HIDE DEF walked, from
    <2> QED BY <2>1, <2>2 DEF Ordered, UpTo
  <1>3. mapSupplyPoints \in Seq(Point)
    BY DEF PointsTypeOK
  <1>4. ASSUME NEW i \in 1 .. Len(mapSupplyPoints), NEW j \in 1 .. Len(added)
        PROVE  mapSupplyPoints[i].blockNumber <= added[j].blockNumber
    <2>1. mapSupplyPoints[i].blockNumber \in Nat /\ added[j].blockNumber \in Nat
      BY <1>3, BlocksTyped
    <2>2. mapSupplyPoints[i].blockNumber <= from /\ from <= added[j].blockNumber
      BY <1>1, <1>2 DEF UpTo
    <2> QED BY <1>1, <2>1, <2>2
  <1> HIDE DEF from
  <1> QED BY <1>1, <1>2, <1>3, <1>4, OrderedConcat DEF Histories

LEMMA OrderedAppend ==
  ASSUME NEW points \in Seq(Point), NEW b \in Nat, NEW pt \in Point, pt.blockNumber = b,
         Ordered(points), UpTo(points, b)
  PROVE  Ordered(Append(points, pt)) /\ UpTo(Append(points, pt), b)
  <1>1. Append(points, pt) = points \o <<pt>>
    BY AppendIsConcat
  <1>2. <<pt>> \in Seq(Point) /\ Len(<<pt>>) = 1 /\ <<pt>>[1] = pt
    OBVIOUS
  <1> DEFINE one == <<pt>>
  <1>3. one \in Seq(Point) /\ Len(one) = 1 /\ one[1] = pt
    BY <1>2
  <1> HIDE DEF one
  <1>4. Ordered(one) /\ UpTo(one, b)
    BY <1>3 DEF Ordered, UpTo
  <1>5. \A i \in 1 .. Len(points), j \in 1 .. Len(one) :
          points[i].blockNumber <= one[j].blockNumber
    BY <1>3 DEF UpTo
  <1>6. Ordered(points \o one) /\ UpTo(points \o one, b)
    BY <1>3, <1>4, <1>5, OrderedConcat
  <1> QED BY <1>1, <1>6 DEF one

\* The point that a checkpoint adds to an account.
LEMMA CheckpointUserAppends ==
  ASSUME LocksTypeOK, PointsTypeOK, UserPointsTypeOK, NEW u \in Voters, NEW old \in Locks,
         NEW new \in Locks, NEW curSupply \in Nat, CheckpointUser(u, old, new, curSupply)
  PROVE  \E pt \in Point : /\ pt.blockNumber = block /\ pt.balance = new.amount
                           /\ mapUserPoints' = [mapUserPoints EXCEPT ![u] = Append(@, pt)]
  <1>1. PICK pt : pt = [bias |-> Bias(new), slope |-> Slope(new), ts |-> now,
                        blockNumber |-> block, balance |-> new.amount]
    OBVIOUS
  <1>2. /\ Slope(new) \in Nat /\ Bias(new) \in Nat /\ now \in Nat /\ block \in Nat
        /\ new.amount \in Nat
    BY SlopeNow, LastPointTyped, LockSlopeTyped DEF PointsTypeOK, Locks
  <1>3. pt \in Point /\ pt.blockNumber = block /\ pt.balance = new.amount
    BY <1>1, <1>2 DEF Point
  <1>4. mapUserPoints' = [mapUserPoints EXCEPT ![u] = Append(@, pt)]
    BY <1>1 DEF CheckpointUser
  <1> QED BY <1>3, <1>4

\* What a transaction adds to the two histories.
LEMMA ChangeAdds ==
  ASSUME Books, NEW u \in Voters, NEW new \in Locks, LockChange(u, new)
  PROVE  /\ \E curSupply \in Nat, added \in Seq(Point) :
              /\ mapSupplyPoints' = mapSupplyPoints \o added
              /\ AddedAs(added, WalkedPoints(curSupply))
         /\ \E pt \in Point :
              /\ pt.blockNumber = block /\ pt.balance = new.amount
              /\ mapUserPoints' = [mapUserPoints EXCEPT ![u] = Append(@, pt)]
  <1>1. LocksTypeOK /\ PointsTypeOK /\ UserPointsTypeOK
    BY DEF Books
  <1>2. PICK old \in Locks, curSupply \in Nat : CheckpointUser(u, old, new, curSupply)
    <2>1. mapLockedBalances[u] \in Locks
      BY BooksTyped
    <2>2. supply' \in Nat
      <3>1. /\ mapLockedBalances[u].amount \in Nat /\ mapLockedBalances[u].amount <= supply
            /\ supply \in Nat /\ new.amount \in Nat
        BY BooksTyped DEF Locks
      <3> QED BY <3>1 DEF LockChange
    <2> QED BY <2>1, <2>2 DEF LockChange
  <1>3. \E added \in Seq(Point) : /\ mapSupplyPoints' = mapSupplyPoints \o added
                                  /\ AddedAs(added, WalkedPoints(curSupply))
    BY <1>1, <1>2, CheckpointUserAdds
  <1>4. \E pt \in Point : /\ pt.blockNumber = block /\ pt.balance = new.amount
                          /\ mapUserPoints' = [mapUserPoints EXCEPT ![u] = Append(@, pt)]
    BY <1>1, <1>2, CheckpointUserAppends
  <1> QED BY <1>3, <1>4

LEMMA HistoriesInit == Init => Histories
  <1> SUFFICES ASSUME Init PROVE Histories
    OBVIOUS
  <1>1. /\ mapSupplyPoints = <<EmptyPoint(StartTime, StartBlock)>> /\ block = StartBlock
        /\ EmptyPoint(StartTime, StartBlock).blockNumber = StartBlock /\ StartBlock \in Nat
    BY VeConstantsAssumption DEF Init, EmptyPoint
  <1> HIDE DEF EmptyPoint
  <1>2. Len(mapSupplyPoints) = 1 /\ mapSupplyPoints[1].blockNumber = block /\ block \in Nat
    BY <1>1
  <1>3. \A u \in Voters : Len(mapUserPoints[u]) = 0
    BY DEF Init
  <1> QED BY <1>2, <1>3 DEF Histories, Ordered, UpTo

LEMMA HistoriesNext == Books /\ Histories /\ [Next]_vars => Histories'
  <1> SUFFICES ASSUME Books, Histories, [Next]_vars PROVE Histories'
    OBVIOUS
  <1>1. /\ LocksTypeOK /\ PointsTypeOK /\ UserPointsTypeOK /\ block \in Nat /\ supply \in Nat
        /\ \A u \in Voters : mapUserPoints[u] \in Seq(Point)
    BY BooksTyped DEF Books, UserPointsTypeOK
  <1>2. ASSUME NEW u \in Voters, Transaction(u) PROVE Histories'
    <2>1. PICK new \in Locks : LockChange(u, new)
      BY <1>2, TransactionChanges
    <2>2. UNCHANGED block
      BY <2>1 DEF LockChange
    <2>3. PICK curSupply \in Nat, added \in Seq(Point) :
            /\ mapSupplyPoints' = mapSupplyPoints \o added
            /\ AddedAs(added, WalkedPoints(curSupply))
      BY <2>1, ChangeAdds
    <2>4. Ordered(mapSupplyPoints') /\ UpTo(mapSupplyPoints', block)
      BY <1>1, <2>3, AddedKeepsOrder
    <2>5. PICK pt \in Point :
            /\ pt.blockNumber = block
            /\ mapUserPoints' = [mapUserPoints EXCEPT ![u] = Append(@, pt)]
      BY <2>1, ChangeAdds
    <2>6. ASSUME NEW v \in Voters
          PROVE  Ordered(mapUserPoints'[v]) /\ UpTo(mapUserPoints'[v], block)
      <3>1. CASE v = u
        <4>1. mapUserPoints'[v] = Append(mapUserPoints[u], pt)
          BY <2>5, <3>1 DEF Books, UserPointsTypeOK
        <4> QED BY <1>1, <2>5, <4>1, OrderedAppend DEF Histories
      <3>2. CASE v # u
        <4>1. mapUserPoints'[v] = mapUserPoints[v]
          BY <2>5, <3>2 DEF Books, UserPointsTypeOK
        <4> QED BY <4>1 DEF Histories
      <3> QED BY <3>1, <3>2
    <2> QED BY <2>2, <2>4, <2>6 DEF Histories, Ordered, UpTo
  <1>3. CASE Checkpoint
    <2>1. /\ mapSupplyPoints' = mapSupplyPoints \o WalkedPoints(supply)
          /\ UNCHANGED <<block, mapUserPoints>>
      BY <1>3 DEF Checkpoint
    <2>2. WalkedPoints(supply) \in Seq(Point)
      BY <1>1, WalkEnds
    <2>3. AddedAs(WalkedPoints(supply), WalkedPoints(supply))
      BY DEF AddedAs
    <2>4. Ordered(mapSupplyPoints') /\ UpTo(mapSupplyPoints', block)
      BY <1>1, <2>1, <2>2, <2>3, AddedKeepsOrder
    <2> QED BY <2>1, <2>4 DEF Histories, Ordered, UpTo
  <1>4. CASE NextBlock
    <2>1. block' = block + 1 /\ UNCHANGED <<mapSupplyPoints, mapUserPoints>>
      BY <1>4 DEF NextBlock
    <2>2. ASSUME NEW points \in Seq(Point), UpTo(points, block) PROVE UpTo(points, block + 1)
      <3>1. \A i \in 1 .. Len(points) : points[i].blockNumber \in Nat
        BY BlocksTyped
      <3> QED BY <1>1, <2>2, <3>1 DEF UpTo
    <2>3. mapSupplyPoints \in Seq(Point)
      BY <1>1 DEF PointsTypeOK
    <2>4. UpTo(mapSupplyPoints, block + 1)
          /\ \A u \in Voters : UpTo(mapUserPoints[u], block + 1)
      BY <1>1, <2>2, <2>3 DEF Histories
    <2> QED BY <2>1, <2>4 DEF Histories, Ordered, UpTo
  <1>5. CASE UNCHANGED vars
    BY <1>5 DEF vars, Histories, Ordered, UpTo
  <1> QED BY <1>2, <1>3, <1>4, <1>5 DEF Next

LEMMA HistoriesAlways == Spec => []Histories
  BY BooksAlways, HistoriesInit, HistoriesNext, PTL DEF Spec

LEMMA SearchOfHistory ==
  ASSUME NEW points \in Seq(Point), points # <<>>, Ordered(points), NEW b \in Nat
  PROVE  FindPointByBlock(points, b) = LastPointBefore(points, b)
  <1>1. PICK r : IsLastBefore(points, b, r)
    BY LastBeforeExists
  <1>2. IsLastBefore(points, b, LastPointBefore(points, b))
    BY <1>1 DEF LastPointBefore, IsLastBefore
  <1> QED BY <1>2, SearchFinds

\* The binary search that every view of the past starts with ends at the last point no later
\* than the block asked for, in the history of the supply and of every account, for any
\* number of points and weeks that checkpoints fill in (_findPointByBlock).
THEOREM VeOLASSearchIsExact == Spec => []SearchIsExact
  <1>1. Books /\ Histories => SearchIsExact
    <2> SUFFICES ASSUME Books, Histories, NEW b \in StartBlock .. block
                 PROVE  /\ FindPointByBlock(mapSupplyPoints, b) =
                              LastPointBefore(mapSupplyPoints, b)
                        /\ \A u \in Voters : mapUserPoints[u] # <<>> =>
                             FindPointByBlock(mapUserPoints[u], b) =
                               LastPointBefore(mapUserPoints[u], b)
      BY DEF SearchIsExact
    <2>1. b \in Nat
      BY BooksTyped, VeConstantsAssumption
    <2>2. mapSupplyPoints \in Seq(Point) /\ mapSupplyPoints # <<>>
          /\ \A u \in Voters : mapUserPoints[u] \in Seq(Point)
      BY DEF Books, PointsTypeOK, UserPointsTypeOK
    <2> QED BY <2>1, <2>2, SearchOfHistory DEF Histories
  <1> QED BY <1>1, BooksAlways, HistoriesAlways, PTL

(***************************************************************************)
(* What a history answers for a block                                      *)
(***************************************************************************)

LEMMA LastOfAll ==
  ASSUME NEW points \in Seq(Point), points # <<>>, NEW b \in Nat, UpTo(points, b)
  PROVE  IsLastBefore(points, b, Len(points) - 1)
  <1>1. PICK n \in Nat \ {0} : n = Len(points)
    BY LenProperties, EmptySeq
  <1>2. points[(n - 1) + 1].blockNumber <= b
    <2>1. (n - 1) + 1 = n /\ n \in 1 .. Len(points)
      BY <1>1
    <2> QED BY <2>1 DEF UpTo
  <1>3. n - 1 \in 0 .. Len(points) - 1 /\ (n - 1) + 1 .. Len(points) - 1 = {}
    BY <1>1
  <1> QED BY <1>1, <1>2, <1>3 DEF IsLastBefore

\* What is added to a history leaves the last point before block b or holds it.
Continues(points, added, b, r, s) ==
  \/ s = r /\ (points \o added)[s + 1] = points[r + 1]
  \/ /\ r = Len(points) - 1 /\ points[r + 1].blockNumber <= b
     /\ \E k \in 1 .. Len(added) :
          /\ s = Len(points) + k - 1 /\ (points \o added)[s + 1] = added[k]
          /\ added[k].blockNumber <= b
          /\ \A j \in k + 1 .. Len(added) : added[j].blockNumber > b

LEMMA LastOfExtension ==
  ASSUME NEW points \in Seq(Point), points # <<>>, NEW added \in Seq(Point), NEW b \in Nat,
         Ordered(points \o added),
         NEW r, IsLastBefore(points, b, r), NEW s, IsLastBefore(points \o added, b, s)
  PROVE  Continues(points, added, b, r, s)
  <1>1. PICK m \in Nat \ {0}, n \in Nat : m = Len(points) /\ n = Len(added)
    BY LenProperties, EmptySeq
  <1> DEFINE both == points \o added
  <1>2. /\ both \in Seq(Point) /\ Len(both) = m + n
        /\ \A i \in 1 .. m + n : both[i] = IF i <= m THEN points[i] ELSE added[i - m]
    BY ONLY ConcatProperties, points \in Seq(Point), added \in Seq(Point), <1>1
  <1>3. Ordered(both) /\ IsLastBefore(both, b, s)
    OBVIOUS
  <1> HIDE DEF both
  <1>4. /\ s \in 0 .. m + n - 1 /\ (both[s + 1].blockNumber <= b \/ s = 0)
        /\ \A j \in s + 1 .. m + n - 1 : both[j + 1].blockNumber > b
    BY <1>2, <1>3 DEF IsLastBefore
  <1>5. CASE s < m
    <2>1. s \in 0 .. m - 1 /\ s + 1 \in 1 .. m + n /\ s + 1 <= m
      BY <1>4, <1>5
    <2>2. both[s + 1] = points[s + 1]
      BY <1>2, <2>1
    <2>3. \A j \in s + 1 .. m - 1 : points[j + 1].blockNumber > b
      <3> TAKE j \in s + 1 .. m - 1
      <3>1. j \in s + 1 .. m + n - 1 /\ j + 1 \in 1 .. m + n /\ j + 1 <= m
        BY <2>1
      <3>2. both[j + 1] = points[j + 1]
        BY <1>2, <3>1
      <3> QED BY <1>4, <3>1, <3>2
    <2>4. IsLastBefore(points, b, s)
      BY <1>1, <1>4, <2>1, <2>2, <2>3 DEF IsLastBefore
    <2>5. s = r
      BY <1>1, <2>4, BlocksTyped, LastBeforeUnique
    <2> QED BY <2>2, <2>5 DEF both, Continues
  <1>6. CASE ~(s < m)
    <2>1. PICK k \in 1 .. n : k = s + 1 - m
      BY <1>4, <1>6
    <2>2. s + 1 \in 1 .. m + n /\ ~(s + 1 <= m) /\ s # 0
      BY <1>4, <1>6
    <2>3. both[s + 1] = added[k] /\ added[k].blockNumber <= b
      <3>1. (s + 1) - m = k
        BY <1>4, <2>1
      <3>2. both[s + 1] = added[k]
        BY <1>2, <2>2, <3>1
      <3> QED BY <1>4, <2>2, <3>2
    <2>4. \A j \in k + 1 .. n : added[j].blockNumber > b
      <3> TAKE j \in k + 1 .. n
      <3>1. PICK l \in s + 1 .. m + n - 1 : l + 1 = j + m
        <4>1. j + m - 1 \in s + 1 .. m + n - 1 /\ (j + m - 1) + 1 = j + m
          BY <2>1, <1>4
        <4> QED BY <4>1
      <3>2. l + 1 \in 1 .. m + n /\ ~(l + 1 <= m) /\ (l + 1) - m = j
        BY <3>1, <2>2
      <3>3. both[l + 1] = added[j]
        BY <1>2, <3>2
      <3> QED BY <1>4, <3>1, <3>3
    <2>5. points[m].blockNumber <= b
      <3>1. m \in 1 .. m + n /\ m <= s + 1 /\ s + 1 \in 1 .. m + n
        BY <1>4, <1>6
      <3>2. both[m].blockNumber <= both[s + 1].blockNumber /\ both[m] = points[m]
        BY <1>2, <1>3, <3>1 DEF Ordered
      <3>3. points[m].blockNumber \in Nat /\ added[k].blockNumber \in Nat
        BY <1>1, BlocksTyped
      <3> QED BY <2>3, <3>2, <3>3
    <2>6. IsLastBefore(points, b, m - 1)
      <3>1. m - 1 \in 0 .. Len(points) - 1 /\ (m - 1) + 1 = m
            /\ (m - 1) + 1 .. Len(points) - 1 = {}
        BY <1>1
      <3> QED BY <2>5, <3>1 DEF IsLastBefore
    <2>7. r = m - 1
      BY <1>1, <2>6, BlocksTyped, LastBeforeUnique
    <2>8. points[r + 1].blockNumber <= b /\ s = m + k - 1
      <3>1. (m - 1) + 1 = m
        OBVIOUS
      <3> QED BY <1>4, <2>1, <2>5, <2>7, <3>1
    <2> QED BY <1>1, <2>3, <2>4, <2>7, <2>8 DEF both, Continues
  <1> QED BY <1>4, <1>5, <1>6

LEMMA BalanceOfHistory ==
  ASSUME NEW points \in Seq(Point), points # <<>>, Ordered(points), NEW b \in Nat, NEW r,
         IsLastBefore(points, b, r)
  PROVE  BalanceAt(points, b) =
           IF points[r + 1].blockNumber <= b THEN points[r + 1].balance ELSE 0
  <1>1. FindPointByBlock(points, b) = r
    BY SearchFinds
  <1> QED BY <1>1 DEF BalanceAt

LEMMA BalanceBeforeExtension ==
  ASSUME NEW points \in Seq(Point), points # <<>>, NEW added \in Seq(Point), NEW b \in Nat,
         Ordered(points), Ordered(points \o added),
         \A k \in 1 .. Len(added) :
           added[k].blockNumber <= b => added[k].balance = points[Len(points)].balance
  PROVE  BalanceAt(points \o added, b) = BalanceAt(points, b)
  <1>1. PICK m \in Nat \ {0}, n \in Nat : m = Len(points) /\ n = Len(added)
    BY LenProperties, EmptySeq
  <1> DEFINE both == points \o added
  <1>2. both \in Seq(Point) /\ Len(both) = m + n
    BY ONLY ConcatProperties, points \in Seq(Point), added \in Seq(Point), <1>1
  <1>3. both # <<>>
    BY <1>2
  <1>4. PICK r : IsLastBefore(points, b, r)
    BY LastBeforeExists
  <1>5. PICK s : IsLastBefore(both, b, s)
    BY <1>2, <1>3, LastBeforeExists
  <1>6. \/ s = r /\ both[s + 1] = points[r + 1]
        \/ /\ r = m - 1 /\ points[r + 1].blockNumber <= b
           /\ \E k \in 1 .. n : both[s + 1] = added[k] /\ added[k].blockNumber <= b
    <2>1. Ordered(points \o added) /\ IsLastBefore(points \o added, b, s)
      BY <1>5
    <2>2. Continues(points, added, b, r, s)
      BY <1>4, <2>1, LastOfExtension
    <2> HIDE DEF both
    <2>3. both = points \o added
      BY DEF both
    <2> QED BY <1>1, <2>2, <2>3 DEF Continues
  <1>7. /\ BalanceAt(points, b) =
             IF points[r + 1].blockNumber <= b THEN points[r + 1].balance ELSE 0
        /\ BalanceAt(both, b) =
             IF both[s + 1].blockNumber <= b THEN both[s + 1].balance ELSE 0
    BY <1>2, <1>3, <1>4, <1>5, BalanceOfHistory
  <1> HIDE DEF both
  <1>8. CASE both[s + 1] = points[r + 1]
    BY <1>7, <1>8 DEF both
  <1>9. ASSUME r = m - 1, points[r + 1].blockNumber <= b, NEW k \in 1 .. n,
               both[s + 1] = added[k], added[k].blockNumber <= b
        PROVE  BalanceAt(both, b) = BalanceAt(points, b)
    <2>1. r + 1 = m
      BY <1>9
    <2> QED BY <1>1, <1>7, <1>9, <2>1
  <1> QED BY <1>6, <1>8, <1>9 DEF both

\* An account has no balance before its first point, with or without the wrapper's guard.
LEMMA GuardedBalance ==
  ASSUME NEW points \in Seq(Point), Ordered(points), NEW b \in Nat,
         points = <<>> \/ ~(b >= points[1].blockNumber)
  PROVE  BalanceAt(points, b) = 0
  <1>1. CASE points = <<>>
    BY <1>1 DEF BalanceAt
  <1>2. CASE points # <<>>
    <2>1. PICK n \in Nat \ {0} : n = Len(points)
      BY <1>2, LenProperties, EmptySeq
    <2>2. PICK r \in 0 .. n - 1 : IsLastBefore(points, b, r)
      BY <1>2, <2>1, LastBeforeExists DEF IsLastBefore
    <2>3. 1 \in 1 .. Len(points) /\ r + 1 \in 1 .. Len(points) /\ 1 <= r + 1
      BY <2>1
    <2>4. /\ points[1].blockNumber <= points[r + 1].blockNumber
          /\ points[1].blockNumber \in Nat /\ points[r + 1].blockNumber \in Nat
      BY <2>3, BlocksTyped DEF Ordered
    <2>5. ~(points[r + 1].blockNumber <= b)
      BY <1>2, <2>4
    <2> QED BY <1>2, <2>2, <2>5, BalanceOfHistory
  <1> QED BY <1>1, <1>2

LEMMA WrappedBalance ==
  ASSUME UserPointsTypeOK, Histories, NEW u \in Voters, NEW b \in Nat
  PROVE  WveBalanceOfAt(u, b) = BalanceAt(mapUserPoints[u], b)
  <1>1. mapUserPoints[u] \in Seq(Point) /\ Ordered(mapUserPoints[u])
    BY DEF UserPointsTypeOK, Histories
  <1>2. ~HasPointAt(u, b) => BalanceAt(mapUserPoints[u], b) = 0
    BY <1>1, GuardedBalance DEF HasPointAt
  <1> QED BY <1>2 DEF WveBalanceOfAt

(***************************************************************************)
(* The balances at past blocks                                             *)
(***************************************************************************)

\* The last point of an account has the amount of its lock.
BalancesFollow ==
  \A u \in Voters :
    /\ LastUserPoint(u).balance = mapLockedBalances[u].amount
    /\ mapUserPoints[u] = <<>> => mapLockedBalances[u] = NoLock

PresentBalancesAddUp ==
  SumOver(Voters, LAMBDA u : WveBalanceOfAt(u, block)) = BalanceAt(mapSupplyPoints, block)

LEMMA PresentBalances ==
  ASSUME Books, SupplyFollows, Histories, BalancesFollow
  PROVE  PresentBalancesAddUp
  <1>1. block \in Nat /\ mapSupplyPoints \in Seq(Point) /\ mapSupplyPoints # <<>>
    BY DEF Books, PointsTypeOK
  <1>2. BalanceAt(mapSupplyPoints, block) = supply
    <2>1. IsLastBefore(mapSupplyPoints, block, Len(mapSupplyPoints) - 1)
      BY <1>1, LastOfAll DEF Histories
    <2>2. PICK n \in Nat \ {0} : n = Len(mapSupplyPoints)
      BY <1>1, LenProperties, EmptySeq
    <2>3. (n - 1) + 1 = n /\ n \in 1 .. Len(mapSupplyPoints)
      BY <2>2
    <2>4. mapSupplyPoints[n].blockNumber <= block
      BY <2>3 DEF Histories, UpTo
    <2>5. mapSupplyPoints[n].balance = supply
      BY <2>2 DEF SupplyFollows, SupplyPoint, totalNumPoints
    <2> QED BY <1>1, <2>1, <2>2, <2>3, <2>4, <2>5, BalanceOfHistory DEF Histories
  <1>3. ASSUME NEW u \in Voters PROVE WveBalanceOfAt(u, block) = mapLockedBalances[u].amount
    <2> DEFINE points == mapUserPoints[u]
    <2>1. points \in Seq(Point) /\ Ordered(points) /\ UpTo(points, block)
      BY DEF Books, UserPointsTypeOK, Histories
    <2>2. WveBalanceOfAt(u, block) = BalanceAt(points, block)
      BY <1>1, WrappedBalance DEF Books
    <2>3. CASE points = <<>>
      <3>1. mapLockedBalances[u].amount = 0
        BY <2>3 DEF BalancesFollow, NoLock
      <3> QED BY <2>2, <2>3, <3>1 DEF BalanceAt
    <2>4. CASE points # <<>>
      <3>1. mapLockedBalances[u].amount = points[Len(points)].balance
        BY <2>4 DEF BalancesFollow, LastUserPoint
      <3> HIDE DEF points
      <3>2. IsLastBefore(points, block, Len(points) - 1)
        BY <1>1, <2>1, <2>4, LastOfAll
      <3>3. PICK n \in Nat \ {0} : n = Len(points)
        BY <2>1, <2>4, LenProperties, EmptySeq
      <3>4. (n - 1) + 1 = n /\ n \in 1 .. Len(points)
        BY <3>3
      <3>5. points[n].blockNumber <= block
        BY <2>1, <3>4 DEF UpTo
      <3> QED BY <1>1, <2>1, <2>2, <2>4, <3>1, <3>2, <3>3, <3>4, <3>5, BalanceOfHistory
    <2> QED BY <2>3, <2>4
  <1>4. [u \in Voters |-> WveBalanceOfAt(u, block)] =
          [u \in Voters |-> mapLockedBalances[u].amount]
    BY <1>3
  <1>5. SumOver(Voters, LAMBDA u : WveBalanceOfAt(u, block)) = AmountSum(mapLockedBalances)
    BY <1>4 DEF SumOver, AmountSum
  <1> QED BY <1>2, <1>5 DEF Books, PresentBalancesAddUp

LEMMA BalancesFollowInit == Init => BalancesFollow
  BY DEF Init, BalancesFollow, LastUserPoint, EmptyPoint, NoLock

LEMMA BalancesFollowNext == Books /\ BalancesFollow /\ [Next]_vars => BalancesFollow'
  <1> SUFFICES ASSUME Books, BalancesFollow, [Next]_vars PROVE BalancesFollow'
    OBVIOUS
  <1>1. ASSUME NEW u \in Voters, Transaction(u) PROVE BalancesFollow'
    <2>1. PICK new \in Locks : LockChange(u, new)
      BY <1>1, TransactionChanges
    <2>2. PICK pt \in Point :
            /\ pt.balance = new.amount
            /\ mapUserPoints' = [mapUserPoints EXCEPT ![u] = Append(@, pt)]
      BY <2>1, ChangeAdds
    <2>3. /\ mapLockedBalances' = [mapLockedBalances EXCEPT ![u] = new]
          /\ mapLockedBalances \in [Voters -> Locks] /\ mapUserPoints \in [Voters -> Seq(Point)]
      BY <2>1 DEF LockChange, Books, LocksTypeOK, UserPointsTypeOK
    <2>4. ASSUME NEW v \in Voters
          PROVE  /\ LastUserPoint(v)'.balance = mapLockedBalances'[v].amount
                 /\ mapUserPoints'[v] = <<>> => mapLockedBalances'[v] = NoLock
      <3>1. CASE v = u
        <4>1. mapUserPoints'[v] = Append(mapUserPoints[u], pt) /\ mapLockedBalances'[v] = new
          BY <2>2, <2>3, <3>1
        <4>2. mapUserPoints[u] \in Seq(Point)
          BY <2>3
        <4>3. /\ Append(mapUserPoints[u], pt) # <<>>
              /\ Append(mapUserPoints[u], pt)[Len(Append(mapUserPoints[u], pt))] = pt
          BY <4>2, AppendProperties
        <4> QED BY <2>2, <4>1, <4>3 DEF LastUserPoint
      <3>2. CASE v # u
        <4>1. mapUserPoints'[v] = mapUserPoints[v] /\ mapLockedBalances'[v] = mapLockedBalances[v]
          BY <2>2, <2>3, <3>2
        <4>2. LastUserPoint(v)' = LastUserPoint(v)
          BY <4>1 DEF LastUserPoint, EmptyPoint
        <4> QED BY <4>1, <4>2 DEF BalancesFollow
      <3> QED BY <3>1, <3>2
    <2> QED BY <2>4 DEF BalancesFollow, NoLock
  <1>2. CASE UNCHANGED <<mapLockedBalances, mapUserPoints>>
    BY <1>2 DEF BalancesFollow, LastUserPoint, EmptyPoint, NoLock
  <1>3. CASE Checkpoint
    BY <1>2, <1>3 DEF Checkpoint
  <1>4. CASE NextBlock
    BY <1>2, <1>4 DEF NextBlock
  <1>5. CASE UNCHANGED vars
    BY <1>2, <1>5 DEF vars
  <1> QED BY <1>1, <1>3, <1>4, <1>5 DEF Next

\* What is added to the supply answers for no earlier block otherwise than before.
LEMMA SupplyBalanceKept ==
  ASSUME LocksTypeOK, PointsTypeOK, Histories, NEW curSupply \in Nat, NEW added \in Seq(Point),
         AddedAs(added, WalkedPoints(curSupply)), NEW b \in Nat, b < block
  PROVE  BalanceAt(mapSupplyPoints \o added, b) = BalanceAt(mapSupplyPoints, b)
  <1> DEFINE walked == WalkedPoints(curSupply)
             points == mapSupplyPoints
  <1>1. /\ LastPoint.blockNumber \in Nat /\ LastPoint.blockNumber <= block /\ block \in Nat
        /\ points \in Seq(Point) /\ points # <<>>
    BY LastPointIsLatest DEF PointsTypeOK
  <1>2. ASSUME NEW k \in 1 .. Len(added), added[k].blockNumber <= b
        PROVE  added[k].balance = points[Len(points)].balance
    <2>1. k \in 1 .. Len(walked) /\ added[k].blockNumber = walked[k].blockNumber
          /\ added[k].balance = walked[k].balance
      BY DEF AddedAs
    <2>2. walked[k].blockNumber = block \/ Carried(walked[k])
      BY <1>1, <2>1, WalkBlocks
    <2> HIDE DEF walked
    <2>3. walked[k].blockNumber # block
      BY <1>1, <1>2, <2>1
    <2>4. walked[k].blockNumber = LastPoint.blockNumber /\ walked[k].balance = LastPoint.balance
      BY <2>2, <2>3 DEF Carried
    <2>5. LastPoint.blockNumber # block
      BY <2>3, <2>4
    <2>6. LastPoint = points[Len(points)]
      <3>1. LastPoint = SupplyPoint(totalNumPoints)
        BY <2>5 DEF LastPoint, EmptyPoint
      <3>2. Len(points) \in Nat
        BY <1>1, LenProperties
      <3>3. (Len(points) - 1) + 1 = Len(points)
        BY <3>2
      <3> QED BY <3>1, <3>3 DEF SupplyPoint, totalNumPoints
    <2> QED BY <2>1, <2>4, <2>6
  <1>3. Ordered(points) /\ Ordered(points \o added)
    BY AddedKeepsOrder DEF Histories
  <1> HIDE DEF points
  <1>4. BalanceAt(points \o added, b) = BalanceAt(points, b)
    BY <1>1, <1>2, <1>3, BalanceBeforeExtension
  <1> QED BY <1>4 DEF points

LEMMA UserBalanceKept ==
  ASSUME NEW points \in Seq(Point), NEW pt \in Point, NEW b \in Nat, pt.blockNumber > b,
         Ordered(points), UpTo(points, pt.blockNumber)
  PROVE  BalanceAt(Append(points, pt), b) = BalanceAt(points, b)
  <1> DEFINE more == Append(points, pt)
  <1>1. pt.blockNumber \in Nat
    BY DEF Point
  <1>2. Ordered(more)
    BY <1>1, OrderedAppend
  <1>3. PICK one : one = <<pt>>
    OBVIOUS
  <1>4. one \in Seq(Point) /\ Len(one) = 1 /\ one[1] = pt /\ more = points \o one
    BY <1>3, AppendIsConcat
  <1> HIDE DEF more
  <1>5. ~(pt.blockNumber <= b)
    BY <1>1
  <1>6. CASE points # <<>>
    <2>1. \A k \in 1 .. Len(one) :
            one[k].blockNumber <= b => one[k].balance = points[Len(points)].balance
      BY <1>4, <1>5
    <2> QED BY <1>2, <1>4, <1>6, <2>1, BalanceBeforeExtension DEF more
  <1>7. CASE points = <<>>
    <2>1. Len(more) = 1 /\ more[1] = pt /\ more \in Seq(Point) /\ more # <<>>
      BY <1>7 DEF more
    <2>2. PICK r : IsLastBefore(more, b, r)
      BY <2>1, LastBeforeExists
    <2>3. r + 1 = 1
      BY <2>1, <2>2 DEF IsLastBefore
    <2>4. BalanceAt(more, b) = 0
      BY <1>2, <1>5, <2>1, <2>2, <2>3, BalanceOfHistory
    <2> QED BY <1>7, <2>4 DEF BalanceAt, more
  <1> QED BY <1>6, <1>7

\* A step changes no balance of a block that has passed.
LEMMA PastBalancesKept ==
  ASSUME Books, Histories, [Next]_vars, NEW b \in Nat,
         b < block \/ UNCHANGED <<mapSupplyPoints, mapUserPoints>>
  PROVE  /\ BalanceAt(mapSupplyPoints', b) = BalanceAt(mapSupplyPoints, b)
         /\ \A u \in Voters : WveBalanceOfAt(u, b)' = WveBalanceOfAt(u, b)
  <1>1. /\ LocksTypeOK /\ PointsTypeOK /\ UserPointsTypeOK /\ supply \in Nat /\ block \in Nat
        /\ mapUserPoints \in [Voters -> Seq(Point)]
    BY BooksTyped DEF Books, UserPointsTypeOK
  <1>2. CASE UNCHANGED <<mapSupplyPoints, mapUserPoints>>
    BY <1>2 DEF WveBalanceOfAt, HasPointAt
  <1>3. ASSUME b < block, NEW u \in Voters, Transaction(u)
        PROVE  /\ BalanceAt(mapSupplyPoints', b) = BalanceAt(mapSupplyPoints, b)
               /\ \A v \in Voters : WveBalanceOfAt(v, b)' = WveBalanceOfAt(v, b)
    <2>1. PICK new \in Locks : LockChange(u, new)
      BY <1>3, TransactionChanges
    <2>2. PICK curSupply \in Nat, added \in Seq(Point) :
            /\ mapSupplyPoints' = mapSupplyPoints \o added
            /\ AddedAs(added, WalkedPoints(curSupply))
      BY <2>1, ChangeAdds
    <2>3. PICK pt \in Point :
            /\ pt.blockNumber = block
            /\ mapUserPoints' = [mapUserPoints EXCEPT ![u] = Append(@, pt)]
      BY <2>1, ChangeAdds
    <2>4. BalanceAt(mapSupplyPoints', b) = BalanceAt(mapSupplyPoints, b)
      BY <1>1, <1>3, <2>2, SupplyBalanceKept
    <2>5. ASSUME NEW v \in Voters PROVE WveBalanceOfAt(v, b)' = WveBalanceOfAt(v, b)
      <3>1. CASE v # u
        <4>1. mapUserPoints'[v] = mapUserPoints[v]
          BY <1>1, <2>3, <3>1
        <4> QED BY <4>1 DEF WveBalanceOfAt, HasPointAt
      <3>2. CASE v = u
        <4> DEFINE points == mapUserPoints[u]
                   more == Append(points, pt)
        <4>1. mapUserPoints'[u] = more /\ points \in Seq(Point)
          BY <1>1, <2>3
        <4>2. Ordered(points) /\ UpTo(points, pt.blockNumber) /\ pt.blockNumber > b
          BY <1>3, <2>3 DEF Histories
        <4>3. BalanceAt(more, b) = BalanceAt(points, b)
          BY <4>1, <4>2, UserBalanceKept
        <4>4. more \in Seq(Point) /\ Ordered(more)
          <5>1. pt.blockNumber \in Nat
            BY DEF Point
          <5> QED BY <4>1, <4>2, <5>1, OrderedAppend, AppendProperties
        <4>5. WveBalanceOfAt(u, b) = BalanceAt(points, b)
          BY <1>1, WrappedBalance
        <4>6. WveBalanceOfAt(u, b)' = BalanceAt(more, b)
          <5> HIDE DEF more
          <5>1. HasPointAt(u, b)' <=> more # <<>> /\ b >= more[1].blockNumber
            BY <4>1 DEF HasPointAt
          <5>2. WveBalanceOfAt(u, b)' = IF HasPointAt(u, b)' THEN BalanceAt(more, b) ELSE 0
            BY <4>1 DEF WveBalanceOfAt
          <5> QED BY <4>4, <5>1, <5>2, GuardedBalance
        <4> QED BY <3>2, <4>1, <4>3, <4>5, <4>6
      <3> QED BY <3>1, <3>2
    <2> QED BY <2>4, <2>5
  <1>4. CASE b < block /\ Checkpoint
    <2>1. /\ mapSupplyPoints' = mapSupplyPoints \o WalkedPoints(supply)
          /\ UNCHANGED mapUserPoints
      BY <1>4 DEF Checkpoint
    <2>2. WalkedPoints(supply) \in Seq(Point) /\ AddedAs(WalkedPoints(supply), WalkedPoints(supply))
      BY <1>1, WalkEnds DEF AddedAs
    <2>3. BalanceAt(mapSupplyPoints', b) = BalanceAt(mapSupplyPoints, b)
      BY <1>1, <1>4, <2>1, <2>2, SupplyBalanceKept
    <2> QED BY <2>1, <2>3 DEF WveBalanceOfAt, HasPointAt
  <1>5. NextBlock \/ UNCHANGED vars => UNCHANGED <<mapSupplyPoints, mapUserPoints>>
    BY DEF NextBlock, vars
  <1> QED BY <1>2, <1>3, <1>4, <1>5 DEF Next

LEMMA PastBalancesNext ==
  Books /\ Histories /\ PastBalancesAddUp /\ PresentBalancesAddUp' /\ [Next]_vars
    => PastBalancesAddUp'
  <1> SUFFICES ASSUME Books, Histories, PastBalancesAddUp, PresentBalancesAddUp', [Next]_vars
               PROVE  PastBalancesAddUp'
    OBVIOUS
  <1>1. block \in Nat /\ StartBlock \in Nat
    BY VeConstantsAssumption DEF Books, PointsTypeOK
  <1>2. \/ block' = block
        \/ block' = block + 1 /\ UNCHANGED <<mapSupplyPoints, mapUserPoints>>
    <2>1. ASSUME NEW u \in Voters, Transaction(u) PROVE block' = block
      BY <2>1, TransactionChanges DEF LockChange
    <2> QED BY <2>1 DEF Next, Checkpoint, NextBlock, vars
  <1>3. ASSUME NEW b \in StartBlock .. block'
        PROVE  SumOver(Voters, LAMBDA u : WveBalanceOfAt(u, b)') = BalanceAt(mapSupplyPoints', b)
    <2>1. CASE b = block'
      BY <2>1 DEF PresentBalancesAddUp, SumOver
    <2>2. CASE b # block'
      <3>1. /\ b \in Nat /\ b \in StartBlock .. block
            /\ b < block \/ UNCHANGED <<mapSupplyPoints, mapUserPoints>>
        BY <1>1, <1>2, <2>2
      <3>2. /\ BalanceAt(mapSupplyPoints', b) = BalanceAt(mapSupplyPoints, b)
            /\ \A u \in Voters : WveBalanceOfAt(u, b)' = WveBalanceOfAt(u, b)
        BY <3>1, PastBalancesKept
      <3>3. SumOver(Voters, LAMBDA u : WveBalanceOfAt(u, b)) = BalanceAt(mapSupplyPoints, b)
        BY <3>1 DEF PastBalancesAddUp
      <3>4. [u \in Voters |-> WveBalanceOfAt(u, b)'] = [u \in Voters |-> WveBalanceOfAt(u, b)]
        BY <3>2
      <3> QED BY <3>2, <3>3, <3>4 DEF SumOver
    <2> QED BY <2>1, <2>2
  <1> QED BY <1>3 DEF PastBalancesAddUp, SumOver

\* The balances that the accounts had at any block since deployment add up to the supply of
\* that block, however the locks have changed since (balanceOfAt of wveOLAS, totalSupplyAt).
THEOREM VeOLASPastBalancesAddUp == Spec /\ []CheckpointedInTime => []PastBalancesAddUp
  <1>1. Spec => []BalancesFollow
    BY BalancesFollowInit, BalancesFollowNext, BooksAlways, PTL DEF Spec
  <1>2. Books /\ SupplyFollows /\ Histories /\ BalancesFollow => PresentBalancesAddUp
    BY PresentBalances
  <1>3. Init /\ PresentBalancesAddUp => PastBalancesAddUp
    <2>1. Init => \A b \in StartBlock .. block : b = block
      BY VeConstantsAssumption DEF Init
    <2> QED BY <2>1 DEF PastBalancesAddUp, PresentBalancesAddUp, SumOver
  <1>4. Books /\ Histories /\ PastBalancesAddUp /\ PresentBalancesAddUp' /\ [Next]_vars
          => PastBalancesAddUp'
    BY PastBalancesNext
  <1> QED BY <1>1, <1>2, <1>3, <1>4, BooksAlways, HistoriesAlways, SupplyFollowsAlways, PTL
          DEF Spec

\* What the views answer for the blocks that have passed stays.
KeepsPastBalances ==
  \A b \in StartBlock .. block - 1 :
    /\ BalanceAt(mapSupplyPoints, b)' = BalanceAt(mapSupplyPoints, b)
    /\ \A u \in Voters : WveBalanceOfAt(u, b)' = WveBalanceOfAt(u, b)

\* What balanceOfAt and totalSupplyAt answer for a block that has passed never changes, as
\* opposed to the votes (whose time is interpolated between the points of the supply).
THEOREM PastBalancesAreFinal == Spec => [][KeepsPastBalances]_vars
  <1>1. Books /\ Histories /\ [Next]_vars => KeepsPastBalances
    <2> SUFFICES ASSUME Books, Histories, [Next]_vars, NEW b \in StartBlock .. block - 1
                 PROVE  /\ BalanceAt(mapSupplyPoints, b)' = BalanceAt(mapSupplyPoints, b)
                        /\ \A u \in Voters : WveBalanceOfAt(u, b)' = WveBalanceOfAt(u, b)
      BY DEF KeepsPastBalances
    <2>1. b \in Nat /\ b < block
      <3>1. block \in Nat /\ StartBlock \in Nat
        BY VeConstantsAssumption DEF Books, PointsTypeOK
      <3> QED BY <3>1
    <2> QED BY <2>1, PastBalancesKept
  <1> QED BY <1>1, BooksAlways, HistoriesAlways, PTL DEF Spec

(***************************************************************************)
(* Votes and totals at past blocks                                         *)
(***************************************************************************)

\* The views over given histories.
BlockTimeIn(points, time, number, b) ==
  LET i == FindPointByBlock(points, b)
      point == points[i + 1]
      more == i < Len(points) - 1
      dBlock == (IF more THEN points[(i + 1) + 1].blockNumber ELSE number) - point.blockNumber
      dt == (IF more THEN points[(i + 1) + 1].ts ELSE time) - point.ts
  IN  IF dBlock > 0 THEN point.ts + (dt * (b - point.blockNumber)) \div dBlock ELSE point.ts

VotesIn(points, b, t) ==
  IF points # <<>> /\ b >= points[1].blockNumber
  THEN LET pt == points[FindPointByBlock(points, b) + 1]
       IN  PositivePart(pt.bias - pt.slope * (t - pt.ts))
  ELSE 0

TotalIn(changes, point, t) ==
  LET at(i) == StepTime(point.ts, i, t)
      steps == StepsTo(point.ts, t)
      pt[i \in 0 .. steps] ==
        IF i = 0 THEN point
        ELSE LET p == pt[i - 1]
                 bias == p.bias - p.slope * (at(i) - p.ts)
             IN  IF at(i) = t THEN [p EXCEPT !.bias = bias]
                 ELSE [p EXCEPT !.bias = bias, !.slope = @ + changes[at(i)], !.ts = at(i)]
  IN  PositivePart(pt[steps].bias)

LEMMA ViewsAre ==
  ASSUME NEW b
  PROVE  /\ GetBlockTime(b) = BlockTimeIn(mapSupplyPoints, now, block, b)
         /\ GetBlockTime(b)' = BlockTimeIn(mapSupplyPoints', now', block', b)
         /\ \A u : WveGetPastVotes(u, b) = VotesIn(mapUserPoints[u], b, GetBlockTime(b))
         /\ \A u : WveGetPastVotes(u, b)' = VotesIn(mapUserPoints'[u], b, GetBlockTime(b)')
         /\ GetPastTotalSupply(b) =
              TotalIn(mapSlopeChanges, mapSupplyPoints[FindPointByBlock(mapSupplyPoints, b) + 1],
                      GetBlockTime(b))
         /\ GetPastTotalSupply(b)' =
              TotalIn(mapSlopeChanges', mapSupplyPoints'[FindPointByBlock(mapSupplyPoints', b) + 1],
                      GetBlockTime(b)')
         /\ \A point, t : SupplyLockedAt(point, t) = TotalIn(mapSlopeChanges, point, t)
  <1>1. GetBlockTime(b) = BlockTimeIn(mapSupplyPoints, now, block, b)
    BY DEF GetBlockTime, BlockTimeIn, SupplyPoint, totalNumPoints
  <1>2. GetBlockTime(b)' = BlockTimeIn(mapSupplyPoints', now', block', b)
    BY DEF GetBlockTime, BlockTimeIn, SupplyPoint, totalNumPoints
  <1>3. \A u : WveGetPastVotes(u, b) = VotesIn(mapUserPoints[u], b, GetBlockTime(b))
    BY DEF WveGetPastVotes, HasPointAt, GetPastVotes, VotesIn
  <1>4. \A u : WveGetPastVotes(u, b)' = VotesIn(mapUserPoints'[u], b, GetBlockTime(b)')
    BY DEF WveGetPastVotes, HasPointAt, GetPastVotes, VotesIn
  <1>5. \A point, t : SupplyLockedAt(point, t) = TotalIn(mapSlopeChanges, point, t)
    BY DEF SupplyLockedAt, TotalIn
  <1>6. GetPastTotalSupply(b) =
          TotalIn(mapSlopeChanges, mapSupplyPoints[FindPointByBlock(mapSupplyPoints, b) + 1],
                  GetBlockTime(b))
    BY DEF GetPastTotalSupply, SupplyLockedAt, TotalIn, SupplyPoint
  <1>7. GetPastTotalSupply(b)' =
          TotalIn(mapSlopeChanges', mapSupplyPoints'[FindPointByBlock(mapSupplyPoints', b) + 1],
                  GetBlockTime(b)')
    BY DEF GetPastTotalSupply, SupplyLockedAt, TotalIn, SupplyPoint
  <1> QED BY <1>1, <1>2, <1>3, <1>4, <1>5, <1>6, <1>7

\* A total takes no notice of slope changes scheduled for later.
LEMMA TotalOfEarlier ==
  ASSUME NEW point \in Point, NEW t \in 0 .. MaxTime + MAXTIME, point.ts <= t, NEW f, NEW g,
         \A w \in Weeks : w <= t => f[w] = g[w]
  PROVE  TotalIn(f, point, t) = TotalIn(g, point, t)
  <1> DEFINE at(i) == StepTime(point.ts, i, t)
             steps == StepsTo(point.ts, t)
             Step(h, i, p) ==
               LET bias == p.bias - p.slope * (at(i) - p.ts)
               IN  IF at(i) = t THEN [p EXCEPT !.bias = bias]
                   ELSE [p EXCEPT !.bias = bias, !.slope = @ + h[at(i)], !.ts = at(i)]
             Walks(h, pt) == pt = [i \in 0 .. steps |-> IF i = 0 THEN point
                                                        ELSE Step(h, i, pt[i - 1])]
  <1>1. ASSUME NEW i \in 1 .. steps, at(i) # t
        PROVE  f[at(i)] = g[at(i)]
    <2>1. point.ts \in Nat /\ t \in Nat
      BY VeConstantsAssumption DEF Point
    <2>2. at(i) \in Nat /\ at(i) <= t
      BY <2>1, WalkStep
    <2>3. at(i) % WEEK = 0
      <3> DEFINE a == point.ts \div WEEK
      <3>1. a \in Nat /\ i \in Nat
        BY <2>1, VeConstantsAssumption
      <3>2. at(i) = (a + i) * WEEK /\ a + i \in Nat
        BY <1>1, <3>1, VeConstantsAssumption DEF StepTime, WeekStart
      <3> QED BY <3>2, WeekMultiple
    <2>4. at(i) \in Weeks
      BY <2>1, <2>2, <2>3, VeConstantsAssumption DEF Weeks
    <2> QED BY <2>2, <2>4
  <1>2. ASSUME NEW i \in 0 .. steps, i # 0, NEW p PROVE Step(f, i, p) = Step(g, i, p)
    <2>1. i \in 1 .. steps
      <3>1. point.ts \in Nat /\ t \in Nat
        BY VeConstantsAssumption DEF Point
      <3>2. steps \in Nat
        BY <3>1, WalkTimes
      <3> HIDE DEF steps
      <3> QED BY <1>2, <3>2
    <2> QED BY <1>1, <2>1
  <1> HIDE DEF Step, at, steps
  <1>3. ASSUME NEW pt PROVE Walks(f, pt) <=> Walks(g, pt)
    BY <1>2
  <1>4. TotalIn(f, point, t) = PositivePart((CHOOSE pt : Walks(f, pt))[steps].bias)
    BY DEF TotalIn, Step, at, steps
  <1>5. TotalIn(g, point, t) = PositivePart((CHOOSE pt : Walks(g, pt))[steps].bias)
    BY DEF TotalIn, Step, at, steps
  <1>6. (CHOOSE pt : Walks(f, pt)) = (CHOOSE pt : Walks(g, pt))
    <2> HIDE DEF Walks
    <2> QED BY <1>3
  <1> QED BY <1>4, <1>5, <1>6

\* Every part of a span is within it.
LEMMA Interpolated ==
  ASSUME NEW dt \in Nat, NEW x \in Nat, NEW d \in Nat \ {0}, x <= d
  PROVE  (dt * x) \div d \in 0 .. dt
  <1>1. PICK q : q = (dt * x) \div d
    OBVIOUS
  <1>2. dt * x \in Nat /\ dt * x <= dt * d
    <2>1. \A y, z \in Nat : y * z \in Nat
      OBVIOUS
    <2>2. dt * (d - x) \in Nat /\ dt * d = dt * x + dt * (d - x)
      BY <2>1
    <2> QED BY <2>1, <2>2
  <1>3. q \in Nat /\ q * d <= dt * x
    BY <1>1, <1>2
  <1>4. q <= dt
    <2> SUFFICES ASSUME q > dt PROVE FALSE
      BY <1>3
    <2>1. q - dt \in Nat /\ q - dt >= 1 /\ q * d = dt * d + (q - dt) * d
      BY <1>3
    <2>2. (q - dt) * d >= d
      <3>1. q - dt - 1 \in Nat
        BY <2>1
      <3>2. (q - dt - 1) * d \in Nat
        BY <3>1
      <3>3. (q - dt) * d = (q - dt - 1) * d + d
        BY <2>1
      <3> QED BY <3>2, <3>3
    <2>3. dt * d \in Nat /\ q * d \in Int
      BY <1>3
    <2> QED BY <1>2, <1>3, <2>1, <2>2, <2>3
  <1> QED BY <1>1, <1>3, <1>4

\* The points of a history are in the order of their times, none later than the present.
TimesInOrder(points) == \A i \in 1 .. Len(points) - 1 : points[i].ts <= points[i + 1].ts

LEMMA PointFields ==
  ASSUME NEW points \in Seq(Point), NEW i \in 1 .. Len(points)
  PROVE  /\ points[i] \in Point /\ points[i].bias \in Int /\ points[i].slope \in Int
         /\ points[i].ts \in Nat /\ points[i].blockNumber \in Nat
  <1>1. points[i] \in Point
    BY ElementOfSeq
  <1> QED BY <1>1 DEF Point

\* The time given to a block is between the points around it.
LEMMA BlockTimeBounds ==
  ASSUME NEW points \in Seq(Point), points # <<>>, Ordered(points), TimesInOrder(points),
         NEW time \in Nat, \A i \in 1 .. Len(points) : points[i].ts <= time,
         NEW number \in Nat, NEW b \in 0 .. number,
         NEW r, IsLastBefore(points, b, r), points[r + 1].blockNumber <= b
  PROVE  /\ BlockTimeIn(points, time, number, b) \in Nat
         /\ points[r + 1].ts <= BlockTimeIn(points, time, number, b)
         /\ BlockTimeIn(points, time, number, b) <= time
  <1>1. PICK n \in Nat \ {0} : n = Len(points)
    BY LenProperties, EmptySeq
  <1>2. r \in 0 .. n - 1 /\ b \in Nat /\ r + 1 \in 1 .. Len(points)
    BY <1>1 DEF IsLastBefore
  <1>3. FindPointByBlock(points, b) = r
    BY <1>2, SearchFinds
  <1>4. PICK ts \in Nat, from \in Nat :
          ts = points[r + 1].ts /\ from = points[r + 1].blockNumber /\ from <= b
    <2>1. points[r + 1].ts \in Nat /\ points[r + 1].blockNumber \in Nat
      BY <1>2, PointFields
    <2> QED BY <2>1
  <1>5. PICK nextTs \in Nat, next \in Nat :
          /\ nextTs = IF r < n - 1 THEN points[(r + 1) + 1].ts ELSE time
          /\ next = IF r < n - 1 THEN points[(r + 1) + 1].blockNumber ELSE number
          /\ ts <= nextTs /\ nextTs <= time /\ b <= next
    <2>1. CASE r < n - 1
      <3>1. (r + 1) + 1 \in 1 .. Len(points) /\ r + 1 \in 1 .. Len(points) - 1
            /\ r + 1 \in r + 1 .. Len(points) - 1
        BY <1>1, <1>2, <2>1
      <3>2. points[(r + 1) + 1].ts \in Nat /\ points[(r + 1) + 1].blockNumber \in Nat
        BY <3>1, PointFields
      <3>3. ts <= points[(r + 1) + 1].ts /\ points[(r + 1) + 1].ts <= time
        BY <1>4, <3>1 DEF TimesInOrder
      <3>4. points[(r + 1) + 1].blockNumber > b
        BY <3>1 DEF IsLastBefore
      <3>5. b <= points[(r + 1) + 1].blockNumber
        BY <1>2, <3>2, <3>4
      <3> QED BY <2>1, <3>2, <3>3, <3>5
    <2>2. CASE ~(r < n - 1)
      <3>1. ts <= time
        BY <1>2, <1>4
      <3> QED BY <2>2, <3>1
    <2> QED BY <2>1, <2>2
  <1>6. BlockTimeIn(points, time, number, b) =
          IF next - from > 0 THEN ts + ((nextTs - ts) * (b - from)) \div (next - from) ELSE ts
    BY <1>1, <1>3, <1>4, <1>5 DEF BlockTimeIn
  <1>7. CASE next - from > 0
    <2>1. /\ nextTs - ts \in Nat /\ b - from \in Nat /\ next - from \in Nat \ {0}
          /\ b - from <= next - from
      <3>1. b \in Nat /\ from <= b /\ b <= next /\ ts <= nextTs
        BY <1>2, <1>4, <1>5
      <3> QED BY ONLY <3>1, <1>7, b \in Nat, ts \in Nat, from \in Nat, nextTs \in Nat,
                      next \in Nat
    <2>2. PICK q \in 0 .. nextTs - ts : q = ((nextTs - ts) * (b - from)) \div (next - from)
      BY <2>1, Interpolated
    <2>3. BlockTimeIn(points, time, number, b) = ts + q
      BY <1>6, <1>7, <2>2
    <2>4. ts + q \in Nat /\ ts <= ts + q /\ ts + q <= time
      BY ONLY <1>5, ts \in Nat, nextTs \in Nat, time \in Nat, q \in 0 .. nextTs - ts
    <2> QED BY <1>4, <2>3, <2>4
  <1>8. CASE ~(next - from > 0)
    <2>1. ts <= ts /\ ts <= time
      BY ONLY <1>5, ts \in Nat, nextTs \in Nat, time \in Nat
    <2> QED BY <1>4, <1>6, <1>8, <2>1
  <1> QED BY <1>7, <1>8

\* The times and blocks of the points of a walk.
LEMMA WalkPoints ==
  ASSUME LocksTypeOK, PointsTypeOK, NEW curSupply \in Nat
  PROVE  LET walked == WalkedPoints(curSupply)
         IN  \A i \in 1 .. WalkSteps :
               /\ walked[i].ts = StepTime(LastPoint.ts, i, now)
               /\ walked[i].ts = now => walked[i].blockNumber = block
               /\ walked[i].ts # now => Carried(walked[i])
  <1>1. PICK pt \in [0 .. WalkSteps -> Point] :
           /\ pt[0] = LastPoint
           /\ \A i \in 1 .. WalkSteps : pt[i] = WalkTo(pt[i - 1], i, curSupply)
           /\ WalkedPoints(curSupply) = [i \in 1 .. WalkSteps |-> pt[i]]
           /\ WalkSteps \in Nat \ {0}
    BY WalkedPointsDef
  <1>2. PICK n \in Nat \ {0} : n = WalkSteps
    BY <1>1
  <1>3. PICK from \in Nat : from = LastPoint.ts /\ from <= now /\ now \in Nat
                            /\ n = StepsTo(from, now)
    BY <1>2, LastPointTyped DEF Point, WalkSteps
  <1> DEFINE at(i) == StepTime(from, i, now)
             T == {i \in 0 .. n : i # 0 => /\ pt[i].ts = at(i)
                                           /\ pt[i].ts = now => pt[i].blockNumber = block
                                           /\ pt[i].ts # now => Carried(pt[i])}
  <1>4. 0 \in T
    OBVIOUS
  <1>5. ASSUME NEW i \in 0 .. n, i \in T, i < n PROVE i + 1 \in T
    <2>1. PICK j \in 1 .. n : j = i + 1 /\ j - 1 = i /\ j \in 0 .. n /\ j # 0
      BY <1>5
    <2>2. /\ at(j) \in Nat /\ at(j) <= now /\ FromTime(from, j, now) <= at(j)
          /\ FromTime(from, j, now) \in Nat
      BY <1>3, <2>1, WalkStep
    <2>3. pt[i] \in Point /\ pt[j] = WalkTo(pt[i], j, curSupply)
      BY <1>1, <1>2, <2>1
    <2> DEFINE q == Advance(pt[i], at(j))
    <2>4. at(j) \in 0 .. now
      BY <1>3, <2>2
    <2>5. /\ q \in Point /\ q.ts = at(j) /\ q.blockNumber = pt[i].blockNumber
          /\ q.balance = pt[i].balance
      BY <2>3, <2>4, AdvanceTyped
    <2>6. pt[j] = IF q.ts = now THEN [q EXCEPT !.blockNumber = block, !.balance = curSupply] ELSE q
      BY <1>3, <2>3 DEF WalkTo
    <2>7. at(j) # now => Carried(pt[i])
      <3>1. CASE i = 0
        BY <1>1, <3>1 DEF Carried
      <3>2. CASE i # 0 /\ at(j) # now
        <4>1. FromTime(from, j, now) = at(i)
          BY <2>1, <3>2 DEF FromTime
        <4>2. pt[i].ts = at(i) /\ at(i) # now
          BY <1>3, <1>5, <2>2, <3>2, <4>1
        <4> QED BY <1>5, <3>2, <4>2
      <3> QED BY <3>1, <3>2
    <2> HIDE DEF q, at
    <2>8. CASE q.ts = now
      <3>1. pt[j].ts = now /\ pt[j].blockNumber = block
        BY <2>5, <2>6, <2>8 DEF Point
      <3> QED BY <2>1, <2>5, <2>8, <3>1
    <2>9. CASE q.ts # now
      <3>1. pt[j].ts = at(j) /\ Carried(pt[j])
        BY <2>5, <2>6, <2>7, <2>9 DEF Carried
      <3> QED BY <2>1, <2>5, <2>9, <3>1
    <2> QED BY <2>8, <2>9
  <1> HIDE DEF T
  <1>6. \A i \in 0 .. n : i \in T
    BY <1>4, <1>5, IntervalInduction
  <1>7. ASSUME NEW i \in 1 .. n
        PROVE  /\ pt[i].ts = at(i)
               /\ pt[i].ts = now => pt[i].blockNumber = block
               /\ pt[i].ts # now => Carried(pt[i])
    <2>1. i \in T /\ i # 0
      BY <1>6
    <2> QED BY <2>1 DEF T
  <1>8. \A i \in 1 .. n : WalkedPoints(curSupply)[i] = pt[i]
    BY <1>1, <1>2
  <1> QED BY <1>2, <1>3, <1>7, <1>8

\* They go forward to the present, which only the last one has reached.
LEMMA WalkInTime ==
  ASSUME LocksTypeOK, PointsTypeOK, NEW curSupply \in Nat
  PROVE  LET walked == WalkedPoints(curSupply)
         IN  /\ \A i \in 1 .. WalkSteps : LastPoint.ts <= walked[i].ts /\ walked[i].ts <= now
             /\ \A i \in 1 .. WalkSteps - 1 :
                  walked[i].ts <= walked[i + 1].ts /\ Carried(walked[i])
             /\ now <= WeekStart(LastPoint.ts) + MAX_STEPS * WEEK =>
                  walked[WalkSteps].ts = now /\ walked[WalkSteps].blockNumber = block
             /\ totalNumPoints = 0 => WalkSteps = 1
  <1>1. PICK n \in Nat \ {0} : n = WalkSteps
    BY WalkEnds
  <1>2. PICK from \in Nat : from = LastPoint.ts /\ from <= now /\ now \in Nat
                            /\ n = StepsTo(from, now)
    BY <1>1, LastPointTyped DEF Point, WalkSteps
  <1> DEFINE walked == WalkedPoints(curSupply)
             at(i) == StepTime(from, i, now)
  <1>3. \A i \in 1 .. n : /\ walked[i].ts = at(i)
                          /\ walked[i].ts = now => walked[i].blockNumber = block
                          /\ walked[i].ts # now => Carried(walked[i])
    BY <1>1, <1>2, WalkPoints
  <1>4. \A i \in 1 .. n : /\ at(i) \in Nat /\ at(i) <= now /\ from <= FromTime(from, i, now)
                          /\ FromTime(from, i, now) <= at(i) /\ FromTime(from, i, now) \in Nat
    BY <1>2, WalkStep
  <1>5. /\ \A i \in 1 .. n - 1 : at(i) = WeekStart(from) + i * WEEK /\ at(i) < now
        /\ at(n) = IF now <= WeekStart(from) + MAX_STEPS * WEEK THEN now
                   ELSE WeekStart(from) + MAX_STEPS * WEEK
    BY <1>2, WalkTimes
  <1> HIDE DEF walked, at
  <1>6. ASSUME NEW i \in 1 .. n PROVE from <= walked[i].ts /\ walked[i].ts <= now
    BY <1>2, <1>3, <1>4
  <1>7. ASSUME NEW i \in 1 .. n - 1
        PROVE  walked[i].ts <= walked[i + 1].ts /\ Carried(walked[i])
    <2>1. i \in 1 .. n /\ i + 1 \in 1 .. n /\ (i + 1) - 1 = i /\ i + 1 # 1
      BY <1>7
    <2>2. FromTime(from, i + 1, now) = at(i)
      BY <2>1 DEF FromTime, at
    <2>3. at(i) <= at(i + 1) /\ at(i) # now
      BY <1>2, <1>4, <1>5, <2>1, <2>2
    <2> QED BY <1>3, <2>1, <2>3
  <1>8. ASSUME now <= WeekStart(from) + MAX_STEPS * WEEK
        PROVE  walked[n].ts = now /\ walked[n].blockNumber = block
    <2>1. n \in 1 .. n /\ at(n) = now
      BY <1>5, <1>8
    <2> QED BY <1>3, <2>1
  <1>9. ASSUME totalNumPoints = 0 PROVE n = 1
    <2> SUFFICES ASSUME n # 1 PROVE FALSE
      OBVIOUS
    <2>1. from = now
      BY <1>2, <1>9 DEF LastPoint, EmptyPoint
    <2>2. 1 \in 1 .. n - 1
      BY <1>1
    <2>3. WeekStart(now) + 1 * WEEK < now
      BY <1>5, <2>1, <2>2
    <2>4. WeekStart(now) \in Nat /\ now < WeekStart(now) + WEEK /\ WEEK \in Nat
      BY <1>2, WeekStartProperties, VeConstantsAssumption
    <2> QED BY <1>2, <2>3, <2>4
  <1> QED BY <1>1, <1>2, <1>6, <1>7, <1>8, <1>9 DEF walked

Timely ==
  /\ TimesInOrder(mapSupplyPoints)
  /\ \A i \in 1 .. Len(mapSupplyPoints) : mapSupplyPoints[i].ts <= now

\* No account has a point of a later block than the last point of the supply.
InStep == \A u \in Voters : UpTo(mapUserPoints[u], SupplyPoint(totalNumPoints).blockNumber)

\* What a transaction or a checkpoint adds and what it leaves alone.
Adds(added, curSupply) ==
  /\ mapSupplyPoints' = mapSupplyPoints \o added /\ AddedAs(added, WalkedPoints(curSupply))
  /\ UNCHANGED <<now, block>>
  /\ \A w \in Weeks : w <= now => mapSlopeChanges'[w] = mapSlopeChanges[w]
  /\ \A u \in Voters :
       \/ mapUserPoints'[u] = mapUserPoints[u]
       \/ \E pt \in Point : /\ pt.blockNumber = block
                            /\ mapUserPoints'[u] = Append(mapUserPoints[u], pt)

LEMMA StepAdds ==
  ASSUME Books, Checkpoint \/ \E u \in Voters : Transaction(u)
  PROVE  \E curSupply \in Nat, added \in Seq(Point) : Adds(added, curSupply)
  <1>1. CASE Checkpoint
    <2>1. /\ mapSupplyPoints' = mapSupplyPoints \o WalkedPoints(supply)
          /\ UNCHANGED <<now, block, mapSlopeChanges, mapUserPoints>>
      BY <1>1 DEF Checkpoint
    <2>2. supply \in Nat /\ WalkedPoints(supply) \in Seq(Point)
      BY BooksTyped, WalkEnds DEF Books
    <2>3. AddedAs(WalkedPoints(supply), WalkedPoints(supply))
      BY DEF AddedAs
    <2>4. Adds(WalkedPoints(supply), supply)
      BY <2>1, <2>3 DEF Adds
    <2> QED BY <2>2, <2>4
  <1>2. ASSUME NEW u \in Voters, Transaction(u)
        PROVE  \E curSupply \in Nat, added \in Seq(Point) : Adds(added, curSupply)
    <2>1. PICK new \in Locks : LockChange(u, new)
      BY <1>2, TransactionChanges
    <2>2. PICK curSupply \in Nat, added \in Seq(Point) :
            /\ mapSupplyPoints' = mapSupplyPoints \o added
            /\ AddedAs(added, WalkedPoints(curSupply))
      BY <2>1, ChangeAdds
    <2>3. PICK pt \in Point :
            /\ pt.blockNumber = block
            /\ mapUserPoints' = [mapUserPoints EXCEPT ![u] = Append(@, pt)]
      BY <2>1, ChangeAdds
    <2>4. UNCHANGED <<now, block>>
      BY <2>1 DEF LockChange
    <2>5. ASSUME NEW v \in Voters
          PROVE  \/ mapUserPoints'[v] = mapUserPoints[v]
                 \/ \E q \in Point : /\ q.blockNumber = block
                                     /\ mapUserPoints'[v] = Append(mapUserPoints[v], q)
      <3>1. mapUserPoints \in [Voters -> Seq(Point)]
        BY DEF Books, UserPointsTypeOK
      <3>2. CASE v = u
        BY <2>3, <3>1, <3>2
      <3>3. CASE v # u
        BY <2>3, <3>1, <3>3
      <3> QED BY <3>2, <3>3
    <2>6. ASSUME NEW w \in Weeks, w <= now PROVE mapSlopeChanges'[w] = mapSlopeChanges[w]
      <3>1. mapSlopeChanges' = NewSlopeChanges(mapLockedBalances[u], new)
        BY <2>1, LockChangeKeepsBooks
      <3>2. /\ mapLockedBalances[u].endTime > now => w # mapLockedBalances[u].endTime
            /\ new.endTime > now => w # new.endTime
        <4>1. now \in Nat /\ mapLockedBalances[u].endTime \in Nat /\ new.endTime \in Nat
          BY BooksTyped DEF Locks
        <4>2. w \in Nat
          BY DEF Weeks
        <4> QED BY <2>6, <4>1, <4>2
      <3>3. mapSlopeChanges \in [Weeks -> Int]
        BY DEF Books, PointsTypeOK
      <3> QED BY <3>1, <3>2, <3>3 DEF NewSlopeChanges
    <2>7. Adds(added, curSupply)
      BY <2>2, <2>4, <2>5, <2>6 DEF Adds
    <2> QED BY <2>7
  <1> QED BY <1>1, <1>2

LEMMA AddedInTime ==
  ASSUME LocksTypeOK, PointsTypeOK, Timely, NEW curSupply \in Nat, NEW added \in Seq(Point),
         AddedAs(added, WalkedPoints(curSupply))
  PROVE  /\ TimesInOrder(mapSupplyPoints \o added)
         /\ \A i \in 1 .. Len(mapSupplyPoints \o added) : (mapSupplyPoints \o added)[i].ts <= now
  <1> DEFINE points == mapSupplyPoints
             both == points \o added
  <1>1. PICK m \in Nat \ {0}, n \in Nat \ {0} : m = Len(points) /\ n = WalkSteps /\ n = Len(added)
    <2>1. points \in Seq(Point) /\ points # <<>>
      BY DEF PointsTypeOK
    <2>2. Len(added) = WalkSteps /\ WalkSteps \in Nat \ {0}
      BY WalkEnds DEF AddedAs
    <2> QED BY <2>1, <2>2, LenProperties, EmptySeq
  <1>2. /\ points \in Seq(Point) /\ points # <<>> /\ now \in Nat
    BY LastPointTyped DEF PointsTypeOK
  <1>3. /\ \A i \in 1 .. n : LastPoint.ts <= added[i].ts /\ added[i].ts <= now
        /\ \A i \in 1 .. n - 1 : added[i].ts <= added[i + 1].ts
    <2> DEFINE walked == WalkedPoints(curSupply)
    <2>1. /\ \A i \in 1 .. n : LastPoint.ts <= walked[i].ts /\ walked[i].ts <= now
          /\ \A i \in 1 .. n - 1 : walked[i].ts <= walked[i + 1].ts
      BY <1>1, WalkInTime
    <2>2. \A i \in 1 .. n : added[i].ts = walked[i].ts
      BY <1>1 DEF AddedAs
    <2> HIDE DEF walked
    <2>3. \A i \in 1 .. n - 1 : i \in 1 .. n /\ i + 1 \in 1 .. n
      BY <1>1
    <2> QED BY <2>1, <2>2, <2>3
  <1>4. points[m].ts <= LastPoint.ts
    <2>1. m \in 1 .. Len(points) /\ points[m].ts <= now
      BY <1>1 DEF Timely
    <2>2. CASE totalNumPoints > 0
      <3>1. LastPoint = points[m]
        <4>1. (m - 1) + 1 = m
          OBVIOUS
        <4> QED BY <1>1, <2>2, <4>1 DEF LastPoint, SupplyPoint, totalNumPoints
      <3>2. points[m].ts \in Nat
        BY <1>2, <2>1, PointFields
      <3> QED BY <3>1, <3>2
    <2>3. CASE ~(totalNumPoints > 0)
      <3>1. LastPoint.ts = now
        BY <2>3 DEF LastPoint, EmptyPoint
      <3> QED BY <2>1, <3>1
    <2> QED BY <2>2, <2>3
  <1>5. /\ Len(both) = m + n
        /\ \A i \in 1 .. m + n : both[i] = IF i <= m THEN points[i] ELSE added[i - m]
    BY ONLY ConcatProperties, added \in Seq(Point), <1>1, <1>2
  <1>6. /\ TimesInOrder(points) /\ \A i \in 1 .. m : points[i].ts <= now
    BY <1>1 DEF Timely
  <1>7. /\ \A i \in 1 .. m : points[i].ts \in Nat
        /\ \A i \in 1 .. n : added[i].ts \in Nat
        /\ LastPoint.ts \in Nat
    BY <1>1, <1>2, PointFields, LastPointTyped DEF Point
  <1> HIDE DEF both, points
  <1>8. ASSUME NEW i \in 1 .. m + n PROVE both[i].ts <= now
    <2>1. CASE i <= m
      BY <1>5, <1>6, <2>1
    <2>2. CASE ~(i <= m)
      <3>1. i - m \in 1 .. n
        BY <2>2
      <3> QED BY <1>3, <1>5, <2>2, <3>1
    <2> QED BY <2>1, <2>2
  <1>9. ASSUME NEW i \in 1 .. m + n - 1 PROVE both[i].ts <= both[i + 1].ts
    <2>0. i \in 1 .. m + n /\ i + 1 \in 1 .. m + n
      BY <1>9
    <2>1. CASE i + 1 <= m
      <3>1. i \in 1 .. Len(points) - 1 /\ i <= m
        BY <1>1, <2>1
      <3>2. points[i].ts <= points[i + 1].ts
        BY <1>6, <3>1 DEF TimesInOrder
      <3> QED BY <1>5, <2>0, <2>1, <3>1, <3>2
    <2>2. CASE i = m
      <3>1. /\ i <= m /\ ~(i + 1 <= m) /\ (i + 1) - m = 1 /\ 1 \in 1 .. n
        BY <2>2
      <3>2. both[i] = points[m] /\ both[i + 1] = added[1]
        BY <1>5, <2>0, <2>2, <3>1
      <3>3. points[m].ts \in Nat /\ added[1].ts \in Nat /\ LastPoint.ts <= added[1].ts
        BY <1>3, <1>7, <3>1
      <3> QED BY <1>4, <1>7, <3>2, <3>3
    <2>3. CASE ~(i <= m)
      <3>1. i - m \in 1 .. n - 1 /\ ~(i + 1 <= m) /\ (i + 1) - m = (i - m) + 1
        BY <2>3
      <3>2. both[i] = added[i - m] /\ both[i + 1] = added[(i - m) + 1]
        BY <1>5, <2>0, <2>3, <3>1
      <3> QED BY <1>3, <3>1, <3>2
    <2>4. i + 1 <= m \/ i = m \/ ~(i <= m)
      OBVIOUS
    <2> QED BY <2>1, <2>2, <2>3, <2>4
  <1>10. /\ TimesInOrder(both) /\ \A i \in 1 .. Len(both) : both[i].ts <= now
    BY <1>5, <1>8, <1>9 DEF TimesInOrder
  <1> QED BY <1>10 DEF both, points

LEMMA TimelyAlways == Spec => []Timely
  <1>1. Init => Timely
    <2> SUFFICES ASSUME Init PROVE Timely
      OBVIOUS
    <2>1. PICK pt : pt = EmptyPoint(StartTime, StartBlock)
      OBVIOUS
    <2>2. mapSupplyPoints = <<pt>> /\ pt.ts = StartTime /\ now = StartTime /\ StartTime \in Nat
      BY <2>1, VeConstantsAssumption DEF Init, EmptyPoint
    <2>3. Len(mapSupplyPoints) = 1 /\ mapSupplyPoints[1].ts = now /\ now \in Nat
      BY <2>2
    <2> QED BY <2>3 DEF Timely, TimesInOrder
  <1>2. Books /\ Timely /\ [Next]_vars => Timely'
    <2> SUFFICES ASSUME Books, Timely, [Next]_vars PROVE Timely'
      OBVIOUS
    <2>1. CASE Checkpoint \/ \E u \in Voters : Transaction(u)
      <3>1. PICK curSupply \in Nat, added \in Seq(Point) : Adds(added, curSupply)
        BY <2>1, StepAdds
      <3>2. /\ mapSupplyPoints' = mapSupplyPoints \o added /\ now' = now
            /\ AddedAs(added, WalkedPoints(curSupply))
        BY <3>1 DEF Adds
      <3>3. LocksTypeOK /\ PointsTypeOK
        BY DEF Books
      <3>4. /\ TimesInOrder(mapSupplyPoints \o added)
            /\ \A i \in 1 .. Len(mapSupplyPoints \o added) :
                 (mapSupplyPoints \o added)[i].ts <= now
        BY <3>2, <3>3, AddedInTime
      <3>5. TimesInOrder(mapSupplyPoints')
            /\ \A i \in 1 .. Len(mapSupplyPoints') : mapSupplyPoints'[i].ts <= now'
        BY ONLY <3>2, <3>4
      <3> QED BY <3>5 DEF Timely, TimesInOrder
    <2>2. CASE NextBlock
      <3>1. PICK d \in BlockTimes : now' = now + d
        BY <2>2 DEF NextBlock
      <3>2. now \in Nat /\ d \in Nat /\ UNCHANGED mapSupplyPoints
        BY <2>2, BooksTyped, VeConstantsAssumption DEF NextBlock
      <3>3. \A i \in 1 .. Len(mapSupplyPoints) : mapSupplyPoints[i].ts \in Nat
        <4>1. mapSupplyPoints \in Seq(Point)
          BY DEF Books, PointsTypeOK
        <4> QED BY <4>1, PointFields
      <3>4. \A i \in 1 .. Len(mapSupplyPoints) : mapSupplyPoints[i].ts <= now'
        BY <3>1, <3>2, <3>3 DEF Timely
      <3> QED BY <3>2, <3>4 DEF Timely, TimesInOrder
    <2>3. CASE UNCHANGED vars
      BY <2>3 DEF vars, Timely, TimesInOrder
    <2> QED BY <2>1, <2>2, <2>3 DEF Next
  <1> QED BY <1>1, <1>2, BooksAlways, PTL DEF Spec

\* A checkpoint in time brings the history of the supply to the present block.
LEMMA AddedReachesPresent ==
  ASSUME Books, SupplyFollows, CheckpointedInTime, NEW curSupply \in Nat,
         NEW added \in Seq(Point), AddedAs(added, WalkedPoints(curSupply))
  PROVE  LET both == mapSupplyPoints \o added
         IN  both[Len(both)].blockNumber = block /\ both[Len(both)].ts = now
  <1> DEFINE points == mapSupplyPoints
             both == points \o added
             walked == WalkedPoints(curSupply)
  <1>1. LocksTypeOK /\ PointsTypeOK /\ points \in Seq(Point)
    BY DEF Books, PointsTypeOK
  <1>2. PICK n \in Nat \ {0}, m \in Nat : /\ n = WalkSteps /\ n = Len(added) /\ m = Len(points)
                                          /\ n = Len(walked)
    <2>1. Len(added) = WalkSteps /\ WalkSteps \in Nat \ {0} /\ Len(walked) = WalkSteps
      BY <1>1, WalkEnds DEF AddedAs
    <2> QED BY <1>1, <2>1, LenProperties
  <1>3. walked[n].ts = now /\ walked[n].blockNumber = block
    BY <1>1, <1>2, WalkStarts, WalkInTime
  <1>4. n \in 1 .. Len(walked)
    BY <1>2
  <1>5. added[n].ts = walked[n].ts /\ added[n].blockNumber = walked[n].blockNumber
    BY <1>4 DEF AddedAs
  <1>6. /\ Len(both) = m + n
        /\ \A i \in 1 .. m + n : both[i] = IF i <= m THEN points[i] ELSE added[i - m]
    <2>1. points \in Seq(Point) /\ m = Len(points) /\ n = Len(added)
      BY <1>1, <1>2
    <2> QED BY ONLY ConcatProperties, added \in Seq(Point), <2>1
  <1>7. m + n \in 1 .. m + n /\ ~(m + n <= m) /\ (m + n) - m = n
    OBVIOUS
  <1> HIDE DEF both, walked
  <1>8. both[Len(both)] = added[n]
    BY <1>6, <1>7
  <1> QED BY <1>3, <1>5, <1>8 DEF both

LEMMA InStepAlways == Spec /\ []CheckpointedInTime => []InStep
  <1>1. Init => InStep
    BY DEF Init, InStep, UpTo
  <1>2. Books /\ SupplyFollows /\ CheckpointedInTime /\ InStep /\ Histories' /\ [Next]_vars
          => InStep'
    <2> SUFFICES ASSUME Books, SupplyFollows, CheckpointedInTime, InStep, Histories', [Next]_vars
                 PROVE  InStep'
      OBVIOUS
    <2>1. CASE Checkpoint \/ \E u \in Voters : Transaction(u)
      <3>1. PICK curSupply \in Nat, added \in Seq(Point) : Adds(added, curSupply)
        BY <2>1, StepAdds
      <3> DEFINE both == mapSupplyPoints \o added
      <3>2. both[Len(both)].blockNumber = block
        BY <3>1, AddedReachesPresent DEF Adds
      <3>3. both \in Seq(Point)
        BY ConcatProperties DEF Books, PointsTypeOK
      <3>4. mapSupplyPoints' = both /\ block' = block
        BY <3>1 DEF Adds
      <3> HIDE DEF both
      <3>5. SupplyPoint(totalNumPoints)'.blockNumber = block'
        <4>1. (Len(both) - 1) + 1 = Len(both)
          BY <3>3, LenProperties
        <4> QED BY <3>2, <3>4, <4>1 DEF SupplyPoint, totalNumPoints
      <3> QED BY <3>5 DEF Histories, InStep, UpTo
    <2>2. UNCHANGED <<mapSupplyPoints, mapUserPoints>> => InStep'
      BY DEF InStep, UpTo, SupplyPoint, totalNumPoints
    <2>3. CASE NextBlock \/ UNCHANGED vars
      BY <2>2, <2>3 DEF NextBlock, vars
    <2> QED BY <2>1, <2>3 DEF Next
  <1> QED BY <1>1, <1>2, BooksAlways, HistoriesAlways, SupplyFollowsAlways, PTL DEF Spec

\* By a history that ends before block b, an account votes with its present lock.
LEMMA VotesOfHistory ==
  ASSUME Books, Histories, NEW u \in Voters, NEW b \in Nat, UpTo(mapUserPoints[u], b),
         NEW t \in Nat
  PROVE  VotesIn(mapUserPoints[u], b, t) = BiasOf(mapLockedBalances[u], t)
  <1> DEFINE points == mapUserPoints[u]
             last == LastUserPoint(u)
  <1>1. points \in Seq(Point) /\ Ordered(points)
    BY DEF Books, UserPointsTypeOK, Histories
  <1>2. BiasOf(mapLockedBalances[u], t) = PositivePart(last.bias - last.slope * (t - last.ts))
    BY VotesOfLock DEF BalanceOfLocked
  <1>3. CASE points = <<>>
    <2>1. last.bias = 0 /\ last.slope = 0 /\ last.ts = 0
      BY <1>3 DEF LastUserPoint, EmptyPoint
    <2> HIDE DEF last
    <2>2. last.bias - last.slope * (t - last.ts) = 0
      BY <2>1
    <2> QED BY <1>2, <1>3, <2>2 DEF VotesIn, PositivePart
  <1>4. CASE points # <<>>
    <2>1. PICK n \in Nat \ {0} : n = Len(points) /\ n \in 1 .. Len(points) /\ 1 \in 1 .. Len(points)
      <3>1. Len(points) \in Nat /\ Len(points) # 0
        BY <1>1, <1>4, LenProperties, EmptySeq
      <3> QED BY <3>1
    <2>2. IsLastBefore(points, b, Len(points) - 1)
      BY <1>1, <1>4, LastOfAll
    <2>3. FindPointByBlock(points, b) = n - 1
      BY <1>1, <1>4, <2>1, <2>2, SearchFinds
    <2>4. points[1].blockNumber <= b /\ points[1].blockNumber \in Nat
      BY <1>1, <2>1, PointFields DEF UpTo
    <2>5. b >= points[1].blockNumber
      BY <2>4
    <2>6. last = points[n]
      BY <1>4, <2>1 DEF LastUserPoint
    <2>7. (n - 1) + 1 = n
      OBVIOUS
    <2> HIDE DEF last, points
    <2> QED BY <1>2, <1>4, <2>3, <2>5, <2>6, <2>7 DEF VotesIn, points
  <1> QED BY <1>3, <1>4

\* What an account does in a later block leaves the votes of an earlier one.
LEMMA VotesBeforeAppend ==
  ASSUME NEW points \in Seq(Point), NEW pt \in Point, NEW b \in Nat, pt.blockNumber > b,
         Ordered(points), UpTo(points, pt.blockNumber), NEW t
  PROVE  VotesIn(Append(points, pt), b, t) = VotesIn(points, b, t)
  <1> DEFINE more == Append(points, pt)
  <1>1. pt.blockNumber \in Nat /\ ~(b >= pt.blockNumber)
    BY DEF Point
  <1>2. Ordered(more) /\ more \in Seq(Point) /\ more # <<>>
    BY <1>1, OrderedAppend, AppendProperties
  <1>3. CASE points = <<>>
    <2>1. more[1] = pt
      BY <1>3
    <2> HIDE DEF more
    <2>2. VotesIn(more, b, t) = 0
      BY <1>1, <2>1 DEF VotesIn
    <2>3. VotesIn(points, b, t) = 0
      BY <1>3 DEF VotesIn
    <2> QED BY <2>2, <2>3 DEF more
  <1>4. CASE points # <<>>
    <2>1. PICK n \in Nat \ {0} : n = Len(points)
      BY <1>4, LenProperties, EmptySeq
    <2>2. PICK one : one = <<pt>>
      OBVIOUS
    <2>3. one \in Seq(Point) /\ Len(one) = 1 /\ one[1] = pt /\ more = points \o one
      BY <2>2, AppendIsConcat
    <2> HIDE DEF more
    <2>4. PICK r \in 0 .. n - 1 : IsLastBefore(points, b, r)
      BY <1>4, <2>1, LastBeforeExists DEF IsLastBefore
    <2>5. PICK s : IsLastBefore(more, b, s)
      BY <1>2, LastBeforeExists
    <2>6. Continues(points, one, b, r, s)
      <3>1. Ordered(points \o one) /\ IsLastBefore(points \o one, b, s)
        BY <1>2, <2>3, <2>5
      <3> QED BY <1>4, <2>3, <2>4, <3>1, LastOfExtension
    <2>7. s = r /\ more[s + 1] = points[r + 1]
      <3>1. \A k \in 1 .. Len(one) : ~(one[k].blockNumber <= b)
        BY <1>1, <2>3
      <3> QED BY <2>3, <2>6, <3>1 DEF Continues
    <2>8. FindPointByBlock(points, b) = r /\ FindPointByBlock(more, b) = s
      BY <1>2, <1>4, <2>4, <2>5, SearchFinds
    <2>9. more[1] = points[1]
      BY <2>1, AppendProperties DEF more
    <2> QED BY <1>2, <1>4, <2>7, <2>8, <2>9 DEF VotesIn, more
  <1> QED BY <1>3, <1>4

\* The voters' side and the governor's side of a block.
VotesAt(b) == SumOver(Voters, LAMBDA u : WveGetPastVotes(u, b))

PresentVotesAddUp ==
  \A b \in StartBlock .. block :
    SupplyPoint(totalNumPoints).blockNumber <= b => VotesAt(b) = GetPastTotalSupply(b)

\* The blocks since the last point of the supply.
LEMMA PresentVotes ==
  ASSUME Books, SupplyFollows, Histories, Timely, InStep
  PROVE  PresentVotesAddUp
  <1> SUFFICES ASSUME NEW b \in StartBlock .. block,
                      SupplyPoint(totalNumPoints).blockNumber <= b
               PROVE  VotesAt(b) = GetPastTotalSupply(b)
    BY DEF PresentVotesAddUp
  <1> DEFINE points == mapSupplyPoints
             t == GetBlockTime(b)
  <1>1. /\ block \in Nat /\ now \in Nat /\ now <= MaxTime /\ b \in Nat /\ b \in 0 .. block
        /\ points \in Seq(Point) /\ points # <<>>
    <2>1. StartBlock \in Nat /\ block \in Nat
      BY VeConstantsAssumption DEF Books, PointsTypeOK
    <2> QED BY <2>1, LastPointTyped DEF Books, PointsTypeOK
  <1>2. PICK n \in Nat \ {0} : n = Len(points) /\ n \in 1 .. Len(points) /\ (n - 1) + 1 = n
    <2>1. Len(points) \in Nat /\ Len(points) # 0
      BY <1>1, LenProperties, EmptySeq
    <2> QED BY <2>1
  <1>3. SupplyPoint(totalNumPoints) = points[n]
    BY <1>2 DEF SupplyPoint, totalNumPoints
  <1>4. UpTo(points, b)
    <2>1. ASSUME NEW i \in 1 .. Len(points) PROVE points[i].blockNumber <= b
      <3>1. points[i].blockNumber <= points[n].blockNumber /\ points[n].blockNumber <= b
        BY <1>2, <1>3 DEF Histories, Ordered
      <3>2. points[i].blockNumber \in Nat /\ points[n].blockNumber \in Nat
        BY <1>1, <1>2, PointFields
      <3> QED BY <1>1, <3>1, <3>2
    <2> QED BY <2>1 DEF UpTo
  <1>5. IsLastBefore(points, b, n - 1) /\ FindPointByBlock(points, b) = n - 1
    BY <1>1, <1>2, <1>4, LastOfAll, SearchFinds DEF Histories
  <1>6. t \in Nat /\ points[n].ts <= t /\ t <= now
    <2>1. /\ Ordered(points) /\ TimesInOrder(points)
          /\ \A i \in 1 .. Len(points) : points[i].ts <= now
          /\ points[(n - 1) + 1].blockNumber <= b
      BY <1>2, <1>3 DEF Histories, Timely
    <2>2. t = BlockTimeIn(points, now, block, b)
      BY ViewsAre
    <2> HIDE DEF t
    <2> QED BY <1>1, <1>2, <1>5, <2>1, <2>2, BlockTimeBounds
  <1> HIDE DEF t, points
  <1>7. GetPastTotalSupply(b) = BiasSum(mapLockedBalances, t)
    <2>1. GetPastTotalSupply(b) = SupplyLockedAt(points[n], t)
      BY <1>2, <1>5, ViewsAre DEF t, points
    <2>2. points[n] \in Point /\ points[n].ts \in Nat
      BY <1>1, <1>2, PointFields
    <2>3. t \in points[n].ts .. MaxTime + MAXTIME
      <3>1. MaxTime \in Nat /\ MAXTIME \in Nat
        BY VeConstantsAssumption
      <3>2. t <= MaxTime
        BY ONLY <1>1, <1>6, <3>1, now \in Nat
      <3> QED BY ONLY <1>6, <2>2, <3>1, <3>2
    <2>4. /\ Follows(points[n], points[n].ts) /\ Scheduled(points[n].ts)
          /\ \A u \in Voters : mapLockedBalances[u].endTime <= points[n].ts + MAXTIME
      BY <1>3 DEF SupplyFollows
    <2> QED BY <2>1, <2>2, <2>3, <2>4, TotalOfLocks
  <1>8. ASSUME NEW u \in Voters PROVE WveGetPastVotes(u, b) = BiasOf(mapLockedBalances[u], t)
    <2>1. WveGetPastVotes(u, b) = VotesIn(mapUserPoints[u], b, t)
      BY ViewsAre DEF t
    <2>2. UpTo(mapUserPoints[u], b)
      <3>1. points[n].blockNumber \in Nat /\ points[n].blockNumber <= b
        BY <1>1, <1>2, <1>3, PointFields
      <3>2. UpTo(mapUserPoints[u], points[n].blockNumber)
        BY <1>3 DEF InStep
      <3>3. mapUserPoints[u] \in Seq(Point)
        BY DEF Books, UserPointsTypeOK
      <3>4. \A i \in 1 .. Len(mapUserPoints[u]) : mapUserPoints[u][i].blockNumber \in Nat
        BY <3>3, PointFields
      <3> QED BY <1>1, <3>1, <3>2, <3>4 DEF UpTo
    <2> QED BY <1>1, <1>6, <2>1, <2>2, VotesOfHistory
  <1>9. [u \in Voters |-> WveGetPastVotes(u, b)] =
          [u \in Voters |-> BiasOf(mapLockedBalances[u], t)]
    BY <1>8
  <1> QED BY <1>7, <1>9 DEF VotesAt, SumOver, BiasSum

\* The history of the supply begins at the block of deployment.
Begins == mapSupplyPoints[1].blockNumber = StartBlock

LEMMA BeginsAlways == Spec => []Begins
  <1>1. Init => Begins
    BY DEF Init, Begins, EmptyPoint
  <1>2. Books /\ Begins /\ [Next]_vars => Begins'
    <2> SUFFICES ASSUME Books, Begins, [Next]_vars PROVE Begins'
      OBVIOUS
    <2>1. CASE Checkpoint \/ \E u \in Voters : Transaction(u)
      <3>1. PICK curSupply \in Nat, added \in Seq(Point) : Adds(added, curSupply)
        BY <2>1, StepAdds
      <3>2. mapSupplyPoints' = mapSupplyPoints \o added
        BY <3>1 DEF Adds
      <3>3. mapSupplyPoints \in Seq(Point) /\ mapSupplyPoints # <<>>
        BY DEF Books, PointsTypeOK
      <3>4. PICK m \in Nat \ {0}, n \in Nat : m = Len(mapSupplyPoints) /\ n = Len(added)
        BY <3>3, LenProperties, EmptySeq
      <3>5. \A i \in 1 .. m + n : (mapSupplyPoints \o added)[i] =
                                    IF i <= m THEN mapSupplyPoints[i] ELSE added[i - m]
        BY ONLY ConcatProperties, added \in Seq(Point), <3>3, <3>4
      <3>6. 1 \in 1 .. m + n /\ 1 <= m
        OBVIOUS
      <3> QED BY <3>2, <3>5, <3>6 DEF Begins
    <2>2. CASE NextBlock \/ UNCHANGED vars
      BY <2>2 DEF NextBlock, vars, Begins
    <2> QED BY <2>1, <2>2 DEF Next
  <1> QED BY <1>1, <1>2, BooksAlways, PTL DEF Spec

\* A block before the last point of a history keeps its place and time as the history grows.
KeepsPlace(points, both, b, time, number, time1, number1) ==
  /\ both[FindPointByBlock(both, b) + 1] = points[FindPointByBlock(points, b) + 1]
  /\ BlockTimeIn(both, time1, number1, b) = BlockTimeIn(points, time, number, b)

LEMMA SettledPlace ==
  ASSUME NEW points \in Seq(Point), points # <<>>, NEW added \in Seq(Point), NEW b \in Nat,
         Ordered(points), Ordered(points \o added), b < points[Len(points)].blockNumber,
         points[1].blockNumber <= b, NEW time, NEW number, NEW time1, NEW number1
  PROVE  KeepsPlace(points, points \o added, b, time, number, time1, number1)
  <1> DEFINE both == points \o added
  <1>1. PICK m \in Nat \ {0}, n \in Nat : m = Len(points) /\ n = Len(added)
    BY LenProperties, EmptySeq
  <1>2. /\ both \in Seq(Point) /\ Len(both) = m + n
        /\ \A i \in 1 .. m + n : both[i] = IF i <= m THEN points[i] ELSE added[i - m]
    BY ONLY ConcatProperties, points \in Seq(Point), added \in Seq(Point), <1>1
  <1>3. Ordered(both) /\ both # <<>>
    BY <1>1, <1>2
  <1>4. PICK r \in 0 .. m - 1 : IsLastBefore(points, b, r)
    BY <1>1, LastBeforeExists DEF IsLastBefore
  <1>5. PICK s : IsLastBefore(both, b, s)
    BY <1>2, <1>3, LastBeforeExists
  <1>6. Continues(points, added, b, r, s)
    BY <1>4, <1>5, LastOfExtension
  <1>7. m \in 1 .. Len(points) /\ (m - 1) + 1 = m
    BY <1>1
  <1>8. points[m].blockNumber \in Nat /\ ~(points[m].blockNumber <= b)
    <2>1. points[m].blockNumber \in Nat
      BY <1>7, PointFields
    <2> QED BY <1>1, <2>1
  <1>9. s = r /\ both[r + 1] = points[r + 1]
    BY <1>1, <1>6, <1>7, <1>8 DEF Continues
  <1>10. FindPointByBlock(points, b) = r /\ FindPointByBlock(both, b) = r
    BY <1>2, <1>3, <1>4, <1>5, <1>9, SearchFinds
  <1> HIDE DEF both
  <1>11. r < m - 1
    <2>1. points[r + 1].blockNumber <= b
      <3>1. r # 0 => points[r + 1].blockNumber <= b
        BY <1>4 DEF IsLastBefore
      <3>2. r = 0 => points[r + 1] = points[1]
        OBVIOUS
      <3> QED BY <3>1, <3>2
    <2>2. r # m - 1
      BY <1>7, <1>8, <2>1
    <2> QED BY <2>2
  <1>12. (r + 1) + 1 \in 1 .. m + n /\ (r + 1) + 1 <= m /\ r < Len(both) - 1 /\ r < Len(points) - 1
    BY <1>1, <1>2, <1>11
  <1>13. both[(r + 1) + 1] = points[(r + 1) + 1]
    BY <1>2, <1>12
  <1> QED BY <1>9, <1>10, <1>12, <1>13 DEF BlockTimeIn, KeepsPlace, both

\* The time of a past block is one that has been, no earlier than that of its point.
LEMMA PastTime ==
  ASSUME Books, Histories, Timely, Begins, NEW b \in StartBlock .. block
  PROVE  LET p == mapSupplyPoints[FindPointByBlock(mapSupplyPoints, b) + 1]
         IN  /\ b \in Nat /\ p \in Point /\ p.ts \in Nat
             /\ GetBlockTime(b) \in Nat /\ p.ts <= GetBlockTime(b) /\ GetBlockTime(b) <= now
  <1> DEFINE points == mapSupplyPoints
  <1>1. /\ points \in Seq(Point) /\ points # <<>> /\ Ordered(points) /\ TimesInOrder(points)
        /\ \A i \in 1 .. Len(points) : points[i].ts <= now
        /\ points[1].blockNumber = StartBlock
    BY DEF Books, PointsTypeOK, Histories, Timely, Begins
  <1>2. now \in Nat /\ block \in Nat /\ StartBlock \in Nat
    BY BooksTyped, VeConstantsAssumption DEF Books, PointsTypeOK
  <1>3. b \in 0 .. block /\ b \in Nat /\ StartBlock <= b
    BY <1>2
  <1>4. PICK r : IsLastBefore(points, b, r)
    BY <1>1, <1>3, LastBeforeExists
  <1>5. FindPointByBlock(points, b) = r
    BY <1>1, <1>3, <1>4, SearchFinds
  <1>6. points[r + 1].blockNumber <= b
    <2>1. r # 0 => points[r + 1].blockNumber <= b
      BY <1>4 DEF IsLastBefore
    <2>2. r = 0 => points[r + 1] = points[1]
      OBVIOUS
    <2> HIDE DEF points
    <2> QED BY <1>1, <1>3, <2>1, <2>2
  <1>7. r + 1 \in 1 .. Len(points)
    <2>1. Len(points) \in Nat
      BY <1>1, LenProperties
    <2> QED BY <1>4, <2>1 DEF IsLastBefore
  <1>8. points[r + 1] \in Point /\ points[r + 1].ts \in Nat
    BY <1>1, <1>7, PointFields
  <1>9. GetBlockTime(b) = BlockTimeIn(points, now, block, b)
    BY ViewsAre
  <1> HIDE DEF points
  <1>10. /\ GetBlockTime(b) \in Nat /\ points[r + 1].ts <= GetBlockTime(b)
         /\ GetBlockTime(b) <= now
    BY <1>1, <1>2, <1>3, <1>4, <1>6, <1>9, BlockTimeBounds
  <1> QED BY <1>3, <1>5, <1>8, <1>10 DEF points

\* What an account does in the present block leaves its votes of the blocks before.
LEMMA PastVotesOfAccounts ==
  ASSUME Books, Histories, NEW b \in Nat, b < block, NEW u \in Voters, NEW t,
         \/ mapUserPoints'[u] = mapUserPoints[u]
         \/ \E pt \in Point : /\ pt.blockNumber = block
                              /\ mapUserPoints'[u] = Append(mapUserPoints[u], pt)
  PROVE  VotesIn(mapUserPoints'[u], b, t) = VotesIn(mapUserPoints[u], b, t)
  <1> SUFFICES ASSUME NEW pt \in Point, pt.blockNumber = block,
                      mapUserPoints'[u] = Append(mapUserPoints[u], pt)
               PROVE  VotesIn(mapUserPoints'[u], b, t) = VotesIn(mapUserPoints[u], b, t)
    OBVIOUS
  <1>1. /\ mapUserPoints[u] \in Seq(Point) /\ Ordered(mapUserPoints[u])
        /\ UpTo(mapUserPoints[u], pt.blockNumber)
    BY DEF Books, UserPointsTypeOK, Histories
  <1>2. pt.blockNumber > b
    BY DEF Books, PointsTypeOK
  <1> QED BY <1>1, <1>2, VotesBeforeAppend

\* The blocks before the last point of the supply: their votes and totals stay.
LEMMA SettledVotesKept ==
  ASSUME Books, Histories, Timely, Begins, NEW b \in StartBlock .. block,
         b < SupplyPoint(totalNumPoints).blockNumber,
         NEW added \in Seq(Point), mapSupplyPoints' = mapSupplyPoints \o added,
         Ordered(mapSupplyPoints \o added),
         \A w \in Weeks : w <= now => mapSlopeChanges'[w] = mapSlopeChanges[w],
         \A u \in Voters :
           \/ mapUserPoints'[u] = mapUserPoints[u]
           \/ \E pt \in Point : /\ pt.blockNumber = block
                                /\ mapUserPoints'[u] = Append(mapUserPoints[u], pt)
  PROVE  /\ GetPastTotalSupply(b)' = GetPastTotalSupply(b)
         /\ \A u \in Voters : WveGetPastVotes(u, b)' = WveGetPastVotes(u, b)
  <1> DEFINE points == mapSupplyPoints
             both == points \o added
             p == points[FindPointByBlock(points, b) + 1]
             t == GetBlockTime(b)
  <1>1. /\ points \in Seq(Point) /\ points # <<>> /\ Ordered(points)
        /\ UpTo(points, block) /\ block \in Nat /\ points[1].blockNumber = StartBlock
    BY DEF Books, PointsTypeOK, Histories, Begins
  <1>2. PICK m \in Nat \ {0} : m = Len(points) /\ m \in 1 .. Len(points) /\ (m - 1) + 1 = m
    <2>1. Len(points) \in Nat /\ Len(points) # 0
      BY <1>1, LenProperties, EmptySeq
    <2> QED BY <2>1
  <1>3. SupplyPoint(totalNumPoints) = points[m]
    BY <1>2 DEF SupplyPoint, totalNumPoints
  <1>4. /\ b \in Nat /\ StartBlock <= b /\ b < points[m].blockNumber /\ b < block
    <2>1. points[m].blockNumber \in Nat /\ points[m].blockNumber <= block
      BY <1>1, <1>2, PointFields DEF UpTo
    <2>2. b \in Nat /\ StartBlock <= b
      BY <1>1, VeConstantsAssumption
    <2> QED BY <1>1, <1>3, <2>1, <2>2
  <1>5. p \in Point /\ p.ts \in Nat /\ t \in Nat /\ p.ts <= t /\ t <= now
    BY PastTime
  <1> HIDE DEF points, both, t, p
  <1>6. /\ both[FindPointByBlock(both, b) + 1] = p
        /\ BlockTimeIn(both, now', block', b) = BlockTimeIn(points, now, block, b)
    <2>1. Ordered(points \o added) /\ points[1].blockNumber <= b
          /\ b < points[Len(points)].blockNumber
      BY <1>1, <1>2, <1>4 DEF points
    <2>2. PICK time1, number1 : time1 = now' /\ number1 = block'
      OBVIOUS
    <2>3. /\ both[FindPointByBlock(both, b) + 1] = points[FindPointByBlock(points, b) + 1]
          /\ BlockTimeIn(both, time1, number1, b) = BlockTimeIn(points, now, block, b)
      <3>1. KeepsPlace(points, points \o added, b, now, block, time1, number1)
        BY <1>1, <1>4, <2>1, SettledPlace
      <3> QED BY <3>1 DEF both, KeepsPlace
    <2> QED BY <2>2, <2>3 DEF p
  <1>7. mapSupplyPoints' = both
    BY DEF both, points
  <1>8. t = BlockTimeIn(points, now, block, b) /\ GetBlockTime(b)' = t
    BY <1>6, <1>7, ViewsAre DEF t, points
  <1>9. GetPastTotalSupply(b) = TotalIn(mapSlopeChanges, p, t)
    BY ViewsAre DEF p, t, points
  <1>10. GetPastTotalSupply(b)' = TotalIn(mapSlopeChanges', p, t)
    BY <1>6, <1>7, <1>8, ViewsAre
  <1>11. TotalIn(mapSlopeChanges', p, t) = TotalIn(mapSlopeChanges, p, t)
    <2>1. now \in Nat /\ now <= MaxTime
      BY LastPointTyped DEF Books
    <2>2. t \in 0 .. MaxTime + MAXTIME
      BY <1>5, <2>1, VeConstantsAssumption
    <2>3. \A w \in Weeks : w <= t => mapSlopeChanges'[w] = mapSlopeChanges[w]
      BY <1>5, <2>1 DEF Weeks
    <2> QED BY <1>5, <2>2, <2>3, TotalOfEarlier
  <1>12. ASSUME NEW u \in Voters PROVE WveGetPastVotes(u, b)' = WveGetPastVotes(u, b)
    <2>1. WveGetPastVotes(u, b) = VotesIn(mapUserPoints[u], b, t)
      BY ViewsAre DEF t
    <2>2. WveGetPastVotes(u, b)' = VotesIn(mapUserPoints'[u], b, t)
      BY <1>8, ViewsAre
    <2>3. VotesIn(mapUserPoints'[u], b, t) = VotesIn(mapUserPoints[u], b, t)
      BY <1>4, PastVotesOfAccounts
    <2> QED BY <2>1, <2>2, <2>3
  <1> QED BY <1>9, <1>10, <1>11, <1>12

\* Scheduled(t) holds on for later times.
LEMMA ScheduledLater ==
  ASSUME NEW t \in Nat, Scheduled(t), NEW s \in Nat, t <= s
  PROVE  Scheduled(s)
  <1>1. \A w \in Weeks : w > s => w > t
    BY DEF Weeks
  <1> QED BY <1>1 DEF Scheduled

\* A checkpoint settles the blocks since the last point of the supply, all by one point: the
\* last one that carries its block forward, which still accounts for all locks.
LastSettled(both, b, p) ==
  \E r \in 0 .. Len(both) - 2 :
    /\ IsLastBefore(both, b, r) /\ p = both[r + 1] /\ p.blockNumber <= b
    /\ p \in Point /\ p.ts \in Nat
    /\ Follows(p, p.ts) /\ Scheduled(p.ts)
    /\ \A u \in Voters : mapLockedBalances[u].endTime <= p.ts + MAXTIME

LEMMA SettledByOne ==
  ASSUME Books, SupplyFollows, CheckpointedInTime, Histories, Timely,
         NEW curSupply \in Nat, NEW added \in Seq(Point),
         AddedAs(added, WalkedPoints(curSupply)),
         NEW b \in Nat, SupplyPoint(totalNumPoints).blockNumber <= b, b < block
  PROVE  \E p : LastSettled(mapSupplyPoints \o added, b, p)
  <1> DEFINE points == mapSupplyPoints
             both == points \o added
             walked == WalkedPoints(curSupply)
  <1>1. /\ LocksTypeOK /\ PointsTypeOK /\ LockShape /\ points \in Seq(Point) /\ points # <<>>
        /\ block \in Nat
    BY DEF Books, PointsTypeOK
  <1>2. PICK m \in Nat \ {0}, n \in Nat \ {0} :
          /\ m = Len(points) /\ n = Len(added) /\ n = WalkSteps /\ n = Len(walked)
          /\ m \in 1 .. Len(points)
    <2>1. Len(added) = WalkSteps /\ WalkSteps \in Nat \ {0} /\ Len(walked) = WalkSteps
      BY <1>1, WalkEnds DEF AddedAs
    <2>2. Len(points) \in Nat /\ Len(points) # 0
      BY <1>1, LenProperties, EmptySeq
    <2> QED BY <2>1, <2>2
  <1>3. /\ Len(both) = m + n /\ both \in Seq(Point)
        /\ \A i \in 1 .. m + n : both[i] = IF i <= m THEN points[i] ELSE added[i - m]
    <2>1. points \in Seq(Point) /\ m = Len(points) /\ n = Len(added)
      BY <1>1, <1>2
    <2> QED BY ONLY ConcatProperties, added \in Seq(Point), <2>1
  <1>4. SupplyPoint(totalNumPoints) = points[m]
    <2>1. (m - 1) + 1 = m
      OBVIOUS
    <2> QED BY <1>2, <2>1 DEF SupplyPoint, totalNumPoints
  <1>5. /\ Follows(points[m], points[m].ts) /\ Scheduled(points[m].ts)
        /\ \A u \in Voters : mapLockedBalances[u].endTime <= points[m].ts + MAXTIME
        /\ points[m].ts \in Nat
    BY <1>1, <1>2, <1>4, PointFields DEF SupplyFollows
  <1>6. both[m + n].blockNumber = block
    BY <1>3, AddedReachesPresent
  <1> HIDE DEF both
  <1>7. PICK k \in 1 .. m + n : k = m + n - 1
    OBVIOUS
  <1> DEFINE Settles == /\ both[k].blockNumber <= b
                        /\ Follows(both[k], both[k].ts) /\ Scheduled(both[k].ts)
                        /\ \A u \in Voters : mapLockedBalances[u].endTime <= both[k].ts + MAXTIME
  <1>8. ASSUME n = 1 PROVE Settles
    <2>1. both[k] = points[m]
      BY <1>3, <1>7, <1>8
    <2>2. both[k].blockNumber <= b
      BY <1>4, <2>1
    <2> QED BY <1>5, <2>1, <2>2
  <1> HIDE DEF walked
  <1>9. ASSUME n # 1 PROVE Settles
    <2>1. totalNumPoints # 0
      BY <1>1, <1>2, <1>9, WalkInTime
    <2>2. LastPoint = points[m]
      <3>1. totalNumPoints > 0
        BY <1>1, <2>1, LastPointTyped
      <3> QED BY <1>4, <3>1 DEF LastPoint
    <2>3. n - 1 \in 1 .. n - 1 /\ n - 1 \in 1 .. n /\ n - 1 < n /\ ~(k <= m) /\ k - m = n - 1
      BY <1>7, <1>9
    <2>4. both[k] = walked[n - 1]
      <3>1. added[n - 1] = walked[n - 1]
        BY <1>2, <2>3 DEF AddedAs, walked
      <3> QED BY <1>3, <1>7, <2>3, <3>1
    <2>5. Carried(walked[n - 1]) /\ LastPoint.ts <= walked[n - 1].ts
      BY <1>1, <1>2, <2>3, WalkInTime DEF walked
    <2>6. both[k].blockNumber <= b
      BY <1>4, <2>2, <2>4, <2>5 DEF Carried
    <2>7. Follows(walked[n - 1], walked[n - 1].ts)
      <3>1. Follows(walked[n - 1], StepTime(LastPoint.ts, n - 1, now))
        BY <1>1, <1>2, <2>3, WalkStarts, WalkFollows DEF walked
      <3> QED BY <3>1 DEF Follows
    <2>8. both[k].ts \in Nat
      BY <1>3, <1>7, PointFields
    <2>9. Scheduled(both[k].ts)
      BY <1>5, <2>2, <2>4, <2>5, <2>8, ScheduledLater
    <2>10. ASSUME NEW u \in Voters PROVE mapLockedBalances[u].endTime <= both[k].ts + MAXTIME
      <3>1. mapLockedBalances[u].endTime \in Nat /\ MAXTIME \in Nat
        BY BooksTyped, VeConstantsAssumption DEF Locks
      <3>2. PICK end \in Nat, ts \in Nat, later \in Nat :
              /\ end = mapLockedBalances[u].endTime /\ ts = points[m].ts /\ later = both[k].ts
              /\ end <= ts + MAXTIME /\ ts <= later
        BY <1>5, <2>2, <2>4, <2>5, <2>8, <3>1
      <3>3. end <= ts + MAXTIME /\ ts <= later /\ MAXTIME \in Nat
        BY <3>1, <3>2
      <3>4. end <= later + MAXTIME
        BY ONLY <3>3, end \in Nat, ts \in Nat, later \in Nat
      <3> QED BY <3>2, <3>4
    <2> QED BY <2>4, <2>6, <2>7, <2>9, <2>10
  <1>10. Settles
    BY <1>8, <1>9
  <1>11. both[k] \in Point /\ both[k].ts \in Nat
    BY <1>3, <1>7, PointFields
  <1>12. PICK r \in 0 .. m + n - 2 : r = k - 1 /\ r + 1 = k
    <2>1. k - 1 \in 0 .. m + n - 2 /\ (k - 1) + 1 = k
      BY <1>7
    <2> QED BY <2>1
  <1>13. IsLastBefore(both, b, r)
    <2>1. r \in 0 .. Len(both) - 1
      BY <1>3, <1>12
    <2>2. \A j \in r + 1 .. Len(both) - 1 : j + 1 = m + n
      BY <1>3, <1>7, <1>12
    <2>3. block > b
      BY <1>1
    <2> QED BY <1>6, <1>10, <1>12, <2>1, <2>2, <2>3 DEF IsLastBefore
  <1>14. LastSettled(both, b, both[k])
    BY <1>3, <1>10, <1>11, <1>12, <1>13 DEF LastSettled
  <1> QED BY <1>14 DEF both

LEMMA SettlesPresentVotes ==
  ASSUME Books, SupplyFollows, CheckpointedInTime, Histories, Timely, InStep,
         NEW curSupply \in Nat, NEW added \in Seq(Point), Adds(added, curSupply),
         NEW b \in StartBlock .. block, SupplyPoint(totalNumPoints).blockNumber <= b, b < block
  PROVE  VotesAt(b)' = GetPastTotalSupply(b)'
  <1> DEFINE both == mapSupplyPoints \o added
             t == BlockTimeIn(both, now, block, b)
  <1>1. /\ LocksTypeOK /\ PointsTypeOK /\ AddedAs(added, WalkedPoints(curSupply))
        /\ mapSupplyPoints' = both /\ now' = now /\ block' = block
    BY DEF Books, Adds
  <1>2. /\ now \in Nat /\ now <= MaxTime /\ block \in Nat /\ b \in Nat /\ b \in 0 .. block
    <2>1. StartBlock \in Nat /\ block \in Nat
      BY VeConstantsAssumption DEF Books, PointsTypeOK
    <2> QED BY <1>1, <2>1, LastPointTyped
  <1>3. PICK p : LastSettled(both, b, p)
    BY <1>1, <1>2, SettledByOne
  <1>4. PICK r \in 0 .. Len(both) - 2 :
          /\ IsLastBefore(both, b, r) /\ p = both[r + 1] /\ p.blockNumber <= b
          /\ p \in Point /\ p.ts \in Nat
          /\ Follows(p, p.ts) /\ Scheduled(p.ts)
          /\ \A u \in Voters : mapLockedBalances[u].endTime <= p.ts + MAXTIME
    BY <1>3 DEF LastSettled
  <1>5. /\ Ordered(both) /\ TimesInOrder(both) /\ both \in Seq(Point)
        /\ \A i \in 1 .. Len(both) : both[i].ts <= now
    <2>1. mapSupplyPoints \in Seq(Point)
      BY DEF Books, PointsTypeOK
    <2>2. both \in Seq(Point)
      BY <2>1, ConcatProperties
    <2> QED BY <1>1, <2>2, AddedInTime, AddedKeepsOrder
  <1>6. both # <<>>
    <2>1. Len(both) # 0
      BY <1>4, <1>5, LenProperties
    <2> HIDE DEF both
    <2> QED BY <1>5, <2>1, EmptySeq
  <1> HIDE DEF both
  <1>7. FindPointByBlock(both, b) = r
    BY <1>2, <1>4, <1>5, <1>6, SearchFinds
  <1>8. t \in Nat /\ p.ts <= t /\ t <= now
    BY <1>2, <1>4, <1>5, <1>6, BlockTimeBounds
  <1>9. GetBlockTime(b)' = t
    BY <1>1, ViewsAre
  <1> HIDE DEF t
  <1>10. GetPastTotalSupply(b)' = BiasSum(mapLockedBalances, t)
    <2>1. GetPastTotalSupply(b)' = TotalIn(mapSlopeChanges', p, t)
      BY <1>1, <1>4, <1>7, <1>9, ViewsAre
    <2>2. TotalIn(mapSlopeChanges', p, t) = TotalIn(mapSlopeChanges, p, t)
      <3>1. t \in 0 .. MaxTime + MAXTIME
        BY <1>2, <1>8, VeConstantsAssumption
      <3>2. \A w \in Weeks : w <= t => w <= now
        BY <1>2, <1>8 DEF Weeks
      <3>3. \A w \in Weeks : w <= t => mapSlopeChanges'[w] = mapSlopeChanges[w]
        BY <3>2 DEF Adds
      <3> QED BY <1>4, <1>8, <3>1, <3>3, TotalOfEarlier
    <2>3. SupplyLockedAt(p, t) = TotalIn(mapSlopeChanges, p, t)
      BY ViewsAre
    <2>4. t \in p.ts .. MaxTime + MAXTIME
      <3>1. MaxTime \in Nat /\ MAXTIME \in Nat
        BY VeConstantsAssumption
      <3>2. t <= MaxTime
        BY ONLY <1>2, <1>8, <3>1, now \in Nat
      <3> QED BY ONLY <1>4, <1>8, <3>1, <3>2
    <2>5. SupplyLockedAt(p, t) = BiasSum(mapLockedBalances, t)
      BY <1>4, <2>4, TotalOfLocks
    <2> QED BY <2>1, <2>2, <2>3, <2>5
  <1>11. ASSUME NEW u \in Voters PROVE WveGetPastVotes(u, b)' = BiasOf(mapLockedBalances[u], t)
    <2>1. WveGetPastVotes(u, b)' = VotesIn(mapUserPoints'[u], b, t)
      BY <1>9, ViewsAre
    <2>2. VotesIn(mapUserPoints'[u], b, t) = VotesIn(mapUserPoints[u], b, t)
      BY <1>2, PastVotesOfAccounts DEF Adds
    <2>3. UpTo(mapUserPoints[u], b)
      <3>1. PICK last \in Nat : last = SupplyPoint(totalNumPoints).blockNumber
        BY <1>1, LastPointTyped DEF Point
      <3>2. mapUserPoints[u] \in Seq(Point)
        BY DEF Books, UserPointsTypeOK
      <3>3. \A i \in 1 .. Len(mapUserPoints[u]) : mapUserPoints[u][i].blockNumber \in Nat
        BY <3>2, PointFields
      <3>4. UpTo(mapUserPoints[u], last) /\ last <= b
        BY <3>1 DEF InStep
      <3> QED BY <1>2, <3>3, <3>4 DEF UpTo
    <2> QED BY <1>2, <1>8, <2>1, <2>2, <2>3, VotesOfHistory
  <1>12. [u \in Voters |-> WveGetPastVotes(u, b)'] =
           [u \in Voters |-> BiasOf(mapLockedBalances[u], t)]
    BY <1>11
  <1> QED BY <1>10, <1>12 DEF VotesAt, SumOver, BiasSum

SettledVotesAddUp ==
  \A b \in StartBlock .. block :
    b < SupplyPoint(totalNumPoints).blockNumber => VotesAt(b) = GetPastTotalSupply(b)

\* A block that is settled stays as it is, and the blocks up to the present one were right when
\* a checkpoint settles them.
LEMMA SettledVotesNext ==
  Books /\ SupplyFollows /\ CheckpointedInTime /\ Histories /\ Histories' /\ Timely /\ Begins
    /\ InStep /\ SettledVotesAddUp /\ [Next]_vars => SettledVotesAddUp'
  <1> SUFFICES ASSUME Books, SupplyFollows, CheckpointedInTime, Histories, Histories', Timely,
                      Begins, InStep, SettledVotesAddUp, [Next]_vars
               PROVE  SettledVotesAddUp'
    OBVIOUS
  <1>1. /\ block \in Nat /\ StartBlock \in Nat /\ mapSupplyPoints \in Seq(Point)
        /\ SupplyPoint(totalNumPoints).blockNumber \in Nat
        /\ SupplyPoint(totalNumPoints).blockNumber <= block
    <2>1. SupplyPoint(totalNumPoints) \in Point
      BY LastPointTyped DEF Books
    <2>2. Len(mapSupplyPoints) \in 1 .. Len(mapSupplyPoints)
      <3>1. Len(mapSupplyPoints) \in Nat /\ Len(mapSupplyPoints) # 0
        BY LenProperties, EmptySeq DEF Books, PointsTypeOK
      <3> QED BY <3>1
    <2>3. (Len(mapSupplyPoints) - 1) + 1 = Len(mapSupplyPoints)
      BY <2>2
    <2>4. SupplyPoint(totalNumPoints).blockNumber <= block
      BY <2>2, <2>3 DEF Histories, UpTo, SupplyPoint, totalNumPoints
    <2> QED BY <2>1, <2>4, VeConstantsAssumption DEF Books, PointsTypeOK, Point
  <1>2. ASSUME NEW b \in StartBlock .. block,
               b < SupplyPoint(totalNumPoints).blockNumber,
               /\ GetPastTotalSupply(b)' = GetPastTotalSupply(b)
               /\ \A u \in Voters : WveGetPastVotes(u, b)' = WveGetPastVotes(u, b)
        PROVE  VotesAt(b)' = GetPastTotalSupply(b)'
    <2>1. VotesAt(b) = GetPastTotalSupply(b)
      BY <1>2 DEF SettledVotesAddUp
    <2>2. [u \in Voters |-> WveGetPastVotes(u, b)'] = [u \in Voters |-> WveGetPastVotes(u, b)]
      BY <1>2
    <2> QED BY <1>2, <2>1, <2>2 DEF VotesAt, SumOver
  <1>3. CASE Checkpoint \/ \E u \in Voters : Transaction(u)
    <2>1. PICK curSupply \in Nat, added \in Seq(Point) : Adds(added, curSupply)
      BY <1>3, StepAdds
    <2>2. /\ mapSupplyPoints' = mapSupplyPoints \o added /\ block' = block
          /\ AddedAs(added, WalkedPoints(curSupply))
      BY <2>1 DEF Adds
    <2>3. Ordered(mapSupplyPoints \o added)
      BY <2>2, AddedKeepsOrder DEF Books
    <2>4. SupplyPoint(totalNumPoints)'.blockNumber = block
      <3>1. (mapSupplyPoints \o added)[Len(mapSupplyPoints \o added)].blockNumber = block
        BY <2>2, AddedReachesPresent
      <3>2. Len(mapSupplyPoints \o added) \in Nat
        BY <1>1, ConcatProperties, LenProperties
      <3>3. (Len(mapSupplyPoints \o added) - 1) + 1 = Len(mapSupplyPoints \o added)
        BY <3>2
      <3> QED BY <2>2, <3>1, <3>3 DEF SupplyPoint, totalNumPoints
    <2>5. ASSUME NEW b \in StartBlock .. block, b < block
          PROVE  VotesAt(b)' = GetPastTotalSupply(b)'
      <3>1. CASE b < SupplyPoint(totalNumPoints).blockNumber
        <4>1. /\ GetPastTotalSupply(b)' = GetPastTotalSupply(b)
              /\ \A u \in Voters : WveGetPastVotes(u, b)' = WveGetPastVotes(u, b)
          BY <2>1, <2>3, <3>1, SettledVotesKept DEF Adds
        <4> QED BY <1>2, <3>1, <4>1
      <3>2. CASE ~(b < SupplyPoint(totalNumPoints).blockNumber)
        <4>1. SupplyPoint(totalNumPoints).blockNumber <= b
          BY <1>1, <3>2
        <4> QED BY <2>1, <2>5, <4>1, SettlesPresentVotes
      <3> QED BY <3>1, <3>2
    <2> QED BY <2>2, <2>4, <2>5 DEF SettledVotesAddUp
  <1>4. CASE NextBlock \/ UNCHANGED vars
    <2>1. UNCHANGED <<mapSupplyPoints, mapUserPoints, mapSlopeChanges>>
      BY <1>4 DEF NextBlock, vars
    <2>2. <<>> \in Seq(Point) /\ mapSupplyPoints \o <<>> = mapSupplyPoints
      BY <1>1, ConcatEmptySeq
    <2>3. ASSUME NEW b \in StartBlock .. block',
                 b < SupplyPoint(totalNumPoints)'.blockNumber
          PROVE  VotesAt(b)' = GetPastTotalSupply(b)'
      <3>1. SupplyPoint(totalNumPoints)' = SupplyPoint(totalNumPoints)
        BY <2>1 DEF SupplyPoint, totalNumPoints
      <3>2. block' \in Nat
        BY <1>1, <1>4 DEF NextBlock, vars
      <3>3. b \in StartBlock .. block /\ b < SupplyPoint(totalNumPoints).blockNumber
        BY <1>1, <2>3, <3>1, <3>2
      <3>4. /\ GetPastTotalSupply(b)' = GetPastTotalSupply(b)
            /\ \A u \in Voters : WveGetPastVotes(u, b)' = WveGetPastVotes(u, b)
        <4>1. PICK added \in Seq(Point) : mapSupplyPoints \o added = mapSupplyPoints
          BY <2>2
        <4>2. mapSupplyPoints' = mapSupplyPoints \o added /\ Ordered(mapSupplyPoints \o added)
          BY <2>1, <4>1 DEF Histories
        <4>3. /\ \A w \in Weeks : w <= now => mapSlopeChanges'[w] = mapSlopeChanges[w]
              /\ \A u \in Voters : mapUserPoints'[u] = mapUserPoints[u]
          BY <2>1
        <4> QED BY <3>3, <4>2, <4>3, SettledVotesKept
      <3> QED BY <1>2, <3>3, <3>4
    <2> QED BY <2>3 DEF SettledVotesAddUp
  <1> QED BY <1>3, <1>4 DEF Next

\* At any block since deployment the votes that the governor may count add up to the total that
\* it takes the quorum of, for any locks and any later changes of them, as long as a checkpoint
\* comes every MAX_STEPS weeks (getPastVotes of wveOLAS, getPastTotalSupply).
THEOREM VeOLASPastVotesAddUp == Spec /\ []CheckpointedInTime => []PastVotesAddUp
  <1>1. Init => SettledVotesAddUp
    <2> SUFFICES ASSUME Init PROVE SettledVotesAddUp
      OBVIOUS
    <2>1. PICK pt : pt = EmptyPoint(StartTime, StartBlock)
      OBVIOUS
    <2>2. mapSupplyPoints = <<pt>> /\ pt.blockNumber = StartBlock
      BY <2>1 DEF Init, EmptyPoint
    <2>3. SupplyPoint(totalNumPoints).blockNumber = StartBlock /\ block = StartBlock
      BY <2>2 DEF SupplyPoint, totalNumPoints, Init
    <2>4. \A b \in StartBlock .. StartBlock : ~(b < StartBlock)
      BY VeConstantsAssumption
    <2> QED BY <2>3, <2>4 DEF SettledVotesAddUp
  <1>2. Books /\ SupplyFollows /\ Histories /\ Timely /\ InStep => PresentVotesAddUp
    BY PresentVotes
  <1>3. Books /\ PresentVotesAddUp /\ SettledVotesAddUp => PastVotesAddUp
    <2> SUFFICES ASSUME Books, PresentVotesAddUp, SettledVotesAddUp, NEW b \in StartBlock .. block
                 PROVE  VotesAt(b) = GetPastTotalSupply(b)
      BY DEF PastVotesAddUp, VotesAt, SumOver
    <2>1. b \in Nat /\ SupplyPoint(totalNumPoints).blockNumber \in Nat
      <3>1. StartBlock \in Nat /\ block \in Nat
        BY VeConstantsAssumption DEF Books, PointsTypeOK
      <3> QED BY <3>1, LastPointTyped DEF Books, Point
    <2> QED BY <2>1 DEF PresentVotesAddUp, SettledVotesAddUp
  <1> QED BY <1>1, <1>2, <1>3, SettledVotesNext, BooksAlways, HistoriesAlways, SupplyFollowsAlways,
             TimelyAlways, BeginsAlways, InStepAlways, PTL DEF Spec
=============================================================================
