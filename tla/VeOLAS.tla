------------------------------- MODULE VeOLAS -------------------------------
(***************************************************************************)
(* veOLAS: OLAS is locked for up to four years; the voting power of a lock *)
(* decays linearly to zero at its end.  Every change of a lock records a   *)
(* point of the account and a point of the supply and schedules the slope  *)
(* change at the end of the lock; the supply is walked week by week.       *)
(*                                                                         *)
(* One transaction is one action; a revert is an action not enabled.       *)
(* Blocks have increasing timestamps; several transactions share a block.  *)
(***************************************************************************)
EXTENDS Integers, Sequences, FiniteSets, Functions

CONSTANTS
  Voters, WEEK, MAXTIME, Amounts, MaxAmount, StartTime, MaxTime,
  BlockTimes,     \* seconds between a block and the next one
  StartBlock,     \* block.number at deployment
  MAX_STEPS,      \* weeks one checkpoint fills at most (255)
  MaxPoints       \* bound: supply points after which no transaction is sent

ASSUME VeConstantsAssumption ==
  /\ IsFiniteSet(Voters)
  /\ WEEK \in Nat \ {0} /\ MAXTIME \in Nat \ {0} /\ MAXTIME >= WEEK
  /\ Amounts \subseteq Nat \ {0} /\ MaxAmount \in Nat
  /\ StartTime \in Nat \ {0} /\ MaxTime \in Nat /\ StartTime <= MaxTime
  /\ BlockTimes \subseteq Nat \ {0} /\ StartBlock \in Nat \ {0}
  /\ MAX_STEPS \in Nat \ {0} /\ MaxPoints \in Nat
  /\ MAXTIME + WEEK <= MAX_STEPS * WEEK   \* a walk outlasts a lock: 255 weeks, 4 years

VARIABLES
  now, block,            \* block.timestamp, block.number
  supply,
  mapLockedBalances,     \* account -> [amount, endTime]
  mapSupplyPoints,       \* the point with number i is element i + 1
  mapUserPoints,
  mapSlopeChanges,
  escrow                 \* OLAS that the contract holds (external token)

vars == <<now, block, supply, mapLockedBalances, mapSupplyPoints, mapUserPoints,
          mapSlopeChanges, escrow>>

Locks == [amount : Nat, endTime : Nat]
NoLock == [amount |-> 0, endTime |-> 0]
Point == [bias : Int, slope : Int, ts : Nat, blockNumber : Nat, balance : Nat]
Weeks == {t \in 0 .. MaxTime + MAXTIME : t % WEEK = 0}

totalNumPoints == Len(mapSupplyPoints) - 1
SupplyPoint(i) == mapSupplyPoints[i + 1]
PositivePart(x) == IF x < 0 THEN 0 ELSE x
WeekStart(t) == (t \div WEEK) * WEEK

EmptyPoint(t, b) ==
  [bias |-> 0, slope |-> 0, ts |-> t, blockNumber |-> b, balance |-> 0]

Init ==
  /\ now = StartTime /\ block = StartBlock
  /\ supply = 0 /\ escrow = 0
  /\ mapLockedBalances = [u \in Voters |-> NoLock]
  /\ mapSupplyPoints = <<EmptyPoint(StartTime, StartBlock)>>
  /\ mapUserPoints = [u \in Voters |-> <<>>]
  /\ mapSlopeChanges = [t \in Weeks |-> 0]

(***************************************************************************)
(* _checkpoint                                                             *)
(***************************************************************************)

\* Slope and bias of a lock now: zero once it has ended.
Live(lock) == lock.endTime > now /\ lock.amount > 0
Slope(lock) == IF Live(lock) THEN lock.amount \div MAXTIME ELSE 0
Bias(lock) == Slope(lock) * (lock.endTime - now)

\* The point one step later, at the end of a week or now. `initialPoint' is the
\* same memory object as `lastPoint', so the extrapolation of the block number
\* adds nothing and the balance is carried over.
Advance(pt, t) ==
  [pt EXCEPT !.bias = PositivePart(pt.bias - pt.slope * (t - pt.ts)),
             !.slope = PositivePart(pt.slope + (IF t % WEEK = 0 /\ t > WeekStart(pt.ts)
                                                THEN mapSlopeChanges[t] ELSE 0)),
             !.ts = t]

\* The walks go from week to week and end at time t, after at most MAX_STEPS.
StepTime(from, i, t) ==
  LET week == WeekStart(from) + i * WEEK IN IF week > t THEN t ELSE week
StepsTo(from, t) ==
  LET elapsed == t - WeekStart(from)
      needed == IF elapsed <= WEEK THEN 1 ELSE (elapsed + WEEK - 1) \div WEEK
  IN  IF needed < MAX_STEPS THEN needed ELSE MAX_STEPS

\* The points that one checkpoint adds: the weeks passed and the present.
WalkedPoints(curSupply) ==
  LET last == IF totalNumPoints > 0 THEN SupplyPoint(totalNumPoints)
              ELSE EmptyPoint(now, block)
      steps == StepsTo(last.ts, now)
      pt[i \in 0 .. steps] ==
        IF i = 0 THEN last
        ELSE LET p == Advance(pt[i - 1], StepTime(last.ts, i, now))
             IN  IF p.ts = now
                 THEN [p EXCEPT !.blockNumber = block, !.balance = curSupply] ELSE p
  IN  [i \in 1 .. steps |-> pt[i]]

\* Fault: an extension leaves the old slope change scheduled.
NewSlopeChanges_KeepsOld(old, new) ==
  LET cancelled == IF old.endTime > now /\ new.endTime = old.endTime
                   THEN [mapSlopeChanges EXCEPT ![old.endTime] =
                           @ + Slope(old) - Slope(new)]
                   ELSE mapSlopeChanges
  IN  IF new.endTime > now /\ new.endTime > old.endTime
      THEN [cancelled EXCEPT ![new.endTime] = @ - Slope(new)] ELSE cancelled

\* The slope of the old lock is taken out at its end and the new one put in at its.
NewSlopeChanges(old, new) ==
  LET cancelled == IF old.endTime > now
                   THEN [mapSlopeChanges EXCEPT ![old.endTime] =
                           @ + Slope(old)
                           - (IF new.endTime = old.endTime THEN Slope(new) ELSE 0)]
                   ELSE mapSlopeChanges
  IN  IF new.endTime > now /\ new.endTime > old.endTime
      THEN [cancelled EXCEPT ![new.endTime] = @ - Slope(new)] ELSE cancelled

CheckpointUser(u, old, new, curSupply) ==
  LET walked == WalkedPoints(curSupply)
      last == walked[Len(walked)]
  IN  /\ mapSupplyPoints' = mapSupplyPoints \o
           [walked EXCEPT ![Len(walked)] =
              [last EXCEPT !.slope = PositivePart(last.slope + Slope(new) - Slope(old)),
                           !.bias = PositivePart(last.bias + Bias(new) - Bias(old))]]
      /\ mapSlopeChanges' = NewSlopeChanges(old, new)
      /\ mapUserPoints' = [mapUserPoints EXCEPT ![u] = Append(@,
           [bias |-> Bias(new), slope |-> Slope(new), ts |-> now, blockNumber |-> block,
            balance |-> new.amount])]

Checkpoint ==
  /\ mapSupplyPoints' = mapSupplyPoints \o WalkedPoints(supply)
  /\ UNCHANGED <<now, block, supply, mapLockedBalances, mapUserPoints, mapSlopeChanges,
                 escrow>>

(***************************************************************************)
(* Deposits and withdrawals                                                *)
(***************************************************************************)

\* unlockTime = 0 leaves the end as it is.
DepositForInternal(u, amount, unlockTime) ==
  LET old == mapLockedBalances[u]
      new == [amount |-> old.amount + amount,
              endTime |-> IF unlockTime > 0 THEN unlockTime ELSE old.endTime]
  IN  /\ supply' = supply + amount
      /\ mapLockedBalances' = [mapLockedBalances EXCEPT ![u] = new]
      /\ CheckpointUser(u, old, new, supply + amount)
      /\ escrow' = escrow + amount
      /\ UNCHANGED <<now, block>>

\* createLock and createLockFor: `duration' is rounded down to a whole week.
UnlockTime(duration) == WeekStart(now + duration)
Durations == 0 .. MAXTIME + WEEK

CreateLock(u, amount, duration) ==
  LET unlockTime == UnlockTime(duration)
  IN  /\ amount > 0 /\ amount <= MaxAmount
      /\ mapLockedBalances[u].amount = 0
      /\ unlockTime > now
      /\ unlockTime <= now + MAXTIME
      /\ DepositForInternal(u, amount, unlockTime)

\* depositFor by anyone and increaseAmount by the owner of the lock.
IncreaseAmount(u, amount) ==
  /\ amount > 0 /\ mapLockedBalances[u].amount + amount <= MaxAmount
  /\ mapLockedBalances[u].amount > 0
  /\ mapLockedBalances[u].endTime > now
  /\ DepositForInternal(u, amount, 0)

\* Fault: the end may be moved to the past of the lock.
IncreaseUnlockTime_Shortens(u, duration) ==
  LET unlockTime == UnlockTime(duration)
  IN  /\ mapLockedBalances[u].amount > 0
      /\ mapLockedBalances[u].endTime > now
      /\ unlockTime > now
      /\ unlockTime <= now + MAXTIME
      /\ DepositForInternal(u, 0, unlockTime)

IncreaseUnlockTime(u, duration) ==
  LET unlockTime == UnlockTime(duration)
  IN  /\ mapLockedBalances[u].amount > 0
      /\ mapLockedBalances[u].endTime > now
      /\ unlockTime > mapLockedBalances[u].endTime
      /\ unlockTime <= now + MAXTIME
      /\ DepositForInternal(u, 0, unlockTime)

\* Fault: the lock is not cleared.
Withdraw_KeepsLock(u) ==
  LET lock == mapLockedBalances[u]
  IN  /\ lock.endTime <= now
      /\ supply' = supply - lock.amount
      /\ CheckpointUser(u, lock, NoLock, supply - lock.amount)
      /\ escrow' = escrow - lock.amount
      /\ UNCHANGED <<now, block, mapLockedBalances>>

Withdraw(u) ==
  LET lock == mapLockedBalances[u]
  IN  /\ lock.endTime <= now
      /\ mapLockedBalances' = [mapLockedBalances EXCEPT ![u] = NoLock]
      /\ supply' = supply - lock.amount
      /\ CheckpointUser(u, lock, NoLock, supply - lock.amount)
      /\ escrow' = escrow - lock.amount
      /\ UNCHANGED <<now, block>>

NextBlock ==
  /\ \E d \in BlockTimes : now + d <= MaxTime /\ now' = now + d
  /\ block' = block + 1
  /\ UNCHANGED <<supply, mapLockedBalances, mapSupplyPoints, mapUserPoints,
                 mapSlopeChanges, escrow>>

Transaction(u) ==
  \/ \E a \in Amounts, d \in Durations : CreateLock(u, a, d)
  \/ \E a \in Amounts : IncreaseAmount(u, a)
  \/ \E d \in Durations : IncreaseUnlockTime(u, d)
  \/ Withdraw(u)

Next ==
  \/ /\ totalNumPoints < MaxPoints
     /\ \/ \E u \in Voters : Transaction(u)
        \/ Checkpoint
  \/ NextBlock

Spec == Init /\ [][Next]_vars

(***************************************************************************)
(* Views                                                                   *)
(***************************************************************************)

\* getLastUserPoint
LastUserPoint(u) ==
  IF mapUserPoints[u] = <<>> THEN EmptyPoint(0, 0)
  ELSE mapUserPoints[u][Len(mapUserPoints[u])]

\* _balanceOfLocked; getVotes(u) is the value at `now'.
BalanceOfLocked(u, t) ==
  LET pt == LastUserPoint(u) IN PositivePart(pt.bias - pt.slope * (t - pt.ts))
GetVotes(u) == BalanceOfLocked(u, now)

\* _supplyLockedAt: from a supply point, week by week to time t.
SupplyLockedAt(point, t) ==
  LET at(i) == StepTime(point.ts, i, t)
      steps == StepsTo(point.ts, t)
      pt[i \in 0 .. steps] ==
        IF i = 0 THEN point
        ELSE LET p == pt[i - 1]
                 bias == p.bias - p.slope * (at(i) - p.ts)
             IN  IF at(i) = t THEN [p EXCEPT !.bias = bias]
                 ELSE [p EXCEPT !.bias = bias, !.slope = @ + mapSlopeChanges[at(i)],
                                !.ts = at(i)]
  IN  PositivePart(pt[steps].bias)

TotalSupplyLockedAtT(t) == SupplyLockedAt(SupplyPoint(totalNumPoints), t)

\* Fault: points of the block itself are taken for later ones.
Halved_Strict(points, b, range) ==
  LET mid == (range.lo + range.hi + 1) \div 2
  IN  IF range.lo >= range.hi THEN range
      ELSE IF points[mid + 1].blockNumber < b THEN [range EXCEPT !.lo = mid]
      ELSE [range EXCEPT !.hi = mid - 1]

\* One round of the binary search, between the points numbered lo and hi.
Halved(points, b, range) ==
  LET mid == (range.lo + range.hi + 1) \div 2
  IN  IF range.lo >= range.hi THEN range
      ELSE IF points[mid + 1].blockNumber <= b THEN [range EXCEPT !.lo = mid]
      ELSE [range EXCEPT !.hi = mid - 1]

\* _findPointByBlock: number of the point that the binary search ends at.  A round leaves
\* fewer points than before, so that as many rounds as points (128 in the code, for up
\* to 2^128 points) always end it.
FindPointByBlock(points, b) ==
  LET range[i \in 0 .. Len(points)] ==
        IF i = 0 THEN [lo |-> 0, hi |-> Len(points) - 1]
        ELSE Halved(points, b, range[i - 1])
  IN  range[Len(points)].lo

\* _getBlockTime: the time of block b, interpolated between its two points.
GetBlockTime(b) ==
  LET i == FindPointByBlock(mapSupplyPoints, b)
      point == SupplyPoint(i)
      dBlock == (IF i < totalNumPoints THEN SupplyPoint(i + 1).blockNumber ELSE block)
                - point.blockNumber
      dt == (IF i < totalNumPoints THEN SupplyPoint(i + 1).ts ELSE now) - point.ts
  IN  IF dBlock > 0 THEN point.ts + (dt * (b - point.blockNumber)) \div dBlock
      ELSE point.ts

GetPastVotes(u, b) ==
  IF mapUserPoints[u] = <<>> THEN 0
  ELSE LET pt == mapUserPoints[u][FindPointByBlock(mapUserPoints[u], b) + 1]
       IN  PositivePart(pt.bias - pt.slope * (GetBlockTime(b) - pt.ts))

GetPastTotalSupply(b) ==
  SupplyLockedAt(SupplyPoint(FindPointByBlock(mapSupplyPoints, b)), GetBlockTime(b))

\* balanceOfAt and totalSupplyAt
BalanceAt(points, b) ==
  IF points = <<>> THEN 0
  ELSE LET pt == points[FindPointByBlock(points, b) + 1]
       IN  IF pt.blockNumber <= b THEN pt.balance ELSE 0

(***************************************************************************)
(* Properties                                                              *)
(***************************************************************************)

SumOver(S, f(_)) == SumFunctionOnSet([x \in S |-> f(x)], S)

TypeOK ==
  /\ now \in StartTime .. MaxTime /\ block \in Nat
  /\ supply \in Nat /\ escrow \in Nat
  /\ mapLockedBalances \in [Voters -> Locks]
  /\ mapSupplyPoints \in Seq(Point) /\ mapSupplyPoints # <<>>
  /\ mapUserPoints \in [Voters -> Seq(Point)]
  /\ mapSlopeChanges \in [Weeks -> Int]

\* Now and at every later time, the voting powers of the accounts add up to the
\* total that quorums are taken of: deposits, extensions, ends and withdrawals
\* in any order leave no slope behind and none missing.
VotesAddUp ==
  \A t \in now .. MaxTime + MAXTIME :
    SumOver(Voters, LAMBDA u : BalanceOfLocked(u, t)) = TotalSupplyLockedAtT(t)

\* What VoteWeighting reads of a lock, the slope of the last user point, is that of
\* the amount locked, and the supply, its last point and the tokens held are the
\* sum of the amounts.
ReadersSeeTheLocks ==
  /\ \A u \in Voters : LastUserPoint(u).slope = mapLockedBalances[u].amount \div MAXTIME
  /\ supply = SumOver(Voters, LAMBDA u : mapLockedBalances[u].amount)
  /\ escrow = supply
  /\ SupplyPoint(totalNumPoints).balance = supply

\* The reference of the binary search: the last point no later than block b, or
\* the first one.
LastPointBefore(points, b) ==
  CHOOSE i \in 0 .. Len(points) - 1 :
    /\ points[i + 1].blockNumber <= b \/ i = 0
    /\ \A j \in i + 1 .. Len(points) - 1 : points[j + 1].blockNumber > b

\* Every history is searched right, although weeks that were filled in share the
\* block number of the point before them.
SearchIsExact ==
  \A b \in StartBlock .. block :
    /\ FindPointByBlock(mapSupplyPoints, b) = LastPointBefore(mapSupplyPoints, b)
    /\ \A u \in Voters : mapUserPoints[u] # <<>> =>
         FindPointByBlock(mapUserPoints[u], b) = LastPointBefore(mapUserPoints[u], b)

\* Tokens stay locked until the end of the lock and amounts and ends only grow:
\* the locks behave as VoteWeighting takes them to.
Abstract == INSTANCE VeLocks WITH locked <- mapLockedBalances
ImplementsVeLocks == Abstract!VeSpec
=============================================================================
