------------------------------ MODULE VeLocks ------------------------------
(***************************************************************************)
(* What veOLAS promises to its readers: one lock per account, whose amount *)
(* and end only grow while it lives and which can be emptied only after it *)
(* has ended.  VoteWeighting composes with this abstract specification;    *)
(* module VeOLAS, which keeps the points and slope changes of the          *)
(* contract, is shown to implement it.                                     *)
(*                                                                         *)
(* Every external call is one transaction and one action: a reverted call  *)
(* is an action that is not enabled.  `now' is block.timestamp in ticks.   *)
(***************************************************************************)
EXTENDS Integers

CONSTANTS
  Voters,       \* accounts that may hold a lock
  WEEK,         \* ticks in a week: all lock ends are whole weeks
  MAXTIME,      \* longest lock (4 * 365 days, not a whole number of weeks)
  Amounts,      \* amounts one deposit may carry
  MaxAmount,    \* bound: most that one lock holds
  StartTime,    \* block.timestamp at deployment
  MaxTime       \* bound: last tick

ASSUME WeekAssumption == WEEK \in Nat \ {0}
ASSUME LockAssumption == /\ MAXTIME \in Nat /\ MAXTIME >= WEEK
                         /\ Amounts \subseteq Nat \ {0}
                         /\ MaxAmount \in Nat
ASSUME TimeAssumption == StartTime \in Nat /\ MaxTime \in Nat /\ StartTime <= MaxTime

VARIABLES
  now,          \* block.timestamp
  locked        \* account -> [amount, endTime], mapLockedBalances

veVars == <<now, locked>>

Locks == [amount : Nat, endTime : Nat]
NoLock == [amount |-> 0, endTime |-> 0]

\* _createLockFor and increaseUnlockTime round a requested end down to a week
\* and accept at most MAXTIME from now.
UnlockTimes == {t \in now + 1 .. now + MAXTIME : t % WEEK = 0}

VeInit ==
  /\ now = StartTime
  /\ locked = [u \in Voters |-> NoLock]

\* A new lock, by the account itself or by anyone for it.  An ended lock that
\* still holds tokens must be withdrawn first.
CreateLock(u, amount, unlockTime) ==
  /\ amount \in Amounts /\ amount <= MaxAmount
  /\ locked[u].amount = 0
  /\ unlockTime \in UnlockTimes
  /\ locked' = [locked EXCEPT ![u] = [amount |-> amount, endTime |-> unlockTime]]
  /\ UNCHANGED now

\* increaseAmount by the owner or depositFor by anyone.
Deposit(u, amount) ==
  /\ amount \in Amounts
  /\ locked[u].amount > 0
  /\ locked[u].endTime > now
  /\ locked[u].amount + amount <= MaxAmount
  /\ locked' = [locked EXCEPT ![u].amount = @ + amount]
  /\ UNCHANGED now

IncreaseUnlockTime(u, unlockTime) ==
  /\ locked[u].amount > 0
  /\ locked[u].endTime > now
  /\ unlockTime \in UnlockTimes
  /\ unlockTime > locked[u].endTime
  /\ locked' = [locked EXCEPT ![u].endTime = unlockTime]
  /\ UNCHANGED now

\* Anyone may call withdraw, also with no lock: then nothing changes here.
Withdraw(u) ==
  /\ locked[u].endTime <= now
  /\ locked' = [locked EXCEPT ![u] = NoLock]
  /\ UNCHANGED now

\* The next block: any later timestamp.
Tick ==
  /\ now' \in now + 1 .. MaxTime
  /\ UNCHANGED locked

LockStep(u) ==
  \/ \E a \in Amounts, t \in UnlockTimes : CreateLock(u, a, t)
  \/ \E a \in Amounts : Deposit(u, a)
  \/ \E t \in UnlockTimes : IncreaseUnlockTime(u, t)
  \/ Withdraw(u)

VeNext ==
  \/ \E u \in Voters : LockStep(u)
  \/ Tick

VeSpec == VeInit /\ [][VeNext]_veVars

(***************************************************************************)
(* What the readers use                                                    *)
(***************************************************************************)

\* getLastUserPoint(u).slope: the slope of the last deposit or extension. It
\* stays as it was when the lock ends and is zero after the withdrawal.
UserSlope(u) == locked[u].amount \div MAXTIME

\* The voting power of u at time t if the lock is left as it is.
VotesAt(u, t) ==
  IF t < locked[u].endTime THEN UserSlope(u) * (locked[u].endTime - t) ELSE 0

VeTypeOK ==
  /\ now \in StartTime .. MaxTime
  /\ locked \in [Voters -> Locks]
=============================================================================
