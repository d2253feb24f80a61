------------------------------- MODULE BuOLAS -------------------------------
(***************************************************************************)
(* buOLAS: OLAS that vests to an account in yearly steps.  The owner may   *)
(* revoke what has not matured; it is burned when the account withdraws    *)
(* what has.  The contract holds the tokens as one of the Escrows of OLAS. *)
(***************************************************************************)
EXTENDS OLAS

CONSTANTS
  BuAddress,
  BuManagers,      \* accounts that may own buOLAS
  MAX_NUM_STEPS,
  MAX_UINT32,      \* last time that a lock may end (also the bound on its ends)
  UINT96,          \* 2^96
  RevokeAgain      \* the owner may revoke an account that is revoked already

ASSUME BuOLASAssumption ==
  /\ BuAddress \in Escrows /\ ZeroAddress \notin BuManagers
  /\ MAX_NUM_STEPS \in Nat /\ MAX_UINT32 \in Nat
  /\ UINT96 \in Nat \ {0} /\ RevokeAgain \in BOOLEAN

\* "It would take 220+ years to reach 2^96 - 1": until the last tick every amount times
\* the number of steps, which _releasableAmount multiplies it with, fits into 96 bits.
ASSUME SupplyFitsAssumption ==
  \A t \in StartTime .. MaxTime : SupplyCap(t) * MAX_NUM_STEPS < UINT96

VARIABLES
  buOwner, supply,
  mapLockedBalances,
  granted,         \* history: the amount of the last lock of an account
  paid             \* history: what the account was paid of it

buVars == <<buOwner, supply, mapLockedBalances, granted, paid>>
vars == <<olasVars, buVars>>

STEP_TIME == oneYear
LockedBalance == [totalAmount : Nat, transferredAmount : Nat, startTime : Nat, endTime : Nat]
NoLock == [totalAmount |-> 0, transferredAmount |-> 0, startTime |-> 0, endTime |-> 0]
Wrap(n) == n % UINT96    \* unchecked uint96 arithmetic

BuInit ==
  /\ buOwner \in BuManagers
  /\ supply = 0
  /\ mapLockedBalances = [u \in Holders |-> NoLock]
  /\ granted = [u \in Holders |-> 0] /\ paid = [u \in Holders |-> 0]

\* After a revocation `totalAmount' is what is to be burned, `transferredAmount'
\* what is to be paid, and the end is zero.
Revoked(u) == mapLockedBalances[u].startTime > 0 /\ mapLockedBalances[u].endTime = 0
Vesting(u) == mapLockedBalances[u].endTime > 0

ReleasableAmount(lock) ==
  LET numSteps == (lock.endTime - lock.startTime) \div STEP_TIME
      releasedSteps == (now - lock.startTime) \div STEP_TIME
  IN  IF lock.endTime = 0 THEN lock.transferredAmount
      ELSE IF releasedSteps + 1 > numSteps THEN Wrap(lock.totalAmount - lock.transferredAmount)
      ELSE Wrap(lock.totalAmount * releasedSteps) \div numSteps - lock.transferredAmount

ChangeBuOwner(sender, newOwner) ==
  /\ sender = buOwner
  /\ newOwner # ZeroAddress
  /\ buOwner' = newOwner
  /\ UNCHANGED <<olasVars, supply, mapLockedBalances, granted, paid>>

CreateLockFor(sender, u, amount, numSteps) ==
  LET unlockTime == now + STEP_TIME * numSteps
  IN  /\ amount > 0 /\ amount < UINT96
      /\ numSteps > 0 /\ numSteps <= MAX_NUM_STEPS
      /\ unlockTime <= MAX_UINT32
      /\ mapLockedBalances[u].totalAmount = 0
      /\ mapLockedBalances' = [mapLockedBalances EXCEPT
           ![u].startTime = now, ![u].endTime = unlockTime, ![u].totalAmount = amount]
      /\ supply' = supply + amount
      /\ Move(sender, BuAddress, amount)
      /\ granted' = [granted EXCEPT ![u] = amount]
      /\ paid' = [paid EXCEPT ![u] = 0]
      /\ UNCHANGED <<now, owner, minter, buOwner>>

\* Fault: the burned amount stays in the supply.
SupplyAfter_BurnStays(amount, amountBurn) == supply - amount

SupplyAfter(amount, amountBurn) == supply - amountBurn - amount

\* The burn of what was revoked, then the transfer of what has matured.
BurnAndPay(u, amount, amountBurn) ==
  /\ balanceOf[BuAddress] >= amountBurn + amount
  /\ balanceOf' = [[balanceOf EXCEPT ![BuAddress] = @ - amountBurn - amount]
                     EXCEPT ![u] = @ + amount]
  /\ totalSupply' = totalSupply - amountBurn

\* Fault: a lock that is paid in full is kept.
FullyPaid_Never(lock, transferred) == transferred > lock.totalAmount

\* Fault: a lock with one token left counts as paid.
FullyPaid_Early(lock, transferred) == transferred + 2 > lock.totalAmount

FullyPaid(lock, transferred) == transferred + 1 > lock.totalAmount

\* An account without a lock withdraws nothing and changes nothing.
Withdraw(u) ==
  LET lock == mapLockedBalances[u]
      amount == ReleasableAmount(lock)
      transferred == Wrap(lock.transferredAmount + amount)
      amountBurn == IF Revoked(u) THEN lock.totalAmount ELSE 0
  IN  /\ lock.startTime > 0
      /\ amount > 0
      /\ mapLockedBalances' = [mapLockedBalances EXCEPT
           ![u] = IF Vesting(u) /\ ~FullyPaid(lock, transferred)
                  THEN [lock EXCEPT !.transferredAmount = transferred] ELSE NoLock]
      /\ supply' = SupplyAfter(amount, amountBurn)
      /\ BurnAndPay(u, amount, amountBurn)
      /\ paid' = [paid EXCEPT ![u] = @ + amount]
      /\ UNCHANGED <<now, owner, minter, buOwner, granted>>

\* "This function must not be called after the account's lock period ends". With
\* no lock nothing changes. A batch is a run of single revocations.
OwnerMayRevoke(u) ==
  \/ Vesting(u) /\ now < mapLockedBalances[u].endTime
  \/ Revoked(u) /\ RevokeAgain

\* Fault: what was transferred before is revoked a second time.
AmountToBurn_ForgetsTransferred(lock) == Wrap(lock.totalAmount - ReleasableAmount(lock))

AmountToBurn(lock) ==
  Wrap(lock.totalAmount - Wrap(ReleasableAmount(lock) + lock.transferredAmount))

Revoke(sender, u) ==
  LET lock == mapLockedBalances[u]
  IN  /\ sender = buOwner
      /\ OwnerMayRevoke(u)
      /\ mapLockedBalances' = [mapLockedBalances EXCEPT
           ![u] = [lock EXCEPT !.totalAmount = AmountToBurn(lock),
                               !.transferredAmount = Wrap(ReleasableAmount(lock)),
                               !.endTime = 0]]
      /\ UNCHANGED <<olasVars, buOwner, supply, granted, paid>>

BuOwnerStep(s) ==
  \/ \E m \in BuManagers \cup {ZeroAddress} : ChangeBuOwner(s, m)
  \/ \E u \in Holders : Revoke(s, u)

BuHolderStep(h) ==
  \/ \E u \in Holders, amount \in Amounts, numSteps \in 0 .. MAX_NUM_STEPS + 1 :
       CreateLockFor(h, u, amount, numSteps)
  \/ Withdraw(h)

OlasStep == OlasNext /\ UNCHANGED buVars

Init == OlasInit /\ BuInit

Next ==
  \/ OlasStep
  \/ \E s \in BuManagers : BuOwnerStep(s)
  \/ \E h \in Holders : BuHolderStep(h)

Spec == Init /\ [][Next]_vars

\* Time passes, and an account with something to withdraw withdraws it.
Fairness == WF_vars(Tick /\ UNCHANGED buVars) /\ \A u \in Holders : WF_vars(Withdraw(u))
FairSpec == Spec /\ Fairness

(***************************************************************************)
(* Properties                                                              *)
(***************************************************************************)

TypeOK ==
  /\ OlasTypeOK
  /\ buOwner \in BuManagers
  /\ supply \in Nat
  /\ mapLockedBalances \in [Holders -> LockedBalance]
  /\ granted \in [Holders -> Nat] /\ paid \in [Holders -> Nat]

\* What the contract still has to pay out or burn for an account.
Owed(u) ==
  LET lock == mapLockedBalances[u]
  IN  IF Vesting(u) THEN lock.totalAmount - lock.transferredAmount
      ELSE lock.totalAmount + lock.transferredAmount

\* Every token owed is held: the supply of buOLAS is the sum of what is owed, and
\* the OLAS balance covers it through partial withdrawals, revocations and burns.
LocksAreBacked ==
  /\ supply = SumFunctionOnSet([u \in Holders |-> Owed(u)], Holders)
  /\ balanceOf[BuAddress] >= supply

\* What a lock of this amount, start and end has released at time t.
Matured(amount, startTime, endTime, t) ==
  IF t >= endTime THEN amount
  ELSE (amount * ((t - startTime) \div STEP_TIME)) \div ((endTime - startTime) \div STEP_TIME)

\* No token of a grant is lost or paid twice: while it vests, and after it is
\* revoked, what was paid, what is to be paid and what is to be burned add up
\* to the grant, and never more is paid than has matured.
GrantsAreHonoured ==
  \A u \in Holders :
    LET lock == mapLockedBalances[u]
    IN  /\ Vesting(u) \/ Revoked(u) => paid[u] + Owed(u) = granted[u]
        /\ Vesting(u) => paid[u] <= Matured(granted[u], lock.startTime, lock.endTime, now)

\* An account gets its whole grant when the lock is over, whenever it withdrew before,
\* although every yearly step is rounded down.
LastWithdrawalPaysAll ==
  [][\A u \in Holders : Vesting(u) /\ mapLockedBalances'[u] = NoLock => paid'[u] = granted[u]]_vars

\* A lock that is not revoked is over one day, with everything paid: no order of
\* withdrawals leaves a remainder that cannot be withdrawn.
VestingEnds ==
  \A u \in Holders : Vesting(u) ~> mapLockedBalances[u] = NoLock \/ Revoked(u)

\* "the third-party account can call the buOLAS withdraw function, and all non-vested
\* OLAS tokens will be burned". False: withdraw reverts when nothing has matured.
RevokedAreBurned ==
  \A u \in Holders : Revoked(u) ~> mapLockedBalances[u] = NoLock

\* "Amount locked now represents the burn amount, which can not become less than
\* zero". False: revoking again takes off what has matured again.
BurnAmountIsNotNegative ==
  \A u \in Holders : mapLockedBalances[u].totalAmount <= granted[u]
=============================================================================
