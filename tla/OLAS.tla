-------------------------------- MODULE OLAS --------------------------------
(***************************************************************************)
(* The OLAS token: an ERC20 whose minter cannot mint past the inflation    *)
(* schedule, and which every holder can burn; and the Burner contract,     *)
(* which burns what it was sent.                                           *)
(*                                                                         *)
(* One transaction is one action; a revert is an action not enabled.  An   *)
(* allowance that is missing only makes a call revert, so allowances are   *)
(* left out: `transferFrom' is a transfer that the holder has agreed to.   *)
(***************************************************************************)
EXTENDS Integers, FiniteSets, Functions

CONSTANTS
  Holders,            \* accounts that call by themselves
  Escrows,            \* contracts that hold OLAS and act in other modules
  BurnerAddress,
  Managers,           \* accounts that may be owner or minter
  ZeroAddress,
  Amounts,            \* amounts of one call
  oneYear,
  StartTime, MaxTime, \* bound: last tick
  tenYearSupplyCap,
  LastCapYear,        \* number of the last year under the first cap (9)
  maxMintCapFraction  \* percent

ASSUME OLASAssumption ==
  /\ IsFiniteSet(Holders \cup Escrows)
  /\ BurnerAddress \notin Holders \cup Escrows /\ Holders \cap Escrows = {}
  /\ ZeroAddress \notin Managers
  /\ Amounts \subseteq Nat
  /\ oneYear \in Nat \ {0}
  /\ StartTime \in Nat \ {0} /\ MaxTime \in Nat /\ StartTime <= MaxTime
  /\ tenYearSupplyCap \in Nat /\ LastCapYear \in Nat /\ maxMintCapFraction \in Nat

VARIABLES now, owner, minter, totalSupply, balanceOf

olasVars == <<now, owner, minter, totalSupply, balanceOf>>

Accounts == Holders \cup Escrows \cup {BurnerAddress}
timeLaunch == StartTime

OlasInit ==
  /\ now = StartTime
  /\ owner \in Managers /\ minter = owner
  /\ totalSupply = 0
  /\ balanceOf = [a \in Accounts |-> 0]

(***************************************************************************)
(* Roles                                                                   *)
(***************************************************************************)

\* Fault: no check for the zero address.
ChangeOwner_Zero(sender, newOwner) ==
  /\ sender = owner
  /\ owner' = newOwner
  /\ UNCHANGED <<now, minter, totalSupply, balanceOf>>

ChangeOwner(sender, newOwner) ==
  /\ sender = owner
  /\ newOwner # ZeroAddress
  /\ owner' = newOwner
  /\ UNCHANGED <<now, minter, totalSupply, balanceOf>>

ChangeMinter(sender, newMinter) ==
  /\ sender = owner
  /\ newMinter # ZeroAddress
  /\ minter' = newMinter
  /\ UNCHANGED <<now, owner, totalSupply, balanceOf>>

(***************************************************************************)
(* Supply                                                                  *)
(***************************************************************************)

NumYears(t) == (t - timeLaunch) \div oneYear

\* Fault: the tenth year already compounds.
CompoundedYears_TenthToo(t) ==
  IF NumYears(t) >= LastCapYear THEN NumYears(t) - LastCapYear + 1 ELSE 0

\* Years, the current one included, that inflation has compounded for.
CompoundedYears(t) == IF NumYears(t) > LastCapYear THEN NumYears(t) - LastCapYear ELSE 0

SupplyCap(t) ==
  LET cap[k \in 0 .. CompoundedYears(t)] ==
        IF k = 0 THEN tenYearSupplyCap
        ELSE cap[k - 1] + (cap[k - 1] * maxMintCapFraction) \div 100
  IN  cap[CompoundedYears(t)]

\* A checked subtraction: mint reverts if it underflows.
InflationRemainder == SupplyCap(now) - totalSupply
InflationControl(amount) == amount <= InflationRemainder

\* A request past the schedule does not revert and mints nothing.
Mint(sender, account, amount) ==
  /\ sender = minter
  /\ InflationRemainder >= 0
  /\ IF InflationControl(amount)
     THEN /\ balanceOf' = [balanceOf EXCEPT ![account] = @ + amount]
          /\ totalSupply' = totalSupply + amount
     ELSE UNCHANGED <<balanceOf, totalSupply>>
  /\ UNCHANGED <<now, owner, minter>>

\* _burn and the balances of transfer and transferFrom, for this contract's
\* callers and for the contracts that hold OLAS.
BurnFrom(account, amount) ==
  /\ balanceOf[account] >= amount
  /\ balanceOf' = [balanceOf EXCEPT ![account] = @ - amount]
  /\ totalSupply' = totalSupply - amount

Move(from, to, amount) ==
  /\ balanceOf[from] >= amount
  /\ balanceOf' = [[balanceOf EXCEPT ![from] = @ - amount] EXCEPT ![to] = @ + amount]
  /\ UNCHANGED totalSupply

Burn(sender, amount) ==
  /\ BurnFrom(sender, amount)
  /\ UNCHANGED <<now, owner, minter>>

Transfer(sender, to, amount) ==
  /\ Move(sender, to, amount)
  /\ UNCHANGED <<now, owner, minter>>

\* Burner.burn: all that the Burner holds.
BurnerBurn ==
  /\ balanceOf[BurnerAddress] > 0
  /\ BurnFrom(BurnerAddress, balanceOf[BurnerAddress])
  /\ UNCHANGED <<now, owner, minter>>

Tick ==
  /\ now < MaxTime
  /\ now' = now + 1
  /\ UNCHANGED <<owner, minter, totalSupply, balanceOf>>

ManagerStep(s) ==
  \/ \E m \in Managers \cup {ZeroAddress} : ChangeOwner(s, m) \/ ChangeMinter(s, m)
  \/ \E a \in Accounts, amount \in Amounts : Mint(s, a, amount)

HolderStep(h) ==
  \E amount \in Amounts :
    \/ Burn(h, amount)
    \/ \E a \in Accounts : Transfer(h, a, amount)

OlasNext ==
  \/ \E s \in Managers : ManagerStep(s)
  \/ \E h \in Holders : HolderStep(h)
  \/ BurnerBurn
  \/ Tick

OlasSpec == OlasInit /\ [][OlasNext]_olasVars

(***************************************************************************)
(* Properties                                                              *)
(***************************************************************************)

OlasTypeOK ==
  /\ now \in StartTime .. MaxTime
  /\ owner \in Managers /\ minter \in Managers
  /\ totalSupply \in Nat
  /\ balanceOf \in [Accounts -> Nat]

\* The supply stays within the schedule: under the first cap until the end of the
\* tenth year and under the compounded one afterwards, so the checked subtraction of
\* inflationRemainder never makes minting impossible.
SupplyWithinSchedule ==
  /\ now < timeLaunch + (LastCapYear + 1) * oneYear => totalSupply <= tenYearSupplyCap
  /\ totalSupply <= SupplyCap(now)
=============================================================================
