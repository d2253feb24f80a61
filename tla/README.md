# Autonolas governance: a TLA+ verification project

The repository holds the on-chain governance of Autonolas (Solidity, `src/contracts`): the OLAS token,
locks of OLAS that carry decaying voting power (veOLAS), votes of lock holders on nominees (VoteWeighting),
a governor with a timelock, a guard on the community multisig, and the messengers and tunnels that carry
governance calls and tokens to other chains. It also holds the scripts (JavaScript, `scripts`) that deploy
these contracts, prepare the proposals and audit the result. These modules model the contracts and the
scripts, check them with TLC on small instances and prove theorems about them with TLAPS.

## Conventions

* A transaction is one action; the EVM runs transactions one at a time and undoes a call that reverts, so
  a revert is an action that is not enabled. The interleavings are those of transactions of different
  accounts, blocks and, between chains, messages.
* `now` is `block.timestamp` in ticks. A tick, a week of two ticks and the other durations are scaled; what
  is kept is the order of the durations and what does not divide what (MAXTIME, four times 365 days, is not
  a whole number of weeks).
* Several transactions share a block: time moves in an action of its own.
* In each module a definition `X_Fault...` (for instance `SwapAndPop_Repopulates`) comes before the
  definition `X` it is a faulty form of. No specification uses it: with X replaced by it, the property it
  is listed with in `PROJECT.json` is violated.

## Inventory

| Component | State | Operations | What makes it hard | Correct when |
|---|---|---|---|---|
| VoteWeighting | owner; nominee sets and id maps, active and removed; per voter and nominee a vote (slope, power, end), power used, time of the last vote; weekly points and slope changes per nominee and in total | add, remove nominee; checkpoints; vote, batch of votes; revoke; change owner | locks grow, end and are replaced between two votes; nominee and sum are walked at different times; removal with votes standing; clamped subtractions; a bounded walk | registry is consistent and removal final; points are the sum of the votes; relative weights are at most one and final; votes never outweigh a lock |
| veOLAS | locks; points of accounts and of the supply by block and time; slope changes | create, deposit, extend, withdraw, checkpoint; views of past blocks | locks ending together; week boundaries; several transactions in a block; binary search; interpolation between blocks | voting powers add up to the total now, later and at past blocks; tokens leave only after the end |
| wveOLAS | none | guarded views of veOLAS | blocks before the first point of an account | what the governor counts adds up to what it takes the quorum of |
| OLAS | supply, minter, owner, time of launch | mint within the inflation schedule, burn | ten-year cap, then compounded yearly inflation | supply never exceeds the cap of the year |
| buOLAS | vesting locks in yearly steps | create, withdraw, revoke | revocation in the middle of the schedule, then withdrawal; uint32/uint96 fields and unchecked subtraction | what is held is what is locked; released and burnt add up to what was locked |
| Burner | none | burn | no state | - |
| GovernorOLAS, GovernorTimelockControl, Timelock | proposals, votes, the governor's delay, timelock operations and roles | propose, vote, queue, execute, cancel, defeat by quorum, change of delay and timelock | two state machines, one proposal; the timelock can be called by others | executed once, after success and delay; governor and timelock agree |
| Bridge messengers (Fx, Gnosis, Optimism, Wormhole) | source governor, delivered hashes, ETH | receive a packed batch and run its calls; change the source governor | redelivery, failure of a call in the batch, change of the source governor while messages are under way | each message at most once, from the governor in force only, all of its calls or none; over Wormhole it arrives in the end |
| FxERC20 tunnels | locked, minted, each other's address | deposit, withdraw and their messages; wiring | messages under way, out of order; deposits before the wiring is complete; setters open to anybody; a state sync that reverts need not come again | what is locked backs what is minted, to be minted and to be unlocked; no burned token is lost |
| WormholeRelayerTimelock | none but the balance | send a batch, transfer tokens | a quote that moves between the vote and the execution | sends only what the value covers |
| GuardCM and verifiers | paused state, allowed targets, selectors and chains | check a transaction; pause, unpause | nested payloads; pause after a defeated proposal; self-calls | the multisig schedules allowed calls only, unless paused |
| DeploymentFactory | owner, addresses of OLAS and veOLAS | CREATE2, change of the owner | one address per contract and factory | ends without an owner |
| Deployment scripts | `globals.json`, the artifacts, the deployer's key | deploy, send transactions, check, write addresses down | transactions that are not awaited; errors anywhere, scripts run twice or from the start; two networks | the deployer keeps no power; the timelock always has a governor; the scripts get to the end |
| Proposal scripts | none | compute the batches that the DAO votes on, and what voters are shown | roles move from one governor to the next; a source governor that moves twice | the batch does what is shown, and leaves a governor |
| Deployment audit | none | read and compare | it sees only what `globals.json` and `configuration.json` name | a deployment passes exactly if nothing that it looks at is missing |
| veCompare, analyzers, `hardhat.config.js` | none | test scripts, settings | no state of the system | - |

How they interact: VoteWeighting reads the last point and the end of a lock from veOLAS, and tells the
Dispenser (another repository) of nominees added and removed. The governor reads past votes and supply
through wveOLAS, and queues and executes through the timelock, which owns the contracts. The timelock
sends calls to other chains through bridges to the messengers. GuardCM checks what the community multisig
schedules on the timelock, and asks the governor whether it may be paused. buOLAS burns through OLAS. The
deployment scripts are processes that share `globals.json` and the deployer's queue of transactions; the
proposals act through the timelock, and the audit compares the contracts that `docs/configuration.json` lists with `globals.json`.

## Modules

| Module | Models | Notes |
|---|---|---|
| `VeLocks` | what veOLAS promises: one lock per account, its amount and end only grow, and it is emptied only after its end | abstract; VoteWeighting composes with it |
| `VoteWeighting` | `VoteWeighting.sol` | extends `VeLocks`; a step of either |
| `MCVoteWeighting` | instances | symmetry only among values that no action compares |
| `FiniteSums` | lemmas: induction over sets of numbers, step functions, sums over finite sets | for the four modules of proofs below that compare a ledger with a sum |
| `VoteWeightingProofs` | theorems about the nominee registry and the types; lemmas on weeks and walks | |
| `VoteWeightingVotesProofs` | theorems about powers, locks behind votes, points, sums and history | extends `VoteWeightingProofs` |
| `VeOLAS` | `veOLAS.sol` | `ImplementsVeLocks`: a refinement of `VeLocks` |
| `VeOLASProofs` | the refinement, the types, the sums over the locks, the search, votes and balances of past blocks | extends `WveOLAS` |
| `WveOLAS` | the guarded views of `wveOLAS.sol` | extends `VeOLAS` |
| `MCVeOLAS` | instances | |
| `OLAS` | `OLAS.sol`, `Burner.sol` | the token, by itself and under `BuOLAS` |
| `BuOLAS` | `buOLAS.sol` | extends `OLAS`: a step of either |
| `MCBuOLAS` | instances | |
| `BuOLASProofs` | theorems about the supply of OLAS and about vesting | |
| `Timelock` | what OpenZeppelin's controller does with an operation | `Timelock.sol` adds nothing to it |
| `Governor` | `GovernorOLAS.sol`, `GovernorTimelockControl.sol` | extends `Timelock`: the calls that the governor and a timelock make of each other |
| `GuardCM` | `GuardCM.sol` and the multisig under it | extends `Governor`; the three together, and their properties |
| `MCGuardCM` | instances | |
| `GuardCMProofs` | theorems about governor, timelocks and guard | |
| `BridgeMessages` | the bridges, as what sends over them and what receives from them relies on | external but for its use |
| `Messengers` | `FxGovernorTunnel.sol`, `HomeMediator.sol`, `OptimismMessenger.sol`, `WormholeMessenger.sol`, `WormholeRelayerTimelock.sol`, `pack_data.js`, `annotate.js`, proposal 09 | extends `BridgeMessages` |
| `FxTunnels` | `FxERC20ChildTunnel.sol`, `FxERC20RootTunnel.sol`, `BridgedERC20.sol` | extends `BridgeMessages` |
| `Bridges` | messengers and tunnels over the same bridges; fairness and liveness | extends both |
| `MCBridges` | instances | |
| `BridgesProofs` | theorems about messengers, packed batches and tunnels | |
| `DeployedContracts` | owners, roles and wiring of the contracts; pending transactions | |
| `DeploymentScripts` | `scripts/deployment`, `scripts/proposals`: each script as the sequence of its operations | extends `DeployedContracts` |
| `Deployment` | the operator, who runs the scripts in order, again, or from the start | extends `DeploymentScripts` |
| `DeploymentAudit` | `scripts/audit_chains/audit_contracts_setup.js` | extends `Deployment` |
| `DeploymentProofs` | theorems about roles, the deployer's key and the audit | extends `DeploymentAudit` |

### VoteWeighting

The variables carry the names of the contract. The sets leave out the dummy element at index 0 and ids
start at 1, as in the contract. `Walk` is the loop of `_getSum` and `_getWeight`, `Walked` its points;
`Revote`, `CanCancel` and `Reschedule` are the parts of `voteForNomineeWeights` that the nominee and the
sum share. `CheckpointNominee` stands for `checkpointNominee` and `nomineeRelativeWeightWrite`, which
change the same state. A batch of votes runs the single vote several times in one transaction: its
states are those of single votes in one block, and that a failing vote undoes the batch adds no state.
Nominees are pairs; that different pairs have different hashes is assumed. The Dispenser is the set of
nominees it was told of. `veVars` move by `VeStep`: between two calls of VoteWeighting the locks take
any step of `VeLocks`.

### veOLAS

Point number i of the contract is element i + 1 of a sequence. `WalkedPoints` is the loop of
`_checkpoint`. The loop's `initialPoint` is the same memory object as `lastPoint` (`veOLAS.sol:220`), and
so is it in `Advance`, which keeps the block number and the balance of the point before.
`Halved` is one round of the binary search of `_findPointByBlock`, `FindPointByBlock` the search: as many rounds as there are points, which is
never fewer than it needs (the code has 128, for up to 2^128 points). `GetBlockTime` and `SupplyLockedAt` are the other helpers of the views. The token is external: `escrow`
is what the contract holds of it. Recursion is written as functions, so that the modules can be proved about.

### OLAS and buOLAS

`OLAS` has the token's roles, its inflation schedule and its balances. Allowances are left out: a missing one
makes a call revert, and a transfer by allowance is one the holder agreed to. The token calls nobody, so the
Burner's guard against reentry never matters and `BurnerBurn` is one step. `BuOLAS` keeps the OLAS of its locks on
the account `BuAddress` of the token. `granted` and `paid` are history variables: what the last lock of an account
was made for, and what was paid of it. As in the contract, a lock changes its meaning when it is revoked
(`Revoked`): its fields are then the amounts to burn and to pay. `OwnerMayRevoke` is the precondition that
`buOLAS.sol:209` states. `RevokeAgain` lets the owner revoke an account twice, which the code does not prevent;
the runs leave it `FALSE`. A batch of revocations is a run of single ones in one block. Arithmetic that is unchecked in the code wraps
at `UINT96`, which is far above any supply of the instances, as 2^96 is. The contract is called deprecated in the
repository's README; it still holds locks.

### Governor, timelocks and guard

The id of a proposal hashes the same batch and description as that of its operation in a timelock, so both are `p`,
and `timelockIds` is the set of proposals whose `_timelockIds` entry is not zero. An operation is one call,
`callOf[op]`: its kind (the function that is called, or `payload` for all others) and its value. Every behaviour has one
combination of calls out of `CallMaps`. `updateDelays` is a batch of two calls, `updateDelay` and
`updateGovernorDelay`. What a call changes is in `GovernorCall` and `GuardCall`, which belong to the step that
executes it: when one reverts the execution does. `proposals` holds the fields of `_proposals` that matter,
`receipts` the votes. The voting power of a voter is constant until `LockEnd`, when it is gone: how powers decay is
the subject of `VeOLAS`, and here it decides who may propose and whose proposals anybody may cancel. A tick is a block.

`State` is `GovernorTimelockControl.state` around OpenZeppelin's `CoreState`. A proposal's operation may be executed or
cancelled by the community multisig (CM) directly, and the governor may move to another timelock and back while
proposals are queued; the properties are about what the governor then says. `runs` is history: how often the
calls of an operation have been made.

The CM has its roles on the guard's `owner`, which is immutable and is the first timelock, and on the timelock that the
governor uses. It schedules what `CmOperations` has for the combination of calls, under `ScheduleAllowed`; a proposal may be among it,
and the properties of proposals are about those that are not (`Governed`): a batch that the CM schedules of its own is the CM's
decision, `queue` then reverts for the proposal, and the governor does not know of the operation. Neither guard nor timelock
prevents this for a call that is allowed. That such a proposal cannot free the CM is part of `CmIsGuarded`. With the guard in force
the CM cannot call the Safe itself (`CmSetGuard`).

Left out: changes of voting settings and quorum, `relay`, roles of a timelock granted or renounced, `changeGovernor`
of the guard, and the bridge mediators and verifiers, which look into payloads for other chains.

### Bridges

A message is delivered at any later time, in any order, or never; a delivery that reverts changes nothing on the chain. `closed` are the
messages that a bridge does not deliver again after success: every bridge but Wormhole, whose relayer may deliver again, which is what
`mapDeliveryHashes` is for. `failed` are the messages of the other bridges whose delivery has reverted: nothing in the code has them delivered
again. They may be (on Optimism anybody may replay one; the Gnosis AMB and the state syncs of Polygon give no such promise here), so
the safety properties allow for it and no liveness property counts on it. An exit that the root tunnel reverts can be presented again. The four messengers check the sender on the bridge and the governor on L1,
then run the same `_processData`; `Bridges` has one messenger of each kind, and a message is closed or remembered according to that kind.

A batch is packed into cells: a number of `TargetCells`, `ValueCells` or `LengthCells` big-endian cells, then the payload, as in
`pack_data.js`. `Unpacked` is the loop of `_processData` over offsets, `decodePacked` that of `annotate.js`, which shows the voters of a
proposal what they vote on. In the state a message carries the calls that were packed; `Received` and `Shown` are what the two loops make
of their packing. `ProcessData` makes the calls in order: a call of the application fails while it does not serve, a transfer fails when the
messenger has too little ETH, a self-call changes the governor for what comes later, and a call of address zero fails always.
The governor of a messenger may become the relayer contract (proposal 09 and its successor) or an account of the deployer.

`ManageFee` compares the value that a proposal named with the price at the time of its execution, which may be any: an execution that reverts sends nothing.

The tunnels lock on L2 and mint on L1. `ChangeOwnerToTunnel`, `SetFxChildTunnel` and `SetFxRootTunnel` come at any time and in any
order, and deposits do not wait for them. The two setters are those of fx-portal: anybody may call them, once, with any address (`Peers`: the tunnel
that belongs there, or another contract). Other contracts send messages over the same bridges (`SendOther`), and a tunnel takes them only
if it was told of that contract; whoever does that first can mint without a lock, which is entry 24 of
`docs/Vulnerabilities_list_governance.md` (lines 847-861). `LockedBacksBridged` therefore has the condition `RightPeers`, that no other contract was named;
it needs no tunnel to be wired. The owner of `BridgedERC20` mints at will until it is handed to the tunnel; that the deployer
mints nothing before is an assumption, and the scripts do not. `WithdrawalsSurvive` says that no message about burned tokens reverts on L2 once both
tunnels know each other. Before that tokens can be lost: a root tunnel that is wired and mints already
sends to a child tunnel that refuses, as the state sync need not come again.

### Deployment

A contract is a record of what scripts and audit read of it: owner, minter, supply, roles, and the addresses it was built on. A script
is a sequence of operations that reads `globals` (all `globals.json` files in one): `Deploy` waits until its transaction is mined;
`Send` submits a transaction and goes on, so that the checks after it (`Expect`, `ExpectRoles`) may read an older state and pass or fail;
`Record` writes an address down. A transaction whose guard no longer holds when it is mined has no effect, which no script notices: none
looks at the receipt. A script can break at any operation (`Breaks`, at most `MaxFailures` times), throws where the code does, and is
then run again, or the operator goes back to the first script of the group (`StartOver`) with fresh contracts. Four scripts end with exit code 0 where they
have failed: `deploy_26_00_guard_cm.sh`, `deploy_27_governor.sh` (no globals, no key, a failed deployment), `deploy_01_home_mediator.js` and
`deploy_01_wormhole_messenger.js` (unknown network, no key). `ReturnWithout` marks the places; at each of them `ReturnsEarly`, which counts
as one of the `MaxFailures` errors, lets the operator go on to the next script as if nothing had happened, and `skipped` keeps the script.
`Patient` says whether the operator waits for what is pending before a rerun; the run `deployment` has one who
may do either, `minted_twice` one who always waits. `Order` is the order of the numbers; the tunnels of
the two networks take turns, because each side reads the other's address. Proposals are carried out in one step, by any governor that has
the roles. Proposal 11 sets the bridge mediators of the new guard in four calls, for six networks; they are one call here, and its addresses,
constants in the proposal as in the audit, are taken to be those of the deployment. `handover` is no script: it stands for three changes that
no script of the repository makes and that the audit expects. Only the deployer wires the tunnels here; that anybody else may be quicker is
part of `FxTunnels`.

The audit finds contracts by their names in `docs/configuration.json`, a file that no script writes: the checks have it as a parameter, a function
from names to addresses, and a name that is not listed has the missing address. `AuditFindsWhatIsMissing` is about a configuration that agrees
with `globals.json`. Voting settings, supply caps and other numbers that a script takes from `globals.json` and the audit compares with the same entry are left out.

`governorParams` is the number of parameters of the constructor in the artifact of `GovernorOLAS`, 6 or 7 (see Divergences).

### Assumptions on the constants

In `Governor` the first delay of the governor is at least that of the timelock, as its constructor demands through
`_updateGovernorDelay`; in `GuardCM` the calls allowed at first free nobody (`AllowedAssumption`; the constructor allows
nothing). `MaxTime` is the last tick and stands for all later times: a delay that would end after it ends there, so that
what is queued can be executed, and a proposal is made early enough for its vote to end before. Voters without power do not vote,
which would change no count.

The deployer's key, 0x...dEaD, the missing address and the treasury are no addresses of contracts that the scripts deploy (`AccountsAreNoContracts`,
`TreasuryAssumption`): the first three have no code and the treasury is there before.

Accounts are finitely many (`Voters`, `Targets`, `ChainIds`, `Holders`, `Escrows`; addresses are of 160 bits), as sums over them are taken.

In `BuOLAS`, `MAX_UINT32` bounds the ends of locks, and `MaxTime` is at least that in every instance, so that
every lock is seen to its end. `SupplyFitsAssumption` is the comment that it takes 220 years for the supply to reach 2^96: an amount
times a number of steps fits into 96 bits until `MaxTime`. In `VeOLAS`, a walk of `MAX_STEPS` weeks outlasts a lock and a week more
(`MAXTIME + WEEK <= MAX_STEPS * WEEK`: 255 weeks, four years). In `VoteWeighting`, `WEEK`, `MAXTIME`, `MAX_WEIGHT`, `MAX_NUM_WEEKS` are positive and `MAXTIME >= WEEK`;
`MAX_NUM_WEEKS * WEEK > MAXTIME` is the comment at `VoteWeighting.sol:152`; the chain is older than
`WEIGHT_VOTE_DELAY` (it is counted from 1970); `address(0)` is neither a nominee account nor an owner at
deployment. The bounds are `MaxTime` (last tick), `MaxAmount` (one lock), `WeekHorizon` (weeks of the maps,
past the end of every lock: `HorizonAssumption`), `MaxPoints` (supply points after which no transaction is
sent), and the sets `Amounts`, `Durations`, `BlockTimes`.

## Runs

| Run | Checks | Instance |
|---|---|---|
| `votes` | `TypeOK`, `RegistryConsistent`, `RemovalIsFinal`, `PowerIsVotes`, `SumIsVotes`, `RelativeWeightsAtMostOne`, `VotesBackedByLock`, `HistoryIsFinal` | one voter, nominees on an EVM chain and on another one (and chain id 0, which is refused), two possible owners, weights 0 to 2 of 2, three weeks |
| `voters` | `WeightIsVotes`, `VoteNeverUnderflows` | two voters with locks of their own, one nominee |
| `stale_nominee` | `OneVoteIsEnough`: violated | walks of two weeks at most |
| `locks` | `TypeOK`, `VotesAddUp`, `ReadersSeeTheLocks`, `SearchIsExact`, `PastVotesAddUp`, `PastBalancesAddUp`, `ImplementsVeLocks` | two accounts, blocks two or three ticks apart |
| `past_votes` | `PastVotesAreFinal`: violated | a block each tick |
| `vesting` | `TypeOK`, `LocksAreBacked`, `GrantsAreHonoured`, `SupplyWithinSchedule`, `LastWithdrawalPaysAll`, `VestingEnds` | two holders, locks of 3 and 5 tokens in up to three steps, so that steps round down; a cap that compounds from the second year on; with fairness |
| `revoked_early` | `RevokedAreBurned`: violated | one holder, with fairness |
| `governance` | `TypeOK`, `ExecutedOnceIfApproved`, `StateIsTrue`, `NothingLeftPending`, `DelayIsKept`, `CmIsGuarded`, `ApprovedIsServed` | two proposals, an operation of the CM, two timelocks, two voters, six ticks; seven combinations of calls; with fairness |
| `paused_later` | `PauseMeansInactive`: violated | the same |
| `bridges` | `ExecutedOnce`, `ExecutedAsPacked`, `ChainOfGovernors`, `LockedBacksBridged`, `WithdrawalsSurvive`, `MessagesArrive` | a Wormhole messenger and another one, the tunnels, two messages, five batches and that of proposal 09; numbers of one and two cells; with fairness |
| `deployment` | `TimelockStaysGovernable`, `DeployerGivesUpEverything`, `AuditFindsWhatIsMissing`, `CeremonyCompletes` | all scripts, two errors from outside or early ends with exit code 0, reruns while transactions are pending, artifacts with 6 and 7 parameters; with fairness |
| `minted_twice` | `InitialSupplyMintedOnce`: violated | one error from outside |

Why the bounds are enough. A lock lasts at most five ticks of two to a week, so within five ticks it
is created, increased, extended, ends in the middle of the run and is replaced; votes are repeated once their
delay of three ticks is over, before, at and after the end of the lock they were cast with; nominees are
removed and revoked while another one shares their weeks; walks of zero to three weeks happen. Two nominees
are enough for a removal to move the other one in the set (that the swap is right for any number is proved). The run
`votes` has one voter and `voters` two, because what the two runs vary (nominees, locks) multiplies. In passing runs no walk
reaches `MAX_NUM_WEEKS`; what happens then is the run `stale_nominee`. Deadlock is not checked: with the
clock at its bound a run may stop.

In `governance`, within six ticks a proposal is made, voted on, queued and executed, with the delay changed or the timelock
replaced by another one in between, or it is defeated and the CM pauses the guard; the call combinations are chosen so that each
function that changes the governor, a timelock or the guard is called by a proposal or by the CM, and that the calls of the two
proposals and of the CM get in each other's way: two moves of the timelock, a delay that the CM raises above the governor's, an
allow-list and a check proposal that change. In one combination the CM schedules a proposal's batch itself.

In `bridges`, two messages (`MaxMessages`) are enough for one to overtake the other, for a change of the governor to make the other one void,
for a redelivery after a change, and for a deposit to be withdrawn again or to meet a message of another contract. `MaxFunding` and `MaxCost` are 1: a messenger
is short of ETH and is then funded, the price is above the value of a proposal. The application fails and comes back any number of times. What the messengers
do with the third and later messages depends on the governor and the hashes alone; at-most-once is proved for any number.
In `deployment`, two errors are enough for a script to break, to be run again and to break once more, or to start over and break again; a
script is run with every prefix of its transactions left pending; early ends with exit code 0 are among the two, so that both the guard and the
governor can be missing. Deadlock is not checked in either: a completed deployment stops, and so does
one that can only throw (artifacts with 7 parameters); the bridges stop when all messages are sent.

Fairness. Contracts do nothing by themselves, and the code obliges nobody to call, so the properties of the voting
contracts are safety properties. `BuOLAS` has the only liveness question that is the code's own: whether a lock can
always be emptied. `FairSpec` assumes that time passes and that an account which stays able to withdraw does so;
what is checked is then that the code never gets an account stuck. In `GuardCM`, `FairSpec` assumes that time passes and that somebody
queues and executes what can be queued or executed for good: both functions are open to everybody. `ApprovedIsServed` excepts
cancelled proposals, calls that revert, and a governor's delay below the timelock's: `scheduleBatch` then refuses every proposal, the
one that would repair it included, and only a delay that the CM lowers in the timelock helps. The voters are not assumed to do anything.
In `Bridges`, every message is delivered once in the end, with whatever result (weak fairness). Only over Wormhole it is delivered until it succeeds
(strong fairness of `Redelivery`, as the application may stop and come back in between): the relayer delivers for whoever asks and pays, and a revert leaves nothing
behind that would prevent it. For the other bridges nothing in the code gives that. Holders present an exit again that reverts, the tunnels get wired, in the
one way or the other, messengers are funded and the application recovers: all of these are open to somebody who wants the message to arrive. `MessagesArrive`
says that then a batch over Wormhole is executed, but for those that L2 refuses in every state or whose governor was
replaced; that locked tokens are minted, unless the root tunnel was told of another contract; and that what goes over the other bridges arrives or has failed once. In `Deployment`, the network mines (weak fairness), a script goes on, and the operator runs a script again; he does not start over for ever without
need, and does so when nothing else helps (strong fairness: after a run of the failed script he is back where he was).

## Divergences found

* **One vote is not enough after a long silence** (`stale_nominee`). `VoteWeighting.sol:152` says of
  `MAX_NUM_WEEKS` that it is enough to have at least one vote while the veOLAS value is positive. The walks store
  `timeSum` and `timeWeight` only when they get past the present. After `MAX_NUM_WEEKS` weeks without a call they
  do not, and no later walk or vote gets any further: votes are written to the next week, from which no walk starts. Only `removeNominee` moves a time on
  otherwise: it writes the next week to `timeSum` and to the `timeWeight` of the nominee that it removes (lines 617, 626). With
  250 weeks this takes almost five years without a call.
* **Past votes change** (`past_votes`). `veOLAS.sol:218` says that `initialPoint` is kept to extrapolate
  the block number of weeks that are filled in; it aliases `lastPoint`, so nothing is extrapolated. The search for a
  past block then ends at the last point that was filled in, and the interpolated time, and with it
  `getPastVotes`, differs from what it was before the checkpoint. `docs/Vulnerabilities_list_governance.md` lists
  the aliasing. `PastVotesAddUp` still holds: votes and total move together.
* **A lock revoked early is never burned** (`revoked_early`). `docs/Vulnerabilities_list_governance.md:209` says that after
  a revocation the account can withdraw, which burns what has not vested, and that within the first year this
  restores the state. `withdraw` reverts when nothing has matured (`buOLAS.sol:159`); in the first year that is
  always so. The tokens stay, and as the lock is not empty the account cannot get another one.
* **A pause has no end** (`paused_later`). `GuardCM.sol:405` says that after the check proposal is defeated, governance is
  considered inactive for about a week. `pause` asks only whether the proposal's state is Defeated, which it stays for ever: the
  CM may pause the guard at any later time, also when the voters have approved other proposals since, until the timelock
  changes `governorCheckProposalId`.
* **The initial supply can be minted twice** (`minted_twice`). `scripts/deployment/deploy_11_mint_olas.js:67` checks that the balances add up
  to the initial supply, and `scripts/deployment/README.md:50` says that each script checks what it obtained. The mints are not awaited. After an
  error the script sends them again; when those of the first run are mined by then and the new ones are not, the check passes, and the supply becomes
  twice the initial one.

Observations without a run of their own:

* `buOLAS.sol:224` says of the amount to burn that it cannot become less than zero. Revoking an account a second time takes what has
  matured off it again, in unchecked arithmetic: `BurnAmountIsNotNegative` fails with `RevokeAgain = TRUE`. The precondition at
  `buOLAS.sol:209` may be read as excluding it.
* The constructor of `GovernorOLAS` takes seven parameters; `deploy_08_09_governor_and_roles.js:37-38` and
  `deploy_17_governorTwo.js:43-44` give six. With the artifact of the repository they throw before they send anything; they fit an earlier one. That is
  why `CeremonyCompletes` is about six, and step 27 (`deploy_27`, seven) deploys from a newer artifact.
* The audit looks roles up only for accounts that `globals.json` names. A governor of an abandoned run of `deploy_08_09` that was granted its roles, whose
  address was not recorded, stays unseen.
* A comment at line 222 of the audit says that the CM has all roles but that of the admin; line 230 expects it not to be a canceller, which no script
  brings about. `WormholeMessenger` is audited nowhere.
* The four scripts that end with exit code 0 where they have failed leave an older contract in use or none: proposal 2 or 11 then moves the roles to the governor that
  was written down before, which votes with veOLAS, and the CM gets the guard of `deploy_18` again. The audit reports each of these but a missing
  `WormholeMessenger`: `AuditFindsWhatIsMissing`.
* `scripts/deployment/README.md` names a script `deploy_18_governor_to_governorTwo.js` that does not exist.

## Proofs

For every value of the constants that satisfies the assumptions:

* `RegistryIsConsistent`, `RemovalForever` (`VoteWeightingProofs`). The inductive invariant is
  `RegistryInv`, the types of the registry and `RegistryConsistent`: the maps must be the inverse of the sets
  for the swap to move the right id (`IndexedSwapAndPop`), and the types are needed for ids to be numbers. No
  other part of the state enables or feeds a change of the registry.
* `TypesAreKept` (`VoteWeightingProofs`): `TypeOK`. Inductive only together with `RegistryInv`. Its core
  is that a walk from a week of the maps stays in them (`WalkStaysInWeeks`, from `HorizonAssumption`) and keeps
  points non-negative (`WalkTyped`); the walk is a recursive function, and that its recursion defines it
  (`WalkedDef`) is proved by the least-number principle on sets.
* `PowerFollowsVotes`, `VotesNeverExceedLock`, `HistoryStaysFinal`, `VotesCanBeReplaced` (`VoteWeightingVotesProofs`): `PowerIsVotes`,
  `VotesBackedByLock`, the action property `HistoryIsFinal` and `VoteNeverUnderflows`, for every behaviour. `BackedInv` says that a vote ends with
  the lock it was cast with, that the lock ends no earlier while the vote runs, and that the vote takes no more of the lock's slope than its share
  of power, which `PowerInv` sums up to `MAX_WEIGHT` at most; rounding down only lowers it. `ChangesInv` says what the scheduled slope changes are:
  those of the votes, exactly for an active nominee; for the sum exactly from the week after the next one on, and in the next week possibly more, since
  a removal takes the slope of the next point off but not the change of that same week. This is what replaces a vote without underflow.
* `WeightsFollowVotes`, `SumFollowsVotes`, `WeightsAddUpToOne` (`VoteWeightingVotesProofs`): `WeightIsVotes`, `SumIsVotes`,
  `RelativeWeightsAtMostOne`, in behaviours with `[]CheckpointedInTime`: somebody calls for the sum and for each active nominee before
  `MAX_NUM_WEEKS` weeks have gone by since the last call. The run `stale_nominee` shows that the condition is needed; it holds throughout
  the runs `votes` and `voters`, which therefore check these properties without it. The votes of an account decay along `BiasAt`, `SlopeAt` and `EndingAt`,
  whose sums are curves over the weeks (`IsCurve`) that a walk follows (`WalkFollows`); on the condition it reaches the coming week. `PointsInv` (`TotalInv` for the
  sum, `NomineeInv` for each nominee) then says that the last point is on the curve, with no clamped subtraction losing anything. It needs to
  know where no point is yet (`Blank`) and that a nominee can be ahead of the sum only until its first vote (`Fresh`). `RecordedInv` says that each recorded week of the
  sum is the sum of what that week holds, or will hold once walked, over all nominees: a late nominee is filled in with exactly what the sum has counted for it.
* `VeOLASImplementsVeLocks` (`VeOLASProofs`): `ImplementsVeLocks`, the initial states and each step.
* `VeOLASTypeCorrect` (`VeOLASProofs`): `TypeOK`. Its invariant `Books` relates locks, supply, tokens held and the last point of each account, and holds whatever happens.
* `VeOLASReadersSeeTheLocks`, `VeOLASVotesAddUp` (`VeOLASProofs`): `ReadersSeeTheLocks` and `VotesAddUp`, in behaviours with `[]CheckpointedInTime`: no
  `MAX_STEPS` weeks (255) go by without a transaction. `SupplyFollows` says that the last supply point is the sum of the locks at its time and that the slopes of what
  ends later are scheduled; the loop of `_checkpoint` and that of the view keep it, because every end is a whole week and they stop at each week (`AdvanceFollows`).
  Without the condition the loop gives up before it gets to the present.
* `VeOLASSearchIsExact` (`VeOLASProofs`): `SearchIsExact`, for every behaviour. `Histories` says that the points of the supply and of each account are in the order of
  their blocks, none later than the present: a walk brings the block of the last point forward and ends in the present one (`WalkBlocks`). On an ordered history each
  round keeps the point sought between `lo` and `hi` and leaves fewer points (`SearchFinds`).
* `PastBalancesAreFinal`, `VeOLASPastBalancesAddUp` (`VeOLASProofs`): what `balanceOfAt` of the wrapper and `totalSupplyAt` answer for a block that has passed never changes
  (the action property `KeepsPastBalances`, in every behaviour), and, with `[]CheckpointedInTime`, `PastBalancesAddUp`. A point that is added is of the present block, or is filled in with
  the block and the balance of the point before it; either way the search for an earlier block ends at a point with the same balance (`LastOfExtension`).
* `VeOLASPastVotesAddUp` (`VeOLASProofs`): `PastVotesAddUp`, with `[]CheckpointedInTime`. Votes do change after the fact (`past_votes`), so the argument is in two parts. A block before the
  last supply point is settled: its point, its interpolated time and the slope changes up to then stay, and so do the points of the accounts that it sees (`SettledVotesKept`). For a later
  block the last points of all accounts are no later than it (`InStep`), so the accounts vote with their present locks, of which the last supply point is the sum at every time
  (`PresentVotes`). When a checkpoint settles it, it does so by the last point that it filled in (`SettledByOne`): that point still accounts for the locks before the transaction, and
  the interpolated time is no earlier than it and no later than the present (`BlockTimeBounds`).
* `SupplyStaysWithinSchedule` (`BuOLASProofs`): `SupplyWithinSchedule`, from `TokenInv` (the supply is the sum of the balances, and within the cap of the
  moment), whatever the holders and the owners of the token and of buOLAS do.
* `BuOLASTypeCorrect`, `LocksStayBacked`, `GrantsStayHonoured`, `LastWithdrawalPaysTheGrant` (`BuOLASProofs`): `TypeOK`, `LocksAreBacked`, `GrantsAreHonoured`,
  `LastWithdrawalPaysAll`, for `RevokeAgain = FALSE`, the precondition at `buOLAS.sol:209`; with a second revocation they are false (see Divergences). `BuInv` says of
  each lock that it is empty, vests (`IsVesting`: the rest and the remaining steps determine what was paid) or is revoked (`IsRevoked`), that the supply is the
  sum of what is owed and that the balance covers it. With `SupplyFitsAssumption` no 96-bit arithmetic wraps.
* `GovernanceTypes`, `ProposalsExecuteOnce`, `QueueIsFree`, `StateTellsTheTruth`, `PendingIsQueued` (`GuardCMProofs`): `TypeOK`,
  `ExecutedOnceIfApproved`, `SucceededIsNotScheduled` (no run checks this one: the timelock does not hold the operation of a proposal that waits to be queued), `StateIsTrue`, `NothingLeftPending`. None of them is inductive. The invariant
  `Sound` says of a proposal that it has one operation at most, in whichever timelock; that it has been run
  exactly if that operation is done; that it has an operation only if it has an id, and an id only if its vote was won. It is kept
  because a vote that is over is final (`VoteStep`), which needs the governor's state machine but nothing of how votes are counted.
* `CmStaysGuarded` (`GuardCMProofs`): `CmIsGuarded`, from `GInv`: until governance has failed a vote or has freed the CM, the guard is in
  force, the allow-list is the first one, and what is pending in the guard's owner and could free the CM has been approved.
* `DelayIsKeptAlways` (`GuardCMProofs`): `DelayIsKept`, an action property. It follows from `DelayInv`: `Sound`, and `Waits` of each
  proposal that the CM does not schedule itself, which says that what is pending of it, in whichever timelock, becomes ready no sooner than the end of the vote plus
  one of the governor's delays. `GovernorDelays` are the first delay and those that governance has decided (`DelayWasDecided`); the set only grows (`DelaysGrow`).
  That a proposal's vote is over when it is queued (`VoteIsOver`) keeps its deadline fixed afterwards.
* `MessagesExecuteOnce` (`BridgesProofs`): `ExecutedOnce`, for any number of messengers and messages and any batches. The inductive invariant is
  `DeliveryInv`: what was executed is a hash that is remembered, or a message that the bridge has closed (`LogIsRemembered`), together with `ExecutedOnce`
  and the types of the log. What a batch does is irrelevant to it: it cannot touch the hashes.
* `LockedAlwaysBacksBridged` (`BridgesProofs`): `LockedBacksBridged`, for any wiring at any time by anybody; its condition is `RightPeers`. In `TunnelInv`, as long as that holds, what
  is locked is the sum of the balances on L1 and of what the deliverable messages of the tunnels carry in each direction (`FlowOf`); sending, delivering and closing such a
  message moves one term of these sums, and what other contracts send is in none of them and is not taken.
* `WithdrawalsAlwaysSurvive` (`BridgesProofs`): the action property `WithdrawalsSurvive`. `PeerInv` says that a root tunnel that has not been told of its peer has minted nothing, so that
  withdrawals are addressed to the contract it was told of; a message that fails with both tunnels wired would then carry more than is locked, against `TunnelInv`.
* `MessagesExecutedAsPacked` (`BridgesProofs`): `ExecutedAsPacked`, for any batches and any widths of the packed fields. The packed data of a batch is laid out call after call
  (`CallsMet`); the two readers jump over it from offset to offset (`IsJumps`), and by induction over the calls they are at the beginning of a call each time, take it off unchanged,
  and stop exactly at the end of the data. `BatchInv` carries this to the messages under way and executed.
* `GovernorsAreChained` (`BridgesProofs`): `ChainOfGovernors`. `GovernorInv` says that the source governor of a messenger is the one that its log has put in force, beginning with the
  Timelock (`Succession`), and that each entry of the log came from the governor in force before it.
* `TimelockStaysGovernableAlways`, `DeployerGivesUpEverythingAlways`, `AuditFindsWhatIsMissingAlways` (`DeploymentProofs`): `TimelockStaysGovernable`,
  `DeployerGivesUpEverything`, `AuditFindsWhatIsMissing` (in both directions: a pass leaves no hole, and a hole is reported), for any supplies, any number of errors and any choice of the operator, patient or not. `StepTable` goes through
  the scripts once and puts what each deploys, submits, writes down and checks into tables; the rest of the proof reads the tables. The argument:
  * `Core`: position and program counter agree (`RunsInv`), each contract has the fields of its kind and contracts are numbered (`ContractsInv`), what is pending is one of the
    transactions of the tables (`PendingInv`), and what a script has written down is a contract of its kind that is built on what is written down now (`RecordedInv`, with
    `ThisInv` for the contract of the script that runs). A fresh start deploys new contracts, but olas and veolas, which a factory creates once.
  * `GivenInv`: what deploy_12_15 has checked stays given away: the deployer cannot take it back, and a proposal does not give it back. Transactions that fail when they are
    mined have no effect, so it does not matter how many of them the repetitions of a script have left.
  * `TimelocksInv` and `GovernedInv`: the new governor has all the roles from the check of deploy_08_09 on, before it is written down; proposals 1 and 2 give them to
    governorTwo, proposal 11 to the governor of deploy_27. A batch is a walk over its calls (`Effects`); a role holds at its end if it is granted
    and not revoked later (`RoleLasts`), and other fields are as before (`BatchKeeps`).
  * `HandingInv`, for the audit: the owners of VoteWeighting and of the bridged token and the other ends of the two tunnels are set by a later script, which
    does not wait for its transaction and checks nothing. Before that script, nothing about the field is underway (`Unhanded`); afterwards the field has
    its new value, or its old one with a transaction underway that sets the new one (`Handed`). With nothing pending, it has arrived.
  * `ReplacedInv` and `BridgesInv`, for the audit too: until deploy_27 has recorded a governor, the one written down votes with veOLAS and is not governorTwo; afterwards it votes
    with wveOLAS. Until deploy_26_00 has recorded a guard, the one written down asks governorTwo. Proposal 11 tells the guard that is written
    down of all bridges, be it the old one.
    So the audit finds exactly the scripts in `skipped` that matter.

The sums are those of the community module `Functions`; `FiniteSums` proves what is needed of them (change of one term, linearity, exchange of two sums,
sums over pairs) from their definition by a fold, with induction on subsets of a finite set. The invariants were checked with TLC on the small instances before they were proved.

Model-checked only:

* The liveness properties `VestingEnds`, `ApprovedIsServed`, `MessagesArrive` and `CeremonyCompletes`: they rest on fairness and on ENABLED, which the provers do not handle.
* The five properties that are violated: their counterexamples are TLC's.

No theorem says what a recursive function computes by citing a library theorem on induction, as these take an operator as a parameter; the inductions here are over sets of
numbers (`IntervalInduction` in `FiniteSums`), which is enough for walks, searches and readers.

## Plan

1. Done: `VeLocks`, `VoteWeighting`, `VeOLAS`, `WveOLAS`; theorems for every safety property of theirs.
2. Done: `OLAS`, `BuOLAS` and their theorems.
3. Done: `Timelock`, `Governor`, `GuardCM` and their theorems.
4. Done: `Messengers`, `FxTunnels`, `Bridges` and their theorems.
5. Done: deployment scripts, proposals, audit and their theorems.
6. Left: the verifiers of `GuardCM`, as what they demand of a payload for another chain, with the allow-list; `changeGovernor`; an
   abstract life cycle of a proposal that `Governor` implements.

## Not modelled

* Vendored ERC20, Safe and OpenZeppelin code, but for what the contracts rely on. Allowances of OLAS.
* The mediators and verifiers that `GuardCM` asks about payloads for other chains, its `changeGovernor`; voting settings, `relay`.
* `WormholeRelayerTimelock.transferTokens`: it hands tokens to a token bridge whose other end is not in the repository.
* Scripts on which nothing else depends: the verifiers of step 26 (01 to 04), the veto contracts of steps 28 to 30, the test networks, Near and Solana;
  proposals 03, 04, 06, 07, 08 and 10, which call one function of a contract that is modelled elsewhere, the parts of 11 for bridges and Celo, and the
  report of 12.
* veCompare, the analyzers and `hardhat.config.js`: test scripts and settings.
