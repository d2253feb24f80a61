------------------------- MODULE DeployedContracts -------------------------
(***************************************************************************)
(* The contracts as the deployment scripts see them: who owns them, who    *)
(* holds which role, which other contracts they were built on.  A script   *)
(* submits a transaction of the deployer's key and goes on; the network    *)
(* mines the transactions of one key in the order of their nonces, and one *)
(* whose guard no longer holds is mined without effect.                    *)
(***************************************************************************)
EXTENDS Naturals, Sequences, FiniteSets

CONSTANTS
  Deployer,      \* the EOA that runs the scripts
  DEAD,          \* 0x...dEaD
  NoAddress,     \* address(0), or a name missing from globals.json
  SupplyCap      \* tenYearSupplyCap of OLAS

\* The address of a contract: its kind and the how-manieth of its kind it is.
Kinds ==
  {"cm", "factory", "olas", "veolas", "timelock", "governor", "buolas", "wveolas", "guard", "bridged",
   "root", "child", "voteweighting", "burner", "relayer", "fxgovernor", "mediator", "optimism", "wormhole"}
Address == Kinds \X Nat

ASSUME DistinctAccounts == Cardinality({Deployer, DEAD, NoAddress}) = 3
ASSUME AccountsAreNoContracts == {Deployer, DEAD, NoAddress} \cap Address = {}

VARIABLES
  chain,     \* deployed address -> fields of the contract, as mined
  pending    \* network -> transactions submitted and not yet mined

chainVars == <<chain, pending>>

Networks == {"L1", "L2"}

\* The networks whose bridges GuardCM knows, with the verifier and the mediator of each.
MediatedNetworks == {"gnosis", "polygon", "arbitrum", "optimism", "base", "celo"}

\* The community multisig is there from the start.
CM == <<"cm", 1>>
Deployed(kind) == {a \in DOMAIN chain : a[1] = kind}
Fresh(kind) == <<kind, Cardinality(Deployed(kind)) + 1>>

Roles == {"admin", "proposer", "executor", "canceller"}
AllRoles(account) == Roles \X {account}
HasRole(timelock, role, account) == <<role, account>> \in chain[timelock].roles

\* What a new TimelockController grants: the deployer and itself are admins, the
\* one proposer and executor of the constructor's lists is a canceller too.
TimelockRoles(timelock) ==
  {<<"admin", Deployer>>, <<"admin", timelock>>}
    \cup {"proposer", "executor", "canceller"} \X {CM}

(***************************************************************************)
(* Transactions: what they call, with what the call needs and what it does *)
(***************************************************************************)

ChangeOwner(at, newOwner) == [call |-> "changeOwner", at |-> at, arg |-> newOwner]
ChangeMinter(at, newMinter) == [call |-> "changeMinter", at |-> at, arg |-> newMinter]
Mint(at, amount) == [call |-> "mint", at |-> at, arg |-> amount]
GrantRole(at, role, account) == [call |-> "grantRole", at |-> at, arg |-> <<role, account>>]
RevokeRole(at, role, account) == [call |-> "revokeRole", at |-> at, arg |-> <<role, account>>]
RenounceRole(at, role) == [call |-> "renounceRole", at |-> at, arg |-> <<role, Deployer>>]
SetGuard(at, guard) == [call |-> "setGuard", at |-> at, arg |-> guard]
SetBridgeMediators(at, networks) == [call |-> "setBridgeMediators", at |-> at, arg |-> networks]
SetTunnel(at, tunnel) == [call |-> "setTunnel", at |-> at, arg |-> tunnel]
Create(at, name, new, fields) ==
  [call |-> "create", at |-> at, arg |-> [name |-> name, new |-> new, fields |-> fields]]

\* The call of an account does not revert. create2 refuses a taken address; the
\* other tunnel is set once, by anyone; the Timelock is a module of the multisig.
Succeeds(tx, from) ==
  LET at == chain[tx.at]
  IN  CASE tx.call \in {"changeOwner", "changeMinter", "setBridgeMediators"} -> at.owner = from
        [] tx.call = "mint" -> at.minter = from
        [] tx.call \in {"grantRole", "revokeRole"} -> HasRole(tx.at, "admin", from)
        [] tx.call = "setTunnel" -> at.peer = NoAddress
        [] tx.call = "create" -> at.owner = from /\ tx.arg.new \notin DOMAIN chain
        [] OTHER -> TRUE

\* OLAS skips, without reverting, a mint that the schedule does not allow.
Minted(supply, amount) == IF supply + amount <= SupplyCap THEN supply + amount ELSE supply

With(new, fields) == [a \in DOMAIN chain \cup {new} |-> IF a = new THEN fields ELSE chain[a]]

Effect(contracts, tx) ==
  CASE tx.call = "changeOwner" -> [contracts EXCEPT ![tx.at].owner = tx.arg]
    [] tx.call = "changeMinter" -> [contracts EXCEPT ![tx.at].minter = tx.arg]
    [] tx.call = "mint" -> [contracts EXCEPT ![tx.at].supply = Minted(@, tx.arg)]
    [] tx.call = "grantRole" -> [contracts EXCEPT ![tx.at].roles = @ \cup {tx.arg}]
    [] tx.call \in {"revokeRole", "renounceRole"} ->
         [contracts EXCEPT ![tx.at].roles = @ \ {tx.arg}]
    [] tx.call = "setTunnel" -> [contracts EXCEPT ![tx.at].peer = tx.arg]
    [] tx.call = "setGuard" -> [contracts EXCEPT ![tx.at].guard = tx.arg]
    [] tx.call = "setBridgeMediators" -> [contracts EXCEPT ![tx.at].bridges = @ \cup tx.arg]
    [] tx.call = "create" ->
         [With(tx.arg.new, tx.arg.fields) EXCEPT ![tx.at][tx.arg.name] = tx.arg.new]

\* A batch: one call after the other. Effects(...)[i] is what the first i leave.
Effects(contracts, calls) ==
  LET after[i \in 0 .. Len(calls)] == IF i = 0 THEN contracts ELSE Effect(after[i - 1], calls[i])
  IN  after

\* The oldest transaction of the deployer is mined.
Mine(net) ==
  /\ pending[net] # <<>>
  /\ LET tx == Head(pending[net])
     IN  chain' = IF Succeeds(tx, Deployer) THEN Effect(chain, tx) ELSE chain
  /\ pending' = [pending EXCEPT ![net] = Tail(@)]

ChainInit ==
  /\ chain = [a \in {CM} |-> [guard |-> NoAddress]]
  /\ pending = [net \in Networks |-> <<>>]
=============================================================================
