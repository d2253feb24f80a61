------------------------- MODULE DeploymentScripts -------------------------
(***************************************************************************)
(* The deployment scripts.  Each is a process of its own: it reads the     *)
(* addresses that earlier scripts wrote to globals.json, then runs the     *)
(* operations of its main() in order and exits with an error at the first  *)
(* one that throws.  A deployment is awaited until it is mined             *)
(* (.deployed()); every other transaction is submitted and not awaited.    *)
(***************************************************************************)
EXTENDS DeployedContracts

CONSTANTS
  timelockSupply, saleSupply, valorySupply, initSupply,
  treasuryAddress    \* of the tokenomics contracts

\* "Numbers below must accumulate to initSupply"
ASSUME SuppliesAssumption ==
  /\ {timelockSupply, saleSupply, valorySupply} \subseteq Nat \ {0}
  /\ initSupply = timelockSupply + saleSupply + valorySupply

ASSUME TreasuryAssumption == treasuryAddress # Deployer /\ treasuryAddress \notin Address

VARIABLES
  governorParams,  \* constructor parameters in the artifact of GovernorOLAS
  globals,  \* globals.json: name -> address (of all networks in one)
  script,   \* the script that runs, or "none"
  pc,       \* its next operation
  this      \* the address of the contract that it deploys

scriptVars == <<governorParams, globals, script, pc, this>>

GlobalNames ==
  {"deploymentFactory", "olasAddress", "timelockAddress", "veOLASAddress",
   "governorAddress", "governorTwoAddress", "buOLASAddress", "wveOLASAddress",
   "guardCMAddress", "bridgedERC20Address", "fxERC20RootTunnelAddress",
   "fxERC20ChildTunnelAddress", "voteWeightingAddress", "burnerAddress",
   "wormholeRelayerTimelockAddress", "fxGovernorTunnelAddress", "homeMediatorAddress",
   "optimismMessengerAddress", "wormholeMessengerAddress"}

g == globals

(***************************************************************************)
(* Operations                                                              *)
(***************************************************************************)

\* The contract factory checks the number of constructor arguments before it sends.
DeployArgs(net, fields, given, wanted) ==
  [op |-> "deploy", net |-> net, fields |-> fields, encodes |-> given = wanted]
Deploy(net, fields) == DeployArgs(net, fields, 0, 0)
Send(net, tx) == [op |-> "send", net |-> net, tx |-> tx]
Expect(at, fields) == [op |-> "expect", at |-> at, fields |-> fields]
ExpectRoles(at, held, notHeld) ==
  [op |-> "expectRoles", at |-> at, held |-> held, notHeld |-> notHeld]
\* What the operator has to provide by hand: the script throws without it, or
\* returns, with exit code 0.
Require == [op |-> "require"]
ReturnWithout == [op |-> "return"]
Verify == [op |-> "verify"]
Execute(calls) == [op |-> "execute", calls |-> calls]
Record(name) == [op |-> "record", name |-> name]

(***************************************************************************)
(* The governance contracts, steps 2 to 15                                 *)
(***************************************************************************)

deploy_02_deployment_factory ==
  << Deploy("L1", [owner |-> Deployer, olasAddress |-> NoAddress, veOLASAddress |-> NoAddress]),
     Expect(this, [owner |-> Deployer]),
     Verify,
     Record("deploymentFactory") >>

\* factory.deployOLAS hands the new token to its caller; the script reads the
\* address back from the factory.
deploy_04_olas ==
  << Send("L1", Create(g.deploymentFactory, "olasAddress", this,
                       [owner |-> Deployer, minter |-> Deployer, supply |-> 0])),
     Expect(g.deploymentFactory, [olasAddress |-> this]),
     Expect(this, [owner |-> Deployer]),
     Expect(this, [minter |-> Deployer]),
     Verify,
     Record("olasAddress") >>

deploy_05_timelock ==
  << Deploy("L1", [roles |-> TimelockRoles(this)]),
     ExpectRoles(this, {<<"admin", Deployer>>, <<"admin", this>>}
                         \cup {"executor", "proposer", "canceller"} \X {CM},
                 {<<"admin", CM>>}),
     Verify,
     Record("timelockAddress") >>

deploy_07_veolas ==
  << Send("L1", Create(g.deploymentFactory, "veOLASAddress", this, [token |-> g.olasAddress])),
     Expect(g.deploymentFactory, [veOLASAddress |-> this]),
     Expect(this, [token |-> g.olasAddress]),
     Verify,
     Record("veOLASAddress") >>

\* Fault: the roles are not read back.
deploy_08_09_governor_and_roles_NoCheck ==
  << DeployArgs("L1", [token |-> g.veOLASAddress, timelock |-> g.timelockAddress], 6, governorParams),
     Expect(this, [timelock |-> g.timelockAddress]),
     Send("L1", GrantRole(g.timelockAddress, "admin", this)),
     Send("L1", GrantRole(g.timelockAddress, "executor", this)),
     Send("L1", GrantRole(g.timelockAddress, "proposer", this)),
     Send("L1", GrantRole(g.timelockAddress, "canceller", this)),
     Verify,
     Record("governorAddress") >>

\* Six arguments: veOLAS, timelock, voting delay and period, threshold, quorum.
deploy_08_09_governor_and_roles ==
  << DeployArgs("L1", [token |-> g.veOLASAddress, timelock |-> g.timelockAddress], 6, governorParams),
     Expect(this, [timelock |-> g.timelockAddress]),
     Send("L1", GrantRole(g.timelockAddress, "admin", this)),
     Send("L1", GrantRole(g.timelockAddress, "executor", this)),
     Send("L1", GrantRole(g.timelockAddress, "proposer", this)),
     Send("L1", GrantRole(g.timelockAddress, "canceller", this)),
     ExpectRoles(g.timelockAddress, AllRoles(this), {}),
     Verify,
     Record("governorAddress") >>

deploy_10_buolas ==
  << Deploy("L1", [owner |-> Deployer, token |-> g.olasAddress]),
     Expect(this, [token |-> g.olasAddress]),
     Expect(this, [owner |-> Deployer]),
     Verify,
     Record("buOLASAddress") >>

\* The three recipients hold all that is minted: their balances are the supply.
deploy_11_mint_olas ==
  << Send("L1", Mint(g.olasAddress, timelockSupply)),
     Send("L1", Mint(g.olasAddress, saleSupply)),
     Send("L1", Mint(g.olasAddress, valorySupply)),
     Expect(g.olasAddress, [supply |-> initSupply]) >>

\* Fault: buOLAS is forgotten.
deploy_12_15_ownerships_NoBuOLAS ==
  << Send("L1", ChangeMinter(g.olasAddress, g.timelockAddress)),
     Send("L1", ChangeOwner(g.olasAddress, g.timelockAddress)),
     Expect(g.olasAddress, [owner |-> g.timelockAddress]),
     Expect(g.olasAddress, [minter |-> g.timelockAddress]),
     Send("L1", RenounceRole(g.timelockAddress, "admin")),
     ExpectRoles(g.timelockAddress, {}, {<<"admin", Deployer>>}),
     Send("L1", ChangeOwner(g.deploymentFactory, DEAD)),
     Expect(g.deploymentFactory, [owner |-> DEAD]) >>

deploy_12_15_ownerships ==
  << Send("L1", ChangeMinter(g.olasAddress, g.timelockAddress)),
     Send("L1", ChangeOwner(g.olasAddress, g.timelockAddress)),
     Send("L1", ChangeOwner(g.buOLASAddress, g.timelockAddress)),
     Expect(g.olasAddress, [owner |-> g.timelockAddress]),
     Expect(g.olasAddress, [minter |-> g.timelockAddress]),
     Expect(g.buOLASAddress, [owner |-> g.timelockAddress]),
     Send("L1", RenounceRole(g.timelockAddress, "admin")),
     ExpectRoles(g.timelockAddress, {}, {<<"admin", Deployer>>}),
     Send("L1", ChangeOwner(g.deploymentFactory, DEAD)),
     Expect(g.deploymentFactory, [owner |-> DEAD]) >>

(***************************************************************************)
(* The supplemental contracts, steps 16 to 25                              *)
(***************************************************************************)

deploy_16_wveolas ==
  << Deploy("L1", [ve |-> g.veOLASAddress, token |-> g.olasAddress]),
     Expect(this, [ve |-> g.veOLASAddress]),
     Verify,
     Record("wveOLASAddress") >>

\* With seven parameters the object of fee overrides is taken for the last one.
deploy_17_governorTwo ==
  << DeployArgs("L1", [token |-> g.wveOLASAddress, timelock |-> g.timelockAddress], 6, governorParams),
     Record("governorTwoAddress"),
     Expect(this, [timelock |-> g.timelockAddress]),
     Verify >>

deploy_18_guardCM ==
  << Deploy("L1", [owner |-> g.timelockAddress, multisig |-> CM, governor |-> g.governorTwoAddress,
                   bridges |-> {}]),
     Record("guardCMAddress"),
     Verify >>

deploy_19_bridged_erc20 ==
  << Deploy("L1", [owner |-> Deployer]),
     Record("bridgedERC20Address"),
     Verify >>

deploy_20_erc20_root_tunnel ==
  << Deploy("L1", [rootToken |-> g.bridgedERC20Address, peer |-> NoAddress]),
     Record("fxERC20RootTunnelAddress"),
     Verify >>

\* Fault: the tunnel is pointed to itself.
deploy_21_22_bridged_erc20_change_owners_Self ==
  << Send("L1", ChangeOwner(g.bridgedERC20Address, g.fxERC20RootTunnelAddress)),
     Send("L1", SetTunnel(g.fxERC20RootTunnelAddress, g.fxERC20RootTunnelAddress)) >>

deploy_21_22_bridged_erc20_change_owners ==
  << Send("L1", ChangeOwner(g.bridgedERC20Address, g.fxERC20RootTunnelAddress)),
     Send("L1", SetTunnel(g.fxERC20RootTunnelAddress, g.fxERC20ChildTunnelAddress)) >>

\* The dispenserAddress of the tokenomics globals: "refuse it" when it is zero.
deploy_23_vote_weighting ==
  << Require,
     Deploy("L1", [owner |-> Deployer, ve |-> g.veOLASAddress]),
     Verify,
     Record("voteWeightingAddress") >>

deploy_24_burner ==
  << Deploy("L1", [olas |-> g.olasAddress]),
     Verify,
     Record("burnerAddress") >>

deploy_25_wormhole_relayer_timelock ==
  << Deploy("L1", [timelock |-> g.timelockAddress]),
     Verify,
     Record("wormholeRelayerTimelockAddress") >>

\* The shell scripts end with exit code 0 when globals.json or the key of the RPC node is
\* missing, and when forge does not print an address, with a contract deployed or not.
\* They run on after a verification that fails. Seven arguments.
deploy_27_governor ==
  << ReturnWithout,
     DeployArgs("L1", [token |-> g.wveOLASAddress, timelock |-> g.timelockAddress], 7, 7),
     ReturnWithout,
     Record("governorAddress") >>

deploy_26_00_guard_cm ==
  << ReturnWithout,
     Deploy("L1", [owner |-> g.timelockAddress, multisig |-> CM, governor |-> g.governorAddress,
                   bridges |-> {}]),
     ReturnWithout,
     Record("guardCMAddress") >>

(***************************************************************************)
(* The contracts on the other networks                                     *)
(***************************************************************************)

deploy_01_governor_tunnel ==
  << Deploy("L2", [sourceGovernor |-> g.timelockAddress]),
     Record("fxGovernorTunnelAddress"),
     Verify >>

deploy_03_erc20_child_tunnel ==
  << Deploy("L2", [rootToken |-> g.bridgedERC20Address, peer |-> NoAddress]),
     Record("fxERC20ChildTunnelAddress"),
     Verify >>

deploy_04_set_root_tunnel ==
  << Send("L2", SetTunnel(g.fxERC20ChildTunnelAddress, g.fxERC20RootTunnelAddress)) >>

\* These two return, with exit code 0, on an unknown network or a missing key.
deploy_01_home_mediator ==
  << ReturnWithout,
     Deploy("L2", [sourceGovernor |-> g.timelockAddress]),
     Record("homeMediatorAddress"),
     Verify >>

deploy_01_wormhole_messenger ==
  << ReturnWithout,
     Deploy("L2", [sourceGovernor |-> g.timelockAddress]),
     Record("wormholeMessengerAddress"),
     Verify >>

deploy_01_optimism_messenger ==
  << Deploy("L2", [sourceGovernor |-> g.timelockAddress]),
     Record("optimismMessengerAddress"),
     Verify >>

(***************************************************************************)
(* Proposals that the DAO votes on and the Timelock executes               *)
(***************************************************************************)

RevokeAll(account) ==
  << RevokeRole(g.timelockAddress, "admin", account),
     RevokeRole(g.timelockAddress, "executor", account),
     RevokeRole(g.timelockAddress, "proposer", account),
     RevokeRole(g.timelockAddress, "canceller", account) >>

GrantAll(account) ==
  << GrantRole(g.timelockAddress, "admin", account),
     GrantRole(g.timelockAddress, "executor", account),
     GrantRole(g.timelockAddress, "proposer", account),
     GrantRole(g.timelockAddress, "canceller", account) >>

proposal_01_goerli_sync_mainnet ==
  << Execute(RevokeAll(g.governorAddress) \o GrantAll(g.governorTwoAddress)
               \o << ChangeMinter(g.olasAddress, treasuryAddress) >>) >>

\* Fault: the role of the proposer is left out.
proposal_02_governor_to_governorTwo_NoProposer ==
  << Execute(RevokeAll(g.governorAddress)
               \o << GrantRole(g.timelockAddress, "admin", g.governorTwoAddress),
                     GrantRole(g.timelockAddress, "executor", g.governorTwoAddress),
                     GrantRole(g.timelockAddress, "canceller", g.governorTwoAddress) >>) >>

proposal_02_governor_to_governorTwo ==
  << Execute(RevokeAll(g.governorAddress) \o GrantAll(g.governorTwoAddress)) >>

proposal_05_CM_guard == << Execute(<< SetGuard(CM, g.guardCMAddress) >>) >>

\* Parts A, B (four calls) and D: the roles go to the new governor, the new guard
\* learns of the bridges and is set. The addresses, constants of the script, are
\* taken to be those of globals.json. Parts C, E and F are about other contracts
\* and the allow-list, which neither a script nor the audit reads.
proposal_11_activation ==
  << Execute(GrantAll(g.governorAddress) \o RevokeAll(g.governorTwoAddress)
               \o << SetBridgeMediators(g.guardCMAddress, MediatedNetworks),
                     SetGuard(CM, g.guardCMAddress) >>) >>

\* What no script of the repository does and the audit expects: the multisig is no
\* canceller, the treasury mints, the Timelock owns VoteWeighting.
handover ==
  << Execute(<< RevokeRole(g.timelockAddress, "canceller", CM) >>
               \o (IF chain[g.olasAddress].minter = treasuryAddress THEN << >>
                   ELSE << ChangeMinter(g.olasAddress, treasuryAddress) >>)),
     Send("L1", ChangeOwner(g.voteWeightingAddress, g.timelockAddress)) >>
=============================================================================
