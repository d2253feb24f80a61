-------------------------- MODULE DeploymentAudit --------------------------
(***************************************************************************)
(* audit_contracts_setup.js: what it reads of the deployed contracts and   *)
(* compares with globals.json.  It finds the contracts at the addresses of *)
(* docs/configuration.json, a file that is kept by hand (a function from   *)
(* names to addresses here): at a contract that is not listed there it     *)
(* ends with an error; a check that fails is reported, and it goes on.     *)
(***************************************************************************)
EXTENDS Deployment

\* The contract is listed and has the bytecode of its kind.
checkBytecode(configuration, name, kind) == configuration[name] \in Deployed(kind)

customExpect(configuration, name, kind, fields) ==
  checkBytecode(configuration, name, kind) /\ Matches(configuration[name], fields)

checkOwner == [owner |-> g.timelockAddress]

checkOLAS(configuration) ==
  /\ customExpect(configuration, "olasAddress", "olas", checkOwner)
  /\ customExpect(configuration, "olasAddress", "olas", [minter |-> treasuryAddress])

\* Roles are looked up for the accounts of globals.json only.
checkTimelock(configuration) ==
  LET timelock == configuration["timelockAddress"]
  IN  /\ checkBytecode(configuration, "timelockAddress", "timelock")
      /\ AllRoles(g.governorAddress) \subseteq chain[timelock].roles
      /\ AllRoles(g.governorTwoAddress) \cap chain[timelock].roles = {}
      /\ {role \in Roles : HasRole(timelock, role, CM)} = {"proposer", "executor"}
      /\ HasRole(timelock, "admin", g.timelockAddress)

checkVEOLAS(configuration) ==
  customExpect(configuration, "veOLASAddress", "veolas", [token |-> g.olasAddress])

checkBUOLAS(configuration) ==
  /\ customExpect(configuration, "buOLASAddress", "buolas", [token |-> g.olasAddress])
  /\ customExpect(configuration, "buOLASAddress", "buolas", checkOwner)

checkWrappedVEOLAS(configuration) ==
  customExpect(configuration, "wveOLASAddress", "wveolas",
               [token |-> g.olasAddress, ve |-> g.veOLASAddress])

checkVoteWeighting(configuration) ==
  /\ customExpect(configuration, "voteWeightingAddress", "voteweighting",
                  [ve |-> g.veOLASAddress])
  /\ customExpect(configuration, "voteWeightingAddress", "voteweighting", checkOwner)

checkGovernorOLAS(configuration) ==
  customExpect(configuration, "governorAddress", "governor",
               [token |-> g.wveOLASAddress, timelock |-> g.timelockAddress])

\* The parameters of the bridges, per network; those that the audit expects and
\* those that proposal 11 sets are both kept by hand and taken to be the same.
checkGuardCM(configuration) ==
  /\ customExpect(configuration, "guardCMAddress", "guard", [governor |-> g.governorAddress])
  /\ customExpect(configuration, "guardCMAddress", "guard", checkOwner)
  /\ customExpect(configuration, "guardCMAddress", "guard", [multisig |-> CM])
  /\ customExpect(configuration, "guardCMAddress", "guard", [bridges |-> MediatedNetworks])

checkBridgedERC20(configuration) ==
  customExpect(configuration, "bridgedERC20Address", "bridged", [owner |-> g.fxERC20RootTunnelAddress])

checkFxERC20RootTunnel(configuration) ==
  customExpect(configuration, "fxERC20RootTunnelAddress", "root",
               [rootToken |-> g.bridgedERC20Address, peer |-> g.fxERC20ChildTunnelAddress])

checkFxGovernorTunnel(configuration) ==
  customExpect(configuration, "fxGovernorTunnelAddress", "fxgovernor", [sourceGovernor |-> g.timelockAddress])

checkFxERC20ChildTunnel(configuration) ==
  customExpect(configuration, "fxERC20ChildTunnelAddress", "child",
               [rootToken |-> g.bridgedERC20Address, peer |-> g.fxERC20RootTunnelAddress])

checkHomeMediator(configuration) ==
  customExpect(configuration, "homeMediatorAddress", "mediator", [sourceGovernor |-> g.timelockAddress])

checkOptimismMessenger(configuration) ==
  customExpect(configuration, "optimismMessengerAddress", "optimism", [sourceGovernor |-> g.timelockAddress])

\* The WormholeMessenger is never checked.
NoError(configuration) ==
  /\ checkOLAS(configuration) /\ checkTimelock(configuration)
  /\ checkVEOLAS(configuration) /\ checkBUOLAS(configuration)
  /\ checkWrappedVEOLAS(configuration) /\ checkVoteWeighting(configuration)
  /\ checkGovernorOLAS(configuration) /\ checkGuardCM(configuration)
  /\ checkBridgedERC20(configuration) /\ checkFxERC20RootTunnel(configuration)
  /\ checkFxGovernorTunnel(configuration) /\ checkFxERC20ChildTunnel(configuration)
  /\ checkHomeMediator(configuration) /\ checkOptimismMessenger(configuration)

(***************************************************************************)
(* Properties                                                              *)
(***************************************************************************)

\* With a configuration that lists what the scripts have written down, the audit of
\* a completed deployment reports an error exactly when a script has ended early
\* with exit code 0 and left a hole: an old governor or an old guard in use, no
\* mediator (a missing WormholeMessenger goes unnoticed). Errors and repeated
\* scripts leave nothing to find: what is written down last is wired consistently.
AuditFindsWhatIsMissing ==
  Completed /\ NothingPending =>
    (NoError(globals) <=> skipped \cap {"27", "26_00"} = {} /\ g.homeMediatorAddress # NoAddress)
=============================================================================
