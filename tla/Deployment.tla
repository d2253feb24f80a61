---------------------------- MODULE Deployment ----------------------------
(***************************************************************************)
(* The operator runs the scripts one after another.  A script may exit     *)
(* with an error anywhere (an RPC call, a stale read, a verification); it  *)
(* leaves behind what it has mined and what is still pending, and the      *)
(* operator runs it again or starts over with fresh contracts.             *)
(***************************************************************************)
EXTENDS DeploymentScripts

CONSTANTS
  MaxFailures,   \* bound on the errors from outside
  Patient        \* the operator waits for the pending transactions before a rerun

ASSUME BoundsAssumption == MaxFailures \in Nat /\ Patient \in BOOLEAN

VARIABLES
  next,      \* position in Order
  failed,    \* the script that exited with an error, or "none"
  failures,
  skipped    \* the scripts that have returned early, with exit code 0

vars == <<chainVars, scriptVars, next, failed, failures, skipped>>

\* "All the scripts MUST be strictly run in the sequential order"; the tunnels of
\* the two networks, deployed from both sides, take turns. On a test network
\* proposal 1 takes the place of proposal 2.
Order ==
  << "02", "04", "05", "07", "08_09", "10", "11", "12_15", "16", "17", "18",
     "19", "polygon_03", "20", "21_22", "polygon_04", "23", "24", "25",
     "P02", "P05", "27", "26_00", "P11", "handover",
     "polygon_01", "optimism_01", "gnosis_01", "wormhole_01" >>

Program(s) ==
  CASE s = "02" -> deploy_02_deployment_factory
    [] s = "04" -> deploy_04_olas
    [] s = "05" -> deploy_05_timelock
    [] s = "07" -> deploy_07_veolas
    [] s = "08_09" -> deploy_08_09_governor_and_roles
    [] s = "10" -> deploy_10_buolas
    [] s = "11" -> deploy_11_mint_olas
    [] s = "12_15" -> deploy_12_15_ownerships
    [] s = "16" -> deploy_16_wveolas
    [] s = "17" -> deploy_17_governorTwo
    [] s = "18" -> deploy_18_guardCM
    [] s = "19" -> deploy_19_bridged_erc20
    [] s = "20" -> deploy_20_erc20_root_tunnel
    [] s = "21_22" -> deploy_21_22_bridged_erc20_change_owners
    [] s = "23" -> deploy_23_vote_weighting
    [] s = "24" -> deploy_24_burner
    [] s = "25" -> deploy_25_wormhole_relayer_timelock
    [] s = "26_00" -> deploy_26_00_guard_cm
    [] s = "27" -> deploy_27_governor
    [] s = "polygon_01" -> deploy_01_governor_tunnel
    [] s = "polygon_03" -> deploy_03_erc20_child_tunnel
    [] s = "polygon_04" -> deploy_04_set_root_tunnel
    [] s = "gnosis_01" -> deploy_01_home_mediator
    [] s = "optimism_01" -> deploy_01_optimism_messenger
    [] s = "wormhole_01" -> deploy_01_wormhole_messenger
    [] s = "P01" -> proposal_01_goerli_sync_mainnet
    [] s = "P02" -> proposal_02_governor_to_governorTwo
    [] s = "P05" -> proposal_05_CM_guard
    [] s = "P11" -> proposal_11_activation
    [] s = "handover" -> handover

Kind(s) ==
  CASE s = "02" -> "factory" [] s = "05" -> "timelock" [] s \in {"08_09", "17", "27"} -> "governor"
    [] s = "10" -> "buolas" [] s = "16" -> "wveolas" [] s \in {"18", "26_00"} -> "guard"
    [] s = "19" -> "bridged" [] s = "20" -> "root" [] s = "23" -> "voteweighting"
    [] s = "24" -> "burner" [] s = "25" -> "relayer" [] s = "polygon_01" -> "fxgovernor"
    [] s = "polygon_03" -> "child" [] s = "gnosis_01" -> "mediator"
    [] s = "optimism_01" -> "optimism" [] s = "wormhole_01" -> "wormhole"
    [] OTHER -> "none"

\* create2: one factory can create one token and one veOLAS, always at the same place.
NewAddress(s) ==
  CASE s = "04" -> <<"olas", g.deploymentFactory[2]>>
    [] s = "07" -> <<"veolas", g.deploymentFactory[2]>>
    [] OTHER -> Fresh(Kind(s))

Running == script # "none" /\ pc <= Len(Program(script))
Current == Program(script)[pc]
NothingPending == \A net \in Networks : pending[net] = <<>>

Matches(at, fields) ==
  at \in DOMAIN chain /\ \A f \in DOMAIN fields : chain[at][f] = fields[f]
RolesMatch(op) ==
  /\ op.held \subseteq chain[op.at].roles
  /\ op.notHeld \cap chain[op.at].roles = {}

(***************************************************************************)
(* The script                                                              *)
(***************************************************************************)

Begin(s) == script' = s /\ pc' = 1 /\ this' = NewAddress(s)
End == script' = "none" /\ pc' = 1 /\ this' = NoAddress

Start ==
  /\ script = "none" /\ failed = "none" /\ next <= Len(Order)
  /\ \E s \in {Order[next]} \cup (IF Order[next] = "P02" THEN {"P01"} ELSE {}) : Begin(s)
  /\ UNCHANGED <<chainVars, governorParams, globals, next, failed, failures, skipped>>

Advance == pc' = pc + 1 /\ UNCHANGED <<governorParams, script, this, next, failed, failures, skipped>>

\* .deployed(): mined, and with it all that the key has submitted before.
DeployContract ==
  /\ Running /\ Current.op = "deploy" /\ Current.encodes
  /\ pending[Current.net] = <<>>
  /\ chain' = With(this, Current.fields)
  /\ Advance /\ UNCHANGED <<pending, globals>>

SendTransaction ==
  /\ Running /\ Current.op = "send" /\ Succeeds(Current.tx, Deployer)
  /\ pending' = [pending EXCEPT ![Current.net] = Append(@, Current.tx)]
  /\ Advance /\ UNCHANGED <<chain, globals>>

Satisfied(op) ==
  CASE op.op = "expect" -> Matches(op.at, op.fields)
    [] op.op = "expectRoles" -> RolesMatch(op)
    [] OTHER -> op.op \in {"require", "return", "verify"}

Check == Running /\ Satisfied(Current) /\ Advance /\ UNCHANGED <<chainVars, globals>>

RecordAddress ==
  /\ Running /\ Current.op = "record"
  /\ globals' = [globals EXCEPT ![Current.name] = this]
  /\ Advance /\ UNCHANGED chainVars

\* A governor that may schedule and execute carries all the calls of a proposal out
\* as the Timelock, or none.
CanPass(gov) ==
  /\ chain[gov].timelock = g.timelockAddress
  /\ HasRole(g.timelockAddress, "proposer", gov)
  /\ HasRole(g.timelockAddress, "executor", gov)

ExecuteProposal ==
  /\ Running /\ Current.op = "execute" /\ NothingPending
  /\ \E gov \in Deployed("governor") : CanPass(gov)
  /\ \A i \in DOMAIN Current.calls : Succeeds(Current.calls[i], g.timelockAddress)
  /\ chain' = Effects(chain, Current.calls)[Len(Current.calls)]
  /\ Advance /\ UNCHANGED <<pending, globals>>

\* Exit code 0.
ExitZero == End /\ next' = next + 1 /\ UNCHANGED <<chainVars, governorParams, globals, failed>>

Finish ==
  /\ script # "none" /\ ~Running
  /\ ExitZero /\ UNCHANGED <<failures, skipped>>


(***************************************************************************)
(* Errors and what the operator does about them                            *)
(***************************************************************************)

Exit == /\ End /\ failed' = script
        /\ UNCHANGED <<chainVars, governorParams, globals, next, skipped>>

\* A call that cannot succeed, too few arguments, a check that no pending
\* transaction can make true any more.
Throws ==
  /\ Running
  /\ \/ Current.op = "deploy" /\ ~Current.encodes
     \/ Current.op = "send" /\ ~Succeeds(Current.tx, Deployer)
     \/ Current.op \in {"expect", "expectRoles"} /\ NothingPending /\ ~Satisfied(Current)
  /\ Exit /\ UNCHANGED failures

\* Errors from outside: the RPC node, a read before the transaction is mined, the
\* verification service, what the operator has not provided yet.
Breaks ==
  /\ Running /\ Current.op # "execute" /\ failures < MaxFailures
  /\ Exit /\ failures' = failures + 1

\* The same, in a script that returns with exit code 0: the operator goes on.
ReturnsEarly ==
  /\ Running /\ Current.op = "return" /\ failures < MaxFailures
  /\ ExitZero /\ failures' = failures + 1 /\ skipped' = skipped \cup {script}

Rerun ==
  /\ failed # "none"
  /\ Patient => NothingPending
  /\ Begin(failed) /\ failed' = "none"
  /\ UNCHANGED <<chainVars, governorParams, globals, next, failures, skipped>>

\* With fresh contracts, from the script that deploys the first of them.
Position(s) == CHOOSE i \in DOMAIN Order : Order[i] = s
HeadOf(s) == IF Position(s) <= Position("12_15") THEN "02" ELSE "19"

StartOver ==
  /\ failed # "none"
  /\ \/ Position(failed) <= Position("12_15")
     \/ Position(failed) \in Position("19") .. Position("polygon_04")
  /\ Cardinality(Deployed(Kind(HeadOf(failed)))) <= MaxFailures
  /\ Patient => NothingPending
  /\ next' = Position(HeadOf(failed)) /\ failed' = "none"
  /\ UNCHANGED <<chainVars, scriptVars, failures, skipped>>

(***************************************************************************)
(* Specification                                                           *)
(***************************************************************************)

Init ==
  /\ ChainInit
  /\ governorParams \in {6, 7}
  /\ globals = [name \in GlobalNames |-> NoAddress]
  /\ script = "none" /\ pc = 1 /\ this = NoAddress
  /\ next = 1 /\ failed = "none" /\ failures = 0 /\ skipped = {}

MineOne == \E net \in Networks :
             Mine(net) /\ UNCHANGED <<scriptVars, next, failed, failures, skipped>>

ScriptStep ==
  \/ Start \/ DeployContract \/ SendTransaction \/ Check \/ RecordAddress
  \/ ExecuteProposal \/ Finish \/ Throws

Next == MineOne \/ ScriptStep \/ Breaks \/ ReturnsEarly \/ Rerun \/ StartOver

Spec ==
  /\ Init /\ [][Next]_vars
  /\ WF_vars(MineOne) /\ WF_vars(ScriptStep) /\ WF_vars(Rerun) /\ SF_vars(StartOver)

(***************************************************************************)
(* Properties                                                              *)
(***************************************************************************)

Done(s) == next > Position(s)
Completed == next > Len(Order)

\* From the end of deploy_08_09 on there is always a governor written down that
\* holds all the roles of the Timelock: no failed or repeated script and no
\* proposal leaves the Timelock without one (grants before records, atomic
\* migration of the roles).
TimelockStaysGovernable ==
  Done("08_09") =>
    \E gov \in {g.governorAddress, g.governorTwoAddress} \ {NoAddress} :
      AllRoles(gov) \subseteq chain[g.timelockAddress].roles

\* After deploy_12_15 the deployer's key has no power over the contracts in use,
\* however the scripts up to there failed and were repeated.
DeployerGivesUpEverything ==
  Done("12_15") =>
    /\ chain[g.olasAddress].owner # Deployer /\ chain[g.olasAddress].minter # Deployer
    /\ chain[g.buOLASAddress].owner = g.timelockAddress
    /\ chain[g.deploymentFactory].owner = DEAD
    /\ \A role \in Roles : ~HasRole(g.timelockAddress, role, Deployer)

\* deploy_11 "Check the balance of contracts to be equal to initial supply in
\* total": the supply of the token in use is that sum, from then on. The balances
\* are read while the mints of this run may still be pending.
InitialSupplyMintedOnce == Done("11") => chain[g.olasAddress].supply = initSupply

\* Whatever fails in between, the scripts lead to the end when the artifact of
\* the governor takes the six arguments that two of them give.
CeremonyCompletes == governorParams = 6 ~> Completed
=============================================================================
