-------------------------- MODULE DeploymentProofs --------------------------
(***************************************************************************)
(* For any supplies, any number of errors and any choice of the operator   *)
(* between repeating a script and starting over: the Timelock always has a *)
(* governor, the deployer's key gives up all its power, and the audit of a *)
(* completed deployment reports what scripts that ended early left out,    *)
(* and nothing else.                                                       *)
(***************************************************************************)
EXTENDS DeploymentAudit, FiniteSums, SequenceTheorems

(***************************************************************************)
(* The tables: what each script deploys, submits, writes down and checks   *)
(***************************************************************************)

\* The script at position n has done its operation i.
Past(n, i) ==
  \/ next > n /\ ~(n = 22 /\ "27" \in skipped) /\ ~(n = 23 /\ "26_00" \in skipped)
  \/ next = n /\ script # "none" /\ pc > i

\* Position, script and the failed script agree; only proposals cannot fail. Who has
\* ended early has run.
RunsInv ==
  /\ next \in 1 .. 30 /\ pc \in Nat \ {0}
  /\ script = "none" \/ (next <= 29 /\ (script = Order[next] \/ (script = "P01" /\ next = 20)))
  /\ failed = "none" \/ (next <= 29 /\ next # 20 /\ failed = Order[next] /\ script = "none")
  /\ "27" \in skipped => next > 22
  /\ "26_00" \in skipped => next > 23

\* The fields of a contract, by its kind.
FieldsOf(kind) ==
  CASE kind = "cm" -> {"guard"}
    [] kind = "factory" -> {"owner", "olasAddress", "veOLASAddress"}
    [] kind = "olas" -> {"owner", "minter", "supply"}
    [] kind = "veolas" -> {"token"}
    [] kind = "timelock" -> {"roles"}
    [] kind = "governor" -> {"token", "timelock"}
    [] kind = "buolas" -> {"owner", "token"}
    [] kind = "wveolas" -> {"ve", "token"}
    [] kind = "guard" -> {"owner", "multisig", "governor", "bridges"}
    [] kind = "bridged" -> {"owner"}
    [] kind \in {"root", "child"} -> {"rootToken", "peer"}
    [] kind = "voteweighting" -> {"owner", "ve"}
    [] kind = "burner" -> {"olas"}
    [] kind = "relayer" -> {"timelock"}
    [] kind \in {"fxgovernor", "mediator", "optimism", "wormhole"} -> {"sourceGovernor"}
    [] OTHER -> {}

\* The operation after which the contract of a script is there, and its kind.
BuiltAt(s) == CASE s \in {"23", "27", "26_00", "gnosis_01", "wormhole_01"} -> 2 [] s \in {"04", "07"} -> 3 [] OTHER -> 1
KindOf(s) == CASE s = "04" -> "olas" [] s = "07" -> "veolas" [] OTHER -> Kind(s)

\* What the audit reads of the contract of a script and no step changes: the
\* contracts that it was built on, by the names written down earlier.
Wiring(s) ==
  CASE s \in {"07", "10"} -> [token |-> g.olasAddress]
    [] s = "16" -> [token |-> g.olasAddress, ve |-> g.veOLASAddress]
    [] s = "27" -> [token |-> g.wveOLASAddress, timelock |-> g.timelockAddress]
    [] s = "26_00" -> [owner |-> g.timelockAddress, multisig |-> CM, governor |-> g.governorAddress]
    [] s \in {"20", "polygon_03"} -> [rootToken |-> g.bridgedERC20Address]
    [] s = "23" -> [ve |-> g.veOLASAddress]
    [] s \in {"polygon_01", "gnosis_01", "optimism_01"} -> [sourceGovernor |-> g.timelockAddress]
    [] OTHER -> << >>

\* The number of operations of each script.
Lengths ==
  << 4, 6, 4, 5, 9, 5, 4, 10, 4, 4, 3, 3, 3, 3, 2, 1, 4, 3, 3, 1, 1, 4, 4, 1, 2, 3, 3, 4, 4 >>

LEMMA OrderIs ==
  /\ Len(Order) = 29
  /\ Order[1] = "02" /\ Order[2] = "04" /\ Order[3] = "05" /\ Order[4] = "07" /\ Order[5] = "08_09"
  /\ Order[6] = "10" /\ Order[7] = "11" /\ Order[8] = "12_15" /\ Order[9] = "16" /\ Order[10] = "17"
  /\ Order[11] = "18" /\ Order[12] = "19" /\ Order[13] = "polygon_03" /\ Order[14] = "20"
  /\ Order[15] = "21_22" /\ Order[16] = "polygon_04" /\ Order[17] = "23" /\ Order[18] = "24"
  /\ Order[19] = "25" /\ Order[20] = "P02" /\ Order[21] = "P05" /\ Order[22] = "27"
  /\ Order[23] = "26_00" /\ Order[24] = "P11" /\ Order[25] = "handover" /\ Order[26] = "polygon_01"
  /\ Order[27] = "optimism_01" /\ Order[28] = "gnosis_01" /\ Order[29] = "wormhole_01"
BY DEF Order

LEMMA OrderInjective ==
  ASSUME NEW i \in DOMAIN Order, NEW j \in DOMAIN Order, Order[i] = Order[j]
  PROVE  i = j
BY DEF Order

LEMMA PositionOf ==
  ASSUME NEW i \in 1 .. 29
  PROVE  Position(Order[i]) = i
BY OrderIs, OrderInjective DEF Position

LEMMA ProgramOf ==
  /\ Program("02") = deploy_02_deployment_factory
  /\ Program("04") = deploy_04_olas
  /\ Program("05") = deploy_05_timelock
  /\ Program("07") = deploy_07_veolas
  /\ Program("08_09") = deploy_08_09_governor_and_roles
  /\ Program("10") = deploy_10_buolas
  /\ Program("11") = deploy_11_mint_olas
  /\ Program("12_15") = deploy_12_15_ownerships
  /\ Program("16") = deploy_16_wveolas
  /\ Program("17") = deploy_17_governorTwo
  /\ Program("18") = deploy_18_guardCM
  /\ Program("19") = deploy_19_bridged_erc20
  /\ Program("polygon_03") = deploy_03_erc20_child_tunnel
  /\ Program("20") = deploy_20_erc20_root_tunnel
  /\ Program("21_22") = deploy_21_22_bridged_erc20_change_owners
  /\ Program("polygon_04") = deploy_04_set_root_tunnel
  /\ Program("23") = deploy_23_vote_weighting
  /\ Program("24") = deploy_24_burner
  /\ Program("25") = deploy_25_wormhole_relayer_timelock
  /\ Program("P01") = proposal_01_goerli_sync_mainnet
  /\ Program("P02") = proposal_02_governor_to_governorTwo
  /\ Program("P05") = proposal_05_CM_guard
  /\ Program("27") = deploy_27_governor
  /\ Program("26_00") = deploy_26_00_guard_cm
  /\ Program("P11") = proposal_11_activation
  /\ Program("handover") = handover
  /\ Program("polygon_01") = deploy_01_governor_tunnel
  /\ Program("optimism_01") = deploy_01_optimism_messenger
  /\ Program("gnosis_01") = deploy_01_home_mediator
  /\ Program("wormhole_01") = deploy_01_wormhole_messenger
BY DEF Program

\* What runs at each position.
LEMMA RunningAt ==
  ASSUME RunsInv, script # "none"
  PROVE  next \in 1 .. 29 /\ (script = Order[next] \/ (script = "P01" /\ next = 20))
BY DEF RunsInv

\* The transactions that scripts submit.
Sent(n, i, net, tx) == next = n /\ pc = i /\ Current.net = net /\ Current.tx = tx

Submits ==
  \/ Sent(2, 1, "L1", Create(g.deploymentFactory, "olasAddress", this, [owner |-> Deployer, minter |-> Deployer, supply |-> 0]))
  \/ Sent(4, 1, "L1", Create(g.deploymentFactory, "veOLASAddress", this, [token |-> g.olasAddress]))
  \/ \E i \in 3 .. 6, role \in Roles : Sent(5, i, "L1", GrantRole(g.timelockAddress, role, this))
  \/ \E i \in 1 .. 3, amount \in {timelockSupply, saleSupply, valorySupply} : Sent(7, i, "L1", Mint(g.olasAddress, amount))
  \/ Sent(8, 1, "L1", ChangeMinter(g.olasAddress, g.timelockAddress))
  \/ Sent(8, 2, "L1", ChangeOwner(g.olasAddress, g.timelockAddress))
  \/ Sent(8, 3, "L1", ChangeOwner(g.buOLASAddress, g.timelockAddress))
  \/ Sent(8, 7, "L1", RenounceRole(g.timelockAddress, "admin"))
  \/ Sent(8, 9, "L1", ChangeOwner(g.deploymentFactory, DEAD))
  \/ Sent(15, 1, "L1", ChangeOwner(g.bridgedERC20Address, g.fxERC20RootTunnelAddress))
  \/ Sent(15, 2, "L1", SetTunnel(g.fxERC20RootTunnelAddress, g.fxERC20ChildTunnelAddress))
  \/ Sent(16, 1, "L2", SetTunnel(g.fxERC20ChildTunnelAddress, g.fxERC20RootTunnelAddress))
  \/ Sent(25, 2, "L1", ChangeOwner(g.voteWeightingAddress, g.timelockAddress))

\* The addresses that scripts write down.
Writes(n, i, name) == next = n /\ pc = i /\ Current.name = name

Records ==
  \/ Writes(1, 4, "deploymentFactory") \/ Writes(2, 6, "olasAddress") \/ Writes(3, 4, "timelockAddress")
  \/ Writes(4, 5, "veOLASAddress") \/ Writes(5, 9, "governorAddress") \/ Writes(6, 5, "buOLASAddress")
  \/ Writes(9, 4, "wveOLASAddress") \/ Writes(10, 2, "governorTwoAddress") \/ Writes(11, 2, "guardCMAddress")
  \/ Writes(12, 2, "bridgedERC20Address") \/ Writes(13, 2, "fxERC20ChildTunnelAddress")
  \/ Writes(14, 2, "fxERC20RootTunnelAddress") \/ Writes(17, 4, "voteWeightingAddress")
  \/ Writes(18, 3, "burnerAddress") \/ Writes(19, 3, "wormholeRelayerTimelockAddress")
  \/ Writes(22, 4, "governorAddress") \/ Writes(23, 4, "guardCMAddress") \/ Writes(26, 2, "fxGovernorTunnelAddress")
  \/ Writes(27, 2, "optimismMessengerAddress") \/ Writes(28, 3, "homeMediatorAddress")
  \/ Writes(29, 3, "wormholeMessengerAddress")

\* The contracts that scripts deploy.
Deploys ==
  /\ pc = BuiltAt(script) /\ Kind(script) \notin {"none", "olas", "veolas"}
  /\ DOMAIN Current.fields = FieldsOf(Kind(script))
  /\ \A f \in DOMAIN Wiring(script) : Current.fields[f] = Wiring(script)[f]
  /\ Kind(script) = "timelock" => Current.fields.roles = TimelockRoles(this)
  /\ next = 5 => Current.fields.token = g.veOLASAddress
  /\ next = 11 => Current.fields.governor = g.governorTwoAddress
  /\ next \in {11, 23} => Current.fields.bridges = {}
  /\ next \in {12, 17} => Current.net = "L1" /\ Current.fields.owner = Deployer
  /\ next \in {13, 14} => Current.net = (IF next = 13 THEN "L2" ELSE "L1") /\ Current.fields.peer = NoAddress

\* Operations that the proofs need at their place.
RecordPlaces ==
  { <<1, 4>>, <<2, 6>>, <<3, 4>>, <<4, 5>>, <<5, 9>>, <<6, 5>>, <<9, 4>>, <<10, 2>>, <<11, 2>>, <<12, 2>>,
    <<13, 2>>, <<14, 2>>, <<17, 4>>, <<22, 4>>, <<23, 4>>, <<26, 2>>, <<27, 2>> }

Places ==
  /\ <<next, pc>> \in RecordPlaces => Current.op = "record"
  /\ <<next, pc>> \in {<<15, 1>>, <<15, 2>>, <<16, 1>>, <<25, 2>>} => Current.op = "send"
  /\ <<next, pc>> \in {<<20, 1>>, <<24, 1>>, <<25, 1>>} => Current.op = "execute"
  /\ pc = BuiltAt(script) /\ Kind(script) # "none" => Current.op = "deploy"
  /\ next = 2 /\ pc = 3 => Current = Expect(this, [owner |-> Deployer])
  /\ next = 4 /\ pc = 3 => Current = Expect(this, [token |-> g.olasAddress])
  /\ next = 5 /\ pc = 7 => Current = ExpectRoles(g.timelockAddress, AllRoles(this), {})
  /\ next = 8 =>
       /\ pc = 4 => Current = Expect(g.olasAddress, [owner |-> g.timelockAddress])
       /\ pc = 5 => Current = Expect(g.olasAddress, [minter |-> g.timelockAddress])
       /\ pc = 6 => Current = Expect(g.buOLASAddress, [owner |-> g.timelockAddress])
       /\ pc = 8 => Current = ExpectRoles(g.timelockAddress, {}, {<<"admin", Deployer>>})
       /\ pc = 10 => Current = Expect(g.deploymentFactory, [owner |-> DEAD])

Rows ==
  /\ Len(Program(script)) = Lengths[next]
  /\ Running =>
       /\ Places
       /\ Current.op = "deploy" => Deploys
       /\ Current.op = "send" => Submits
       /\ Current.op = "record" => Records
       /\ Current.op = "execute" => next \in {20, 21, 24, 25} /\ pc = 1
       /\ Current.op = "return" => next \in {22, 23, 28, 29}

\* Every operation of every script is in the tables.
LEMMA StepTable ==
  ASSUME RunsInv, script # "none"
  PROVE  Rows
<1>0. /\ next \in 1 .. 29 /\ (script = Order[next] \/ (script = "P01" /\ next = 20))
      /\ Running => Current = Program(script)[pc] /\ pc \in 1 .. Len(Program(script))
  BY RunningAt DEF Running, Current, RunsInv
<1> USE DEF Deploy, DeployArgs, Send, Expect, ExpectRoles, Require, ReturnWithout, Verify, Execute, Record
<1>1. CASE next = 1
  <2>1. script = "02" /\ Program(script) = deploy_02_deployment_factory
    BY <1>0, <1>1, OrderIs, ProgramOf
  <2>2. Len(Program(script)) = 4
    BY <2>1 DEF deploy_02_deployment_factory
  <2>3. ASSUME Running PROVE pc \in 1 .. 4 /\ Current = deploy_02_deployment_factory[pc]
    BY <1>0, <2>1, <2>2, <2>3
  <2>4. ASSUME Running, Current.op = "deploy" PROVE Deploys
    BY <1>1, <2>1, <2>3, <2>4 DEF deploy_02_deployment_factory, Deploys, BuiltAt, Kind, FieldsOf, Wiring
  <2>5. ASSUME Running, Current.op = "record" PROVE Records
    BY <1>1, <2>1, <2>3, <2>5 DEF deploy_02_deployment_factory, Records, Writes
  <2>6. ASSUME Running, Current.op \in {"send", "execute", "return"} PROVE FALSE
    BY <2>3, <2>6 DEF deploy_02_deployment_factory
  <2>7. ASSUME Running PROVE Places
    BY <1>1, <2>1, <2>3, <2>7 DEF deploy_02_deployment_factory, Places, RecordPlaces, BuiltAt, Kind
  <2> QED BY <1>1, <2>2, <2>4, <2>5, <2>6, <2>7 DEF Rows, Lengths
<1>2. CASE next = 2
  <2>1. script = "04" /\ Program(script) = deploy_04_olas
    BY <1>0, <1>2, OrderIs, ProgramOf
  <2>2. Len(Program(script)) = 6
    BY <2>1 DEF deploy_04_olas
  <2>3. ASSUME Running PROVE pc \in 1 .. 6 /\ Current = deploy_04_olas[pc]
    BY <1>0, <2>1, <2>2, <2>3
  <2>4. ASSUME Running, Current.op = "send" PROVE Submits
    BY <1>2, <2>1, <2>3, <2>4 DEF deploy_04_olas, Submits, Sent, Roles
  <2>5. ASSUME Running, Current.op = "record" PROVE Records
    BY <1>2, <2>1, <2>3, <2>5 DEF deploy_04_olas, Records, Writes
  <2>6. ASSUME Running, Current.op \in {"deploy", "execute", "return"} PROVE FALSE
    BY <2>3, <2>6 DEF deploy_04_olas
  <2>7. ASSUME Running PROVE Places
    BY <1>2, <2>1, <2>3, <2>7 DEF deploy_04_olas, Places, RecordPlaces, BuiltAt, Kind
  <2> QED BY <1>2, <2>2, <2>4, <2>5, <2>6, <2>7 DEF Rows, Lengths
<1>3. CASE next = 3
  <2>1. script = "05" /\ Program(script) = deploy_05_timelock
    BY <1>0, <1>3, OrderIs, ProgramOf
  <2>2. Len(Program(script)) = 4
    BY <2>1 DEF deploy_05_timelock
  <2>3. ASSUME Running PROVE pc \in 1 .. 4 /\ Current = deploy_05_timelock[pc]
    BY <1>0, <2>1, <2>2, <2>3
  <2>4. ASSUME Running, Current.op = "deploy" PROVE Deploys
    BY <1>3, <2>1, <2>3, <2>4 DEF deploy_05_timelock, Deploys, BuiltAt, Kind, FieldsOf, Wiring
  <2>5. ASSUME Running, Current.op = "record" PROVE Records
    BY <1>3, <2>1, <2>3, <2>5 DEF deploy_05_timelock, Records, Writes
  <2>6. ASSUME Running, Current.op \in {"send", "execute", "return"} PROVE FALSE
    BY <2>3, <2>6 DEF deploy_05_timelock
  <2>7. ASSUME Running PROVE Places
    BY <1>3, <2>1, <2>3, <2>7 DEF deploy_05_timelock, Places, RecordPlaces, BuiltAt, Kind
  <2> QED BY <1>3, <2>2, <2>4, <2>5, <2>6, <2>7 DEF Rows, Lengths
<1>4. CASE next = 4
  <2>1. script = "07" /\ Program(script) = deploy_07_veolas
    BY <1>0, <1>4, OrderIs, ProgramOf
  <2>2. Len(Program(script)) = 5
    BY <2>1 DEF deploy_07_veolas
  <2>3. ASSUME Running PROVE pc \in 1 .. 5 /\ Current = deploy_07_veolas[pc]
    BY <1>0, <2>1, <2>2, <2>3
  <2>4. ASSUME Running, Current.op = "send" PROVE Submits
    BY <1>4, <2>1, <2>3, <2>4 DEF deploy_07_veolas, Submits, Sent, Roles
  <2>5. ASSUME Running, Current.op = "record" PROVE Records
    BY <1>4, <2>1, <2>3, <2>5 DEF deploy_07_veolas, Records, Writes
  <2>6. ASSUME Running, Current.op \in {"deploy", "execute", "return"} PROVE FALSE
    BY <2>3, <2>6 DEF deploy_07_veolas
  <2>7. ASSUME Running PROVE Places
    BY <1>4, <2>1, <2>3, <2>7 DEF deploy_07_veolas, Places, RecordPlaces, BuiltAt, Kind
  <2> QED BY <1>4, <2>2, <2>4, <2>5, <2>6, <2>7 DEF Rows, Lengths
<1>5. CASE next = 5
  <2>1. script = "08_09" /\ Program(script) = deploy_08_09_governor_and_roles
    BY <1>0, <1>5, OrderIs, ProgramOf
  <2>2. Len(Program(script)) = 9
    BY <2>1 DEF deploy_08_09_governor_and_roles
  <2>3. ASSUME Running PROVE pc \in 1 .. 9 /\ Current = deploy_08_09_governor_and_roles[pc]
    BY <1>0, <2>1, <2>2, <2>3
  <2>4. ASSUME Running, Current.op = "deploy" PROVE Deploys
    BY <1>5, <2>1, <2>3, <2>4 DEF deploy_08_09_governor_and_roles, Deploys, BuiltAt, Kind, FieldsOf, Wiring
  <2>5. ASSUME Running, Current.op = "send" PROVE Submits
    BY <1>5, <2>1, <2>3, <2>5 DEF deploy_08_09_governor_and_roles, Submits, Sent, Roles
  <2>6. ASSUME Running, Current.op = "record" PROVE Records
    BY <1>5, <2>1, <2>3, <2>6 DEF deploy_08_09_governor_and_roles, Records, Writes
  <2>7. ASSUME Running, Current.op \in {"execute", "return"} PROVE FALSE
    BY <2>3, <2>7 DEF deploy_08_09_governor_and_roles
  <2>8. ASSUME Running PROVE Places
    BY <1>5, <2>1, <2>3, <2>8 DEF deploy_08_09_governor_and_roles, Places, RecordPlaces, BuiltAt, Kind
  <2> QED BY <1>5, <2>2, <2>4, <2>5, <2>6, <2>7, <2>8 DEF Rows, Lengths
<1>6. CASE next = 6
  <2>1. script = "10" /\ Program(script) = deploy_10_buolas
    BY <1>0, <1>6, OrderIs, ProgramOf
  <2>2. Len(Program(script)) = 5
    BY <2>1 DEF deploy_10_buolas
  <2>3. ASSUME Running PROVE pc \in 1 .. 5 /\ Current = deploy_10_buolas[pc]
    BY <1>0, <2>1, <2>2, <2>3
  <2>4. ASSUME Running, Current.op = "deploy" PROVE Deploys
    BY <1>6, <2>1, <2>3, <2>4 DEF deploy_10_buolas, Deploys, BuiltAt, Kind, FieldsOf, Wiring
  <2>5. ASSUME Running, Current.op = "record" PROVE Records
    BY <1>6, <2>1, <2>3, <2>5 DEF deploy_10_buolas, Records, Writes
  <2>6. ASSUME Running, Current.op \in {"send", "execute", "return"} PROVE FALSE
    BY <2>3, <2>6 DEF deploy_10_buolas
  <2>7. ASSUME Running PROVE Places
    BY <1>6, <2>1, <2>3, <2>7 DEF deploy_10_buolas, Places, RecordPlaces, BuiltAt, Kind
  <2> QED BY <1>6, <2>2, <2>4, <2>5, <2>6, <2>7 DEF Rows, Lengths
<1>7. CASE next = 7
  <2>1. script = "11" /\ Program(script) = deploy_11_mint_olas
    BY <1>0, <1>7, OrderIs, ProgramOf
  <2>2. Len(Program(script)) = 4
    BY <2>1 DEF deploy_11_mint_olas
  <2>3. ASSUME Running PROVE pc \in 1 .. 4 /\ Current = deploy_11_mint_olas[pc]
    BY <1>0, <2>1, <2>2, <2>3
  <2>4. ASSUME Running, Current.op = "send" PROVE Submits
    BY <1>7, <2>1, <2>3, <2>4 DEF deploy_11_mint_olas, Submits, Sent, Roles
  <2>5. ASSUME Running, Current.op \in {"deploy", "record", "execute", "return"} PROVE FALSE
    BY <2>3, <2>5 DEF deploy_11_mint_olas
  <2>6. ASSUME Running PROVE Places
    BY <1>7, <2>1, <2>3, <2>6 DEF deploy_11_mint_olas, Places, RecordPlaces, BuiltAt, Kind
  <2> QED BY <1>7, <2>2, <2>4, <2>5, <2>6 DEF Rows, Lengths
<1>8. CASE next = 8
  <2>1. script = "12_15" /\ Program(script) = deploy_12_15_ownerships
    BY <1>0, <1>8, OrderIs, ProgramOf
  <2>2. Len(Program(script)) = 10
    BY <2>1 DEF deploy_12_15_ownerships
  <2>3. ASSUME Running PROVE pc \in 1 .. 10 /\ Current = deploy_12_15_ownerships[pc]
    BY <1>0, <2>1, <2>2, <2>3
  <2>4. ASSUME Running, Current.op = "send" PROVE Submits
    BY <1>8, <2>1, <2>3, <2>4 DEF deploy_12_15_ownerships, Submits, Sent, Roles
  <2>5. ASSUME Running, Current.op \in {"deploy", "record", "execute", "return"} PROVE FALSE
    BY <2>3, <2>5 DEF deploy_12_15_ownerships
  <2>6. ASSUME Running PROVE Places
    BY <1>8, <2>1, <2>3, <2>6 DEF deploy_12_15_ownerships, Places, RecordPlaces, BuiltAt, Kind
  <2> QED BY <1>8, <2>2, <2>4, <2>5, <2>6 DEF Rows, Lengths
<1>9. CASE next = 9
  <2>1. script = "16" /\ Program(script) = deploy_16_wveolas
    BY <1>0, <1>9, OrderIs, ProgramOf
  <2>2. Len(Program(script)) = 4
    BY <2>1 DEF deploy_16_wveolas
  <2>3. ASSUME Running PROVE pc \in 1 .. 4 /\ Current = deploy_16_wveolas[pc]
    BY <1>0, <2>1, <2>2, <2>3
  <2>4. ASSUME Running, Current.op = "deploy" PROVE Deploys
    BY <1>9, <2>1, <2>3, <2>4 DEF deploy_16_wveolas, Deploys, BuiltAt, Kind, FieldsOf, Wiring
  <2>5. ASSUME Running, Current.op = "record" PROVE Records
    BY <1>9, <2>1, <2>3, <2>5 DEF deploy_16_wveolas, Records, Writes
  <2>6. ASSUME Running, Current.op \in {"send", "execute", "return"} PROVE FALSE
    BY <2>3, <2>6 DEF deploy_16_wveolas
  <2>7. ASSUME Running PROVE Places
    BY <1>9, <2>1, <2>3, <2>7 DEF deploy_16_wveolas, Places, RecordPlaces, BuiltAt, Kind
  <2> QED BY <1>9, <2>2, <2>4, <2>5, <2>6, <2>7 DEF Rows, Lengths
<1>10. CASE next = 10
  <2>1. script = "17" /\ Program(script) = deploy_17_governorTwo
    BY <1>0, <1>10, OrderIs, ProgramOf
  <2>2. Len(Program(script)) = 4
    BY <2>1 DEF deploy_17_governorTwo
  <2>3. ASSUME Running PROVE pc \in 1 .. 4 /\ Current = deploy_17_governorTwo[pc]
    BY <1>0, <2>1, <2>2, <2>3
  <2>4. ASSUME Running, Current.op = "deploy" PROVE Deploys
    BY <1>10, <2>1, <2>3, <2>4 DEF deploy_17_governorTwo, Deploys, BuiltAt, Kind, FieldsOf, Wiring
  <2>5. ASSUME Running, Current.op = "record" PROVE Records
    BY <1>10, <2>1, <2>3, <2>5 DEF deploy_17_governorTwo, Records, Writes
  <2>6. ASSUME Running, Current.op \in {"send", "execute", "return"} PROVE FALSE
    BY <2>3, <2>6 DEF deploy_17_governorTwo
  <2>7. ASSUME Running PROVE Places
    BY <1>10, <2>1, <2>3, <2>7 DEF deploy_17_governorTwo, Places, RecordPlaces, BuiltAt, Kind
  <2> QED BY <1>10, <2>2, <2>4, <2>5, <2>6, <2>7 DEF Rows, Lengths
<1>11. CASE next = 11
  <2>1. script = "18" /\ Program(script) = deploy_18_guardCM
    BY <1>0, <1>11, OrderIs, ProgramOf
  <2>2. Len(Program(script)) = 3
    BY <2>1 DEF deploy_18_guardCM
  <2>3. ASSUME Running PROVE pc \in 1 .. 3 /\ Current = deploy_18_guardCM[pc]
    BY <1>0, <2>1, <2>2, <2>3
  <2>4. ASSUME Running, Current.op = "deploy" PROVE Deploys
    BY <1>11, <2>1, <2>3, <2>4 DEF deploy_18_guardCM, Deploys, BuiltAt, Kind, FieldsOf, Wiring
  <2>5. ASSUME Running, Current.op = "record" PROVE Records
    BY <1>11, <2>1, <2>3, <2>5 DEF deploy_18_guardCM, Records, Writes
  <2>6. ASSUME Running, Current.op \in {"send", "execute", "return"} PROVE FALSE
    BY <2>3, <2>6 DEF deploy_18_guardCM
  <2>7. ASSUME Running PROVE Places
    BY <1>11, <2>1, <2>3, <2>7 DEF deploy_18_guardCM, Places, RecordPlaces, BuiltAt, Kind
  <2> QED BY <1>11, <2>2, <2>4, <2>5, <2>6, <2>7 DEF Rows, Lengths
<1>12. CASE next = 12
  <2>1. script = "19" /\ Program(script) = deploy_19_bridged_erc20
    BY <1>0, <1>12, OrderIs, ProgramOf
  <2>2. Len(Program(script)) = 3
    BY <2>1 DEF deploy_19_bridged_erc20
  <2>3. ASSUME Running PROVE pc \in 1 .. 3 /\ Current = deploy_19_bridged_erc20[pc]
    BY <1>0, <2>1, <2>2, <2>3
  <2>4. ASSUME Running, Current.op = "deploy" PROVE Deploys
    BY <1>12, <2>1, <2>3, <2>4 DEF deploy_19_bridged_erc20, Deploys, BuiltAt, Kind, FieldsOf, Wiring
  <2>5. ASSUME Running, Current.op = "record" PROVE Records
    BY <1>12, <2>1, <2>3, <2>5 DEF deploy_19_bridged_erc20, Records, Writes
  <2>6. ASSUME Running, Current.op \in {"send", "execute", "return"} PROVE FALSE
    BY <2>3, <2>6 DEF deploy_19_bridged_erc20
  <2>7. ASSUME Running PROVE Places
    BY <1>12, <2>1, <2>3, <2>7 DEF deploy_19_bridged_erc20, Places, RecordPlaces, BuiltAt, Kind
  <2> QED BY <1>12, <2>2, <2>4, <2>5, <2>6, <2>7 DEF Rows, Lengths
<1>13. CASE next = 13
  <2>1. script = "polygon_03" /\ Program(script) = deploy_03_erc20_child_tunnel
    BY <1>0, <1>13, OrderIs, ProgramOf
  <2>2. Len(Program(script)) = 3
    BY <2>1 DEF deploy_03_erc20_child_tunnel
  <2>3. ASSUME Running PROVE pc \in 1 .. 3 /\ Current = deploy_03_erc20_child_tunnel[pc]
    BY <1>0, <2>1, <2>2, <2>3
  <2>4. ASSUME Running, Current.op = "deploy" PROVE Deploys
    BY <1>13, <2>1, <2>3, <2>4 DEF deploy_03_erc20_child_tunnel, Deploys, BuiltAt, Kind, FieldsOf, Wiring
  <2>5. ASSUME Running, Current.op = "record" PROVE Records
    BY <1>13, <2>1, <2>3, <2>5 DEF deploy_03_erc20_child_tunnel, Records, Writes
  <2>6. ASSUME Running, Current.op \in {"send", "execute", "return"} PROVE FALSE
    BY <2>3, <2>6 DEF deploy_03_erc20_child_tunnel
  <2>7. ASSUME Running PROVE Places
    BY <1>13, <2>1, <2>3, <2>7 DEF deploy_03_erc20_child_tunnel, Places, RecordPlaces, BuiltAt, Kind
  <2> QED BY <1>13, <2>2, <2>4, <2>5, <2>6, <2>7 DEF Rows, Lengths
<1>14. CASE next = 14
  <2>1. script = "20" /\ Program(script) = deploy_20_erc20_root_tunnel
    BY <1>0, <1>14, OrderIs, ProgramOf
  <2>2. Len(Program(script)) = 3
    BY <2>1 DEF deploy_20_erc20_root_tunnel
  <2>3. ASSUME Running PROVE pc \in 1 .. 3 /\ Current = deploy_20_erc20_root_tunnel[pc]
    BY <1>0, <2>1, <2>2, <2>3
  <2>4. ASSUME Running, Current.op = "deploy" PROVE Deploys
    BY <1>14, <2>1, <2>3, <2>4 DEF deploy_20_erc20_root_tunnel, Deploys, BuiltAt, Kind, FieldsOf, Wiring
  <2>5. ASSUME Running, Current.op = "record" PROVE Records
    BY <1>14, <2>1, <2>3, <2>5 DEF deploy_20_erc20_root_tunnel, Records, Writes
  <2>6. ASSUME Running, Current.op \in {"send", "execute", "return"} PROVE FALSE
    BY <2>3, <2>6 DEF deploy_20_erc20_root_tunnel
  <2>7. ASSUME Running PROVE Places
    BY <1>14, <2>1, <2>3, <2>7 DEF deploy_20_erc20_root_tunnel, Places, RecordPlaces, BuiltAt, Kind
  <2> QED BY <1>14, <2>2, <2>4, <2>5, <2>6, <2>7 DEF Rows, Lengths
<1>15. CASE next = 15
  <2>1. script = "21_22" /\ Program(script) = deploy_21_22_bridged_erc20_change_owners
    BY <1>0, <1>15, OrderIs, ProgramOf
  <2>2. Len(Program(script)) = 2
    BY <2>1 DEF deploy_21_22_bridged_erc20_change_owners
  <2>3. ASSUME Running PROVE pc \in 1 .. 2 /\ Current = deploy_21_22_bridged_erc20_change_owners[pc]
    BY <1>0, <2>1, <2>2, <2>3
  <2>4. ASSUME Running, Current.op = "send" PROVE Submits
    BY <1>15, <2>1, <2>3, <2>4 DEF deploy_21_22_bridged_erc20_change_owners, Submits, Sent, Roles
  <2>5. ASSUME Running, Current.op \in {"deploy", "record", "execute", "return"} PROVE FALSE
    BY <2>3, <2>5 DEF deploy_21_22_bridged_erc20_change_owners
  <2>6. ASSUME Running PROVE Places
    BY <1>15, <2>1, <2>3, <2>6 DEF deploy_21_22_bridged_erc20_change_owners, Places, RecordPlaces, BuiltAt, Kind
  <2> QED BY <1>15, <2>2, <2>4, <2>5, <2>6 DEF Rows, Lengths
<1>16. CASE next = 16
  <2>1. script = "polygon_04" /\ Program(script) = deploy_04_set_root_tunnel
    BY <1>0, <1>16, OrderIs, ProgramOf
  <2>2. Len(Program(script)) = 1
    BY <2>1 DEF deploy_04_set_root_tunnel
  <2>3. ASSUME Running PROVE pc \in 1 .. 1 /\ Current = deploy_04_set_root_tunnel[pc]
    BY <1>0, <2>1, <2>2, <2>3
  <2>4. ASSUME Running, Current.op = "send" PROVE Submits
    BY <1>16, <2>1, <2>3, <2>4 DEF deploy_04_set_root_tunnel, Submits, Sent, Roles
  <2>5. ASSUME Running, Current.op \in {"deploy", "record", "execute", "return"} PROVE FALSE
    BY <2>3, <2>5 DEF deploy_04_set_root_tunnel
  <2>6. ASSUME Running PROVE Places
    BY <1>16, <2>1, <2>3, <2>6 DEF deploy_04_set_root_tunnel, Places, RecordPlaces, BuiltAt, Kind
  <2> QED BY <1>16, <2>2, <2>4, <2>5, <2>6 DEF Rows, Lengths
<1>17. CASE next = 17
  <2>1. script = "23" /\ Program(script) = deploy_23_vote_weighting
    BY <1>0, <1>17, OrderIs, ProgramOf
  <2>2. Len(Program(script)) = 4
    BY <2>1 DEF deploy_23_vote_weighting
  <2>3. ASSUME Running PROVE pc \in 1 .. 4 /\ Current = deploy_23_vote_weighting[pc]
    BY <1>0, <2>1, <2>2, <2>3
  <2>4. ASSUME Running, Current.op = "deploy" PROVE Deploys
    BY <1>17, <2>1, <2>3, <2>4 DEF deploy_23_vote_weighting, Deploys, BuiltAt, Kind, FieldsOf, Wiring
  <2>5. ASSUME Running, Current.op = "record" PROVE Records
    BY <1>17, <2>1, <2>3, <2>5 DEF deploy_23_vote_weighting, Records, Writes
  <2>6. ASSUME Running, Current.op \in {"send", "execute", "return"} PROVE FALSE
    BY <2>3, <2>6 DEF deploy_23_vote_weighting
  <2>7. ASSUME Running PROVE Places
    BY <1>17, <2>1, <2>3, <2>7 DEF deploy_23_vote_weighting, Places, RecordPlaces, BuiltAt, Kind
  <2> QED BY <1>17, <2>2, <2>4, <2>5, <2>6, <2>7 DEF Rows, Lengths
<1>18. CASE next = 18
  <2>1. script = "24" /\ Program(script) = deploy_24_burner
    BY <1>0, <1>18, OrderIs, ProgramOf
  <2>2. Len(Program(script)) = 3
    BY <2>1 DEF deploy_24_burner
  <2>3. ASSUME Running PROVE pc \in 1 .. 3 /\ Current = deploy_24_burner[pc]
    BY <1>0, <2>1, <2>2, <2>3
  <2>4. ASSUME Running, Current.op = "deploy" PROVE Deploys
    BY <1>18, <2>1, <2>3, <2>4 DEF deploy_24_burner, Deploys, BuiltAt, Kind, FieldsOf, Wiring
  <2>5. ASSUME Running, Current.op = "record" PROVE Records
    BY <1>18, <2>1, <2>3, <2>5 DEF deploy_24_burner, Records, Writes
  <2>6. ASSUME Running, Current.op \in {"send", "execute", "return"} PROVE FALSE
    BY <2>3, <2>6 DEF deploy_24_burner
  <2>7. ASSUME Running PROVE Places
    BY <1>18, <2>1, <2>3, <2>7 DEF deploy_24_burner, Places, RecordPlaces, BuiltAt, Kind
  <2> QED BY <1>18, <2>2, <2>4, <2>5, <2>6, <2>7 DEF Rows, Lengths
<1>19. CASE next = 19
  <2>1. script = "25" /\ Program(script) = deploy_25_wormhole_relayer_timelock
    BY <1>0, <1>19, OrderIs, ProgramOf
  <2>2. Len(Program(script)) = 3
    BY <2>1 DEF deploy_25_wormhole_relayer_timelock
  <2>3. ASSUME Running PROVE pc \in 1 .. 3 /\ Current = deploy_25_wormhole_relayer_timelock[pc]
    BY <1>0, <2>1, <2>2, <2>3
  <2>4. ASSUME Running, Current.op = "deploy" PROVE Deploys
    BY <1>19, <2>1, <2>3, <2>4 DEF deploy_25_wormhole_relayer_timelock, Deploys, BuiltAt, Kind, FieldsOf, Wiring
  <2>5. ASSUME Running, Current.op = "record" PROVE Records
    BY <1>19, <2>1, <2>3, <2>5 DEF deploy_25_wormhole_relayer_timelock, Records, Writes
  <2>6. ASSUME Running, Current.op \in {"send", "execute", "return"} PROVE FALSE
    BY <2>3, <2>6 DEF deploy_25_wormhole_relayer_timelock
  <2>7. ASSUME Running PROVE Places
    BY <1>19, <2>1, <2>3, <2>7 DEF deploy_25_wormhole_relayer_timelock, Places, RecordPlaces, BuiltAt, Kind
  <2> QED BY <1>19, <2>2, <2>4, <2>5, <2>6, <2>7 DEF Rows, Lengths
<1>20. CASE next = 20
  <2>1. script \in {"P01", "P02"}
    BY <1>0, <1>20, OrderIs
  <2>2. CASE script = "P01"
    BY <1>0, <1>20, <2>2, ProgramOf DEF proposal_01_goerli_sync_mainnet, Rows, Lengths, Places, RecordPlaces, BuiltAt, Kind
  <2>3. CASE script = "P02"
    BY <1>0, <1>20, <2>3, ProgramOf DEF proposal_02_governor_to_governorTwo, Rows, Lengths, Places, RecordPlaces,
       BuiltAt, Kind
  <2> QED BY <2>1, <2>2, <2>3
<1>21. CASE next = 21
  <2>1. script = "P05" /\ Program(script) = proposal_05_CM_guard
    BY <1>0, <1>21, OrderIs, ProgramOf
  <2>2. Len(Program(script)) = 1
    BY <2>1 DEF proposal_05_CM_guard
  <2>3. ASSUME Running PROVE pc \in 1 .. 1 /\ Current = proposal_05_CM_guard[pc]
    BY <1>0, <2>1, <2>2, <2>3
  <2>4. ASSUME Running, Current.op \in {"deploy", "send", "record", "return"} PROVE FALSE
    BY <2>3, <2>4 DEF proposal_05_CM_guard
  <2>5. ASSUME Running PROVE Places
    BY <1>21, <2>1, <2>3, <2>5 DEF proposal_05_CM_guard, Places, RecordPlaces, BuiltAt, Kind
  <2>6. ASSUME Running, Current.op = "execute" PROVE pc = 1
    BY <2>3, <2>6 DEF proposal_05_CM_guard
  <2> QED BY <1>21, <2>2, <2>4, <2>5, <2>6 DEF Rows, Lengths
<1>22. CASE next = 22
  <2>1. script = "27" /\ Program(script) = deploy_27_governor
    BY <1>0, <1>22, OrderIs, ProgramOf
  <2>2. Len(Program(script)) = 4
    BY <2>1 DEF deploy_27_governor
  <2>3. ASSUME Running PROVE pc \in 1 .. 4 /\ Current = deploy_27_governor[pc]
    BY <1>0, <2>1, <2>2, <2>3
  <2>4. ASSUME Running, Current.op = "deploy" PROVE Deploys
    BY <1>22, <2>1, <2>3, <2>4 DEF deploy_27_governor, Deploys, BuiltAt, Kind, FieldsOf, Wiring
  <2>5. ASSUME Running, Current.op = "record" PROVE Records
    BY <1>22, <2>1, <2>3, <2>5 DEF deploy_27_governor, Records, Writes
  <2>6. ASSUME Running, Current.op \in {"send", "execute"} PROVE FALSE
    BY <2>3, <2>6 DEF deploy_27_governor
  <2>7. ASSUME Running PROVE Places
    BY <1>22, <2>1, <2>3, <2>7 DEF deploy_27_governor, Places, RecordPlaces, BuiltAt, Kind
  <2> QED BY <1>22, <2>2, <2>4, <2>5, <2>6, <2>7 DEF Rows, Lengths
<1>23. CASE next = 23
  <2>1. script = "26_00" /\ Program(script) = deploy_26_00_guard_cm
    BY <1>0, <1>23, OrderIs, ProgramOf
  <2>2. Len(Program(script)) = 4
    BY <2>1 DEF deploy_26_00_guard_cm
  <2>3. ASSUME Running PROVE pc \in 1 .. 4 /\ Current = deploy_26_00_guard_cm[pc]
    BY <1>0, <2>1, <2>2, <2>3
  <2>4. ASSUME Running, Current.op = "deploy" PROVE Deploys
    BY <1>23, <2>1, <2>3, <2>4 DEF deploy_26_00_guard_cm, Deploys, BuiltAt, Kind, FieldsOf, Wiring
  <2>5. ASSUME Running, Current.op = "record" PROVE Records
    BY <1>23, <2>1, <2>3, <2>5 DEF deploy_26_00_guard_cm, Records, Writes
  <2>6. ASSUME Running, Current.op \in {"send", "execute"} PROVE FALSE
    BY <2>3, <2>6 DEF deploy_26_00_guard_cm
  <2>7. ASSUME Running PROVE Places
    BY <1>23, <2>1, <2>3, <2>7 DEF deploy_26_00_guard_cm, Places, RecordPlaces, BuiltAt, Kind
  <2> QED BY <1>23, <2>2, <2>4, <2>5, <2>6, <2>7 DEF Rows, Lengths
<1>24. CASE next = 24
  <2>1. script = "P11" /\ Program(script) = proposal_11_activation
    BY <1>0, <1>24, OrderIs, ProgramOf
  <2>2. Len(Program(script)) = 1
    BY <2>1 DEF proposal_11_activation
  <2>3. ASSUME Running PROVE pc \in 1 .. 1 /\ Current = proposal_11_activation[pc]
    BY <1>0, <2>1, <2>2, <2>3
  <2>4. ASSUME Running, Current.op \in {"deploy", "send", "record", "return"} PROVE FALSE
    BY <2>3, <2>4 DEF proposal_11_activation
  <2>5. ASSUME Running PROVE Places
    BY <1>24, <2>1, <2>3, <2>5 DEF proposal_11_activation, Places, RecordPlaces, BuiltAt, Kind
  <2>6. ASSUME Running, Current.op = "execute" PROVE pc = 1
    BY <2>3, <2>6 DEF proposal_11_activation
  <2> QED BY <1>24, <2>2, <2>4, <2>5, <2>6 DEF Rows, Lengths
<1>25. CASE next = 25
  <2>1. script = "handover" /\ Program(script) = handover
    BY <1>0, <1>25, OrderIs, ProgramOf
  <2>2. Len(Program(script)) = 2
    BY <2>1 DEF handover
  <2>3. ASSUME Running PROVE pc \in 1 .. 2 /\ Current = handover[pc]
    BY <1>0, <2>1, <2>2, <2>3
  <2>4. ASSUME Running, Current.op = "send" PROVE Submits
    BY <1>25, <2>1, <2>3, <2>4 DEF handover, Submits, Sent, Roles
  <2>5. ASSUME Running, Current.op \in {"deploy", "record", "return"} PROVE FALSE
    BY <2>3, <2>5 DEF handover
  <2>6. ASSUME Running PROVE Places
    BY <1>25, <2>1, <2>3, <2>6 DEF handover, Places, RecordPlaces, BuiltAt, Kind
  <2>7. ASSUME Running, Current.op = "execute" PROVE pc = 1
    BY <2>3, <2>7 DEF handover
  <2> QED BY <1>25, <2>2, <2>4, <2>5, <2>6, <2>7 DEF Rows, Lengths
<1>26. CASE next = 26
  <2>1. script = "polygon_01" /\ Program(script) = deploy_01_governor_tunnel
    BY <1>0, <1>26, OrderIs, ProgramOf
  <2>2. Len(Program(script)) = 3
    BY <2>1 DEF deploy_01_governor_tunnel
  <2>3. ASSUME Running PROVE pc \in 1 .. 3 /\ Current = deploy_01_governor_tunnel[pc]
    BY <1>0, <2>1, <2>2, <2>3
  <2>4. ASSUME Running, Current.op = "deploy" PROVE Deploys
    BY <1>26, <2>1, <2>3, <2>4 DEF deploy_01_governor_tunnel, Deploys, BuiltAt, Kind, FieldsOf, Wiring
  <2>5. ASSUME Running, Current.op = "record" PROVE Records
    BY <1>26, <2>1, <2>3, <2>5 DEF deploy_01_governor_tunnel, Records, Writes
  <2>6. ASSUME Running, Current.op \in {"send", "execute", "return"} PROVE FALSE
    BY <2>3, <2>6 DEF deploy_01_governor_tunnel
  <2>7. ASSUME Running PROVE Places
    BY <1>26, <2>1, <2>3, <2>7 DEF deploy_01_governor_tunnel, Places, RecordPlaces, BuiltAt, Kind
  <2> QED BY <1>26, <2>2, <2>4, <2>5, <2>6, <2>7 DEF Rows, Lengths
<1>27. CASE next = 27
  <2>1. script = "optimism_01" /\ Program(script) = deploy_01_optimism_messenger
    BY <1>0, <1>27, OrderIs, ProgramOf
  <2>2. Len(Program(script)) = 3
    BY <2>1 DEF deploy_01_optimism_messenger
  <2>3. ASSUME Running PROVE pc \in 1 .. 3 /\ Current = deploy_01_optimism_messenger[pc]
    BY <1>0, <2>1, <2>2, <2>3
  <2>4. ASSUME Running, Current.op = "deploy" PROVE Deploys
    BY <1>27, <2>1, <2>3, <2>4 DEF deploy_01_optimism_messenger, Deploys, BuiltAt, Kind, FieldsOf, Wiring
  <2>5. ASSUME Running, Current.op = "record" PROVE Records
    BY <1>27, <2>1, <2>3, <2>5 DEF deploy_01_optimism_messenger, Records, Writes
  <2>6. ASSUME Running, Current.op \in {"send", "execute", "return"} PROVE FALSE
    BY <2>3, <2>6 DEF deploy_01_optimism_messenger
  <2>7. ASSUME Running PROVE Places
    BY <1>27, <2>1, <2>3, <2>7 DEF deploy_01_optimism_messenger, Places, RecordPlaces, BuiltAt, Kind
  <2> QED BY <1>27, <2>2, <2>4, <2>5, <2>6, <2>7 DEF Rows, Lengths
<1>28. CASE next = 28
  <2>1. script = "gnosis_01" /\ Program(script) = deploy_01_home_mediator
    BY <1>0, <1>28, OrderIs, ProgramOf
  <2>2. Len(Program(script)) = 4
    BY <2>1 DEF deploy_01_home_mediator
  <2>3. ASSUME Running PROVE pc \in 1 .. 4 /\ Current = deploy_01_home_mediator[pc]
    BY <1>0, <2>1, <2>2, <2>3
  <2>4. ASSUME Running, Current.op = "deploy" PROVE Deploys
    BY <1>28, <2>1, <2>3, <2>4 DEF deploy_01_home_mediator, Deploys, BuiltAt, Kind, FieldsOf, Wiring
  <2>5. ASSUME Running, Current.op = "record" PROVE Records
    BY <1>28, <2>1, <2>3, <2>5 DEF deploy_01_home_mediator, Records, Writes
  <2>6. ASSUME Running, Current.op \in {"send", "execute"} PROVE FALSE
    BY <2>3, <2>6 DEF deploy_01_home_mediator
  <2>7. ASSUME Running PROVE Places
    BY <1>28, <2>1, <2>3, <2>7 DEF deploy_01_home_mediator, Places, RecordPlaces, BuiltAt, Kind
  <2> QED BY <1>28, <2>2, <2>4, <2>5, <2>6, <2>7 DEF Rows, Lengths
<1>29. CASE next = 29
  <2>1. script = "wormhole_01" /\ Program(script) = deploy_01_wormhole_messenger
    BY <1>0, <1>29, OrderIs, ProgramOf
  <2>2. Len(Program(script)) = 4
    BY <2>1 DEF deploy_01_wormhole_messenger
  <2>3. ASSUME Running PROVE pc \in 1 .. 4 /\ Current = deploy_01_wormhole_messenger[pc]
    BY <1>0, <2>1, <2>2, <2>3
  <2>4. ASSUME Running, Current.op = "deploy" PROVE Deploys
    BY <1>29, <2>1, <2>3, <2>4 DEF deploy_01_wormhole_messenger, Deploys, BuiltAt, Kind, FieldsOf, Wiring
  <2>5. ASSUME Running, Current.op = "record" PROVE Records
    BY <1>29, <2>1, <2>3, <2>5 DEF deploy_01_wormhole_messenger, Records, Writes
  <2>6. ASSUME Running, Current.op \in {"send", "execute"} PROVE FALSE
    BY <2>3, <2>6 DEF deploy_01_wormhole_messenger
  <2>7. ASSUME Running PROVE Places
    BY <1>29, <2>1, <2>3, <2>7 DEF deploy_01_wormhole_messenger, Places, RecordPlaces, BuiltAt, Kind
  <2> QED BY <1>29, <2>2, <2>4, <2>5, <2>6, <2>7 DEF Rows, Lengths
<1> QED
  BY <1>0, <1>1, <1>2, <1>3, <1>4, <1>5, <1>6, <1>7, <1>8, <1>9, <1>10, <1>11, <1>12, <1>13, <1>14, <1>15, <1>16,
     <1>17, <1>18, <1>19, <1>20, <1>21, <1>22, <1>23, <1>24, <1>25, <1>26, <1>27, <1>28, <1>29

(***************************************************************************)
(* Control: which script runs, and what it has done                        *)
(***************************************************************************)

\* An operation of the script that runs.
OpStep == DeployContract \/ SendTransaction \/ Check \/ RecordAddress \/ ExecuteProposal

LEMMA OpAdvances ==
  ASSUME OpStep
  PROVE  Running /\ Advance
BY DEF OpStep, DeployContract, SendTransaction, Check, RecordAddress, ExecuteProposal

\* A proposal is one operation, and it does not fail.
LEMMA ProposalsDoNotFail ==
  ASSUME RunsInv, script # "none", next = 20
  PROVE  ~Throws /\ ~Breaks /\ ~ReturnsEarly
<1>1. Rows
  BY StepTable
<1>2. ASSUME Running PROVE Current.op = "execute"
  BY <1>1, <1>2 DEF Rows, Places, Running, RunsInv, Lengths
<1> QED
  BY <1>2 DEF Throws, Breaks, ReturnsEarly

\* Which scripts may end early.
LEMMA EndsEarly ==
  ASSUME RunsInv, ReturnsEarly
  PROVE  /\ script = Order[next] /\ next \in {22, 23, 28, 29} /\ script' = "none" /\ next' = next + 1
         /\ skipped' = skipped \cup {script} /\ failed' = failed /\ pc' = 1
         /\ UNCHANGED <<chain, pending, globals>>
<1>1. Running /\ script # "none" /\ Current.op = "return"
  BY DEF ReturnsEarly, Running
<1>2. next \in {22, 23, 28, 29}
  BY <1>1, StepTable DEF Rows
<1> QED
  BY <1>1, <1>2, RunningAt DEF ReturnsEarly, ExitZero, End, chainVars

LEMMA PositionIs ==
  Position("12_15") = 8 /\ Position("19") = 12 /\ Position("02") = 1 /\ Position("polygon_04") = 16
BY OrderIs, PositionOf

LEMMA StartOverGoesBack ==
  ASSUME RunsInv, StartOver
  PROVE  /\ \/ next <= 8 /\ next' = 1
            \/ next \in 12 .. 16 /\ next' = 12
         /\ script' = "none" /\ failed' = "none" /\ pc' = pc /\ UNCHANGED <<chain, pending, globals, skipped>>
<1>1. failed = Order[next] /\ next \in 1 .. 29 /\ script = "none"
  BY DEF RunsInv, StartOver
<1>2. Position(failed) = next
  BY <1>1, PositionOf
<1> QED
  BY <1>1, <1>2, PositionIs DEF StartOver, HeadOf, scriptVars, chainVars

\* RunsInv is kept.
LEMMA RunsStep ==
  ASSUME RunsInv, [Next]_vars
  PROVE  RunsInv'
<1>1. CASE MineOne \/ UNCHANGED vars
  BY <1>1 DEF MineOne, RunsInv, vars, scriptVars
<1>2. CASE OpStep
  BY <1>2, OpAdvances DEF Advance, RunsInv
<1>3. CASE Start
  BY <1>3, OrderIs DEF Start, Begin, RunsInv
<1>4. CASE Finish
  BY <1>4 DEF Finish, ExitZero, End, RunsInv
<1>8. CASE ReturnsEarly
  <2>1. Order[22] # "26_00" /\ Order[23] # "27" /\ Order[28] \notin {"27", "26_00"} /\ Order[29] \notin {"27", "26_00"}
    BY OrderIs
  <2> QED BY <1>8, <2>1, EndsEarly DEF RunsInv
<1>5. CASE Throws \/ Breaks
  <2>1. script # "none" /\ next # 20
    BY <1>5, ProposalsDoNotFail DEF Throws, Breaks, Running
  <2>2. End /\ failed' = script /\ next' = next /\ skipped' = skipped
    BY <1>5 DEF Throws, Breaks, Exit
  <2> QED BY <2>1, <2>2 DEF End, RunsInv
<1>6. CASE Rerun
  BY <1>6 DEF Rerun, Begin, RunsInv
<1>7. CASE StartOver
  BY <1>7, StartOverGoesBack DEF RunsInv
<1> QED
  BY <1>1, <1>2, <1>3, <1>4, <1>5, <1>6, <1>7, <1>8 DEF Next, ScriptStep, OpStep

\* What a script has done stays done until an error; only its operations add to it.
LEMMA PastStep ==
  ASSUME RunsInv, [Next]_vars, NEW n \in 1 .. 27, NEW i \in 1 .. Lengths[n], Past(n, i)'
  PROVE  \/ Past(n, i)
         \/ OpStep /\ next = n /\ script # "none" /\ pc = i
<1>0. i \in Nat /\ i >= 1
  BY DEF Lengths
<1>1. CASE MineOne \/ UNCHANGED vars
  BY <1>1 DEF MineOne, Past, vars, scriptVars
<1>2. CASE OpStep
  BY <1>0, <1>2, OpAdvances DEF Advance, Past, RunsInv, Running
<1>3. CASE Start \/ Rerun
  BY <1>0, <1>3 DEF Start, Rerun, Begin, Past, RunsInv
<1>4. CASE Finish
  <2>1. next' = next + 1 /\ script # "none" /\ script' = "none"
    BY <1>4 DEF Finish, ExitZero, End
  <2>2. Rows
    BY <2>1, StepTable
  <2>3. CASE next = n
    <3>1. ~Running
      BY <1>4, <2>2, <2>3 DEF Finish, Rows
    <3>2. PICK l \in Nat : l = Lengths[n]
      BY DEF Lengths
    <3>3. pc > l
      BY <2>1, <2>2, <2>3, <3>1, <3>2 DEF Running, Rows, RunsInv
    <3> QED BY <1>0, <2>1, <2>3, <3>2, <3>3 DEF Past, RunsInv
  <2> QED BY <1>4, <2>1, <2>3 DEF Past, RunsInv, Finish
<1>5. CASE Throws \/ Breaks
  BY <1>5 DEF Throws, Breaks, Exit, End, Past
<1>6. CASE StartOver
  BY <1>6, StartOverGoesBack DEF Past, RunsInv
<1>7. CASE ReturnsEarly
  <2>1. next \in {22, 23, 28, 29} /\ next' = next + 1 /\ skipped' = skipped \cup {script} /\ script' = "none"
        /\ script = Order[next]
    BY <1>7, EndsEarly
  <2>2. Order[22] = "27" /\ Order[23] = "26_00"
    BY OrderIs
  <2> QED BY <2>1, <2>2 DEF Past, RunsInv
<1> QED
  BY <1>1, <1>2, <1>3, <1>4, <1>5, <1>6, <1>7 DEF Next, ScriptStep, OpStep

\* The proposals that move the roles are carried out for good, and the scripts that
\* end with their record are not repeated after it.
LEMMA PassedStays ==
  ASSUME RunsInv, [Next]_vars, NEW n \in {20, 22, 23, 24}, Past(n, Lengths[n])
  PROVE  Past(n, Lengths[n])'
<1>0. Lengths[20] = 1 /\ Lengths[22] = 4 /\ Lengths[23] = 4 /\ Lengths[24] = 1 /\ Lengths' = Lengths
  BY DEF Lengths
<1>1. CASE MineOne \/ UNCHANGED vars
  BY <1>0, <1>1 DEF MineOne, Past, vars, scriptVars
<1>2. CASE OpStep
  BY <1>0, <1>2, OpAdvances DEF Advance, Past, RunsInv, Running
<1>3. CASE Start \/ Rerun \/ Finish
  BY <1>0, <1>3 DEF Start, Rerun, Finish, ExitZero, Begin, End, Past, RunsInv
<1>4. CASE Throws \/ Breaks
  <2>1. Running /\ next' = next /\ skipped' = skipped
    BY <1>4 DEF Throws, Breaks, Exit
  <2>2. Rows /\ script # "none"
    BY <2>1, StepTable DEF Running
  <2>3. next # n
    BY <1>0, <2>1, <2>2 DEF Running, Rows, Past, RunsInv
  <2> QED BY <1>0, <2>1, <2>3 DEF Past
<1>6. CASE ReturnsEarly
  <2>1. next \in {22, 23, 28, 29} /\ next' = next + 1 /\ skipped' = skipped \cup {script} /\ script = Order[next]
    BY <1>6, EndsEarly
  <2>2. Running /\ script # "none"
    BY <1>6 DEF ReturnsEarly, Running
  <2>3. next # n
    BY <1>0, <2>2, StepTable DEF Running, Rows, Past, RunsInv
  <2>4. Order[22] = "27" /\ Order[23] = "26_00" /\ Order[28] = "gnosis_01" /\ Order[29] = "wormhole_01"
    BY OrderIs
  <2> QED BY <1>0, <2>1, <2>3, <2>4 DEF Past, RunsInv
<1>5. CASE StartOver
  BY <1>0, <1>5, StartOverGoesBack DEF Past, RunsInv
<1> QED
  BY <1>1, <1>2, <1>3, <1>4, <1>5, <1>6 DEF Next, ScriptStep, OpStep

(***************************************************************************)
(* Calls: the field that a call writes, and what it leaves alone           *)
(***************************************************************************)

Writers ==
  {"changeOwner", "changeMinter", "mint", "grantRole", "revokeRole", "renounceRole", "setTunnel", "setGuard",
   "setBridgeMediators"}

FieldOf(call) ==
  CASE call = "changeOwner" -> "owner"
    [] call = "changeMinter" -> "minter"
    [] call = "mint" -> "supply"
    [] call \in {"grantRole", "revokeRole", "renounceRole"} -> "roles"
    [] call = "setTunnel" -> "peer"
    [] call = "setGuard" -> "guard"
    [] call = "setBridgeMediators" -> "bridges"

ValueOf(tx, old) ==
  CASE tx.call \in {"changeOwner", "changeMinter", "setTunnel", "setGuard"} -> tx.arg
    [] tx.call = "mint" -> Minted(old, tx.arg)
    [] tx.call = "grantRole" -> old \cup {tx.arg}
    [] tx.call = "setBridgeMediators" -> old \cup tx.arg
    [] tx.call \in {"revokeRole", "renounceRole"} -> old \ {tx.arg}

\* A call writes its field of its contract and nothing else.
LEMMA EffectOn ==
  ASSUME NEW c, NEW tx, tx.call \in Writers
  PROVE  /\ DOMAIN Effect(c, tx) = DOMAIN c
         /\ \A a \in DOMAIN c : DOMAIN Effect(c, tx)[a] = DOMAIN c[a]
         /\ \A a \in DOMAIN c : \A f \in DOMAIN c[a] :
              Effect(c, tx)[a][f] = IF a = tx.at /\ f = FieldOf(tx.call) THEN ValueOf(tx, c[a][f]) ELSE c[a][f]
<1>1. CASE tx.call = "changeOwner"
  BY <1>1 DEF Effect, FieldOf, ValueOf
<1>2. CASE tx.call = "changeMinter"
  BY <1>2 DEF Effect, FieldOf, ValueOf
<1>3. CASE tx.call = "mint"
  BY <1>3 DEF Effect, FieldOf, ValueOf
<1>4. CASE tx.call = "grantRole"
  BY <1>4 DEF Effect, FieldOf, ValueOf
<1>5. CASE tx.call \in {"revokeRole", "renounceRole"}
  BY <1>5 DEF Effect, FieldOf, ValueOf
<1>6. CASE tx.call = "setTunnel"
  BY <1>6 DEF Effect, FieldOf, ValueOf
<1>7. CASE tx.call = "setGuard"
  BY <1>7 DEF Effect, FieldOf, ValueOf
<1>8. CASE tx.call = "setBridgeMediators"
  BY <1>8 DEF Effect, FieldOf, ValueOf
<1> QED
  BY <1>1, <1>2, <1>3, <1>4, <1>5, <1>6, <1>7, <1>8 DEF Writers

LEMMA CreateOn ==
  ASSUME NEW tx, tx.call = "create", tx.arg.name \in {"olasAddress", "veOLASAddress"},
         tx.arg.new \notin DOMAIN chain
  PROVE  LET after == Effect(chain, tx) IN
         /\ DOMAIN after = DOMAIN chain \cup {tx.arg.new}
         /\ DOMAIN after[tx.arg.new] = DOMAIN tx.arg.fields
         /\ \A a \in DOMAIN chain : DOMAIN after[a] = DOMAIN chain[a]
         /\ \A a \in DOMAIN chain : \A f \in DOMAIN chain[a] \ {"olasAddress", "veOLASAddress"} :
              after[a][f] = chain[a][f]
BY DEF Effect, With

LEMMA DeployOn ==
  ASSUME DeployContract, this \notin DOMAIN chain
  PROVE  /\ DOMAIN chain' = DOMAIN chain \cup {this}
         /\ chain'[this] = Current.fields
         /\ \A a \in DOMAIN chain : chain'[a] = chain[a]
BY DEF DeployContract, With

\* A batch is a walk: each call finds what the one before it has left.
LEMMA EffectsWalk ==
  ASSUME NEW c, NEW calls, Len(calls) \in Nat
  PROVE  /\ Effects(c, calls)[0] = c
         /\ \A i \in 1 .. Len(calls) : Effects(c, calls)[i] = Effect(Effects(c, calls)[i - 1], calls[i])
<1> DEFINE Walks(f, k) == f = [i \in 0 .. k |-> IF i = 0 THEN c ELSE Effect(f[i - 1], calls[i])]
           T == {k \in Nat : \E f : Walks(f, k)}
<1>1. 0 \in T
  <2>1. Walks([i \in 0 .. 0 |-> c], 0)
    OBVIOUS
  <2> HIDE DEF Walks
  <2> QED BY <2>1
<1>2. ASSUME NEW k \in T PROVE k + 1 \in T
  <2>1. PICK f : Walks(f, k)
    OBVIOUS
  <2>2. k \in Nat
    OBVIOUS
  <2> DEFINE h == [i \in 0 .. k + 1 |-> IF i = k + 1 THEN Effect(f[k], calls[k + 1]) ELSE f[i]]
  <2>3. \A i \in 0 .. k : i \in 0 .. k + 1 /\ h[i] = f[i]
    BY <2>2
  <2>4. h[k + 1] = Effect(f[k], calls[k + 1])
    BY <2>2
  <2>5. h = [i \in 0 .. k + 1 |-> h[i]]
    OBVIOUS
  <2> HIDE DEF h
  <2>6. ASSUME NEW i \in 0 .. k + 1
        PROVE  h[i] = IF i = 0 THEN c ELSE Effect(h[i - 1], calls[i])
    <3>1. CASE i = k + 1
      <4>1. i # 0 /\ i - 1 = k /\ k \in 0 .. k
        BY <2>2, <3>1
      <4> QED BY <2>3, <2>4, <3>1, <4>1
    <3>2. CASE i # k + 1
      <4>1. i \in 0 .. k /\ (i # 0 => i - 1 \in 0 .. k)
        BY <2>2, <3>2
      <4>2. f[i] = IF i = 0 THEN c ELSE Effect(f[i - 1], calls[i])
        BY <2>1, <4>1
      <4> QED BY <2>3, <4>1, <4>2
    <3> QED BY <3>1, <3>2
  <2>7. Walks(h, k + 1)
    BY <2>5, <2>6
  <2> HIDE DEF Walks
  <2> QED BY <2>2, <2>7
<1>3. T = Nat
  <2>1. T \in SUBSET Nat
    OBVIOUS
  <2> HIDE DEF T
  <2> QED BY <1>1, <1>2, <2>1, SetInduction
<1>4. PICK f : Walks(f, Len(calls))
  BY <1>3
<1>5. Walks(Effects(c, calls), Len(calls))
  BY <1>4 DEF Effects
<1> QED
  BY <1>5

\* What the DAO calls in one transaction.
Governs == {"grantRole", "revokeRole", "changeMinter", "setGuard", "setBridgeMediators"}

\* A proposal leaves all fields but roles, minters, guards and bridges alone.
LEMMA BatchKeeps ==
  ASSUME NEW c, NEW calls, Len(calls) \in Nat, \A i \in 1 .. Len(calls) : calls[i].call \in Governs,
         NEW i \in 0 .. Len(calls)
  PROVE  LET after == Effects(c, calls)[i] IN
         /\ DOMAIN after = DOMAIN c
         /\ \A a \in DOMAIN c : DOMAIN after[a] = DOMAIN c[a]
         /\ \A a \in DOMAIN c : \A f \in DOMAIN c[a] \ {"roles", "minter", "guard", "bridges"} : after[a][f] = c[a][f]
<1> DEFINE E == Effects(c, calls)
           n == Len(calls)
           Kept(d) == /\ DOMAIN d = DOMAIN c
                      /\ \A a \in DOMAIN c : DOMAIN d[a] = DOMAIN c[a]
                      /\ \A a \in DOMAIN c : \A f \in DOMAIN c[a] \ {"roles", "minter", "guard", "bridges"} : d[a][f] = c[a][f]
           T == {j \in 0 .. n : Kept(E[j])}
<1>1. E[0] = c /\ \A j \in 1 .. n : E[j] = Effect(E[j - 1], calls[j])
  BY EffectsWalk
<1> HIDE DEF E
<1>2. 0 \in T
  BY <1>1
<1>3. ASSUME NEW j \in 0 .. n, j \in T, j < n PROVE j + 1 \in T
  <2>1. j + 1 \in 1 .. n /\ (j + 1) - 1 = j /\ Kept(E[j])
    BY <1>3
  <2>2. E[j + 1] = Effect(E[j], calls[j + 1]) /\ calls[j + 1].call \in Governs
    BY <1>1, <2>1
  <2>3. calls[j + 1].call \in Writers /\ FieldOf(calls[j + 1].call) \in {"roles", "minter", "guard", "bridges"}
    BY <2>2 DEF Governs, Writers, FieldOf
  <2>4. Kept(Effect(E[j], calls[j + 1]))
    BY <2>1, <2>3, EffectOn
  <2> HIDE DEF Kept
  <2> QED BY <2>1, <2>2, <2>4
<1>4. \A j \in 0 .. n : j \in T
  <2> HIDE DEF T
  <2> QED BY <1>2, <1>3, IntervalInduction
<1> QED
  BY <1>4 DEF E

\* A role that is held after some call, and that no later call revokes, is held
\* at the end; and the other way round.
LEMMA RoleLasts ==
  ASSUME NEW c, NEW calls, Len(calls) \in Nat, \A i \in 1 .. Len(calls) : calls[i].call \in Governs,
         NEW at \in DOMAIN c, "roles" \in DOMAIN c[at], NEW r,
         NEW j \in 0 .. Len(calls), r \in Effects(c, calls)[j][at].roles,
         \A k \in j + 1 .. Len(calls) : calls[k].call = "revokeRole" => calls[k].arg # r
  PROVE  r \in Effects(c, calls)[Len(calls)][at].roles
<1> DEFINE E == Effects(c, calls)
           n == Len(calls)
           T == {i \in 0 .. n : i >= j => r \in E[i][at].roles}
<1>1. \A i \in 1 .. n : E[i] = Effect(E[i - 1], calls[i])
  BY EffectsWalk
<1>2. \A i \in 0 .. n : at \in DOMAIN E[i] /\ "roles" \in DOMAIN E[i][at]
  BY BatchKeeps
<1>3. r \in E[j][at].roles
  OBVIOUS
<1> HIDE DEF E
<1>4. 0 \in T
  BY <1>3
<1>5. ASSUME NEW i \in 0 .. n, i \in T, i < n PROVE i + 1 \in T
  <2>1. CASE i + 1 <= j
    BY <1>3, <1>5, <2>1
  <2>2. CASE i >= j
    <3>1. i + 1 \in 1 .. n /\ (i + 1) - 1 = i /\ i + 1 \in j + 1 .. n /\ r \in E[i][at].roles
      BY <1>5, <2>2
    <3>2. calls[i + 1].call \in Governs \cap Writers /\ (calls[i + 1].call = "revokeRole" => calls[i + 1].arg # r)
      BY <3>1 DEF Governs, Writers
    <3>3. E[i + 1] = Effect(E[i], calls[i + 1]) /\ at \in DOMAIN E[i] /\ "roles" \in DOMAIN E[i][at]
      BY <1>1, <1>2, <3>1
    <3>4. E[i + 1][at].roles = (IF at = calls[i + 1].at /\ "roles" = FieldOf(calls[i + 1].call)
                                THEN ValueOf(calls[i + 1], E[i][at].roles) ELSE E[i][at].roles)
      BY <3>2, <3>3, EffectOn
    <3>5. r \in E[i + 1][at].roles
      BY <3>1, <3>2, <3>4 DEF Governs, FieldOf, ValueOf
    <3> QED BY <3>1, <3>5
  <2> QED BY <2>1, <2>2
<1>6. \A i \in 0 .. n : i \in T
  <2> HIDE DEF T
  <2> QED BY <1>4, <1>5, IntervalInduction
<1> QED
  BY <1>6 DEF E

LEMMA RoleStaysAway ==
  ASSUME NEW c, NEW calls, Len(calls) \in Nat, \A i \in 1 .. Len(calls) : calls[i].call \in Governs,
         NEW at \in DOMAIN c, "roles" \in DOMAIN c[at], NEW r,
         NEW j \in 0 .. Len(calls), r \notin Effects(c, calls)[j][at].roles,
         \A k \in j + 1 .. Len(calls) : calls[k].call = "grantRole" => calls[k].arg # r
  PROVE  r \notin Effects(c, calls)[Len(calls)][at].roles
<1> DEFINE E == Effects(c, calls)
           n == Len(calls)
           T == {i \in 0 .. n : i >= j => r \notin E[i][at].roles}
<1>1. \A i \in 1 .. n : E[i] = Effect(E[i - 1], calls[i])
  BY EffectsWalk
<1>2. \A i \in 0 .. n : at \in DOMAIN E[i] /\ "roles" \in DOMAIN E[i][at]
  BY BatchKeeps
<1>3. r \notin E[j][at].roles
  OBVIOUS
<1> HIDE DEF E
<1>4. 0 \in T
  BY <1>3
<1>5. ASSUME NEW i \in 0 .. n, i \in T, i < n PROVE i + 1 \in T
  <2>1. CASE i + 1 <= j
    BY <1>3, <1>5, <2>1
  <2>2. CASE i >= j
    <3>1. i + 1 \in 1 .. n /\ (i + 1) - 1 = i /\ i + 1 \in j + 1 .. n /\ r \notin E[i][at].roles
      BY <1>5, <2>2
    <3>2. calls[i + 1].call \in Governs \cap Writers /\ (calls[i + 1].call = "grantRole" => calls[i + 1].arg # r)
      BY <3>1 DEF Governs, Writers
    <3>3. E[i + 1] = Effect(E[i], calls[i + 1]) /\ at \in DOMAIN E[i] /\ "roles" \in DOMAIN E[i][at]
      BY <1>1, <1>2, <3>1
    <3>4. E[i + 1][at].roles = (IF at = calls[i + 1].at /\ "roles" = FieldOf(calls[i + 1].call)
                                THEN ValueOf(calls[i + 1], E[i][at].roles) ELSE E[i][at].roles)
      BY <3>2, <3>3, EffectOn
    <3>5. r \notin E[i + 1][at].roles
      BY <3>1, <3>2, <3>4 DEF Governs, FieldOf, ValueOf
    <3> QED BY <3>1, <3>5
  <2> QED BY <2>1, <2>2
<1>6. \A i \in 0 .. n : i \in T
  <2> HIDE DEF T
  <2> QED BY <1>4, <1>5, IntervalInduction
<1> QED
  BY <1>6 DEF E

\* The minter is the one that a call names, if one does, or stays.
MinterIs(c, calls, at, x) ==
  Effects(c, calls)[Len(calls)][at].minter =
    IF \E k \in 1 .. Len(calls) : calls[k].call = "changeMinter" /\ calls[k].at = at THEN x ELSE c[at].minter

LEMMA MinterAfter ==
  ASSUME NEW c, NEW calls, Len(calls) \in Nat, \A i \in 1 .. Len(calls) : calls[i].call \in Governs,
         NEW at \in DOMAIN c, "minter" \in DOMAIN c[at], NEW x,
         \A k \in 1 .. Len(calls) : calls[k].call = "changeMinter" => calls[k].arg = x
  PROVE  MinterIs(c, calls, at, x)
<1> DEFINE E == Effects(c, calls)
           n == Len(calls)
           Named(k) == calls[k].call = "changeMinter" /\ calls[k].at = at
           T == {i \in 0 .. n : E[i][at].minter = IF \E k \in 1 .. i : Named(k) THEN x ELSE c[at].minter}
<1>1. \A i \in 1 .. n : E[i] = Effect(E[i - 1], calls[i])
  BY EffectsWalk
<1>2. \A i \in 0 .. n : at \in DOMAIN E[i] /\ "minter" \in DOMAIN E[i][at]
  BY BatchKeeps
<1>3. E[0] = c
  BY EffectsWalk
<1> HIDE DEF E
<1>4. 0 \in T
  BY <1>3
<1>5. ASSUME NEW i \in 0 .. n, i \in T, i < n PROVE i + 1 \in T
  <2>1. i + 1 \in 1 .. n /\ (i + 1) - 1 = i
    BY <1>5
  <2>2. calls[i + 1].call \in Governs \cap Writers
    BY <2>1 DEF Governs, Writers
  <2>3. E[i + 1] = Effect(E[i], calls[i + 1]) /\ at \in DOMAIN E[i] /\ "minter" \in DOMAIN E[i][at]
    BY <1>1, <1>2, <2>1
  <2>4. E[i + 1][at].minter = (IF at = calls[i + 1].at /\ "minter" = FieldOf(calls[i + 1].call)
                               THEN ValueOf(calls[i + 1], E[i][at].minter) ELSE E[i][at].minter)
    BY <2>2, <2>3, EffectOn
  <2>5. E[i + 1][at].minter = IF Named(i + 1) THEN x ELSE E[i][at].minter
    BY <2>1, <2>2, <2>4 DEF Governs, FieldOf, ValueOf
  <2>6. (\E k \in 1 .. i + 1 : Named(k)) <=> Named(i + 1) \/ \E k \in 1 .. i : Named(k)
    <3> HIDE DEF Named
    <3>1. \A k \in 1 .. i + 1 : k = i + 1 \/ k \in 1 .. i
      BY <2>1
    <3>2. \A k \in 1 .. i : k \in 1 .. i + 1
      BY <2>1
    <3> QED BY <2>1, <3>1, <3>2
  <2> HIDE DEF Named
  <2> QED BY <1>5, <2>1, <2>5, <2>6
<1>6. \A i \in 0 .. n : i \in T
  <2> HIDE DEF T
  <2> QED BY <1>4, <1>5, IntervalInduction
<1>7. n \in T
  BY <1>6
<1> QED
  BY <1>7 DEF E, MinterIs

\* The bridges are those that a call names, if one does, or stay.
BridgesAre(c, calls, at, x) ==
  Effects(c, calls)[Len(calls)][at].bridges =
    IF \E k \in 1 .. Len(calls) : calls[k].call = "setBridgeMediators" /\ calls[k].at = at THEN x ELSE c[at].bridges

LEMMA BridgesAfter ==
  ASSUME NEW c, NEW calls, Len(calls) \in Nat, \A i \in 1 .. Len(calls) : calls[i].call \in Governs,
         NEW at \in DOMAIN c, "bridges" \in DOMAIN c[at], NEW x, c[at].bridges \subseteq x,
         \A k \in 1 .. Len(calls) : calls[k].call = "setBridgeMediators" => calls[k].arg = x
  PROVE  BridgesAre(c, calls, at, x)
<1> DEFINE E == Effects(c, calls)
           n == Len(calls)
           Named(k) == calls[k].call = "setBridgeMediators" /\ calls[k].at = at
           T == {i \in 0 .. n : E[i][at].bridges = IF \E k \in 1 .. i : Named(k) THEN x ELSE c[at].bridges}
<1>1. \A i \in 1 .. n : E[i] = Effect(E[i - 1], calls[i])
  BY EffectsWalk
<1>2. \A i \in 0 .. n : at \in DOMAIN E[i] /\ "bridges" \in DOMAIN E[i][at]
  BY BatchKeeps
<1>3. E[0] = c
  BY EffectsWalk
<1> HIDE DEF E
<1>4. 0 \in T
  BY <1>3
<1>5. ASSUME NEW i \in 0 .. n, i \in T, i < n PROVE i + 1 \in T
  <2>1. i + 1 \in 1 .. n /\ (i + 1) - 1 = i
    BY <1>5
  <2>2. calls[i + 1].call \in Governs \cap Writers
    BY <2>1 DEF Governs, Writers
  <2>3. E[i + 1] = Effect(E[i], calls[i + 1]) /\ at \in DOMAIN E[i] /\ "bridges" \in DOMAIN E[i][at]
    BY <1>1, <1>2, <2>1
  <2>4. E[i + 1][at].bridges = (IF at = calls[i + 1].at /\ "bridges" = FieldOf(calls[i + 1].call)
                                THEN ValueOf(calls[i + 1], E[i][at].bridges) ELSE E[i][at].bridges)
    BY <2>2, <2>3, EffectOn
  <2>5. E[i + 1][at].bridges = IF Named(i + 1) THEN E[i][at].bridges \cup x ELSE E[i][at].bridges
    BY <2>1, <2>2, <2>4 DEF Governs, FieldOf, ValueOf
  <2>6. (\E k \in 1 .. i + 1 : Named(k)) <=> Named(i + 1) \/ \E k \in 1 .. i : Named(k)
    <3> HIDE DEF Named
    <3>1. \A k \in 1 .. i + 1 : k = i + 1 \/ k \in 1 .. i
      BY <2>1
    <3>2. \A k \in 1 .. i : k \in 1 .. i + 1
      BY <2>1
    <3> QED BY <2>1, <3>1, <3>2
  <2>7. E[i][at].bridges \cup x = x
    BY <1>5
  <2>8. E[i + 1][at].bridges = IF Named(i + 1) THEN x ELSE E[i][at].bridges
    BY <2>5, <2>7
  <2> HIDE DEF Named
  <2> QED BY <1>5, <2>1, <2>6, <2>8
<1>6. \A i \in 0 .. n : i \in T
  <2> HIDE DEF T
  <2> QED BY <1>4, <1>5, IntervalInduction
<1>7. n \in T
  BY <1>6
<1> QED
  BY <1>7 DEF E, BridgesAre

(***************************************************************************)
(* The calls of the proposals                                              *)
(***************************************************************************)

Batch(calls) ==
  /\ Len(calls) \in Nat /\ chain' = Effects(chain, calls)[Len(calls)]
  /\ \A i \in 1 .. Len(calls) :
       /\ calls[i].call \in Governs
       /\ calls[i].call = "changeMinter" => calls[i].arg = treasuryAddress
       /\ calls[i].call = "setBridgeMediators" => next = 24 /\ calls[i].arg = MediatedNetworks
       /\ calls[i].call = "grantRole" => calls[i].arg \in AllRoles(g.governorAddress) \cup AllRoles(g.governorTwoAddress)
       /\ calls[i].call = "revokeRole" =>
            calls[i].arg \in AllRoles(g.governorAddress) \cup AllRoles(g.governorTwoAddress) \cup {<<"canceller", CM>>}

Grants(calls, k, role, account) == k \in 1 .. Len(calls) /\ calls[k] = GrantRole(g.timelockAddress, role, account)
Revokes(calls, k, role, account) == k \in 1 .. Len(calls) /\ calls[k] = RevokeRole(g.timelockAddress, role, account)

\* Proposals 1 and 2 take the roles from the governor, then give them to governorTwo.
ToGovernorTwo(calls) ==
  /\ \A role \in Roles : \E k \in 5 .. 8 : Grants(calls, k, role, g.governorTwoAddress)
  /\ \A k \in 5 .. Len(calls) : calls[k].call # "revokeRole"

\* Proposal 11 gives them to the new governor, then takes them from governorTwo, and
\* tells the guard of the bridges.
ToGovernor(calls) ==
  /\ \A role \in Roles : \E k \in 1 .. 4 : Grants(calls, k, role, g.governorAddress)
  /\ \A k \in 1 .. Len(calls) : calls[k].call = "revokeRole" => calls[k].arg \in AllRoles(g.governorTwoAddress)
  /\ \A role \in Roles : \E k \in 5 .. 8 : Revokes(calls, k, role, g.governorTwoAddress)
  /\ \A k \in 5 .. Len(calls) : calls[k].call # "grantRole"
  /\ \E k \in 1 .. Len(calls) : calls[k] = SetBridgeMediators(g.guardCMAddress, MediatedNetworks)

HandsOver(calls) ==
  /\ Revokes(calls, 1, "canceller", CM)
  /\ \A k \in 1 .. Len(calls) : /\ calls[k].call # "grantRole"
                                /\ calls[k].call = "revokeRole" => calls[k].arg = <<"canceller", CM>>
  /\ \/ chain[g.olasAddress].minter = treasuryAddress
     \/ \E k \in 1 .. Len(calls) : calls[k].call = "changeMinter" /\ calls[k].at = g.olasAddress

\* A batch is made of calls that governance may make.
Permitted(call) ==
  /\ call.call \in Governs
  /\ call.call = "changeMinter" => call.arg = treasuryAddress
  /\ call.call = "setBridgeMediators" => next = 24 /\ call.arg = MediatedNetworks
  /\ call.call = "grantRole" => call.arg \in AllRoles(g.governorAddress) \cup AllRoles(g.governorTwoAddress)
  /\ call.call = "revokeRole" =>
       call.arg \in AllRoles(g.governorAddress) \cup AllRoles(g.governorTwoAddress) \cup {<<"canceller", CM>>}

LEMMA RolesArePermitted ==
  ASSUME NEW account \in {g.governorAddress, g.governorTwoAddress}, NEW timelock
  PROVE  /\ \A role \in Roles : Permitted(GrantRole(timelock, role, account)) /\ Permitted(RevokeRole(timelock, role, account))
         /\ \A multisig, guard : Permitted(SetGuard(multisig, guard))
         /\ \A token : Permitted(ChangeMinter(token, treasuryAddress))
         /\ next = 24 => \A guard : Permitted(SetBridgeMediators(guard, MediatedNetworks))
BY DEF Permitted, Governs, AllRoles, GrantRole, RevokeRole, SetGuard, ChangeMinter, SetBridgeMediators

\* Eight calls that move roles, and at most two more.
LEMMA BatchOfRoles ==
  ASSUME NEW calls, Len(calls) \in 8 .. 10, chain' = Effects(chain, calls)[Len(calls)],
         NEW a \in {g.governorAddress, g.governorTwoAddress}, NEW b \in {g.governorAddress, g.governorTwoAddress},
         \A i \in 1 .. 4 : \E role \in Roles : calls[i] \in {GrantRole(g.timelockAddress, role, a), RevokeRole(g.timelockAddress, role, a)},
         \A i \in 5 .. 8 : \E role \in Roles : calls[i] \in {GrantRole(g.timelockAddress, role, b), RevokeRole(g.timelockAddress, role, b)},
         \A i \in 9 .. Len(calls) : Permitted(calls[i])
  PROVE  Batch(calls)
<1>1. ASSUME NEW i \in 1 .. Len(calls) PROVE Permitted(calls[i])
  <2>1. CASE i \in 1 .. 4
    <3>1. PICK role \in Roles : calls[i] \in {GrantRole(g.timelockAddress, role, a), RevokeRole(g.timelockAddress, role, a)}
      BY <2>1
    <3>2. Permitted(GrantRole(g.timelockAddress, role, a)) /\ Permitted(RevokeRole(g.timelockAddress, role, a))
      BY RolesArePermitted
    <3>3. calls[i] = GrantRole(g.timelockAddress, role, a) \/ calls[i] = RevokeRole(g.timelockAddress, role, a)
      BY <3>1
    <3> QED BY <3>2, <3>3
  <2>2. CASE i \in 5 .. 8
    <3>1. PICK role \in Roles : calls[i] \in {GrantRole(g.timelockAddress, role, b), RevokeRole(g.timelockAddress, role, b)}
      BY <2>2
    <3>2. Permitted(GrantRole(g.timelockAddress, role, b)) /\ Permitted(RevokeRole(g.timelockAddress, role, b))
      BY RolesArePermitted
    <3>3. calls[i] = GrantRole(g.timelockAddress, role, b) \/ calls[i] = RevokeRole(g.timelockAddress, role, b)
      BY <3>1
    <3> QED BY <3>2, <3>3
  <2>3. CASE i \in 9 .. Len(calls) BY <2>3
  <2> QED BY <2>1, <2>2, <2>3
<1> QED BY <1>1 DEF Batch, Permitted

\* What is executed is one of five proposals.
LEMMA ProposalTable ==
  ASSUME RunsInv, ExecuteProposal
  PROVE  \E calls :
           /\ Batch(calls)
           /\ \/ next = 20 /\ ToGovernorTwo(calls)
              \/ next = 21 /\ \A k \in 1 .. Len(calls) : calls[k].call \notin {"grantRole", "revokeRole"}
              \/ next = 24 /\ ToGovernor(calls)
              \/ next = 25 /\ HandsOver(calls)
<1>1. Running /\ Current.op = "execute" /\ chain' = Effects(chain, Current.calls)[Len(Current.calls)]
  BY DEF ExecuteProposal
<1>2. /\ next \in {20, 21, 24, 25} /\ Current = Program(script)[1]
      /\ script = Order[next] \/ (script = "P01" /\ next = 20)
  BY <1>1, StepTable, RunningAt DEF Rows, Running, Current
<1> DEFINE calls == Current.calls
           T == g.timelockAddress
<1>3. CASE script = "P01"
  <2>1. Current.calls = RevokeAll(g.governorAddress) \o GrantAll(g.governorTwoAddress)
                          \o << ChangeMinter(g.olasAddress, treasuryAddress) >>
    BY <1>2, <1>3, ProgramOf DEF proposal_01_goerli_sync_mainnet, Execute
  <2>2. Batch(Current.calls)
    <3>1. Len(calls) \in 8 .. 10 /\ chain' = Effects(chain, calls)[Len(calls)]
      BY <1>1, <2>1 DEF GrantAll, RevokeAll
    <3>2. \A i \in 1 .. 4 : \E role \in Roles : calls[i] \in {GrantRole(T, role, g.governorAddress), RevokeRole(T, role, g.governorAddress)}
      BY <2>1 DEF GrantAll, RevokeAll, Roles
    <3>3. \A i \in 5 .. 8 : \E role \in Roles : calls[i] \in {GrantRole(T, role, g.governorTwoAddress), RevokeRole(T, role, g.governorTwoAddress)}
      BY <2>1 DEF GrantAll, RevokeAll, Roles
    <3>4. \A i \in 9 .. Len(calls) : Permitted(calls[i])
      <4>1. Len(calls) = 9 /\ calls[9] = ChangeMinter(g.olasAddress, treasuryAddress)
        BY <2>1 DEF GrantAll, RevokeAll
      <4> QED BY <4>1, RolesArePermitted
    <3> QED BY <3>1, <3>2, <3>3, <3>4, BatchOfRoles
  <2>3. ToGovernorTwo(Current.calls)
    <3>1. /\ Len(calls) = 9 /\ calls[9] = ChangeMinter(g.olasAddress, treasuryAddress)
          /\ calls[5] = GrantRole(T, "admin", g.governorTwoAddress) /\ calls[6] = GrantRole(T, "executor", g.governorTwoAddress)
          /\ calls[7] = GrantRole(T, "proposer", g.governorTwoAddress) /\ calls[8] = GrantRole(T, "canceller", g.governorTwoAddress)
      BY <2>1 DEF GrantAll, RevokeAll
    <3>2. \A k \in 5 .. Len(calls) : calls[k].call # "revokeRole"
      BY <3>1 DEF GrantRole, ChangeMinter
    <3> QED BY <3>1, <3>2 DEF ToGovernorTwo, Grants, Roles
  <2>4. next = 20
    BY <1>2, <1>3, OrderIs
  <2> QED BY <2>2, <2>3, <2>4
<1>4. CASE script = "P02"
  <2>1. Current.calls = RevokeAll(g.governorAddress) \o GrantAll(g.governorTwoAddress)
    BY <1>2, <1>4, ProgramOf DEF proposal_02_governor_to_governorTwo, Execute
  <2>2. Batch(Current.calls)
    <3>1. Len(calls) \in 8 .. 10 /\ chain' = Effects(chain, calls)[Len(calls)]
      BY <1>1, <2>1 DEF GrantAll, RevokeAll
    <3>2. \A i \in 1 .. 4 : \E role \in Roles : calls[i] \in {GrantRole(T, role, g.governorAddress), RevokeRole(T, role, g.governorAddress)}
      BY <2>1 DEF GrantAll, RevokeAll, Roles
    <3>3. \A i \in 5 .. 8 : \E role \in Roles : calls[i] \in {GrantRole(T, role, g.governorTwoAddress), RevokeRole(T, role, g.governorTwoAddress)}
      BY <2>1 DEF GrantAll, RevokeAll, Roles
    <3>4. \A i \in 9 .. Len(calls) : Permitted(calls[i])
      <4>1. Len(calls) = 8
        BY <2>1 DEF GrantAll, RevokeAll
      <4> QED BY <4>1
    <3> QED BY <3>1, <3>2, <3>3, <3>4, BatchOfRoles
  <2>3. ToGovernorTwo(Current.calls)
    <3>1. /\ Len(calls) = 8
          /\ calls[5] = GrantRole(T, "admin", g.governorTwoAddress) /\ calls[6] = GrantRole(T, "executor", g.governorTwoAddress)
          /\ calls[7] = GrantRole(T, "proposer", g.governorTwoAddress) /\ calls[8] = GrantRole(T, "canceller", g.governorTwoAddress)
      BY <2>1 DEF GrantAll, RevokeAll
    <3>2. \A k \in 5 .. Len(calls) : calls[k].call # "revokeRole"
      BY <3>1 DEF GrantRole
    <3> QED BY <3>1, <3>2 DEF ToGovernorTwo, Grants, Roles
  <2>4. next = 20
    BY <1>2, <1>4, OrderIs
  <2> QED BY <2>2, <2>3, <2>4
<1>5. CASE next = 21
  <2>1. Current.calls = << SetGuard(CM, g.guardCMAddress) >>
    BY <1>2, <1>5, OrderIs, ProgramOf DEF proposal_05_CM_guard, Execute
  <2>2. Batch(Current.calls)
    BY <1>1, <2>1 DEF Batch, Governs, SetGuard
  <2> QED BY <1>5, <2>1, <2>2 DEF SetGuard
<1>6. CASE next = 24
  <2>1. Current.calls = GrantAll(g.governorAddress) \o RevokeAll(g.governorTwoAddress)
                          \o << SetBridgeMediators(g.guardCMAddress, MediatedNetworks), SetGuard(CM, g.guardCMAddress) >>
    <3>1. Current = proposal_11_activation[1]
      BY <1>2, <1>6, OrderIs, ProgramOf
    <3> QED BY <3>1 DEF proposal_11_activation, Execute
  <2>2. Batch(Current.calls)
    <3>1. Len(calls) \in 8 .. 10 /\ chain' = Effects(chain, calls)[Len(calls)]
      BY <1>1, <2>1 DEF GrantAll, RevokeAll
    <3>2. \A i \in 1 .. 4 : \E role \in Roles : calls[i] \in {GrantRole(T, role, g.governorAddress), RevokeRole(T, role, g.governorAddress)}
      BY <2>1 DEF GrantAll, RevokeAll, Roles
    <3>3. \A i \in 5 .. 8 : \E role \in Roles : calls[i] \in {GrantRole(T, role, g.governorTwoAddress), RevokeRole(T, role, g.governorTwoAddress)}
      BY <2>1 DEF GrantAll, RevokeAll, Roles
    <3>4. \A i \in 9 .. Len(calls) : Permitted(calls[i])
      <4>1. Len(calls) = 10 /\ calls[9] = SetBridgeMediators(g.guardCMAddress, MediatedNetworks) /\ calls[10] = SetGuard(CM, g.guardCMAddress)
        BY <2>1 DEF GrantAll, RevokeAll
      <4> QED BY <1>6, <4>1, RolesArePermitted
    <3> QED BY <3>1, <3>2, <3>3, <3>4, BatchOfRoles
  <2>3. ToGovernor(Current.calls)
    <3>1. /\ Len(calls) = 10
          /\ calls[1] = GrantRole(T, "admin", g.governorAddress) /\ calls[2] = GrantRole(T, "executor", g.governorAddress)
          /\ calls[3] = GrantRole(T, "proposer", g.governorAddress) /\ calls[4] = GrantRole(T, "canceller", g.governorAddress)
          /\ calls[5] = RevokeRole(T, "admin", g.governorTwoAddress) /\ calls[6] = RevokeRole(T, "executor", g.governorTwoAddress)
          /\ calls[7] = RevokeRole(T, "proposer", g.governorTwoAddress) /\ calls[8] = RevokeRole(T, "canceller", g.governorTwoAddress)
          /\ calls[9] = SetBridgeMediators(g.guardCMAddress, MediatedNetworks) /\ calls[10] = SetGuard(CM, g.guardCMAddress)
      BY <2>1 DEF GrantAll, RevokeAll
    <3>2. \A k \in 1 .. Len(calls) : calls[k].call = "revokeRole" => calls[k].arg \in AllRoles(g.governorTwoAddress)
      BY <3>1 DEF AllRoles, Roles, GrantRole, RevokeRole, SetGuard, SetBridgeMediators
    <3>3. \A k \in 5 .. Len(calls) : calls[k].call # "grantRole"
      BY <3>1 DEF RevokeRole, SetGuard, SetBridgeMediators
    <3> QED BY <3>1, <3>2, <3>3 DEF ToGovernor, Grants, Revokes, Roles
  <2> QED BY <1>6, <2>2, <2>3
<1>7. CASE next = 25
  <2>1. Current = handover[1]
    BY <1>2, <1>7, OrderIs, ProgramOf
  <2>2. \/ /\ chain[g.olasAddress].minter = treasuryAddress
           /\ Current.calls = << RevokeRole(g.timelockAddress, "canceller", CM) >>
        \/ /\ Len(Current.calls) = 2 /\ Current.calls[1] = RevokeRole(g.timelockAddress, "canceller", CM)
           /\ Current.calls[2] = ChangeMinter(g.olasAddress, treasuryAddress)
    <3>1. Current = Execute(<< RevokeRole(g.timelockAddress, "canceller", CM) >>
               \o (IF chain[g.olasAddress].minter = treasuryAddress THEN << >>
                   ELSE << ChangeMinter(g.olasAddress, treasuryAddress) >>))
      BY <2>1 DEF handover
    <3>2. CASE chain[g.olasAddress].minter = treasuryAddress
      <4>1. << RevokeRole(g.timelockAddress, "canceller", CM) >> \o << >> = << RevokeRole(g.timelockAddress, "canceller", CM) >>
        OBVIOUS
      <4> QED BY <3>1, <3>2, <4>1 DEF Execute
    <3>3. CASE chain[g.olasAddress].minter # treasuryAddress
      BY <3>1, <3>3 DEF Execute
    <3> QED BY <3>2, <3>3
  <2>3. Batch(Current.calls)
    BY <1>1, <2>2 DEF Batch, Governs, RevokeRole, ChangeMinter
  <2>4. HandsOver(Current.calls)
    BY <2>2 DEF HandsOver, Revokes, RevokeRole, ChangeMinter
  <2> QED BY <1>7, <2>3, <2>4
<1> QED
  BY <1>2, <1>3, <1>4, <1>5, <1>6, <1>7, OrderIs

(***************************************************************************)
(* The contracts                                                           *)
(***************************************************************************)

Created == {"olas", "veolas"}

\* Every contract has the fields of its kind, and the contracts of a kind are
\* numbered, but for those of the factory.
ContractsInv ==
  /\ IsFiniteSet(DOMAIN chain)
  /\ \A a \in DOMAIN chain :
       /\ a \in Address /\ DOMAIN chain[a] = FieldsOf(a[1])
       /\ a[1] \notin Created => a[2] \in 1 .. Cardinality(Deployed(a[1]))

Creations ==
  [name : {"olasAddress"}, new : {"olas"} \X Nat, fields : [owner : {Deployer}, minter : {Deployer}, supply : {0}]]
    \cup [name : {"veOLASAddress"}, new : {"veolas"} \X Nat, fields : [token : Address]]

\* What the deployer's key has submitted on the two networks.
L1Txs ==
  [call : {"changeOwner"}, at : Address, arg : Address \cup {DEAD}]
    \cup [call : {"changeMinter"}, at : Address, arg : Address]
    \cup [call : {"mint"}, at : Address, arg : Nat]
    \cup [call : {"grantRole"}, at : Address, arg : Roles \X ({"governor"} \X Nat)]
    \cup [call : {"renounceRole"}, at : Address, arg : {<<"admin", Deployer>>}]
    \cup [call : {"setTunnel"}, at : {"root"} \X Nat, arg : {"child"} \X Nat]
    \cup [call : {"create"}, at : Address, arg : Creations]
L2Txs == [call : {"setTunnel"}, at : {"child"} \X Nat, arg : {"root"} \X Nat]

PendingInv ==
  /\ DOMAIN pending = Networks
  /\ pending["L1"] \in Seq(L1Txs) /\ pending["L2"] \in Seq(L2Txs)

\* The contract of the script that runs: its address is new until it is deployed,
\* and then it is built on the contracts written down before.
ThisInv ==
  script # "none" =>
    /\ KindOf(script) # "none" => this \in Address /\ this[1] = KindOf(script)
    /\ Kind(script) # "none" /\ pc <= BuiltAt(script) => this = Fresh(Kind(script))
    /\ KindOf(script) # "none" /\ pc > BuiltAt(script) => Matches(this, Wiring(script))

LEMMA Accounts ==
  /\ Deployer # DEAD /\ Deployer # NoAddress /\ DEAD # NoAddress
  /\ Deployer \notin Address /\ DEAD \notin Address /\ NoAddress \notin Address
  /\ treasuryAddress # Deployer /\ treasuryAddress \notin Address
<1> DEFINE S == {Deployer, DEAD, NoAddress}
<1>1. ASSUME NEW x, NEW y, S = {x, y} PROVE FALSE
  <2>1. IsFiniteSet({x}) /\ Cardinality({x}) = 1
    BY FS_Singleton
  <2>2. {x, y} = {x} \cup {y}
    OBVIOUS
  <2>3. Cardinality({x} \cup {y}) \in {1, 2}
    BY <2>1, FS_AddElement
  <2> QED BY <1>1, <2>2, <2>3, DistinctAccounts
<1>2. Deployer # DEAD /\ Deployer # NoAddress /\ DEAD # NoAddress
  BY <1>1
<1> QED
  BY <1>2, AccountsAreNoContracts, TreasuryAssumption DEF Address

LEMMA Pair ==
  ASSUME NEW k \in Kinds, NEW m \in Nat
  PROVE  <<k, m>>[1] = k /\ <<k, m>>[2] = m /\ <<k, m>> \in Kinds \X Nat
OBVIOUS
\* The number after the last is free.
LEMMA FreshIsNew ==
  ASSUME ContractsInv, NEW kind \in Kinds, kind \notin Created
  PROVE  /\ Cardinality(Deployed(kind)) \in Nat
         /\ Fresh(kind) \in Kinds \X Nat /\ Fresh(kind)[1] = kind /\ Fresh(kind) \notin DOMAIN chain
<1>1. PICK n \in Nat : n = Cardinality(Deployed(kind))
  <2>1. Deployed(kind) \subseteq DOMAIN chain /\ IsFiniteSet(DOMAIN chain)
    BY DEF Deployed, ContractsInv
  <2> QED BY <2>1, FS_Subset, FS_CardinalityType
<1>2. n + 1 \in Nat /\ Fresh(kind) = <<kind, n + 1>>
  BY <1>1 DEF Fresh
<1>3. Fresh(kind)[1] = kind /\ Fresh(kind)[2] = n + 1 /\ Fresh(kind) \in Kinds \X Nat
  BY <1>2, Pair
<1>4. Fresh(kind) \notin DOMAIN chain
  <2>1. SUFFICES ASSUME Fresh(kind) \in DOMAIN chain PROVE FALSE
    OBVIOUS
  <2>2. Fresh(kind)[2] \in 1 .. Cardinality(Deployed(Fresh(kind)[1]))
    BY <1>3, <2>1 DEF ContractsInv
  <2>3. n + 1 \in 1 .. n
    BY <1>1, <1>3, <2>2
  <2> QED BY <2>3
<1> QED
  BY <1>1, <1>3, <1>4

LEMMA KindsAre ==
  ASSUME NEW s
  PROVE  /\ Kind(s) \in Kinds \cup {"none"} /\ Kind(s) \notin Created
         /\ Kind(s) # "none" => KindOf(s) = Kind(s)
<1>1. Kind(s) \in Kinds \cup {"none"} /\ Kind(s) \notin Created
  BY DEF Kind, Kinds, Created
<1>2. ASSUME Kind(s) # "none" PROVE KindOf(s) = Kind(s)
  BY <1>2 DEF Kind, KindOf
<1> QED
  BY <1>1, <1>2

\* A script deploys its contract at a new address.
LEMMA DeploysNew ==
  ASSUME RunsInv, ContractsInv, ThisInv, DeployContract
  PROVE  /\ Deploys /\ Running /\ script # "none"
         /\ this = Fresh(Kind(script)) /\ this \notin DOMAIN chain
         /\ this \in Address /\ this[1] = Kind(script)
<1>1. Running /\ script # "none" /\ Current.op = "deploy"
  BY DEF DeployContract, Running
<1>2. Deploys
  BY <1>1, StepTable DEF Rows
<1>3. this = Fresh(Kind(script))
  BY <1>1, <1>2 DEF Deploys, ThisInv, RunsInv, BuiltAt
<1>4. Kind(script) \in Kinds /\ Kind(script) \notin Created
  BY <1>2, KindsAre DEF Deploys
<1> QED
  BY <1>1, <1>2, <1>3, <1>4, FreshIsNew DEF Address

\* What a transaction of the deployer can change of the contracts that are there.
MinedOn(tx, a) ==
  /\ DOMAIN chain'[a] = DOMAIN chain[a]
  /\ \A f \in DOMAIN chain[a] \ {"owner", "minter", "supply", "roles", "peer", "olasAddress", "veOLASAddress"} :
       chain'[a][f] = chain[a][f]
  /\ "owner" \in DOMAIN chain[a] /\ chain'[a].owner # chain[a].owner =>
       tx.call = "changeOwner" /\ tx.at = a /\ chain[a].owner = Deployer /\ chain'[a].owner = tx.arg
  /\ "minter" \in DOMAIN chain[a] /\ chain'[a].minter # chain[a].minter =>
       tx.call = "changeMinter" /\ tx.at = a /\ chain[a].owner = Deployer /\ chain'[a].minter = tx.arg
  /\ "peer" \in DOMAIN chain[a] /\ chain'[a].peer # chain[a].peer =>
       tx.call = "setTunnel" /\ tx.at = a /\ chain[a].peer = NoAddress /\ chain'[a].peer = tx.arg
  /\ "roles" \in DOMAIN chain[a] =>
       \/ chain'[a].roles = chain[a].roles
       \/ chain'[a].roles = chain[a].roles \ {<<"admin", Deployer>>}
       \/ /\ HasRole(a, "admin", Deployer)
          /\ \E role \in Roles, gov \in {"governor"} \X Nat : chain'[a].roles = chain[a].roles \cup {<<role, gov>>}

\* A transaction of the deployer that succeeds: it changes owners and minters only
\* where the deployer is the owner, peers only once, roles only as an administrator.
LEMMA MineEffect ==
  ASSUME NEW tx \in L1Txs \cup L2Txs, Succeeds(tx, Deployer), chain' = Effect(chain, tx)
  PROVE  /\ \A a \in DOMAIN chain : MinedOn(tx, a)
         /\ \/ DOMAIN chain' = DOMAIN chain
            \/ \E new \in Created \X Nat :
                 DOMAIN chain' = DOMAIN chain \cup {new} /\ new \notin DOMAIN chain /\ DOMAIN chain'[new] = FieldsOf(new[1])
<1>1. CASE tx.call = "create"
  <2>1. tx.arg \in Creations
    BY <1>1 DEF L1Txs, L2Txs
  <2>2. /\ tx.arg.name \in {"olasAddress", "veOLASAddress"} /\ tx.arg.new \in Created \X Nat
        /\ DOMAIN tx.arg.fields = FieldsOf(tx.arg.new[1])
    BY <2>1 DEF Creations, Created, FieldsOf
  <2>3. tx.arg.new \notin DOMAIN chain
    BY <1>1 DEF Succeeds
  <2>4. /\ DOMAIN chain' = DOMAIN chain \cup {tx.arg.new}
        /\ DOMAIN chain'[tx.arg.new] = DOMAIN tx.arg.fields
        /\ \A a \in DOMAIN chain : DOMAIN chain'[a] = DOMAIN chain[a]
        /\ \A a \in DOMAIN chain : \A f \in DOMAIN chain[a] \ {"olasAddress", "veOLASAddress"} :
             chain'[a][f] = chain[a][f]
    BY <1>1, <2>2, <2>3, CreateOn
  <2>5. \A a \in DOMAIN chain : MinedOn(tx, a)
    BY <2>4 DEF MinedOn
  <2>6. \E new \in Created \X Nat :
          DOMAIN chain' = DOMAIN chain \cup {new} /\ new \notin DOMAIN chain /\ DOMAIN chain'[new] = FieldsOf(new[1])
    BY <2>2, <2>3, <2>4
  <2> QED BY <2>5, <2>6
<1>2. CASE tx.call # "create"
  <2>1. tx.call \in Writers \ {"revokeRole", "setGuard", "setBridgeMediators"}
    BY <1>2 DEF L1Txs, L2Txs, Writers
  <2>2. DOMAIN chain' = DOMAIN chain
    BY <2>1, EffectOn
  <2>3. ASSUME NEW a \in DOMAIN chain PROVE MinedOn(tx, a)
    <3>1. /\ DOMAIN chain'[a] = DOMAIN chain[a]
          /\ \A f \in DOMAIN chain[a] :
               chain'[a][f] = IF a = tx.at /\ f = FieldOf(tx.call) THEN ValueOf(tx, chain[a][f]) ELSE chain[a][f]
      BY <2>1, EffectOn
    <3>2. CASE a # tx.at
      BY <3>1, <3>2 DEF MinedOn
    <3>3. CASE tx.call = "changeOwner"
      BY <3>1, <3>3 DEF MinedOn, FieldOf, ValueOf, Succeeds
    <3>4. CASE tx.call = "changeMinter"
      BY <3>1, <3>4 DEF MinedOn, FieldOf, ValueOf, Succeeds
    <3>5. CASE tx.call = "mint"
      BY <3>1, <3>5 DEF MinedOn, FieldOf
    <3>6. CASE tx.call = "grantRole" /\ a = tx.at
      <4>1. tx.arg \in Roles \X ({"governor"} \X Nat)
        BY <3>6 DEF L1Txs, L2Txs
      <4>2. PICK role \in Roles, gov \in {"governor"} \X Nat : tx.arg = <<role, gov>>
        BY <4>1
      <4>3. HasRole(a, "admin", Deployer)
        BY <3>6 DEF Succeeds
      <4>4. FieldOf(tx.call) = "roles" /\ \A old : ValueOf(tx, old) = old \cup {<<role, gov>>}
        BY <3>6, <4>2 DEF FieldOf, ValueOf
      <4>5. \A f \in DOMAIN chain[a] \ {"roles"} : chain'[a][f] = chain[a][f]
        BY <3>1, <4>4
      <4>6. "roles" \in DOMAIN chain[a] => chain'[a].roles = chain[a].roles \cup {<<role, gov>>}
        BY <3>1, <3>6, <4>4
      <4> QED BY <3>1, <4>2, <4>3, <4>5, <4>6 DEF MinedOn
    <3>7. CASE tx.call = "renounceRole" /\ a = tx.at
      <4>1. tx.arg = <<"admin", Deployer>>
        BY <3>7 DEF L1Txs, L2Txs
      <4> QED BY <3>1, <3>7, <4>1 DEF MinedOn, FieldOf, ValueOf
    <3>8. CASE tx.call = "setTunnel"
      BY <3>1, <3>8 DEF MinedOn, FieldOf, ValueOf, Succeeds
    <3> QED BY <2>1, <3>2, <3>3, <3>4, <3>5, <3>6, <3>7, <3>8 DEF Writers
  <2> QED BY <2>2, <2>3
<1> QED
  BY <1>1, <1>2

(***************************************************************************)
(* Steps: what becomes of pending transactions, addresses and contracts    *)
(***************************************************************************)

Flight(net) == {pending[net][i] : i \in 1 .. Len(pending[net])}

LEMMA HeadTail ==
  ASSUME NEW S, NEW s \in Seq(S), s # <<>>
  PROVE  /\ Head(s) \in S /\ Tail(s) \in Seq(S)
         /\ {s[i] : i \in 1 .. Len(s)} = {Head(s)} \cup {Tail(s)[i] : i \in 1 .. Len(Tail(s))}
<1>1. PICK n \in Nat : n = Len(s)
  OBVIOUS
<1>2. n > 0 /\ Head(s) = s[1] /\ Head(s) \in S
  BY <1>1
<1>3. Tail(s) \in Seq(S) /\ Len(Tail(s)) = n - 1 /\ \A i \in 1 .. n - 1 : Tail(s)[i] = s[i + 1]
  BY <1>1, <1>2
<1>4. ASSUME NEW i \in 1 .. n PROVE i = 1 \/ (i - 1 \in 1 .. n - 1 /\ Tail(s)[i - 1] = s[i])
  BY <1>3
<1>5. \A i \in 1 .. n - 1 : i + 1 \in 1 .. n
  OBVIOUS
<1> QED
  BY <1>1, <1>2, <1>3, <1>4, <1>5

LEMMA AppendAdds ==
  ASSUME NEW S, NEW s \in Seq(S), NEW x \in S
  PROVE  /\ Append(s, x) \in Seq(S)
         /\ {Append(s, x)[i] : i \in 1 .. Len(Append(s, x))} = {s[i] : i \in 1 .. Len(s)} \cup {x}
<1>1. PICK n \in Nat : n = Len(s)
  OBVIOUS
<1>2. Len(Append(s, x)) = n + 1 /\ Append(s, x)[n + 1] = x /\ \A i \in 1 .. n : Append(s, x)[i] = s[i]
  BY <1>1
<1>3. \A i \in 1 .. n + 1 : i = n + 1 \/ i \in 1 .. n
  BY <1>1
<1>4. n + 1 \in 1 .. n + 1 /\ \A i \in 1 .. n : i \in 1 .. n + 1
  BY <1>1
<1> HIDE <1>1
<1> QED
  BY <1>1, <1>2, <1>3, <1>4

Txs(net) == IF net = "L1" THEN L1Txs ELSE L2Txs

LEMMA PendingTyped ==
  PendingInv <=> DOMAIN pending = Networks /\ \A net \in Networks : pending[net] \in Seq(Txs(net))
BY DEF PendingInv, Networks, Txs

\* Mining takes the oldest transaction; it takes effect or it reverts.
Mines(net, tx) ==
  /\ tx \in Txs(net) /\ tx \in L1Txs \cup L2Txs
  /\ \/ Succeeds(tx, Deployer) /\ chain' = Effect(chain, tx)
     \/ ~Succeeds(tx, Deployer) /\ chain' = chain
  /\ Flight(net) = {tx} \cup Flight(net)'
  /\ \A other \in Networks \ {net} : Flight(other)' = Flight(other)

LEMMA MinedTx ==
  ASSUME PendingInv, NEW net \in Networks, Mine(net)
  PROVE  PendingInv' /\ \E tx : Mines(net, tx)
<1>1. /\ pending[net] # <<>> /\ pending' = [pending EXCEPT ![net] = Tail(@)]
      /\ chain' = IF Succeeds(Head(pending[net]), Deployer) THEN Effect(chain, Head(pending[net])) ELSE chain
  BY DEF Mine
<1>2. DOMAIN pending = Networks /\ \A n \in Networks : pending[n] \in Seq(Txs(n))
  BY PendingTyped
<1>3. /\ DOMAIN pending' = Networks /\ pending'[net] = Tail(pending[net])
      /\ \A other \in Networks \ {net} : pending'[other] = pending[other]
  BY <1>1, <1>2
<1> DEFINE tx == Head(pending[net])
<1>4. /\ tx \in Txs(net) /\ Tail(pending[net]) \in Seq(Txs(net))
      /\ Flight(net) = {tx} \cup Flight(net)'
  <2>1. /\ tx \in Txs(net) /\ Tail(pending[net]) \in Seq(Txs(net))
        /\ {pending[net][i] : i \in 1 .. Len(pending[net])}
             = {tx} \cup {Tail(pending[net])[i] : i \in 1 .. Len(Tail(pending[net]))}
    BY <1>1, <1>2, HeadTail
  <2>2. Flight(net)' = {Tail(pending[net])[i] : i \in 1 .. Len(Tail(pending[net]))}
    BY <1>3 DEF Flight
  <2> QED BY <2>1, <2>2 DEF Flight
<1>5. \A n \in Networks : pending'[n] \in Seq(Txs(n))
  BY <1>2, <1>3, <1>4
<1>6. PendingInv'
  BY <1>3, <1>5 DEF PendingInv, Networks, Txs
<1>7. tx \in L1Txs \cup L2Txs
  BY <1>4 DEF Txs
<1>8. \A other \in Networks \ {net} : Flight(other)' = Flight(other)
  BY <1>3 DEF Flight
<1>9. Mines(net, tx)
  BY <1>1, <1>4, <1>7, <1>8 DEF Mines
<1> QED
  BY <1>6, <1>9

\* Nothing else touches the contracts.
LEMMA ChainWaits ==
  ASSUME [Next]_vars, ~MineOne, ~DeployContract, ~ExecuteProposal
  PROVE  chain' = chain
BY DEF Next, ScriptStep, Start, SendTransaction, Check, RecordAddress, Finish, ReturnsEarly, ExitZero, Throws,
       Breaks, Exit, Rerun, StartOver, vars, chainVars

LEMMA PendingWaits ==
  ASSUME [Next]_vars, ~MineOne, ~SendTransaction
  PROVE  pending' = pending
BY DEF Next, ScriptStep, Start, DeployContract, ExecuteProposal, Check, RecordAddress, Finish, ReturnsEarly, ExitZero, Throws,
       Breaks, Exit, Rerun, StartOver, vars, chainVars

LEMMA NamesWait ==
  ASSUME [Next]_vars, ~RecordAddress
  PROVE  globals' = globals
BY DEF Next, ScriptStep, Start, DeployContract, SendTransaction, ExecuteProposal, Check, Finish, ReturnsEarly, ExitZero, Throws,
       Breaks, Exit, Rerun, StartOver, MineOne, vars, scriptVars, chainVars

\* Where each script writes its address down, and under which name.
RecordedAt(n) == CASE n = 1 -> 4 [] n = 2 -> 6 [] n = 3 -> 4 [] n = 4 -> 5 [] n = 5 -> 9 [] n = 6 -> 5 [] n = 9 -> 4
                   [] n \in {17, 22, 23} -> 4 [] n \in {18, 19, 28, 29} -> 3 [] OTHER -> 2
NameAt(n) ==
  CASE n = 1 -> "deploymentFactory" [] n = 2 -> "olasAddress" [] n = 3 -> "timelockAddress"
    [] n = 4 -> "veOLASAddress" [] n \in {5, 22} -> "governorAddress" [] n = 6 -> "buOLASAddress"
    [] n = 9 -> "wveOLASAddress" [] n = 10 -> "governorTwoAddress" [] n \in {11, 23} -> "guardCMAddress"
    [] n = 12 -> "bridgedERC20Address" [] n = 13 -> "fxERC20ChildTunnelAddress"
    [] n = 14 -> "fxERC20RootTunnelAddress" [] n = 17 -> "voteWeightingAddress" [] n = 18 -> "burnerAddress"
    [] n = 19 -> "wormholeRelayerTimelockAddress" [] n = 26 -> "fxGovernorTunnelAddress"
    [] n = 27 -> "optimismMessengerAddress" [] n = 28 -> "homeMediatorAddress"
    [] n = 29 -> "wormholeMessengerAddress" [] OTHER -> "none"

GlobalsInv == DOMAIN globals = GlobalNames

LEMMA RecordsThis ==
  ASSUME RunsInv, GlobalsInv, RecordAddress
  PROVE  /\ Running /\ script # "none" /\ pc = RecordedAt(next) /\ NameAt(next) \in GlobalNames
         /\ globals' = [globals EXCEPT ![NameAt(next)] = this]
         /\ DOMAIN globals' = DOMAIN globals /\ globals'[NameAt(next)] = this
         /\ \A name \in GlobalNames \ {NameAt(next)} : globals'[name] = globals[name]
<1>1. Running /\ script # "none" /\ Current.op = "record" /\ globals' = [globals EXCEPT ![Current.name] = this]
  BY DEF RecordAddress, Running
<1>2. Records
  BY <1>1, StepTable DEF Rows
<1>3. pc = RecordedAt(next)
  BY <1>2 DEF Records, Writes, RecordedAt
<1>4. Current.name = NameAt(next)
  BY <1>2 DEF Records, Writes, NameAt
<1>5. NameAt(next) \in GlobalNames
  BY <1>2 DEF Records, Writes, NameAt, GlobalNames
<1> QED
  BY <1>1, <1>3, <1>4, <1>5 DEF GlobalsInv

LEMMA GlobalsStep ==
  ASSUME RunsInv, GlobalsInv, [Next]_vars
  PROVE  GlobalsInv'
BY RecordsThis, NamesWait DEF GlobalsInv

\* A name changes only where a script writes it.
LEMMA NameStays ==
  ASSUME RunsInv, GlobalsInv, [Next]_vars, NEW name \in GlobalNames,
         ~(script # "none" /\ pc = RecordedAt(next) /\ NameAt(next) = name)
  PROVE  globals'[name] = globals[name]
BY RecordsThis, NamesWait

(***************************************************************************)
(* Contracts that are there                                                *)
(***************************************************************************)

Changing == {"owner", "minter", "supply", "roles", "peer", "guard", "bridges", "olasAddress", "veOLASAddress"}

\* What a step leaves of a contract. Whoever is not the deployer stays the owner.
Stays(a) ==
  /\ a \in DOMAIN chain' /\ DOMAIN chain'[a] = DOMAIN chain[a]
  /\ \A f \in DOMAIN chain[a] \ Changing : chain'[a][f] = chain[a][f]
  /\ "owner" \in DOMAIN chain[a] /\ chain[a].owner # Deployer => chain'[a].owner = chain[a].owner
  /\ "minter" \in DOMAIN chain[a] /\ chain'[a].minter # chain[a].minter =>
       chain[a].owner = Deployer \/ (ExecuteProposal /\ chain'[a].minter = treasuryAddress)
  /\ "roles" \in DOMAIN chain[a] =>
       \/ chain'[a].roles = chain[a].roles
       \/ chain'[a].roles = chain[a].roles \ {<<"admin", Deployer>>}
       \/ /\ HasRole(a, "admin", Deployer)
          /\ \E role \in Roles, gov \in {"governor"} \X Nat : chain'[a].roles = chain[a].roles \cup {<<role, gov>>}
       \/ ExecuteProposal

LEMMA MinedStays ==
  ASSUME NEW tx, NEW a \in DOMAIN chain, MinedOn(tx, a), DOMAIN chain \subseteq DOMAIN chain'
  PROVE  Stays(a)
BY DEF MinedOn, Stays, Changing

LEMMA ContractsStay ==
  ASSUME RunsInv, ContractsInv, PendingInv, ThisInv, [Next]_vars, NEW a \in DOMAIN chain
  PROVE  Stays(a)
<1>1. ASSUME chain' = chain PROVE Stays(a)
  BY <1>1 DEF Stays
<1>2. CASE MineOne
  <2>1. PICK net \in Networks : Mine(net)
    BY <1>2 DEF MineOne
  <2>2. PICK tx : Mines(net, tx)
    BY <2>1, MinedTx
  <2>3. CASE chain' = Effect(chain, tx) /\ Succeeds(tx, Deployer)
    <3>1. tx \in L1Txs \cup L2Txs
      BY <2>2 DEF Mines
    <3>2. MinedOn(tx, a) /\ DOMAIN chain \subseteq DOMAIN chain'
      BY <2>3, <3>1, MineEffect
    <3> QED BY <3>2, MinedStays
  <2> QED BY <1>1, <2>2, <2>3 DEF Mines
<1>3. CASE DeployContract
  <2>1. DOMAIN chain' = DOMAIN chain \cup {this} /\ chain'[a] = chain[a]
    BY <1>3, DeploysNew, DeployOn
  <2> QED BY <2>1 DEF Stays
<1>4. CASE ExecuteProposal
  <2>1. PICK calls : Batch(calls)
    BY <1>4, ProposalTable
  <2>2. /\ Len(calls) \in Nat /\ Len(calls) \in 0 .. Len(calls) /\ chain' = Effects(chain, calls)[Len(calls)]
        /\ \A i \in 1 .. Len(calls) : calls[i].call \in Governs
        /\ \A i \in 1 .. Len(calls) : calls[i].call = "changeMinter" => calls[i].arg = treasuryAddress
    BY <2>1 DEF Batch
  <2>3. /\ DOMAIN chain' = DOMAIN chain /\ DOMAIN chain'[a] = DOMAIN chain[a]
        /\ \A f \in DOMAIN chain[a] \ {"roles", "minter", "guard", "bridges"} : chain'[a][f] = chain[a][f]
    BY <2>2, BatchKeeps
  <2>4. "minter" \in DOMAIN chain[a] => chain'[a].minter \in {chain[a].minter, treasuryAddress}
    <3>1. "minter" \in DOMAIN chain[a] => MinterIs(chain, calls, a, treasuryAddress)
      BY <2>2, MinterAfter
    <3> QED BY <2>2, <3>1 DEF MinterIs
  <2> QED BY <1>4, <2>3, <2>4 DEF Stays, Changing
<1> QED
  BY <1>1, <1>2, <1>3, <1>4, ChainWaits

\* Only contracts of the factory come while a script does not deploy.
LEMMA ContractsCome ==
  ASSUME RunsInv, ContractsInv, PendingInv, ThisInv, [Next]_vars
  PROVE  \/ DOMAIN chain' = DOMAIN chain
         \/ /\ ~DeployContract
            /\ \E new \in Created \X Nat :
                 DOMAIN chain' = DOMAIN chain \cup {new} /\ new \notin DOMAIN chain /\ DOMAIN chain'[new] = FieldsOf(new[1])
         \/ /\ DeployContract /\ DOMAIN chain' = DOMAIN chain \cup {this} /\ this \notin DOMAIN chain
            /\ DOMAIN chain'[this] = FieldsOf(this[1])
<1>1. CASE MineOne
  <2>1. PICK net \in Networks : Mine(net)
    BY <1>1 DEF MineOne
  <2>2. PICK tx : Mines(net, tx)
    BY <2>1, MinedTx
  <2>3. ~DeployContract
    BY <1>1 DEF MineOne, scriptVars, DeployContract, Advance, RunsInv
  <2>4. tx \in L1Txs \cup L2Txs
    BY <2>2 DEF Mines
  <2> QED BY <2>2, <2>3, <2>4, MineEffect DEF Mines
<1>2. CASE DeployContract
  <2>1. /\ DOMAIN chain' = DOMAIN chain \cup {this} /\ chain'[this] = Current.fields
        /\ Deploys /\ this[1] = Kind(script) /\ this \notin DOMAIN chain
    BY <1>2, DeploysNew, DeployOn
  <2>2. DOMAIN chain'[this] = FieldsOf(this[1])
    BY <2>1 DEF Deploys
  <2> QED BY <1>2, <2>1, <2>2
<1>3. CASE ExecuteProposal
  <2>1. PICK calls : Batch(calls)
    BY <1>3, ProposalTable
  <2>2. /\ Len(calls) \in Nat /\ Len(calls) \in 0 .. Len(calls) /\ chain' = Effects(chain, calls)[Len(calls)]
        /\ \A i \in 1 .. Len(calls) : calls[i].call \in Governs
    BY <2>1 DEF Batch
  <2> QED BY <2>2, BatchKeeps
<1> QED
  BY <1>1, <1>2, <1>3, ChainWaits

\* The contracts of a kind are counted, unless a script deploys one of them.
LEMMA CountStays ==
  ASSUME RunsInv, ContractsInv, PendingInv, ThisInv, [Next]_vars, NEW kind \in Kinds, kind \notin Created,
         DeployContract => this[1] # kind
  PROVE  Deployed(kind)' = Deployed(kind)
<1>1. \A new \in Created \X Nat : new[1] # kind
  BY DEF Created
<1> QED
  BY <1>1, ContractsCome DEF Deployed

LEMMA ContractsStep ==
  ASSUME RunsInv, ContractsInv, PendingInv, ThisInv, [Next]_vars
  PROVE  ContractsInv'
<1> DEFINE Counted(c, D, a) == /\ a \in Address /\ DOMAIN c[a] = FieldsOf(a[1])
                               /\ a[1] \notin Created => a[2] \in 1 .. Cardinality({b \in D : b[1] = a[1]})
<1>1. \A a \in DOMAIN chain : DOMAIN chain'[a] = DOMAIN chain[a]
  BY ContractsStay DEF Stays
<1>2. CASE DOMAIN chain' = DOMAIN chain
  BY <1>1, <1>2 DEF ContractsInv, Deployed
<1>3. CASE \E new \in Created \X Nat :
             DOMAIN chain' = DOMAIN chain \cup {new} /\ new \notin DOMAIN chain /\ DOMAIN chain'[new] = FieldsOf(new[1])
  <2>1. PICK new \in Created \X Nat :
             DOMAIN chain' = DOMAIN chain \cup {new} /\ new \notin DOMAIN chain /\ DOMAIN chain'[new] = FieldsOf(new[1])
    BY <1>3
  <2>2. new \in Address /\ new[1] \in Created
    BY DEF Created, Address, Kinds
  <2>3. IsFiniteSet(DOMAIN chain')
    BY <2>1, FS_AddElement DEF ContractsInv
  <2>4. ASSUME NEW k, k \notin Created PROVE Deployed(k)' = Deployed(k)
    BY <2>1, <2>2, <2>4 DEF Deployed
  <2> QED BY <1>1, <2>1, <2>2, <2>3, <2>4 DEF ContractsInv
<1>4. CASE DeployContract /\ DOMAIN chain' = DOMAIN chain \cup {this} /\ this \notin DOMAIN chain
            /\ DOMAIN chain'[this] = FieldsOf(this[1])
  <2>1. this = Fresh(Kind(script)) /\ this \in Address /\ this[1] = Kind(script) /\ Deploys
    BY <1>4, DeploysNew
  <2>2. Kind(script) \in Kinds /\ Kind(script) \notin Created
    BY <2>1, KindsAre DEF Deploys
  <2>3. IsFiniteSet(DOMAIN chain')
    BY <1>4, FS_AddElement DEF ContractsInv
  <2>4. PICK kind \in Kinds : kind = Kind(script) /\ kind \notin Created
    BY <2>2
  <2>5. PICK n \in Nat : n = Cardinality(Deployed(kind))
    BY <2>4, FreshIsNew
  <2>6. this[2] = n + 1
    BY <2>1, <2>4, <2>5, Pair DEF Fresh
  <2>7. Deployed(kind)' = Deployed(kind) \cup {this} /\ this \notin Deployed(kind)
    BY <1>4, <2>1, <2>4 DEF Deployed
  <2>8. Cardinality(Deployed(kind)') = n + 1
    <3>1. Deployed(kind) \subseteq DOMAIN chain /\ IsFiniteSet(DOMAIN chain)
      BY DEF Deployed, ContractsInv
    <3>2. IsFiniteSet(Deployed(kind))
      BY <3>1, FS_Subset
    <3> QED BY <2>5, <2>7, <3>2, FS_AddElement
  <2>9. ASSUME NEW k, k # kind PROVE Deployed(k)' = Deployed(k)
    BY <1>4, <2>1, <2>4, <2>9 DEF Deployed
  <2>10. ASSUME NEW a \in DOMAIN chain'
        PROVE  /\ a \in Address /\ DOMAIN chain'[a] = FieldsOf(a[1])
               /\ a[1] \notin Created => a[2] \in 1 .. Cardinality(Deployed(a[1])')
    <3>1. CASE a = this
      <4>1. Cardinality(Deployed(a[1])') = n + 1
        BY <2>1, <2>4, <2>8, <3>1
      <4>2. a[2] \in 1 .. n + 1
        BY <2>5, <2>6, <3>1
      <4> QED BY <1>4, <2>1, <3>1, <4>1, <4>2
    <3>2. CASE a \in DOMAIN chain /\ a[1] # kind
      BY <1>1, <2>9, <3>2 DEF ContractsInv
    <3>3. CASE a \in DOMAIN chain /\ a[1] = kind
      <4>1. /\ a \in Address /\ DOMAIN chain[a] = FieldsOf(a[1])
            /\ a[2] \in 1 .. n
        BY <2>4, <2>5, <3>3 DEF ContractsInv
      <4>2. a[2] \in 1 .. n + 1
        BY <2>5, <4>1
      <4>3. Cardinality(Deployed(a[1])') = n + 1
        BY <2>8, <3>3
      <4> QED BY <1>1, <3>3, <4>1, <4>2, <4>3
    <3> QED BY <1>4, <2>10, <3>1, <3>2, <3>3
  <2> QED BY <2>3, <2>10 DEF ContractsInv
<1> QED
  BY <1>2, <1>3, <1>4, ContractsCome

(***************************************************************************)
(* What is written down                                                    *)
(***************************************************************************)

LEMMA OpOf ==
  ASSUME OpStep
  PROVE  /\ Current.op = "record" => RecordAddress
         /\ Current.op = "deploy" => DeployContract
         /\ Current.op = "send" => SendTransaction
         /\ Current.op = "execute" => ExecuteProposal
         /\ Current.op \in {"expect", "expectRoles"} => Check /\ Satisfied(Current)
BY DEF OpStep, DeployContract, SendTransaction, Check, RecordAddress, ExecuteProposal, Satisfied

LEMMA Classes ==
  ASSUME [Next]_vars
  PROVE  \/ OpStep
         \/ MineOne \/ UNCHANGED vars
         \/ Start \/ Rerun
         \/ Finish \/ ReturnsEarly \/ Throws \/ Breaks \/ StartOver
BY DEF Next, ScriptStep, OpStep

LEMMA ScriptEnds ==
  ASSUME RunsInv, Finish \/ ReturnsEarly \/ Throws \/ Breaks \/ StartOver
  PROVE  script' = "none" /\ chain' = chain /\ pending' = pending /\ globals' = globals
BY StartOverGoesBack DEF Finish, ReturnsEarly, ExitZero, Throws, Breaks, Exit, End, chainVars

LEMMA ScriptBegins ==
  ASSUME RunsInv, Start \/ Rerun
  PROVE  /\ chain' = chain /\ pending' = pending /\ globals' = globals /\ next' = next /\ pc' = 1
         /\ next \in 1 .. 29 /\ (script' = Order[next] \/ (next = 20 /\ script' = "P01")) /\ this' = NewAddress(script')
         /\ script = "none"
BY OrderIs DEF Start, Rerun, Begin, RunsInv, chainVars

Recorders == {1, 2, 3, 4, 5, 6, 9, 10, 11, 12, 13, 14, 17, 22, 23, 26, 27}

Recorded(n) == g[NameAt(n)][1] = KindOf(Order[n]) /\ Matches(g[NameAt(n)], Wiring(Order[n]))

\* What a script has written down is the address of a contract of its kind, built
\* on what is written down now.
RecordedInv ==
  /\ \A n \in Recorders : Past(n, RecordedAt(n)) => Recorded(n)
  /\ g.homeMediatorAddress # NoAddress => next >= 28 /\ Recorded(28)

Core == RunsInv /\ ContractsInv /\ PendingInv /\ GlobalsInv /\ ThisInv /\ RecordedInv

LEMMA KindsAt ==
  /\ KindOf(Order[1]) = "factory" /\ KindOf(Order[2]) = "olas" /\ KindOf(Order[3]) = "timelock"
  /\ KindOf(Order[4]) = "veolas" /\ KindOf(Order[5]) = "governor" /\ KindOf(Order[6]) = "buolas"
  /\ KindOf(Order[7]) = "none" /\ KindOf(Order[8]) = "none" /\ KindOf(Order[9]) = "wveolas"
  /\ KindOf(Order[10]) = "governor" /\ KindOf(Order[11]) = "guard" /\ KindOf(Order[12]) = "bridged"
  /\ KindOf(Order[13]) = "child" /\ KindOf(Order[14]) = "root" /\ KindOf(Order[15]) = "none"
  /\ KindOf(Order[16]) = "none" /\ KindOf(Order[17]) = "voteweighting" /\ KindOf(Order[18]) = "burner"
  /\ KindOf(Order[19]) = "relayer" /\ KindOf(Order[21]) = "none" /\ KindOf(Order[22]) = "governor"
  /\ KindOf(Order[23]) = "guard" /\ KindOf(Order[24]) = "none" /\ KindOf(Order[25]) = "none"
  /\ KindOf(Order[26]) = "fxgovernor" /\ KindOf(Order[27]) = "optimism" /\ KindOf(Order[28]) = "mediator"
  /\ KindOf(Order[29]) = "wormhole"
BY OrderIs DEF KindOf, Kind

\* The scripts of which the audit reads no wiring.
LEMMA UnwiredAt ==
  ASSUME NEW n \in (1 .. 29) \ {4, 6, 9, 13, 14, 17, 20, 22, 23, 26, 27, 28}
  PROVE  Order[n] \notin {"07", "10", "16", "27", "26_00", "20", "polygon_03", "23", "polygon_01", "gnosis_01", "optimism_01"}
BY OrderIs

LEMMA WiringAt ==
  /\ Wiring(Order[4]) = [token |-> g.olasAddress]
  /\ Wiring(Order[6]) = [token |-> g.olasAddress]
  /\ Wiring(Order[9]) = [token |-> g.olasAddress, ve |-> g.veOLASAddress]
  /\ Wiring(Order[22]) = [token |-> g.wveOLASAddress, timelock |-> g.timelockAddress]
  /\ Wiring(Order[23]) = [owner |-> g.timelockAddress, multisig |-> CM, governor |-> g.governorAddress]
  /\ \A n \in {13, 14} : Wiring(Order[n]) = [rootToken |-> g.bridgedERC20Address]
  /\ Wiring(Order[17]) = [ve |-> g.veOLASAddress]
  /\ \A n \in {26, 27, 28} : Wiring(Order[n]) = [sourceGovernor |-> g.timelockAddress]
  /\ \A n \in (1 .. 29) \ {4, 6, 9, 13, 14, 17, 20, 22, 23, 26, 27, 28} : Wiring(Order[n]) = << >>
<1>1. /\ Wiring(Order[4]) = [token |-> g.olasAddress] /\ Wiring(Order[6]) = [token |-> g.olasAddress]
      /\ Wiring(Order[9]) = [token |-> g.olasAddress, ve |-> g.veOLASAddress]
  BY OrderIs DEF Wiring
<1>2. Wiring(Order[22]) = [token |-> g.wveOLASAddress, timelock |-> g.timelockAddress]
  BY OrderIs DEF Wiring
<1>3. Wiring(Order[23]) = [owner |-> g.timelockAddress, multisig |-> CM, governor |-> g.governorAddress]
  BY OrderIs DEF Wiring
<1>4. \A n \in {13, 14} : Wiring(Order[n]) = [rootToken |-> g.bridgedERC20Address]
  <2>1. Wiring(Order[13]) = [rootToken |-> g.bridgedERC20Address]
    BY OrderIs DEF Wiring
  <2>2. Wiring(Order[14]) = [rootToken |-> g.bridgedERC20Address]
    BY OrderIs DEF Wiring
  <2> QED BY <2>1, <2>2
<1>5. Wiring(Order[17]) = [ve |-> g.veOLASAddress]
  BY OrderIs DEF Wiring
<1>6. \A n \in {26, 27, 28} : Wiring(Order[n]) = [sourceGovernor |-> g.timelockAddress]
  <2>1. Wiring(Order[26]) = [sourceGovernor |-> g.timelockAddress]
    BY OrderIs DEF Wiring
  <2>2. Wiring(Order[27]) = [sourceGovernor |-> g.timelockAddress]
    BY OrderIs DEF Wiring
  <2>3. Wiring(Order[28]) = [sourceGovernor |-> g.timelockAddress]
    BY OrderIs DEF Wiring
  <2> QED BY <2>1, <2>2, <2>3
<1>7. ASSUME NEW n \in (1 .. 29) \ {4, 6, 9, 13, 14, 17, 20, 22, 23, 26, 27, 28} PROVE Wiring(Order[n]) = << >>
  BY UnwiredAt DEF Wiring
<1> QED
  BY <1>1, <1>2, <1>3, <1>4, <1>5, <1>6, <1>7

LEMMA FieldsAre ==
  /\ FieldsOf("factory") = {"owner", "olasAddress", "veOLASAddress"} /\ FieldsOf("olas") = {"owner", "minter", "supply"}
  /\ FieldsOf("veolas") = {"token"} /\ FieldsOf("timelock") = {"roles"} /\ FieldsOf("governor") = {"token", "timelock"}
  /\ FieldsOf("buolas") = {"owner", "token"} /\ FieldsOf("wveolas") = {"ve", "token"}
  /\ FieldsOf("guard") = {"owner", "multisig", "governor", "bridges"} /\ FieldsOf("bridged") = {"owner"}
  /\ FieldsOf("root") = {"rootToken", "peer"} /\ FieldsOf("child") = {"rootToken", "peer"}
  /\ FieldsOf("voteweighting") = {"owner", "ve"} /\ FieldsOf("fxgovernor") = {"sourceGovernor"}
  /\ FieldsOf("optimism") = {"sourceGovernor"} /\ FieldsOf("mediator") = {"sourceGovernor"}
BY DEF FieldsOf

LEMMA ScriptsBuild ==
  ASSUME NEW n \in Recorders \cup {28}
  PROVE  /\ n \in 1 .. 29 /\ n # 20 /\ KindOf(Order[n]) # "none" /\ KindOf(Order[n]) \in Kinds
         /\ RecordedAt(n) > BuiltAt(Order[n]) /\ NameAt(n) \in GlobalNames
         /\ n # 28 => RecordedAt(n) \in 1 .. Lengths[n] /\ n \in 1 .. 27
<1>1. n \in 1 .. 29 /\ n # 20
  BY DEF Recorders
<1>2. KindOf(Order[n]) # "none" /\ KindOf(Order[n]) \in Kinds
  BY KindsAt DEF Recorders, Kinds
<1>3. RecordedAt(n) > BuiltAt(Order[n])
  BY OrderIs DEF Recorders, RecordedAt, BuiltAt
<1>4. NameAt(n) \in GlobalNames
  BY DEF Recorders, NameAt, GlobalNames
<1>5. n # 28 => RecordedAt(n) \in 1 .. Lengths[n] /\ n \in 1 .. 27
  BY DEF Recorders, RecordedAt, Lengths
<1> QED
  BY <1>1, <1>2, <1>3, <1>4, <1>5

\* The names that come later are built on names that do not change any more.
LEMMA EarlierNames ==
  ASSUME RunsInv, GlobalsInv, [Next]_vars
  PROVE  /\ next # 1 => globals'["deploymentFactory"] = globals["deploymentFactory"]
         /\ next # 2 => globals'["olasAddress"] = globals["olasAddress"]
         /\ next # 3 => globals'["timelockAddress"] = globals["timelockAddress"]
         /\ next # 4 => globals'["veOLASAddress"] = globals["veOLASAddress"]
         /\ next # 6 => globals'["buOLASAddress"] = globals["buOLASAddress"]
         /\ next # 9 => globals'["wveOLASAddress"] = globals["wveOLASAddress"]
         /\ next # 10 => globals'["governorTwoAddress"] = globals["governorTwoAddress"]
         /\ next # 12 => globals'["bridgedERC20Address"] = globals["bridgedERC20Address"]
         /\ next # 13 => globals'["fxERC20ChildTunnelAddress"] = globals["fxERC20ChildTunnelAddress"]
         /\ next # 14 => globals'["fxERC20RootTunnelAddress"] = globals["fxERC20RootTunnelAddress"]
         /\ next # 17 => globals'["voteWeightingAddress"] = globals["voteWeightingAddress"]
         /\ next # 5 /\ next # 22 => globals'["governorAddress"] = globals["governorAddress"]
         /\ next # 11 /\ next # 23 => globals'["guardCMAddress"] = globals["guardCMAddress"]
         /\ next # 28 => globals'["homeMediatorAddress"] = globals["homeMediatorAddress"]
<1>1. next \in 1 .. 30
  BY DEF RunsInv
<1>2. /\ NameAt(next) = "deploymentFactory" => next = 1
      /\ NameAt(next) = "olasAddress" => next = 2
      /\ NameAt(next) = "timelockAddress" => next = 3
      /\ NameAt(next) = "veOLASAddress" => next = 4
      /\ NameAt(next) = "buOLASAddress" => next = 6
      /\ NameAt(next) = "wveOLASAddress" => next = 9
      /\ NameAt(next) = "governorTwoAddress" => next = 10
      /\ NameAt(next) = "bridgedERC20Address" => next = 12
      /\ NameAt(next) = "fxERC20ChildTunnelAddress" => next = 13
      /\ NameAt(next) = "fxERC20RootTunnelAddress" => next = 14
      /\ NameAt(next) = "voteWeightingAddress" => next = 17
      /\ NameAt(next) = "governorAddress" => next = 5 \/ next = 22
      /\ NameAt(next) = "guardCMAddress" => next = 11 \/ next = 23
      /\ NameAt(next) = "homeMediatorAddress" => next = 28
  BY <1>1 DEF NameAt
<1>3. \A name \in GlobalNames : NameAt(next) # name => globals'[name] = globals[name]
  BY NameStays
<1> QED
  BY <1>2, <1>3 DEF GlobalNames

LEMMA WiringStays ==
  ASSUME RunsInv, GlobalsInv, [Next]_vars, NEW n \in 1 .. 29, n # 20, next >= n
  PROVE  Wiring(Order[n])' = Wiring(Order[n])
<1>1. /\ n >= 4 => globals'.olasAddress = globals.olasAddress /\ globals'.timelockAddress = globals.timelockAddress
      /\ n >= 9 => globals'.veOLASAddress = globals.veOLASAddress
      /\ n >= 13 => globals'.bridgedERC20Address = globals.bridgedERC20Address
      /\ n >= 22 => globals'.wveOLASAddress = globals.wveOLASAddress
      /\ n >= 23 => globals'.governorAddress = globals.governorAddress
  BY EarlierNames DEF RunsInv
<1>2. Order[n]' = Order[n]
  BY DEF Order
<1>3. CASE n \in {4, 6, 9, 13, 14, 17, 22, 23, 26, 27, 28}
  <2>1. CASE n = 4
    BY <1>1, <2>1, OrderIs DEF Wiring, g
  <2>2. CASE n = 6
    BY <1>1, <2>2, OrderIs DEF Wiring, g
  <2>3. CASE n = 9
    BY <1>1, <2>3, OrderIs DEF Wiring, g
  <2>4. CASE n = 13
    BY <1>1, <2>4, OrderIs DEF Wiring, g
  <2>5. CASE n = 14
    BY <1>1, <2>5, OrderIs DEF Wiring, g
  <2>6. CASE n = 17
    BY <1>1, <2>6, OrderIs DEF Wiring, g
  <2>7. CASE n = 22
    BY <1>1, <2>7, OrderIs DEF Wiring, g
  <2>8. CASE n = 23
    BY <1>1, <2>8, OrderIs DEF Wiring, g
  <2>9. CASE n = 26
    BY <1>1, <2>9, OrderIs DEF Wiring, g
  <2>10. CASE n = 27
    BY <1>1, <2>10, OrderIs DEF Wiring, g
  <2>11. CASE n = 28
    BY <1>1, <2>11, OrderIs DEF Wiring, g
  <2> QED BY <1>3, <2>1, <2>2, <2>3, <2>4, <2>5, <2>6, <2>7, <2>8, <2>9, <2>10, <2>11
<1>4. CASE n \notin {4, 6, 9, 13, 14, 17, 22, 23, 26, 27, 28}
  <2>1. Wiring(Order[n]) = << >>
    BY <1>4, WiringAt
  <2>2. Wiring(Order[n])' = << >>
    BY <1>2, <1>4, UnwiredAt DEF Wiring
  <2> QED BY <2>1, <2>2
<1> QED
  BY <1>3, <1>4

LEMMA WiringFields ==
  ASSUME NEW n \in 1 .. 29, n # 20
  PROVE  /\ DOMAIN Wiring(Order[n]) \subseteq FieldsOf(KindOf(Order[n]))
         /\ DOMAIN Wiring(Order[n]) \cap Changing \subseteq {"owner"}
         /\ n # 23 => "owner" \notin DOMAIN Wiring(Order[n])
         /\ n = 23 => Wiring(Order[n]).owner = g.timelockAddress
<1>1. DOMAIN Wiring(Order[n]) \subseteq FieldsOf(KindOf(Order[n]))
  <2>1. /\ DOMAIN Wiring(Order[4]) = {"token"} /\ DOMAIN Wiring(Order[6]) = {"token"}
        /\ DOMAIN Wiring(Order[9]) = {"ve", "token"} /\ DOMAIN Wiring(Order[22]) = {"token", "timelock"}
        /\ DOMAIN Wiring(Order[23]) = {"owner", "multisig", "governor"}
    BY WiringAt
  <2>2. /\ DOMAIN Wiring(Order[13]) = {"rootToken"} /\ DOMAIN Wiring(Order[14]) = {"rootToken"}
        /\ DOMAIN Wiring(Order[17]) = {"ve"} /\ DOMAIN Wiring(Order[26]) = {"sourceGovernor"}
        /\ DOMAIN Wiring(Order[27]) = {"sourceGovernor"} /\ DOMAIN Wiring(Order[28]) = {"sourceGovernor"}
    BY WiringAt
  <2>3. n \notin {4, 6, 9, 13, 14, 17, 22, 23, 26, 27, 28} => DOMAIN Wiring(Order[n]) = {}
    BY WiringAt
  <2>4. /\ FieldsOf(KindOf(Order[4])) = {"token"} /\ FieldsOf(KindOf(Order[6])) = {"owner", "token"}
        /\ FieldsOf(KindOf(Order[9])) = {"ve", "token"} /\ FieldsOf(KindOf(Order[22])) = {"token", "timelock"}
        /\ FieldsOf(KindOf(Order[23])) = {"owner", "multisig", "governor", "bridges"}
    BY KindsAt, FieldsAre
  <2>5. /\ FieldsOf(KindOf(Order[13])) = {"rootToken", "peer"} /\ FieldsOf(KindOf(Order[14])) = {"rootToken", "peer"}
        /\ FieldsOf(KindOf(Order[17])) = {"owner", "ve"} /\ FieldsOf(KindOf(Order[26])) = {"sourceGovernor"}
        /\ FieldsOf(KindOf(Order[27])) = {"sourceGovernor"} /\ FieldsOf(KindOf(Order[28])) = {"sourceGovernor"}
    BY KindsAt, FieldsAre
  <2> QED BY <2>1, <2>2, <2>3, <2>4, <2>5
<1>2. DOMAIN Wiring(Order[n]) \cap Changing \subseteq {"owner"}
  <2>1. DOMAIN Wiring(Order[n]) \subseteq {"token", "ve", "timelock", "owner", "multisig", "governor", "rootToken", "sourceGovernor"}
    BY WiringAt
  <2> QED BY <2>1 DEF Changing
<1>3. n # 23 => "owner" \notin DOMAIN Wiring(Order[n])
  BY WiringAt
<1>4. n = 23 => Wiring(Order[n]).owner = g.timelockAddress
  BY WiringAt
<1> QED
  BY <1>1, <1>2, <1>3, <1>4

\* A contract stays wired as it was built.
LEMMA MatchesStays ==
  ASSUME Core, [Next]_vars, NEW n \in 1 .. 29, n # 20, next >= n,
         NEW a, a[1] = KindOf(Order[n]), Matches(a, Wiring(Order[n]))
  PROVE  /\ Matches(a, Wiring(Order[n]))' /\ KindOf(Order[n])' = KindOf(Order[n])
         /\ chain' # chain => Stays(a)
<1>1. a \in DOMAIN chain /\ \A f \in DOMAIN Wiring(Order[n]) : chain[a][f] = Wiring(Order[n])[f]
  BY DEF Matches
<1>2. Stays(a) /\ DOMAIN chain[a] = FieldsOf(KindOf(Order[n]))
  BY <1>1, ContractsStay DEF Core, ContractsInv
<1>3. Wiring(Order[n])' = Wiring(Order[n])
  BY WiringStays DEF Core
<1>4. n = 23 => g.timelockAddress # Deployer
  <2>1. n = 23 => g.timelockAddress \in DOMAIN chain
    <3>1. n = 23 => Past(3, RecordedAt(3)) /\ NameAt(3) = "timelockAddress"
      BY DEF Past, NameAt, Core, RunsInv
    <3> QED BY <3>1 DEF Core, RecordedInv, Recorders, Recorded, Matches
  <2> QED BY <2>1, Accounts DEF Core, ContractsInv
<1>5. ASSUME NEW f \in DOMAIN Wiring(Order[n]) PROVE chain'[a][f] = Wiring(Order[n])[f]
  <2>1. f \in FieldsOf(KindOf(Order[n])) /\ f \in DOMAIN chain[a] /\ chain[a][f] = Wiring(Order[n])[f]
    BY <1>1, <1>2, WiringFields
  <2>2. CASE f \notin Changing
    BY <1>2, <2>1, <2>2 DEF Stays
  <2>3. CASE f \in Changing
    <3>1. f = "owner" /\ n = 23 /\ chain[a].owner # Deployer
      BY <1>4, <2>1, <2>3, WiringFields
    <3> QED BY <1>2, <2>1, <3>1 DEF Stays
  <2> QED BY <2>2, <2>3
<1>6. KindOf(Order[n])' = KindOf(Order[n])
  BY DEF KindOf, Kind, Order
<1> QED
  BY <1>2, <1>3, <1>5, <1>6 DEF Matches, Stays

LEMMA RecordsOnce ==
  ASSUME Core, [Next]_vars, NEW n \in Recorders \cup {28}, next >= n,
         next = n /\ script # "none" => pc > RecordedAt(n), n \notin {5, 11}
  PROVE  globals'[NameAt(n)] = globals[NameAt(n)]
<1>1. n \in 1 .. 29 /\ NameAt(n) \in GlobalNames
  BY ScriptsBuild
<1>2. next \in 1 .. 30 /\ pc \in Nat
  BY DEF Core, RunsInv
<1>3. ASSUME NameAt(next) = NameAt(n) PROVE next = n
  BY <1>1, <1>2, <1>3 DEF NameAt, Recorders
<1>4. RecordedAt(n) \in Nat
  BY DEF RecordedAt
<1> QED
  BY <1>1, <1>2, <1>3, <1>4, NameStays DEF Core

LEMMA RecordedStays ==
  ASSUME Core, [Next]_vars, NEW n \in Recorders \cup {28}, n \notin {5, 11}, Recorded(n), next >= n,
         next = n /\ script # "none" => pc > RecordedAt(n)
  PROVE  Recorded(n)'
<1>1. globals'[NameAt(n)] = globals[NameAt(n)]
  BY RecordsOnce
<1>2. n \in 1 .. 29 /\ n # 20
  BY ScriptsBuild
<1>3. PICK a : a = globals[NameAt(n)]
  OBVIOUS
<1>4. a[1] = KindOf(Order[n]) /\ Matches(a, Wiring(Order[n]))
  BY <1>3 DEF Recorded, g
<1>5. Matches(a, Wiring(Order[n]))' /\ KindOf(Order[n])' = KindOf(Order[n])
  BY <1>2, <1>4, MatchesStays
<1>6. globals'[NameAt(n)] = a /\ NameAt(n)' = NameAt(n)
  BY <1>1, <1>3 DEF NameAt
<1> QED
  BY <1>4, <1>5, <1>6 DEF Recorded, g, Matches

LEMMA RecordsBuilt ==
  ASSUME Core, OpStep, NEW n \in Recorders \cup {28}, next = n, script # "none", pc = RecordedAt(n), RecordAddress
  PROVE  Recorded(n)' /\ globals'[NameAt(n)] = this
<1>1. n \in 1 .. 29 /\ n # 20 /\ KindOf(Order[n]) # "none" /\ RecordedAt(n) > BuiltAt(Order[n])
  BY ScriptsBuild
<1>2. script = Order[n]
  BY <1>1, RunningAt DEF Core
<1>3. this[1] = KindOf(Order[n]) /\ Matches(this, Wiring(Order[n]))
  BY <1>1, <1>2 DEF Core, ThisInv
<1>4. globals'[NameAt(n)] = this /\ \A name \in GlobalNames \ {NameAt(n)} : globals'[name] = globals[name]
  BY RecordsThis DEF Core
<1>5. chain' = chain /\ NameAt(n)' = NameAt(n) /\ KindOf(Order[n])' = KindOf(Order[n])
  BY DEF RecordAddress, chainVars, NameAt, KindOf, Kind, Order
<1>6. [Next]_vars
  BY DEF Next, ScriptStep
<1>7. Wiring(Order[n])' = Wiring(Order[n])
  BY <1>1, <1>6, WiringStays DEF Core
<1>8. PICK a : a = this
  OBVIOUS
<1>9. PICK W : W = Wiring(Order[n])
  OBVIOUS
<1>10. a \in DOMAIN chain' /\ \A f \in DOMAIN W : chain'[a][f] = W[f]
  BY <1>3, <1>5, <1>8, <1>9 DEF Matches
<1>11. Wiring(Order[n])' = W /\ globals'[NameAt(n)] = a
  BY <1>4, <1>7, <1>8, <1>9
<1> QED
  BY <1>3, <1>4, <1>5, <1>8, <1>10, <1>11 DEF Recorded, Matches, g

LEMMA RecordedStep ==
  ASSUME Core, [Next]_vars, NEW n \in Recorders, Past(n, RecordedAt(n))'
  PROVE  Recorded(n)'
<1>1. n \in 1 .. 27 /\ n # 20 /\ RecordedAt(n) \in 1 .. Lengths[n]
  BY ScriptsBuild DEF Recorders
<1>0. RecordedAt(n) \in Nat /\ next \in 1 .. 30 /\ pc \in Nat /\ RunsInv /\ RecordedAt(n)' = RecordedAt(n)
  BY DEF RecordedAt, Core, RunsInv
<1>2. \/ Past(n, RecordedAt(n))
      \/ OpStep /\ next = n /\ script # "none" /\ pc = RecordedAt(n)
  BY <1>0, <1>1, PastStep DEF Past
<1>3. CASE OpStep /\ next = n /\ script # "none" /\ pc = RecordedAt(n)
  <2>1. Rows /\ Running
    BY <1>0, <1>3, StepTable, OpAdvances
  <2>2. <<n, RecordedAt(n)>> \in RecordPlaces
    BY DEF Recorders, RecordedAt, RecordPlaces
  <2>3. Current.op = "record"
    BY <1>3, <2>1, <2>2 DEF Rows, Places
  <2>4. RecordAddress
    BY <1>3, <2>3, OpOf
  <2> QED BY <1>3, <2>4, RecordsBuilt
<1>4. CASE Past(n, RecordedAt(n))
  <2>1. Recorded(n) /\ next >= n /\ (next = n /\ script # "none" => pc > RecordedAt(n))
    BY <1>0, <1>1, <1>4 DEF Core, RecordedInv, Past
  <2>2. CASE n \notin {5, 11}
    BY <2>1, <2>2, RecordedStays
  <2>3. CASE n = 5
    <3>1. NameAt(n) = "governorAddress" /\ KindOf(Order[n]) = "governor" /\ KindOf(Order[n])' = "governor"
      BY <2>3, OrderIs DEF NameAt, KindOf, Kind
    <3>2. Wiring(Order[n]) = << >> /\ Wiring(Order[n])' = << >>
      BY <2>3, OrderIs DEF Wiring
    <3>3. NameAt(n)' = NameAt(n)
      BY DEF NameAt
    <3>4. CASE globals'[NameAt(n)] = globals[NameAt(n)]
      <4>1. g[NameAt(n)] \in DOMAIN chain /\ g[NameAt(n)][1] = "governor"
        BY <2>1, <3>1 DEF Recorded, Matches
      <4>2. g[NameAt(n)] \in DOMAIN chain'
        BY <4>1, ContractsStay DEF Stays, Core
      <4> QED BY <3>1, <3>2, <3>3, <3>4, <4>1, <4>2 DEF Recorded, Matches, g
    <3>5. CASE globals'[NameAt(n)] # globals[NameAt(n)]
      <4>1. RecordAddress
        BY <3>5, NamesWait
      <4>2. script # "none" /\ pc = RecordedAt(next) /\ NameAt(next) = "governorAddress"
        BY <3>1, <3>5, NameStays DEF GlobalNames, Core
      <4>3. next = 22
        BY <1>0, <2>1, <2>3, <4>2 DEF NameAt
      <4>4. Recorded(22)' /\ NameAt(22) = "governorAddress" /\ NameAt(22)' = "governorAddress" /\ KindOf(Order[22])' = "governor"
        BY <4>1, <4>2, <4>3, RecordsBuilt, OrderIs DEF OpStep, Recorders, NameAt, KindOf, Kind
      <4> QED BY <3>1, <3>2, <3>3, <4>4 DEF Recorded, Matches
    <3> QED BY <3>4, <3>5
  <2>4. CASE n = 11
    <3>1. NameAt(n) = "guardCMAddress" /\ KindOf(Order[n]) = "guard" /\ KindOf(Order[n])' = "guard"
      BY <2>4, OrderIs DEF NameAt, KindOf, Kind
    <3>2. Wiring(Order[n]) = << >> /\ Wiring(Order[n])' = << >>
      BY <2>4, OrderIs DEF Wiring
    <3>3. NameAt(n)' = NameAt(n)
      BY DEF NameAt
    <3>4. CASE globals'[NameAt(n)] = globals[NameAt(n)]
      <4>1. g[NameAt(n)] \in DOMAIN chain /\ g[NameAt(n)][1] = "guard"
        BY <2>1, <3>1 DEF Recorded, Matches
      <4>2. g[NameAt(n)] \in DOMAIN chain'
        BY <4>1, ContractsStay DEF Stays, Core
      <4> QED BY <3>1, <3>2, <3>3, <3>4, <4>1, <4>2 DEF Recorded, Matches, g
    <3>5. CASE globals'[NameAt(n)] # globals[NameAt(n)]
      <4>1. RecordAddress
        BY <3>5, NamesWait
      <4>2. script # "none" /\ pc = RecordedAt(next) /\ NameAt(next) = "guardCMAddress"
        BY <3>1, <3>5, NameStays DEF GlobalNames, Core
      <4>3. next = 23
        BY <1>0, <2>1, <2>4, <4>2 DEF NameAt
      <4>4. Recorded(23)' /\ NameAt(23) = "guardCMAddress" /\ NameAt(23)' = "guardCMAddress" /\ KindOf(Order[23])' = "guard"
        BY <4>1, <4>2, <4>3, RecordsBuilt, OrderIs DEF OpStep, Recorders, NameAt, KindOf, Kind
      <4> QED BY <3>1, <3>2, <3>3, <4>4 DEF Recorded, Matches
    <3> QED BY <3>4, <3>5
  <2> QED BY <2>2, <2>3, <2>4
<1> QED
  BY <1>2, <1>3, <1>4

\* RecordedInv is kept.
LEMMA RecordedInvStep ==
  ASSUME Core, [Next]_vars
  PROVE  RecordedInv'
<1>1. \A n \in Recorders : Past(n, RecordedAt(n))' => Recorded(n)'
  BY RecordedStep
<1>3. ASSUME (g.homeMediatorAddress # NoAddress)' PROVE (next >= 28 /\ Recorded(28))'
  <2>1. NameAt(28) = "homeMediatorAddress" /\ RecordedAt(28) = 3
    BY DEF NameAt, RecordedAt
  <2>2. CASE RecordAddress /\ next = 28
    <3>1. script # "none" /\ pc = RecordedAt(28)
      BY <2>2, RecordsThis DEF Core
    <3>2. Recorded(28)'
      BY <2>2, <3>1, RecordsBuilt DEF OpStep
    <3> QED BY <2>2, <3>2 DEF RecordAddress, Advance
  <2>3. CASE ~(RecordAddress /\ next = 28)
    <3>1. globals'["homeMediatorAddress"] = globals["homeMediatorAddress"]
      BY <2>3, NamesWait, EarlierNames DEF Core
    <3>2. next >= 28 /\ Recorded(28)
      BY <1>3, <3>1 DEF Core, RecordedInv, g
    <3>3. next' >= 28
      <4>1. CASE StartOver
        BY <3>2, <4>1, StartOverGoesBack DEF Core, RunsInv
      <4>2. CASE next' = next \/ next' = next + 1
        BY <3>2, <4>2 DEF Core, RunsInv
      <4> QED
        BY <4>1, <4>2 DEF Next, ScriptStep, OpStep, Start, DeployContract, SendTransaction, Check, RecordAddress, Advance,
             ExecuteProposal, Finish, ReturnsEarly, ExitZero, Throws, Breaks, Exit, Rerun, MineOne, vars
    <3>4. Recorded(28)'
      <4>1. PICK a : a = globals["homeMediatorAddress"]
        OBVIOUS
      <4>2. a[1] = KindOf(Order[28]) /\ Matches(a, Wiring(Order[28]))
        BY <2>1, <3>2, <4>1 DEF Recorded, g
      <4>3. Matches(a, Wiring(Order[28]))' /\ KindOf(Order[28])' = KindOf(Order[28])
        BY <3>2, <4>2, MatchesStays
      <4>4. globals'[NameAt(28)] = a /\ NameAt(28)' = NameAt(28)
        BY <2>1, <3>1, <4>1 DEF NameAt
      <4> QED BY <4>2, <4>3, <4>4 DEF Recorded, g, Matches
    <3> QED BY <3>3, <3>4
  <2> QED BY <2>2, <2>3
<1> QED
  BY <1>1, <1>3 DEF RecordedInv, RecordedAt

\* The next script finds what the earlier ones have written down.
LEMMA Earlier ==
  ASSUME Core, NEW n \in Recorders \ {22, 23}, next > n
  PROVE  /\ Recorded(n) /\ g[NameAt(n)] \in DOMAIN chain /\ g[NameAt(n)] \in Address
         /\ g[NameAt(n)][1] = KindOf(Order[n])
BY DEF Core, RecordedInv, Past, Recorded, Matches, ContractsInv

LEMMA EarlierAddresses ==
  ASSUME Core
  PROVE  /\ next > 1 => g.deploymentFactory \in DOMAIN chain /\ g.deploymentFactory \in {"factory"} \X Nat
         /\ next > 2 => g.olasAddress \in DOMAIN chain /\ g.olasAddress \in {"olas"} \X Nat
         /\ next > 3 => g.timelockAddress \in DOMAIN chain /\ g.timelockAddress \in {"timelock"} \X Nat
         /\ next > 5 => g.governorAddress \in DOMAIN chain /\ g.governorAddress \in {"governor"} \X Nat
         /\ next > 6 => g.buOLASAddress \in DOMAIN chain /\ g.buOLASAddress \in {"buolas"} \X Nat
         /\ next > 10 => g.governorTwoAddress \in DOMAIN chain /\ g.governorTwoAddress \in {"governor"} \X Nat
         /\ next > 11 => g.guardCMAddress \in DOMAIN chain /\ g.guardCMAddress \in {"guard"} \X Nat
         /\ next > 12 => g.bridgedERC20Address \in DOMAIN chain /\ g.bridgedERC20Address \in {"bridged"} \X Nat
         /\ next > 13 => g.fxERC20ChildTunnelAddress \in DOMAIN chain /\ g.fxERC20ChildTunnelAddress \in {"child"} \X Nat
         /\ next > 14 => g.fxERC20RootTunnelAddress \in DOMAIN chain /\ g.fxERC20RootTunnelAddress \in {"root"} \X Nat
         /\ next > 17 => g.voteWeightingAddress \in DOMAIN chain /\ g.voteWeightingAddress \in {"voteweighting"} \X Nat
<1>1. \A a \in Address, k \in Kinds : a[1] = k => a \in {k} \X Nat
  <2> SUFFICES ASSUME NEW kind \in Kinds, NEW n \in Nat, NEW k \in Kinds, <<kind, n>>[1] = k
               PROVE  <<kind, n>> \in {k} \X Nat
    BY DEF Address
  <2> QED BY Pair
<1>2. \A n \in Recorders \ {22, 23} : next > n =>
        g[NameAt(n)] \in DOMAIN chain /\ g[NameAt(n)] \in {KindOf(Order[n])} \X Nat
  BY <1>1, Earlier, ScriptsBuild
<1>3. /\ NameAt(1) = "deploymentFactory" /\ NameAt(2) = "olasAddress" /\ NameAt(3) = "timelockAddress"
      /\ NameAt(5) = "governorAddress" /\ NameAt(6) = "buOLASAddress" /\ NameAt(10) = "governorTwoAddress"
      /\ NameAt(11) = "guardCMAddress" /\ NameAt(12) = "bridgedERC20Address" /\ NameAt(13) = "fxERC20ChildTunnelAddress"
      /\ NameAt(14) = "fxERC20RootTunnelAddress" /\ NameAt(17) = "voteWeightingAddress"
  BY DEF NameAt
<1> QED
  BY <1>2, <1>3, KindsAt DEF Recorders

(***************************************************************************)
(* What is submitted, and the contract of the script that runs             *)
(***************************************************************************)

LEMMA SentTyped ==
  ASSUME Core, SendTransaction
  PROVE  Current.net \in Networks /\ Current.tx \in Txs(Current.net)
<1>1. Running /\ script # "none" /\ Current.op = "send" /\ RunsInv
  BY DEF SendTransaction, Running, Core
<1>2. Submits
  BY <1>1, StepTable DEF Rows
<1>3. \A k \in Kinds : {k} \X Nat \subseteq Address
  BY DEF Address
<1>4. KindOf(script) # "none" => this \in Address /\ this[1] = KindOf(script)
  BY <1>1 DEF Core, ThisInv
<1>5. next # 20 => script = Order[next]
  BY <1>1, RunningAt
<1>6. \A a \in Address, k \in Kinds : a[1] = k => a \in {k} \X Nat
  <2> SUFFICES ASSUME NEW kind \in Kinds, NEW n \in Nat, NEW k \in Kinds, <<kind, n>>[1] = k
               PROVE  <<kind, n>> \in {k} \X Nat
    BY DEF Address
  <2> QED BY Pair
<1>7. Networks = {"L1", "L2"} /\ Txs("L1") = L1Txs /\ Txs("L2") = L2Txs
  BY DEF Networks, Txs
<1>8. /\ next = 2 => this \in {"olas"} \X Nat
      /\ next = 4 => this \in {"veolas"} \X Nat
      /\ next = 5 => this \in {"governor"} \X Nat
  BY <1>4, <1>5, <1>6, KindsAt DEF Kinds
<1>9. CASE Sent(2, 1, "L1", Create(g.deploymentFactory, "olasAddress", this, [owner |-> Deployer, minter |-> Deployer, supply |-> 0]))
  BY <1>3, <1>7, <1>8, <1>9, EarlierAddresses DEF Sent, Create, L1Txs, Creations, Kinds
<1>10. CASE Sent(4, 1, "L1", Create(g.deploymentFactory, "veOLASAddress", this, [token |-> g.olasAddress]))
  BY <1>3, <1>7, <1>8, <1>10, EarlierAddresses DEF Sent, Create, L1Txs, Creations, Kinds
<1>11. CASE \E i \in 3 .. 6, role \in Roles : Sent(5, i, "L1", GrantRole(g.timelockAddress, role, this))
  BY <1>3, <1>7, <1>8, <1>11, EarlierAddresses DEF Sent, GrantRole, L1Txs, Kinds
<1>12. CASE \E i \in 1 .. 3, amount \in {timelockSupply, saleSupply, valorySupply} : Sent(7, i, "L1", Mint(g.olasAddress, amount))
  BY <1>3, <1>7, <1>12, EarlierAddresses, SuppliesAssumption DEF Sent, Mint, L1Txs, Kinds
<1>13. CASE Sent(8, 1, "L1", ChangeMinter(g.olasAddress, g.timelockAddress))
  BY <1>3, <1>7, <1>13, EarlierAddresses DEF Sent, ChangeMinter, L1Txs, Kinds
<1>14. CASE \/ Sent(8, 2, "L1", ChangeOwner(g.olasAddress, g.timelockAddress))
            \/ Sent(8, 3, "L1", ChangeOwner(g.buOLASAddress, g.timelockAddress))
            \/ Sent(8, 9, "L1", ChangeOwner(g.deploymentFactory, DEAD))
  BY <1>3, <1>7, <1>14, EarlierAddresses DEF Sent, ChangeOwner, L1Txs, Kinds
<1>15. CASE Sent(8, 7, "L1", RenounceRole(g.timelockAddress, "admin"))
  BY <1>3, <1>7, <1>15, EarlierAddresses DEF Sent, RenounceRole, L1Txs, Kinds
<1>16. CASE \/ Sent(15, 1, "L1", ChangeOwner(g.bridgedERC20Address, g.fxERC20RootTunnelAddress))
            \/ Sent(25, 2, "L1", ChangeOwner(g.voteWeightingAddress, g.timelockAddress))
  BY <1>3, <1>7, <1>16, EarlierAddresses DEF Sent, ChangeOwner, L1Txs, Kinds
<1>17. CASE Sent(15, 2, "L1", SetTunnel(g.fxERC20RootTunnelAddress, g.fxERC20ChildTunnelAddress))
  BY <1>7, <1>17, EarlierAddresses DEF Sent, SetTunnel, L1Txs
<1>18. CASE Sent(16, 1, "L2", SetTunnel(g.fxERC20ChildTunnelAddress, g.fxERC20RootTunnelAddress))
  <2>1. g.fxERC20ChildTunnelAddress \in {"child"} \X Nat /\ g.fxERC20RootTunnelAddress \in {"root"} \X Nat
    BY <1>18, EarlierAddresses DEF Sent
  <2>2. SetTunnel(g.fxERC20ChildTunnelAddress, g.fxERC20RootTunnelAddress) \in L2Txs
    BY <2>1 DEF SetTunnel, L2Txs
  <2> QED BY <1>7, <1>18, <2>2 DEF Sent
<1> QED
  BY <1>2, <1>9, <1>10, <1>11, <1>12, <1>13, <1>14, <1>15, <1>16, <1>17, <1>18 DEF Submits

Submitted(net, tx) ==
  /\ net \in Networks /\ tx \in Txs(net)
  /\ Flight(net)' = Flight(net) \cup {tx}
  /\ \A other \in Networks \ {net} : Flight(other)' = Flight(other)

LEMMA SentTx ==
  ASSUME Core, SendTransaction
  PROVE  PendingInv' /\ \E net, tx : net = Current.net /\ tx = Current.tx /\ Submitted(net, tx)
<1>1. PICK net, tx : net = Current.net /\ tx = Current.tx
  OBVIOUS
<1>2. net \in Networks /\ tx \in Txs(net) /\ pending' = [pending EXCEPT ![net] = Append(@, tx)]
  BY <1>1, SentTyped DEF SendTransaction
<1>3. DOMAIN pending = Networks /\ \A n \in Networks : pending[n] \in Seq(Txs(n))
  BY PendingTyped DEF Core
<1>4. /\ DOMAIN pending' = Networks /\ pending'[net] = Append(pending[net], tx)
      /\ \A other \in Networks \ {net} : pending'[other] = pending[other]
  BY <1>2, <1>3
<1>5. /\ Append(pending[net], tx) \in Seq(Txs(net))
      /\ {Append(pending[net], tx)[i] : i \in 1 .. Len(Append(pending[net], tx))}
           = {pending[net][i] : i \in 1 .. Len(pending[net])} \cup {tx}
  BY <1>2, <1>3, AppendAdds
<1>6. Flight(net)' = Flight(net) \cup {tx}
  BY <1>4, <1>5 DEF Flight
<1>7. \A other \in Networks \ {net} : Flight(other)' = Flight(other)
  BY <1>4 DEF Flight
<1>8. \A n \in Networks : pending'[n] \in Seq(Txs(n))
  BY <1>3, <1>4, <1>5
<1>9. PendingInv'
  BY <1>4, <1>8 DEF PendingInv, Networks, Txs
<1> QED
  BY <1>1, <1>2, <1>6, <1>7, <1>9 DEF Submitted

LEMMA PendingStep ==
  ASSUME Core, [Next]_vars
  PROVE  PendingInv'
<1>1. CASE MineOne
  BY <1>1, MinedTx DEF MineOne, Core
<1>2. CASE SendTransaction
  BY <1>2, SentTx
<1>3. CASE pending' = pending
  BY <1>3 DEF Core, PendingInv
<1> QED
  BY <1>1, <1>2, <1>3, PendingWaits

LEMMA ThisBuilt ==
  ASSUME Core, OpStep, script # "none", KindOf(script) # "none", pc = BuiltAt(script)
  PROVE  Matches(this, Wiring(script))'
<1>1. Rows /\ Running /\ Advance
  BY StepTable, OpAdvances DEF Core
<1>2. script' = script /\ this' = this
  BY <1>1 DEF Advance
<1>3. [Next]_vars
  BY DEF OpStep, Next, ScriptStep
<1>4. PICK n \in 1 .. 29 : n = next
  BY RunningAt DEF Core
<1>5. n # 20 /\ script = Order[n]
  <2>1. n = 20 => script \in {"P01", "P02"}
    BY <1>4, RunningAt, OrderIs DEF Core
  <2>2. KindOf("P01") = "none" /\ KindOf("P02") = "none"
    BY DEF KindOf, Kind
  <2> QED BY <1>4, <2>1, <2>2, RunningAt DEF Core
<1>6. Wiring(script)' = Wiring(script)
  <2>1. Wiring(Order[n])' = Wiring(Order[n])
    BY <1>3, <1>4, <1>5, WiringStays DEF Core
  <2>2. Order[n]' = Order[n]
    BY DEF Order
  <2> QED BY <1>2, <1>5, <2>1, <2>2 DEF Wiring
<1>7. CASE Kind(script) # "none"
  <2>1. DeployContract
    BY <1>1, <1>7, OpOf DEF Rows, Places
  <2>2. Deploys /\ this \notin DOMAIN chain
    BY <2>1, DeploysNew DEF Core
  <2>3. this \in DOMAIN chain' /\ chain'[this] = Current.fields
    BY <2>1, <2>2, DeployOn
  <2>4. \A f \in DOMAIN Wiring(script) : chain'[this][f] = Wiring(script)[f]
    BY <2>2, <2>3 DEF Deploys
  <2> QED BY <1>2, <1>6, <2>3, <2>4 DEF Matches
<1>8. CASE Kind(script) = "none"
  <2>1. next \in {2, 4} /\ script \in {"04", "07"} /\ BuiltAt(script) = 3
    BY <1>4, <1>5, <1>8, OrderIs DEF KindOf, BuiltAt
  <2>2. Current = IF next = 2 THEN Expect(this, [owner |-> Deployer]) ELSE Expect(this, [token |-> g.olasAddress])
    BY <1>1, <2>1 DEF Rows, Places
  <2>3. Check /\ Satisfied(Current) /\ Current.op = "expect" /\ Current.at = this
    BY <2>2, OpOf DEF Expect
  <2>4. Matches(this, Current.fields)
    BY <2>3 DEF Satisfied
  <2>5. Wiring(script) = << >> \/ Wiring(script) = Current.fields
    BY <1>4, <1>5, <2>1, <2>2, WiringAt DEF Expect
  <2>6. Matches(this, Wiring(script))
    BY <2>4, <2>5 DEF Matches
  <2>7. chain' = chain
    BY <2>3 DEF Check, chainVars
  <2> QED BY <1>2, <1>6, <2>6, <2>7 DEF Matches
<1> QED
  BY <1>7, <1>8

LEMMA ThisStep ==
  ASSUME Core, [Next]_vars
  PROVE  ThisInv'
<1>1. CASE OpStep \/ MineOne \/ UNCHANGED vars
  <2>1. SUFFICES ASSUME script' # "none" PROVE ThisInv'
    BY DEF ThisInv
  <2>2. script' = script /\ this' = this /\ next' = next /\ pc \in Nat /\ pc' \in {pc, pc + 1} /\ (pc' # pc => OpStep)
    BY <1>1, OpAdvances DEF Advance, MineOne, vars, scriptVars, Core, RunsInv
  <2>3. PICK s : s = script /\ s # "none" /\ script' = s
    BY <2>1, <2>2
  <2>4. BuiltAt(s) \in {1, 2, 3} /\ BuiltAt(s) \in Nat
    BY DEF BuiltAt
  <2>5. KindOf(s) # "none" => this' \in Address /\ this'[1] = KindOf(s)
    BY <2>2, <2>3 DEF Core, ThisInv
  <2>6. ASSUME Kind(s) # "none", pc' <= BuiltAt(s) PROVE this' = Fresh(Kind(s))'
    <3>1. pc <= BuiltAt(s) /\ this = Fresh(Kind(s))
      BY <2>2, <2>3, <2>4, <2>6 DEF Core, ThisInv
    <3>2. ~DeployContract
      <4>1. SUFFICES ASSUME DeployContract PROVE FALSE
        OBVIOUS
      <4>2. pc = BuiltAt(s) /\ pc' = pc + 1
        BY <2>3, <4>1, DeploysNew DEF Core, Deploys, DeployContract, Advance
      <4> QED BY <2>2, <2>4, <2>6, <4>2
    <3>3. PICK k \in Kinds : k = Kind(s) /\ k \notin Created
      BY <2>6, KindsAre
    <3>4. Deployed(k)' = Deployed(k)
      BY <3>2, <3>3, CountStays DEF Core
    <3>5. Kind(s)' = k
      BY <3>3 DEF Kind
    <3> QED BY <2>2, <3>1, <3>3, <3>4, <3>5 DEF Fresh
  <2>7. ASSUME KindOf(s) # "none", pc' > BuiltAt(s) PROVE Matches(this, Wiring(script))'
    <3>1. CASE pc > BuiltAt(s)
      <4>1. Matches(this, Wiring(s)) /\ this[1] = KindOf(s)
        BY <2>3, <2>7, <3>1 DEF Core, ThisInv
      <4>2. PICK n \in 1 .. 29 : n = next
        BY <2>3, RunningAt DEF Core
      <4>3. n # 20 /\ s = Order[n]
        <5>1. n = 20 => s \in {"P01", "P02"}
          BY <2>3, <4>2, RunningAt, OrderIs DEF Core
        <5>2. KindOf("P01") = "none" /\ KindOf("P02") = "none"
          BY DEF KindOf, Kind
        <5> QED BY <2>3, <2>7, <4>2, <5>1, <5>2, RunningAt DEF Core
      <4>4. PICK a : a = this
        OBVIOUS
      <4>5. Matches(a, Wiring(Order[n]))'
        BY <4>1, <4>2, <4>3, <4>4, MatchesStays
      <4>6. Order[n]' = Order[n]
        BY DEF Order
      <4> QED BY <2>2, <2>3, <4>3, <4>4, <4>5, <4>6 DEF Matches, Wiring
    <3>2. CASE pc = BuiltAt(s)
      BY <2>2, <2>3, <2>4, <2>7, <3>2, ThisBuilt
    <3> QED BY <2>2, <2>4, <2>7, <3>1, <3>2
  <2> QED BY <2>2, <2>3, <2>5, <2>6, <2>7 DEF ThisInv, KindOf, Kind, BuiltAt
<1>2. CASE Start \/ Rerun
  <2>1. /\ chain' = chain /\ pc' = 1 /\ next' = next /\ globals' = globals
        /\ next \in 1 .. 29 /\ (script' = Order[next] \/ (next = 20 /\ script' = "P01")) /\ this' = NewAddress(script')
    BY <1>2, ScriptBegins DEF Core
  <2>2. PICK s : s = script'
    OBVIOUS
  <2>3. CASE s \in {"04", "07"}
    <3>1. next > 1
      BY <2>1, <2>2, <2>3, OrderIs
    <3>2. PICK n \in Nat : g.deploymentFactory = <<"factory", n>>
      BY <3>1, EarlierAddresses
    <3>3. NewAddress(s) = <<KindOf(s), n>> /\ KindOf(s) \in Kinds
      BY <2>3, <3>2 DEF NewAddress, KindOf, Kinds
    <3>4. this' \in Address /\ this'[1] = KindOf(s)
      BY <2>1, <2>2, <3>3, Pair DEF Address
    <3>5. Kind(s) = "none" /\ BuiltAt(s) = 3
      BY <2>3 DEF Kind, BuiltAt
    <3> QED BY <2>1, <2>2, <3>4, <3>5 DEF ThisInv, Kind, KindOf, BuiltAt
  <2>4. CASE s \notin {"04", "07"}
    <3>1. this' = Fresh(Kind(s))
      BY <2>1, <2>2, <2>4 DEF NewAddress
    <3>2. KindOf(s) = Kind(s)
      BY <2>4 DEF KindOf
    <3>3. Kind(s) # "none" => this' \in Address /\ this'[1] = Kind(s)
      BY <3>1, KindsAre, FreshIsNew DEF Core, Address
    <3>4. Kind(s)' = Kind(s) /\ KindOf(s)' = KindOf(s)
      BY DEF Kind, KindOf
    <3>5. Fresh(Kind(s))' = Fresh(Kind(s))
      BY <2>1, <3>4 DEF Fresh, Deployed
    <3>6. BuiltAt(s) \in {1, 2, 3} /\ BuiltAt(s)' = BuiltAt(s)
      BY DEF BuiltAt
    <3>7. ~(pc' > BuiltAt(s))
      BY <2>1, <3>6
    <3>8. PICK k, b : k = Kind(s) /\ b = BuiltAt(s) /\ k = Kind(s)' /\ k = KindOf(s) /\ k = KindOf(s)' /\ b = BuiltAt(s)'
      BY <3>2, <3>4, <3>6
    <3> QED BY <2>1, <2>2, <3>1, <3>3, <3>5, <3>7, <3>8 DEF ThisInv, Kind, KindOf, BuiltAt
  <2> QED BY <2>3, <2>4
<1>3. CASE Finish \/ ReturnsEarly \/ Throws \/ Breaks \/ StartOver
  BY <1>3, ScriptEnds DEF ThisInv, Core
<1> QED
  BY <1>1, <1>2, <1>3, Classes

\* Core is inductive.
LEMMA CoreStep ==
  ASSUME Core, [Next]_vars
  PROVE  Core'
BY RunsStep, ContractsStep, PendingStep, GlobalsStep, ThisStep, RecordedInvStep DEF Core

LEMMA CoreInit ==
  ASSUME Init
  PROVE  Core
<1>1. RunsInv /\ GlobalsInv /\ ThisInv
  BY DEF Init, RunsInv, GlobalsInv, ThisInv
<1>2. ContractsInv
  <2>1. chain = [a \in {CM} |-> [guard |-> NoAddress]] /\ CM = <<"cm", 1>>
    BY DEF Init, ChainInit, CM
  <2>2. CM \in Address /\ CM[1] = "cm" /\ CM[2] = 1
    BY <2>1, Pair DEF Address, Kinds
  <2>3. Deployed("cm") = {CM}
    BY <2>1, <2>2 DEF Deployed
  <2>4. IsFiniteSet({CM}) /\ Cardinality({CM}) = 1
    BY FS_Singleton
  <2>5. FieldsOf("cm") = {"guard"}
    BY DEF FieldsOf
  <2> QED BY <2>1, <2>2, <2>3, <2>4, <2>5 DEF ContractsInv
<1>3. PendingInv
  BY DEF Init, ChainInit, PendingInv, Networks
<1>4. RecordedInv
  <2>1. next = 1 /\ script = "none" /\ globals = [name \in GlobalNames |-> NoAddress]
    BY DEF Init
  <2>2. \A n \in Recorders : n >= 1 /\ n \in Nat
    BY DEF Recorders
  <2> QED BY <2>1, <2>2 DEF RecordedInv, Past, g, GlobalNames
<1> QED
  BY <1>1, <1>2, <1>3, <1>4 DEF Core

(***************************************************************************)
(* Governors and guards that are replaced, and what their successors are   *)
(* built on                                                                *)
(***************************************************************************)

BuiltOn(kind, f, a, v) == a \in DOMAIN chain /\ a[1] = kind /\ chain[a][f] = v

\* The first governor counts the votes of veOLAS and the first guard belongs to
\* governorTwo, as long as no other one takes their names; the governor written
\* down is never governorTwo.
ReplacedInv ==
  /\ script # "none" /\ next = 5 /\ pc > 1 => BuiltOn("governor", "token", this, g.veOLASAddress)
  /\ script # "none" /\ next = 10 /\ pc > 1 => this # g.governorAddress
  /\ script # "none" /\ next = 11 /\ pc > 1 => BuiltOn("guard", "governor", this, g.governorTwoAddress)
  /\ script # "none" /\ next = 22 /\ pc > 2 => this # g.governorTwoAddress
  /\ Past(5, 9) /\ ~Past(22, 4) => BuiltOn("governor", "token", g.governorAddress, g.veOLASAddress)
  /\ Past(11, 2) /\ ~Past(23, 4) => BuiltOn("guard", "governor", g.guardCMAddress, g.governorTwoAddress)
  /\ Past(10, 2) => g.governorAddress # g.governorTwoAddress

\* What a contract is built on does not change.
LEMMA BuiltStays ==
  ASSUME Core, [Next]_vars, NEW kind, NEW f \in FieldsOf(kind) \ Changing, NEW a, NEW v, BuiltOn(kind, f, a, v)
  PROVE  BuiltOn(kind, f, a, v)'
<1>1. a \in DOMAIN chain /\ a[1] = kind /\ chain[a][f] = v
  BY DEF BuiltOn
<1>2. Stays(a) /\ f \in DOMAIN chain[a]
  BY <1>1, ContractsStay DEF Core, ContractsInv
<1> QED
  BY <1>1, <1>2 DEF BuiltOn, Stays

\* A script that has done something goes on.
LEMMA ScriptMoves ==
  ASSUME Core, [Next]_vars, script' # "none", pc' > 1
  PROVE  /\ script # "none" /\ script' = script /\ this' = this /\ next' = next
         /\ pc \in Nat /\ pc' \in {pc, pc + 1} /\ (pc' # pc => OpStep)
<1>1. OpStep \/ MineOne \/ UNCHANGED vars
  BY Classes, ScriptBegins, ScriptEnds DEF Core
<1> QED
  BY <1>1, OpAdvances DEF Advance, MineOne, vars, scriptVars, Core, RunsInv

\* A proposal is one operation: when it is executed, it is past.
LEMMA ProposalPasses ==
  ASSUME RunsInv, ExecuteProposal
  PROVE  next \in {20, 21, 24, 25} /\ Past(next, 1)' /\ pc = 1 /\ next' = next
<1>1. Running /\ Advance /\ Current.op = "execute"
  BY DEF ExecuteProposal
<1>2. next \in {20, 21, 24, 25} /\ pc = 1
  BY <1>1, StepTable DEF Rows, Running
<1> QED
  BY <1>1, <1>2 DEF Advance, Running, Past

\* The operation that deploys the contract of a script.
LEMMA JustBuilt ==
  ASSUME Core, OpStep, script # "none", Kind(script) # "none", pc = BuiltAt(script)
  PROVE  /\ Deploys /\ this \notin DOMAIN chain /\ this \in DOMAIN chain' /\ this[1] = Kind(script)
         /\ chain'[this] = Current.fields /\ globals' = globals
<1>1. Rows /\ Running
  BY StepTable, OpAdvances DEF Core
<1>2. DeployContract
  BY <1>1, OpOf DEF Rows, Places
<1>3. Deploys /\ this \notin DOMAIN chain /\ this[1] = Kind(script)
  BY <1>2, DeploysNew DEF Core
<1> QED
  BY <1>2, <1>3, DeployOn DEF DeployContract

LEMMA FirstGovernorBuilt ==
  ASSUME Core, ReplacedInv, [Next]_vars, script' # "none", next' = 5, pc' > 1
  PROVE  BuiltOn("governor", "token", this, g.veOLASAddress)'
<1>1. /\ script # "none" /\ this' = this /\ next = 5 /\ pc \in Nat /\ pc' \in {pc, pc + 1} /\ (pc' # pc => OpStep)
  BY ScriptMoves
<1>2. script = "08_09" /\ Kind(script) = "governor" /\ BuiltAt(script) = 1
  BY <1>1, RunningAt, OrderIs DEF Core, Kind, BuiltAt
<1>3. PICK a, v : a = this /\ v = g.veOLASAddress
  OBVIOUS
<1>4. g.veOLASAddress' = v
  BY <1>1, <1>3, EarlierNames DEF Core, g
<1>5. CASE pc > 1
  <2>1. BuiltOn("governor", "token", a, v)
    BY <1>1, <1>3, <1>5 DEF ReplacedInv
  <2>2. "token" \in FieldsOf("governor") \ Changing
    BY FieldsAre DEF Changing
  <2>3. BuiltOn("governor", "token", a, v)'
    BY <2>1, <2>2, BuiltStays
  <2> QED BY <1>1, <1>3, <1>4, <2>3 DEF BuiltOn
<1>6. CASE pc = 1
  <2>1. OpStep
    BY <1>1, <1>6
  <2>2. Deploys /\ a \in DOMAIN chain' /\ a[1] = "governor" /\ chain'[a] = Current.fields
    BY <1>1, <1>2, <1>3, <1>6, <2>1, JustBuilt
  <2>3. chain'[a].token = v
    BY <1>1, <1>3, <2>2 DEF Deploys
  <2> QED BY <1>1, <1>3, <1>4, <2>2, <2>3 DEF BuiltOn
<1> QED
  BY <1>1, <1>5, <1>6

LEMMA FirstGuardBuilt ==
  ASSUME Core, ReplacedInv, [Next]_vars, script' # "none", next' = 11, pc' > 1
  PROVE  BuiltOn("guard", "governor", this, g.governorTwoAddress)'
<1>1. /\ script # "none" /\ this' = this /\ next = 11 /\ pc \in Nat /\ pc' \in {pc, pc + 1} /\ (pc' # pc => OpStep)
  BY ScriptMoves
<1>2. script = "18" /\ Kind(script) = "guard" /\ BuiltAt(script) = 1
  BY <1>1, RunningAt, OrderIs DEF Core, Kind, BuiltAt
<1>3. PICK a, v : a = this /\ v = g.governorTwoAddress
  OBVIOUS
<1>4. g.governorTwoAddress' = v
  BY <1>1, <1>3, EarlierNames DEF Core, g
<1>5. CASE pc > 1
  <2>1. BuiltOn("guard", "governor", a, v)
    BY <1>1, <1>3, <1>5 DEF ReplacedInv
  <2>2. "governor" \in FieldsOf("guard") \ Changing
    BY FieldsAre DEF Changing
  <2>3. BuiltOn("guard", "governor", a, v)'
    BY <2>1, <2>2, BuiltStays
  <2> QED BY <1>1, <1>3, <1>4, <2>3 DEF BuiltOn
<1>6. CASE pc = 1
  <2>1. OpStep
    BY <1>1, <1>6
  <2>2. Deploys /\ a \in DOMAIN chain' /\ a[1] = "guard" /\ chain'[a] = Current.fields
    BY <1>1, <1>2, <1>3, <1>6, <2>1, JustBuilt
  <2>3. chain'[a].governor = v
    BY <1>1, <1>3, <2>2 DEF Deploys
  <2> QED BY <1>1, <1>3, <1>4, <2>2, <2>3 DEF BuiltOn
<1> QED
  BY <1>1, <1>5, <1>6

\* A governor is new when the other one is written down already.
LEMMA NewGovernorDiffers ==
  ASSUME Core, ReplacedInv, [Next]_vars, script' # "none"
  PROVE  /\ next' = 10 /\ pc' > 1 => this' # g.governorAddress'
         /\ next' = 22 /\ pc' > 2 => this' # g.governorTwoAddress'
<1>1. ASSUME next' = 10, pc' > 1 PROVE this' # g.governorAddress'
  <2>1. /\ script # "none" /\ this' = this /\ next = 10 /\ pc \in Nat /\ pc' \in {pc, pc + 1} /\ (pc' # pc => OpStep)
    BY <1>1, ScriptMoves
  <2>2. script = "17" /\ Kind(script) = "governor" /\ BuiltAt(script) = 1
    BY <2>1, RunningAt, OrderIs DEF Core, Kind, BuiltAt
  <2>3. g.governorAddress' = g.governorAddress
    BY <2>1, EarlierNames DEF Core, g
  <2>4. CASE pc > 1
    BY <2>1, <2>3, <2>4 DEF ReplacedInv
  <2>5. CASE pc = 1
    <3>1. OpStep
      BY <1>1, <2>1, <2>5
    <3>2. this \notin DOMAIN chain
      BY <2>1, <2>2, <2>5, <3>1, JustBuilt
    <3>3. g.governorAddress \in DOMAIN chain
      BY <2>1, EarlierAddresses
    <3> QED BY <2>1, <2>3, <3>2, <3>3
  <2> QED BY <1>1, <2>1, <2>4, <2>5
<1>2. ASSUME next' = 22, pc' > 2 PROVE this' # g.governorTwoAddress'
  <2>1. pc' > 1
    <3>1. RunsInv'
      BY RunsStep DEF Core
    <3> QED BY <1>2, <3>1 DEF RunsInv
  <2>2. /\ script # "none" /\ this' = this /\ next = 22 /\ pc \in Nat /\ pc' \in {pc, pc + 1} /\ (pc' # pc => OpStep)
    BY <1>2, <2>1, ScriptMoves
  <2>3. script = "27" /\ Kind(script) = "governor" /\ BuiltAt(script) = 2
    BY <2>2, RunningAt, OrderIs DEF Core, Kind, BuiltAt
  <2>4. g.governorTwoAddress' = g.governorTwoAddress
    BY <2>2, EarlierNames DEF Core, g
  <2>5. CASE pc > 2
    BY <2>2, <2>4, <2>5 DEF ReplacedInv
  <2>6. CASE pc = 2
    <3>1. OpStep
      BY <1>2, <2>2, <2>6
    <3>2. this \notin DOMAIN chain
      BY <2>2, <2>3, <2>6, <3>1, JustBuilt
    <3>3. g.governorTwoAddress \in DOMAIN chain
      BY <2>2, EarlierAddresses
    <3> QED BY <2>2, <2>4, <3>2, <3>3
  <2> QED BY <1>2, <2>2, <2>5, <2>6
<1> QED
  BY <1>1, <1>2

\* A name changes when a script writes its contract down.
LEMMA WrittenNow ==
  ASSUME Core, [Next]_vars, NEW name \in GlobalNames, globals'[name] # globals[name]
  PROVE  /\ script # "none" /\ pc = RecordedAt(next) /\ NameAt(next) = name /\ next' = next
         /\ (next = 22 => Past(22, 4)') /\ (next = 23 => Past(23, 4)')
         /\ globals'[name] = this /\ \A other \in GlobalNames \ {name} : globals'[other] = globals[other]
         /\ chain' = chain
<1>1. RecordAddress
  BY NamesWait
<1>2. Running /\ script # "none" /\ pc = RecordedAt(next) /\ NameAt(next) = name
  BY <1>1, RecordsThis DEF Core
<1>3. Advance /\ chain' = chain
  BY <1>1 DEF RecordAddress, chainVars
<1>4. RecordedAt(22) = 4 /\ RecordedAt(23) = 4
  BY DEF RecordedAt
<1>5. (next = 22 => Past(22, 4)') /\ (next = 23 => Past(23, 4)')
  BY <1>2, <1>3, <1>4 DEF Advance, Past
<1> QED
  BY <1>1, <1>2, <1>3, <1>5, RecordsThis DEF Core, Advance

LEMMA FirstGovernorWritten ==
  ASSUME Core, ReplacedInv, [Next]_vars, Past(5, 9)', ~Past(22, 4)'
  PROVE  BuiltOn("governor", "token", g.governorAddress, g.veOLASAddress)'
<1>0. RunsInv /\ next \in 1 .. 30 /\ pc \in Nat /\ Lengths[5] = 9 /\ Lengths[22] = 4
  BY DEF Core, RunsInv, Lengths
<1>1. Past(5, 9) \/ (OpStep /\ next = 5 /\ script # "none" /\ pc = 9)
  BY <1>0, PastStep
<1>2. ~Past(22, 4)
  BY <1>0, PassedStays
<1>3. next >= 5
  BY <1>0, <1>1 DEF Past
<1>4. PICK a, v : a = g.governorAddress /\ v = g.veOLASAddress
  OBVIOUS
<1>5. g.veOLASAddress' = v
  BY <1>0, <1>3, <1>4, EarlierNames DEF Core, g
<1>6. CASE g.governorAddress' = a
  <2>1. CASE Past(5, 9)
    <3>1. BuiltOn("governor", "token", a, v)
      BY <1>2, <1>4, <2>1 DEF ReplacedInv
    <3>2. "token" \in FieldsOf("governor") \ Changing
      BY FieldsAre DEF Changing
    <3>3. BuiltOn("governor", "token", a, v)'
      BY <3>1, <3>2, BuiltStays
    <3> QED BY <1>5, <1>6, <3>3 DEF BuiltOn
  <2>2. CASE OpStep /\ next = 5 /\ script # "none" /\ pc = 9
    <3>1. RecordAddress
      <4>1. Rows /\ Running /\ <<next, pc>> \in RecordPlaces
        BY <1>0, <2>2, StepTable, OpAdvances DEF RecordPlaces
      <4> QED BY <2>2, <4>1, OpOf DEF Rows, Places
    <3>2. NameAt(next) = "governorAddress"
      BY <2>2 DEF NameAt
    <3>3. a = this /\ chain' = chain
      BY <1>6, <3>1, <3>2, RecordsThis DEF Core, RecordAddress, chainVars, g
    <3>4. BuiltOn("governor", "token", a, v)
      BY <1>0, <1>4, <2>2, <3>3 DEF ReplacedInv
    <3> QED BY <1>5, <1>6, <3>3, <3>4 DEF BuiltOn
  <2> QED BY <1>1, <2>1, <2>2
<1>7. CASE g.governorAddress' # a
  <2>1. "governorAddress" \in GlobalNames /\ globals'["governorAddress"] # globals["governorAddress"]
    BY <1>4, <1>7 DEF GlobalNames, g
  <2>2. /\ script # "none" /\ pc = RecordedAt(next) /\ NameAt(next) = "governorAddress" /\ next # 22
        /\ globals'["governorAddress"] = this /\ chain' = chain
    BY <2>1, WrittenNow
  <2>3. next = 5 /\ pc = 9
    BY <1>0, <2>2 DEF NameAt, RecordedAt
  <2>4. BuiltOn("governor", "token", this, g.veOLASAddress)
    BY <2>2, <2>3 DEF ReplacedInv
  <2> QED BY <1>4, <1>5, <2>2, <2>4 DEF BuiltOn, g
<1> QED
  BY <1>6, <1>7

LEMMA FirstGuardWritten ==
  ASSUME Core, ReplacedInv, [Next]_vars, Past(11, 2)', ~Past(23, 4)'
  PROVE  BuiltOn("guard", "governor", g.guardCMAddress, g.governorTwoAddress)'
<1>0. RunsInv /\ next \in 1 .. 30 /\ pc \in Nat /\ Lengths[11] = 3 /\ Lengths[23] = 4
  BY DEF Core, RunsInv, Lengths
<1>1. Past(11, 2) \/ (OpStep /\ next = 11 /\ script # "none" /\ pc = 2)
  BY <1>0, PastStep
<1>2. ~Past(23, 4)
  BY <1>0, PassedStays
<1>3. next >= 11
  BY <1>0, <1>1 DEF Past
<1>4. PICK a, v : a = g.guardCMAddress /\ v = g.governorTwoAddress
  OBVIOUS
<1>5. g.governorTwoAddress' = v
  BY <1>0, <1>3, <1>4, EarlierNames DEF Core, g
<1>6. CASE g.guardCMAddress' = a
  <2>1. CASE Past(11, 2)
    <3>1. BuiltOn("guard", "governor", a, v)
      BY <1>2, <1>4, <2>1 DEF ReplacedInv
    <3>2. "governor" \in FieldsOf("guard") \ Changing
      BY FieldsAre DEF Changing
    <3>3. BuiltOn("guard", "governor", a, v)'
      BY <3>1, <3>2, BuiltStays
    <3> QED BY <1>5, <1>6, <3>3 DEF BuiltOn
  <2>2. CASE OpStep /\ next = 11 /\ script # "none" /\ pc = 2
    <3>1. RecordAddress
      <4>1. Rows /\ Running /\ <<next, pc>> \in RecordPlaces
        BY <1>0, <2>2, StepTable, OpAdvances DEF RecordPlaces
      <4> QED BY <2>2, <4>1, OpOf DEF Rows, Places
    <3>2. NameAt(next) = "guardCMAddress"
      BY <2>2 DEF NameAt
    <3>3. a = this /\ chain' = chain
      BY <1>6, <3>1, <3>2, RecordsThis DEF Core, RecordAddress, chainVars, g
    <3>4. BuiltOn("guard", "governor", a, v)
      BY <1>0, <1>4, <2>2, <3>3 DEF ReplacedInv
    <3> QED BY <1>5, <1>6, <3>3, <3>4 DEF BuiltOn
  <2> QED BY <1>1, <2>1, <2>2
<1>7. CASE g.guardCMAddress' # a
  <2>1. "guardCMAddress" \in GlobalNames /\ globals'["guardCMAddress"] # globals["guardCMAddress"]
    BY <1>4, <1>7 DEF GlobalNames, g
  <2>2. /\ script # "none" /\ pc = RecordedAt(next) /\ NameAt(next) = "guardCMAddress" /\ next # 23
        /\ globals'["guardCMAddress"] = this /\ chain' = chain
    BY <2>1, WrittenNow
  <2>3. next = 11 /\ pc = 2
    BY <1>0, <2>2 DEF NameAt, RecordedAt
  <2>4. BuiltOn("guard", "governor", this, g.governorTwoAddress)
    BY <2>2, <2>3 DEF ReplacedInv
  <2> QED BY <1>4, <1>5, <2>2, <2>4 DEF BuiltOn, g
<1> QED
  BY <1>6, <1>7

LEMMA GovernorsDiffer ==
  ASSUME Core, ReplacedInv, [Next]_vars, Past(10, 2)'
  PROVE  g.governorAddress' # g.governorTwoAddress'
<1>0. RunsInv /\ next \in 1 .. 30 /\ pc \in Nat /\ Lengths[10] = 4
  BY DEF Core, RunsInv, Lengths
<1>1. Past(10, 2) \/ (OpStep /\ next = 10 /\ script # "none" /\ pc = 2)
  BY <1>0, PastStep
<1>2. CASE OpStep /\ next = 10 /\ script # "none" /\ pc = 2
  <2>1. RecordAddress
    <3>1. Rows /\ Running /\ <<next, pc>> \in RecordPlaces
      BY <1>0, <1>2, StepTable, OpAdvances DEF RecordPlaces
    <3> QED BY <1>2, <3>1, OpOf DEF Rows, Places
  <2>2. NameAt(next) = "governorTwoAddress"
    BY <1>2 DEF NameAt
  <2>3. globals'["governorTwoAddress"] = this /\ globals'["governorAddress"] = globals["governorAddress"]
    BY <2>1, <2>2, RecordsThis DEF Core, GlobalNames
  <2> QED BY <1>2, <2>3 DEF ReplacedInv, g
<1>3. CASE Past(10, 2)
  <2>1. next >= 10 /\ g.governorAddress # g.governorTwoAddress
    BY <1>0, <1>3 DEF Past, ReplacedInv
  <2>2. CASE globals'["governorAddress"] # globals["governorAddress"]
    <3>1. /\ script # "none" /\ pc = RecordedAt(next) /\ NameAt(next) = "governorAddress"
          /\ globals'["governorAddress"] = this /\ globals'["governorTwoAddress"] = globals["governorTwoAddress"]
      BY <2>2, WrittenNow DEF GlobalNames
    <3>2. next = 22 /\ pc = 4
      BY <1>0, <2>1, <3>1 DEF NameAt, RecordedAt
    <3> QED BY <3>1, <3>2 DEF ReplacedInv, g
  <2>3. CASE globals'["governorTwoAddress"] # globals["governorTwoAddress"]
    <3>1. /\ script # "none" /\ pc = RecordedAt(next) /\ NameAt(next) = "governorTwoAddress"
          /\ globals'["governorTwoAddress"] = this /\ globals'["governorAddress"] = globals["governorAddress"]
      BY <2>3, WrittenNow DEF GlobalNames
    <3>2. next = 10 /\ pc = 2
      BY <1>0, <2>1, <3>1 DEF NameAt, RecordedAt
    <3> QED BY <3>1, <3>2 DEF ReplacedInv, g
  <2> QED BY <2>1, <2>2, <2>3 DEF g
<1> QED
  BY <1>1, <1>2, <1>3

\* ReplacedInv is kept.
LEMMA ReplacedStep ==
  ASSUME Core, ReplacedInv, [Next]_vars
  PROVE  ReplacedInv'
<1>1. (script # "none" /\ next = 5 /\ pc > 1)' => BuiltOn("governor", "token", this, g.veOLASAddress)'
  BY FirstGovernorBuilt
<1>2. (script # "none" /\ next = 11 /\ pc > 1)' => BuiltOn("guard", "governor", this, g.governorTwoAddress)'
  BY FirstGuardBuilt
<1>3. /\ (script # "none" /\ next = 10 /\ pc > 1)' => this' # g.governorAddress'
      /\ (script # "none" /\ next = 22 /\ pc > 2)' => this' # g.governorTwoAddress'
  BY NewGovernorDiffers
<1>4. (Past(5, 9) /\ ~Past(22, 4))' => BuiltOn("governor", "token", g.governorAddress, g.veOLASAddress)'
  BY FirstGovernorWritten
<1>5. (Past(11, 2) /\ ~Past(23, 4))' => BuiltOn("guard", "governor", g.guardCMAddress, g.governorTwoAddress)'
  BY FirstGuardWritten
<1>6. Past(10, 2)' => g.governorAddress' # g.governorTwoAddress'
  BY GovernorsDiffer
<1> QED
  BY <1>1, <1>2, <1>3, <1>4, <1>5, <1>6 DEF ReplacedInv

(***************************************************************************)
(* The bridges of the guards                                               *)
(***************************************************************************)

\* Proposal 11 tells the guard written down of all the bridges; no guard knows of
\* any before.
BridgesInv ==
  /\ ~Past(24, 1) => \A a \in Deployed("guard") : chain[a].bridges = {}
  /\ Past(24, 1) => g.guardCMAddress \in DOMAIN chain /\ chain[g.guardCMAddress].bridges = MediatedNetworks

\* Only a proposal changes them.
LEMMA BridgesStay ==
  ASSUME Core, [Next]_vars, NEW a \in DOMAIN chain, a[1] = "guard", ~(ExecuteProposal /\ next = 24)
  PROVE  a \in DOMAIN chain' /\ chain'[a].bridges = chain[a].bridges
<1>1. "bridges" \in DOMAIN chain[a]
  BY FieldsAre DEF Core, ContractsInv
<1>2. a \in DOMAIN chain'
  BY ContractsStay DEF Core, Stays
<1>3. CASE MineOne
  <2>1. PICK net \in Networks : Mine(net)
    BY <1>3 DEF MineOne
  <2>2. PICK tx : Mines(net, tx)
    BY <2>1, MinedTx DEF Core
  <2>3. CASE chain' = Effect(chain, tx) /\ Succeeds(tx, Deployer)
    <3>1. tx \in L1Txs \cup L2Txs
      BY <2>2 DEF Mines
    <3>2. MinedOn(tx, a)
      BY <2>3, <3>1, MineEffect
    <3> QED BY <1>1, <1>2, <3>2 DEF MinedOn
  <2> QED BY <1>2, <2>2, <2>3 DEF Mines
<1>4. CASE DeployContract
  BY <1>2, <1>4, DeploysNew, DeployOn DEF Core
<1>5. CASE ExecuteProposal
  <2>1. PICK calls : Batch(calls) /\ next # 24
    BY <1>5, ProposalTable DEF Core
  <2>2. /\ Len(calls) \in Nat /\ chain' = Effects(chain, calls)[Len(calls)]
        /\ \A i \in 1 .. Len(calls) : calls[i].call \in Governs
        /\ \A i \in 1 .. Len(calls) : calls[i].call # "setBridgeMediators"
    BY <2>1 DEF Batch
  <2>3. PICK x : x = chain[a].bridges
    OBVIOUS
  <2>4. BridgesAre(chain, calls, a, x)
    BY <1>1, <2>2, <2>3, BridgesAfter
  <2> QED BY <1>2, <2>2, <2>3, <2>4 DEF BridgesAre
<1> QED
  BY <1>2, <1>3, <1>4, <1>5, ChainWaits

\* BridgesInv is kept.
LEMMA BridgesStep ==
  ASSUME Core, BridgesInv, [Next]_vars
  PROVE  BridgesInv'
<1>0. RunsInv /\ next \in 1 .. 30 /\ pc \in Nat /\ Lengths[24] = 1
  BY DEF Core, RunsInv, Lengths
<1>1. ASSUME ~Past(24, 1)', NEW a \in DOMAIN chain', a[1] = "guard" PROVE chain'[a].bridges = {}
  <2>1. ~Past(24, 1)
    BY <1>0, <1>1, PassedStays
  <2>2. ~(ExecuteProposal /\ next = 24)
    BY <1>0, <1>1, ProposalPasses
  <2>3. CASE a \in DOMAIN chain
    <3>1. chain[a].bridges = {}
      BY <1>1, <2>1, <2>3 DEF BridgesInv, Deployed
    <3> QED BY <1>1, <2>2, <2>3, <3>1, BridgesStay
  <2>4. CASE a \notin DOMAIN chain
    <3>1. DeployContract /\ a = this
      <4>1. \A new \in Created \X Nat : new[1] # "guard"
        BY DEF Created
      <4> QED BY <1>1, <2>4, <4>1, ContractsCome DEF Core
    <3>2. Deploys /\ Kind(script) = "guard" /\ chain'[a] = Current.fields /\ script # "none"
      BY <1>1, <3>1, DeploysNew, DeployOn DEF Core
    <3>3. next \in {11, 23}
      <4>1. next \in 1 .. 29 /\ (script = Order[next] \/ script = "P01")
        BY <1>0, <3>2, RunningAt
      <4>2. script \in {"18", "26_00"}
        BY <3>2 DEF Kind
      <4> QED BY <4>1, <4>2, OrderIs
    <3> QED BY <3>2, <3>3 DEF Deploys
  <2> QED BY <2>3, <2>4
<1>2. ASSUME Past(24, 1)'
      PROVE  (g.guardCMAddress \in DOMAIN chain /\ chain[g.guardCMAddress].bridges = MediatedNetworks)'
  <2>1. Past(24, 1) \/ (OpStep /\ next = 24 /\ script # "none" /\ pc = 1)
    BY <1>0, <1>2, PastStep
  <2>2. next >= 24
    BY <1>0, <2>1 DEF Past
  <2>3. PICK a : a = g.guardCMAddress
    OBVIOUS
  <2>4. g.guardCMAddress' = a /\ a \in DOMAIN chain /\ a[1] = "guard"
    <3>1. g.guardCMAddress' = a
      BY <1>0, <2>2, <2>3, EarlierNames DEF Core, g
    <3>2. a \in DOMAIN chain /\ a \in {"guard"} \X Nat
      BY <1>0, <2>2, <2>3, EarlierAddresses
    <3> QED BY <3>1, <3>2
  <2>5. CASE Past(24, 1)
    <3>1. ~(ExecuteProposal /\ next = 24)
      BY <1>0, <2>5, ProposalPasses DEF Past
    <3> QED BY <2>3, <2>4, <2>5, <3>1, BridgesStay DEF BridgesInv
  <2>6. CASE OpStep /\ next = 24 /\ script # "none" /\ pc = 1
    <3>1. ExecuteProposal
      <4>1. Rows /\ Running
        BY <1>0, <2>6, StepTable, OpAdvances
      <4>2. <<next, pc>> \in {<<20, 1>>, <<24, 1>>, <<25, 1>>}
        BY <2>6
      <4> QED BY <2>6, <4>1, <4>2, OpOf DEF Rows, Places
    <3>2. PICK calls : Batch(calls) /\ ToGovernor(calls)
      BY <1>0, <2>6, <3>1, ProposalTable
    <3>3. /\ Len(calls) \in Nat /\ chain' = Effects(chain, calls)[Len(calls)]
          /\ \A i \in 1 .. Len(calls) : calls[i].call \in Governs
          /\ \A i \in 1 .. Len(calls) : calls[i].call = "setBridgeMediators" => calls[i].arg = MediatedNetworks
      BY <3>2 DEF Batch
    <3>4. "bridges" \in DOMAIN chain[a]
      BY <2>4, FieldsAre DEF Core, ContractsInv
    <3>5. chain[a].bridges \subseteq MediatedNetworks
      <4>1. ~Past(24, 1)
        BY <2>6 DEF Past
      <4> QED BY <2>4, <4>1 DEF BridgesInv, Deployed
    <3>6. BridgesAre(chain, calls, a, MediatedNetworks)
      BY <2>4, <3>3, <3>4, <3>5, BridgesAfter
    <3>7. \E k \in 1 .. Len(calls) : calls[k].call = "setBridgeMediators" /\ calls[k].at = a
      BY <2>3, <3>2 DEF ToGovernor, SetBridgeMediators
    <3>8. a \in DOMAIN chain'
      BY <2>4, ContractsStay DEF Core, Stays
    <3> QED BY <2>4, <3>3, <3>6, <3>7, <3>8 DEF BridgesAre, MediatedNetworks
  <2> QED BY <2>1, <2>5, <2>6
<1> QED
  BY <1>1, <1>2 DEF BridgesInv, Deployed

(***************************************************************************)
(* Roles of the timelocks                                                  *)
(***************************************************************************)

Governors == {"governor"} \X Nat

LEMMA Multisig ==
  CM \in Address /\ CM[1] = "cm" /\ CM # Deployer
<1>1. CM \in Address /\ CM[1] = "cm"
  BY Pair DEF CM, Address, Kinds
<1> QED
  BY <1>1, Accounts

LEMMA Outsiders ==
  /\ Deployer \notin Governors /\ CM \notin Governors
  /\ \A a \in Address : a[1] = "timelock" => a \notin Governors
<1>1. \A a \in Governors : a \in Address /\ a[1] = "governor"
  BY DEF Governors, Address, Kinds
<1> QED
  BY <1>1, Multisig, Accounts

\* A role that no call of a proposal is about.
LEMMA BatchSpares ==
  ASSUME Core, ExecuteProposal, NEW a \in DOMAIN chain, "roles" \in DOMAIN chain[a],
         NEW role, NEW x, x \notin Governors
  PROVE  /\ <<role, x>> \notin chain[a].roles => <<role, x>> \notin chain'[a].roles
         /\ <<role, x>> \in chain[a].roles /\ ~(role = "canceller" /\ x = CM) => <<role, x>> \in chain'[a].roles
<1>1. PICK calls : /\ Batch(calls)
                   /\ next \in {20, 21, 24, 25}
  BY ProposalTable DEF Core
<1>2. g.governorAddress \in Governors /\ g.governorTwoAddress \in Governors
  BY <1>1, EarlierAddresses DEF Governors
<1>3. <<role, x>> \notin AllRoles(g.governorAddress) \cup AllRoles(g.governorTwoAddress)
  BY <1>2 DEF AllRoles
<1>4. <<role, x>> = <<"canceller", CM>> => role = "canceller" /\ x = CM
  OBVIOUS
<1>5. /\ Len(calls) \in Nat /\ 0 \in 0 .. Len(calls) /\ chain' = Effects(chain, calls)[Len(calls)]
      /\ \A i \in 1 .. Len(calls) : calls[i].call \in Governs
      /\ \A i \in 0 + 1 .. Len(calls) : calls[i].call = "grantRole" => calls[i].arg # <<role, x>>
      /\ \A i \in 0 + 1 .. Len(calls) : calls[i].call = "revokeRole" =>
           calls[i].arg # <<role, x>> \/ (role = "canceller" /\ x = CM)
  BY <1>1, <1>3, <1>4 DEF Batch
<1>6. Effects(chain, calls)[0] = chain
  BY <1>5, EffectsWalk
<1>7. PICK r : r = <<role, x>>
  OBVIOUS
<1>8. r \notin chain[a].roles => r \notin chain'[a].roles
  BY <1>5, <1>6, <1>7, RoleStaysAway
<1>9. r \in chain[a].roles /\ ~(role = "canceller" /\ x = CM) => r \in chain'[a].roles
  BY <1>5, <1>6, <1>7, RoleLasts
<1> QED
  BY <1>7, <1>8, <1>9

\* Nobody but governors is given a role, and only two roles are ever taken from
\* anybody else.
LEMMA RolesOfOthers ==
  ASSUME Core, [Next]_vars, NEW a \in DOMAIN chain, a[1] = "timelock", NEW role, NEW x, x \notin Governors
  PROVE  /\ a \in DOMAIN chain'
         /\ <<role, x>> \notin chain[a].roles => <<role, x>> \notin chain'[a].roles
         /\ <<role, x>> \in chain[a].roles /\ ~(role = "canceller" /\ x = CM) /\ ~(role = "admin" /\ x = Deployer) =>
              <<role, x>> \in chain'[a].roles
<1>1. "roles" \in DOMAIN chain[a]
  BY FieldsAre DEF Core, ContractsInv
<1>2. Stays(a)
  BY ContractsStay DEF Core
<1>3. a \in DOMAIN chain'
  BY <1>2 DEF Stays
<1>4. CASE chain'[a].roles = chain[a].roles
  BY <1>3, <1>4
<1>5. CASE chain'[a].roles = chain[a].roles \ {<<"admin", Deployer>>}
  BY <1>3, <1>5
<1>6. CASE \E r \in Roles, gov \in Governors : chain'[a].roles = chain[a].roles \cup {<<r, gov>>}
  BY <1>3, <1>6
<1>7. CASE ExecuteProposal
  BY <1>1, <1>3, <1>7, BatchSpares
<1> QED
  BY <1>1, <1>2, <1>4, <1>5, <1>6, <1>7 DEF Stays, Governors

\* Between proposals a governor keeps its roles.
LEMMA GovernorKeeps ==
  ASSUME Core, [Next]_vars, ~ExecuteProposal, NEW a \in DOMAIN chain, a[1] = "timelock",
         NEW gov, gov # Deployer, AllRoles(gov) \subseteq chain[a].roles
  PROVE  AllRoles(gov) \subseteq chain'[a].roles
<1>1. "roles" \in DOMAIN chain[a] /\ Stays(a)
  BY FieldsAre, ContractsStay DEF Core, ContractsInv
<1>2. <<"admin", Deployer>> \notin AllRoles(gov)
  BY DEF AllRoles
<1> QED
  BY <1>1, <1>2 DEF Stays

\* Every timelock administers itself, CM proposes and executes but does not
\* administer, and the deployer can only be an administrator.
TimelocksInv ==
  \A a \in Deployed("timelock") :
    /\ \A role \in Roles : <<role, Deployer>> \in chain[a].roles => role = "admin"
    /\ {<<"admin", a>>, <<"proposer", CM>>, <<"executor", CM>>} \subseteq chain[a].roles
    /\ <<"admin", CM>> \notin chain[a].roles

LEMMA TimelocksStep ==
  ASSUME Core, TimelocksInv, [Next]_vars
  PROVE  TimelocksInv'
<1>1. SUFFICES ASSUME NEW a \in DOMAIN chain', a[1] = "timelock"
               PROVE  /\ \A role \in Roles : <<role, Deployer>> \in chain'[a].roles => role = "admin"
                      /\ {<<"admin", a>>, <<"proposer", CM>>, <<"executor", CM>>} \subseteq chain'[a].roles
                      /\ <<"admin", CM>> \notin chain'[a].roles
  BY DEF TimelocksInv, Deployed, CM
<1>2. CASE a \in DOMAIN chain
  <2>1. a \in Address /\ a \in Deployed("timelock") /\ a # CM /\ a # Deployer
    BY <1>1, <1>2, Multisig, Accounts DEF Core, ContractsInv, Deployed
  <2>2. a \notin Governors /\ Deployer \notin Governors /\ CM \notin Governors /\ CM # Deployer
    BY <1>1, <2>1, Outsiders, Multisig
  <2>3. \A role \in Roles : <<role, Deployer>> \in chain'[a].roles => role = "admin"
    BY <1>1, <1>2, <2>1, <2>2, RolesOfOthers DEF TimelocksInv
  <2>4. <<"admin", a>> \in chain'[a].roles
    BY <1>1, <1>2, <2>1, <2>2, RolesOfOthers DEF TimelocksInv
  <2>5. <<"proposer", CM>> \in chain'[a].roles
    <3>1. <<"proposer", CM>> \in chain[a].roles
      BY <2>1 DEF TimelocksInv
    <3> QED BY <1>1, <1>2, <2>2, <3>1, RolesOfOthers
  <2>6. <<"executor", CM>> \in chain'[a].roles
    <3>1. <<"executor", CM>> \in chain[a].roles
      BY <2>1 DEF TimelocksInv
    <3> QED BY <1>1, <1>2, <2>2, <3>1, RolesOfOthers
  <2>7. <<"admin", CM>> \notin chain'[a].roles
    BY <1>1, <1>2, <2>1, <2>2, RolesOfOthers DEF TimelocksInv
  <2> QED BY <2>3, <2>4, <2>5, <2>6, <2>7
<1>3. CASE a \notin DOMAIN chain
  <2>1. DeployContract /\ a = this
    <3>1. \A new \in Created \X Nat : new[1] # "timelock"
      BY DEF Created
    <3> QED BY <1>1, <1>3, <3>1, ContractsCome DEF Core
  <2>2. Deploys /\ Kind(script) = "timelock" /\ chain'[a] = Current.fields
    BY <1>1, <2>1, DeploysNew, DeployOn DEF Core
  <2>3. chain'[a].roles = TimelockRoles(a)
    BY <2>1, <2>2 DEF Deploys
  <2>4. a # CM /\ CM # Deployer /\ a # Deployer
    <3>1. a \in Address
      BY <2>1, DeploysNew DEF Core
    <3> QED BY <1>1, <3>1, Accounts, Multisig
  <2> QED BY <2>3, <2>4 DEF TimelockRoles, Roles
<1> QED
  BY <1>2, <1>3

(***************************************************************************)
(* What deploy_12_15 and the hand-over have given away                     *)
(***************************************************************************)

GivenInv ==
  /\ Past(8, 4) => chain[g.olasAddress].owner = g.timelockAddress
  /\ Past(8, 5) => chain[g.olasAddress].minter # Deployer
  /\ Past(8, 6) => chain[g.buOLASAddress].owner = g.timelockAddress
  /\ Past(8, 8) => ~HasRole(g.timelockAddress, "admin", Deployer)
  /\ Past(8, 10) => chain[g.deploymentFactory].owner = DEAD
  /\ Past(25, 1) => chain[g.olasAddress].minter = treasuryAddress /\ ~HasRole(g.timelockAddress, "canceller", CM)

LEMMA Checked ==
  ASSUME OpStep
  PROVE  /\ Current.op = "expect" => Matches(Current.at, Current.fields) /\ chain' = chain /\ globals' = globals
         /\ Current.op = "expectRoles" => RolesMatch(Current) /\ chain' = chain /\ globals' = globals
<1>1. Current.op \in {"expect", "expectRoles"} => Check /\ Satisfied(Current)
  BY OpOf
<1> QED
  BY <1>1 DEF Satisfied, Check, chainVars

\* From deploy_12_15 on the contracts of the first scripts are settled.
LEMMA Settled ==
  ASSUME Core, [Next]_vars, next >= 8
  PROVE  /\ g.olasAddress' = g.olasAddress /\ g.timelockAddress' = g.timelockAddress
         /\ g.buOLASAddress' = g.buOLASAddress /\ g.deploymentFactory' = g.deploymentFactory
         /\ Stays(g.olasAddress) /\ Stays(g.buOLASAddress) /\ Stays(g.deploymentFactory)
         /\ "owner" \in DOMAIN chain[g.olasAddress] /\ "minter" \in DOMAIN chain[g.olasAddress]
         /\ "owner" \in DOMAIN chain[g.buOLASAddress] /\ "owner" \in DOMAIN chain[g.deploymentFactory]
         /\ g.timelockAddress \in DOMAIN chain /\ g.timelockAddress[1] = "timelock"
         /\ g.timelockAddress # Deployer
<1>1. next \in 8 .. 30
  BY DEF Core, RunsInv
<1>2. /\ g.olasAddress' = g.olasAddress /\ g.timelockAddress' = g.timelockAddress
      /\ g.buOLASAddress' = g.buOLASAddress /\ g.deploymentFactory' = g.deploymentFactory
  BY <1>1, EarlierNames DEF Core, g
<1>3. /\ Recorded(1) /\ Recorded(2) /\ Recorded(3) /\ Recorded(6)
  BY <1>1, Earlier DEF Recorders
<1>4. /\ NameAt(1) = "deploymentFactory" /\ NameAt(2) = "olasAddress" /\ NameAt(3) = "timelockAddress"
      /\ NameAt(6) = "buOLASAddress"
  BY DEF NameAt
<1>5. /\ g.deploymentFactory \in DOMAIN chain /\ g.deploymentFactory[1] = "factory"
      /\ g.olasAddress \in DOMAIN chain /\ g.olasAddress[1] = "olas"
      /\ g.timelockAddress \in DOMAIN chain /\ g.timelockAddress[1] = "timelock"
      /\ g.buOLASAddress \in DOMAIN chain /\ g.buOLASAddress[1] = "buolas"
  BY <1>3, <1>4, KindsAt DEF Recorded, Matches
<1>6. \A a \in DOMAIN chain : Stays(a) /\ DOMAIN chain[a] = FieldsOf(a[1]) /\ a # Deployer
  BY ContractsStay, Accounts DEF Core, ContractsInv
<1> QED
  BY <1>2, <1>5, <1>6, FieldsAre

\* What is given away stays given away.
LEMMA GivenStep ==
  ASSUME Core, GivenInv, [Next]_vars
  PROVE  GivenInv'
<1>0. next \in Nat /\ pc \in Nat /\ RunsInv
  BY DEF Core, RunsInv
<1>1. ASSUME Past(8, 4)' PROVE (chain[g.olasAddress].owner = g.timelockAddress)'
  <2>1. Past(8, 4) \/ (OpStep /\ next = 8 /\ script # "none" /\ pc = 4)
    BY <1>0, <1>1, PastStep DEF Lengths
  <2>2. next >= 8
    BY <1>0, <2>1 DEF Past
  <2>3. CASE Past(8, 4)
    BY <2>2, <2>3, Settled DEF GivenInv, Stays
  <2>4. CASE OpStep /\ next = 8 /\ script # "none" /\ pc = 4
    <3>1. Current = Expect(g.olasAddress, [owner |-> g.timelockAddress])
      BY <1>0, <2>4, StepTable, OpAdvances DEF Rows, Places
    <3>2. Matches(g.olasAddress, [owner |-> g.timelockAddress]) /\ chain' = chain /\ globals' = globals
      BY <2>4, <3>1, Checked DEF Expect
    <3> QED BY <3>2 DEF Matches, g
  <2> QED BY <2>1, <2>3, <2>4
<1>2. ASSUME Past(8, 5)' PROVE (chain[g.olasAddress].minter # Deployer)'
  <2>1. Past(8, 5) \/ (OpStep /\ next = 8 /\ script # "none" /\ pc = 5)
    BY <1>0, <1>2, PastStep DEF Lengths
  <2>2. next >= 8
    BY <1>0, <2>1 DEF Past
  <2>3. CASE Past(8, 5)
    <3>1. Past(8, 4)
      BY <1>0, <2>3 DEF Past
    <3>2. chain[g.olasAddress].owner # Deployer /\ chain[g.olasAddress].minter # Deployer
      BY <2>2, <2>3, <3>1, Settled DEF GivenInv
    <3> QED BY <2>2, <3>2, Settled, TreasuryAssumption DEF Stays
  <2>4. CASE OpStep /\ next = 8 /\ script # "none" /\ pc = 5
    <3>1. Current = Expect(g.olasAddress, [minter |-> g.timelockAddress])
      BY <1>0, <2>4, StepTable, OpAdvances DEF Rows, Places
    <3>2. Matches(g.olasAddress, [minter |-> g.timelockAddress]) /\ chain' = chain /\ globals' = globals
      BY <2>4, <3>1, Checked DEF Expect
    <3>3. chain[g.olasAddress].minter = g.timelockAddress
      BY <3>2 DEF Matches
    <3> QED BY <2>2, <3>2, <3>3, Settled DEF g
  <2> QED BY <2>1, <2>3, <2>4
<1>3. ASSUME Past(8, 6)' PROVE (chain[g.buOLASAddress].owner = g.timelockAddress)'
  <2>1. Past(8, 6) \/ (OpStep /\ next = 8 /\ script # "none" /\ pc = 6)
    BY <1>0, <1>3, PastStep DEF Lengths
  <2>2. next >= 8
    BY <1>0, <2>1 DEF Past
  <2>3. CASE Past(8, 6)
    BY <2>2, <2>3, Settled DEF GivenInv, Stays
  <2>4. CASE OpStep /\ next = 8 /\ script # "none" /\ pc = 6
    <3>1. Current = Expect(g.buOLASAddress, [owner |-> g.timelockAddress])
      BY <1>0, <2>4, StepTable, OpAdvances DEF Rows, Places
    <3>2. Matches(g.buOLASAddress, [owner |-> g.timelockAddress]) /\ chain' = chain /\ globals' = globals
      BY <2>4, <3>1, Checked DEF Expect
    <3> QED BY <3>2 DEF Matches, g
  <2> QED BY <2>1, <2>3, <2>4
<1>4. ASSUME Past(8, 8)' PROVE (~HasRole(g.timelockAddress, "admin", Deployer))'
  <2>1. Past(8, 8) \/ (OpStep /\ next = 8 /\ script # "none" /\ pc = 8)
    BY <1>0, <1>4, PastStep DEF Lengths
  <2>2. next >= 8
    BY <1>0, <2>1 DEF Past
  <2>3. CASE Past(8, 8)
    <3>1. <<"admin", Deployer>> \notin chain[g.timelockAddress].roles
      BY <2>3 DEF GivenInv, HasRole
    <3>2. <<"admin", Deployer>> \notin chain'[g.timelockAddress].roles
      BY <2>2, <3>1, Settled, Outsiders, RolesOfOthers
    <3> QED BY <2>2, <3>2, Settled DEF HasRole
  <2>4. CASE OpStep /\ next = 8 /\ script # "none" /\ pc = 8
    <3>1. Current = ExpectRoles(g.timelockAddress, {}, {<<"admin", Deployer>>})
      BY <1>0, <2>4, StepTable, OpAdvances DEF Rows, Places
    <3>2. RolesMatch(ExpectRoles(g.timelockAddress, {}, {<<"admin", Deployer>>})) /\ chain' = chain /\ globals' = globals
      BY <2>4, <3>1, Checked DEF ExpectRoles
    <3> QED BY <3>2 DEF RolesMatch, ExpectRoles, HasRole, g
  <2> QED BY <2>1, <2>3, <2>4
<1>5. ASSUME Past(8, 10)' PROVE (chain[g.deploymentFactory].owner = DEAD)'
  <2>1. Past(8, 10) \/ (OpStep /\ next = 8 /\ script # "none" /\ pc = 10)
    BY <1>0, <1>5, PastStep DEF Lengths
  <2>2. next >= 8
    BY <1>0, <2>1 DEF Past
  <2>3. CASE Past(8, 10)
    BY <2>2, <2>3, Settled, Accounts DEF GivenInv, Stays
  <2>4. CASE OpStep /\ next = 8 /\ script # "none" /\ pc = 10
    <3>1. Current = Expect(g.deploymentFactory, [owner |-> DEAD])
      BY <1>0, <2>4, StepTable, OpAdvances DEF Rows, Places
    <3>2. Matches(g.deploymentFactory, [owner |-> DEAD]) /\ chain' = chain /\ globals' = globals
      BY <2>4, <3>1, Checked DEF Expect
    <3> QED BY <3>2 DEF Matches, g
  <2> QED BY <2>1, <2>3, <2>4
<1>6. ASSUME Past(25, 1)'
      PROVE  (chain[g.olasAddress].minter = treasuryAddress /\ ~HasRole(g.timelockAddress, "canceller", CM))'
  <2>1. Past(25, 1) \/ (OpStep /\ next = 25 /\ script # "none" /\ pc = 1)
    BY <1>0, <1>6, PastStep DEF Lengths
  <2>2. next >= 25 /\ Past(8, 4) /\ next >= 8
    BY <1>0, <2>1 DEF Past
  <2>3. CASE Past(25, 1)
    <3>1. <<"canceller", CM>> \notin chain[g.timelockAddress].roles /\ chain[g.olasAddress].minter = treasuryAddress
      BY <2>3 DEF GivenInv, HasRole
    <3>2. <<"canceller", CM>> \notin chain'[g.timelockAddress].roles
      BY <2>2, <3>1, Settled, Outsiders, RolesOfOthers
    <3>3. chain[g.olasAddress].owner # Deployer
      BY <2>2, Settled DEF GivenInv
    <3>4. chain'[g.olasAddress].minter = treasuryAddress
      BY <2>2, <3>1, <3>3, Settled DEF Stays
    <3> QED BY <2>2, <3>2, <3>4, Settled DEF HasRole
  <2>4. CASE OpStep /\ next = 25 /\ script # "none" /\ pc = 1
    <3>1. Rows /\ Running
      BY <1>0, <2>4, StepTable, OpAdvances
    <3>2. <<next, pc>> \in {<<20, 1>>, <<24, 1>>, <<25, 1>>}
      BY <2>4
    <3>3. ExecuteProposal
      BY <2>4, <3>1, <3>2, OpOf DEF Rows, Places
    <3>4. PICK calls : Batch(calls) /\ HandsOver(calls)
      BY <1>0, <2>4, <3>3, ProposalTable
    <3>5. PICK a, c : a = g.timelockAddress /\ c = g.olasAddress
      OBVIOUS
    <3>6. /\ a \in DOMAIN chain /\ a[1] = "timelock" /\ c \in DOMAIN chain /\ "minter" \in DOMAIN chain[c]
          /\ "roles" \in DOMAIN chain[a]
      <4>1. a \in DOMAIN chain /\ a[1] = "timelock" /\ c \in DOMAIN chain /\ "minter" \in DOMAIN chain[c]
        BY <1>0, <2>2, <3>5, Settled, EarlierAddresses
      <4> QED BY <4>1, FieldsAre DEF Core, ContractsInv
    <3>7. /\ Len(calls) \in Nat /\ chain' = Effects(chain, calls)[Len(calls)]
          /\ \A i \in 1 .. Len(calls) : calls[i].call \in Governs
          /\ \A i \in 1 .. Len(calls) : calls[i].call = "changeMinter" => calls[i].arg = treasuryAddress
      BY <3>4 DEF Batch
    <3>8. 1 \in 1 .. Len(calls) /\ calls[1] = RevokeRole(a, "canceller", CM)
      BY <3>4, <3>5 DEF HandsOver, Revokes
    <3>9. <<"canceller", CM>> \notin chain'[a].roles
      <4>1. Effects(chain, calls)[1] = Effect(chain, calls[1])
        BY <3>7, <3>8, EffectsWalk
      <4>2. calls[1].call = "revokeRole" /\ calls[1].at = a /\ calls[1].arg = <<"canceller", CM>>
        BY <3>8 DEF RevokeRole
      <4>3. <<"canceller", CM>> \notin Effects(chain, calls)[1][a].roles
        <5>1. PICK tx : tx = calls[1] /\ tx.call = "revokeRole" /\ tx.at = a /\ tx.arg = <<"canceller", CM>>
          BY <4>2
        <5>2. tx.call \in Writers /\ FieldOf(tx.call) = "roles" /\ ValueOf(tx, chain[a].roles) = chain[a].roles \ {tx.arg}
          BY <5>1 DEF Writers, FieldOf, ValueOf
        <5>3. Effect(chain, tx)[a].roles = chain[a].roles \ {tx.arg}
          BY <3>6, <5>1, <5>2, EffectOn
        <5> QED BY <4>1, <5>1, <5>3
      <4>4. \A i \in 1 + 1 .. Len(calls) : calls[i].call = "grantRole" => calls[i].arg # <<"canceller", CM>>
        BY <3>4 DEF HandsOver
      <4>5. PICK r : r = <<"canceller", CM>>
        OBVIOUS
      <4>6. 1 \in 0 .. Len(calls)
        BY <3>7, <3>8
      <4> QED BY <3>6, <3>7, <4>3, <4>4, <4>5, <4>6, RoleStaysAway
    <3>10. chain'[c].minter = treasuryAddress
      <4>1. MinterIs(chain, calls, c, treasuryAddress)
        BY <3>6, <3>7, MinterAfter
      <4>2. \/ chain[c].minter = treasuryAddress
            \/ \E k \in 1 .. Len(calls) : calls[k].call = "changeMinter" /\ calls[k].at = c
        BY <3>4, <3>5 DEF HandsOver
      <4> QED BY <3>7, <4>1, <4>2 DEF MinterIs
    <3> QED BY <2>2, <3>5, <3>9, <3>10, Settled DEF HasRole
  <2> QED BY <2>1, <2>3, <2>4
<1> QED
  BY <1>1, <1>2, <1>3, <1>4, <1>5, <1>6 DEF GivenInv

(***************************************************************************)
(* The governors                                                           *)
(***************************************************************************)

\* A role that a proposal grants and does not revoke later; and the other way round.
LEMMA BatchGives ==
  ASSUME NEW calls, Batch(calls), NEW a \in DOMAIN chain, "roles" \in DOMAIN chain[a], NEW r,
         NEW k \in 1 .. Len(calls), calls[k].call = "grantRole", calls[k].at = a, calls[k].arg = r,
         \A i \in k + 1 .. Len(calls) : calls[i].call = "revokeRole" => calls[i].arg # r
  PROVE  r \in chain'[a].roles
<1>1. /\ Len(calls) \in Nat /\ chain' = Effects(chain, calls)[Len(calls)]
      /\ \A i \in 1 .. Len(calls) : calls[i].call \in Governs
  BY DEF Batch
<1>2. k - 1 \in 0 .. Len(calls) /\ k \in 0 .. Len(calls)
  BY <1>1
<1>3. PICK c, tx : c = Effects(chain, calls)[k - 1] /\ tx = calls[k]
  OBVIOUS
<1>4. a \in DOMAIN c /\ "roles" \in DOMAIN c[a]
  BY <1>1, <1>2, <1>3, BatchKeeps
<1>5. tx.call \in Writers /\ FieldOf(tx.call) = "roles" /\ ValueOf(tx, c[a].roles) = c[a].roles \cup {r} /\ tx.at = a
  BY <1>3 DEF Writers, FieldOf, ValueOf
<1>6. Effect(c, tx)[a].roles = c[a].roles \cup {r}
  BY <1>4, <1>5, EffectOn
<1>7. Effects(chain, calls)[k] = Effect(c, tx)
  BY <1>1, <1>3, EffectsWalk
<1>8. r \in Effects(chain, calls)[k][a].roles
  BY <1>6, <1>7
<1> QED
  BY <1>1, <1>2, <1>8, RoleLasts

LEMMA BatchTakes ==
  ASSUME NEW calls, Batch(calls), NEW a \in DOMAIN chain, "roles" \in DOMAIN chain[a], NEW r,
         NEW k \in 1 .. Len(calls), calls[k].call = "revokeRole", calls[k].at = a, calls[k].arg = r,
         \A i \in k + 1 .. Len(calls) : calls[i].call = "grantRole" => calls[i].arg # r
  PROVE  r \notin chain'[a].roles
<1>1. /\ Len(calls) \in Nat /\ chain' = Effects(chain, calls)[Len(calls)]
      /\ \A i \in 1 .. Len(calls) : calls[i].call \in Governs
  BY DEF Batch
<1>2. k - 1 \in 0 .. Len(calls) /\ k \in 0 .. Len(calls)
  BY <1>1
<1>3. PICK c, tx : c = Effects(chain, calls)[k - 1] /\ tx = calls[k]
  OBVIOUS
<1>4. a \in DOMAIN c /\ "roles" \in DOMAIN c[a]
  BY <1>1, <1>2, <1>3, BatchKeeps
<1>5. tx.call \in Writers /\ FieldOf(tx.call) = "roles" /\ ValueOf(tx, c[a].roles) = c[a].roles \ {r} /\ tx.at = a
  BY <1>3 DEF Writers, FieldOf, ValueOf
<1>6. Effect(c, tx)[a].roles = c[a].roles \ {r}
  BY <1>4, <1>5, EffectOn
<1>7. Effects(chain, calls)[k] = Effect(c, tx)
  BY <1>1, <1>3, EffectsWalk
<1>8. r \notin Effects(chain, calls)[k][a].roles
  BY <1>6, <1>7
<1> QED
  BY <1>1, <1>2, <1>8, RoleStaysAway

LEMMA BatchLeaves ==
  ASSUME NEW calls, Batch(calls), NEW a \in DOMAIN chain, "roles" \in DOMAIN chain[a], NEW r
  PROVE  /\ r \in chain[a].roles /\ (\A i \in 1 .. Len(calls) : calls[i].call = "revokeRole" => calls[i].arg # r)
              => r \in chain'[a].roles
         /\ r \notin chain[a].roles /\ (\A i \in 1 .. Len(calls) : calls[i].call = "grantRole" => calls[i].arg # r)
              => r \notin chain'[a].roles
<1>1. /\ Len(calls) \in Nat /\ 0 \in 0 .. Len(calls) /\ 0 + 1 = 1 /\ chain' = Effects(chain, calls)[Len(calls)]
      /\ \A i \in 1 .. Len(calls) : calls[i].call \in Governs
  BY DEF Batch
<1>2. Effects(chain, calls)[0] = chain
  BY <1>1, EffectsWalk
<1>3. ASSUME r \in chain[a].roles, \A i \in 1 .. Len(calls) : calls[i].call = "revokeRole" => calls[i].arg # r
      PROVE  r \in chain'[a].roles
  BY <1>1, <1>2, <1>3, RoleLasts
<1>4. ASSUME r \notin chain[a].roles, \A i \in 1 .. Len(calls) : calls[i].call = "grantRole" => calls[i].arg # r
      PROVE  r \notin chain'[a].roles
  BY <1>1, <1>2, <1>4, RoleStaysAway
<1> QED
  BY <1>3, <1>4

HasAll(gov) == AllRoles(gov) \subseteq chain[g.timelockAddress].roles
HasNone(gov) == AllRoles(gov) \cap chain[g.timelockAddress].roles = {}

\* Who holds all the roles of the Timelock: the new governor from before it is
\* written down, governorTwo after proposal 1 or 2, the governor again after 11.
GovernedInv ==
  /\ next = 5 /\ script # "none" /\ pc > 7 => HasAll(this)
  /\ Past(5, 9) /\ ~Past(20, 1) => HasAll(g.governorAddress)
  /\ Past(20, 1) /\ ~Past(24, 1) => HasAll(g.governorTwoAddress)
  /\ Past(24, 1) => HasAll(g.governorAddress) /\ HasNone(g.governorTwoAddress)

LEMMA TimelockInUse ==
  ASSUME Core, [Next]_vars, next > 3
  PROVE  /\ g.timelockAddress \in DOMAIN chain /\ g.timelockAddress[1] = "timelock"
         /\ "roles" \in DOMAIN chain[g.timelockAddress] /\ g.timelockAddress' = g.timelockAddress
<1>1. 3 \in Recorders \ {22, 23} /\ NameAt(3) = "timelockAddress"
  BY DEF Recorders, NameAt
<1>2. g.timelockAddress \in DOMAIN chain /\ g.timelockAddress[1] = "timelock"
  BY <1>1, KindsAt, Earlier
<1>3. g.timelockAddress' = g.timelockAddress
  BY EarlierNames DEF Core, RunsInv, g
<1> QED
  BY <1>2, <1>3, FieldsAre DEF Core, ContractsInv

\* deploy_08_09 checks the roles before it writes the governor down.
LEMMA NewGovernorHasAll ==
  ASSUME Core, GovernedInv, [Next]_vars, next' = 5, script' # "none", pc' > 7
  PROVE  HasAll(this)'
<1>1. OpStep \/ MineOne \/ UNCHANGED vars
  BY Classes, ScriptBegins, ScriptEnds DEF Core
<1>2. /\ script' = script /\ this' = this /\ next = 5 /\ pc \in Nat /\ pc' \in {pc, pc + 1} /\ (pc' # pc => OpStep)
      /\ script # "none"
  BY <1>1, OpAdvances DEF Advance, MineOne, vars, scriptVars, Core, RunsInv
<1>3. PICK a, gov : a = g.timelockAddress /\ gov = this
  OBVIOUS
<1>4. a \in DOMAIN chain /\ a[1] = "timelock" /\ g.timelockAddress' = a
  BY <1>2, <1>3, TimelockInUse
<1>5. CASE pc > 7
  <2>1. AllRoles(gov) \subseteq chain[a].roles
    BY <1>2, <1>3, <1>5 DEF GovernedInv, HasAll
  <2>2. gov # Deployer
    <3>1. script = "08_09"
      BY <1>2, RunningAt, OrderIs DEF Core
    <3>2. KindOf(script) # "none"
      BY <3>1 DEF KindOf, Kind
    <3> QED BY <1>2, <1>3, <3>2, Accounts DEF Core, ThisInv
  <2>3. ~ExecuteProposal
    BY <1>2, ProposalPasses DEF Core
  <2>4. AllRoles(gov) \subseteq chain'[a].roles
    BY <1>4, <2>1, <2>2, <2>3, GovernorKeeps
  <2> QED BY <1>2, <1>3, <1>4, <2>4 DEF HasAll, AllRoles, Roles
<1>6. CASE pc = 7
  <2>1. OpStep
    BY <1>2, <1>6
  <2>2. Current = ExpectRoles(g.timelockAddress, AllRoles(this), {})
    BY <1>2, <1>6, <2>1, StepTable, OpAdvances DEF Core, Rows, Places
  <2>3. RolesMatch(ExpectRoles(g.timelockAddress, AllRoles(this), {})) /\ chain' = chain
    BY <2>1, <2>2, Checked DEF ExpectRoles
  <2>4. AllRoles(gov) \subseteq chain'[a].roles
    BY <1>3, <2>3 DEF RolesMatch, ExpectRoles
  <2> QED BY <1>2, <1>3, <1>4, <2>4 DEF HasAll, AllRoles, Roles
<1> QED
  BY <1>2, <1>5, <1>6

\* The governor written down has all roles until proposal 1 or 2.
LEMMA FirstGovernorHasAll ==
  ASSUME Core, GovernedInv, [Next]_vars, Past(5, 9)', ~Past(20, 1)'
  PROVE  HasAll(g.governorAddress)'
<1>0. RunsInv /\ next \in 1 .. 30 /\ pc \in Nat
  BY DEF Core, RunsInv
<1>1. ~ExecuteProposal
  <2>1. ExecuteProposal => next \in {20, 21, 24, 25} /\ Past(next, 1)' /\ next' = next
    BY <1>0, ProposalPasses
  <2>2. next' > 20 => Past(20, 1)'
    BY DEF Past
  <2> QED BY <2>1, <2>2
<1>2. Past(5, 9) \/ (OpStep /\ next = 5 /\ script # "none" /\ pc = 9)
  BY <1>0, PastStep DEF Lengths
<1>3. next >= 5
  BY <1>0, <1>2 DEF Past
<1>4. PICK a : a = g.timelockAddress
  OBVIOUS
<1>5. a \in DOMAIN chain /\ a[1] = "timelock" /\ g.timelockAddress' = a
  BY <1>0, <1>3, <1>4, TimelockInUse
<1>6. CASE Past(5, 9)
  <2>1. PICK gov : gov = g.governorAddress
    OBVIOUS
  <2>2. ~Past(20, 1)
    <3>1. Lengths[20] = 1
      BY DEF Lengths
    <3> QED BY <1>0, <3>1, PassedStays
  <2>3. AllRoles(gov) \subseteq chain[a].roles
    BY <1>4, <1>6, <2>1, <2>2 DEF GovernedInv, HasAll
  <2>4. g.governorAddress' = gov
    <3>1. next <= 20
      BY <1>0, <2>2 DEF Past
    <3>2. ~(script # "none" /\ pc = RecordedAt(next) /\ NameAt(next) = "governorAddress")
      BY <1>0, <1>3, <1>6, <3>1 DEF Past, RecordedAt, NameAt
    <3> QED BY <2>1, <3>2, NameStays DEF Core, GlobalNames, g
  <2>5. gov # Deployer
    <3>1. Recorded(5) /\ NameAt(5) = "governorAddress"
      BY <1>6 DEF Core, RecordedInv, Recorders, RecordedAt, NameAt
    <3>2. gov \in DOMAIN chain
      BY <2>1, <3>1 DEF Recorded, Matches
    <3> QED BY <3>2, Accounts DEF Core, ContractsInv
  <2>6. AllRoles(gov) \subseteq chain'[a].roles
    BY <1>1, <1>5, <2>3, <2>5, GovernorKeeps
  <2> QED BY <1>5, <2>4, <2>6 DEF HasAll, AllRoles, Roles
<1>7. CASE OpStep /\ next = 5 /\ script # "none" /\ pc = 9
  <2>1. PICK gov : gov = this
    OBVIOUS
  <2>2. RecordAddress
    <3>1. Rows /\ Running /\ <<next, pc>> \in RecordPlaces
      BY <1>0, <1>7, StepTable, OpAdvances DEF RecordPlaces
    <3> QED BY <1>7, <3>1, OpOf DEF Rows, Places
  <2>3. globals'["governorAddress"] = gov /\ chain' = chain
    <3>1. NameAt(next) = "governorAddress"
      BY <1>7 DEF NameAt
    <3> QED BY <2>1, <2>2, <3>1, RecordsThis DEF Core, RecordAddress, chainVars
  <2>4. AllRoles(gov) \subseteq chain[a].roles
    BY <1>4, <1>7, <2>1 DEF GovernedInv, HasAll
  <2> QED BY <1>5, <2>3, <2>4 DEF HasAll, AllRoles, Roles, g
<1> QED
  BY <1>2, <1>6, <1>7

\* Then governorTwo has them, until proposal 11.
LEMMA SecondGovernorHasAll ==
  ASSUME Core, GovernedInv, [Next]_vars, Past(20, 1)', ~Past(24, 1)'
  PROVE  HasAll(g.governorTwoAddress)'
<1>0. RunsInv /\ next \in 1 .. 30 /\ pc \in Nat
  BY DEF Core, RunsInv
<1>1. Past(20, 1) \/ (OpStep /\ next = 20 /\ script # "none" /\ pc = 1)
  BY <1>0, PastStep DEF Lengths
<1>2. next >= 20
  BY <1>0, <1>1 DEF Past
<1>3. PICK a, gov : a = g.timelockAddress /\ gov = g.governorTwoAddress
  OBVIOUS
<1>4. a \in DOMAIN chain /\ a[1] = "timelock" /\ g.timelockAddress' = a /\ "roles" \in DOMAIN chain[a]
  BY <1>0, <1>2, <1>3, TimelockInUse
<1>5. g.governorTwoAddress' = gov
  BY <1>0, <1>2, <1>3, EarlierNames DEF Core, g
<1>6. gov # Deployer
  BY <1>0, <1>2, <1>3, EarlierAddresses, Accounts DEF Core, ContractsInv
<1>7. CASE Past(20, 1)
  <2>1. ~Past(24, 1)
    <3>1. Lengths[24] = 1
      BY DEF Lengths
    <3> QED BY <1>0, <3>1, PassedStays
  <2>2. AllRoles(gov) \subseteq chain[a].roles
    BY <1>3, <1>7, <2>1 DEF GovernedInv, HasAll
  <2>3. CASE ~ExecuteProposal
    <3>1. AllRoles(gov) \subseteq chain'[a].roles
      BY <1>4, <1>6, <2>2, <2>3, GovernorKeeps
    <3> QED BY <1>4, <1>5, <3>1 DEF HasAll, AllRoles, Roles
  <2>4. CASE ExecuteProposal
    <3>1. next \in {20, 21, 24, 25} /\ Past(next, 1)' /\ pc = 1 /\ next' = next
      BY <1>0, <2>4, ProposalPasses
    <3>2. next = 21
      BY <1>7, <3>1 DEF Past
    <3>3. PICK calls : Batch(calls) /\ \A k \in 1 .. Len(calls) : calls[k].call \notin {"grantRole", "revokeRole"}
      BY <1>0, <2>4, <3>2, ProposalTable
    <3>4. AllRoles(gov) \subseteq chain'[a].roles
      BY <1>4, <2>2, <3>3, BatchLeaves
    <3> QED BY <1>4, <1>5, <3>4 DEF HasAll, AllRoles, Roles
  <2> QED BY <2>3, <2>4
<1>8. CASE OpStep /\ next = 20 /\ script # "none" /\ pc = 1
  <2>1. ExecuteProposal
    <3>1. Rows /\ Running
      BY <1>0, <1>8, StepTable, OpAdvances
    <3>2. <<next, pc>> \in {<<20, 1>>, <<24, 1>>, <<25, 1>>}
      BY <1>8
    <3> QED BY <1>8, <3>1, <3>2, OpOf DEF Rows, Places
  <2>2. PICK calls : Batch(calls) /\ ToGovernorTwo(calls)
    BY <1>0, <1>8, <2>1, ProposalTable
  <2>3. ASSUME NEW r \in AllRoles(gov) PROVE r \in chain'[a].roles
    <3>1. PICK role \in Roles : r = <<role, gov>>
      BY DEF AllRoles
    <3>2. PICK k \in 5 .. 8 : Grants(calls, k, role, g.governorTwoAddress)
      BY <2>2 DEF ToGovernorTwo
    <3>3. k \in 1 .. Len(calls) /\ calls[k].call = "grantRole" /\ calls[k].at = a /\ calls[k].arg = r
      BY <1>3, <3>1, <3>2 DEF Grants, GrantRole
    <3>4. \A i \in k + 1 .. Len(calls) : calls[i].call # "revokeRole"
      <4>1. Len(calls) \in Nat
        BY <2>2 DEF Batch
      <4>2. \A i \in k + 1 .. Len(calls) : i \in 5 .. Len(calls)
        BY <4>1
      <4> QED BY <2>2, <4>2 DEF ToGovernorTwo
    <3> QED BY <1>4, <2>2, <3>3, <3>4, BatchGives
  <2> QED BY <1>4, <1>5, <2>3 DEF HasAll, AllRoles, Roles
<1> QED
  BY <1>1, <1>7, <1>8

\* Then the new governor has them, and governorTwo has none.
LEMMA LastGovernorHasAll ==
  ASSUME Core, GivenInv, ReplacedInv, GovernedInv, [Next]_vars, Past(24, 1)'
  PROVE  HasAll(g.governorAddress)' /\ HasNone(g.governorTwoAddress)'
<1>0. RunsInv /\ next \in 1 .. 30 /\ pc \in Nat
  BY DEF Core, RunsInv
<1>1. Past(24, 1) \/ (OpStep /\ next = 24 /\ script # "none" /\ pc = 1)
  BY <1>0, PastStep DEF Lengths
<1>2. next >= 24
  BY <1>0, <1>1 DEF Past
<1>3. PICK a, gov, two : a = g.timelockAddress /\ gov = g.governorAddress /\ two = g.governorTwoAddress
  OBVIOUS
<1>4. a \in DOMAIN chain /\ a[1] = "timelock" /\ g.timelockAddress' = a /\ "roles" \in DOMAIN chain[a]
  BY <1>0, <1>2, <1>3, TimelockInUse
<1>5. g.governorAddress' = gov /\ g.governorTwoAddress' = two
  BY <1>0, <1>2, <1>3, EarlierNames DEF Core, g
<1>6. gov \in Governors /\ two \in Governors /\ gov \in Address /\ gov # Deployer /\ gov # two
  <2>1. gov \in Governors /\ two \in Governors /\ gov \in DOMAIN chain
    BY <1>0, <1>2, <1>3, EarlierAddresses DEF Governors
  <2>2. gov # two
    <3>1. Past(10, 2)
      BY <1>0, <1>2 DEF Past
    <3> QED BY <1>3, <3>1 DEF ReplacedInv
  <2> QED BY <2>1, <2>2, Accounts DEF Core, ContractsInv
<1>7. CASE Past(24, 1)
  <2>1. AllRoles(gov) \subseteq chain[a].roles /\ AllRoles(two) \cap chain[a].roles = {}
    BY <1>3, <1>7 DEF GovernedInv, HasAll, HasNone
  <2>2. CASE ~ExecuteProposal
    <3>1. AllRoles(gov) \subseteq chain'[a].roles
      BY <1>4, <1>6, <2>1, <2>2, GovernorKeeps
    <3>2. <<"admin", Deployer>> \notin chain[a].roles
      BY <1>0, <1>2, <1>3 DEF GivenInv, Past, HasRole
    <3>3. chain'[a].roles \subseteq chain[a].roles
      <4>1. Stays(a)
        BY <1>4, ContractsStay DEF Core
      <4>2. ~HasRole(a, "admin", Deployer)
        BY <3>2 DEF HasRole
      <4> QED BY <1>4, <2>2, <4>1, <4>2 DEF Stays
    <3> QED BY <1>4, <1>5, <2>1, <3>1, <3>3 DEF HasAll, HasNone, AllRoles, Roles
  <2>3. CASE ExecuteProposal
    <3>1. next \in {20, 21, 24, 25} /\ pc = 1
      BY <1>0, <2>3, ProposalPasses
    <3>2. next = 25
      BY <1>7, <3>1 DEF Past
    <3>3. PICK calls : Batch(calls) /\ HandsOver(calls)
      BY <1>0, <2>3, <3>2, ProposalTable
    <3>4. <<"canceller", CM>> \notin AllRoles(gov)
      BY <1>6, Outsiders DEF AllRoles
    <3>5. \A r \in AllRoles(gov) : r \in chain'[a].roles
      BY <1>4, <2>1, <3>3, <3>4, BatchLeaves DEF HandsOver
    <3>6. \A r \in AllRoles(two) : r \notin chain'[a].roles
      BY <1>4, <2>1, <3>3, BatchLeaves DEF HandsOver
    <3> QED BY <1>4, <1>5, <3>5, <3>6 DEF HasAll, HasNone, AllRoles, Roles
  <2> QED BY <2>2, <2>3
<1>8. CASE OpStep /\ next = 24 /\ script # "none" /\ pc = 1
  <2>1. ExecuteProposal
    <3>1. Rows /\ Running
      BY <1>0, <1>8, StepTable, OpAdvances
    <3>2. <<next, pc>> \in {<<20, 1>>, <<24, 1>>, <<25, 1>>}
      BY <1>8
    <3> QED BY <1>8, <3>1, <3>2, OpOf DEF Rows, Places
  <2>2. PICK calls : Batch(calls) /\ ToGovernor(calls)
    BY <1>0, <1>8, <2>1, ProposalTable
  <2>3. ASSUME NEW r \in AllRoles(gov) PROVE r \in chain'[a].roles
    <3>1. PICK role \in Roles : r = <<role, gov>>
      BY DEF AllRoles
    <3>2. PICK k \in 1 .. 4 : Grants(calls, k, role, g.governorAddress)
      BY <2>2 DEF ToGovernor
    <3>3. k \in 1 .. Len(calls) /\ calls[k].call = "grantRole" /\ calls[k].at = a /\ calls[k].arg = r
      BY <1>3, <3>1, <3>2 DEF Grants, GrantRole
    <3>4. r \notin AllRoles(two)
      BY <1>6, <3>1 DEF AllRoles
    <3>5. \A i \in k + 1 .. Len(calls) : calls[i].call = "revokeRole" => calls[i].arg # r
      <4>1. Len(calls) \in Nat
        BY <2>2 DEF Batch
      <4>2. \A i \in k + 1 .. Len(calls) : i \in 1 .. Len(calls)
        BY <4>1
      <4> QED BY <1>3, <2>2, <3>4, <4>2 DEF ToGovernor
    <3> QED BY <1>4, <2>2, <3>3, <3>5, BatchGives
  <2>4. ASSUME NEW r \in AllRoles(two) PROVE r \notin chain'[a].roles
    <3>1. PICK role \in Roles : r = <<role, two>>
      BY DEF AllRoles
    <3>2. PICK k \in 5 .. 8 : Revokes(calls, k, role, g.governorTwoAddress)
      BY <2>2 DEF ToGovernor
    <3>3. k \in 1 .. Len(calls) /\ calls[k].call = "revokeRole" /\ calls[k].at = a /\ calls[k].arg = r
      BY <1>3, <3>1, <3>2 DEF Revokes, RevokeRole
    <3>4. \A i \in k + 1 .. Len(calls) : calls[i].call # "grantRole"
      <4>1. Len(calls) \in Nat
        BY <2>2 DEF Batch
      <4>2. \A i \in k + 1 .. Len(calls) : i \in 5 .. Len(calls)
        BY <4>1
      <4> QED BY <2>2, <4>2 DEF ToGovernor
    <3> QED BY <1>4, <2>2, <3>3, <3>4, BatchTakes
  <2> QED BY <1>4, <1>5, <2>3, <2>4 DEF HasAll, HasNone, AllRoles, Roles
<1> QED
  BY <1>1, <1>7, <1>8

LEMMA GovernedStep ==
  ASSUME Core, GivenInv, ReplacedInv, GovernedInv, [Next]_vars
  PROVE  GovernedInv'
<1>1. (next = 5 /\ script # "none" /\ pc > 7)' => HasAll(this)'
  BY NewGovernorHasAll
<1>2. Past(5, 9)' /\ ~Past(20, 1)' => HasAll(g.governorAddress)'
  BY FirstGovernorHasAll
<1>3. Past(20, 1)' /\ ~Past(24, 1)' => HasAll(g.governorTwoAddress)'
  BY SecondGovernorHasAll
<1>4. Past(24, 1)' => HasAll(g.governorAddress)' /\ HasNone(g.governorTwoAddress)'
  BY LastGovernorHasAll
<1> QED
  BY <1>1, <1>2, <1>3, <1>4 DEF GovernedInv

(***************************************************************************)
(* Theorems: the Timelock stays governable, the deployer gives up all      *)
(***************************************************************************)

\* The inductive invariant of the first two theorems.
GovernanceInv == Core /\ TimelocksInv /\ GivenInv /\ ReplacedInv /\ BridgesInv /\ GovernedInv

LEMMA GovernanceInvInit ==
  ASSUME Init
  PROVE  GovernanceInv
<1>1. next = 1 /\ script = "none" /\ DOMAIN chain = {CM}
  BY DEF Init, ChainInit
<1>2. Deployed("timelock") = {} /\ Deployed("guard") = {}
  BY <1>1, Multisig DEF Deployed
<1>3. TimelocksInv
  BY <1>2 DEF TimelocksInv
<1>4. GivenInv /\ GovernedInv /\ ReplacedInv
  BY <1>1 DEF GivenInv, GovernedInv, ReplacedInv, Past
<1>5. BridgesInv
  BY <1>1, <1>2 DEF BridgesInv, Past
<1> QED
  BY <1>3, <1>4, <1>5, CoreInit DEF GovernanceInv

LEMMA GovernanceInvStep ==
  ASSUME GovernanceInv, [Next]_vars
  PROVE  GovernanceInv'
BY CoreStep, TimelocksStep, GivenStep, ReplacedStep, BridgesStep, GovernedStep DEF GovernanceInv

\* Contracts, names, pending transactions and roles are as the tables say, however
\* the scripts failed and were repeated.
THEOREM GovernanceInvAlways == Spec => []GovernanceInv
<1>1. Init => GovernanceInv
  BY GovernanceInvInit
<1>2. GovernanceInv /\ [Next]_vars => GovernanceInv'
  BY GovernanceInvStep
<1> QED
  BY <1>1, <1>2, PTL DEF Spec

\* One of the two names is a governor with all roles.
LEMMA GovernorsWritten ==
  ASSUME GovernanceInv, next > 5
  PROVE  TimelockStaysGovernable
<1>0. next \in 6 .. 30
  BY DEF GovernanceInv, Core, RunsInv
<1>1. g.governorAddress # NoAddress
  <2>1. g.governorAddress \in Address
    BY <1>0, EarlierAddresses DEF GovernanceInv, Core, ContractsInv
  <2> QED BY <2>1, Accounts
<1>2. CASE Past(20, 1) /\ ~Past(24, 1)
  <2>1. next > 10
    BY <1>0, <1>2 DEF Past
  <2>2. g.governorTwoAddress \in Address
    BY <2>1, EarlierAddresses DEF GovernanceInv, Core, ContractsInv
  <2>3. HasAll(g.governorTwoAddress) /\ g.governorTwoAddress # NoAddress
    BY <1>2, <2>2, Accounts DEF GovernanceInv, GovernedInv
  <2> QED BY <2>3 DEF TimelockStaysGovernable, HasAll
<1>3. CASE ~Past(20, 1) \/ Past(24, 1)
  <2>1. Past(5, 9)
    BY <1>0 DEF Past
  <2>2. HasAll(g.governorAddress)
    BY <1>3, <2>1 DEF GovernanceInv, GovernedInv
  <2> QED BY <1>1, <2>2 DEF TimelockStaysGovernable, HasAll
<1> QED
  BY <1>2, <1>3

\* From the end of deploy_08_09 on a governor that is written down holds all the
\* roles of the Timelock, whatever fails, is repeated or is executed.
THEOREM TimelockStaysGovernableAlways == Spec => []TimelockStaysGovernable
<1>1. ASSUME GovernanceInv PROVE TimelockStaysGovernable
  <2>1. Position("08_09") = 5
    BY OrderIs, PositionOf
  <2>2. CASE next > 5
    BY <1>1, <2>2, GovernorsWritten
  <2>3. CASE ~(next > 5)
    BY <2>1, <2>3 DEF TimelockStaysGovernable, Done
  <2> QED BY <2>2, <2>3
<1> QED
  BY <1>1, GovernanceInvAlways, PTL

\* After deploy_12_15 the deployer's key owns and mints nothing and has no role of
\* the Timelock in use, and no transaction that is still pending gives that back.
THEOREM DeployerGivesUpEverythingAlways == Spec => []DeployerGivesUpEverything
<1>1. ASSUME GovernanceInv PROVE DeployerGivesUpEverything
  <2>1. SUFFICES ASSUME next > 8 PROVE DeployerGivesUpEverything
    <3>1. Position("12_15") = 8
      BY PositionIs
    <3> QED BY <3>1 DEF DeployerGivesUpEverything, Done
  <2>2. next \in 9 .. 30 /\ Core /\ TimelocksInv /\ GivenInv
    BY <1>1, <2>1 DEF GovernanceInv, Core, RunsInv
  <2>3. /\ chain[g.olasAddress].owner = g.timelockAddress /\ chain[g.olasAddress].minter # Deployer
        /\ chain[g.buOLASAddress].owner = g.timelockAddress /\ chain[g.deploymentFactory].owner = DEAD
        /\ ~HasRole(g.timelockAddress, "admin", Deployer)
    BY <2>2 DEF GivenInv, Past
  <2>4. g.timelockAddress \in DOMAIN chain /\ g.timelockAddress \in {"timelock"} \X Nat
    BY <2>2, EarlierAddresses
  <2>5. g.timelockAddress # Deployer /\ g.timelockAddress \in Deployed("timelock")
    BY <2>2, <2>4, Accounts DEF Core, ContractsInv, Deployed
  <2>6. \A role \in Roles : ~HasRole(g.timelockAddress, role, Deployer)
    BY <2>2, <2>3, <2>5 DEF TimelocksInv, HasRole
  <2> QED BY <2>3, <2>5, <2>6 DEF DeployerGivesUpEverything
<1> QED
  BY <1>1, GovernanceInvAlways, PTL

(***************************************************************************)
(* What changes hands after its deployment: the bridged token, the peers   *)
(* of the two tunnels, VoteWeighting                                       *)
(***************************************************************************)

\* By the position of the script that deploys it: the script that hands it over
\* and the operation, the network, the call, the field, and its value before.
Handovers == {12, 13, 14, 17}
HandedBy(n) == CASE n \in {12, 14} -> 15 [] n = 13 -> 16 [] n = 17 -> 25
HandedAt(n) == IF n \in {14, 17} THEN 2 ELSE 1
NetOf(n) == IF n = 13 THEN "L2" ELSE "L1"
CallOf(n) == IF n \in {12, 17} THEN "changeOwner" ELSE "setTunnel"
HandedField(n) == IF n \in {12, 17} THEN "owner" ELSE "peer"
Before(n) == IF n \in {12, 17} THEN Deployer ELSE NoAddress
NewName(n) == CASE n \in {12, 13} -> "fxERC20RootTunnelAddress" [] n = 14 -> "fxERC20ChildTunnelAddress"
                [] n = 17 -> "timelockAddress"

Underway(n, a) == {tx \in Flight(NetOf(n)) : tx.call = CallOf(n) /\ tx.at = a}
Unhanded(n, a) == Underway(n, a) = {} /\ chain[a][HandedField(n)] = Before(n)

\* On its way: nothing else is submitted, and when it has been submitted it is
\* still underway or has arrived.
Handed(n, a, new, sent) ==
  /\ \A tx \in Underway(n, a) : tx.arg = new
  /\ \/ chain[a][HandedField(n)] = new
     \/ chain[a][HandedField(n)] = Before(n) /\ (sent => Underway(n, a) # {})

HandingInv ==
  \A n \in Handovers :
    /\ next = n /\ script # "none" /\ pc > BuiltAt(Order[n]) => Unhanded(n, this)
    /\ Past(n, RecordedAt(n)) /\ next < HandedBy(n) => Unhanded(n, g[NameAt(n)])
    /\ next >= HandedBy(n) => Handed(n, g[NameAt(n)], g[NewName(n)], Past(HandedBy(n), HandedAt(n)))

LEMMA HandoversAre ==
  ASSUME NEW n \in Handovers
  PROVE  /\ n \in 1 .. 29 /\ n \in Recorders \ {5, 11, 20, 22, 23}
         /\ HandedBy(n) \in (1 .. 27) \ {22, 23} /\ HandedBy(n) > n /\ HandedAt(n) \in 1 .. Lengths[HandedBy(n)]
         /\ RecordedAt(n) \in Nat /\ BuiltAt(Order[n]) \in Nat /\ RecordedAt(n) > BuiltAt(Order[n])
         /\ HandedField(n) \in FieldsOf(KindOf(Order[n])) /\ NetOf(n) \in Networks
<1>1. /\ n \in 1 .. 29 /\ n \in Recorders \ {5, 11, 20, 22, 23}
      /\ HandedBy(n) \in (1 .. 27) \ {22, 23} /\ HandedBy(n) > n /\ NetOf(n) \in Networks
  BY DEF Handovers, Recorders, HandedBy, NetOf, Networks
<1>2. HandedAt(n) \in 1 .. Lengths[HandedBy(n)]
  BY DEF Handovers, HandedBy, HandedAt, Lengths
<1>3. RecordedAt(n) \in Nat /\ BuiltAt(Order[n]) \in Nat /\ RecordedAt(n) > BuiltAt(Order[n])
  <2>1. RecordedAt(n) \in Nat /\ BuiltAt(Order[n]) \in Nat
    BY DEF RecordedAt, BuiltAt
  <2> QED BY <1>1, <2>1, ScriptsBuild
<1>4. HandedField(n) \in FieldsOf(KindOf(Order[n]))
  <2>1. n \in {12, 13, 14, 17}
    BY DEF Handovers
  <2>2. /\ n = 12 => HandedField(n) = "owner" /\ FieldsOf(KindOf(Order[n])) = {"owner"}
        /\ n = 13 => HandedField(n) = "peer" /\ FieldsOf(KindOf(Order[n])) = {"rootToken", "peer"}
        /\ n = 14 => HandedField(n) = "peer" /\ FieldsOf(KindOf(Order[n])) = {"rootToken", "peer"}
        /\ n = 17 => HandedField(n) = "owner" /\ FieldsOf(KindOf(Order[n])) = {"owner", "ve"}
    BY KindsAt, FieldsAre DEF HandedField
  <2> QED BY <2>1, <2>2
<1> QED
  BY <1>1, <1>2, <1>3, <1>4

\* How the field can change: one of the transactions underway is mined, and takes
\* effect only when the field has the value from before; or one more is submitted.
Moves(n, a) ==
  \/ chain'[a][HandedField(n)] = chain[a][HandedField(n)] /\ Underway(n, a)' = Underway(n, a)
  \/ \E tx \in Underway(n, a) :
       /\ Underway(n, a)' \subseteq Underway(n, a)
       /\ chain'[a][HandedField(n)] = IF chain[a][HandedField(n)] = Before(n) THEN tx.arg ELSE chain[a][HandedField(n)]
  \/ /\ SendTransaction /\ chain'[a][HandedField(n)] = chain[a][HandedField(n)]
     /\ Current.net = NetOf(n) /\ Current.tx.call = CallOf(n) /\ Current.tx.at = a
     /\ Underway(n, a)' = Underway(n, a) \cup {Current.tx}

\* The oldest transaction is mined: one of those underway, or another one.
LEMMA MineMoves ==
  ASSUME Core, NEW n \in Handovers, NEW a \in DOMAIN chain, a[1] = KindOf(Order[n]), MineOne
  PROVE  Moves(n, a)
<1>1. PICK net \in Networks : Mine(net)
  BY DEF MineOne
<1>2. PICK tx : Mines(net, tx)
  BY <1>1, MinedTx DEF Core
<1>3. /\ tx \in Txs(net) /\ tx \in L1Txs \cup L2Txs
      /\ Flight(net) = {tx} \cup Flight(net)'
      /\ \A other \in Networks \ {net} : Flight(other)' = Flight(other)
  BY <1>2 DEF Mines
<1>4. HandedField(n) \in DOMAIN chain[a] /\ NetOf(n) \in Networks
  BY HandoversAre DEF Core, ContractsInv
<1>5. CASE tx.call = CallOf(n) /\ tx.at = a
  <2>1. net = NetOf(n)
    <3>1. CASE n \in {12, 17}
      <4>1. tx.call = "changeOwner" /\ NetOf(n) = "L1"
        BY <1>5, <3>1 DEF CallOf, NetOf
      <4>2. tx \notin L2Txs
        BY <4>1 DEF L2Txs
      <4> QED BY <1>3, <4>1, <4>2 DEF Txs, Networks
    <3>2. CASE n = 13
      <4>1. tx.call = "setTunnel" /\ a[1] = "child" /\ NetOf(n) = "L2"
        BY <1>5, <3>2, KindsAt DEF CallOf, NetOf
      <4>2. \A x \in {"root"} \X Nat : x[1] # "child"
        OBVIOUS
      <4>3. tx \notin L1Txs
        BY <1>5, <4>1, <4>2 DEF L1Txs
      <4> QED BY <1>3, <4>1, <4>3 DEF Txs, Networks
    <3>3. CASE n = 14
      <4>1. tx.call = "setTunnel" /\ a[1] = "root" /\ NetOf(n) = "L1"
        BY <1>5, <3>3, KindsAt DEF CallOf, NetOf
      <4>2. \A x \in {"child"} \X Nat : x[1] # "root"
        OBVIOUS
      <4>3. tx \notin L2Txs
        BY <1>5, <4>1, <4>2 DEF L2Txs
      <4> QED BY <1>3, <4>1, <4>3 DEF Txs, Networks
    <3> QED BY <3>1, <3>2, <3>3 DEF Handovers
  <2>2. tx \in Underway(n, a) /\ Underway(n, a)' \subseteq Underway(n, a)
    BY <1>3, <1>5, <2>1 DEF Underway
  <2>3. Succeeds(tx, Deployer) <=> chain[a][HandedField(n)] = Before(n)
    BY <1>5 DEF Succeeds, CallOf, HandedField, Before
  <2>4. CASE ~Succeeds(tx, Deployer)
    <3>1. chain' = chain
      BY <1>2, <2>4 DEF Mines
    <3> QED BY <2>2, <2>3, <2>4, <3>1 DEF Moves
  <2>5. CASE Succeeds(tx, Deployer)
    <3>1. chain' = Effect(chain, tx)
      BY <1>2, <2>5 DEF Mines
    <3>2. tx.call \in Writers /\ FieldOf(tx.call) = HandedField(n)
      BY <1>5 DEF CallOf, HandedField, FieldOf, Writers
    <3>3. ValueOf(tx, chain[a][HandedField(n)]) = tx.arg
      BY <1>5 DEF CallOf, ValueOf
    <3>4. chain'[a][HandedField(n)] = tx.arg
      BY <1>4, <1>5, <3>1, <3>2, <3>3, EffectOn
    <3> QED BY <2>2, <2>3, <2>5, <3>4 DEF Moves
  <2> QED BY <2>4, <2>5
<1>6. CASE ~(tx.call = CallOf(n) /\ tx.at = a)
  <2>1. Underway(n, a)' = Underway(n, a)
    BY <1>3, <1>4, <1>6 DEF Underway
  <2>2. CASE ~Succeeds(tx, Deployer)
    <3>1. chain' = chain
      BY <1>2, <2>2 DEF Mines
    <3> QED BY <2>1, <3>1 DEF Moves
  <2>3. CASE Succeeds(tx, Deployer)
    <3>1. chain' = Effect(chain, tx)
      BY <1>2, <2>3 DEF Mines
    <3>2. MinedOn(tx, a)
      BY <1>3, <2>3, <3>1, MineEffect
    <3>3. chain'[a][HandedField(n)] = chain[a][HandedField(n)]
      BY <1>4, <1>6, <3>2 DEF MinedOn, CallOf, HandedField
    <3> QED BY <2>1, <3>3 DEF Moves
  <2> QED BY <2>2, <2>3
<1> QED
  BY <1>5, <1>6

LEMMA StepMoves ==
  ASSUME Core, [Next]_vars, NEW n \in Handovers, NEW a \in DOMAIN chain, a[1] = KindOf(Order[n])
  PROVE  Moves(n, a)
<1>1. HandedField(n) \in DOMAIN chain[a] /\ NetOf(n) \in Networks
  BY HandoversAre DEF Core, ContractsInv
<1>2. CASE MineOne
  BY <1>2, MineMoves
<1>3. CASE SendTransaction
  <2>1. PICK net, tx : net = Current.net /\ tx = Current.tx /\ Submitted(net, tx)
    BY <1>3, SentTx
  <2>2. chain' = chain
    BY <1>3 DEF SendTransaction
  <2>3. CASE net = NetOf(n) /\ tx.call = CallOf(n) /\ tx.at = a
    <3>1. Underway(n, a)' = Underway(n, a) \cup {tx}
      BY <2>1, <2>3 DEF Submitted, Underway
    <3> QED BY <1>3, <2>1, <2>2, <2>3, <3>1 DEF Moves
  <2>4. CASE ~(net = NetOf(n) /\ tx.call = CallOf(n) /\ tx.at = a)
    <3>1. Underway(n, a)' = Underway(n, a)
      BY <1>1, <2>1, <2>4 DEF Submitted, Underway
    <3> QED BY <2>2, <3>1 DEF Moves
  <2> QED BY <2>3, <2>4
<1>4. CASE ~MineOne /\ ~SendTransaction
  <2>1. pending' = pending
    BY <1>4, PendingWaits
  <2>2. Underway(n, a)' = Underway(n, a)
    BY <2>1 DEF Underway, Flight
  <2>3. CASE chain' = chain
    BY <2>2, <2>3 DEF Moves
  <2>4. CASE DeployContract
    <3>1. chain'[a] = chain[a]
      BY <2>4, DeploysNew, DeployOn DEF Core
    <3> QED BY <2>2, <3>1 DEF Moves
  <2>5. CASE ExecuteProposal
    <3>1. PICK calls : Batch(calls)
      BY <2>5, ProposalTable DEF Core
    <3>2. /\ Len(calls) \in Nat /\ Len(calls) \in 0 .. Len(calls) /\ chain' = Effects(chain, calls)[Len(calls)]
          /\ \A i \in 1 .. Len(calls) : calls[i].call \in Governs
      BY <3>1 DEF Batch
    <3>3. HandedField(n) \notin {"roles", "minter", "guard", "bridges"}
      BY DEF HandedField
    <3>4. chain'[a][HandedField(n)] = chain[a][HandedField(n)]
      BY <1>1, <3>2, <3>3, BatchKeeps
    <3> QED BY <2>2, <3>4 DEF Moves
  <2> QED BY <1>4, <2>3, <2>4, <2>5, ChainWaits
<1> QED
  BY <1>2, <1>3, <1>4

\* Nothing is submitted before the script that hands over.
LEMMA SendsLater ==
  ASSUME RunsInv, NEW n \in Handovers, next >= n, next < HandedBy(n), SendTransaction
  PROVE  Current.net # NetOf(n)
<1>1. Running /\ script # "none" /\ Current.op = "send"
  BY DEF SendTransaction, Running
<1>2. Submits
  BY <1>1, StepTable DEF Rows
<1>3. next \in 1 .. 30
  BY DEF RunsInv
<1>4. next \in 12 .. 15 \/ next \in 17 .. 24
  BY <1>3 DEF Handovers, HandedBy
<1>5. next = 15 /\ Current.net = "L1"
  BY <1>2, <1>4 DEF Submits, Sent
<1>6. n = 13
  BY <1>5 DEF Handovers, HandedBy
<1> QED
  BY <1>5, <1>6 DEF NetOf

LEMMA UnhandedStays ==
  ASSUME Core, [Next]_vars, NEW n \in Handovers, next >= n, next < HandedBy(n),
         NEW a \in DOMAIN chain, a[1] = KindOf(Order[n]), Unhanded(n, a)
  PROVE  Unhanded(n, a)'
<1>1. Moves(n, a)
  BY StepMoves
<1>2. SendTransaction => Current.net # NetOf(n)
  BY SendsLater DEF Core
<1>3. chain'[a][HandedField(n)] = chain[a][HandedField(n)] /\ Underway(n, a)' = {}
  BY <1>1, <1>2 DEF Moves, Unhanded
<1> QED
  BY <1>3 DEF Unhanded, HandedField, Before

LEMMA NextGrows ==
  ASSUME RunsInv, [Next]_vars, ~StartOver
  PROVE  next' = next \/ ((Finish \/ ReturnsEarly) /\ next' = next + 1)
BY DEF Next, ScriptStep, Start, DeployContract, SendTransaction, Check, RecordAddress, Advance,
       ExecuteProposal, Finish, ReturnsEarly, ExitZero, Throws, Breaks, Exit, Rerun, MineOne, vars

LEMMA HandedNames ==
  /\ NameAt(12) = "bridgedERC20Address" /\ NameAt(13) = "fxERC20ChildTunnelAddress"
  /\ NameAt(14) = "fxERC20RootTunnelAddress" /\ NameAt(17) = "voteWeightingAddress"
<1>1. NameAt(12) = "bridgedERC20Address"
  BY DEF NameAt
<1>2. NameAt(13) = "fxERC20ChildTunnelAddress"
  BY DEF NameAt
<1>3. NameAt(14) = "fxERC20RootTunnelAddress"
  BY DEF NameAt
<1>4. NameAt(17) = "voteWeightingAddress"
  BY DEF NameAt
<1> QED
  BY <1>1, <1>2, <1>3, <1>4

\* A new contract: the key's transactions of that network are mined before it is.
LEMMA NewUnhanded ==
  ASSUME Core, HandingInv, [Next]_vars, NEW n \in Handovers,
         next' = n, script' # "none", pc' > BuiltAt(Order[n])
  PROVE  Unhanded(n, this)'
<1>0. next \in 1 .. 30 /\ pc \in Nat /\ RunsInv
  BY DEF Core, RunsInv
<1>1. /\ n \in 1 .. 29 /\ n # 20 /\ BuiltAt(Order[n]) \in Nat /\ BuiltAt(Order[n]) >= 1
      /\ KindOf(Order[n]) # "none" /\ n < HandedBy(n) /\ HandedBy(n) \in Nat
  <2>1. BuiltAt(Order[n]) >= 1
    BY DEF BuiltAt
  <2> QED BY <2>1, HandoversAre, ScriptsBuild
<1>2. OpStep \/ MineOne \/ UNCHANGED vars
  BY <1>0, <1>1, Classes, ScriptBegins, ScriptEnds
<1>3. /\ script' = script /\ this' = this /\ next = n /\ pc' \in {pc, pc + 1} /\ (pc' # pc => OpStep)
      /\ script # "none"
  BY <1>0, <1>2, OpAdvances DEF Advance, MineOne, vars, scriptVars
<1>4. script = Order[n]
  BY <1>0, <1>1, <1>3, RunningAt
<1>5. PICK a : a = this
  OBVIOUS
<1>6. CASE pc > BuiltAt(Order[n])
  <2>1. Unhanded(n, a)
    BY <1>3, <1>5, <1>6 DEF HandingInv
  <2>2. a[1] = KindOf(Order[n]) /\ a \in DOMAIN chain
    BY <1>1, <1>3, <1>4, <1>5, <1>6 DEF Core, ThisInv, Matches
  <2>3. Unhanded(n, a)'
    BY <1>0, <1>1, <1>3, <2>1, <2>2, UnhandedStays
  <2> QED BY <1>3, <1>5, <2>3 DEF Unhanded, Underway
<1>7. CASE pc = BuiltAt(Order[n])
  <2>1. OpStep /\ Rows /\ Running
    BY <1>0, <1>1, <1>3, <1>7, StepTable, OpAdvances
  <2>2. Kind(script) # "none"
    BY <1>4, OrderIs DEF Handovers, Kind
  <2>3. DeployContract
    BY <1>4, <1>7, <2>1, <2>2, OpOf DEF Rows, Places
  <2>4. Deploys /\ a \notin DOMAIN chain
    BY <1>5, <2>3, DeploysNew DEF Core
  <2>5. chain'[a] = Current.fields /\ pending' = pending /\ pending[Current.net] = <<>>
    BY <1>5, <2>3, <2>4, DeployOn DEF DeployContract
  <2>6. Current.net = NetOf(n)
    BY <1>3, <2>4 DEF Deploys, Handovers, NetOf
  <2>7. chain'[a][HandedField(n)] = Before(n)
    BY <1>3, <2>4, <2>5 DEF Deploys, Handovers, HandedField, Before
  <2>8. Flight(NetOf(n))' = {}
    <3>1. Len(<<>>) = 0
      OBVIOUS
    <3>2. 1 .. 0 = {}
      OBVIOUS
    <3>3. pending'[NetOf(n)] = <<>>
      BY <2>5, <2>6
    <3> QED BY <3>1, <3>2, <3>3 DEF Flight, NetOf
  <2> QED BY <1>3, <1>5, <2>7, <2>8 DEF Unhanded, Underway, HandedField, Before
<1> QED
  BY <1>0, <1>1, <1>3, <1>6, <1>7

\* The contract is written down before anything is submitted about it.
LEMMA WrittenUnhanded ==
  ASSUME Core, HandingInv, [Next]_vars, NEW n \in Handovers, Past(n, RecordedAt(n))', next < HandedBy(n)
  PROVE  Unhanded(n, g[NameAt(n)])'
<1>0. next \in 1 .. 30 /\ pc \in Nat /\ RunsInv
  BY DEF Core, RunsInv
<1>1. /\ n \in 1 .. 27 /\ n \in Recorders \ {5, 11, 20, 22, 23} /\ RecordedAt(n) \in 1 .. Lengths[n]
      /\ RecordedAt(n) \in Nat /\ BuiltAt(Order[n]) \in Nat /\ RecordedAt(n) > BuiltAt(Order[n])
  BY HandoversAre, ScriptsBuild DEF Handovers
<1>2. Past(n, RecordedAt(n)) \/ (OpStep /\ next = n /\ script # "none" /\ pc = RecordedAt(n))
  BY <1>0, <1>1, PastStep DEF Past, RecordedAt
<1>3. next >= n /\ (next = n /\ script # "none" => pc >= RecordedAt(n))
  BY <1>0, <1>1, <1>2 DEF Past
<1>4. CASE Past(n, RecordedAt(n))
  <2>1. PICK a : a = g[NameAt(n)]
    OBVIOUS
  <2>2. Unhanded(n, a)
    BY <1>4, <2>1 DEF HandingInv
  <2>3. a \in DOMAIN chain /\ a[1] = KindOf(Order[n])
    BY <1>1, <1>4, <2>1 DEF Core, RecordedInv, Recorded, Matches
  <2>4. Unhanded(n, a)'
    BY <1>3, <2>2, <2>3, UnhandedStays
  <2>5. globals'[NameAt(n)] = a /\ NameAt(n)' = NameAt(n)
    <3>1. next = n /\ script # "none" => pc > RecordedAt(n)
      BY <1>0, <1>1, <1>4 DEF Past
    <3> QED BY <1>1, <1>3, <2>1, <3>1, RecordsOnce DEF g, NameAt
  <2> QED BY <2>4, <2>5 DEF Unhanded, Underway, g
<1>5. CASE OpStep /\ next = n /\ script # "none" /\ pc = RecordedAt(n)
  <2>1. PICK a : a = this
    OBVIOUS
  <2>2. Unhanded(n, a)
    BY <1>1, <1>5, <2>1 DEF HandingInv
  <2>3. RecordAddress
    <3>1. Rows /\ Running
      BY <1>0, <1>5, StepTable, OpAdvances
    <3>2. <<n, RecordedAt(n)>> \in RecordPlaces
      BY DEF Handovers, RecordedAt, RecordPlaces
    <3> QED BY <1>5, <3>1, <3>2, OpOf DEF Rows, Places
  <2>4. chain' = chain /\ pending' = pending /\ globals'[NameAt(n)] = a /\ NameAt(n)' = NameAt(n)
    BY <1>5, <2>1, <2>3, RecordsThis DEF Core, RecordAddress, chainVars, NameAt
  <2> QED BY <2>2, <2>4 DEF Unhanded, Underway, Flight, g, HandedField, Before
<1> QED
  BY <1>2, <1>4, <1>5

\* The script that hands over submits the right call.
LEMMA SendsNew ==
  ASSUME Core, NEW n \in Handovers, next >= HandedBy(n), SendTransaction, Current.net = NetOf(n),
         Current.tx.call = CallOf(n), Current.tx.at = g[NameAt(n)]
  PROVE  Current.tx.arg = g[NewName(n)]
<1>1. Running /\ script # "none" /\ Current.op = "send" /\ next \in 1 .. 30
  BY DEF SendTransaction, Running, Core, RunsInv
<1>2. Submits
  BY <1>1, StepTable DEF Rows, Core
<1>3. n \in Recorders \ {22, 23} /\ next > n
  BY <1>1, HandoversAre
<1>4. g[NameAt(n)][1] = KindOf(Order[n])
  BY <1>3, Earlier
<1>5. next >= 15
  BY <1>1 DEF HandedBy, Handovers
<1>6. NameAt(17) = "voteWeightingAddress"
  BY HandedNames
<1>7. CASE Sent(15, 1, "L1", ChangeOwner(g.bridgedERC20Address, g.fxERC20RootTunnelAddress))
  <2>1. n = 12
    BY <1>7 DEF Sent, ChangeOwner, CallOf, Handovers, HandedBy
  <2> QED BY <1>7, <2>1 DEF Sent, ChangeOwner, NewName
<1>8. CASE Sent(15, 2, "L1", SetTunnel(g.fxERC20RootTunnelAddress, g.fxERC20ChildTunnelAddress))
  <2>1. n = 14
    BY <1>8 DEF Sent, SetTunnel, CallOf, Handovers, HandedBy
  <2> QED BY <1>8, <2>1 DEF Sent, SetTunnel, NewName
<1>9. CASE Sent(16, 1, "L2", SetTunnel(g.fxERC20ChildTunnelAddress, g.fxERC20RootTunnelAddress))
  <2>1. n = 13
    BY <1>9 DEF Sent, NetOf
  <2> QED BY <1>9, <2>1 DEF Sent, SetTunnel, NewName
<1>10. CASE Sent(25, 2, "L1", ChangeOwner(g.voteWeightingAddress, g.timelockAddress))
  <2>1. Current.tx.at = g.voteWeightingAddress /\ Current.tx.call = "changeOwner" /\ next = 25
    BY <1>10 DEF Sent, ChangeOwner
  <2>2. g.voteWeightingAddress[1] = "voteweighting"
    <3>1. 17 \in Recorders /\ next > 17
      BY <2>1 DEF Recorders
    <3> QED BY <1>6, <3>1, Earlier, KindsAt
  <2>3. n = 17
    BY <1>4, <2>1, <2>2, KindsAt DEF Handovers, CallOf
  <2> QED BY <1>10, <2>3 DEF Sent, ChangeOwner, NewName
<1> QED
  BY <1>1, <1>2, <1>5, <1>7, <1>8, <1>9, <1>10 DEF Submits, Sent

\* The operation that hands over has submitted it.
LEMMA HandsOverNow ==
  ASSUME Core, NEW n \in Handovers, OpStep, next = HandedBy(n), script # "none", pc = HandedAt(n)
  PROVE  /\ SendTransaction /\ Current.net = NetOf(n)
         /\ Current.tx.call = CallOf(n) /\ Current.tx.at = g[NameAt(n)]
<1>1. Rows /\ Running
  BY StepTable, OpAdvances DEF Core
<1>2. <<next, pc>> \in {<<15, 1>>, <<15, 2>>, <<16, 1>>, <<25, 2>>}
  BY DEF HandedBy, HandedAt, Handovers
<1>3. SendTransaction /\ Submits
  BY <1>1, <1>2, OpOf DEF Rows, Places
<1>4. /\ NameAt(12) = "bridgedERC20Address" /\ NameAt(13) = "fxERC20ChildTunnelAddress"
      /\ NameAt(14) = "fxERC20RootTunnelAddress" /\ NameAt(17) = "voteWeightingAddress"
  BY HandedNames
<1>5. CASE n = 12
  <2>1. Sent(15, 1, "L1", ChangeOwner(g.bridgedERC20Address, g.fxERC20RootTunnelAddress))
    BY <1>3, <1>5 DEF Submits, Sent, HandedBy, HandedAt
  <2> QED BY <1>3, <1>4, <1>5, <2>1 DEF Sent, ChangeOwner, NetOf, CallOf
<1>6. CASE n = 13
  <2>1. Sent(16, 1, "L2", SetTunnel(g.fxERC20ChildTunnelAddress, g.fxERC20RootTunnelAddress))
    BY <1>3, <1>6 DEF Submits, Sent, HandedBy, HandedAt
  <2> QED BY <1>3, <1>4, <1>6, <2>1 DEF Sent, SetTunnel, NetOf, CallOf
<1>7. CASE n = 14
  <2>1. Sent(15, 2, "L1", SetTunnel(g.fxERC20RootTunnelAddress, g.fxERC20ChildTunnelAddress))
    BY <1>3, <1>7 DEF Submits, Sent, HandedBy, HandedAt
  <2> QED BY <1>3, <1>4, <1>7, <2>1 DEF Sent, SetTunnel, NetOf, CallOf
<1>8. CASE n = 17
  <2>1. Sent(25, 2, "L1", ChangeOwner(g.voteWeightingAddress, g.timelockAddress))
    BY <1>3, <1>8 DEF Submits, Sent, HandedBy, HandedAt
  <2> QED BY <1>3, <1>4, <1>8, <2>1 DEF Sent, ChangeOwner, NetOf, CallOf
<1> QED
  BY <1>5, <1>6, <1>7, <1>8 DEF Handovers

LEMMA HandedStays ==
  ASSUME Core, [Next]_vars, NEW n \in Handovers, next >= HandedBy(n), next' >= HandedBy(n),
         NEW a, NEW new, a = g[NameAt(n)], new = g[NewName(n)],
         NEW before \in BOOLEAN, NEW after \in BOOLEAN, Handed(n, a, new, before),
         after => before \/ (OpStep /\ next = HandedBy(n) /\ script # "none" /\ pc = HandedAt(n))
  PROVE  Handed(n, a, new, after)'
<1>0. next \in 1 .. 30 /\ n \in Recorders \ {22, 23} /\ next > n
  BY HandoversAre DEF Core, RunsInv
<1>1. a \in DOMAIN chain /\ a[1] = KindOf(Order[n])
  BY <1>0, Earlier
<1>2. Moves(n, a)
  BY <1>1, StepMoves
<1>3. SendTransaction /\ Current.net = NetOf(n) /\ Current.tx.call = CallOf(n) /\ Current.tx.at = a => Current.tx.arg = new
  BY SendsNew
<1>4. after /\ ~before => SendTransaction /\ Current.net = NetOf(n) /\ Current.tx.call = CallOf(n) /\ Current.tx.at = a
  BY HandsOverNow
<1>5. after /\ ~before => Underway(n, a)' # {}
  <2>1. SUFFICES ASSUME after, ~before PROVE Underway(n, a)' # {}
    OBVIOUS
  <2>2. PICK net, tx : net = Current.net /\ tx = Current.tx /\ Submitted(net, tx)
    BY <1>4, <2>1, SentTx
  <2>3. tx \in Underway(n, a)'
    BY <1>4, <2>1, <2>2 DEF Submitted, Underway
  <2> QED BY <2>3
<1>6. PICK field, before0 : field = HandedField(n) /\ before0 = Before(n)
  OBVIOUS
<1>7. field = HandedField(n)' /\ before0 = Before(n)'
  BY <1>6 DEF HandedField, Before
<1>8. \A tx \in Underway(n, a)' : tx.arg = new
  BY <1>2, <1>3 DEF Moves, Handed
<1>9. \/ chain'[a][field] = new
      \/ chain'[a][field] = before0 /\ (after => Underway(n, a)' # {})
  <2>1. CASE chain'[a][field] = chain[a][field] /\ Underway(n, a)' = Underway(n, a)
    BY <1>5, <1>6, <2>1 DEF Handed
  <2>2. CASE \E tx \in Underway(n, a) :
               chain'[a][field] = IF chain[a][field] = before0 THEN tx.arg ELSE chain[a][field]
    BY <1>6, <2>2 DEF Handed
  <2>3. CASE chain'[a][field] = chain[a][field] /\ Underway(n, a)' = Underway(n, a) \cup {Current.tx}
    BY <1>6, <2>3 DEF Handed
  <2> QED BY <1>2, <1>6, <2>1, <2>2, <2>3 DEF Moves
<1> QED
  BY <1>7, <1>8, <1>9 DEF Handed

\* From the script that hands over on, nothing else is underway.
LEMMA HandedStep ==
  ASSUME Core, HandingInv, [Next]_vars, NEW n \in Handovers, next' >= HandedBy(n)
  PROVE  Handed(n, g[NameAt(n)], g[NewName(n)], Past(HandedBy(n), HandedAt(n)))'
<1>0. next \in 1 .. 30 /\ next' \in 1 .. 30 /\ pc \in Nat /\ RunsInv
  BY RunsStep DEF Core, RunsInv
<1>1. /\ n \in 1 .. 27 /\ n \in Recorders \ {5, 11, 22, 23} /\ RecordedAt(n) \in 1 .. Lengths[n]
      /\ HandedBy(n) \in (1 .. 27) \ {22, 23} /\ HandedBy(n) > n /\ HandedAt(n) \in 1 .. Lengths[HandedBy(n)]
      /\ RecordedAt(n) \in Nat
  BY HandoversAre, ScriptsBuild DEF Handovers
<1>2. PICK m, i : m = HandedBy(n) /\ i = HandedAt(n) /\ m \in 1 .. 27 /\ i \in 1 .. Lengths[m]
  BY <1>1
<1>3. CASE next >= HandedBy(n)
  <2>1. PICK a, new : a = g[NameAt(n)] /\ new = g[NewName(n)]
    OBVIOUS
  <2>2. globals'[NameAt(n)] = a
    BY <1>0, <1>1, <1>3, <2>1, RecordsOnce DEF g
  <2>3. globals'[NewName(n)] = new
    <3>1. next >= 15
      BY <1>0, <1>3 DEF HandedBy, Handovers
    <3>2. /\ globals'["fxERC20ChildTunnelAddress"] = globals["fxERC20ChildTunnelAddress"]
          /\ globals'["fxERC20RootTunnelAddress"] = globals["fxERC20RootTunnelAddress"]
          /\ globals'["timelockAddress"] = globals["timelockAddress"]
      BY <1>0, <3>1, EarlierNames DEF Core
    <3> QED BY <2>1, <3>2 DEF NewName, Handovers, g
  <2>4. Handed(n, a, new, Past(m, i))
    BY <1>2, <1>3, <2>1 DEF HandingInv
  <2>5. Past(m, i)' => Past(m, i) \/ (OpStep /\ next = m /\ script # "none" /\ pc = i)
    BY <1>0, <1>2, PastStep
  <2>6. PICK before \in BOOLEAN, after \in BOOLEAN : (before <=> Past(m, i)) /\ (after <=> Past(m, i)')
    OBVIOUS
  <2>7. Handed(n, a, new, before)
    BY <2>4, <2>6 DEF Handed
  <2>8. Handed(n, a, new, after)'
    BY <1>2, <1>3, <2>1, <2>5, <2>6, <2>7, HandedStays
  <2>9. HandedBy(n)' = m /\ HandedAt(n)' = i /\ NameAt(n)' = NameAt(n) /\ NewName(n)' = NewName(n)
    BY <1>2 DEF HandedBy, HandedAt, NameAt, NewName
  <2> QED BY <2>2, <2>3, <2>6, <2>8, <2>9 DEF Handed, Past, g, Underway
<1>4. CASE next < HandedBy(n)
  <2>1. (Finish \/ ReturnsEarly) /\ next' = next + 1 /\ next' = m
    <3>1. ~StartOver
      BY <1>0, <1>1, <1>4, StartOverGoesBack
    <3> QED BY <1>0, <1>1, <1>2, <1>4, <3>1, NextGrows
  <2>2. chain' = chain /\ pending' = pending /\ script' = "none"
    BY <1>0, <2>1, ScriptEnds
  <2>3. Past(n, RecordedAt(n))'
    BY <1>0, <1>1 DEF Past
  <2>4. Unhanded(n, g[NameAt(n)])'
    BY <1>4, <2>3, WrittenUnhanded
  <2>5. ~Past(m, i)'
    BY <1>0, <2>1, <2>2 DEF Past
  <2> QED BY <1>2, <2>4, <2>5 DEF Handed, Unhanded, Past, HandedBy, HandedAt
<1> QED
  BY <1>0, <1>1, <1>3, <1>4

LEMMA HandingStep ==
  ASSUME Core, HandingInv, [Next]_vars
  PROVE  HandingInv'
<1>1. SUFFICES ASSUME NEW n \in Handovers
      PROVE  /\ (next = n /\ script # "none" /\ pc > BuiltAt(Order[n]))' => Unhanded(n, this)'
             /\ (Past(n, RecordedAt(n)) /\ next < HandedBy(n))' => Unhanded(n, g[NameAt(n)])'
             /\ (next >= HandedBy(n))' => Handed(n, g[NameAt(n)], g[NewName(n)], Past(HandedBy(n), HandedAt(n)))'
  BY DEF HandingInv, Handovers
<1>0. next \in 1 .. 30 /\ next' \in 1 .. 30 /\ HandedBy(n) \in Nat /\ HandedBy(n)' = HandedBy(n) /\ HandedBy(n) > n
  <2>1. RunsInv /\ RunsInv'
    BY RunsStep DEF Core
  <2>2. HandedBy(n)' = HandedBy(n)
    BY DEF HandedBy
  <2> QED BY <2>1, <2>2, HandoversAre DEF RunsInv
<1>2. (next = n /\ script # "none" /\ pc > BuiltAt(Order[n]))' => Unhanded(n, this)'
  <2>1. BuiltAt(Order[n])' = BuiltAt(Order[n])
    BY DEF BuiltAt, Order
  <2> QED BY <2>1, NewUnhanded
<1>3. (Past(n, RecordedAt(n)) /\ next < HandedBy(n))' => Unhanded(n, g[NameAt(n)])'
  <2>1. SUFFICES ASSUME Past(n, RecordedAt(n))', next' < HandedBy(n) PROVE next < HandedBy(n)
    BY <1>0, WrittenUnhanded
  <2>2. ~StartOver
    <3>1. StartOver => next' <= 12 /\ script' = "none"
      BY StartOverGoesBack DEF Core
    <3> QED BY <1>0, <2>1, <3>1 DEF Past, Handovers
  <2> QED BY <1>0, <2>1, <2>2, NextGrows DEF Core
<1>4. (next >= HandedBy(n))' => Handed(n, g[NameAt(n)], g[NewName(n)], Past(HandedBy(n), HandedAt(n)))'
  BY <1>0, HandedStep
<1> QED
  BY <1>2, <1>3, <1>4

(***************************************************************************)
(* Theorem: the audit of a completed deployment finds what is missing      *)
(***************************************************************************)

\* The inductive invariant of the third theorem.
AuditInv == GovernanceInv /\ HandingInv

\* Each of the four fields has its old value, or its new one, or is on its way.
THEOREM AuditInvAlways == Spec => []AuditInv
<1>1. Init => AuditInv
  <2>1. SUFFICES ASSUME Init PROVE HandingInv
    BY GovernanceInvInit DEF AuditInv
  <2>2. next = 1 /\ script = "none"
    BY <2>1 DEF Init
  <2>3. \A n \in Handovers : n > 1 /\ HandedBy(n) > 1
    BY DEF Handovers, HandedBy
  <2>4. \A n \in Handovers : n \in Nat
    BY DEF Handovers
  <2>5. ASSUME NEW n \in Handovers
        PROVE  next # n /\ ~Past(n, RecordedAt(n)) /\ ~(next >= HandedBy(n))
    BY <2>2, <2>3, <2>4, HandoversAre DEF Past
  <2> QED BY <2>1, <2>5 DEF HandingInv
<1>2. AuditInv /\ [Next]_vars => AuditInv'
  BY GovernanceInvStep, HandingStep DEF AuditInv, GovernanceInv
<1> QED
  BY <1>1, <1>2, PTL DEF Spec

\* When nothing is underway any more, what was handed over has arrived.
LEMMA Arrived ==
  ASSUME AuditInv, next = 30, NothingPending, NEW n \in Handovers
  PROVE  chain[g[NameAt(n)]][HandedField(n)] = g[NewName(n)]
<1>1. HandedBy(n) \in (1 .. 27) \ {22, 23} /\ NetOf(n) \in Networks
  BY HandoversAre
<1>2. Handed(n, g[NameAt(n)], g[NewName(n)], Past(HandedBy(n), HandedAt(n)))
  BY <1>1 DEF AuditInv, HandingInv
<1>3. Past(HandedBy(n), HandedAt(n))
  BY <1>1 DEF Past
<1>4. Flight(NetOf(n)) = {}
  <2>1. Len(<<>>) = 0
    OBVIOUS
  <2>2. 1 .. 0 = {}
    OBVIOUS
  <2> QED BY <1>1, <2>1, <2>2 DEF NothingPending, Flight
<1>5. Underway(n, g[NameAt(n)]) = {}
  BY <1>4 DEF Underway
<1> QED
  BY <1>2, <1>3, <1>5 DEF Handed

\* Check by check of the audit.
LEMMA AuditPasses ==
  ASSUME AuditInv, next = 30, NothingPending,
         skipped \cap {"27", "26_00"} = {}, g.homeMediatorAddress # NoAddress
  PROVE  NoError(globals)
<1>0. Core /\ TimelocksInv /\ GivenInv /\ BridgesInv /\ GovernedInv
  BY DEF AuditInv, GovernanceInv
<1> USE DEF g
<1> DEFINE Written(n) == g[NameAt(n)] \in Deployed(KindOf(Order[n])) /\ Matches(g[NameAt(n)], Wiring(Order[n]))
<1>1. \A n \in Recorders : Written(n)
  <2>1. ASSUME NEW n \in Recorders PROVE Past(n, RecordedAt(n))
    <3>1. n \in 1 .. 27
      BY DEF Recorders
    <3> QED BY <3>1 DEF Past
  <2>2. \A n \in Recorders : Recorded(n)
    BY <1>0, <2>1 DEF Core, RecordedInv
  <2> QED BY <2>2 DEF Recorded, Deployed, Matches
<1>2. Written(28)
  BY <1>0 DEF Core, RecordedInv, Recorded, Deployed, Matches
<1>3. \A n \in Handovers : chain[g[NameAt(n)]][HandedField(n)] = g[NewName(n)]
  BY Arrived
<1> HIDE DEF Written
<1>4. checkOLAS(globals)
  <2>1. Written(2) /\ NameAt(2) = "olasAddress" /\ KindOf(Order[2]) = "olas"
    BY <1>1, KindsAt DEF Recorders, NameAt
  <2>2. chain[g.olasAddress].owner = g.timelockAddress /\ chain[g.olasAddress].minter = treasuryAddress
    BY <1>0 DEF GivenInv, Past
  <2> QED BY <2>1, <2>2 DEF Written, checkOLAS, checkOwner, customExpect, checkBytecode, Matches, Deployed
<1>5. checkTimelock(globals)
  <2>1. Written(3) /\ NameAt(3) = "timelockAddress" /\ KindOf(Order[3]) = "timelock"
    BY <1>1, KindsAt DEF Recorders, NameAt
  <2>2. HasAll(g.governorAddress) /\ HasNone(g.governorTwoAddress)
    BY <1>0 DEF GovernedInv, Past
  <2>3. g.timelockAddress \in Deployed("timelock")
    BY <2>1 DEF Written
  <2>4. /\ {<<"admin", g.timelockAddress>>, <<"proposer", CM>>, <<"executor", CM>>} \subseteq chain[g.timelockAddress].roles
        /\ <<"admin", CM>> \notin chain[g.timelockAddress].roles
    BY <1>0, <2>3 DEF TimelocksInv
  <2>5. <<"canceller", CM>> \notin chain[g.timelockAddress].roles
    BY <1>0 DEF GivenInv, Past, HasRole
  <2>6. {role \in Roles : HasRole(g.timelockAddress, role, CM)} = {"proposer", "executor"}
    BY <2>4, <2>5 DEF Roles, HasRole
  <2> QED BY <2>2, <2>3, <2>4, <2>6 DEF checkTimelock, checkBytecode, HasAll, HasNone, HasRole
<1>6. checkVEOLAS(globals)
  <2>1. Written(4) /\ NameAt(4) = "veOLASAddress" /\ KindOf(Order[4]) = "veolas"
    BY <1>1, KindsAt DEF Recorders, NameAt
  <2> QED BY <2>1, WiringAt DEF Written, checkVEOLAS, customExpect, checkBytecode
<1>7. checkBUOLAS(globals)
  <2>1. Written(6) /\ NameAt(6) = "buOLASAddress" /\ KindOf(Order[6]) = "buolas"
    BY <1>1, KindsAt DEF Recorders, NameAt
  <2>2. chain[g.buOLASAddress].owner = g.timelockAddress
    BY <1>0 DEF GivenInv, Past
  <2>3. customExpect(globals, "buOLASAddress", "buolas", [token |-> g.olasAddress])
    BY <2>1, WiringAt DEF Written, customExpect, checkBytecode
  <2> QED BY <2>2, <2>3 DEF checkBUOLAS, checkOwner, customExpect, Matches
<1>8. checkWrappedVEOLAS(globals)
  <2>1. Written(9) /\ NameAt(9) = "wveOLASAddress" /\ KindOf(Order[9]) = "wveolas"
    BY <1>1, KindsAt DEF Recorders, NameAt
  <2> QED BY <2>1, WiringAt DEF Written, checkWrappedVEOLAS, customExpect, checkBytecode
<1>9. checkVoteWeighting(globals)
  <2>1. Written(17) /\ NameAt(17) = "voteWeightingAddress" /\ KindOf(Order[17]) = "voteweighting"
    BY <1>1, KindsAt, HandedNames DEF Recorders
  <2>2. chain[g.voteWeightingAddress].owner = g.timelockAddress
    BY <1>3, HandedNames DEF Handovers, HandedField, NewName
  <2>3. customExpect(globals, "voteWeightingAddress", "voteweighting", [ve |-> g.veOLASAddress])
    BY <2>1, WiringAt DEF Written, customExpect, checkBytecode
  <2> QED BY <2>2, <2>3 DEF checkVoteWeighting, checkOwner, customExpect, Matches
<1>10. checkGovernorOLAS(globals)
  <2>1. Written(22) /\ NameAt(22) = "governorAddress" /\ KindOf(Order[22]) = "governor"
    BY <1>1, KindsAt DEF Recorders, NameAt
  <2> QED BY <2>1, WiringAt DEF Written, checkGovernorOLAS, customExpect, checkBytecode
<1>11. checkGuardCM(globals)
  <2>1. Written(23) /\ NameAt(23) = "guardCMAddress" /\ KindOf(Order[23]) = "guard"
    BY <1>1, KindsAt DEF Recorders, NameAt
  <2>2. Matches(g.guardCMAddress, [owner |-> g.timelockAddress, multisig |-> CM, governor |-> g.governorAddress])
    BY <2>1, WiringAt DEF Written
  <2>3. chain[g.guardCMAddress].bridges = MediatedNetworks
    BY <1>0 DEF BridgesInv, Past
  <2> QED BY <2>1, <2>2, <2>3 DEF Written, checkGuardCM, checkOwner, customExpect, checkBytecode, Matches
<1>12. checkBridgedERC20(globals)
  <2>1. Written(12) /\ NameAt(12) = "bridgedERC20Address" /\ KindOf(Order[12]) = "bridged"
    BY <1>1, KindsAt, HandedNames DEF Recorders
  <2>2. chain[g.bridgedERC20Address].owner = g.fxERC20RootTunnelAddress
    BY <1>3, HandedNames DEF Handovers, HandedField, NewName
  <2> QED BY <2>1, <2>2 DEF Written, checkBridgedERC20, customExpect, checkBytecode, Matches
<1>13. checkFxERC20RootTunnel(globals)
  <2>1. Written(14) /\ NameAt(14) = "fxERC20RootTunnelAddress" /\ KindOf(Order[14]) = "root"
    BY <1>1, KindsAt, HandedNames DEF Recorders
  <2>2. chain[g.fxERC20RootTunnelAddress].peer = g.fxERC20ChildTunnelAddress
    BY <1>3, HandedNames DEF Handovers, HandedField, NewName
  <2>3. Matches(g.fxERC20RootTunnelAddress, [rootToken |-> g.bridgedERC20Address])
    BY <2>1, WiringAt DEF Written
  <2> QED BY <2>1, <2>2, <2>3 DEF Written, checkFxERC20RootTunnel, customExpect, checkBytecode, Matches
<1>14. checkFxERC20ChildTunnel(globals)
  <2>1. Written(13) /\ NameAt(13) = "fxERC20ChildTunnelAddress" /\ KindOf(Order[13]) = "child"
    BY <1>1, KindsAt, HandedNames DEF Recorders
  <2>2. chain[g.fxERC20ChildTunnelAddress].peer = g.fxERC20RootTunnelAddress
    BY <1>3, HandedNames DEF Handovers, HandedField, NewName
  <2>3. Matches(g.fxERC20ChildTunnelAddress, [rootToken |-> g.bridgedERC20Address])
    BY <2>1, WiringAt DEF Written
  <2> QED BY <2>1, <2>2, <2>3 DEF Written, checkFxERC20ChildTunnel, customExpect, checkBytecode, Matches
<1>15. checkFxGovernorTunnel(globals)
  <2>1. Written(26) /\ NameAt(26) = "fxGovernorTunnelAddress" /\ KindOf(Order[26]) = "fxgovernor"
    BY <1>1, KindsAt DEF Recorders, NameAt
  <2> QED BY <2>1, WiringAt DEF Written, checkFxGovernorTunnel, customExpect, checkBytecode
<1>16. checkOptimismMessenger(globals)
  <2>1. Written(27) /\ NameAt(27) = "optimismMessengerAddress" /\ KindOf(Order[27]) = "optimism"
    BY <1>1, KindsAt DEF Recorders, NameAt
  <2> QED BY <2>1, WiringAt DEF Written, checkOptimismMessenger, customExpect, checkBytecode
<1>17. checkHomeMediator(globals)
  <2>1. NameAt(28) = "homeMediatorAddress" /\ KindOf(Order[28]) = "mediator"
    BY KindsAt DEF NameAt
  <2> QED BY <1>2, <2>1, WiringAt DEF Written, checkHomeMediator, customExpect, checkBytecode
<1> QED
  BY <1>4, <1>5, <1>6, <1>7, <1>8, <1>9, <1>10, <1>11, <1>12, <1>13, <1>14, <1>15, <1>16, <1>17 DEF NoError

\* A hole that a script has left is found.
LEMMA AuditComplains ==
  ASSUME AuditInv, next = 30, NoError(globals)
  PROVE  skipped \cap {"27", "26_00"} = {} /\ g.homeMediatorAddress # NoAddress
<1>0. Core /\ ReplacedInv
  BY DEF AuditInv, GovernanceInv
<1>1. "27" \notin skipped
  <2>1. SUFFICES ASSUME "27" \in skipped PROVE FALSE
    OBVIOUS
  <2>2. chain[g.governorAddress].token = g.veOLASAddress
    <3>1. Past(5, 9) /\ ~Past(22, 4)
      BY <2>1 DEF Past
    <3> QED BY <1>0, <3>1 DEF ReplacedInv, BuiltOn
  <2>3. chain[g.governorAddress].token = g.wveOLASAddress
    BY DEF NoError, checkGovernorOLAS, customExpect, Matches, g
  <2>4. g.veOLASAddress[1] = "veolas" /\ g.wveOLASAddress[1] = "wveolas"
    BY DEF NoError, checkVEOLAS, checkWrappedVEOLAS, customExpect, checkBytecode, Deployed, g
  <2> QED BY <2>2, <2>3, <2>4
<1>2. "26_00" \notin skipped
  <2>1. SUFFICES ASSUME "26_00" \in skipped PROVE FALSE
    OBVIOUS
  <2>2. chain[g.guardCMAddress].governor = g.governorTwoAddress
    <3>1. Past(11, 2) /\ ~Past(23, 4)
      BY <2>1 DEF Past
    <3> QED BY <1>0, <3>1 DEF ReplacedInv, BuiltOn
  <2>3. chain[g.guardCMAddress].governor = g.governorAddress
    BY DEF NoError, checkGuardCM, customExpect, Matches, g
  <2>4. g.governorAddress # g.governorTwoAddress
    <3>1. Past(10, 2)
      BY DEF Past
    <3> QED BY <1>0, <3>1 DEF ReplacedInv
  <2> QED BY <2>2, <2>3, <2>4
<1>3. g.homeMediatorAddress # NoAddress
  <2>1. g.homeMediatorAddress \in DOMAIN chain
    BY DEF NoError, checkHomeMediator, customExpect, checkBytecode, Deployed, g
  <2> QED BY <1>0, <2>1, Accounts DEF Core, ContractsInv
<1> QED
  BY <1>1, <1>2, <1>3

\* The audit of a completed deployment with nothing pending, run with what the
\* scripts have written down, complains exactly of the scripts that have ended early
\* with exit code 0, whichever others failed, were repeated, or were started over
\* with fresh contracts.
THEOREM AuditFindsWhatIsMissingAlways == Spec => []AuditFindsWhatIsMissing
<1>1. ASSUME AuditInv PROVE AuditFindsWhatIsMissing
  <2>1. SUFFICES ASSUME next > 29, NothingPending
                 PROVE  NoError(globals) <=> skipped \cap {"27", "26_00"} = {} /\ g.homeMediatorAddress # NoAddress
    BY OrderIs DEF AuditFindsWhatIsMissing, Completed
  <2>2. next = 30
    BY <1>1, <2>1 DEF AuditInv, GovernanceInv, Core, RunsInv
  <2> QED BY <1>1, <2>1, <2>2, AuditPasses, AuditComplains
<1> QED
  BY <1>1, AuditInvAlways, PTL
=============================================================================
