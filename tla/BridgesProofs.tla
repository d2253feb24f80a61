--------------------------- MODULE BridgesProofs ---------------------------
(***************************************************************************)
(* What the messengers execute, how often and for whom, and the backing of *)
(* the tokens of the tunnels, for any messengers, accounts, widths of the  *)
(* packed data, holders and number of messages, over the same bridges.     *)
(***************************************************************************)
EXTENDS Bridges, FiniteSums, SequenceTheorems

Ids == 1 .. MaxMessages

DeliveryTypes ==
  /\ log \in [Bridges -> Seq(Ids)]
  /\ mapDeliveryHashes \in [Bridges -> SUBSET Ids]

\* What was executed cannot be executed again: its hash is remembered, or the bridge
\* has closed it.
LogIsRemembered ==
  \A m \in Bridges : \A i \in DOMAIN log[m] :
    /\ m \in Wormhole => log[m][i] \in mapDeliveryHashes[m]
    /\ m \notin Wormhole => log[m][i] \in closed

DeliveryInv == DeliveryTypes /\ LogIsRemembered /\ ExecutedOnce

LEMMA DeliveryInit == Init => DeliveryInv
  BY DEF Init, MessengersInit, DeliveryInv, DeliveryTypes, LogIsRemembered, ExecutedOnce

\* A message that is executed was not executed before, and is remembered from now on.
LEMMA NewDelivery ==
  ASSUME DeliveryInv, NEW m \in Bridges, NEW id \in Ids, Deliver(m, id)
  PROVE  /\ \A i \in DOMAIN log[m] : log[m][i] # id
         /\ closed \subseteq closed'
         /\ m \in Wormhole => id \in mapDeliveryHashes'[m]
         /\ m \notin Wormhole => id \in closed'
         /\ \A n \in Bridges : mapDeliveryHashes[n] \subseteq mapDeliveryHashes'[n]
         /\ mapDeliveryHashes' \in [Bridges -> SUBSET Ids]
         /\ log' = [log EXCEPT ![m] = Append(@, id)]
<1>1. /\ id \notin closed /\ messages[id].bridge = m /\ id \notin mapDeliveryHashes[m]
  BY DEF Deliver, Executes, Deliverable, NotDelivered
<1>2. \A i \in DOMAIN log[m] : log[m][i] # id
  BY <1>1 DEF DeliveryInv, LogIsRemembered
<1>3. /\ closed \subseteq closed'
      /\ m \notin Wormhole => id \in closed'
  BY <1>1 DEF Deliver, Close
<1>4. /\ mapDeliveryHashes' \in [Bridges -> SUBSET Ids]
      /\ \A n \in Bridges : mapDeliveryHashes[n] \subseteq mapDeliveryHashes'[n]
      /\ m \in Wormhole => id \in mapDeliveryHashes'[m]
  BY DEF Deliver, DeliveryInv, DeliveryTypes
<1>5. log' = [log EXCEPT ![m] = Append(@, id)]
  BY DEF Deliver
<1>6. QED
  BY <1>2, <1>3, <1>4, <1>5

LEMMA DeliverKeeps ==
  ASSUME DeliveryInv, NEW m \in Bridges, NEW id \in Ids, Deliver(m, id)
  PROVE  DeliveryInv'
<1>1. /\ log \in [Bridges -> Seq(Ids)]
      /\ log' = [log EXCEPT ![m] = Append(@, id)]
  BY NewDelivery DEF DeliveryInv, DeliveryTypes
<1>2. \A n \in Bridges \ {m} : log'[n] = log[n]
  BY <1>1
<1>3. /\ log'[m] = Append(log[m], id) /\ log[m] \in Seq(Ids)
      /\ DOMAIN log'[m] = 1 .. Len(log[m]) + 1
      /\ DOMAIN log[m] = 1 .. Len(log[m])
      /\ \A i \in 1 .. Len(log[m]) : log'[m][i] = log[m][i]
      /\ log'[m][Len(log[m]) + 1] = id
  BY <1>1, AppendProperties
<1>4. DeliveryTypes'
  <2>1. log' \in [Bridges -> Seq(Ids)]
    BY <1>1, AppendProperties
  <2>2. QED
    BY <2>1, NewDelivery DEF DeliveryTypes
<1>5. LogIsRemembered'
  <2> SUFFICES ASSUME NEW n \in Bridges, NEW i \in DOMAIN log'[n]
               PROVE  /\ n \in Wormhole => log'[n][i] \in mapDeliveryHashes'[n]
                      /\ n \notin Wormhole => log'[n][i] \in closed'
    BY DEF LogIsRemembered
  <2>1. /\ closed \subseteq closed'
        /\ mapDeliveryHashes[n] \subseteq mapDeliveryHashes'[n]
        /\ m \in Wormhole => id \in mapDeliveryHashes'[m]
        /\ m \notin Wormhole => id \in closed'
    BY NewDelivery
  <2>2. CASE n = m /\ i = Len(log[m]) + 1
    BY <2>1, <2>2, <1>3
  <2>3. CASE n # m \/ i # Len(log[m]) + 1
    <3>1. i \in DOMAIN log[n] /\ log'[n][i] = log[n][i]
      BY <2>3, <1>2, <1>3
    <3>2. QED
      BY <3>1, <2>1 DEF DeliveryInv, LogIsRemembered
  <2>4. QED
    BY <2>2, <2>3
<1>6. ExecutedOnce'
  <2> SUFFICES ASSUME NEW n \in Bridges, NEW i \in DOMAIN log'[n], NEW j \in DOMAIN log'[n],
                      log'[n][i] = log'[n][j]
               PROVE  i = j
    BY DEF ExecutedOnce
  <2>1. CASE n # m
    BY <2>1, <1>2 DEF DeliveryInv, ExecutedOnce
  <2>2. CASE n = m
    <3>1. \A k \in 1 .. Len(log[m]) : log[m][k] # id
      BY <1>3, NewDelivery
    <3>2. \A k, l \in 1 .. Len(log[m]) : log[m][k] = log[m][l] => k = l
      BY <1>3 DEF DeliveryInv, ExecutedOnce
    <3>3. QED
      BY <2>2, <1>3, <3>1, <3>2
  <2>3. QED
    BY <2>1, <2>2
<1>7. QED
  BY <1>4, <1>5, <1>6 DEF DeliveryInv

\* Any other step leaves logs and hashes alone, and no message is opened again.
LEMMA OthersKeep ==
  ASSUME DeliveryInv, log' = log, mapDeliveryHashes' = mapDeliveryHashes, closed \subseteq closed'
  PROVE  DeliveryInv'
<1>1. DeliveryTypes' /\ ExecutedOnce'
  BY DEF DeliveryInv, DeliveryTypes, ExecutedOnce
<1>2. LogIsRemembered'
  BY DEF DeliveryInv, LogIsRemembered
<1>3. QED
  BY <1>1, <1>2 DEF DeliveryInv

LEMMA DeliveryStep == DeliveryInv /\ [Next]_vars => DeliveryInv'
<1> SUFFICES ASSUME DeliveryInv, [Next]_vars
             PROVE  DeliveryInv'
  OBVIOUS
<1>1. CASE SendStep
  <2>1. closed' = closed /\ UNCHANGED messengerVars
    BY <1>1 DEF SendStep, SendFromTimelock, proposal_09, SendPayloadToEvm, SendFromDeployer, SendBatch
  <2>2. QED
    BY <2>1, OthersKeep DEF messengerVars
<1>2. CASE DeliverStep
  BY <1>2, DeliverKeeps DEF DeliverStep, Ids
<1>3. CASE RevertStep
  BY <1>3, OthersKeep DEF RevertStep, DeliveryReverts, messengerVars
<1>4. CASE EnvironmentStep
  BY <1>4, OthersKeep DEF EnvironmentStep, Fund, AppStops, AppRecovers, bridgeVars
<1>5. CASE TunnelsNext /\ UNCHANGED messengerVars
  <2>1. closed \subseteq closed'
    <3>1. CASE WireStep
      BY <3>1 DEF WireStep, ChangeOwnerToTunnel, SetFxChildTunnel, SetFxRootTunnel, bridgeVars
    <3>2. CASE HolderStep
      BY <3>2 DEF HolderStep, Deposit, Withdraw
    <3>3. CASE OtherStep
      BY <3>3 DEF OtherStep, SendOther
    <3>4. CASE \E id \in 1 .. MaxMessages : Arrive(id)
      BY <3>4 DEF Arrive, ProcessMessageFromRoot, MessageFromRootReverts, ProcessMessageFromChild, Close
    <3>5. QED
      BY <1>5, <3>1, <3>2, <3>3, <3>4 DEF TunnelsNext
  <2>2. QED
    BY <1>5, <2>1, OthersKeep DEF messengerVars
<1>6. CASE UNCHANGED vars
  BY <1>6, OthersKeep DEF vars, bridgeVars, messengerVars
<1>7. QED
  BY <1>1, <1>2, <1>3, <1>4, <1>5, <1>6 DEF Next, MessengersNext

\* A messenger executes a message once at most, over every bridge and however often,
\* in whatever order and in the middle of whatever reverts it is delivered
\* (receiveWormholeMessages and its delivery hashes, and the other three messengers).
THEOREM MessagesExecuteOnce == Spec => []ExecutedOnce
<1>1. Init => DeliveryInv
  BY DeliveryInit
<1>2. DeliveryInv /\ [Next]_vars => DeliveryInv'
  BY DeliveryStep
<1>3. DeliveryInv => ExecutedOnce
  BY DEF DeliveryInv
<1>4. QED
  BY <1>1, <1>2, <1>3, PTL DEF Spec

(***************************************************************************)
(* The tunnels                                                             *)
(***************************************************************************)

TunnelBridges == {"toRoot", "toChild"}

TransferTypes ==
  /\ \A id \in DOMAIN messages :
       messages[id].bridge \in TunnelBridges =>
         /\ messages[id].from \in Peers
         /\ messages[id].data.to \in Holders /\ messages[id].data.amount \in Nat

TunnelTypes ==
  /\ messages \in Seq(Range(messages)) /\ Len(messages) <= MaxMessages
  /\ closed \subseteq DOMAIN messages
  /\ childBalance \in [Holders -> Nat] /\ rootBalance \in [Holders -> Nat]
  /\ locked \in Nat

\* What every message of a tunnel carries over a bridge.
OnTheWay(id, bridge) == Deliverable(id, bridge) /\ messages[id].from = "tunnel"
Carried(bridge) == [id \in Ids |-> IF OnTheWay(id, bridge) THEN messages[id].data.amount ELSE 0]
FlowOf(bridge) == SumFunctionOnSet(Carried(bridge), Ids)

Backing == locked = SumFunctionOnSet(rootBalance, Holders) + FlowOf("toRoot") + FlowOf("toChild")
TunnelInv == TunnelTypes /\ TransferTypes /\ (RightPeers => Backing)

LEMMA IdsFinite == IsFiniteSet(Ids) /\ MaxMessages \in Nat
<1>1. MaxMessages \in Nat
  BY BridgesAssumption
<1>2. QED
  BY <1>1, FS_Interval DEF Ids

LEMMA CarriedTyped ==
  ASSUME TunnelTypes, TransferTypes, NEW bridge \in TunnelBridges
  PROVE  /\ \A id \in Ids : Carried(bridge)[id] \in Nat
         /\ FlowOf(bridge) \in Nat
<1>1. \A id \in Ids : Carried(bridge)[id] \in Nat
  BY DEF Carried, OnTheWay, Deliverable, TransferTypes
<1>2. QED
  BY <1>1, IdsFinite, SumNat DEF FlowOf

LEMMA TransitIsFlow ==
  ASSUME TunnelTypes, TransferTypes, NEW bridge \in TunnelBridges
  PROVE  InTransit(bridge) = FlowOf(bridge)
<1> DEFINE open == {i \in DOMAIN messages : Deliverable(i, bridge) /\ messages[i].from = "tunnel"}
           f == [id \in open |-> messages[id].data.amount]
           g == Carried(bridge)
<1>1. InTransit(bridge) = SumFunctionOnSet(f, open)
  BY DEF InTransit, SumFunction
<1>2. DOMAIN messages = 1 .. Len(messages) /\ Len(messages) \in Nat
  BY DEF TunnelTypes
<1>3. open \subseteq Ids
  BY <1>2, IdsFinite DEF TunnelTypes, Ids
<1>4. /\ \A id \in open : f[id] = g[id]
      /\ \A id \in Ids \ open : g[id] = 0
  BY <1>2, <1>3 DEF Carried, OnTheWay, Deliverable
<1>5. \A id \in Ids : g[id] \in Nat /\ g[id] \in Int
  BY CarriedTyped
<1> HIDE DEF open, f, g
<1>6. IsFiniteSet(open) /\ IsFiniteSet(Ids) /\ IsFiniteSet(Ids \ open)
  BY <1>3, IdsFinite, FS_Subset, FS_Difference
<1>7. \A id \in open : f[id] \in Int /\ f[id] = g[id]
  BY <1>3, <1>4, <1>5
<1>8. SumFunctionOnSet(f, open) = SumFunctionOnSet(g, open)
  BY <1>6, <1>7, SumAgree
<1>9. SumFunctionOnSet(g, Ids) = SumFunctionOnSet(g, open) + SumFunctionOnSet(g, Ids \ open)
  BY <1>3, <1>5, <1>6, SumSplit
<1>10. SumFunctionOnSet(g, Ids \ open) = 0
  BY <1>4, <1>6, SumZero
<1>11. SumFunctionOnSet(g, open) \in Int
  BY <1>3, <1>5, <1>6, SumInt
<1>12. SumFunctionOnSet(f, open) = SumFunctionOnSet(g, Ids)
  BY <1>8, <1>9, <1>10, <1>11
<1>13. QED
  BY <1>1, <1>12 DEF FlowOf, g

\* A message more.
LEMMA SendEffect ==
  ASSUME TunnelTypes, NEW m, Len(messages) < MaxMessages, messages' = Append(messages, m)
  PROVE  /\ messages' \in Seq(Range(messages')) /\ Len(messages) \in Nat
         /\ Len(messages') = Len(messages) + 1 /\ Len(messages') <= MaxMessages
         /\ DOMAIN messages' = 1 .. Len(messages) + 1 /\ DOMAIN messages = 1 .. Len(messages)
         /\ \A id \in DOMAIN messages : messages'[id] = messages[id] /\ id \in DOMAIN messages'
         /\ messages'[Len(messages) + 1] = m
         /\ Len(messages) + 1 \in Ids /\ Len(messages) + 1 \notin DOMAIN messages
<1> DEFINE R == Range(messages) \cup {m}
<1>1. messages \in Seq(Range(messages)) /\ Len(messages) \in Nat
      /\ DOMAIN messages = 1 .. Len(messages) /\ MaxMessages \in Nat
  BY IdsFinite DEF TunnelTypes
<1>2. messages \in Seq(R) /\ m \in R
  BY <1>1 DEF Range
<1>3. /\ messages' \in Seq(R) /\ Len(messages') = Len(messages) + 1
      /\ \A id \in 1 .. Len(messages) : messages'[id] = messages[id]
      /\ messages'[Len(messages) + 1] = m
  BY <1>2, AppendProperties
<1>4. DOMAIN messages' = 1 .. Len(messages) + 1
  BY <1>3
<1>5. messages' \in Seq(Range(messages'))
  BY <1>3 DEF Range
<1>6. QED
  BY <1>1, <1>3, <1>4, <1>5 DEF Ids

\* Sums over messages that differ for one of them.
LEMMA OneMessageCounts ==
  ASSUME NEW f, NEW g, NEW id \in Ids, \A i \in Ids : f[i] \in Int /\ g[i] \in Int,
         \A i \in Ids \ {id} : g[i] = f[i]
  PROVE  SumFunctionOnSet(g, Ids) = SumFunctionOnSet(f, Ids) - f[id] + g[id]
  BY IdsFinite, SumUpdate

\* A message adds what it carries to the flow over its bridge.
LEMMA FlowAfterSend ==
  ASSUME TunnelTypes, TransferTypes, NEW m, Len(messages) < MaxMessages,
         messages' = Append(messages, m), closed' = closed, NEW bridge \in TunnelBridges,
         m.bridge \in TunnelBridges =>
           m.from \in Peers /\ m.data.to \in Holders /\ m.data.amount \in Nat
  PROVE  /\ TransferTypes'
         /\ m.bridge = bridge /\ m.from = "tunnel" =>
              FlowOf(bridge)' = FlowOf(bridge) + m.data.amount
         /\ m.bridge # bridge \/ m.from # "tunnel" => FlowOf(bridge)' = FlowOf(bridge)
<1> DEFINE new == Len(messages) + 1
           f == Carried(bridge)
           g == Carried(bridge)'
<1>1. /\ DOMAIN messages' = 1 .. Len(messages) + 1 /\ DOMAIN messages = 1 .. Len(messages)
      /\ \A id \in DOMAIN messages : messages'[id] = messages[id] /\ id \in DOMAIN messages'
      /\ messages'[new] = m /\ new \in Ids /\ new \notin DOMAIN messages
      /\ Len(messages) \in Nat
  BY SendEffect
<1>2. \A id \in DOMAIN messages' : id \in DOMAIN messages \/ id = new
  BY <1>1
<1>3. TransferTypes'
  BY <1>1, <1>2 DEF TransferTypes
<1>4. new \in DOMAIN messages' /\ new \notin closed
  BY <1>1 DEF TunnelTypes
<1> HIDE DEF new
<1>5. ASSUME NEW id \in Ids \ {new} PROVE g[id] = f[id]
  <2>1. CASE id \in DOMAIN messages
    BY <1>1, <2>1 DEF Carried, OnTheWay, Deliverable
  <2>2. CASE id \notin DOMAIN messages
    BY <1>2, <2>2 DEF Carried, OnTheWay, Deliverable
  <2>3. QED
    BY <2>1, <2>2
<1>6. f[new] = 0 /\ g[new] = IF m.bridge = bridge /\ m.from = "tunnel" THEN m.data.amount ELSE 0
  BY <1>1, <1>4 DEF Carried, OnTheWay, Deliverable
<1>7. /\ \A id \in Ids : f[id] \in Nat
      /\ SumFunctionOnSet(f, Ids) \in Nat /\ FlowOf(bridge) = SumFunctionOnSet(f, Ids)
  BY CarriedTyped DEF FlowOf
<1>8. FlowOf(bridge)' = SumFunctionOnSet(g, Ids)
  BY DEF FlowOf, Ids
<1> HIDE DEF f, g
<1>9. g[new] \in Nat
  BY <1>6
<1>10. \A id \in Ids : f[id] \in Int /\ g[id] \in Int
  BY <1>5, <1>7, <1>9
<1>11. SumFunctionOnSet(g, Ids) = SumFunctionOnSet(f, Ids) - f[new] + g[new]
  BY <1>1, <1>5, <1>10, OneMessageCounts
<1>12. QED
  BY <1>3, <1>6, <1>7, <1>8, <1>9, <1>11

\* A message that arrives takes what it carries out of the flow.
LEMMA FlowAfterClose ==
  ASSUME TunnelTypes, TransferTypes, NEW id \in Ids, Deliverable(id, messages[id].bridge),
         UNCHANGED messages, closed' = closed \cup {id}, NEW bridge \in TunnelBridges
  PROVE  /\ TransferTypes'
         /\ messages[id].bridge = bridge /\ messages[id].from = "tunnel" =>
              FlowOf(bridge)' = FlowOf(bridge) - messages[id].data.amount
         /\ messages[id].bridge # bridge \/ messages[id].from # "tunnel" =>
              FlowOf(bridge)' = FlowOf(bridge)
<1> DEFINE f == Carried(bridge)
           g == Carried(bridge)'
<1>1. TransferTypes'
  BY DEF TransferTypes
<1>2. \A i \in Ids \ {id} : g[i] = f[i]
  BY DEF Carried, OnTheWay, Deliverable
<1>3. /\ g[id] = 0
      /\ f[id] = IF messages[id].bridge = bridge /\ messages[id].from = "tunnel"
                 THEN messages[id].data.amount ELSE 0
  BY DEF Carried, OnTheWay, Deliverable
<1>4. /\ \A i \in Ids : f[i] \in Nat
      /\ SumFunctionOnSet(f, Ids) \in Nat /\ FlowOf(bridge) = SumFunctionOnSet(f, Ids)
  BY CarriedTyped DEF FlowOf
<1>5. FlowOf(bridge)' = SumFunctionOnSet(g, Ids)
  BY DEF FlowOf, Ids
<1> HIDE DEF f, g
<1>6. \A i \in Ids : f[i] \in Int /\ g[i] \in Int
  BY <1>2, <1>3, <1>4
<1>7. SumFunctionOnSet(g, Ids) = SumFunctionOnSet(f, Ids) - f[id] + g[id]
  BY <1>2, <1>6, IdsFinite, SumUpdate
<1>8. f[id] \in Nat
  BY <1>4
<1>9. QED
  BY <1>1, <1>3, <1>4, <1>5, <1>7, <1>8

LEMMA HoldingsSum ==
  ASSUME NEW f \in [Holders -> Nat], NEW g \in [Holders -> Nat], NEW h \in Holders,
         \A i \in Holders \ {h} : g[i] = f[i]
  PROVE  /\ SumFunctionOnSet(g, Holders) = SumFunctionOnSet(f, Holders) - f[h] + g[h]
         /\ SumFunctionOnSet(f, Holders) \in Nat
<1>1. \A i \in Holders : f[i] \in Nat /\ f[i] \in Int /\ g[i] \in Int
  OBVIOUS
<1>2. SumFunctionOnSet(g, Holders) = SumFunctionOnSet(f, Holders) - f[h] + g[h]
  BY <1>1, TunnelsAssumption, SumUpdate
<1>3. SumFunctionOnSet(f, Holders) \in Nat
  BY <1>1, TunnelsAssumption, SumNat
<1>4. QED
  BY <1>2, <1>3

LEMMA TunnelInit == Init => TunnelInv
<1> SUFFICES ASSUME Init PROVE TunnelInv
  OBVIOUS
<1>1. messages = <<>> /\ closed = {} /\ locked = 0
      /\ childBalance = [h \in Holders |-> ChildSupply] /\ rootBalance = [h \in Holders |-> 0]
  BY DEF Init, BridgeInit, TunnelsInit
<1>2. messages \in Seq(Range(messages)) /\ Len(messages) = 0 /\ DOMAIN messages = {}
  BY <1>1, EmptySeq
<1>3. TunnelTypes /\ TransferTypes
  BY <1>1, <1>2, IdsFinite, TunnelsAssumption DEF TunnelTypes, TransferTypes
<1>4. \A bridge : FlowOf(bridge) = 0
  <2> SUFFICES ASSUME NEW bridge PROVE FlowOf(bridge) = 0
    OBVIOUS
  <2>1. \A id \in Ids : Carried(bridge)[id] = 0
    BY <1>2 DEF Carried, OnTheWay, Deliverable
  <2>2. QED
    BY <2>1, IdsFinite, SumZero DEF FlowOf
<1>5. SumFunctionOnSet(rootBalance, Holders) = 0
  <2>1. \A h \in Holders : rootBalance[h] = 0
    BY <1>1
  <2>2. QED
    BY <2>1, TunnelsAssumption, SumZero
<1>6. QED
  BY <1>1, <1>3, <1>4, <1>5 DEF TunnelInv, Backing

\* A message that does not go over a tunnel.
LEMMA OtherMessageKeeps ==
  ASSUME TunnelInv, UNCHANGED tunnelVars, NEW m, m.bridge \notin TunnelBridges,
         Len(messages) < MaxMessages, messages' = Append(messages, m), closed' = closed
  PROVE  TunnelInv'
<1>1. ASSUME NEW bridge \in TunnelBridges
      PROVE  TransferTypes' /\ FlowOf(bridge)' = FlowOf(bridge)
  <2>1. TunnelTypes /\ TransferTypes /\ m.bridge # bridge
    BY DEF TunnelInv
  <2>2. QED
    BY <2>1, FlowAfterSend
<1>2. TunnelTypes'
  BY SendEffect DEF TunnelInv, TunnelTypes, tunnelVars
<1>3. QED
  BY <1>1, <1>2 DEF TunnelInv, RightPeers, Backing, TunnelBridges, tunnelVars

LEMMA OtherArrivalKeeps ==
  ASSUME TunnelInv, UNCHANGED tunnelVars, UNCHANGED messages, NEW m \in Bridges, NEW id \in Ids,
         Deliverable(id, m), Close(id)
  PROVE  TunnelInv'
<1>1. id \in DOMAIN messages /\ messages[id].bridge = m /\ m \notin TunnelBridges
  BY BridgesAssumption DEF Deliverable, TunnelBridges
<1>2. CASE closed' = closed
  BY <1>2 DEF TunnelInv, TunnelTypes, TransferTypes, RightPeers, Backing, FlowOf, Carried, OnTheWay,
              Deliverable, tunnelVars, Ids
<1>3. CASE closed' = closed \cup {id}
  <2>1. ASSUME NEW bridge \in TunnelBridges
        PROVE  TransferTypes' /\ FlowOf(bridge)' = FlowOf(bridge)
    <3>1. /\ TunnelTypes /\ TransferTypes /\ messages[id].bridge # bridge
          /\ Deliverable(id, messages[id].bridge)
      BY <1>1 DEF TunnelInv
    <3>2. QED
      BY <1>3, <3>1, FlowAfterClose
  <2>2. TunnelTypes'
    BY <1>1, <1>3 DEF TunnelInv, TunnelTypes, tunnelVars
  <2>3. QED
    BY <2>1, <2>2 DEF TunnelInv, RightPeers, Backing, TunnelBridges, tunnelVars
<1>4. QED
  BY <1>2, <1>3 DEF Close

LEMMA DepositKeeps ==
  ASSUME TunnelInv, NEW from \in Holders, NEW to \in Holders, NEW amount \in 1 .. ChildSupply,
         Deposit(from, to, amount)
  PROVE  TunnelInv'
<1> DEFINE m == [bridge |-> "toRoot", from |-> "tunnel", data |-> Transfer("tunnel", to, amount)]
<1>1. /\ m.bridge = "toRoot" /\ m.from = "tunnel" /\ m.from \in Peers
      /\ m.data.to = to /\ m.data.amount = amount /\ amount \in Nat
      /\ Len(messages) < MaxMessages /\ messages' = Append(messages, m) /\ closed' = closed
      /\ rootBalance' = rootBalance /\ locked' = locked + amount /\ RightPeers' = RightPeers
  BY DEF Deposit, Send, Transfer, wiring, Peers, RightPeers
<1>2. childBalance' \in [Holders -> Nat] /\ locked \in Nat
  BY <1>1 DEF Deposit, TunnelInv, TunnelTypes
<1> HIDE DEF m
<1>3. /\ TransferTypes' /\ FlowOf("toRoot")' = FlowOf("toRoot") + amount
      /\ FlowOf("toChild")' = FlowOf("toChild")
  <2>1. "toRoot" \in TunnelBridges /\ "toChild" \in TunnelBridges /\ "toRoot" # "toChild"
    BY DEF TunnelBridges
  <2>2. QED
    BY <1>1, <2>1, FlowAfterSend DEF TunnelInv
<1>4. TunnelTypes'
  <2>1. TunnelTypes
    BY DEF TunnelInv
  <2>2. /\ messages' \in Seq(Range(messages')) /\ Len(messages') <= MaxMessages
        /\ \A id \in DOMAIN messages : id \in DOMAIN messages'
    BY <1>1, <2>1, SendEffect
  <2>3. closed' \subseteq DOMAIN messages' /\ locked' \in Nat
    BY <1>1, <1>2, <2>1, <2>2 DEF TunnelTypes
  <2>4. rootBalance' \in [Holders -> Nat]
    BY <1>1, <2>1 DEF TunnelTypes
  <2>5. QED
    BY <1>2, <2>2, <2>3, <2>4 DEF TunnelTypes
<1>5. FlowOf("toRoot") \in Nat /\ FlowOf("toChild") \in Nat
  BY CarriedTyped DEF TunnelInv, TunnelBridges
<1>6. SumFunctionOnSet(rootBalance, Holders) \in Nat
  BY TunnelsAssumption, SumNat DEF TunnelInv, TunnelTypes
<1>7. Backing => Backing'
  BY <1>1, <1>2, <1>3, <1>5, <1>6 DEF Backing
<1>8. QED
  BY <1>1, <1>3, <1>4, <1>7 DEF TunnelInv

LEMMA WithdrawKeeps ==
  ASSUME TunnelInv, NEW from \in Holders, NEW to \in Holders, NEW amount \in 1 .. ChildSupply,
         Withdraw(from, to, amount)
  PROVE  TunnelInv'
<1> DEFINE m == [bridge |-> "toChild", from |-> "tunnel", data |-> Transfer(fxChildTunnel, to, amount)]
<1>1. /\ m.bridge = "toChild" /\ m.from = "tunnel" /\ m.from \in Peers
      /\ m.data.to = to /\ m.data.amount = amount /\ amount \in Nat
      /\ Len(messages) < MaxMessages /\ messages' = Append(messages, m) /\ closed' = closed
      /\ UNCHANGED <<childBalance, locked>> /\ RightPeers' = RightPeers
  BY DEF Withdraw, Send, Transfer, wiring, Peers, RightPeers
<1>2. /\ rootBalance \in [Holders -> Nat] /\ rootBalance[from] \in Nat
      /\ amount <= rootBalance[from] /\ locked \in Nat
      /\ rootBalance' = [rootBalance EXCEPT ![from] = rootBalance[from] - amount]
  BY DEF Withdraw, TunnelInv, TunnelTypes
<1>3. /\ rootBalance' \in [Holders -> Nat] /\ rootBalance'[from] = rootBalance[from] - amount
      /\ \A h \in Holders \ {from} : rootBalance'[h] = rootBalance[h]
  BY <1>1, <1>2
<1> HIDE DEF m
<1>4. /\ SumFunctionOnSet(rootBalance', Holders) =
           SumFunctionOnSet(rootBalance, Holders) - rootBalance[from] + rootBalance'[from]
      /\ SumFunctionOnSet(rootBalance, Holders) \in Nat
  BY <1>2, <1>3, HoldingsSum
<1>5. /\ TransferTypes' /\ FlowOf("toChild")' = FlowOf("toChild") + amount
      /\ FlowOf("toRoot")' = FlowOf("toRoot")
  <2>1. "toRoot" \in TunnelBridges /\ "toChild" \in TunnelBridges /\ "toRoot" # "toChild"
    BY DEF TunnelBridges
  <2>2. QED
    BY <1>1, <2>1, FlowAfterSend DEF TunnelInv
<1>6. TunnelTypes'
  BY <1>1, <1>3, SendEffect DEF TunnelInv, TunnelTypes
<1>7. FlowOf("toRoot") \in Nat /\ FlowOf("toChild") \in Nat
  BY CarriedTyped DEF TunnelInv, TunnelBridges
<1>8. Backing => Backing'
  <2>1. SumFunctionOnSet(rootBalance', Holders) = SumFunctionOnSet(rootBalance, Holders) - amount
    BY <1>1, <1>2, <1>3, <1>4
  <2>2. QED
    BY <1>1, <1>4, <1>5, <1>7, <2>1 DEF Backing
<1>9. QED
  BY <1>1, <1>5, <1>6, <1>8 DEF TunnelInv

LEMMA FromRootKeeps ==
  ASSUME TunnelInv, NEW id \in Ids, ProcessMessageFromRoot(id)
  PROVE  TunnelInv'
<1> DEFINE amount == messages[id].data.amount
           to == messages[id].data.to
<1>1. /\ Deliverable(id, "toChild") /\ messages[id].bridge = "toChild" /\ id \in DOMAIN messages
      /\ "toChild" \in TunnelBridges /\ "toRoot" \in TunnelBridges /\ "toRoot" # "toChild"
      /\ "toChild" \notin Wormhole
  BY BridgesAssumption DEF ProcessMessageFromRoot, Unlocks, Deliverable, TunnelBridges
<1>2. amount \in Nat /\ to \in Holders /\ messages[id].from \in Peers
  BY <1>1 DEF TunnelInv, TransferTypes
<1>3. /\ closed' = closed \cup {id} /\ UNCHANGED <<messages, rootBalance>>
      /\ messages[id].from = fxRootTunnel /\ RightPeers' = RightPeers
      /\ amount <= locked /\ locked' = locked - amount /\ locked \in Nat
      /\ childBalance \in [Holders -> Nat]
      /\ childBalance' = [childBalance EXCEPT ![to] = childBalance[to] + amount]
  BY <1>1 DEF ProcessMessageFromRoot, Unlocks, ValidateSender, Close, wiring, RightPeers, TunnelInv,
              TunnelTypes
<1> HIDE DEF amount, to
<1>4. childBalance' \in [Holders -> Nat] /\ locked' \in Nat
  BY <1>2, <1>3
<1>5. /\ TransferTypes'
      /\ RightPeers => FlowOf("toChild")' = FlowOf("toChild") - amount
      /\ FlowOf("toRoot")' = FlowOf("toRoot")
  <2>1. RightPeers => messages[id].from = "tunnel"
    BY <1>2, <1>3 DEF RightPeers, Peers
  <2>2. QED
    BY <2>1, <1>1, <1>3, FlowAfterClose DEF TunnelInv, amount
<1>6. TunnelTypes'
  BY <1>1, <1>3, <1>4 DEF TunnelInv, TunnelTypes
<1>7. /\ FlowOf("toRoot") \in Nat /\ FlowOf("toChild") \in Nat
      /\ SumFunctionOnSet(rootBalance, Holders) \in Nat
  <2>1. FlowOf("toRoot") \in Nat /\ FlowOf("toChild") \in Nat
    BY <1>1, CarriedTyped DEF TunnelInv
  <2>2. SumFunctionOnSet(rootBalance, Holders) \in Nat
    BY TunnelsAssumption, SumNat DEF TunnelInv, TunnelTypes
  <2>3. QED
    BY <2>1, <2>2
<1>8. RightPeers /\ Backing => Backing'
  BY <1>2, <1>3, <1>5, <1>7 DEF Backing
<1>9. QED
  BY <1>3, <1>5, <1>6, <1>8 DEF TunnelInv

LEMMA FromChildKeeps ==
  ASSUME TunnelInv, NEW id \in Ids, ProcessMessageFromChild(id)
  PROVE  TunnelInv'
<1> DEFINE amount == messages[id].data.amount
           to == messages[id].data.to
<1>1. /\ Deliverable(id, "toRoot") /\ messages[id].bridge = "toRoot" /\ id \in DOMAIN messages
      /\ "toChild" \in TunnelBridges /\ "toRoot" \in TunnelBridges /\ "toRoot" # "toChild"
      /\ "toRoot" \notin Wormhole
  BY BridgesAssumption DEF ProcessMessageFromChild, Deliverable, TunnelBridges
<1>2. amount \in Nat /\ to \in Holders /\ messages[id].from \in Peers
  BY <1>1 DEF TunnelInv, TransferTypes
<1>3. /\ closed' = closed \cup {id} /\ UNCHANGED <<messages, childBalance, locked>>
      /\ messages[id].from = fxChildTunnel /\ RightPeers' = RightPeers
      /\ locked \in Nat /\ rootBalance \in [Holders -> Nat] /\ rootBalance[to] \in Nat
      /\ rootBalance' = [rootBalance EXCEPT ![to] = rootBalance[to] + amount]
  BY <1>1, <1>2 DEF ProcessMessageFromChild, SentByChild, Close, wiring, RightPeers, TunnelInv,
                    TunnelTypes
<1> HIDE DEF amount, to
<1>4. /\ rootBalance' \in [Holders -> Nat] /\ rootBalance'[to] = rootBalance[to] + amount
      /\ \A h \in Holders \ {to} : rootBalance'[h] = rootBalance[h]
  BY <1>2, <1>3
<1>5. /\ TransferTypes'
      /\ RightPeers => FlowOf("toRoot")' = FlowOf("toRoot") - amount
      /\ FlowOf("toChild")' = FlowOf("toChild")
  <2>1. RightPeers => messages[id].from = "tunnel"
    BY <1>2, <1>3 DEF RightPeers, Peers
  <2>2. QED
    BY <2>1, <1>1, <1>3, FlowAfterClose DEF TunnelInv, amount
<1>6. TunnelTypes'
  BY <1>1, <1>3, <1>4 DEF TunnelInv, TunnelTypes
<1>7. FlowOf("toRoot") \in Nat /\ FlowOf("toChild") \in Nat
  BY <1>1, CarriedTyped DEF TunnelInv
<1>8. /\ SumFunctionOnSet(rootBalance', Holders) =
           SumFunctionOnSet(rootBalance, Holders) - rootBalance[to] + rootBalance'[to]
      /\ SumFunctionOnSet(rootBalance, Holders) \in Nat
  BY <1>2, <1>3, <1>4, HoldingsSum
<1>9. RightPeers /\ Backing => Backing'
  BY <1>2, <1>3, <1>4, <1>5, <1>7, <1>8 DEF Backing
<1>10. QED
  BY <1>3, <1>5, <1>6, <1>9 DEF TunnelInv

\* What the tunnels are told, and what other contracts send them, moves no tokens.
LEMMA OtherSendKeeps ==
  ASSUME TunnelInv, NEW bridge \in TunnelBridges, NEW to \in Holders, NEW amount \in 1 .. ChildSupply,
         SendOther(bridge, to, amount)
  PROVE  TunnelInv'
<1> DEFINE m == [bridge |-> bridge, from |-> "other", data |-> Transfer("tunnel", to, amount)]
<1>1. /\ m.from = "other" /\ m.from \in Peers /\ m.data.to = to /\ m.data.amount = amount /\ amount \in Nat
      /\ Len(messages) < MaxMessages /\ messages' = Append(messages, m) /\ closed' = closed
      /\ UNCHANGED tunnelVars
  BY DEF SendOther, Send, Transfer, Peers
<1> HIDE DEF m
<1>2. ASSUME NEW b \in TunnelBridges PROVE TransferTypes' /\ FlowOf(b)' = FlowOf(b)
  BY <1>1, FlowAfterSend DEF TunnelInv
<1>3. TunnelTypes'
  BY <1>1, SendEffect DEF TunnelInv, TunnelTypes, tunnelVars
<1>4. QED
  BY <1>1, <1>2, <1>3 DEF TunnelInv, RightPeers, Backing, TunnelBridges, tunnelVars

LEMMA TunnelStep == TunnelInv /\ [Next]_vars => TunnelInv'
<1> SUFFICES ASSUME TunnelInv, [Next]_vars
             PROVE  TunnelInv'
  OBVIOUS
<1>1. ASSUME UNCHANGED <<messages, closed, childBalance, locked, rootBalance>>,
             RightPeers' => RightPeers
      PROVE  TunnelInv'
  BY <1>1 DEF TunnelInv, TunnelTypes, TransferTypes, Backing, FlowOf, Carried, OnTheWay, Deliverable, Ids
<1>2. ASSUME NEW bridge \in Bridges, NEW from, NEW calls, SendBatch(bridge, from, calls),
             UNCHANGED tunnelVars
      PROVE  TunnelInv'
  <2> DEFINE m == [bridge |-> bridge, from |-> from, data |-> calls]
  <2>1. /\ m.bridge \notin TunnelBridges /\ closed' = closed
        /\ Len(messages) < MaxMessages /\ messages' = Append(messages, m)
    BY <1>2, BridgesAssumption DEF SendBatch, Send, TunnelBridges
  <2> HIDE DEF m
  <2>2. QED
    BY <1>2, <2>1, OtherMessageKeeps
<1>3. CASE SendStep /\ UNCHANGED tunnelVars
  <2>1. \E bridge \in Bridges : \E from, calls : SendBatch(bridge, from, calls)
    BY <1>3, BridgesAssumption
       DEF SendStep, SendFromTimelock, proposal_09, SendPayloadToEvm, SendFromDeployer
  <2>2. QED
    BY <1>2, <1>3, <2>1
<1>4. CASE DeliverStep /\ UNCHANGED tunnelVars
  <2>1. PICK m \in Bridges, id \in Ids : Deliver(m, id)
    BY <1>4 DEF DeliverStep, Ids
  <2>2. Deliverable(id, m) /\ Close(id) /\ UNCHANGED messages
    BY <2>1 DEF Deliver, Executes
  <2>3. QED
    BY <1>4, <2>1, <2>2, OtherArrivalKeeps
<1>5. CASE (RevertStep \/ EnvironmentStep) /\ UNCHANGED tunnelVars
  BY <1>1, <1>5 DEF RevertStep, DeliveryReverts, EnvironmentStep, Fund, AppStops, AppRecovers,
                    bridgeVars, tunnelVars, RightPeers
<1>6. CASE WireStep
  BY <1>1, <1>6 DEF WireStep, ChangeOwnerToTunnel, SetFxChildTunnel, SetFxRootTunnel, bridgeVars, RightPeers
<1>7. CASE HolderStep
  BY <1>7, DepositKeeps, WithdrawKeeps DEF HolderStep
<1>8. CASE OtherStep
  BY <1>8, OtherSendKeeps DEF OtherStep, TunnelBridges
<1>9. CASE \E id \in 1 .. MaxMessages : Arrive(id)
  <2>1. PICK id \in Ids : Arrive(id)
    BY <1>9 DEF Ids
  <2>2. CASE MessageFromRootReverts(id)
    BY <1>1, <2>2 DEF MessageFromRootReverts, tunnelVars, RightPeers
  <2>3. QED
    BY <2>1, <2>2, FromRootKeeps, FromChildKeeps DEF Arrive
<1>10. CASE UNCHANGED vars
  BY <1>1, <1>10 DEF vars, bridgeVars, tunnelVars, RightPeers
<1>11. QED
  BY <1>3, <1>4, <1>5, <1>6, <1>7, <1>8, <1>9, <1>10 DEF Next, MessengersNext, TunnelsNext

\* The sum that the inductive invariant has is the one that the property has.
LEMMA TunnelInvBacks == TunnelInv => LockedBacksBridged
<1> SUFFICES ASSUME TunnelInv PROVE LockedBacksBridged
  OBVIOUS
<1>1. SumFunction(rootBalance) = SumFunctionOnSet(rootBalance, Holders)
  <2>1. DOMAIN rootBalance = Holders
    BY DEF TunnelInv, TunnelTypes
  <2>2. QED
    BY <2>1 DEF SumFunction
<1>2. InTransit("toRoot") = FlowOf("toRoot") /\ InTransit("toChild") = FlowOf("toChild")
  BY TransitIsFlow DEF TunnelInv, TunnelBridges
<1>3. QED
  BY <1>1, <1>2 DEF TunnelInv, Backing, LockedBacksBridged

\* FxERC20ChildTunnel and FxERC20RootTunnel: unless somebody has told one of them of
\* another contract, what is locked on L2 is what is minted on L1 and what is on its way,
\* whenever they are wired, whatever others send them and in whatever order it arrives.
THEOREM LockedAlwaysBacksBridged == Spec => []LockedBacksBridged
  BY TunnelInit, TunnelStep, TunnelInvBacks, PTL DEF Spec

(***************************************************************************)
(* Withdrawals                                                             *)
(***************************************************************************)

\* A withdrawal goes to the contract that the root tunnel knows.
SentToPeer ==
  \A id \in DOMAIN messages :
    messages[id].bridge = "toChild" /\ messages[id].from = "tunnel" =>
      fxChildTunnel # "none" /\ messages[id].data.receiver = fxChildTunnel

\* There is none before that, as nothing is minted.
NothingMinted == fxChildTunnel = "none" => \A h \in Holders : rootBalance[h] = 0

PeerInv == TunnelInv /\ SentToPeer /\ NothingMinted

LEMMA PeerInit == Init => PeerInv
<1> SUFFICES ASSUME Init PROVE PeerInv
  OBVIOUS
<1>1. messages = <<>> /\ rootBalance = [h \in Holders |-> 0]
  BY DEF Init, BridgeInit, TunnelsInit
<1>2. QED
  BY <1>1, TunnelInit DEF PeerInv, SentToPeer, NothingMinted

LEMMA PeerStep == PeerInv /\ [Next]_vars => PeerInv'
<1> SUFFICES ASSUME PeerInv, [Next]_vars
             PROVE  PeerInv'
  OBVIOUS
<1> USE DEF PeerInv
<1>1. TunnelInv'
  BY TunnelStep
<1>2. TunnelTypes /\ TransferTypes
  BY DEF TunnelInv
<1>3. ASSUME UNCHANGED <<messages, rootBalance>>,
             fxChildTunnel # "none" => UNCHANGED fxChildTunnel
      PROVE  PeerInv'
  BY <1>1, <1>3 DEF SentToPeer, NothingMinted
<1>4. ASSUME NEW m, Len(messages) < MaxMessages, messages' = Append(messages, m),
             UNCHANGED fxChildTunnel,
             m.bridge = "toChild" /\ m.from = "tunnel" =>
               fxChildTunnel # "none" /\ m.data.receiver = fxChildTunnel
      PROVE  SentToPeer'
  BY <1>2, <1>4, SendEffect DEF SentToPeer
<1>5. ASSUME NEW bridge \in Bridges, NEW from, NEW calls, SendBatch(bridge, from, calls),
             UNCHANGED tunnelVars
      PROVE  PeerInv'
  <2> DEFINE m == [bridge |-> bridge, from |-> from, data |-> calls]
  <2>1. /\ m.bridge # "toChild"
        /\ Len(messages) < MaxMessages /\ messages' = Append(messages, m)
    BY <1>5, BridgesAssumption DEF SendBatch, Send
  <2> HIDE DEF m
  <2>2. QED
    BY <1>1, <1>4, <1>5, <2>1 DEF NothingMinted, tunnelVars
<1>6. CASE SendStep /\ UNCHANGED tunnelVars
  <2>1. \E bridge \in Bridges : \E from, calls : SendBatch(bridge, from, calls)
    BY <1>6, BridgesAssumption
       DEF SendStep, SendFromTimelock, proposal_09, SendPayloadToEvm, SendFromDeployer
  <2>2. QED
    BY <1>5, <1>6, <2>1
<1>7. CASE (DeliverStep \/ RevertStep \/ EnvironmentStep) /\ UNCHANGED tunnelVars
  BY <1>3, <1>7 DEF DeliverStep, Deliver, RevertStep, DeliveryReverts, EnvironmentStep, Fund, AppStops,
                    AppRecovers, bridgeVars, tunnelVars
<1>8. CASE WireStep
  BY <1>3, <1>8 DEF WireStep, ChangeOwnerToTunnel, SetFxChildTunnel, SetFxRootTunnel, bridgeVars
<1>9. CASE HolderStep
  <2>1. PICK from \in Holders, to \in Holders, amount \in 1 .. ChildSupply :
          Deposit(from, to, amount) \/ Withdraw(from, to, amount)
    BY <1>9 DEF HolderStep
  <2>2. CASE Deposit(from, to, amount)
    <3> DEFINE m == [bridge |-> "toRoot", from |-> "tunnel", data |-> Transfer("tunnel", to, amount)]
    <3>1. /\ m.bridge # "toChild" /\ Len(messages) < MaxMessages /\ messages' = Append(messages, m)
          /\ UNCHANGED <<rootBalance, fxChildTunnel>>
      BY <2>2 DEF Deposit, Send, wiring
    <3> HIDE DEF m
    <3>2. QED
      BY <1>1, <1>4, <3>1 DEF NothingMinted
  <2>3. CASE Withdraw(from, to, amount)
    <3> DEFINE m == [bridge |-> "toChild", from |-> "tunnel", data |-> Transfer(fxChildTunnel, to, amount)]
    <3>1. /\ m.data.receiver = fxChildTunnel
          /\ Len(messages) < MaxMessages /\ messages' = Append(messages, m)
          /\ UNCHANGED fxChildTunnel /\ amount > 0 /\ amount <= rootBalance[from]
      BY <2>3 DEF Withdraw, Send, Transfer, wiring
    <3> HIDE DEF m
    <3>2. fxChildTunnel # "none"
      BY <3>1 DEF NothingMinted
    <3>3. QED
      BY <1>1, <1>4, <3>1, <3>2 DEF NothingMinted
  <2>4. QED
    BY <2>1, <2>2, <2>3
<1>10. CASE OtherStep
  <2>1. PICK bridge \in TunnelBridges, to \in Holders, amount \in 1 .. ChildSupply :
          SendOther(bridge, to, amount)
    BY <1>10 DEF OtherStep, TunnelBridges
  <2> DEFINE m == [bridge |-> bridge, from |-> "other", data |-> Transfer("tunnel", to, amount)]
  <2>2. /\ m.from # "tunnel" /\ Len(messages) < MaxMessages /\ messages' = Append(messages, m)
        /\ UNCHANGED <<rootBalance, fxChildTunnel>>
    BY <2>1 DEF SendOther, Send, tunnelVars
  <2> HIDE DEF m
  <2>3. QED
    BY <1>1, <1>4, <2>2 DEF NothingMinted
<1>11. CASE \E id \in 1 .. MaxMessages : Arrive(id)
  <2>1. PICK id \in Ids : Arrive(id)
    BY <1>11 DEF Ids
  <2>2. CASE ProcessMessageFromRoot(id) \/ MessageFromRootReverts(id)
    BY <1>3, <2>2 DEF ProcessMessageFromRoot, MessageFromRootReverts, wiring, tunnelVars
  <2>3. CASE ProcessMessageFromChild(id)
    <3>1. UNCHANGED <<messages, fxChildTunnel>> /\ messages[id].from = fxChildTunnel
          /\ id \in DOMAIN messages /\ messages[id].bridge \in TunnelBridges
      BY <2>3 DEF ProcessMessageFromChild, SentByChild, Deliverable, wiring, TunnelBridges
    <3>2. fxChildTunnel # "none"
      BY <1>2, <3>1 DEF TransferTypes, Peers
    <3>3. QED
      BY <1>1, <3>1, <3>2 DEF SentToPeer, NothingMinted
  <2>4. QED
    BY <2>1, <2>2, <2>3 DEF Arrive
<1>12. CASE UNCHANGED vars
  BY <1>3, <1>12 DEF vars, bridgeVars, tunnelVars
<1>13. QED
  BY <1>6, <1>7, <1>8, <1>9, <1>10, <1>11, <1>12 DEF Next, MessengersNext, TunnelsNext

\* What one message carries is no more than all of them carry.
LEMMA FlowCovers ==
  ASSUME TunnelTypes, TransferTypes, NEW bridge \in TunnelBridges, NEW id \in Ids, OnTheWay(id, bridge)
  PROVE  messages[id].data.amount <= FlowOf(bridge)
<1> DEFINE f == Carried(bridge)
<1>1. \A i \in Ids : f[i] \in Nat /\ f[i] \in Int
  BY CarriedTyped
<1>2. f[id] = messages[id].data.amount
  BY DEF Carried
<1>3. FlowOf(bridge) = SumFunctionOnSet(f, Ids)
  BY DEF FlowOf
<1> HIDE DEF f
<1>4. SumFunctionOnSet(f, Ids) = f[id] + SumFunctionOnSet(f, Ids \ {id})
  BY <1>1, IdsFinite, SumTake
<1>5. SumFunctionOnSet(f, Ids \ {id}) \in Nat
  BY <1>1, IdsFinite, FS_Difference, SumNat
<1>6. f[id] \in Nat
  BY <1>1
<1>7. QED
  BY <1>2, <1>3, <1>4, <1>5, <1>6

\* What was burned and is on its way is locked: the child tunnel has what it takes.
LEMMA WithdrawalUnlocks ==
  ASSUME PeerInv, NEW id \in Ids, Deliverable(id, "toChild"), messages[id].from = "tunnel",
         fxChildTunnel = "tunnel", fxRootTunnel = "tunnel"
  PROVE  Unlocks(id)
<1>1. /\ TunnelTypes /\ TransferTypes /\ Backing
      /\ "toChild" \in TunnelBridges /\ "toRoot" \in TunnelBridges
  BY DEF PeerInv, TunnelInv, RightPeers, TunnelBridges
<1>2. id \in DOMAIN messages /\ messages[id].bridge = "toChild"
  BY DEF Deliverable
<1>3. messages[id].data.receiver = "tunnel"
  BY <1>2 DEF PeerInv, SentToPeer
<1>4. /\ messages[id].data.amount \in Nat
      /\ FlowOf("toRoot") \in Nat /\ FlowOf("toChild") \in Nat
      /\ SumFunctionOnSet(rootBalance, Holders) \in Nat
  BY <1>1, <1>2, CarriedTyped, TunnelsAssumption, SumNat DEF TransferTypes, TunnelTypes
<1>5. messages[id].data.amount <= FlowOf("toChild")
  BY <1>1, FlowCovers DEF OnTheWay
<1>6. messages[id].data.amount <= locked
  BY <1>1, <1>4, <1>5 DEF Backing
<1>7. QED
  BY <1>3, <1>6 DEF Unlocks, ValidateSender

\* FxERC20ChildTunnel._processMessageFromRoot: once the tunnels know each other no state
\* sync of a withdrawal reverts, so that no burned token is lost with one.
THEOREM WithdrawalsAlwaysSurvive == Spec => WithdrawalsSurvive
<1> DEFINE Survives(id) ==
      messages[id].bridge = "toChild" /\ messages[id].from = "tunnel"
        => fxChildTunnel # "tunnel" \/ fxRootTunnel # "tunnel"
<1>1. ASSUME PeerInv, [Next]_vars
      PROVE  [\A id \in failed' \ failed : Survives(id)]_<<bridgeVars, tunnelVars>>
  <2> SUFFICES ASSUME NEW id \in failed' \ failed PROVE Survives(id)
    OBVIOUS
  <2>1. failed' # failed
    OBVIOUS
  <2>2. CASE RevertStep
    <3>1. PICK m \in Bridges, i \in Ids : DeliveryReverts(m, i)
      BY <2>2 DEF RevertStep, Ids
    <3>2. failed' \subseteq failed \cup {i} /\ messages[i].bridge = m
      BY <3>1 DEF DeliveryReverts, Fail, Deliverable
    <3>3. QED
      BY <3>2, BridgesAssumption
  <2>3. CASE \E i \in 1 .. MaxMessages : Arrive(i)
    <3>1. PICK i \in Ids : Arrive(i)
      BY <2>3 DEF Ids
    <3>2. MessageFromRootReverts(i)
      BY <2>1, <3>1 DEF Arrive, ProcessMessageFromRoot, ProcessMessageFromChild
    <3>3. /\ failed' \subseteq failed \cup {i} /\ Deliverable(i, "toChild") /\ ~Unlocks(i)
      BY <3>2 DEF MessageFromRootReverts, Fail
    <3>4. QED
      BY <1>1, <3>3, WithdrawalUnlocks
  <2>4. CASE failed' = failed
    BY <2>1, <2>4
  <2>5. QED
    <3>1. CASE SendStep \/ DeliverStep \/ EnvironmentStep
      BY <2>4, <3>1 DEF SendStep, SendFromTimelock, proposal_09, SendPayloadToEvm, SendFromDeployer, SendBatch,
                        DeliverStep, Deliver, EnvironmentStep, Fund, AppStops, AppRecovers, bridgeVars
    <3>2. CASE WireStep \/ HolderStep \/ OtherStep
      BY <2>4, <3>2 DEF WireStep, ChangeOwnerToTunnel, SetFxChildTunnel, SetFxRootTunnel, HolderStep, Deposit,
                        Withdraw, OtherStep, SendOther, bridgeVars
    <3>3. CASE UNCHANGED vars
      BY <2>4, <3>3 DEF vars, bridgeVars
    <3>4. QED
      BY <1>1, <2>2, <2>3, <3>1, <3>2, <3>3 DEF Next, MessengersNext, TunnelsNext
<1>2. QED
  BY <1>1, PeerInit, PeerStep, PTL DEF Spec, WithdrawalsSurvive

(***************************************************************************)
(* Recursion by jumps                                                      *)
(***************************************************************************)

\* A function by recursion on a number further on.
IsJumps(f, n, Goes, head, next, out) ==
  f = [at \in 0 .. n |-> IF at \in Goes THEN head[at] \o f[next[at]] ELSE out[at]]

LEMMA JumpsDefined ==
  ASSUME NEW n \in Nat, NEW Goes \in SUBSET (0 .. n), NEW out, NEW head, NEW next,
         \A at \in Goes : next[at] \in at + 1 .. n
  PROVE  \E f : IsJumps(f, n, Goes, head, next, out)
<1> DEFINE Jumps(f, k) ==
             f = [at \in k .. n |-> IF at \in Goes THEN head[at] \o f[next[at]] ELSE out[at]]
           T == {k \in 0 .. n : \E f : Jumps(f, n - k)}
<1>1. 0 \in T
  <2>1. n \notin Goes /\ n - 0 = n /\ 0 \in 0 .. n
    BY SMT
  <2>2. Jumps([at \in n .. n |-> out[at]], n)
    BY <2>1
  <2> HIDE DEF Jumps
  <2>3. QED
    BY <2>1, <2>2
<1>2. ASSUME NEW i \in 0 .. n, i \in T, i < n
      PROVE  i + 1 \in T
  <2>1. PICK k \in 0 .. n : k = n - (i + 1)
    BY <1>2
  <2>2. n - i = k + 1 /\ i + 1 \in 0 .. n
    BY <1>2, <2>1
  <2>3. PICK f : Jumps(f, k + 1)
    BY <1>2, <2>2
  <2> DEFINE g == [at \in k .. n |-> IF at = k
                     THEN IF k \in Goes THEN head[k] \o f[next[k]] ELSE out[k]
                     ELSE f[at]]
  <2>4. ASSUME NEW at \in k .. n
        PROVE  g[at] = IF at \in Goes THEN head[at] \o g[next[at]] ELSE out[at]
    <3>1. \A b \in k + 1 .. n : b \in k .. n /\ g[b] = f[b]
      BY SMT
    <3>2. CASE at = k
      <4>1. k \in Goes => next[k] \in k + 1 .. n
        OBVIOUS
      <4>2. g[k] = IF k \in Goes THEN head[k] \o f[next[k]] ELSE out[k]
        BY <3>2
      <4> HIDE DEF g, Jumps
      <4>3. QED
        BY <3>1, <3>2, <4>1, <4>2
    <3>3. CASE at # k
      <4>1. at \in k + 1 .. n
        BY <3>3
      <4>2. f[at] = IF at \in Goes THEN head[at] \o f[next[at]] ELSE out[at]
        BY <2>3, <4>1
      <4>3. at \in Goes => next[at] \in k + 1 .. n
        <5>1. ASSUME at \in Goes PROVE next[at] \in k + 1 .. n
          <6>1. next[at] \in at + 1 .. n
            BY <5>1
          <6>2. QED
            BY <6>1, <4>1
        <5>2. QED
          BY <5>1
      <4> HIDE DEF g, Jumps
      <4>4. QED
        BY <3>1, <4>1, <4>2, <4>3
    <3>4. QED
      BY <3>2, <3>3
  <2>5. g = [at \in k .. n |-> g[at]]
    OBVIOUS
  <2> HIDE DEF g
  <2>6. Jumps(g, k)
    BY <2>4, <2>5
  <2> HIDE DEF Jumps
  <2>7. QED
    BY <2>1, <2>2, <2>6
<1> HIDE DEF T
<1>3. \A i \in 0 .. n : i \in T
  BY <1>1, <1>2, IntervalInduction
<1>4. n \in T
  BY <1>3
<1>5. n - n = 0
  OBVIOUS
<1>6. PICK f : Jumps(f, 0)
  BY <1>4, <1>5 DEF T
<1>7. QED
  BY <1>6 DEF IsJumps

(***************************************************************************)
(* Packed batches                                                          *)
(***************************************************************************)

Calls == [target : Nat, value : Nat, payload : Seq(Nat)]

LEMMA WidthsTyped ==
  /\ TargetCells \in Nat \ {0} /\ ValueCells \in Nat \ {0} /\ LengthCells \in Nat \ {0}
  /\ DEFAULT_DATA_LENGTH \in Nat \ {0} /\ Base \in Nat
<1>1. TargetCells \in Nat \ {0} /\ ValueCells \in Nat \ {0} /\ LengthCells \in Nat \ {0}
  BY MessengersAssumption
<1>2. QED
  BY <1>1 DEF DEFAULT_DATA_LENGTH, Base

\* The loop that reads a number cell by cell.
Reading(f, data, at, width) ==
  /\ ReadNumber(data, at, width) = f[width]
  /\ f[0] = 0 /\ \A k \in 1 .. width : f[k] = Base * f[k - 1] + data[at + k]
  /\ \A k \in 0 .. width : f[k] \in Nat

LEMMA ReadNumberDef ==
  ASSUME NEW data \in Seq(Nat), NEW at \in Nat, NEW width \in Nat, at + width <= Len(data)
  PROVE  \E f : Reading(f, data, at, width)
<1> DEFINE Reads(f) == f = [k \in 0 .. width |-> IF k = 0 THEN 0 ELSE Base * f[k - 1] + data[at + k]]
<1>1. \A k \in 1 .. width : data[at + k] \in Nat
  <2>1. ASSUME NEW k \in 1 .. width PROVE at + k \in 1 .. Len(data)
    OBVIOUS
  <2>2. QED
    BY <2>1, ElementOfSeq
<1>2. PICK step \in [1 .. width -> [Nat -> Nat]] :
        step = [k \in 1 .. width |-> [x \in Nat |-> Base * x + data[at + k]]]
  <2>1. ASSUME NEW k \in 1 .. width, NEW x \in Nat PROVE Base * x + data[at + k] \in Nat
    BY <1>1, WidthsTyped
  <2>2. QED
    BY <2>1
<1>3. PICK f \in [0 .. width -> Nat] : IsWalk(f, 0, step, width)
  BY WalkExists
<1>4. ASSUME NEW k \in 0 .. width
      PROVE  f[k] = IF k = 0 THEN 0 ELSE Base * f[k - 1] + data[at + k]
  <2>1. f[0] = 0 /\ \A i \in 1 .. width : f[i] = step[i][f[i - 1]]
    BY <1>3 DEF IsWalk
  <2>2. CASE k # 0
    <3>1. k \in 1 .. width /\ k - 1 \in 0 .. width
      BY <2>2
    <3>2. f[k - 1] \in Nat
      BY <3>1
    <3>3. step[k][f[k - 1]] = Base * f[k - 1] + data[at + k]
      BY <1>2, <3>1, <3>2
    <3>4. QED
      BY <2>1, <2>2, <3>1, <3>3
  <2>3. QED
    BY <2>1, <2>2
<1>5. Reads(f)
  BY <1>4
<1>6. PICK upTo : upTo = CHOOSE g : Reads(g)
  OBVIOUS
<1>7. Reads(upTo)
  BY <1>5, <1>6
<1>8. ReadNumber(data, at, width) = upTo[width]
  BY <1>6 DEF ReadNumber
<1>9. /\ upTo[0] = 0 /\ \A k \in 1 .. width : upTo[k] = Base * upTo[k - 1] + data[at + k]
      /\ upTo = [k \in 0 .. width |-> upTo[k]]
  <2>1. 0 \in 0 .. width /\ \A k \in 1 .. width : k \in 0 .. width /\ k # 0
    OBVIOUS
  <2>2. QED
    BY <1>7, <2>1
<1> HIDE DEF Reads
<1> DEFINE T == {k \in 0 .. width : upTo[k] \in Nat}
<1>10. 0 \in T
  BY <1>9
<1>11. ASSUME NEW k \in 0 .. width, k \in T, k < width PROVE k + 1 \in T
  <2>1. k + 1 \in 1 .. width /\ (k + 1) - 1 = k /\ upTo[k] \in Nat
    BY <1>11
  <2>2. upTo[k + 1] = Base * upTo[k] + data[at + (k + 1)]
    BY <1>9, <2>1
  <2>3. upTo[k + 1] \in Nat
    <3>1. data[at + (k + 1)] \in Nat
      BY <1>1, <2>1
    <3>2. PICK b \in Nat, u \in Nat : b = Base /\ u = upTo[k]
      BY <2>1, WidthsTyped
    <3>3. PICK bu \in Nat, d \in Nat : bu = Base * upTo[k] /\ d = data[at + (k + 1)]
      <4>1. b * u \in Nat
        OBVIOUS
      <4>2. QED
        BY <3>1, <3>2, <4>1
    <3>4. upTo[k + 1] = bu + d
      BY <2>2, <3>3
    <3>5. bu + d \in Nat
      OBVIOUS
    <3>6. QED
      BY <3>4, <3>5
  <2>4. QED
    BY <2>1, <2>3
<1> HIDE DEF T
<1>12. \A k \in 0 .. width : k \in T
  BY <1>10, <1>11, IntervalInduction
<1>13. \A k \in 0 .. width : upTo[k] \in Nat
  BY <1>12 DEF T
<1>14. QED
  BY <1>8, <1>9, <1>13 DEF Reading

LEMMA ReadNumberTyped ==
  ASSUME NEW data \in Seq(Nat), NEW at \in Nat, NEW width \in Nat, at + width <= Len(data)
  PROVE  ReadNumber(data, at, width) \in Nat
<1>1. PICK f : Reading(f, data, at, width)
  BY ReadNumberDef
<1>2. width \in 0 .. width
  OBVIOUS
<1>3. QED
  BY <1>1, <1>2 DEF Reading

\* What was written big-endian is read.
LEMMA NumberRead ==
  ASSUME NEW data \in Seq(Nat), NEW at \in Nat, NEW width \in Nat \ {0}, NEW number \in Nat,
         at + width <= Len(data),
         \A k \in 1 .. width : data[at + k] = IF k = width THEN number ELSE 0
  PROVE  ReadNumber(data, at, width) = number
<1>0. PICK f : Reading(f, data, at, width)
  BY ReadNumberDef
<1>1. /\ ReadNumber(data, at, width) = f[width]
      /\ f[0] = 0 /\ \A k \in 1 .. width : f[k] = Base * f[k - 1] + data[at + k]
  BY <1>0 DEF Reading
<1>2. Base * 0 = 0
  BY WidthsTyped
<1> DEFINE T == {k \in 0 .. width : k < width => f[k] = 0}
<1>3. 0 \in T
  BY <1>1
<1>4. ASSUME NEW k \in 0 .. width, k \in T, k < width PROVE k + 1 \in T
  <2>1. k + 1 \in 1 .. width /\ (k + 1) - 1 = k /\ f[k] = 0
    BY <1>4
  <2>2. f[k + 1] = Base * f[k] + data[at + (k + 1)]
    BY <1>1, <2>1
  <2>3. k + 1 < width => data[at + (k + 1)] = 0
    <3>1. PICK j \in 1 .. width : j = k + 1
      BY <2>1
    <3>2. data[at + j] = IF j = width THEN number ELSE 0
      OBVIOUS
    <3>3. k + 1 < width => j # width
      BY <3>1
    <3>4. QED
      BY <3>1, <3>2, <3>3
  <2>4. k + 1 < width => f[k + 1] = 0
    <3>1. Base * f[k] = 0
      BY <1>2, <2>1
    <3>2. k + 1 < width => f[k + 1] = 0 + 0
      BY <2>2, <2>3, <3>1
    <3>3. QED
      BY <3>2
  <2>5. QED
    BY <2>1, <2>4
<1> HIDE DEF T
<1>5. \A k \in 0 .. width : k \in T
  BY <1>3, <1>4, IntervalInduction
<1>6. width \in 1 .. width /\ width - 1 \in 0 .. width /\ width - 1 < width
  OBVIOUS
<1>7. f[width - 1] = 0 /\ data[at + width] = number
  BY <1>5, <1>6 DEF T
<1>8. f[width] = Base * f[width - 1] + data[at + width]
  BY <1>1, <1>6
<1>9. QED
  BY <1>1, <1>2, <1>7, <1>8

LEMMA BigEndianTyped ==
  ASSUME NEW number \in Nat, NEW width \in Nat \ {0}
  PROVE  /\ BigEndian(number, width) \in Seq(Nat) /\ Len(BigEndian(number, width)) = width
         /\ \A k \in 1 .. width : BigEndian(number, width)[k] = IF k = width THEN number ELSE 0
  BY DEF BigEndian

\* The cells of a packed call.
LEMMA PackedCells ==
  ASSUME NEW call \in Calls
  PROVE  /\ Packed(call) \in Seq(Nat)
         /\ Len(Packed(call)) = DEFAULT_DATA_LENGTH + Len(call.payload)
         /\ \A k \in 1 .. TargetCells :
              Packed(call)[k] = IF k = TargetCells THEN call.target ELSE 0
         /\ \A k \in 1 .. ValueCells :
              Packed(call)[TargetCells + k] = IF k = ValueCells THEN call.value ELSE 0
         /\ \A k \in 1 .. LengthCells :
              Packed(call)[TargetCells + ValueCells + k] =
                IF k = LengthCells THEN Len(call.payload) ELSE 0
         /\ \A k \in 1 .. Len(call.payload) :
              Packed(call)[DEFAULT_DATA_LENGTH + k] = call.payload[k]
<1> DEFINE payload == call.payload
           target == BigEndian(call.target, TargetCells)
           value == BigEndian(call.value, ValueCells)
           length == BigEndian(Len(payload), LengthCells)
<1>1. call.target \in Nat /\ call.value \in Nat /\ payload \in Seq(Nat) /\ Len(payload) \in Nat
  BY LenProperties DEF Calls
<1>2. /\ target \in Seq(Nat) /\ Len(target) = TargetCells
      /\ \A k \in 1 .. TargetCells : target[k] = IF k = TargetCells THEN call.target ELSE 0
  BY <1>1, WidthsTyped, BigEndianTyped
<1>3. /\ value \in Seq(Nat) /\ Len(value) = ValueCells
      /\ \A k \in 1 .. ValueCells : value[k] = IF k = ValueCells THEN call.value ELSE 0
  BY <1>1, WidthsTyped, BigEndianTyped
<1>4. /\ length \in Seq(Nat) /\ Len(length) = LengthCells
      /\ \A k \in 1 .. LengthCells : length[k] = IF k = LengthCells THEN Len(payload) ELSE 0
  BY <1>1, WidthsTyped, BigEndianTyped
<1>5. Packed(call) = ((target \o value) \o length) \o payload
  BY DEF Packed
<1> HIDE DEF target, value, length, payload
<1>6. PICK s1, s2, s3 : s1 = target \o value /\ s2 = s1 \o length /\ s3 = s2 \o payload
  OBVIOUS
<1>7. /\ s1 \in Seq(Nat) /\ Len(s1) = TargetCells + ValueCells
      /\ \A k \in 1 .. TargetCells + ValueCells :
           s1[k] = IF k <= TargetCells THEN target[k] ELSE value[k - TargetCells]
  <2>1. target \in Seq(Nat) /\ value \in Seq(Nat) /\ s1 = target \o value
    BY <1>2, <1>3, <1>6
  <2>2. /\ s1 \in Seq(Nat) /\ Len(s1) = Len(target) + Len(value)
        /\ \A k \in 1 .. Len(target) + Len(value) :
             s1[k] = IF k <= Len(target) THEN target[k] ELSE value[k - Len(target)]
    BY ONLY <2>1, ConcatProperties
  <2>3. Len(target) = TargetCells /\ Len(value) = ValueCells
    BY <1>2, <1>3
  <2>4. QED
    BY <2>2, <2>3
<1>8. /\ s2 \in Seq(Nat) /\ Len(s2) = DEFAULT_DATA_LENGTH
      /\ \A k \in 1 .. DEFAULT_DATA_LENGTH :
           s2[k] = IF k <= TargetCells + ValueCells THEN s1[k]
                   ELSE length[k - (TargetCells + ValueCells)]
  <2>1. Len(s1) + Len(length) = DEFAULT_DATA_LENGTH
    BY <1>4, <1>7 DEF DEFAULT_DATA_LENGTH
  <2>2. /\ s2 \in Seq(Nat) /\ Len(s2) = Len(s1) + Len(length)
        /\ \A k \in 1 .. Len(s1) + Len(length) :
             s2[k] = IF k <= Len(s1) THEN s1[k] ELSE length[k - Len(s1)]
    <3>1. s1 \in Seq(Nat) /\ length \in Seq(Nat) /\ s2 = s1 \o length
      BY <1>4, <1>6, <1>7
    <3>2. QED
      BY ONLY <3>1, ConcatProperties
  <2>3. QED
    BY <1>7, <2>1, <2>2
<1>9. /\ s3 \in Seq(Nat) /\ Len(s3) = DEFAULT_DATA_LENGTH + Len(payload)
      /\ \A k \in 1 .. DEFAULT_DATA_LENGTH + Len(payload) :
           s3[k] = IF k <= DEFAULT_DATA_LENGTH THEN s2[k] ELSE payload[k - DEFAULT_DATA_LENGTH]
  <2>1. s2 \in Seq(Nat) /\ payload \in Seq(Nat) /\ s3 = s2 \o payload
    BY <1>1, <1>6, <1>8
  <2>2. /\ s3 \in Seq(Nat) /\ Len(s3) = Len(s2) + Len(payload)
        /\ \A k \in 1 .. Len(s2) + Len(payload) :
             s3[k] = IF k <= Len(s2) THEN s2[k] ELSE payload[k - Len(s2)]
    BY ONLY <2>1, ConcatProperties
  <2>3. Len(s2) = DEFAULT_DATA_LENGTH
    BY <1>8
  <2>4. QED
    BY <2>2, <2>3
<1>10. Packed(call) = s3
  BY <1>5, <1>6
<1>11. DEFAULT_DATA_LENGTH = TargetCells + ValueCells + LengthCells
  BY DEF DEFAULT_DATA_LENGTH
<1>12. ASSUME NEW k \in 1 .. TargetCells
       PROVE  s3[k] = IF k = TargetCells THEN call.target ELSE 0
  <2>1. /\ k \in 1 .. DEFAULT_DATA_LENGTH + Len(payload) /\ k \in 1 .. DEFAULT_DATA_LENGTH
        /\ k \in 1 .. TargetCells + ValueCells /\ k <= TargetCells + ValueCells
        /\ k <= DEFAULT_DATA_LENGTH /\ k <= TargetCells
    BY <1>1, <1>11, WidthsTyped
  <2>2. s3[k] = target[k]
    BY <2>1, <1>7, <1>8, <1>9
  <2>3. QED
    BY <1>2, <2>2
<1>13. ASSUME NEW k \in 1 .. ValueCells
       PROVE  s3[TargetCells + k] = IF k = ValueCells THEN call.value ELSE 0
  <2>1. PICK j : j = TargetCells + k
    OBVIOUS
  <2>2. /\ j \in 1 .. DEFAULT_DATA_LENGTH + Len(payload) /\ j \in 1 .. DEFAULT_DATA_LENGTH
        /\ j \in 1 .. TargetCells + ValueCells /\ j <= TargetCells + ValueCells
        /\ j <= DEFAULT_DATA_LENGTH /\ ~(j <= TargetCells) /\ j - TargetCells = k
    BY <1>1, <1>11, <2>1, WidthsTyped
  <2>3. s3[j] = value[k]
    BY <2>2, <1>7, <1>8, <1>9
  <2>4. QED
    BY <1>3, <2>1, <2>3
<1>14. ASSUME NEW k \in 1 .. LengthCells
       PROVE  s3[TargetCells + ValueCells + k] = IF k = LengthCells THEN Len(payload) ELSE 0
  <2>1. PICK j : j = TargetCells + ValueCells + k
    OBVIOUS
  <2>2. /\ j \in 1 .. DEFAULT_DATA_LENGTH + Len(payload) /\ j \in 1 .. DEFAULT_DATA_LENGTH
        /\ ~(j <= TargetCells + ValueCells)
        /\ j <= DEFAULT_DATA_LENGTH /\ j - (TargetCells + ValueCells) = k
    BY <1>1, <1>11, <2>1, WidthsTyped
  <2>3. s3[j] = length[k]
    BY <2>2, <1>8, <1>9
  <2>4. QED
    BY <1>4, <2>1, <2>3
<1>15. ASSUME NEW k \in 1 .. Len(payload)
       PROVE  s3[DEFAULT_DATA_LENGTH + k] = payload[k]
  <2>1. PICK j : j = DEFAULT_DATA_LENGTH + k
    OBVIOUS
  <2>2. /\ j \in 1 .. DEFAULT_DATA_LENGTH + Len(payload)
        /\ ~(j <= DEFAULT_DATA_LENGTH) /\ j - DEFAULT_DATA_LENGTH = k
    BY <1>1, <2>1, WidthsTyped
  <2>3. QED
    BY <2>1, <2>2, <1>9
<1>16. QED
  BY <1>9, <1>10, <1>12, <1>13, <1>14, <1>15 DEF payload

\* The loop that packs call after call.
LEMMA PackDef ==
  ASSUME NEW calls \in Seq(Calls)
  PROVE  \E f \in [0 .. Len(calls) -> Seq(Nat)] :
           /\ pack_data(calls) = f[Len(calls)]
           /\ f[0] = <<>> /\ \A i \in 1 .. Len(calls) : f[i] = f[i - 1] \o Packed(calls[i])
<1> DEFINE n == Len(calls)
           Packs(f) == f = [i \in 0 .. n |-> IF i = 0 THEN <<>> ELSE f[i - 1] \o Packed(calls[i])]
<1>1. n \in Nat
  BY LenProperties
<1>2. ASSUME NEW i \in 1 .. n PROVE Packed(calls[i]) \in Seq(Nat)
  <2>1. calls[i] \in Calls
    BY ElementOfSeq
  <2>2. QED
    BY <2>1, PackedCells
<1> HIDE DEF n
<1>3. PICK step \in [1 .. n -> [Seq(Nat) -> Seq(Nat)]] :
        step = [i \in 1 .. n |-> [s \in Seq(Nat) |-> s \o Packed(calls[i])]]
  <2>1. ASSUME NEW i \in 1 .. n, NEW s \in Seq(Nat) PROVE s \o Packed(calls[i]) \in Seq(Nat)
    BY <1>2, ConcatProperties
  <2>2. QED
    BY <2>1
<1>4. PICK f \in [0 .. n -> Seq(Nat)] : IsWalk(f, <<>>, step, n)
  <2>1. <<>> \in Seq(Nat)
    OBVIOUS
  <2>2. QED
    BY <1>1, <2>1, WalkExists
<1>5. f[0] = <<>> /\ \A i \in 1 .. n : f[i] = step[i][f[i - 1]]
  BY <1>4 DEF IsWalk
<1>6. ASSUME NEW i \in 1 .. n PROVE f[i] = f[i - 1] \o Packed(calls[i])
  <2>1. i - 1 \in 0 .. n
    BY <1>1
  <2>2. f[i - 1] \in Seq(Nat)
    BY <2>1
  <2>3. step[i][f[i - 1]] = f[i - 1] \o Packed(calls[i])
    BY <1>3, <2>2
  <2>4. QED
    BY <1>5, <2>3
<1>7. Packs(f)
  <2>1. ASSUME NEW i \in 0 .. n PROVE i # 0 => i \in 1 .. n
    BY <1>1
  <2>2. QED
    BY <1>5, <1>6, <2>1
<1>8. PICK upTo : upTo = CHOOSE g : Packs(g)
  OBVIOUS
<1>9. Packs(upTo)
  BY <1>7, <1>8
<1>10. pack_data(calls) = upTo[n]
  BY <1>8 DEF pack_data, n
<1>11. /\ upTo[0] = <<>> /\ \A i \in 1 .. n : upTo[i] = upTo[i - 1] \o Packed(calls[i])
       /\ upTo = [i \in 0 .. n |-> upTo[i]]
  <2>1. 0 \in 0 .. n /\ \A i \in 1 .. n : i \in 0 .. n /\ i # 0
    BY <1>1
  <2>2. QED
    BY <1>9, <2>1
<1> HIDE DEF Packs
<1> DEFINE T == {i \in 0 .. n : upTo[i] \in Seq(Nat)}
<1>12. 0 \in T
  <2>1. <<>> \in Seq(Nat) /\ 0 \in 0 .. n
    BY <1>1
  <2>2. QED
    BY <1>11, <2>1
<1>13. ASSUME NEW i \in 0 .. n, i \in T, i < n PROVE i + 1 \in T
  <2>1. i + 1 \in 1 .. n /\ (i + 1) - 1 = i /\ upTo[i] \in Seq(Nat)
    BY <1>1, <1>13
  <2>2. upTo[i + 1] = upTo[i] \o Packed(calls[i + 1])
    BY <1>11, <2>1
  <2>3. Packed(calls[i + 1]) \in Seq(Nat)
    BY <1>2, <2>1
  <2>4. upTo[i + 1] \in Seq(Nat)
    BY <2>1, <2>2, <2>3, ConcatProperties
  <2>5. i + 1 \in 0 .. n
    BY <2>1
  <2>6. QED
    BY <2>4, <2>5
<1> HIDE DEF T
<1>14. \A i \in 0 .. n : i \in T
  BY <1>1, <1>12, <1>13, IntervalInduction
<1>15. upTo \in [0 .. n -> Seq(Nat)]
  BY <1>11, <1>14 DEF T
<1>16. QED
  BY <1>10, <1>11, <1>15 DEF n

\* Where each call lies in the packed data.
LEMMA PackedLayout ==
  ASSUME NEW calls \in Seq(Calls)
  PROVE  /\ pack_data(calls) \in Seq(Nat)
         /\ \E off \in [0 .. Len(calls) -> Nat] :
              /\ off[0] = 0 /\ off[Len(calls)] = Len(pack_data(calls))
              /\ \A i \in 1 .. Len(calls) :
                   /\ off[i] = off[i - 1] + Len(Packed(calls[i])) /\ off[i] <= Len(pack_data(calls))
                   /\ \A k \in 1 .. Len(Packed(calls[i])) :
                        pack_data(calls)[off[i - 1] + k] = Packed(calls[i])[k]
<1> DEFINE n == Len(calls)
<1>1. n \in Nat
  BY LenProperties
<1>2. PICK f \in [0 .. n -> Seq(Nat)] :
        /\ pack_data(calls) = f[n]
        /\ f[0] = <<>> /\ \A i \in 1 .. n : f[i] = f[i - 1] \o Packed(calls[i])
  BY PackDef
<1>3. \A i \in 1 .. n : Packed(calls[i]) \in Seq(Nat)
  <2>1. ASSUME NEW i \in 1 .. n PROVE Packed(calls[i]) \in Seq(Nat)
    <3>1. calls[i] \in Calls
      BY ElementOfSeq
    <3>2. QED
      BY <3>1, PackedCells
  <2>2. QED
    BY <2>1
<1> HIDE DEF n
<1>4. \A i \in 0 .. n : f[i] \in Seq(Nat) /\ Len(f[i]) \in Nat
  BY <1>2, LenProperties
<1>5. ASSUME NEW i \in 1 .. n
      PROVE  /\ Len(f[i]) = Len(f[i - 1]) + Len(Packed(calls[i]))
             /\ Len(Packed(calls[i])) \in Nat
             /\ \A k \in 1 .. Len(f[i - 1]) : f[i][k] = f[i - 1][k]
             /\ \A k \in 1 .. Len(Packed(calls[i])) : f[i][Len(f[i - 1]) + k] = Packed(calls[i])[k]
  <2>1. PICK a \in Seq(Nat) : a = f[i - 1]
    <3>1. i - 1 \in 0 .. n
      BY <1>1
    <3>2. QED
      BY <1>4, <3>1
  <2>2. PICK b \in Seq(Nat) : b = Packed(calls[i])
    BY <1>3
  <2>3. f[i] = a \o b
    BY <1>2, <2>1, <2>2
  <2>4. /\ Len(a \o b) = Len(a) + Len(b) /\ Len(a) \in Nat /\ Len(b) \in Nat
        /\ \A k \in 1 .. Len(a) + Len(b) : (a \o b)[k] = IF k <= Len(a) THEN a[k] ELSE b[k - Len(a)]
    BY ConcatProperties, LenProperties
  <2>5. \A k \in 1 .. Len(a) : (a \o b)[k] = a[k]
    BY <2>4
  <2>6. ASSUME NEW k \in 1 .. Len(b) PROVE (a \o b)[Len(a) + k] = b[k]
    <3>1. PICK j \in 1 .. Len(a) + Len(b) : j = Len(a) + k
      BY <2>4
    <3>2. ~(j <= Len(a)) /\ j - Len(a) = k
      BY <2>4, <3>1
    <3>3. QED
      BY <2>4, <3>1, <3>2
  <2>7. QED
    BY <2>1, <2>2, <2>3, <2>4, <2>5, <2>6
<1> DEFINE data == f[n]
           Below(i) == Len(f[i]) <= Len(data) /\ \A k \in 1 .. Len(f[i]) : data[k] = f[i][k]
           T == {i \in 0 .. n : Below(n - i)}
<1>6. \A i \in 0 .. n : Below(i)
  <2>1. 0 \in T
    <3>1. n - 0 = n /\ 0 \in 0 .. n /\ n \in 0 .. n
      BY <1>1
    <3>2. Below(n)
      BY <1>4, <3>1
    <3> HIDE DEF Below
    <3>3. QED
      BY <3>1, <3>2
  <2>2. ASSUME NEW i \in 0 .. n, i \in T, i < n PROVE i + 1 \in T
    <3>1. PICK j \in 1 .. n : j = n - i
      BY <1>1, <2>2
    <3>2. j - 1 = n - (i + 1) /\ j - 1 \in 0 .. n /\ i + 1 \in 0 .. n
      BY <1>1, <2>2, <3>1
    <3>3. Below(j)
      BY <2>2, <3>1
    <3>4. Below(j - 1)
      <4>1. Len(f[j]) = Len(f[j - 1]) + Len(Packed(calls[j])) /\ Len(Packed(calls[j])) \in Nat
            /\ \A k \in 1 .. Len(f[j - 1]) : f[j][k] = f[j - 1][k]
        BY <1>5
      <4>2. PICK l \in Nat : l = Len(f[j - 1])
        BY <1>4, <3>2
      <4>3. PICK m \in Nat, d \in Nat : m = Len(f[j]) /\ d = Len(data)
        <5>1. n \in 0 .. n /\ j \in 0 .. n
          BY <1>1
        <5>2. QED
          BY <1>4, <5>1
      <4>4. l <= m
        <5>1. PICK p \in Nat : p = Len(Packed(calls[j]))
          BY <4>1
        <5>2. m = l + p
          BY <4>1, <4>2, <4>3, <5>1
        <5>3. QED
          BY <5>2
      <4>5. \A k \in 1 .. l : k \in 1 .. m
        BY <4>4
      <4>6. m <= d /\ \A k \in 1 .. m : data[k] = f[j][k]
        BY <3>3, <4>3
      <4>7. \A k \in 1 .. l : data[k] = f[j - 1][k]
        BY <4>1, <4>2, <4>5, <4>6
      <4>8. l <= d
        BY <4>4, <4>6
      <4>9. QED
        BY <4>2, <4>3, <4>7, <4>8
    <3> HIDE DEF Below
    <3>5. QED
      BY <3>2, <3>4
  <2> HIDE DEF T
  <2>3. \A i \in 0 .. n : i \in T
    BY <1>1, <2>1, <2>2, IntervalInduction
  <2>4. ASSUME NEW i \in 0 .. n PROVE Below(i)
    <3>1. PICK j \in 0 .. n : j = n - i
      BY <1>1
    <3>2. n - j = i
      BY <1>1, <3>1
    <3> HIDE DEF Below
    <3>3. QED
      BY <2>3, <3>2 DEF T
  <2> HIDE DEF Below
  <2>5. QED
    BY <2>4
<1>7. PICK off \in [0 .. n -> Nat] : off = [i \in 0 .. n |-> Len(f[i])]
  BY <1>4
<1>8. 0 \in 0 .. n /\ n \in 0 .. n /\ \A i \in 1 .. n : i \in 0 .. n /\ i - 1 \in 0 .. n
  BY <1>1
<1>9. off[0] = 0 /\ off[n] = Len(data)
  BY <1>2, <1>7, <1>8
<1>10. ASSUME NEW i \in 1 .. n
       PROVE  /\ off[i] = off[i - 1] + Len(Packed(calls[i])) /\ off[i] <= Len(data)
              /\ \A k \in 1 .. Len(Packed(calls[i])) : data[off[i - 1] + k] = Packed(calls[i])[k]
  <2>1. off[i] = Len(f[i]) /\ off[i - 1] = Len(f[i - 1])
    BY <1>7, <1>8
  <2>2. /\ Len(f[i]) = Len(f[i - 1]) + Len(Packed(calls[i])) /\ Len(Packed(calls[i])) \in Nat
        /\ \A k \in 1 .. Len(Packed(calls[i])) : f[i][Len(f[i - 1]) + k] = Packed(calls[i])[k]
    BY <1>5
  <2>3. Below(i)
    BY <1>6, <1>8
  <2>4. Len(f[i - 1]) \in Nat
    BY <1>4, <1>8
  <2>5. \A k \in 1 .. Len(Packed(calls[i])) : Len(f[i - 1]) + k \in 1 .. Len(f[i])
    <3>1. PICK l \in Nat, p \in Nat : l = Len(f[i - 1]) /\ p = Len(Packed(calls[i]))
      BY <2>2, <2>4
    <3>2. Len(f[i]) = l + p
      BY <2>2, <3>1
    <3>3. \A k \in 1 .. p : l + k \in 1 .. l + p
      OBVIOUS
    <3>4. QED
      BY <3>1, <3>2, <3>3
  <2>6. QED
    BY <2>1, <2>2, <2>3, <2>5
<1>11. data = pack_data(calls) /\ data \in Seq(Nat)
  BY <1>2, <1>4, <1>8
<1> HIDE DEF data
<1>12. QED
  BY <1>9, <1>10, <1>11 DEF n

\* A call is read where it was packed.
LEMMA CallRead ==
  ASSUME NEW data \in Seq(Nat), NEW call \in Calls, NEW at \in Nat,
         at + Len(Packed(call)) <= Len(data),
         \A k \in 1 .. Len(Packed(call)) : data[at + k] = Packed(call)[k]
  PROVE  /\ ReadNumber(data, at, TargetCells) = call.target
         /\ ReadNumber(data, at + TargetCells, ValueCells) = call.value
         /\ ReadNumber(data, at + TargetCells + ValueCells, LengthCells) = Len(call.payload)
         /\ SubSeq(data, at + DEFAULT_DATA_LENGTH + 1,
                   at + DEFAULT_DATA_LENGTH + Len(call.payload)) = call.payload
         /\ at + DEFAULT_DATA_LENGTH + Len(call.payload) <= Len(data)
         /\ at + DEFAULT_DATA_LENGTH <= Len(data)
<1>1. call.target \in Nat /\ call.value \in Nat /\ call.payload \in Seq(Nat) /\ Len(call.payload) \in Nat
  BY LenProperties DEF Calls
<1>2. Len(data) \in Nat /\ DEFAULT_DATA_LENGTH = TargetCells + ValueCells + LengthCells
  BY LenProperties DEF DEFAULT_DATA_LENGTH
<1>3. PICK p \in Nat : p = Len(call.payload)
  BY <1>1
<1>4. PICK tc \in Nat \ {0}, vc \in Nat \ {0}, lc \in Nat \ {0} :
        tc = TargetCells /\ vc = ValueCells /\ lc = LengthCells
  BY WidthsTyped
<1>5. DEFAULT_DATA_LENGTH = tc + vc + lc /\ Len(Packed(call)) = tc + vc + lc + p
  BY <1>2, <1>3, <1>4, PackedCells
<1>6. at + (tc + vc + lc + p) <= Len(data)
  BY <1>5
<1>7. \A k \in 1 .. tc + vc + lc + p : data[at + k] = Packed(call)[k]
  BY <1>5
<1>8. \A k \in 1 .. tc : data[at + k] = IF k = tc THEN call.target ELSE 0
  <2>1. \A k \in 1 .. tc : k \in 1 .. tc + vc + lc + p
    OBVIOUS
  <2>2. \A k \in 1 .. tc : Packed(call)[k] = IF k = tc THEN call.target ELSE 0
    BY <1>4, PackedCells
  <2>3. QED
    BY <1>7, <2>1, <2>2
<1>9. \A k \in 1 .. vc : data[(at + tc) + k] = IF k = vc THEN call.value ELSE 0
  <2>1. \A k \in 1 .. vc : tc + k \in 1 .. tc + vc + lc + p /\ at + (tc + k) = (at + tc) + k
    OBVIOUS
  <2>2. \A k \in 1 .. vc : Packed(call)[tc + k] = IF k = vc THEN call.value ELSE 0
    BY <1>4, PackedCells
  <2>3. QED
    BY <1>7, <2>1, <2>2
<1>10. \A k \in 1 .. lc : data[(at + tc + vc) + k] = IF k = lc THEN p ELSE 0
  <2>1. \A k \in 1 .. lc : tc + vc + k \in 1 .. tc + vc + lc + p
                           /\ at + (tc + vc + k) = (at + tc + vc) + k
    OBVIOUS
  <2>2. \A k \in 1 .. lc : Packed(call)[tc + vc + k] = IF k = lc THEN p ELSE 0
    BY <1>3, <1>4, PackedCells
  <2>3. QED
    BY <1>7, <2>1, <2>2
<1>11. ReadNumber(data, at, tc) = call.target
  <2>1. at + tc <= Len(data)
    BY <1>2, <1>6
  <2>2. QED
    BY <1>1, <1>8, <2>1, NumberRead
<1>12. ReadNumber(data, at + tc, vc) = call.value
  <2>1. (at + tc) + vc <= Len(data) /\ at + tc \in Nat
    BY <1>2, <1>6
  <2>2. QED
    BY <1>1, <1>9, <2>1, NumberRead
<1>13. ReadNumber(data, at + tc + vc, lc) = p
  <2>1. (at + tc + vc) + lc <= Len(data) /\ at + tc + vc \in Nat
    BY <1>2, <1>6
  <2>2. QED
    BY <1>10, <2>1, NumberRead
<1>14. PICK d \in Nat : d = tc + vc + lc
  OBVIOUS
<1>15. \A k \in 1 .. p : data[at + d + k] = call.payload[k]
  <2>1. \A k \in 1 .. p : d + k \in 1 .. tc + vc + lc + p /\ at + (d + k) = at + d + k
    BY <1>14
  <2>2. \A k \in 1 .. p : Packed(call)[d + k] = call.payload[k]
    BY <1>3, <1>5, <1>14, PackedCells
  <2>3. QED
    BY <1>7, <2>1, <2>2
<1>16. SubSeq(data, at + d + 1, at + d + p) = call.payload
  <2>1. at + d + p <= Len(data) /\ at + d + 1 >= 1
    BY <1>2, <1>6, <1>14
  <2>2. PICK a \in Nat, b \in Nat : a = at + d + 1 /\ b = at + d + p
    OBVIOUS
  <2>3. ASSUME NEW i \in a .. b PROVE data[i] \in Nat
    <3>1. i \in 1 .. Len(data)
      BY <1>2, <2>1, <2>2
    <3>2. QED
      BY <3>1, ElementOfSeq
  <2>4. PICK s : s = SubSeq(data, a, b)
    OBVIOUS
  <2>5. /\ s \in Seq(Nat) /\ Len(s) = (IF a <= b THEN b - a + 1 ELSE 0)
        /\ \A i \in 1 .. b - a + 1 : s[i] = data[a + i - 1]
    <3>1. a \in Int /\ b \in Int /\ \A i \in a .. b : data[i] \in Nat
      BY <2>3
    <3>2. QED
      BY <2>4, <3>1, SubSeqProperties
  <2>6. b - a + 1 = p /\ (IF a <= b THEN b - a + 1 ELSE 0) = p
    BY <2>2
  <2>7. ASSUME NEW k \in 1 .. p PROVE s[k] = call.payload[k]
    <3>1. a + k - 1 = at + d + k
      BY <2>2
    <3>2. s[k] = data[a + k - 1]
      BY <2>5, <2>6
    <3>3. QED
      BY <1>15, <3>1, <3>2
  <2>8. Len(s) = p /\ s = [k \in 1 .. Len(s) |-> s[k]]
    BY <2>5, <2>6, LenProperties
  <2>9. call.payload = [k \in 1 .. p |-> call.payload[k]]
    BY <1>1, <1>3, LenProperties
  <2>10. s = call.payload
    BY <2>7, <2>8, <2>9
  <2>11. QED
    BY <2>2, <2>4, <2>10
<1>17. at + d + p <= Len(data) /\ at + d <= Len(data)
  BY <1>2, <1>6, <1>14
<1>18. QED
  BY <1>3, <1>4, <1>5, <1>11, <1>12, <1>13, <1>14, <1>16, <1>17

\* What a reader makes of the data from a call on is that call and what it makes of the rest.
LEMMA ReadsBack ==
  ASSUME NEW calls \in Seq(Calls), NEW off, NEW f,
         f[off[Len(calls)]] = <<>>,
         \A i \in 1 .. Len(calls) : f[off[i - 1]] = << calls[i] >> \o f[off[i]]
  PROVE  f[off[0]] = calls
<1> DEFINE n == Len(calls)
           Rest(i) == f[off[i]] = SubSeq(calls, i + 1, n)
           T == {i \in 0 .. n : Rest(n - i)}
<1>1. n \in Nat
  BY LenProperties
<1>2. 0 \in T
  <2>1. SubSeq(calls, n + 1, n) = <<>>
    BY <1>1, SubSeqEmpty
  <2>2. n - 0 = n /\ 0 \in 0 .. n
    BY <1>1
  <2>3. Rest(n)
    BY <2>1
  <2> HIDE DEF Rest
  <2>4. QED
    BY <2>2, <2>3
<1>3. ASSUME NEW i \in 0 .. n, i \in T, i < n PROVE i + 1 \in T
  <2>1. PICK j \in 1 .. n : j = n - i
    BY <1>1, <1>3
  <2>2. (j - 1) + 1 = j /\ j - 1 = n - (i + 1) /\ i + 1 \in 0 .. n /\ n \in j .. n
    BY <1>1, <1>3, <2>1
  <2>3. Rest(j)
    BY <1>3, <2>1
  <2>4. SubSeq(calls, j, n) = << calls[j] >> \o SubSeq(calls, j + 1, n)
    BY <2>2, SubSeqRecursiveFirst
  <2>5. f[off[j - 1]] = << calls[j] >> \o f[off[j]]
    OBVIOUS
  <2>6. Rest(j - 1)
    BY <2>2, <2>3, <2>4, <2>5
  <2> HIDE DEF Rest
  <2>7. QED
    BY <2>2, <2>6
<1> HIDE DEF T
<1>4. \A i \in 0 .. n : i \in T
  BY <1>1, <1>2, <1>3, IntervalInduction
<1>5. n \in T /\ n - n = 0
  BY <1>1, <1>4
<1>6. Rest(0)
  BY <1>5 DEF T
<1>7. SubSeq(calls, 1, n) = calls
  BY SubSeqFull
<1>8. QED
  BY <1>6, <1>7

\* A call is met between two places of the data.
Met(data, at, end, call) ==
  /\ call \in Calls /\ at \in 0 .. Len(data) /\ at # Len(data)
  /\ end = at + DEFAULT_DATA_LENGTH + Len(call.payload)
  /\ end <= Len(data) /\ at + DEFAULT_DATA_LENGTH <= Len(data)
  /\ ReadNumber(data, at, TargetCells) = call.target
  /\ ReadNumber(data, at + TargetCells, ValueCells) = call.value
  /\ ReadNumber(data, at + TargetCells + ValueCells, LengthCells) = Len(call.payload)
  /\ SubSeq(data, at + DEFAULT_DATA_LENGTH + 1, end) = call.payload

\* The calls lie in the packed data one after the other.
LEMMA CallsMet ==
  ASSUME NEW calls \in Seq(Calls)
  PROVE  \E off \in [0 .. Len(calls) -> Nat] :
           /\ off[0] = 0 /\ off[Len(calls)] = Len(pack_data(calls))
           /\ \A i \in 1 .. Len(calls) : Met(pack_data(calls), off[i - 1], off[i], calls[i])
<1>1. PICK data \in Seq(Nat) : data = pack_data(calls)
  BY PackedLayout
<1>2. Len(data) \in Nat /\ Len(calls) \in Nat
  BY LenProperties
<1>3. PICK off \in [0 .. Len(calls) -> Nat] :
        /\ off[0] = 0 /\ off[Len(calls)] = Len(data)
        /\ \A i \in 1 .. Len(calls) :
             /\ off[i] = off[i - 1] + Len(Packed(calls[i])) /\ off[i] <= Len(data)
             /\ \A k \in 1 .. Len(Packed(calls[i])) : data[off[i - 1] + k] = Packed(calls[i])[k]
  BY <1>1, PackedLayout
<1>4. ASSUME NEW i \in 1 .. Len(calls)
      PROVE  Met(data, off[i - 1], off[i], calls[i])
  <2>1. PICK call \in Calls : call = calls[i]
    BY ElementOfSeq
  <2>2. PICK at \in Nat : at = off[i - 1]
    <3>1. i - 1 \in 0 .. Len(calls)
      BY <1>2
    <3>2. QED
      BY <1>3, <3>1
  <2>3. PICK end : end = off[i]
    OBVIOUS
  <2>4. /\ end = at + Len(Packed(call)) /\ end <= Len(data)
        /\ \A k \in 1 .. Len(Packed(call)) : data[at + k] = Packed(call)[k]
    BY <1>3, <2>1, <2>2, <2>3
  <2>5. PICK p \in Nat, d \in Nat \ {0} : p = Len(call.payload) /\ d = DEFAULT_DATA_LENGTH
    BY LenProperties, WidthsTyped DEF Calls
  <2>6. Len(Packed(call)) = d + p
    BY <2>5, PackedCells
  <2>7. end = at + d + p
    BY <2>4, <2>6
  <2>8. at \in 0 .. Len(data) /\ at # Len(data)
    BY <1>2, <2>4, <2>7
  <2>9. /\ ReadNumber(data, at, TargetCells) = call.target
        /\ ReadNumber(data, at + TargetCells, ValueCells) = call.value
        /\ ReadNumber(data, at + TargetCells + ValueCells, LengthCells) = Len(call.payload)
        /\ SubSeq(data, at + d + 1, at + d + p) = call.payload
        /\ at + d <= Len(data)
    <3>1. at + Len(Packed(call)) <= Len(data)
      BY <2>4
    <3>2. QED
      BY <2>4, <2>5, <3>1, CallRead
  <2>10. Met(data, at, end, call)
    BY <2>4, <2>5, <2>7, <2>8, <2>9 DEF Met
  <2>11. QED
    BY <2>1, <2>2, <2>3, <2>10
<1>5. QED
  BY <1>1, <1>3, <1>4

\* A call met there is read whole.
LEMMA MetIsRead ==
  ASSUME NEW data \in Seq(Nat), NEW at, NEW end, NEW call, Met(data, at, end, call)
  PROVE  /\ at + DEFAULT_DATA_LENGTH + PayloadLength(data, at) = end
         /\ ~CutShort(data, at) /\ CallAt(data, at) = call
<1>1. PayloadLength(data, at) = Len(call.payload)
  BY DEF Met, PayloadLength
<1>2. at + DEFAULT_DATA_LENGTH + PayloadLength(data, at) = end
  BY <1>1 DEF Met
<1>3. at \in Nat /\ DEFAULT_DATA_LENGTH \in Nat /\ Len(data) \in Nat /\ Len(call.payload) \in Nat
  BY WidthsTyped, LenProperties DEF Met, Calls
<1>4. at + DEFAULT_DATA_LENGTH \in Nat /\ end \in Nat
  <2>1. PICK p \in Nat, d \in Nat : p = Len(call.payload) /\ d = DEFAULT_DATA_LENGTH
    BY <1>3
  <2>2. end = at + d + p
    BY <2>1 DEF Met
  <2>3. at + d \in Nat /\ at + d + p \in Nat
    BY <1>3
  <2>4. QED
    BY <2>1, <2>2, <2>3
<1>5. at + DEFAULT_DATA_LENGTH <= Len(data) /\ end <= Len(data)
  BY DEF Met
<1>6. ~(at + DEFAULT_DATA_LENGTH > Len(data)) /\ ~(end > Len(data))
  BY <1>3, <1>4, <1>5
<1>7. ~CutShort(data, at)
  BY <1>2, <1>6 DEF CutShort
<1>8. call = [target |-> call.target, value |-> call.value, payload |-> call.payload]
  BY DEF Met, Calls
<1>9. CallAt(data, at) = call
  BY <1>2, <1>8 DEF CallAt, Call, Met
<1>10. QED
  BY <1>2, <1>7, <1>9

\* The payload of a call that is not cut short ends within the data.
LEMMA ReadsOn ==
  ASSUME NEW data \in Seq(Nat), NEW at \in 0 .. Len(data), ~CutShort(data, at)
  PROVE  at + DEFAULT_DATA_LENGTH + PayloadLength(data, at) \in at + 1 .. Len(data)
<1>1. PICK d \in Nat \ {0}, n \in Nat : d = DEFAULT_DATA_LENGTH /\ n = Len(data)
  BY WidthsTyped, LenProperties
<1>2. at \in Nat /\ at + d <= n
  BY <1>1 DEF CutShort
<1>3. PICK p \in Nat : p = PayloadLength(data, at)
  <2>1. PICK l \in Nat, before \in Nat : l = LengthCells /\ before = at + TargetCells + ValueCells
    BY <1>2, WidthsTyped
  <2>2. before + l <= Len(data)
    BY <1>1, <1>2, <2>1, WidthsTyped DEF DEFAULT_DATA_LENGTH
  <2>3. ReadNumber(data, before, l) \in Nat
    BY <2>2, ReadNumberTyped
  <2>4. QED
    BY <2>1, <2>3 DEF PayloadLength
<1>4. ~(at + d + p > n)
  BY <1>1, <1>3 DEF CutShort
<1>5. at + d + p \in at + 1 .. n
  BY <1>2, <1>4
<1>6. QED
  BY <1>1, <1>3, <1>5

\* The messenger reads the calls that were packed.
LEMMA UnpackedIsPacked ==
  ASSUME NEW calls \in Seq(Calls)
  PROVE  Unpacked(pack_data(calls)) = calls
<1>1. PICK data \in Seq(Nat) : data = pack_data(calls)
  BY PackedLayout
<1>2. PICK n \in Nat : n = Len(data)
  BY LenProperties
<1> DEFINE Reads(f) == f = [at \in 0 .. Len(data) |->
             IF at = Len(data) THEN <<>>
             ELSE IF CutShort(data, at) THEN << Call(Zero, 0, <<>>) >>
             ELSE << CallAt(data, at) >> \o f[at + DEFAULT_DATA_LENGTH + PayloadLength(data, at)]]
<1>3. PICK g : Reads(g)
  <2>1. PICK Goes : Goes = {at \in 0 .. n : at # n /\ ~CutShort(data, at)}
    OBVIOUS
  <2>2. PICK next : next = [at \in 0 .. n |-> at + DEFAULT_DATA_LENGTH + PayloadLength(data, at)]
    OBVIOUS
  <2>3. PICK out : out = [at \in 0 .. n |-> IF at = n THEN <<>> ELSE << Call(Zero, 0, <<>>) >>]
    OBVIOUS
  <2>4. PICK head : head = [at \in 0 .. n |-> << CallAt(data, at) >>]
    OBVIOUS
  <2>5. Goes \in SUBSET (0 .. n)
    BY <2>1
  <2>6. \A at \in Goes : next[at] \in at + 1 .. n
    BY <1>2, <2>1, <2>2, ReadsOn
  <2>7. PICK f : IsJumps(f, n, Goes, head, next, out)
    BY <2>5, <2>6, JumpsDefined
  <2>8. /\ \A at \in 0 .. n : f[at] = IF at \in Goes THEN head[at] \o f[next[at]] ELSE out[at]
        /\ f = [at \in 0 .. n |-> f[at]]
    BY <2>7 DEF IsJumps
  <2>9. ASSUME NEW at \in 0 .. n
        PROVE  f[at] =
          IF at = n THEN <<>>
          ELSE IF CutShort(data, at) THEN << Call(Zero, 0, <<>>) >>
          ELSE << CallAt(data, at) >> \o f[at + DEFAULT_DATA_LENGTH + PayloadLength(data, at)]
    BY <2>1, <2>2, <2>3, <2>4, <2>8
  <2>10. f = [at \in 0 .. n |->
          IF at = n THEN <<>>
          ELSE IF CutShort(data, at) THEN << Call(Zero, 0, <<>>) >>
          ELSE << CallAt(data, at) >> \o f[at + DEFAULT_DATA_LENGTH + PayloadLength(data, at)]]
    BY <2>8, <2>9
  <2>11. QED
    BY <1>2, <2>10
<1>4. PICK from : from = CHOOSE f : Reads(f)
  OBVIOUS
<1>5. Reads(from)
  BY <1>3, <1>4
<1>6. Unpacked(data) = from[0]
  BY <1>4 DEF Unpacked
<1>7. from[Len(data)] = <<>>
  BY <1>2, <1>5
<1>8. PICK off \in [0 .. Len(calls) -> Nat] :
        /\ off[0] = 0 /\ off[Len(calls)] = Len(data)
        /\ \A i \in 1 .. Len(calls) : Met(data, off[i - 1], off[i], calls[i])
  BY <1>1, CallsMet
<1>9. ASSUME NEW at, NEW end, NEW call, Met(data, at, end, call)
      PROVE  from[at] = << call >> \o from[end]
  <2>1. at \in 0 .. Len(data) /\ at # Len(data)
    BY <1>9 DEF Met
  <2>2. /\ at + DEFAULT_DATA_LENGTH + PayloadLength(data, at) = end
        /\ ~CutShort(data, at) /\ CallAt(data, at) = call
    BY <1>9, MetIsRead
  <2>3. QED
    BY <1>5, <2>1, <2>2
<1> HIDE DEF Reads
<1>10. \A i \in 1 .. Len(calls) : from[off[i - 1]] = << calls[i] >> \o from[off[i]]
  <2>1. ASSUME NEW i \in 1 .. Len(calls)
        PROVE  from[off[i - 1]] = << calls[i] >> \o from[off[i]]
    <3>1. PICK at, end, call : at = off[i - 1] /\ end = off[i] /\ call = calls[i]
      OBVIOUS
    <3>2. Met(data, at, end, call)
      BY <1>8, <3>1
    <3>3. from[at] = << call >> \o from[end]
      BY <1>9, <3>2
    <3>4. QED
      BY <3>1, <3>3
  <2>2. QED
    BY <2>1
<1>11. from[off[Len(calls)]] = <<>>
  BY <1>7, <1>8
<1>12. from[off[0]] = calls
  BY <1>10, <1>11, ReadsBack
<1>13. QED
  BY <1>1, <1>6, <1>8, <1>12

\* annotate.js shows the calls that were packed.
LEMMA ShownIsPacked ==
  ASSUME NEW calls \in Seq(Calls)
  PROVE  decodePacked(pack_data(calls)) = calls
<1>1. PICK data \in Seq(Nat) : data = pack_data(calls)
  BY PackedLayout
<1>2. PICK n \in Nat : n = Len(data)
  BY LenProperties
<1> DEFINE Body(i) == i + TargetCells + ValueCells + LengthCells
           End(i) == Body(i) + ReadNumber(data, i + TargetCells + ValueCells, LengthCells)
           Shows(i) == Call(ReadNumber(data, i, TargetCells),
                            ReadNumber(data, i + TargetCells, ValueCells),
                            SubSeq(data, Body(i) + 1, End(i)))
           Reads(f) == f = [i \in 0 .. Len(data) |->
             IF i = Len(data) THEN <<>>
             ELSE IF Body(i) > Len(data) THEN << Call(Zero, 0, <<>>) >>
             ELSE << Shows(i) >> \o (IF End(i) > Len(data) THEN <<>> ELSE f[End(i)])]
<1>3. PICK g : Reads(g)
  <2>1. PICK Goes : Goes = {i \in 0 .. n : i # n /\ ~(Body(i) > n) /\ ~(End(i) > n)}
    OBVIOUS
  <2>2. PICK next : next = [i \in 0 .. n |-> End(i)]
    OBVIOUS
  <2>3. PICK out : out = [i \in 0 .. n |->
          IF i = n THEN <<>> ELSE IF Body(i) > n THEN << Call(Zero, 0, <<>>) >>
          ELSE << Shows(i) >> \o <<>>]
    OBVIOUS
  <2>4. PICK head : head = [i \in 0 .. n |-> << Shows(i) >>]
    OBVIOUS
  <2>5. Goes \in SUBSET (0 .. n)
    BY <2>1
  <2>6. ASSUME NEW i \in Goes PROVE next[i] \in i + 1 .. n
    <3>1. i \in 0 .. n /\ next[i] = End(i) /\ ~(Body(i) > n) /\ ~(End(i) > n)
      BY <2>1, <2>2
    <3>2. Body(i) = i + DEFAULT_DATA_LENGTH /\ End(i) = i + DEFAULT_DATA_LENGTH + PayloadLength(data, i)
      BY <3>1, WidthsTyped DEF DEFAULT_DATA_LENGTH, PayloadLength
    <3>3. ~CutShort(data, i)
      BY <1>2, <3>1, <3>2 DEF CutShort
    <3>4. QED
      BY <1>2, <3>1, <3>2, <3>3, ReadsOn
  <2>7. PICK f : IsJumps(f, n, Goes, head, next, out)
    BY <2>5, <2>6, JumpsDefined
  <2> HIDE DEF Body, End, Shows
  <2>8. /\ \A i \in 0 .. n : f[i] = IF i \in Goes THEN head[i] \o f[next[i]] ELSE out[i]
        /\ f = [i \in 0 .. n |-> f[i]]
    BY <2>7 DEF IsJumps
  <2>9. ASSUME NEW i \in 0 .. n
        PROVE  f[i] =
          IF i = n THEN <<>>
          ELSE IF Body(i) > n THEN << Call(Zero, 0, <<>>) >>
          ELSE << Shows(i) >> \o (IF End(i) > n THEN <<>> ELSE f[End(i)])
    BY <2>1, <2>2, <2>3, <2>4, <2>8
  <2>10. f = [i \in 0 .. n |->
          IF i = n THEN <<>>
          ELSE IF Body(i) > n THEN << Call(Zero, 0, <<>>) >>
          ELSE << Shows(i) >> \o (IF End(i) > n THEN <<>> ELSE f[End(i)])]
    BY <2>8, <2>9
  <2>11. QED
    BY <1>2, <2>10
<1>4. PICK shown : shown = CHOOSE f : Reads(f)
  OBVIOUS
<1>5. Reads(shown)
  BY <1>3, <1>4
<1>6. decodePacked(data) = shown[0]
  BY <1>4 DEF decodePacked
<1>7. shown[Len(data)] = <<>>
  BY <1>2, <1>5
<1>8. PICK off \in [0 .. Len(calls) -> Nat] :
        /\ off[0] = 0 /\ off[Len(calls)] = Len(data)
        /\ \A i \in 1 .. Len(calls) : Met(data, off[i - 1], off[i], calls[i])
  BY <1>1, CallsMet
<1>9. ASSUME NEW at, NEW end, NEW call, Met(data, at, end, call)
      PROVE  shown[at] = << call >> \o shown[end]
  <2>1. at \in 0 .. Len(data) /\ at # Len(data) /\ call \in Calls /\ Len(data) \in Nat
    BY <1>2, <1>9 DEF Met
  <2>2. Body(at) = at + DEFAULT_DATA_LENGTH
    BY <2>1, WidthsTyped DEF DEFAULT_DATA_LENGTH
  <2>3. End(at) = end
    BY <1>9, <2>2 DEF Met
  <2>4. Shows(at) = Call(call.target, call.value, call.payload)
    BY <1>9, <2>2, <2>3 DEF Met
  <2>5. Call(call.target, call.value, call.payload) = call
    BY <2>1 DEF Calls, Call
  <2>6. Body(at) \in Nat /\ Body(at) <= Len(data)
    BY <1>9, <2>1, <2>2, WidthsTyped DEF Met
  <2>7. end \in Nat /\ end <= Len(data)
    <3>1. PICK p \in Nat, d \in Nat : p = Len(call.payload) /\ d = DEFAULT_DATA_LENGTH
      BY <2>1, LenProperties, WidthsTyped DEF Calls
    <3>2. end = at + d + p /\ end <= Len(data)
      BY <1>9, <3>1 DEF Met
    <3>3. QED
      BY <2>1, <3>2
  <2> HIDE DEF Body, End, Shows
  <2>8. ~(Body(at) > Len(data)) /\ ~(End(at) > Len(data))
    BY <2>1, <2>3, <2>6, <2>7
  <2>9. QED
    BY <1>5, <2>1, <2>3, <2>4, <2>5, <2>8
<1> HIDE DEF Reads
<1>10. \A i \in 1 .. Len(calls) : shown[off[i - 1]] = << calls[i] >> \o shown[off[i]]
  <2>1. ASSUME NEW i \in 1 .. Len(calls)
        PROVE  shown[off[i - 1]] = << calls[i] >> \o shown[off[i]]
    <3>1. PICK at, end, call : at = off[i - 1] /\ end = off[i] /\ call = calls[i]
      OBVIOUS
    <3>2. Met(data, at, end, call)
      BY <1>8, <3>1
    <3>3. shown[at] = << call >> \o shown[end]
      BY <1>9, <3>2
    <3>4. QED
      BY <3>1, <3>3
  <2>2. QED
    BY <2>1
<1>11. shown[off[Len(calls)]] = <<>>
  BY <1>7, <1>8
<1>12. shown[off[0]] = calls
  BY <1>10, <1>11, ReadsBack
<1>13. QED
  BY <1>1, <1>6, <1>8, <1>12

(***************************************************************************)
(* What the messengers execute                                             *)
(***************************************************************************)

LEMMA BatchesTyped == AllBatches \subseteq Seq(Calls)
<1>1. {App, Self, Zero, RelayerTimelock, Deployer} \subseteq Nat
  BY MessengersAssumption DEF Governors, Base, Zero
<1>2. ASSUME NEW target \in Nat, NEW value \in Nat, NEW payload \in Seq(Nat)
      PROVE  Call(target, value, payload) \in Calls
  BY DEF Call, Calls
<1>3. Use \in Seq(Nat) /\ << >> \in Seq(Nat) /\ \A new \in Nat : changeSourceGovernor(new) \in Seq(Nat)
  BY DEF Use, changeSourceGovernor
<1>4. /\ Call(App, 1, Use) \in Calls /\ Call(App, 0, << >>) \in Calls /\ Call(App, 0, Use) \in Calls
      /\ Call(Self, 0, changeSourceGovernor(RelayerTimelock)) \in Calls
      /\ Call(Self, 0, changeSourceGovernor(Deployer)) \in Calls
      /\ Call(Self, 0, changeSourceGovernor(Zero)) \in Calls /\ Call(Zero, 0, << >>) \in Calls
  BY <1>1, <1>2, <1>3
<1>5. \A a, b \in Calls : << a >> \in Seq(Calls) /\ << a, b >> \in Seq(Calls)
  OBVIOUS
<1>6. QED
  BY <1>4, <1>5 DEF AllBatches, Batches, proposal_09_batch

LEMMA ReadAsPacked ==
  ASSUME NEW batch \in AllBatches
  PROVE  Received[batch] = batch /\ Shown[batch] = batch
<1>1. batch \in Seq(Calls)
  BY BatchesTyped
<1>2. Wire[batch] = pack_data(batch)
  BY DEF Wire
<1>3. Received[batch] = Unpacked(Wire[batch]) /\ Shown[batch] = decodePacked(Wire[batch])
  BY DEF Received, Shown
<1>4. QED
  BY <1>1, <1>2, <1>3, UnpackedIsPacked, ShownIsPacked

\* Over the bridges of the messengers travel batches, and what a messenger has executed
\* came over its own bridge.
BatchInv ==
  /\ \A id \in DOMAIN messages : messages[id].bridge \in Bridges => messages[id].data \in AllBatches
  /\ \A m \in Bridges : \A i \in DOMAIN log[m] :
       log[m][i] \in DOMAIN messages /\ messages[log[m][i]].bridge = m

\* The governors of a messenger, each the heir of the one before.
Succession(f, m) ==
  /\ f[0] = Timelock
  /\ \A i \in 1 .. Len(log[m]) :
       f[i] = Heir(f[i - 1], log[m][i]) /\ messages[log[m][i]].from = f[i - 1]
  /\ f[Len(log[m])] = sourceGovernor[m]

GovernorInv ==
  /\ sourceGovernor = [m \in Bridges |-> sourceGovernor[m]]
  /\ balance \in [Bridges -> Nat]
  /\ \A m \in Bridges : \E f : Succession(f, m)

LEMMA MessengerInit == Init => BatchInv /\ GovernorInv
<1> SUFFICES ASSUME Init PROVE BatchInv /\ GovernorInv
  OBVIOUS
<1>1. /\ messages = <<>> /\ log = [m \in Bridges |-> <<>>]
      /\ sourceGovernor = [m \in Bridges |-> Timelock] /\ balance = [m \in Bridges |-> 0]
  BY DEF Init, BridgeInit, MessengersInit
<1>2. BatchInv
  BY <1>1 DEF BatchInv
<1>3. ASSUME NEW m \in Bridges PROVE Succession([i \in {0} |-> Timelock], m)
  <2>1. Len(log[m]) = 0 /\ sourceGovernor[m] = Timelock
    BY <1>1
  <2>2. QED
    BY <2>1 DEF Succession
<1>4. GovernorInv
  BY <1>1, <1>3 DEF GovernorInv
<1>5. QED
  BY <1>2, <1>4

\* The state after the calls of a batch, one after the other.
LEMMA ProcessDef ==
  ASSUME NEW m \in Bridges, NEW batch \in AllBatches, balance[m] \in Nat
  PROVE  \E f :
           /\ ProcessData(m, batch) = f[Len(batch)] /\ f[Len(batch)].balance \in Nat
           /\ f[0].governor = sourceGovernor[m]
           /\ \A i \in 1 .. Len(batch) :
                f[i].governor = IF batch[i].target = Self THEN Last(batch[i].payload) ELSE f[i - 1].governor
<1> DEFINE start == [ok |-> Len(Wire[batch]) >= DEFAULT_DATA_LENGTH,
                     governor |-> sourceGovernor[m], balance |-> balance[m]]
           G == {sourceGovernor[m]} \cup {Last(batch[i].payload) : i \in 1 .. Len(batch)}
           D == [ok : BOOLEAN, governor : G, balance : Nat]
           After(f) == f = [i \in 0 .. Len(batch) |->
             IF i = 0 THEN start ELSE Called(f[i - 1], batch[i])]
<1>1. Len(batch) \in Nat /\ batch \in Seq(Calls)
  BY BatchesTyped, LenProperties
<1>2. start \in D
  OBVIOUS
<1>3. ASSUME NEW i \in 1 .. Len(batch), NEW s \in D
      PROVE  Called(s, batch[i]) \in D
  <2>1. batch[i] \in Calls
    BY <1>1, ElementOfSeq
  <2>2. batch[i].value \in Nat /\ s.balance \in Nat /\ s.governor \in G
    BY <2>1 DEF Calls
  <2>3. (IF batch[i].value <= s.balance THEN s.balance - batch[i].value ELSE 0) \in Nat
    BY <2>2
  <2>4. (IF batch[i].target = Self THEN Last(batch[i].payload) ELSE s.governor) \in G
    BY <2>2
  <2>5. QED
    BY <2>3, <2>4 DEF Called
<1> HIDE DEF start, D
<1>4. PICK step \in [1 .. Len(batch) -> [D -> D]] :
        step = [i \in 1 .. Len(batch) |-> [s \in D |-> Called(s, batch[i])]]
  BY <1>3
<1>5. PICK f \in [0 .. Len(batch) -> D] : IsWalk(f, start, step, Len(batch))
  BY <1>1, <1>2, WalkExists
<1>6. f[0] = start /\ \A i \in 1 .. Len(batch) : f[i] = step[i][f[i - 1]]
  BY <1>5 DEF IsWalk
<1>7. ASSUME NEW i \in 1 .. Len(batch) PROVE f[i] = Called(f[i - 1], batch[i])
  <2>1. i - 1 \in 0 .. Len(batch)
    BY <1>1
  <2>2. f[i - 1] \in D
    BY <2>1
  <2>3. QED
    BY <1>4, <1>6, <2>2
<1>8. After(f)
  <2>1. \A i \in 0 .. Len(batch) : i # 0 => i \in 1 .. Len(batch)
    BY <1>1
  <2>2. \A i \in 0 .. Len(batch) : f[i] = IF i = 0 THEN start ELSE Called(f[i - 1], batch[i])
    BY <1>6, <1>7, <2>1
  <2>3. f = [i \in 0 .. Len(batch) |-> f[i]]
    OBVIOUS
  <2>4. QED
    BY <2>2, <2>3
<1>9. PICK after : after = CHOOSE g : After(g)
  OBVIOUS
<1>10. After(after)
  BY <1>8, <1>9
<1>11. ProcessData(m, batch) = after[Len(batch)]
  <2>1. Received[batch] = batch
    BY ReadAsPacked
  <2>2. QED
    BY <1>9, <2>1 DEF ProcessData, start
<1>12. after[0] = start /\ \A i \in 1 .. Len(batch) : after[i] = Called(after[i - 1], batch[i])
  <2>1. 0 \in 0 .. Len(batch) /\ \A i \in 1 .. Len(batch) : i \in 0 .. Len(batch) /\ i # 0
    BY <1>1
  <2>2. QED
    BY <1>10, <2>1
<1> HIDE DEF After
<1> DEFINE T == {i \in 0 .. Len(batch) : after[i] = f[i]}
<1>13. 0 \in T
  BY <1>1, <1>6, <1>12
<1>14. ASSUME NEW i \in 0 .. Len(batch), i \in T, i < Len(batch) PROVE i + 1 \in T
  <2>1. i + 1 \in 1 .. Len(batch) /\ (i + 1) - 1 = i /\ i + 1 \in 0 .. Len(batch) /\ after[i] = f[i]
    BY <1>1, <1>14
  <2>2. after[i + 1] = f[i + 1]
    BY <1>7, <1>12, <2>1
  <2>3. QED
    BY <2>1, <2>2
<1> HIDE DEF T
<1>15. \A i \in 0 .. Len(batch) : i \in T
  BY <1>1, <1>13, <1>14, IntervalInduction
<1>16. Len(batch) \in 0 .. Len(batch)
  BY <1>1
<1>17. ProcessData(m, batch) = f[Len(batch)]
  BY <1>11, <1>15, <1>16 DEF T
<1>18. f[Len(batch)].balance \in Nat
  <2>1. f[Len(batch)] \in D
    BY <1>16
  <2>2. QED
    BY <2>1 DEF D
<1>19. f[0].governor = sourceGovernor[m]
  BY <1>6 DEF start
<1>20. \A i \in 1 .. Len(batch) :
         f[i].governor = IF batch[i].target = Self THEN Last(batch[i].payload) ELSE f[i - 1].governor
  <2>1. ASSUME NEW i \in 1 .. Len(batch)
        PROVE  f[i].governor = IF batch[i].target = Self THEN Last(batch[i].payload) ELSE f[i - 1].governor
    <3>1. PICK s, call : s = f[i - 1] /\ call = batch[i]
      OBVIOUS
    <3>2. Called(s, call).governor = IF call.target = Self THEN Last(call.payload) ELSE s.governor
      BY DEF Called
    <3>3. QED
      BY <1>7, <3>1, <3>2
  <2>2. QED
    BY <2>1
<1>21. QED
  BY <1>17, <1>18, <1>19, <1>20

\* After a batch the governor is the one that its last self-call has named.
LEMMA ProcessNamesHeir ==
  ASSUME NEW m \in Bridges, NEW id, Batch(id) \in AllBatches, balance[m] \in Nat
  PROVE  /\ ProcessData(m, Batch(id)).governor = Heir(sourceGovernor[m], id)
         /\ ProcessData(m, Batch(id)).balance \in Nat
<1>1. PICK batch \in AllBatches : batch = Batch(id)
  OBVIOUS
<1>2. PICK n \in Nat : n = Len(batch) /\ DOMAIN batch = 1 .. n
  BY BatchesTyped, LenProperties
<1>3. PICK f : /\ ProcessData(m, batch) = f[n] /\ f[n].balance \in Nat
               /\ f[0].governor = sourceGovernor[m]
               /\ \A i \in 1 .. n :
                    f[i].governor = IF batch[i].target = Self THEN Last(batch[i].payload)
                                    ELSE f[i - 1].governor
  BY <1>2, ProcessDef
<1> DEFINE Names(k) == batch[k].target = Self
           Newest(k, i) == Names(k) /\ \A j \in k + 1 .. i : ~Names(j)
           Known(i) == \/ /\ \A j \in 1 .. i : ~Names(j)
                          /\ f[i].governor = sourceGovernor[m]
                       \/ \E k \in 1 .. i : Newest(k, i) /\ f[i].governor = Last(batch[k].payload)
           T == {i \in 0 .. n : Known(i)}
<1>4. 0 \in T
  <2>1. \A j \in 1 .. 0 : ~Names(j)
    OBVIOUS
  <2>2. QED
    BY <1>2, <1>3, <2>1
<1>5. ASSUME NEW i \in 0 .. n, i \in T, i < n PROVE i + 1 \in T
  <2>1. PICK l \in 1 .. n : l = i + 1
    BY <1>2, <1>5
  <2>2. l - 1 = i /\ Known(i) /\ l \in 0 .. n
    BY <1>2, <1>5, <2>1
  <2>3. f[l].governor = IF Names(l) THEN Last(batch[l].payload) ELSE f[i].governor
    BY <1>3, <2>2
  <2>4. \A j \in Int : j \in 1 .. l => j \in 1 .. i \/ j = l
    BY <2>1
  <2> HIDE DEF Names
  <2>5. Known(l)
    <3>1. CASE Names(l)
      <4>1. \A j \in l + 1 .. l : ~Names(j)
        OBVIOUS
      <4>2. l \in 1 .. l
        OBVIOUS
      <4>3. QED
        BY <2>3, <3>1, <4>1, <4>2
    <3>2. CASE ~Names(l) /\ \A j \in 1 .. i : ~Names(j)
      <4>1. f[i].governor = sourceGovernor[m]
        <5>1. ~\E k \in 1 .. i : Newest(k, i)
          BY <3>2
        <5>2. QED
          BY <2>2, <5>1
      <4>2. \A j \in 1 .. l : ~Names(j)
        BY <2>4, <3>2
      <4>3. QED
        BY <2>3, <3>2, <4>1, <4>2
    <3>3. CASE ~Names(l) /\ ~(\A j \in 1 .. i : ~Names(j))
      <4>1. PICK k \in 1 .. i : Newest(k, i) /\ f[i].governor = Last(batch[k].payload)
        BY <2>2, <3>3
      <4>2. \A j \in k + 1 .. l : j \in k + 1 .. i \/ j = l
        BY <2>1
      <4>3. Newest(k, l) /\ k \in 1 .. l
        BY <2>1, <3>3, <4>1, <4>2
      <4>4. QED
        BY <2>3, <3>3, <4>1, <4>3
    <3>4. QED
      BY <3>1, <3>2, <3>3
  <2> HIDE DEF Known
  <2>6. QED
    BY <2>1, <2>2, <2>5
<1> HIDE DEF T
<1>6. \A i \in 0 .. n : i \in T
  BY <1>2, <1>4, <1>5, IntervalInduction
<1>7. Known(n)
  BY <1>2, <1>6 DEF T
<1>8. PICK changes : changes = {i \in 1 .. n : Names(i)}
  OBVIOUS
<1>9. Heir(sourceGovernor[m], id) =
        IF changes = {} THEN sourceGovernor[m] ELSE Last(batch[Max(changes)].payload)
  BY <1>1, <1>2, <1>8 DEF Heir
<1> HIDE DEF Names
<1>10. f[n].governor = Heir(sourceGovernor[m], id)
  <2>1. CASE \A j \in 1 .. n : ~Names(j)
    <3>1. changes = {} /\ ~\E k \in 1 .. n : Newest(k, n)
      BY <1>8, <2>1
    <3>2. QED
      BY <1>7, <1>9, <3>1
  <2>2. CASE ~\A j \in 1 .. n : ~Names(j)
    <3>1. PICK k \in 1 .. n : Newest(k, n) /\ f[n].governor = Last(batch[k].payload)
      BY <1>7, <2>2
    <3>2. k \in changes /\ \A y \in changes : k >= y
      <4>1. ASSUME NEW y \in 1 .. n, Names(y) PROVE k >= y
        <5>1. y \notin k + 1 .. n
          BY <3>1, <4>1
        <5>2. QED
          BY <1>2, <5>1
      <4>2. QED
        BY <1>8, <3>1, <4>1
    <3>3. Max(changes) \in changes /\ \A y \in changes : Max(changes) >= y
      BY <3>2 DEF Max
    <3>4. Max(changes) = k
      <4>1. Max(changes) \in Int /\ k \in Int /\ Max(changes) >= k /\ k >= Max(changes)
        BY <1>8, <3>2, <3>3
      <4>2. QED
        BY <4>1
    <3>5. changes # {}
      BY <3>2
    <3>6. QED
      BY <1>9, <3>1, <3>4, <3>5
  <2>3. QED
    BY <2>1, <2>2
<1>11. QED
  BY <1>1, <1>3, <1>10

\* A succession tells who the governor was after each message.
LEMMA SuccessionIs ==
  ASSUME NEW m \in Bridges, log[m] \in Seq(Ids), NEW f, Succession(f, m), NEW n \in 0 .. Len(log[m])
  PROVE  GovernorAfter(m, n) = f[n]
<1>1. Len(log[m]) \in Nat
  BY LenProperties
<1>2. f[0] = Timelock /\ \A i \in 1 .. n : f[i] = Heir(f[i - 1], log[m][i])
  <2>1. \A i \in 1 .. n : i \in 1 .. Len(log[m])
    BY <1>1
  <2>2. QED
    BY <2>1 DEF Succession
<1> DEFINE After(g) == g = [i \in 0 .. n |-> IF i = 0 THEN Timelock ELSE Heir(g[i - 1], log[m][i])]
<1>3. \E g : After(g)
  <2>1. PICK g : g = [i \in 0 .. n |-> f[i]]
    OBVIOUS
  <2>2. ASSUME NEW i \in 0 .. n PROVE g[i] = IF i = 0 THEN Timelock ELSE Heir(g[i - 1], log[m][i])
    <3>1. CASE i = 0
      BY <1>2, <2>1, <3>1
    <3>2. CASE i # 0
      <4>1. i \in 1 .. n /\ i - 1 \in 0 .. n
        BY <3>2
      <4>2. g[i] = f[i] /\ g[i - 1] = f[i - 1]
        BY <2>1, <4>1
      <4>3. QED
        BY <1>2, <3>2, <4>1, <4>2
    <3>3. QED
      BY <3>1, <3>2
  <2>3. g = [i \in 0 .. n |-> g[i]]
    BY <2>1
  <2>4. QED
    BY <2>2, <2>3
<1>4. PICK after : after = CHOOSE g : After(g)
  OBVIOUS
<1>5. After(after)
  BY <1>3, <1>4
<1>6. GovernorAfter(m, n) = after[n]
  BY <1>4 DEF GovernorAfter
<1>7. after[0] = Timelock /\ \A i \in 1 .. n : after[i] = Heir(after[i - 1], log[m][i])
  <2>1. 0 \in 0 .. n /\ \A i \in 1 .. n : i \in 0 .. n /\ i # 0
    OBVIOUS
  <2>2. QED
    BY <1>5, <2>1
<1> HIDE DEF After
<1> DEFINE T == {i \in 0 .. n : after[i] = f[i]}
<1>8. 0 \in T
  BY <1>2, <1>7
<1>9. ASSUME NEW i \in 0 .. n, i \in T, i < n PROVE i + 1 \in T
  <2>1. i + 1 \in 1 .. n /\ (i + 1) - 1 = i /\ i + 1 \in 0 .. n /\ after[i] = f[i]
    BY <1>9
  <2>2. after[i + 1] = Heir(after[i], log[m][i + 1]) /\ f[i + 1] = Heir(f[i], log[m][i + 1])
    BY <1>2, <1>7, <2>1
  <2>3. QED
    BY <2>1, <2>2
<1> HIDE DEF T
<1>10. n \in Nat /\ \A i \in 0 .. n : i \in T
  BY <1>8, <1>9, IntervalInduction
<1>11. after[n] = f[n]
  BY <1>10 DEF T
<1>12. QED
  BY <1>6, <1>11

\* An earlier message is read as before when messages are added.
LEMMA HeirStays ==
  ASSUME NEW id, NEW governor, messages'[id] = messages[id]
  PROVE  Heir(governor, id)' = Heir(governor, id)
<1>1. Batch(id)' = Batch(id)
  BY DEF Batch
<1>2. QED
  BY <1>1 DEF Heir

\* A step that executes nothing on L2.
LEMMA MessengersKeep ==
  ASSUME BatchInv, GovernorInv, DeliveryTypes,
         log' = log, sourceGovernor' = sourceGovernor, balance' \in [Bridges -> Nat],
         \A id \in DOMAIN messages : id \in DOMAIN messages' /\ messages'[id] = messages[id],
         \A id \in DOMAIN messages' :
           id \in DOMAIN messages
           \/ (messages'[id].bridge \in Bridges => messages'[id].data \in AllBatches)
  PROVE  BatchInv' /\ GovernorInv'
<1>1. BatchInv'
  BY DEF BatchInv
<1>2. ASSUME NEW m \in Bridges PROVE \E f : Succession(f, m)'
  <2>1. PICK f : Succession(f, m)
    BY DEF GovernorInv
  <2>2. DOMAIN log[m] = 1 .. Len(log[m])
    BY LenProperties DEF DeliveryTypes
  <2>3. ASSUME NEW i \in 1 .. Len(log[m])
        PROVE  f[i] = Heir(f[i - 1], log[m][i])' /\ messages'[log[m][i]].from = f[i - 1]
    <3>1. PICK id \in DOMAIN messages : id = log[m][i]
      BY <2>2 DEF BatchInv
    <3>2. messages'[id] = messages[id]
      OBVIOUS
    <3>3. f[i] = Heir(f[i - 1], id) /\ messages[id].from = f[i - 1]
      BY <2>1, <3>1 DEF Succession
    <3>4. PICK g : g = f[i - 1]
      OBVIOUS
    <3>5. Heir(g, id)' = Heir(g, id)
      BY <3>2, HeirStays
    <3>6. QED
      BY <3>1, <3>2, <3>3, <3>4, <3>5
  <2>4. Succession(f, m)'
    BY <2>1, <2>3 DEF Succession
  <2>5. QED
    BY <2>4
<1>3. GovernorInv'
  BY <1>2 DEF GovernorInv
<1>4. QED
  BY <1>1, <1>3

\* A delivery: the governor sent the message, and its heir takes over.
LEMMA DeliverySucceeds ==
  ASSUME BatchInv, GovernorInv, DeliveryTypes, NEW m \in Bridges, NEW id \in Ids, Deliver(m, id)
  PROVE  BatchInv' /\ GovernorInv'
<1>1. /\ id \in DOMAIN messages /\ messages[id].bridge = m /\ messages[id].from = sourceGovernor[m]
      /\ messages' = messages /\ log' = [log EXCEPT ![m] = Append(@, id)]
      /\ sourceGovernor' = [sourceGovernor EXCEPT ![m] = ProcessData(m, Batch(id)).governor]
      /\ balance' = [balance EXCEPT ![m] = ProcessData(m, Batch(id)).balance]
  BY DEF Deliver, Executes, Deliverable, FromGovernor, Close
<1>2. Batch(id) \in AllBatches
  BY <1>1 DEF BatchInv, Batch
<1>3. /\ ProcessData(m, Batch(id)).governor = Heir(sourceGovernor[m], id)
      /\ ProcessData(m, Batch(id)).balance \in Nat
  BY <1>2, ProcessNamesHeir DEF GovernorInv
<1>4. /\ sourceGovernor'[m] = Heir(sourceGovernor[m], id)
      /\ \A k \in Bridges \ {m} : sourceGovernor'[k] = sourceGovernor[k]
      /\ sourceGovernor' = [k \in Bridges |-> sourceGovernor'[k]]
  BY <1>1, <1>3 DEF GovernorInv
<1>5. balance' \in [Bridges -> Nat]
  BY <1>1, <1>3 DEF GovernorInv
<1>6. PICK n \in Nat : n = Len(log[m])
  BY LenProperties DEF DeliveryTypes
<1>7. /\ log[m] \in Seq(Ids) /\ log'[m] = Append(log[m], id) /\ DOMAIN log[m] = 1 .. n
      /\ Len(log'[m]) = n + 1 /\ DOMAIN log'[m] = 1 .. n + 1 /\ log'[m][n + 1] = id
      /\ \A i \in 1 .. n : log'[m][i] = log[m][i]
      /\ \A k \in Bridges \ {m} : log'[k] = log[k]
  BY <1>1, <1>6, AppendProperties, LenProperties DEF DeliveryTypes
<1>8. BatchInv'
  <2>1. ASSUME NEW k \in Bridges, NEW i \in DOMAIN log'[k]
        PROVE  log'[k][i] \in DOMAIN messages' /\ messages'[log'[k][i]].bridge = k
    <3>1. CASE k = m /\ i = n + 1
      BY <1>1, <1>7, <3>1
    <3>2. CASE k # m \/ i # n + 1
      <4>1. i \in DOMAIN log[k] /\ log'[k][i] = log[k][i]
        BY <1>6, <1>7, <3>2
      <4>2. QED
        BY <1>1, <4>1 DEF BatchInv
    <3>3. QED
      BY <3>1, <3>2
  <2>2. QED
    BY <1>1, <2>1 DEF BatchInv
<1>9. ASSUME NEW k \in Bridges PROVE \E f : Succession(f, k)'
  <2>1. PICK f : Succession(f, k)
    BY DEF GovernorInv
  <2>2. \A g, j : Heir(g, j)' = Heir(g, j)
    BY <1>1, HeirStays
  <2>3. CASE k # m
    <3>1. Len(log'[k]) = Len(log[k]) /\ log'[k] = log[k] /\ sourceGovernor'[k] = sourceGovernor[k]
      BY <1>4, <1>7, <2>3
    <3>2. Succession(f, k)'
      BY <1>1, <2>1, <2>2, <3>1 DEF Succession
    <3>3. QED
      BY <3>2
  <2>4. CASE k = m
    <3>1. /\ f[0] = Timelock /\ f[n] = sourceGovernor[m]
          /\ \A i \in 1 .. n : f[i] = Heir(f[i - 1], log[m][i]) /\ messages[log[m][i]].from = f[i - 1]
      BY <1>6, <2>1, <2>4 DEF Succession
    <3>2. PICK g : g = [i \in 0 .. n + 1 |-> IF i = n + 1 THEN Heir(sourceGovernor[m], id) ELSE f[i]]
      OBVIOUS
    <3>3. g[n + 1] = Heir(sourceGovernor[m], id) /\ \A i \in 0 .. n : g[i] = f[i]
      BY <3>2
    <3>4. g[0] = Timelock
      BY <3>1, <3>3
    <3>5. ASSUME NEW i \in 1 .. n + 1
          PROVE  g[i] = Heir(g[i - 1], log'[m][i]) /\ messages[log'[m][i]].from = g[i - 1]
      <4>1. CASE i = n + 1
        <5>1. i - 1 = n /\ n \in 0 .. n
          BY <4>1
        <5>2. g[i - 1] = sourceGovernor[m] /\ log'[m][i] = id
          BY <1>7, <3>1, <3>3, <4>1, <5>1
        <5>3. QED
          BY <1>1, <3>3, <4>1, <5>2
      <4>2. CASE i # n + 1
        <5>1. i \in 1 .. n /\ i \in 0 .. n /\ i - 1 \in 0 .. n
          BY <4>2
        <5>2. g[i] = f[i] /\ g[i - 1] = f[i - 1] /\ log'[m][i] = log[m][i]
          BY <1>7, <3>3, <5>1
        <5>3. QED
          BY <3>1, <5>1, <5>2
      <4>3. QED
        BY <4>1, <4>2
    <3>6. g[n + 1] = sourceGovernor'[m]
      BY <1>4, <3>3
    <3>7. Succession(g, m)'
      <4>1. Len(log'[m]) = n + 1
        BY <1>7
      <4>2. QED
        BY <1>1, <2>2, <3>4, <3>5, <3>6, <4>1 DEF Succession
    <3>8. QED
      BY <2>4, <3>7
  <2>5. QED
    BY <2>3, <2>4
<1>10. GovernorInv'
  BY <1>4, <1>5, <1>9 DEF GovernorInv
<1>11. QED
  BY <1>8, <1>10

\* A message more, which L2 has not yet seen.
LEMMA SendKeeps ==
  ASSUME TunnelTypes, DeliveryTypes, BatchInv, GovernorInv, NEW bridge, NEW from, NEW data,
         Send(bridge, from, data), bridge \in Bridges => data \in AllBatches,
         log' = log, sourceGovernor' = sourceGovernor, balance' = balance
  PROVE  BatchInv' /\ GovernorInv'
<1>1. PICK m : m = [bridge |-> bridge, from |-> from, data |-> data]
  OBVIOUS
<1>2. Len(messages) < MaxMessages /\ messages' = Append(messages, m)
  BY <1>1 DEF Send
<1>3. /\ DOMAIN messages' = 1 .. Len(messages) + 1 /\ DOMAIN messages = 1 .. Len(messages)
      /\ Len(messages) \in Nat
      /\ \A id \in DOMAIN messages : messages'[id] = messages[id] /\ id \in DOMAIN messages'
      /\ messages'[Len(messages) + 1] = m
  BY <1>2, SendEffect
<1>4. \A id \in DOMAIN messages' : id \in DOMAIN messages \/ messages'[id] = m
  BY <1>3
<1>5. balance' \in [Bridges -> Nat]
  BY DEF GovernorInv
<1>6. QED
  BY <1>1, <1>3, <1>4, <1>5, MessengersKeep

LEMMA MessengerStep ==
  ASSUME TunnelTypes, DeliveryTypes, BatchInv, GovernorInv, [Next]_vars
  PROVE  BatchInv' /\ GovernorInv'
<1>1. balance \in [Bridges -> Nat]
  BY DEF GovernorInv
<1>2. CASE SendStep
  <2>1. UNCHANGED messengerVars
        /\ \E bridge \in Bridges, from \in Governors, calls \in AllBatches : Send(bridge, from, calls)
    <3>1. \A bridge, from, calls : SendBatch(bridge, from, calls) =>
            UNCHANGED messengerVars /\ Send(bridge, from, calls)
      BY DEF SendBatch
    <3>2. Wormhole \subseteq Bridges /\ Batches \subseteq AllBatches /\ proposal_09_batch \in AllBatches
      BY BridgesAssumption DEF AllBatches
    <3>3. \E bridge \in Bridges, from \in Governors, calls \in AllBatches : SendBatch(bridge, from, calls)
      BY <1>2, <3>2 DEF SendStep, SendFromTimelock, proposal_09, SendPayloadToEvm, SendFromDeployer, Governors
    <3>4. QED
      BY <3>1, <3>3
  <2>2. QED
    BY <2>1, SendKeeps DEF messengerVars
<1>3. CASE DeliverStep
  BY <1>3, DeliverySucceeds DEF DeliverStep, Ids
<1>4. CASE RevertStep
  BY <1>1, <1>4, MessengersKeep DEF RevertStep, DeliveryReverts, messengerVars, bridgeVars
<1>5. CASE EnvironmentStep
  <2>1. balance' \in [Bridges -> Nat]
    BY <1>1, <1>5 DEF EnvironmentStep, Fund, AppStops, AppRecovers
  <2>2. messages' = messages /\ log' = log /\ sourceGovernor' = sourceGovernor
    BY <1>5 DEF EnvironmentStep, Fund, AppStops, AppRecovers, bridgeVars
  <2>3. QED
    BY <2>1, <2>2, MessengersKeep
<1>6. CASE TunnelsNext /\ UNCHANGED messengerVars
  <2>1. log' = log /\ sourceGovernor' = sourceGovernor /\ balance' = balance
    BY <1>6 DEF messengerVars
  <2>2. CASE HolderStep \/ OtherStep
    <3>1. \E bridge \in TunnelBridges : \E from, data : Send(bridge, from, data)
      BY <2>2 DEF HolderStep, Deposit, Withdraw, OtherStep, SendOther, TunnelBridges
    <3>2. \A bridge \in TunnelBridges : bridge \notin Bridges
      BY BridgesAssumption DEF TunnelBridges
    <3>3. QED
      BY <2>1, <3>1, <3>2, SendKeeps
  <2>3. CASE WireStep \/ \E id \in 1 .. MaxMessages : Arrive(id)
    <3>1. messages' = messages
      BY <2>3 DEF WireStep, ChangeOwnerToTunnel, SetFxChildTunnel, SetFxRootTunnel, bridgeVars,
                  Arrive, ProcessMessageFromRoot, MessageFromRootReverts, ProcessMessageFromChild
    <3>2. QED
      BY <1>1, <2>1, <3>1, MessengersKeep
  <2>4. QED
    BY <1>6, <2>2, <2>3 DEF TunnelsNext
<1>7. CASE UNCHANGED vars
  BY <1>1, <1>7, MessengersKeep DEF vars, bridgeVars, messengerVars
<1>8. QED
  BY <1>2, <1>3, <1>4, <1>5, <1>6, <1>7 DEF Next, MessengersNext

LEMMA MessengersAlways == Spec => [](DeliveryTypes /\ BatchInv /\ GovernorInv)
<1> DEFINE Inv == TunnelInv /\ DeliveryInv /\ BatchInv /\ GovernorInv
<1>1. Init => Inv
  BY TunnelInit, DeliveryInit, MessengerInit
<1>2. Inv /\ [Next]_vars => Inv'
  <2>1. TunnelInv /\ [Next]_vars => TunnelInv'
    BY TunnelStep
  <2>2. DeliveryInv /\ [Next]_vars => DeliveryInv'
    BY DeliveryStep
  <2>3. Inv /\ [Next]_vars => BatchInv' /\ GovernorInv'
    BY MessengerStep DEF TunnelInv, DeliveryInv
  <2>4. QED
    BY <2>1, <2>2, <2>3
<1>3. Inv => DeliveryTypes /\ BatchInv /\ GovernorInv
  BY DEF DeliveryInv
<1>4. QED
  BY <1>1, <1>2, <1>3, PTL DEF Spec

\* A messenger executes exactly the calls that pack_data.js has packed, and annotate.js
\* shows the voters the same: _processData and decodePacked find in the packed bytes of
\* any batch of calls, of any number and with payloads of any length, those calls again.
THEOREM MessagesExecutedAsPacked == Spec => []ExecutedAsPacked
<1>1. ASSUME BatchInv PROVE ExecutedAsPacked
  <2>1. ASSUME NEW m \in Bridges, NEW i \in DOMAIN log[m]
        PROVE  Received[Batch(log[m][i])] = Batch(log[m][i]) /\ Shown[Batch(log[m][i])] = Batch(log[m][i])
    <3>1. Batch(log[m][i]) \in AllBatches
      BY <1>1 DEF BatchInv, Batch
    <3>2. QED
      BY <3>1, ReadAsPacked
  <2>2. QED
    BY <2>1 DEF ExecutedAsPacked
<1>2. QED
  BY <1>1, MessengersAlways, PTL

\* What a messenger executes came from the governor in force, which the messages it had
\* executed before have put there one after the other, beginning with the Timelock
\* (changeSourceGovernor of the messengers, called only by themselves).
THEOREM GovernorsAreChained == Spec => []ChainOfGovernors
<1>1. ASSUME DeliveryTypes, GovernorInv PROVE ChainOfGovernors
  <2>1. ASSUME NEW m \in Bridges
        PROVE  /\ \A i \in DOMAIN log[m] : messages[log[m][i]].from = GovernorAfter(m, i - 1)
               /\ sourceGovernor[m] = GovernorAfter(m, Len(log[m]))
    <3>1. PICK f : Succession(f, m)
      BY <1>1 DEF GovernorInv
    <3>2. log[m] \in Seq(Ids) /\ Len(log[m]) \in Nat /\ DOMAIN log[m] = 1 .. Len(log[m])
      BY <1>1, LenProperties DEF DeliveryTypes
    <3>3. \A n \in 0 .. Len(log[m]) : GovernorAfter(m, n) = f[n]
      BY <3>1, <3>2, SuccessionIs
    <3>4. \A i \in 1 .. Len(log[m]) : i - 1 \in 0 .. Len(log[m])
      BY <3>2
    <3>5. Len(log[m]) \in 0 .. Len(log[m])
      BY <3>2
    <3>6. QED
      BY <3>1, <3>2, <3>3, <3>4, <3>5 DEF Succession
  <2>2. QED
    BY <2>1 DEF ChainOfGovernors
<1>2. QED
  BY <1>1, MessengersAlways, PTL
=============================================================================
