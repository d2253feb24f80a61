----------------------------- MODULE Messengers -----------------------------
(***************************************************************************)
(* The messengers on L2 execute batches of calls for the governor on L1:   *)
(* WormholeMessenger, and FxGovernorTunnel, HomeMediator and               *)
(* OptimismMessenger, which differ in the bridge they trust.  On L1 the    *)
(* Timelock sends over the bridge itself, or, over Wormhole, through the   *)
(* WormholeRelayerTimelock, which pays what the relayer asks for.          *)
(***************************************************************************)
EXTENDS BridgeMessages

CONSTANTS
  Timelock, RelayerTimelock, Deployer,  \* accounts on L1, numbers above zero
  Self, App,         \* targets on L2, numbers above zero
  TargetCells, ValueCells, LengthCells, \* widths in the packed data
  MaxFunding,        \* bound on the ETH a messenger is given
  MaxCost            \* bound on what the Wormhole relayer asks for on L1

Zero == 0
Governors == {Timelock, RelayerTimelock, Deployer}
Base == 16           \* values of a cell

ASSUME MessengersAssumption ==
  /\ Governors \cup {Self, App} \subseteq 1 .. Base - 1
  /\ Self # App /\ Cardinality(Governors) = 3
  /\ {TargetCells, ValueCells, LengthCells} \subseteq Nat \ {0}
  /\ {MaxFunding, MaxCost} \subseteq Nat

VARIABLES
  sourceGovernor,     \* rootGovernor, foreignGovernor
  mapDeliveryHashes,  \* of the Wormhole messengers; one message, one hash
  balance,            \* ETH of the messenger
  log,                \* messages executed, in order
  serving             \* the application accepts calls

messengerVars == <<sourceGovernor, mapDeliveryHashes, balance, log, serving>>

(***************************************************************************)
(* The packed batch: target, value, payload length, payload, and so on     *)
(***************************************************************************)

Call(target, value, payload) == [target |-> target, value |-> value, payload |-> payload]

\* The payloads: a call of the application, a transfer of ETH only, a self-call.
Use == << 9 >>
changeSourceGovernor(new) == << 8, new >>

BigEndian(number, width) == [k \in 1 .. width |-> IF k = width THEN number ELSE 0]
ReadNumber(data, at, width) ==
  LET upTo[k \in 0 .. width] == IF k = 0 THEN 0 ELSE Base * upTo[k - 1] + data[at + k]
  IN  upTo[width]

Packed(call) ==
  BigEndian(call.target, TargetCells) \o BigEndian(call.value, ValueCells)
    \o BigEndian(Len(call.payload), LengthCells) \o call.payload
pack_data(calls) ==
  LET upTo[i \in 0 .. Len(calls)] == IF i = 0 THEN <<>> ELSE upTo[i - 1] \o Packed(calls[i])
  IN  upTo[Len(calls)]

DEFAULT_DATA_LENGTH == TargetCells + ValueCells + LengthCells

PayloadLength(data, at) == ReadNumber(data, at + TargetCells + ValueCells, LengthCells)

\* Fault: the payload is read from the cell of its length on.
CallAt_Early(data, at) ==
  Call(ReadNumber(data, at, TargetCells), ReadNumber(data, at + TargetCells, ValueCells),
       SubSeq(data, at + DEFAULT_DATA_LENGTH,
              at + DEFAULT_DATA_LENGTH + PayloadLength(data, at) - 1))
CallAt(data, at) ==
  Call(ReadNumber(data, at, TargetCells), ReadNumber(data, at + TargetCells, ValueCells),
       SubSeq(data, at + DEFAULT_DATA_LENGTH + 1,
              at + DEFAULT_DATA_LENGTH + PayloadLength(data, at)))

\* What _processData calls, tuple by tuple. A payload that is cut short reverts, like a
\* call of address zero; pack_data.js never cuts one short.
\* Fault: a payload that ends with the data counts as cut short.
CutShort_AtTheEnd(data, at) ==
  \/ at + DEFAULT_DATA_LENGTH > Len(data)
  \/ at + DEFAULT_DATA_LENGTH + PayloadLength(data, at) >= Len(data)
CutShort(data, at) ==
  \/ at + DEFAULT_DATA_LENGTH > Len(data)
  \/ at + DEFAULT_DATA_LENGTH + PayloadLength(data, at) > Len(data)
Unpacked(data) ==
  LET from[at \in 0 .. Len(data)] ==
        IF at = Len(data) THEN <<>>
        ELSE IF CutShort(data, at) THEN << Call(Zero, 0, <<>>) >>
        ELSE << CallAt(data, at) >> \o from[at + DEFAULT_DATA_LENGTH + PayloadLength(data, at)]
  IN  from[0]

\* What annotate.js shows the voters of the same data. pack_data.js cuts no tuple short;
\* what would be shown of one is left out.
decodePacked(data) ==
  LET Field(at, width) == ReadNumber(data, at, width)
      shown[i \in 0 .. Len(data)] ==
        LET value == i + TargetCells
            plen == value + ValueCells
            payload == plen + LengthCells
            end == payload + Field(plen, LengthCells)
        IN  IF i = Len(data) THEN <<>>
            ELSE IF payload > Len(data) THEN << Call(Zero, 0, <<>>) >>
            ELSE << Call(Field(i, TargetCells), Field(value, ValueCells), SubSeq(data, payload + 1, end)) >>
                   \o (IF end > Len(data) THEN <<>> ELSE shown[end])
  IN  shown[0]

(***************************************************************************)
(* L1: proposals that the Timelock executes                                *)
(***************************************************************************)

\* The batches of the proposals; the last ones are refused on L2.
Batches ==
  { << Call(App, 1, Use) >>,
    << Call(App, 0, << >>), Call(App, 0, Use) >>,
    << Call(Self, 0, changeSourceGovernor(RelayerTimelock)), Call(App, 0, Use) >>,
    << Call(App, 0, Use), Call(Self, 0, changeSourceGovernor(Zero)) >>,
    << Call(App, 0, Use), Call(Zero, 0, << >>) >> }

\* The address of the relayer contract is overwritten with the deployer's until the
\* contract is deployed.
proposal_09_batch == << Call(Self, 0, changeSourceGovernor(Deployer)) >>

\* A message is named by the calls that pack_data.js was given; what travels, and
\* what L2 makes of it, follows from them.
AllBatches == Batches \cup {proposal_09_batch}
Wire == [calls \in AllBatches |-> pack_data(calls)]
Shown == [calls \in AllBatches |-> decodePacked(Wire[calls])]
Received == [calls \in AllBatches |-> Unpacked(Wire[calls])]

Batch(id) == messages[id].data
SendBatch(bridge, from, calls) ==
  /\ Send(bridge, from, calls)
  /\ UNCHANGED <<closed, failed, messengerVars>>

\* The Timelock sends for itself, over Wormhole with exactly the quoted value.
SendFromTimelock ==
  \E bridge \in Bridges, calls \in Batches : SendBatch(bridge, Timelock, calls)

proposal_09 == \E bridge \in Wormhole : SendBatch(bridge, Timelock, proposal_09_batch)

\* The value that the proposal named has to cover what the relayer asks for when it is
\* executed, whatever that is by then; leftovers go back.
ManageFee(value, quote) == quote <= value
SendPayloadToEvm(value, quote) ==
  /\ ManageFee(value, quote)
  /\ \E bridge \in Wormhole, calls \in Batches : SendBatch(bridge, RelayerTimelock, calls)

\* Whoever is the governor now sends for itself: an EOA needs no vote.
SendFromDeployer ==
  \E bridge \in Wormhole, calls \in Batches :
    sourceGovernor[bridge] = Deployer /\ SendBatch(bridge, Deployer, calls)

(***************************************************************************)
(* L2: a delivery is all or nothing                                        *)
(***************************************************************************)

\* One call of a batch, made in the state that the calls before it have left.
Called(state, call) ==
  [ok |-> /\ state.ok /\ call.target # Zero /\ call.value <= state.balance
          /\ call.target = App => call.payload = << >> \/ serving
          /\ call.target = Self => Len(call.payload) = 2 /\ call.payload[2] # Zero,
   governor |-> IF call.target = Self THEN Last(call.payload) ELSE state.governor,
   balance |-> IF call.value <= state.balance THEN state.balance - call.value ELSE 0]

ProcessData(m, batch) ==
  LET calls == Received[batch]
      after[i \in 0 .. Len(calls)] ==
        IF i = 0 THEN [ok |-> Len(Wire[batch]) >= DEFAULT_DATA_LENGTH,
                       governor |-> sourceGovernor[m], balance |-> balance[m]]
        ELSE Called(after[i - 1], calls[i])
  IN  after[Len(calls)]

\* Fault: a message of an earlier governor is taken too.
FromGovernor_EverInForce(m, id) == messages[id].from \in {Timelock, sourceGovernor[m]}
FromGovernor(m, id) == messages[id].from = sourceGovernor[m]

\* Fault: the hash of the delivery is not looked up.
NotDelivered_Unchecked(m, id) == m \in Bridges
NotDelivered(m, id) == id \notin mapDeliveryHashes[m]

Executes(m, id) ==
  /\ Deliverable(id, m)
  /\ FromGovernor(m, id)
  /\ NotDelivered(m, id)
  /\ ProcessData(m, Batch(id)).ok

Deliver(m, id) ==
  /\ Executes(m, id)
  /\ LET after == ProcessData(m, Batch(id))
     IN  /\ sourceGovernor' = [sourceGovernor EXCEPT ![m] = after.governor]
         /\ balance' = [balance EXCEPT ![m] = after.balance]
  /\ mapDeliveryHashes' =
       IF m \in Wormhole THEN [mapDeliveryHashes EXCEPT ![m] = @ \cup {id}] ELSE mapDeliveryHashes
  /\ log' = [log EXCEPT ![m] = Append(@, id)]
  /\ Close(id)
  /\ UNCHANGED <<messages, failed, serving>>

\* The revert takes the mark of the delivery hash back: over Wormhole the message may
\* be delivered again, while another bridge has tried.
DeliveryReverts(m, id) ==
  /\ Deliverable(id, m) /\ ~Executes(m, id)
  /\ Fail(id)
  /\ UNCHANGED <<messages, closed, messengerVars>>

Fund(m) ==
  /\ balance[m] < MaxFunding
  /\ balance' = [balance EXCEPT ![m] = @ + 1]
  /\ UNCHANGED <<bridgeVars, sourceGovernor, mapDeliveryHashes, log, serving>>

AppStops ==
  /\ serving /\ serving' = FALSE
  /\ UNCHANGED <<bridgeVars, sourceGovernor, mapDeliveryHashes, balance, log>>
AppRecovers ==
  /\ ~serving /\ serving' = TRUE
  /\ UNCHANGED <<bridgeVars, sourceGovernor, mapDeliveryHashes, balance, log>>

(***************************************************************************)
(* Specification                                                           *)
(***************************************************************************)

MessengersInit ==
  /\ sourceGovernor = [m \in Bridges |-> Timelock]
  /\ mapDeliveryHashes = [m \in Bridges |-> {}]
  /\ balance = [m \in Bridges |-> 0]
  /\ log = [m \in Bridges |-> <<>>]
  /\ serving = TRUE

Executed(id) == \E m \in Bridges : \E i \in DOMAIN log[m] : log[m][i] = id

SendStep == SendFromTimelock \/ proposal_09 \/ SendFromDeployer
  \/ (\E value, quote \in 0 .. MaxCost : SendPayloadToEvm(value, quote))
DeliverStep == \E m \in Bridges, id \in 1 .. MaxMessages : Deliver(m, id)
RevertStep == \E m \in Bridges, id \in 1 .. MaxMessages : DeliveryReverts(m, id)
EnvironmentStep == (\E m \in Bridges : Fund(m)) \/ AppStops \/ AppRecovers

MessengersNext == SendStep \/ DeliverStep \/ RevertStep \/ EnvironmentStep

(***************************************************************************)
(* Properties                                                              *)
(***************************************************************************)

\* A messenger executes a message once at most, however often it is delivered: over
\* Wormhole because of the delivery hashes, which a revert takes back, over the other
\* bridges because they deliver nothing again that has succeeded.
ExecutedOnce ==
  \A m \in Bridges : \A i, j \in DOMAIN log[m] : log[m][i] = log[m][j] => i = j

\* What a messenger executes are exactly the calls that pack_data.js was given, which
\* are also those that annotate.js shows to the voters.
ExecutedAsPacked ==
  \A m \in Bridges : \A i \in DOMAIN log[m] :
    LET batch == Batch(log[m][i]) IN Received[batch] = batch /\ Shown[batch] = batch

\* The governor after the first n messages, by the last call in them that names one.
Heir(governor, id) ==
  LET changes == {i \in DOMAIN Batch(id) : Batch(id)[i].target = Self}
  IN  IF changes = {} THEN governor ELSE Last(Batch(id)[Max(changes)].payload)
GovernorAfter(m, n) ==
  LET after[i \in 0 .. n] == IF i = 0 THEN Timelock ELSE Heir(after[i - 1], log[m][i])
  IN  after[n]

\* Every message executed came from the governor that the messages executed before
\* it had put in force, however late it was delivered: the chain of governors that
\* began with the Timelock has no gap, and what an earlier governor had sent is void.
ChainOfGovernors ==
  \A m \in Bridges :
    /\ \A i \in DOMAIN log[m] : messages[log[m][i]].from = GovernorAfter(m, i - 1)
    /\ sourceGovernor[m] = GovernorAfter(m, Len(log[m]))
=============================================================================
