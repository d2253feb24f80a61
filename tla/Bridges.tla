------------------------------ MODULE Bridges ------------------------------
(***************************************************************************)
(* Messengers and tunnels over the same bridges.                           *)
(***************************************************************************)
EXTENDS Messengers, FxTunnels

vars == <<bridgeVars, messengerVars, tunnelVars>>

Init == BridgeInit /\ MessengersInit /\ TunnelsInit

Next ==
  \/ MessengersNext /\ UNCHANGED tunnelVars
  \/ TunnelsNext /\ UNCHANGED messengerVars

\* A message over Wormhole is delivered again until it has been executed, a bridge of
\* another kind delivers a message once, and again only if somebody likes to. Holders
\* go on presenting an exit that reverts, as nothing but themselves keeps them from it.
\* Somebody wires the tunnels, in the one way or the other, the application comes back
\* and the messengers are funded.
Redelivery == \E m \in Wormhole, id \in 1 .. MaxMessages : Deliver(m, id)
Spec ==
  /\ Init /\ [][Next]_vars
  /\ WF_vars((DeliverStep \/ RevertStep) /\ UNCHANGED tunnelVars)
  /\ SF_vars(Redelivery /\ UNCHANGED tunnelVars)
  /\ WF_vars((\E id \in 1 .. MaxMessages : Arrive(id)) /\ UNCHANGED messengerVars)
  /\ WF_vars((\E m \in Bridges : Fund(m)) /\ UNCHANGED tunnelVars)
  /\ WF_vars(AppRecovers /\ UNCHANGED tunnelVars)
  /\ WF_vars(WireStep /\ UNCHANGED messengerVars)

\* A batch that no state of L2 can make succeed.
Refused(id) ==
  \E i \in DOMAIN Batch(id) :
    LET call == Batch(id)[i]
    IN  call.target = Zero \/ call.value > MaxFunding \/ (call.target = Self /\ call.payload[2] = Zero)

\* What a message comes to: a batch over Wormhole is executed, unless L2 refuses it for
\* ever or the messenger has got another governor than the one that sent it; tokens
\* that were locked are minted, unless the root tunnel was told of another contract.
\* What goes over the other bridges arrives or has failed once.
Served(id) ==
  /\ id \in DOMAIN messages
  /\ LET message == messages[id]
     IN  \/ /\ message.bridge \in Wormhole
            /\ Refused(id) \/ Executed(id) \/ sourceGovernor[message.bridge] # message.from
         \/ /\ message.bridge = "toRoot"
            /\ id \in closed \/ message.from # fxChildTunnel
            /\ fxChildTunnel # "none"
         \/ /\ message.bridge \notin Wormhole \cup {"toRoot"}
            /\ id \in closed \cup failed

\* Whatever reverts on the way, a time comes again and again when nothing is outstanding.
MessagesArrive == []<>(\A id \in DOMAIN messages : Served(id))
=============================================================================
