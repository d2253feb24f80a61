----------------------------- MODULE FxTunnels -----------------------------
(***************************************************************************)
(* FxERC20ChildTunnel on L2 locks tokens that FxERC20RootTunnel on L1      *)
(* mints as bridged ones; withdrawing burns those and unlocks the others.  *)
(* Each tunnel is told once which contract is its peer, by whoever comes   *)
(* first; the root tunnel is given the bridged token.  All of this may     *)
(* come at any time, and any contract may send over the same bridges.      *)
(***************************************************************************)
EXTENDS BridgeMessages

CONSTANTS
  Holders,        \* accounts on both sides
  ChildSupply     \* tokens on L2, with the holders at first

ASSUME TunnelsAssumption == ChildSupply \in Nat \ {0} /\ IsFiniteSet(Holders)

VARIABLES
  childBalance,    \* childToken.balanceOf
  locked,          \* of the child tunnel
  rootBalance,     \* rootToken.balanceOf
  ownedByTunnel,   \* the root tunnel is the owner of BridgedERC20
  fxChildTunnel,   \* the peer of the root tunnel
  fxRootTunnel     \* the peer of the child tunnel

tunnelVars == <<childBalance, locked, rootBalance, ownedByTunnel, fxChildTunnel, fxRootTunnel>>
wiring == <<ownedByTunnel, fxChildTunnel, fxRootTunnel>>

\* Contracts that may be at an end of a bridge: the tunnel that belongs there, or
\* another one, whoever has deployed it.
Peers == {"tunnel", "other"}

Transfer(receiver, to, amount) == [receiver |-> receiver, to |-> to, amount |-> amount]

(***************************************************************************)
(* Wiring                                                                  *)
(***************************************************************************)

ChangeOwnerToTunnel ==
  /\ ~ownedByTunnel /\ ownedByTunnel' = TRUE
  /\ UNCHANGED <<bridgeVars, childBalance, locked, rootBalance, fxChildTunnel, fxRootTunnel>>

\* Open to anybody, with any address, once.
SetFxChildTunnel(peer) ==
  /\ fxChildTunnel = "none" /\ fxChildTunnel' = peer
  /\ UNCHANGED <<bridgeVars, childBalance, locked, rootBalance, ownedByTunnel, fxRootTunnel>>
SetFxRootTunnel(peer) ==
  /\ fxRootTunnel = "none" /\ fxRootTunnel' = peer
  /\ UNCHANGED <<bridgeVars, childBalance, locked, rootBalance, ownedByTunnel, fxChildTunnel>>

(***************************************************************************)
(* L2                                                                      *)
(***************************************************************************)

\* deposit, depositTo. The message is sent whether the tunnels are wired or not.
Deposit(from, to, amount) ==
  /\ amount > 0 /\ amount <= childBalance[from]
  /\ Send("toRoot", "tunnel", Transfer("tunnel", to, amount))
  /\ childBalance' = [childBalance EXCEPT ![from] = @ - amount]
  /\ locked' = locked + amount
  /\ UNCHANGED <<closed, failed, rootBalance, wiring>>

\* Fault: a tunnel that has not been told of its peer takes messages of any contract.
ValidateSender_Unset(id) == fxRootTunnel \in {"none", messages[id].from}
\* validateSender
ValidateSender(id) == messages[id].from = fxRootTunnel

Unlocks(id) ==
  /\ Deliverable(id, "toChild") /\ messages[id].data.receiver = "tunnel"
  /\ ValidateSender(id)
  /\ messages[id].data.amount <= locked

ProcessMessageFromRoot(id) ==
  /\ Unlocks(id)
  /\ childBalance' = [childBalance EXCEPT ![messages[id].data.to] = @ + messages[id].data.amount]
  /\ locked' = locked - messages[id].data.amount
  /\ Close(id)
  /\ UNCHANGED <<messages, failed, rootBalance, wiring>>

\* Nobody is bound to try a state sync again that has reverted.
MessageFromRootReverts(id) ==
  /\ Deliverable(id, "toChild") /\ ~Unlocks(id)
  /\ Fail(id)
  /\ UNCHANGED <<messages, closed, tunnelVars>>

(***************************************************************************)
(* L1                                                                      *)
(***************************************************************************)

\* withdraw, withdrawTo: burn is for the owner only.
Withdraw(from, to, amount) ==
  /\ amount > 0 /\ amount <= rootBalance[from] /\ ownedByTunnel
  /\ Send("toChild", "tunnel", Transfer(fxChildTunnel, to, amount))
  /\ rootBalance' = [rootBalance EXCEPT ![from] = @ - amount]
  /\ UNCHANGED <<closed, failed, childBalance, locked, wiring>>

\* Fault: the sender of the message is not compared with the child tunnel.
SentByChild_Unchecked(id) == fxChildTunnel # "none" /\ id \in DOMAIN messages
SentByChild(id) == messages[id].from = fxChildTunnel

\* receiveMessage, with the proof of an exit that was not processed. If the sender is
\* another one, or the tunnel not the owner, it reverts, and may be called again.
ProcessMessageFromChild(id) ==
  /\ Deliverable(id, "toRoot")
  /\ SentByChild(id) /\ ownedByTunnel
  /\ rootBalance' = [rootBalance EXCEPT ![messages[id].data.to] = @ + messages[id].data.amount]
  /\ Close(id)
  /\ UNCHANGED <<messages, failed, childBalance, locked, wiring>>

\* Any other contract sends the tunnels a message over the same bridges.
SendOther(bridge, to, amount) ==
  /\ Send(bridge, "other", Transfer("tunnel", to, amount))
  /\ UNCHANGED <<closed, failed, tunnelVars>>

(***************************************************************************)
(* Specification                                                           *)
(***************************************************************************)

TunnelsInit ==
  /\ childBalance = [h \in Holders |-> ChildSupply]
  /\ rootBalance = [h \in Holders |-> 0]
  /\ locked = 0
  /\ ownedByTunnel = FALSE /\ fxChildTunnel = "none" /\ fxRootTunnel = "none"

WireStep == ChangeOwnerToTunnel \/ (\E peer \in Peers : SetFxChildTunnel(peer) \/ SetFxRootTunnel(peer))
HolderStep ==
  \E from, to \in Holders, amount \in 1 .. ChildSupply :
    Deposit(from, to, amount) \/ Withdraw(from, to, amount)
OtherStep ==
  \E bridge \in {"toRoot", "toChild"}, to \in Holders, amount \in 1 .. ChildSupply :
    SendOther(bridge, to, amount)
Arrive(id) == ProcessMessageFromRoot(id) \/ MessageFromRootReverts(id) \/ ProcessMessageFromChild(id)

TunnelsNext == WireStep \/ HolderStep \/ OtherStep \/ (\E id \in 1 .. MaxMessages : Arrive(id))

(***************************************************************************)
(* Properties                                                              *)
(***************************************************************************)

\* Tokens that have left one tunnel and have not reached the other.
InTransit(bridge) ==
  SumFunction([id \in {i \in DOMAIN messages : Deliverable(i, bridge) /\ messages[i].from = "tunnel"}
                |-> messages[id].data.amount])

\* Nobody has told a tunnel of a contract that is not its peer.
RightPeers == fxChildTunnel # "other" /\ fxRootTunnel # "other"

\* As long as nobody was quicker to name another contract as a peer, what is locked on
\* L2 backs exactly the bridged tokens, those still to be minted and those burned and
\* still to be unlocked: whenever the tunnels are wired, whatever other contracts send
\* them and in whatever order messages arrive, nothing is lost or doubled.
LockedBacksBridged ==
  RightPeers => locked = SumFunction(rootBalance) + InTransit("toRoot") + InTransit("toChild")

\* Burned tokens are lost with a state sync that fails: once both tunnels know each
\* other that never happens, as whatever was burned is still locked.
WithdrawalsSurvive ==
  [][\A id \in failed' \ failed :
       messages[id].bridge = "toChild" /\ messages[id].from = "tunnel"
         => fxChildTunnel # "tunnel" \/ fxRootTunnel # "tunnel"]_<<bridgeVars, tunnelVars>>
=============================================================================
