--------------------------- MODULE BridgeMessages ---------------------------
(***************************************************************************)
(* The bridges between L1 and L2, as the contracts at their ends use them. *)
(* A message is delivered at any later time, in any order, or never.       *)
(* Wormhole delivers for whoever asks, again and again.  The other bridges *)
(* see to it themselves that nothing is delivered after it has succeeded;  *)
(* one that has failed they may try again, and need not.                   *)
(***************************************************************************)
EXTENDS Naturals, Sequences, FiniteSets, Functions, Folds, SequencesExt

CONSTANTS
  Bridges,      \* the messengers of L2: their own bridges
  Wormhole,     \* those of them that stand behind the Wormhole relayer
  MaxMessages   \* bound on the messages of all bridges

ASSUME BridgesAssumption ==
  /\ Wormhole \subseteq Bridges
  /\ {"toRoot", "toChild"} \cap Bridges = {}
  /\ MaxMessages \in Nat

VARIABLES
  messages,  \* what was sent: over which bridge, by whom, with which data
  closed,    \* messages that the bridge does not deliver again
  failed     \* messages whose delivery has reverted, over a bridge that need not try again

bridgeVars == <<messages, closed, failed>>

Send(bridge, from, data) ==
  /\ Len(messages) < MaxMessages
  /\ messages' = Append(messages, [bridge |-> bridge, from |-> from, data |-> data])

Deliverable(id, bridge) ==
  id \in DOMAIN messages /\ messages[id].bridge = bridge /\ id \notin closed

Close(id) == closed' = IF messages[id].bridge \in Wormhole THEN closed ELSE closed \cup {id}
Fail(id) == failed' = IF messages[id].bridge \in Wormhole THEN failed ELSE failed \cup {id}

BridgeInit == messages = <<>> /\ closed = {} /\ failed = {}
=============================================================================
