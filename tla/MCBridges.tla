----------------------------- MODULE MCBridges -----------------------------
(***************************************************************************)
(* The bridges for TLC: one WormholeMessenger and one messenger of another *)
(* bridge.                                                                 *)
(***************************************************************************)
EXTENDS Bridges

MCBridges == {"wormhole", "fx"}
MCWormhole == {"wormhole"}
=============================================================================
