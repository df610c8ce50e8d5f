----------------------------- MODULE MCBridges -----------------------------
(* Instance of Bridges for TLC.                                            *)
EXTENDS Bridges
=============================================================================
