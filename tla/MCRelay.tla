------------------------------ MODULE MCRelay ------------------------------
(* Instance of Relay for TLC.                                              *)
EXTENDS Relay

MCMaxSent == [d \in Dirs |-> IF d = "up" THEN 3 ELSE 2]
=============================================================================
