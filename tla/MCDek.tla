------------------------------- MODULE MCDek -------------------------------
(* Instance of Dek for TLC: Dek is closed but for its two bounds.          *)
EXTENDS Dek
=============================================================================
