----------------------------- MODULE MCPairing ------------------------------
(* Instances of Pairing for TLC.                                           *)
EXTENDS Pairing

CONSTANT p1
=============================================================================
