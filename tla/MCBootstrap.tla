---------------------------- MODULE MCBootstrap -----------------------------
(* Instances of Bootstrap for TLC.                                         *)
EXTENDS Bootstrap

CONSTANTS s1, s2, c1
=============================================================================
