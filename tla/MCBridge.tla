------------------------------ MODULE MCBridge ------------------------------
(* Instances of Bridge for TLC.                                            *)
EXTENDS Bridge

CONSTANTS m1, m2, w1, w2, h1, h2

\* Two inbound messages for a pool of two workers.
OneWayMsgs == {m1, m2}
OneWayDir == [m \in OneWayMsgs |-> "in"]
OneWayPool == [w \in {w1, w2} |-> "in"]

OneWorkerPool == [w \in {w1} |-> "in"]

\* At most two of a restart, a retry and a database error in one behaviour.
TwoTroubles == (boots - 1) + retries + faults <= 2

AllSymmetry == Permutations({m1, m2}) \union Permutations({w1, w2}) \union Permutations({h1, h2})
=============================================================================
