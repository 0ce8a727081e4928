----------------------------- MODULE MCContacts -----------------------------
(* A burst of two messages of one number beside a message of another.      *)
EXTENDS Contacts

CONSTANTS j1, j2, m1, m2, m3

\* The number of j1 is part of that of j2.
PrefixResembles == (j1 :> {j1, j2}) @@ (j2 :> {j2})

BurstJid == (m1 :> j1) @@ (m2 :> j1) @@ (m3 :> j2)
=============================================================================
