----------------------------- MODULE MCTenants ------------------------------
(* Requests for one slug, from two browsers.                               *)
EXTENDS Tenants

CONSTANTS s1, w1, w2

OneSlug == {s1}
TwoBrowsers == {w1, w2}
=============================================================================
