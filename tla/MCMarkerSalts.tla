--------------------------- MODULE MCMarkerSalts ---------------------------
(* A small instance of MarkerSalts: one identity that can rotate twice, and *)
(* one that rotates once and competes with it for the cache.                *)
EXTENDS MarkerSalts, TLC

CONSTANTS k1, k2

MCKeys == {k1, k2}
MCMaxFailures == k1 :> 4 @@ k2 :> 2
=============================================================================
