--------------------------- MODULE MCGeocodeCache ---------------------------
(***************************************************************************)
(* Instances of GeocodeCache for TLC.                                      *)
(***************************************************************************)
EXTENDS GeocodeCache, TLC

CONSTANTS r1, r2, r3, a, b

\* Two requests for one body, and a third for another body.
TwoAndOne == (r1 :> a) @@ (r2 :> a) @@ (r3 :> b)
=============================================================================
