---------------------------- MODULE MCLazyCaches ----------------------------
(***************************************************************************)
(* Instances of LazyCaches for TLC.                                        *)
(***************************************************************************)
EXTENDS LazyCaches, TLC

CONSTANTS r1, r2, r3, s, t

TwoSources == (r1 :> s) @@ (r2 :> t) @@ (r3 :> s)
TwoRequests == (r1 :> s) @@ (r2 :> t)
=============================================================================
