---------------------------- MODULE MCNodeCache ----------------------------
(* Instances of NodeCache.tla for TLC.                                      *)
EXTENDS NodeCache, TLC
CONSTANTS p1, p2, p3, r1, r2

OneEach == [p \in Pod |-> 1]
=============================================================================
