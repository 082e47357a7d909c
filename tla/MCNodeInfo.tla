----------------------------- MODULE MCNodeInfo -----------------------------
(* An instance of NodeInfo.tla for TLC.                                     *)
EXTENDS NodeInfo, TLC

CONSTANTS c1, c2, p1, p2

\* 0 and 1 are on one switch, 2 is a step away
ThreeGPUs == [i \in GPU |-> [j \in GPU |-> IF i = j THEN 0
                                           ELSE IF {i, j} = {0, 1} THEN 8 ELSE 5]]

\* an annotation may also name a device the node does not have
SomeIds == {{0}, {1, 2}, {0, 2}, {1, 7}}

Symmetry == Permutations(Caller) \union Permutations(Pod)
=============================================================================
