---------------------------- MODULE MCMeshCache ----------------------------
(* Parts of different size for checking MeshCache with TLC: the limits hold *)
(* one, both or not even the large one.                                     *)
EXTENDS MeshCache

CONSTANTS small, large, l1, l2, l3
TwoParts == {small, large}
Sizes == [u \in TwoParts |-> IF u = small THEN 1 ELSE 2]
ThreeLoads == {l1, l2, l3}
=============================================================================
