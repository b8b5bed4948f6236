-------------------------- MODULE MCShoreRegistry --------------------------
(* ShoreRegistry on a small instance: three connection attempts, so that a *)
(* replaced connection can outlive its successor and a third can follow,   *)
(* and a threshold of one tick instead of three.                           *)
EXTENDS ShoreRegistry, TLC
CONSTANTS c1, c2, c3, n1, n2

MCSymmetry == Permutations(Conns) \union Permutations(Names)
=============================================================================
