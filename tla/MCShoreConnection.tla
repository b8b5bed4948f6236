------------------------- MODULE MCShoreConnection -------------------------
(* ShoreConnection on a small instance: one stream, s1, may flush.        *)
EXTENDS ShoreConnection
CONSTANTS c1, r1, s1, s2
=============================================================================
