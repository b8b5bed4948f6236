-------------------------- MODULE MCCertAuthority --------------------------
(* CertAuthority on a small instance: one name goes to either of two       *)
(* directories, the other to its own; n1 as an expression matches n2 too.  *)
(* No invocation is special, and neither of the two directories is.        *)
EXTENDS CertAuthority, TLC
CONSTANTS p1, p2, p3, n1, n2, d1, d2, d3
MCFiles == [dir : {d1, d2}, name : {n1}] \union [dir : {d3}, name : {n2}]
MCAlike == (n1 :> {n2}) @@ (n2 :> {})
MCSymmetry == Permutations(Runs) \union Permutations({d1, d2})
=============================================================================
