----------------------------- MODULE MCRouting -----------------------------
(* Routing on a small instance; no tab, user or Shore is special.           *)
EXTENDS Routing, TLC
CONSTANTS t1, t2, u1, u2, master, tower, assets
MCSymmetry == Permutations(Tabs) \union Permutations(Users) \union Permutations(Shores)
=============================================================================
