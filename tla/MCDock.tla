------------------------------- MODULE MCDock -------------------------------
(* Dock on a small instance: two connections of one name, so that the      *)
(* second can replace and be delisted by the first, and one request.       *)
EXTENDS Dock
CONSTANTS c1, c2, n1, r1
=============================================================================
