----------------------------- MODULE MCAccounts -----------------------------
(* Accounts on a small instance: bob is the administrator's configured name *)
(* and alice anybody's.                                                     *)
EXTENDS Accounts, TLC
CONSTANTS h1, h2, h3, i1, i2, alice, bob
MCSymmetry == Permutations(Handlers) \union Permutations(Identities)
MCAdminUser == <<bob, 1>>
=============================================================================
