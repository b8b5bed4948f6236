----------------------------- MODULE MCSessions -----------------------------
(* Sessions on a small instance.  Names: an ordinary one; one that ends in  *)
(* a colon and a number; one with a character that cookies may not hold.    *)
(* Environments: behind an edge with the secret in hex, and again in base64 *)
(* with mutual TLS; without a secret; with a CA file that does not parse;   *)
(* with certificates, which make cookies Secure, but reached by http.       *)
EXTENDS Sessions, TLC
CONSTANTS a, Umlaut, s1, s2, k1, k2
MCChars == {a, Umlaut, Colon, 9}
MCNames == {<<a>>, <<a, Colon, 9>>, <<a, Umlaut>>}
MCDropped == {Umlaut}

Edge == [secret |-> [key |-> k1, form |-> "hex"], mtls |-> FALSE, ca |-> {},
         store |-> TRUE, cert |-> "unset", edge |-> TRUE, https |-> TRUE]
MCEnvs ==
  {Edge,
   [Edge EXCEPT !.secret.form = "base64", !.mtls = TRUE, !.ca = {"certificate", "other"},
                !.cert = "good"],
   [Edge EXCEPT !.secret = None],
   [Edge EXCEPT !.secret.form = "raw", !.mtls = TRUE, !.ca = {"certificate", "malformed"}],
   [Edge EXCEPT !.secret = [key |-> k2, form |-> "raw"], !.cert = "bad", !.edge = FALSE, !.https = FALSE]}
MCSymmetry == Permutations(Slots)
=============================================================================
