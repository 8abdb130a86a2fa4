--------------------------- MODULE MCSecretVault ---------------------------
(* SecretVault on small instances; see the cfg files and the README. *)
EXTENDS SecretVault, TLC

CONSTANTS s1, s2, a, w1, r1, r2
=============================================================================
