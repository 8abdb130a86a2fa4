-------------------------- MODULE MCCrlPublication --------------------------
(* CrlPublication on small instances; see the cfg files and the README. *)
EXTENDS CrlPublication, TLC

CONSTANTS x1, x2, r1, r2, g1, g2, s1

Symm == Permutations(Certs) \cup Permutations(Generators)
=============================================================================
