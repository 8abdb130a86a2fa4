---------------------------- MODULE MCUserAccess ----------------------------
(* UserAccess on small instances; see the cfg files and the README. *)
EXTENDS UserAccess, TLC

CONSTANTS alice, bob, s1, t1, r1, r2

Symm == Permutations({r1, r2})
=============================================================================
