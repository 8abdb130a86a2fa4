---------------------------- MODULE MCCertStatus ----------------------------
(* CertStatus on small instances; see the cfg files and the README. *)
EXTENDS CertStatus, TLC

CONSTANTS x1, x2, r1, r2, r3

\* r1 is the one that may be a Release.
Symm == Permutations(Certs) \cup Permutations({r2, r3})
=============================================================================
