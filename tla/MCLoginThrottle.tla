-------------------------- MODULE MCLoginThrottle --------------------------
(* LoginThrottle on small instances; see the cfg file and the README. *)
EXTENDS LoginThrottle, TLC

CONSTANTS u1, u2, i1, r1, r2
=============================================================================
