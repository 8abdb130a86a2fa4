---------------------------- MODULE MCAcmeOrders ----------------------------
(* AcmeOrders on small instances; see the cfg files and the README. *)
EXTENDS AcmeOrders, TLC

CONSTANTS o1, a1, a2, c1, r1, r2

\* Two accounts bootstrapped from the same credential.
MCCredOf == (a1 :> c1) @@ (a2 :> c1)
=============================================================================
