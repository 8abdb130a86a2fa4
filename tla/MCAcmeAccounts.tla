--------------------------- MODULE MCAcmeAccounts ---------------------------
(* AcmeAccounts on a small instance; see the cfg files and the README. *)
EXTENDS AcmeAccounts, TLC

CONSTANTS k1, k2, c1, c2, r1, r2

\* c1 is the documented one-shot credential, c2 has room for two accounts.
MCMax == (c1 :> 1) @@ (c2 :> 2)

Symm == Permutations(Keys) \cup Permutations(Requests)
=============================================================================
