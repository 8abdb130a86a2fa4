--------------------------- MODULE MCCaRetirement ---------------------------
(* CaRetirement on small instances; see the cfg files and the README. *)
EXTENDS CaRetirement, TLC

CONSTANTS root, mid, leaf, x1, x2, r1, r2

\* root issued mid, and mid issued leaf.
MCParent == (root :> NoCA) @@ (mid :> root) @@ (leaf :> mid)

\* root issued mid.
MCParentTwo == (root :> NoCA) @@ (mid :> root)

\* No subordinate authorities.
MCParentOne == (root :> NoCA)

Symm == Permutations(Requests) \cup Permutations(Certs)
=============================================================================
