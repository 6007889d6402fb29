--------------------------- MODULE MCPreswapPool ----------------------------
(* PreswapPool for TLC: the sessions are interchangeable. *)
EXTENDS PreswapPool, TLC

Symmetry == Permutations(Pairs)
=============================================================================
