------------------------- MODULE MCSessionLifecycle -------------------------
(* SessionLifecycle with two API threads beside the loop.                  *)
EXTENDS SessionLifecycle, TLC

CONSTANTS t1, t2, main

MCThreads == {t1, t2}
MCSymmetry == Permutations(MCThreads)

=============================================================================
