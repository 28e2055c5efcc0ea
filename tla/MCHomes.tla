------------------------------- MODULE MCHomes -------------------------------
(* Three goroutines and two players with one home each, to check Homes.      *)
EXTENDS Homes, TLC

CONSTANTS t1, t2, t3, alice, bob, here, there

MCThread == {t1, t2, t3}
MCPlayer == {alice, bob}
MCPlace == {here, there}
MCBounds == {<<2, 2, 1>>, <<3, 3, 0>>}
Symmetry == Permutations(MCThread) \cup Permutations(MCPlayer)
              \cup Permutations(MCPlace)
=============================================================================
