---------------------------- MODULE MCPlayerStore ----------------------------
(* Two goroutines and two players, for checking PlayerStore: three         *)
(* commands, or two and a crash.                                           *)
EXTENDS PlayerStore

CONSTANTS t1, t2

MCThread == {t1, t2}
MCBounds == {<<3, 0>>, <<2, 1>>}
=============================================================================
