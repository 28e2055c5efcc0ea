---------------------------- MODULE MCGameProcess ----------------------------
(* Two clients that call at the same time, or one client that calls in     *)
(* sequence, for checking GameProcess.                                     *)
EXTENDS GameProcess

CONSTANTS h1, h2

MCHandler == {h1, h2}
MCHandler1 == {h1}
=============================================================================
