----------------------------- MODULE MCLogForward -----------------------------
(* One daemon, whose connection breaks once, for checking LogForward: with *)
(* three lines and the streams of one reconnection, or one line and a      *)
(* third stream, opened beside one that works.                             *)
EXTENDS LogForward

CONSTANT d1

MCDaemon == {d1}
MCBounds == {<<3, 2>>, <<1, 3>>}
=============================================================================
