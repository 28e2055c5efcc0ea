----------------------------- MODULE MCWriteLock -----------------------------
(* Two clients whose calls can overlap, for checking WriteLock.            *)
EXTENDS WriteLock

CONSTANTS c1, c2, h1, h2, nobody

MCClient == {c1, c2}
MCHandler == {h1, h2}
=============================================================================
