------------------------------- MODULE MCBackup -------------------------------
(* Two goroutines that make backups of the world, of which two are kept,   *)
(* with a rollback, or with a list of pages of two entries; or versions of *)
(* the data of the player, for checking Backup.                            *)
EXTENDS Backup, TLC

CONSTANTS m1, m2

MCMaker == {m1, m2}
MCBounds ==
  {[makes |-> 4, lists |-> 0, rollbacks |-> 1, changes |-> 0],
   [makes |-> 4, lists |-> 1, rollbacks |-> 0, changes |-> 0],
   [makes |-> 0, lists |-> 0, rollbacks |-> 0, changes |-> 3]}
Symmetry == Permutations(MCMaker)
=============================================================================
