------------------------------ MODULE MCRollback ------------------------------
(***************************************************************************)
(* Instances of Rollback: two requests to roll the world back, or one of   *)
(* each kind, that collide, with one goroutine that confirms and cancels;  *)
(* and one request of either kind with a countdown of two, two such        *)
(* goroutines and all incidents that matter to it (backups do not share a  *)
(* lock with the rollback of a player).                                    *)
(***************************************************************************)
EXTENDS Rollback

CONSTANTS r1, r2, h1, h2

MCRequest == {r1, r2}
MCHandler == {h1, h2}

Instance(w, p, h, c, i) ==
  [world |-> w, playerdata |-> p, handlers |-> h, countdown |-> c, incidents |-> i]

MCBounds == {Instance({r1, r2}, {}, {h1}, 1, {}), Instance({r1}, {r2}, {h1}, 1, {}),
             Instance({r1}, {}, MCHandler, 2, Incident),
             Instance({}, {r1}, MCHandler, 2, Incident \ {"backup"})}

(* For the rollback that is cancelled too late.                            *)
CancelBounds == {Instance({r1}, {r2}, {h1}, 1, {})}
=============================================================================
