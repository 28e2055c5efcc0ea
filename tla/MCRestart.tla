------------------------------ MODULE MCRestart ------------------------------
(***************************************************************************)
(* Two plugins that are started and paused with the game, and that share   *)
(* nothing else: the triggers (Scoreboard) and the monitor (StatusMonitor).*)
(* A behaviour is one of the one or one of the other; the other stays as   *)
(* it was.  Instances of Scoreboard: three triggers; two with a start of   *)
(* the plugins; two while the link breaks; one with two starts, a stop of  *)
(* the game and a broken link; and with lost answers one trigger with a    *)
(* start, two, and one with a stop, with clicks that are repeated.  What   *)
(* an earlier daemon has left in the game only matters if there is a start.*)
(***************************************************************************)
EXTENDS Scoreboard, StatusMonitor

CONSTANTS t1, t2, reader, starter

VARIABLE plugin \* which of the two this behaviour is about

MCSender == {t1, t2}
B(triggersMax, clicksMax, startsMax, stopsMax, incidents) ==
  [triggers |-> triggersMax, clicks |-> clicksMax, starts |-> startsMax, stops |-> stopsMax,
   incidents |-> incidents]
LastBound == B(1, 1, 2, 1, {"disconnect"})
MCBounds == {B(3, 1, 0, 0, {}), B(2, 0, 1, 0, {}), B(2, 1, 0, 0, {"disconnect"}),
             B(1, 1, 1, 0, Incident), B(2, 2, 0, 0, {"starve"}), B(1, 2, 0, 1, Incident),
             LastBound}

MCInit == /\ plugin \in {"board", "monitor"}
          /\ Init /\ MonitorInit
          /\ plugin = "monitor" => bound = LastBound
          /\ bound.starts = 0 \/ plugin = "monitor" => objective = {} /\ ~board

MCNext == /\ UNCHANGED plugin
          /\ \/ plugin = "board" /\ Next /\ UNCHANGED monitorVars
             \/ plugin = "monitor" /\ MonitorNext /\ UNCHANGED vars

MCSpec == MCInit /\ [][MCNext]_<<plugin, vars, monitorVars>>

(* The monitor has no liveness property.                                   *)
FairMCSpec == MCSpec /\ Fairness
=============================================================================
