-------------------------- MODULE MCPluginManager --------------------------
(* For checking PluginManager: a command processor, two plugins of the     *)
(* core that depend on each other, one of which runs a command when it     *)
(* starts, and a later plugin that does so too; the same without one       *)
(* plugin of the core, and a stop or a disconnection; or a command         *)
(* processor and a plugin without commands, and both incidents.            *)
EXTENDS PluginManager

CONSTANTS cp, info, tell, home

MCPlugin == {cp, info, tell, home}
MCCommander == {info, home}

Core == {info, tell}

(* Everything but the command processor depends on the plugins of the core *)
(* there are.                                                              *)
Daemon(order, boot, stops, disconnects, failures) ==
  [order |-> order,
   boot |-> boot,
   depends |-> [p \in MCPlugin |->
                  IF p = cp THEN {}
                  ELSE {q \in Core : \E i \in 1..boot : order[i] = q}],
   incidents |-> [k \in Incident |-> CASE k = "stop" -> stops
                                       [] k = "disconnect" -> disconnects
                                       [] OTHER -> failures]]

MCDaemons == {Daemon(<<cp, info, tell, home>>, 3, 0, 0, 1),
              Daemon(<<cp, info, home>>, 2, 1, 0, 0),
              Daemon(<<cp, info, home>>, 2, 0, 1, 0),
              Daemon(<<cp, tell>>, 1, 1, 1, 0)}
=============================================================================
