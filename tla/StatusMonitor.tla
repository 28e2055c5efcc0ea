---------------------------- MODULE StatusMonitor ----------------------------
(***************************************************************************)
(* The goroutine that watches the game and the system (plugins/status.go), *)
(* as the plugin manager starts and pauses it.                             *)
(*                                                                         *)
(* Each Start launches a goroutine, which makes a channel, leaves it in    *)
(* the field monitorStop and listens to whatever that field holds each     *)
(* time it comes round its loop.  Pause sends to the channel the field     *)
(* holds at that time.  Call w of Start launches worker w, which makes     *)
(* channel w.  Starts come from the goroutine of Main and from that of a   *)
(* reconnection, Pauses from the error handler, one at a time.             *)
(*                                                                         *)
(* What a worker measures and announces is left out, but not that it takes *)
(* time, a command to the game among it.                                   *)
(***************************************************************************)
EXTENDS Naturals, FiniteSets

CONSTANT MonitorStarts \* bound: starts of the plugin

ASSUME MonitorAssumption == MonitorStarts \in Nat

Worker == 1..MonitorStarts
Test == 1..3            \* the commands of NeoForge, Forge and Fabric

VARIABLES knows,       \* the test the game knows, 0 if none; it never changes
          started,     \* PluginManager.started of the plugin
          runs,        \* calls of Start so far
          start,       \* where each of them is: a test, or past them
          test,        \* the next test of each
          tps,         \* ForgeTpsCommand, 0 if not set
          monitorStop, \* the channel in the field, 0 for nil
          signal,      \* channels that hold a value; their capacity is one
          worker,      \* where each worker is
          on,          \* the channel each listens to
          pausing,     \* the channel a Pause sends to, 0 if none does
          faults       \* history: which exceptions have happened

monitorVars == <<knows, started, runs, start, test, tps, monitorStop, signal, worker,
                 on, pausing, faults>>
calls == <<started, runs, start, test>>

Fault == {"early",      \* a Pause while a Start, or its worker, had not come to its channel
          "overlap",    \* a worker came round its loop after its successor had made a channel
          "unanswered"} \* a test was not answered: the game was slow, or down

MonitorTypeOK ==
  /\ knows \in Test \cup {0}
  /\ started \in BOOLEAN /\ runs \in 0..MonitorStarts
  /\ start \in [Worker -> {"none", "test", "launch", "done"}]
  /\ test \in [Worker -> Test]
  /\ tps \in Test \cup {0}
  /\ monitorStop \in Worker \cup {0}
  /\ signal \subseteq Worker
  /\ worker \in [Worker -> {"none", "new", "loop", "select", "work", "ended"}]
  /\ on \in [Worker -> Worker \cup {0}]
  /\ pausing \in Worker \cup {0}
  /\ faults \subseteq Fault

MonitorInit ==
  /\ knows \in Test \cup {0}
  /\ started = FALSE /\ runs = 0
  /\ start = [w \in Worker |-> "none"]
  /\ test = [w \in Worker |-> 1]
  /\ tps = 0
  /\ monitorStop = 0 /\ signal = {}
  /\ worker = [w \in Worker |-> "none"]
  /\ on = [w \in Worker |-> 0]
  /\ pausing = 0
  /\ faults = {}

WorkerTo(w, l) == worker' = [worker EXCEPT ![w] = l]

Alive == {w \in Worker : worker[w] \in {"loop", "select", "work"}}

-----------------------------------------------------------------------------
(* Start: the tests, if none has succeeded yet, and then the worker.       *)

StartMonitor ==
  /\ ~started
  /\ runs < MonitorStarts
  /\ started' = TRUE
  /\ runs' = runs + 1
  /\ start' = [start EXCEPT ![runs'] = IF tps = 0 THEN "test" ELSE "launch"]
  /\ UNCHANGED <<knows, test, tps, monitorStop, signal, worker, on, pausing, faults>>

(* An empty answer is not "Unknown or incomplete command" either.          *)
Unknown(w) ==
  /\ knows # test[w]
  /\ IF test[w] = 3 THEN start' = [start EXCEPT ![w] = "launch"] /\ UNCHANGED test
     ELSE test' = [test EXCEPT ![w] = @ + 1] /\ UNCHANGED start
  /\ UNCHANGED <<tps, faults>>

Answered(w) ==
  /\ tps' = test[w]
  /\ start' = [start EXCEPT ![w] = "launch"]
  /\ \/ knows = test[w] /\ UNCHANGED faults
     \/ faults' = faults \cup {"unanswered"}
  /\ UNCHANGED test

RunTest(w) ==
  /\ start[w] = "test"
  /\ Unknown(w) \/ Answered(w)
  /\ UNCHANGED <<knows, started, runs, monitorStop, signal, worker, on, pausing>>

Launch(w) ==
  /\ start[w] = "launch"
  /\ start' = [start EXCEPT ![w] = "done"]
  /\ WorkerTo(w, "new")
  /\ UNCHANGED <<knows, started, runs, test, tps, monitorStop, signal, on, pausing,
                 faults>>

-----------------------------------------------------------------------------
(* monitorWorker: of several channels that are ready select takes any.     *)

Make(w) ==
  /\ worker[w] = "new"
  /\ monitorStop' = w
  /\ WorkerTo(w, "loop")
  /\ UNCHANGED <<knows, calls, tps, signal, on, pausing, faults>>

Select(w) ==
  /\ worker[w] = "loop"
  /\ on' = [on EXCEPT ![w] = monitorStop]
  /\ WorkerTo(w, "select")
  /\ faults' = IF monitorStop = w THEN faults ELSE faults \cup {"overlap"}
  /\ UNCHANGED <<knows, calls, tps, monitorStop, signal, pausing>>

(* Without players, or a command for the game, there is nothing to do.     *)
Tick(w) ==
  /\ worker[w] = "select"
  /\ \/ WorkerTo(w, "loop") \/ WorkerTo(w, "work")
  /\ UNCHANGED <<knows, calls, tps, monitorStop, signal, on, pausing, faults>>

Measured(w) ==
  /\ worker[w] = "work"
  /\ WorkerTo(w, "loop")
  /\ UNCHANGED <<knows, calls, tps, monitorStop, signal, on, pausing, faults>>

Stopped(w) ==
  /\ worker[w] = "select"
  /\ on[w] \in signal
  /\ signal' = signal \ {on[w]}
  /\ WorkerTo(w, "ended")
  /\ UNCHANGED <<knows, calls, tps, monitorStop, on, pausing, faults>>

-----------------------------------------------------------------------------
(* Pause: with a nil channel it does nothing; the send waits while the     *)
(* channel is full.                                                        *)

Underway == \E w \in Worker : start[w] \in {"test", "launch"} \/ worker[w] = "new"

(* Mutant: the worker is not told.                                         *)
PauseSilent ==
  /\ pausing = 0
  /\ started
  /\ started' = FALSE
  /\ faults' = IF Underway THEN faults \cup {"early"} ELSE faults
  /\ UNCHANGED <<knows, runs, start, test, tps, monitorStop, signal, worker, on, pausing>>

Pause ==
  /\ pausing = 0
  /\ started
  /\ started' = FALSE
  /\ pausing' = monitorStop
  /\ faults' = IF Underway THEN faults \cup {"early"} ELSE faults
  /\ UNCHANGED <<knows, runs, start, test, tps, monitorStop, signal, worker, on>>

Send ==
  /\ pausing # 0
  /\ pausing \notin signal
  /\ signal' = signal \cup {pausing}
  /\ pausing' = 0
  /\ UNCHANGED <<knows, calls, tps, monitorStop, worker, on, faults>>

-----------------------------------------------------------------------------
WorkerStep(w) == Make(w) \/ Select(w) \/ Tick(w) \/ Measured(w) \/ Stopped(w)

MonitorNext ==
  \/ StartMonitor \/ Pause \/ Send
  \/ \E w \in Worker : RunTest(w) \/ Launch(w) \/ WorkerStep(w)

MonitorSpec == MonitorInit /\ [][MonitorNext]_monitorVars

-----------------------------------------------------------------------------
(* One worker runs while the plugin is started, and none but those that    *)
(* have been told to end while it is paused.  The exceptions: a Pause that *)
(* comes before the worker has made its channel tells nobody, or the       *)
(* worker before it; and a worker that is still busy when its successor    *)
(* makes a channel listens to that one from then on.                       *)
Running == {w \in Alive : w \notin signal}

MonitorFollows ==
  (faults \cap {"early", "overlap"} = {} /\ ~Underway /\ pausing = 0) =>
    Cardinality(Running) = IF started THEN 1 ELSE 0

(* The command the plugin remembers is one the game knows, unless a test   *)
(* was not answered.                                                       *)
TpsIsKnown == "unanswered" \notin faults => tps \in {0, knows}

(* The monitor is what its manager and the game take it for.               *)
MonitorSound == MonitorFollows /\ TpsIsKnown
=============================================================================
