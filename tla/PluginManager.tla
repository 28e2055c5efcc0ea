---------------------------- MODULE PluginManager ----------------------------
(***************************************************************************)
(* The plugins of a daemon (core/core.go, main.go): who initialises,       *)
(* starts and pauses them, and when.                                       *)
(*                                                                         *)
(* Three kinds of goroutine walk over the same map of plugins:             *)
(*    Main      registers the plugins one after the other (initPlugin      *)
(*              those of the core, then createGameManager the others) and  *)
(*              between the two launches the first StartMinecraft;         *)
(*    Starter   a call of StartMinecraft: waits until the game answers,    *)
(*              then starts every plugin.  There is one per connection;    *)
(*    Handler   errorHandler: pauses every plugin when the game stops or   *)
(*              the connection breaks.                                     *)
(* They share the map under pluginLock, but the flags of a plugin and the  *)
(* state of the game without any lock.  Starting a plugin may run a        *)
(* command and so wait for the game.  No Init of this repository fails,    *)
(* and no plugin is registered twice: these two error paths are left out.  *)
(***************************************************************************)
EXTENDS Naturals, Sequences

CONSTANTS Plugin,
          Commander,    \* plugins whose Start waits for a command
          Processor,    \* the command processor, itself a plugin
          Starter,      \* the calls of StartMinecraft
          First,        \* the one initManager makes
          Main, Handler,
          NoPlugin,     \* nil
          Daemons       \* the daemons looked at, each with
                        \*   order      the plugins as Main registers them
                        \*   boot       how many of them initPlugin registers
                        \*   depends    what Depends() of each returns
                        \*   incidents  bound: how often of each Incident

Incident == {"stop", "disconnect", "failure"}

Thread == Starter \cup {Main, Handler}

ASSUME PluginAssumption == /\ Processor \in Plugin \ Commander
                           /\ NoPlugin \notin Plugin
                           /\ Commander \subseteq Plugin
(* No plugin is registered twice, and plugins depend on none but those of  *)
(* the core.                                                               *)
ASSUME DaemonAssumption ==
  \A d \in Daemons :
    /\ d.order \in Seq(Plugin)
    /\ \A i \in 1..Len(d.order) : \A j \in 1..Len(d.order) :
         d.order[i] = d.order[j] => i = j
    /\ d.depends \in [Plugin -> SUBSET Plugin]
    /\ d.boot \in 1..Len(d.order)
    /\ \A i \in 1..Len(d.order) :
         d.depends[d.order[i]] \subseteq {d.order[j] : j \in 1..d.boot}
    /\ d.incidents \in [Incident -> Nat]
ASSUME ThreadAssumption == /\ First \in Starter
                           /\ {Main, Handler} \cap Starter = {}
                           /\ Main # Handler

VARIABLES registered, \* the keys of mpm.plugins
          inited, started, \* the flags of each PluginManager
          running,    \* mpm.minecraftState: false at first, then true
          pc,         \* where each goroutine is
          at,         \* the plugin it is working on
          todo,       \* the plugins its loop over the map has yet to visit
          readers,    \* goroutines that hold pluginLock for reading
          count,      \* how many plugins Main has registered
          queue,      \* goroutines that wait in RunCommand, in order
          command,    \* the first of them: not yet "written", the answer
                      \* "owed" by the game, or "lost"
          gameUp,     \* does the game run
          link,       \* the connection: "up", "broken", or "out" when
                      \* errorHandler has reset ClientInfo
          streams,    \* how many message streams feed this daemon
          bus,        \* stops the manager keeps for the next stream
          errBus,     \* errors sent, or being sent, to errBus
          handling,   \* the error errorHandler deals with, or dealt with last
          panicked,   \* a nil dereference has killed the daemon
          incidents,  \* how often the game stopped, the connection broke, a
                      \* StartMinecraft failed
          daemon      \* the daemon, which never changes

vars == <<registered, inited, started, running, pc, at, todo, readers, count,
          queue, command, gameUp, link, streams, bus, errBus, handling, panicked,
          incidents, daemon>>

flags == <<registered, inited, started, running, count>>
walk == <<at, todo, readers>>
world == <<gameUp, link, streams, bus, errBus, panicked, incidents>>
commands == <<queue, command>>

Order == daemon.order
Boot == daemon.boot
Depends == daemon.depends

BootPlugins == {Order[i] : i \in 1..Boot}

PC == {"off", "login", "status", "start", "ready", "rlock", "pick", "set",
       "run", "next", "lock", "init", "state", "wait", "done",
       "hung"}

TypeOK ==
  /\ registered \in SUBSET Plugin
  /\ inited \in [Plugin -> BOOLEAN]
  /\ started \in [Plugin -> BOOLEAN]
  /\ running \in BOOLEAN
  /\ pc \in [Thread -> PC]
  /\ at \in [Thread -> Plugin \cup {NoPlugin}]
  /\ todo \in [Thread -> SUBSET Plugin]
  /\ readers \in SUBSET Thread
  /\ \A t \in readers : pc[t] \in {"pick", "set", "run", "init", "state"}
  /\ \A t \in Thread :
       at[t] # NoPlugin <=> pc[t] \in {"set", "run", "init", "state"}
  /\ count \in 0..Len(Order)
  /\ queue \in Seq(Thread)
  /\ command \in {"none", "owed", "lost"}
  /\ gameUp \in BOOLEAN
  /\ link \in {"up", "broken", "out"}
  /\ streams \in Nat
  /\ bus \in Nat
  /\ errBus \in [{"stop", "disconnect"} -> Nat]
  /\ handling \in {"none", "stop", "disconnect"}
  /\ panicked \in BOOLEAN
  /\ incidents \in [Incident -> Nat]
  /\ \A k \in Incident : incidents[k] <= daemon.incidents[k]
  /\ daemon \in Daemons

Init ==
  /\ registered = {}
  /\ inited = [p \in Plugin |-> FALSE]
  /\ started = [p \in Plugin |-> FALSE]
  /\ running = FALSE
  /\ pc = [t \in Thread |-> CASE t = Main -> "next" [] t = Handler -> "wait"
                              [] OTHER -> "off"]
  /\ at = [t \in Thread |-> NoPlugin]
  /\ todo = [t \in Thread |-> {}]
  /\ readers = {}
  /\ count = 0
  /\ queue = <<>>
  /\ command = "none"
  /\ gameUp \in BOOLEAN
  /\ link = "up"
  /\ streams = 1
  /\ bus = 0
  /\ errBus = [e \in {"stop", "disconnect"} |-> 0]
  /\ handling = "none"
  /\ panicked = FALSE
  /\ incidents = [k \in Incident |-> 0]
  /\ daemon \in Daemons

Happens(k) == /\ incidents[k] < daemon.incidents[k]
              /\ incidents' = [incidents EXCEPT ![k] = @ + 1]

Goto(t, l) == pc' = [pc EXCEPT ![t] = l]

Waiting(t) == \E i \in 1..Len(queue) : queue[i] = t

-----------------------------------------------------------------------------
(* pluginLock: Main alone takes it for writing, and while it waits for the *)
(* readers to go no new reader gets in.                                    *)

RLock(t) ==
  /\ pc[t] = "rlock"
  /\ pc[Main] # "lock"
  /\ readers' = readers \cup {t}
  /\ todo' = [todo EXCEPT ![t] = registered]
  /\ Goto(t, "pick")
  /\ UNCHANGED <<flags, at, commands, world, handling>>

-----------------------------------------------------------------------------
(* Done with the plugin t is at: on with its loop over the map.  Main may  *)
(* only be on its way to the loop of initDependsSatisfiedPlugins.          *)
Proceed(t) == /\ Goto(t, IF t \in readers THEN "pick" ELSE "rlock")
              /\ at' = [at EXCEPT ![t] = NoPlugin]

(* PluginManager.Start of the plugin t is at: the flag is read in one step *)
(* and set in another; then the plugin's own Start runs.  It runs its      *)
(* command through what Init (early on) stores: before that, a nil.        *)
StartSet(t) ==
  /\ t # Handler
  /\ pc[t] = "set"
  /\ started' = [started EXCEPT ![at[t]] = TRUE]
  /\ \/ /\ at[t] \in Commander
        /\ inited[at[t]] \/ at[t] = at[Main]
        /\ queue' = Append(queue, t)
        /\ Goto(t, "run")
        /\ UNCHANGED <<at, panicked>>
     \/ /\ at[t] \in Commander
        /\ ~inited[at[t]]
        /\ panicked' = TRUE
        /\ UNCHANGED <<pc, at, queue>>
     \/ /\ at[t] \notin Commander
        /\ Proceed(t)
        /\ UNCHANGED <<queue, panicked>>
  /\ UNCHANGED <<registered, inited, running, count, todo, readers, command,
                 gameUp, link, streams, bus, errBus, incidents, handling>>

StartReturns(t) ==
  /\ t # Handler
  /\ pc[t] = "run"
  /\ ~Waiting(t)
  /\ Proceed(t)
  /\ UNCHANGED <<flags, todo, readers, commands, world, handling>>

-----------------------------------------------------------------------------
(* Main: RegisterPlugin for one plugin after the other.                    *)

(* checkDepends                                                            *)
Satisfied(p) == Depends[p] \subseteq registered

AskLock ==
  /\ pc[Main] = "next"
  /\ Goto(Main, "lock")
  /\ UNCHANGED <<flags, walk, commands, world, handling>>

(* The plugin enters the map, and is initialised if its dependencies are   *)
(* there.                                                                  *)
Register ==
  /\ pc[Main] = "lock"
  /\ readers = {}
  /\ LET p == Order[count + 1] IN
       /\ registered' = registered \cup {p}
       /\ \/ /\ Depends[p] \subseteq registered'
             /\ Goto(Main, "init")
             /\ at' = [at EXCEPT ![Main] = p]
          \/ /\ ~(Depends[p] \subseteq registered')
             /\ Goto(Main, "rlock")
             /\ UNCHANGED at
  /\ count' = count + 1
  /\ UNCHANGED <<inited, started, running, todo, readers, commands, world,
                 handling>>

(* PluginManager.Init: the plugin's own Init, then the flag ...            *)
InitPlugin ==
  /\ pc[Main] = "init"
  /\ inited' = [inited EXCEPT ![at[Main]] = TRUE]
  /\ Goto(Main, "state")
  /\ UNCHANGED <<registered, started, running, count, walk, commands, world,
                 handling>>

(* Mutant: a plugin that is late is left to the next StartMinecraft.       *)
InitDoesNotStart ==
  /\ pc[Main] = "state"
  /\ Proceed(Main)
  /\ UNCHANGED <<flags, todo, readers, commands, world, handling>>

(* ... then, when the game is known to run, Start at once.                 *)
InitStarts ==
  /\ pc[Main] = "state"
  /\ \/ running /\ ~started[at[Main]] /\ Goto(Main, "set") /\ UNCHANGED at
     \/ (~running \/ started[at[Main]]) /\ Proceed(Main)
  /\ UNCHANGED <<flags, todo, readers, commands, world, handling>>

(* Mutant: the loop returns at a plugin that is initialised already.       *)
InitNextReturns(p) ==
  /\ pc[Main] = "pick"
  /\ p \in todo[Main]
  /\ todo' = [todo EXCEPT ![Main] = IF inited[p] THEN {} ELSE @ \ {p}]
  /\ \/ /\ ~inited[p] /\ Satisfied(p)
        /\ at' = [at EXCEPT ![Main] = p]
        /\ Goto(Main, "init")
     \/ /\ inited[p] \/ ~Satisfied(p)
        /\ UNCHANGED <<at, pc>>
  /\ UNCHANGED <<flags, readers, commands, world, handling>>

(* initDependsSatisfiedPlugins: the delayed Init of whatever is waiting.   *)
InitNext(p) ==
  /\ pc[Main] = "pick"
  /\ p \in todo[Main]
  /\ todo' = [todo EXCEPT ![Main] = @ \ {p}]
  /\ \/ /\ ~inited[p] /\ Satisfied(p)
        /\ at' = [at EXCEPT ![Main] = p]
        /\ Goto(Main, "init")
     \/ /\ inited[p] \/ ~Satisfied(p)
        /\ UNCHANGED <<at, pc>>
  /\ UNCHANGED <<flags, readers, commands, world, handling>>

(* Mutant: initDependsSatisfiedPlugins returns with its RLock.             *)
RegisteredKeepsRLock ==
  /\ pc[Main] = "pick"
  /\ todo[Main] = {}
  /\ pc' = [pc EXCEPT ![Main] = IF count = Len(Order) THEN "done" ELSE "next",
                      ![First] = IF count = Boot THEN "status" ELSE @]
  /\ UNCHANGED <<flags, walk, commands, world, handling>>

(* The end of RegisterPlugin.  After the plugins of the core initManager   *)
(* launches StartMinecraft.                                                *)
Registered ==
  /\ pc[Main] = "pick"
  /\ todo[Main] = {}
  /\ readers' = readers \ {Main}
  /\ pc' = [pc EXCEPT ![Main] = IF count = Len(Order) THEN "done" ELSE "next",
                      ![First] = IF count = Boot THEN "status" ELSE @]
  /\ UNCHANGED <<flags, at, todo, commands, world, handling>>

-----------------------------------------------------------------------------
(* Starters.  The first gives up when it fails; the others, which the      *)
(* error handler launches, log in again and retry.                         *)

GiveUp(s) == Goto(s, IF s = First THEN "done" ELSE "login")

(* initClient: a new client id and a further message stream, which gets    *)
(* what the manager has kept.                                              *)
Login(s) ==
  /\ pc[s] = "login"
  /\ link' = "up"
  /\ streams' = streams + 1
  /\ errBus' = [errBus EXCEPT !["stop"] = @ + bus]
  /\ bus' = 0
  /\ Goto(s, "status")
  /\ UNCHANGED <<flags, walk, commands, gameUp, panicked, incidents, handling>>

(* The command testServerReady.  The queue is nil before the Init of the   *)
(* command processor, and sending to it blocks for ever.                   *)
TestServerReady(s) ==
  \/ inited[Processor] /\ Goto(s, "ready") /\ queue' = Append(queue, s)
  \/ ~inited[Processor] /\ Goto(s, "hung") /\ UNCHANGED queue

(* The game runs: test whether it is ready.  It does not: start it.        *)
Status(s) ==
  /\ pc[s] = "status"
  /\ link # "out"
  /\ \/ gameUp /\ TestServerReady(s)
     \/ ~gameUp /\ Goto(s, "start") /\ UNCHANGED queue
  /\ UNCHANGED <<flags, walk, command, world, handling>>

StartGame(s) ==
  /\ pc[s] = "start"
  /\ link # "out"
  /\ ~gameUp
  /\ gameUp' = TRUE
  /\ TestServerReady(s)
  /\ UNCHANGED <<flags, walk, command, link, streams, bus, errBus, panicked,
                 incidents, handling>>

(* Status or Start fails: no client id, no connection, a game that another *)
(* starter has started meanwhile, or a script that cannot be run.          *)
StarterFails(s) ==
  /\ pc[s] \in {"status", "start"}
  /\ \/ link = "out" /\ UNCHANGED incidents
     \/ pc[s] = "start" /\ gameUp /\ UNCHANGED incidents
     \/ Happens("failure")
  /\ GiveUp(s)
  /\ UNCHANGED <<flags, walk, commands, gameUp, link, streams, bus, errBus,
                 panicked, handling>>

(* testServerReady has returned, with an answer or without.                *)
Ready(s) ==
  /\ pc[s] = "ready"
  /\ ~Waiting(s)
  /\ running' = TRUE
  /\ Goto(s, "rlock")
  /\ UNCHANGED <<registered, inited, started, count, walk, commands, world,
                 handling>>

(* pluginStart                                                             *)
StartNext(s, p) ==
  /\ pc[s] = "pick"
  /\ p \in todo[s]
  /\ todo' = [todo EXCEPT ![s] = @ \ {p}]
  /\ \/ started[p] /\ UNCHANGED <<at, pc>>
     \/ ~started[p] /\ at' = [at EXCEPT ![s] = p] /\ Goto(s, "set")
  /\ UNCHANGED <<flags, readers, commands, world, handling>>

(* Mutant: pluginStart returns with its RLock.                             *)
StartedAllKeepsRLock(s) ==
  /\ pc[s] = "pick"
  /\ todo[s] = {}
  /\ Goto(s, "done")
  /\ UNCHANGED <<flags, walk, commands, world, handling>>

StartedAll(s) ==
  /\ pc[s] = "pick"
  /\ todo[s] = {}
  /\ readers' = readers \ {s}
  /\ Goto(s, "done")
  /\ UNCHANGED <<flags, at, todo, commands, world, handling>>

-----------------------------------------------------------------------------
(* errorHandler.                                                           *)

TakeError(e) ==
  /\ pc[Handler] = "wait"
  /\ errBus[e] > 0
  /\ errBus' = [errBus EXCEPT ![e] = @ - 1]
  /\ handling' = e
  /\ link' = IF e = "disconnect" THEN "out" ELSE link
  /\ Goto(Handler, "rlock")
  /\ UNCHANGED <<flags, walk, commands, gameUp, streams, bus, panicked,
                 incidents>>

(* pluginPause                                                             *)
PauseNext(p) ==
  /\ pc[Handler] = "pick"
  /\ p \in todo[Handler]
  /\ todo' = [todo EXCEPT ![Handler] = @ \ {p}]
  /\ \/ ~started[p] /\ UNCHANGED <<at, pc>>
     \/ started[p] /\ at' = [at EXCEPT ![Handler] = p] /\ Goto(Handler, "set")
  /\ UNCHANGED <<flags, readers, commands, world, handling>>

PauseSet ==
  /\ pc[Handler] = "set"
  /\ started' = [started EXCEPT ![at[Handler]] = FALSE]
  /\ \/ at[Handler] = Processor /\ Goto(Handler, "run") /\ UNCHANGED at
     \/ at[Handler] # Processor /\ Proceed(Handler)
  /\ UNCHANGED <<registered, inited, running, count, todo, readers, commands,
                 world, handling>>

(* Pause of the command processor ends the command that waits for its      *)
(* answer, if there is one.  (That it may itself hang is the subject of    *)
(* module CommandProcessor.)                                               *)
PauseProcessor ==
  /\ pc[Handler] = "run"
  /\ \/ /\ command # "none"
        /\ queue' = Tail(queue)
        /\ command' = "none"
     \/ command = "none" /\ UNCHANGED commands
  /\ Proceed(Handler)
  /\ UNCHANGED <<flags, todo, readers, world, handling>>

(* After a disconnection a goroutine reconnects and calls StartMinecraft.  *)
PausedAll ==
  /\ pc[Handler] = "pick"
  /\ todo[Handler] = {}
  /\ readers' = readers \ {Handler}
  /\ \/ handling = "stop" /\ Goto(Handler, "wait")
     \/ /\ handling = "disconnect"
        /\ \E s \in Starter \ {First} :
             /\ pc[s] = "off"
             /\ pc' = [pc EXCEPT ![Handler] = "wait", ![s] = "login"]
  /\ UNCHANGED <<flags, at, todo, commands, world, handling>>

-----------------------------------------------------------------------------
(* The command processor and the game, as far as they matter here.  Only   *)
(* commands that wait for a certain answer are modelled: the others end by *)
(* themselves.                                                             *)

(* Lock and Write.  Over a connection that breaks just now Lock may still  *)
(* have been granted.                                                      *)
WriteCommand ==
  /\ command = "none"
  /\ queue # <<>>
  /\ link # "out"
  /\ command' = IF gameUp /\ link = "up" THEN "owed" ELSE "lost"
  /\ UNCHANGED <<flags, pc, walk, queue, world, handling>>

(* Lock fails, and the command is answered at once, with nothing.          *)
FailCommand ==
  /\ command = "none"
  /\ queue # <<>>
  /\ link # "up"
  /\ queue' = Tail(queue)
  /\ UNCHANGED <<flags, pc, walk, command, world, handling>>

AnswerCommand ==
  /\ command = "owed"
  /\ command' = "none"
  /\ queue' = Tail(queue)
  /\ UNCHANGED <<flags, pc, walk, world, handling>>

Lose == command' = IF command = "owed" THEN "lost" ELSE command

(* A stream that is already dead may swallow the message.                  *)
GameStop ==
  /\ gameUp
  /\ Happens("stop")
  /\ gameUp' = FALSE
  /\ \/ /\ streams > 0
        /\ errBus' = [errBus EXCEPT !["stop"] = @ + 1]
        /\ UNCHANGED bus
     \/ streams = 0 /\ bus' \in {bus, bus + 1} /\ UNCHANGED errBus
  /\ Lose
  /\ UNCHANGED <<flags, pc, walk, queue, link, streams, panicked, handling>>

(* Every stream ends, and each reports it.                                 *)
Disconnect ==
  /\ link = "up"
  /\ Happens("disconnect")
  /\ link' = "broken"
  /\ streams' = 0
  /\ errBus' = [errBus EXCEPT !["disconnect"] = @ + streams]
  /\ Lose
  /\ UNCHANGED <<flags, pc, walk, queue, gameUp, bus, panicked, handling>>

-----------------------------------------------------------------------------
MainStep ==
  \/ AskLock \/ Register \/ InitPlugin \/ InitStarts \/ Registered
  \/ RLock(Main) \/ StartSet(Main) \/ StartReturns(Main)
  \/ \E p \in Plugin : InitNext(p)

StarterStep(s) ==
  \/ Login(s) \/ Status(s) \/ StartGame(s) \/ StarterFails(s) \/ Ready(s)
  \/ RLock(s) \/ StartSet(s) \/ StartReturns(s) \/ StartedAll(s)
  \/ \E p \in Plugin : StartNext(s, p)

HandlerStep ==
  \/ \E e \in {"stop", "disconnect"} : TakeError(e)
  \/ RLock(Handler) \/ PauseSet \/ PauseProcessor \/ PausedAll
  \/ \E p \in Plugin : PauseNext(p)

Worker == WriteCommand \/ FailCommand \/ AnswerCommand

Alive == ~panicked /\ UNCHANGED daemon

Next ==
  /\ Alive
  /\ \/ MainStep
     \/ \E s \in Starter : StarterStep(s)
     \/ HandlerStep
     \/ Worker
     \/ GameStop \/ Disconnect

Spec == Init /\ [][Next]_vars

(* Goroutines run, RWMutex lets a waiting reader or writer in, the Worker  *)
(* takes the next command, and a running game answers.                     *)
Fairness ==
  /\ WF_vars(Alive /\ MainStep)
  /\ \A s \in Starter : WF_vars(Alive /\ StarterStep(s))
  /\ WF_vars(Alive /\ HandlerStep)
  /\ WF_vars(Alive /\ Worker)

FairSpec == Spec /\ Fairness

-----------------------------------------------------------------------------
(* No plugin is initialised before all plugins it depends on can be found. *)
InitAfterDepends ==
  /\ pc[Main] = "init" => Satisfied(at[Main])
  /\ \A p \in Plugin : inited[p] => Satisfied(p)

(* Delayed initialisation forgets nobody, whatever the order of            *)
(* registration and however the dependencies cycle: between two calls of   *)
(* RegisterPlugin every plugin that can be initialised is.                 *)
DelayedInit ==
  pc[Main] \in {"next", "lock", "done"} =>
    \A p \in registered : Satisfied(p) => inited[p]

(* Neither errorHandler nor Main ever starts a plugin of the core before   *)
(* its Init, however fast the game answers; nor does StartMinecraft, unless *)
(* the connection broke while initPlugin was at work and was back so soon  *)
(* that a second StartMinecraft runs.                                      *)
CoreInitialisedFirst ==
  \A p \in BootPlugins :
    (started[p] \/ \E t \in Thread : at[t] = p /\ pc[t] = "set") =>
      inited[p] \/ \E s \in Starter \ {First} : pc[s] # "off"

(* The daemon dies of a premature Start only while StartMinecraft overtakes *)
(* Main: once everything is registered nothing of the kind can happen, even *)
(* to plugins whose Init had to wait for others.                           *)
PanicIsEarly == panicked => pc[Main] # "done"

(* Plugins start in a sound order, however fast the game answers.          *)
StartupOrder ==
  InitAfterDepends /\ DelayedInit /\ CoreInitialisedFirst /\ PanicIsEarly

Quiet == /\ pc[Main] = "done"
         /\ pc[Handler] = "wait"
         /\ \A s \in Starter : pc[s] \in {"off", "done", "hung"}
         /\ \A e \in {"stop", "disconnect"} : errBus[e] = 0

(* No plugin is missed: registered before, during or after the loop of a   *)
(* StartMinecraft, with the game becoming ready at any moment, in the end  *)
(* it is started, and after a reconnection started again.                  *)
NobodyMissed ==
  Quiet /\ running /\ handling # "stop" =>
    \A i \in 1..Len(Order) : started[Order[i]]

(* Main waits for a starter to leave the map, errorHandler behind Main,    *)
(* and the starter for an answer that only errorHandler could spare it.    *)
LockCycle == /\ pc[Main] = "lock"
             /\ pc[Handler] = "rlock"
             /\ command = "lost"
             /\ \E t \in readers : Waiting(t)

(* errorHandler deals with every error, except in this cycle.              *)
HandlerReturns ==
  (pc[Handler] # "wait") ~> (pc[Handler] = "wait" \/ LockCycle \/ panicked)

(* A command hangs whose answer is lost, and errorHandler, which alone     *)
(* could end it, has nothing left to do or cannot go on.                   *)
Hung == /\ command = "lost"
        /\ \/ /\ pc[Handler] = "wait"
              /\ \A e \in {"stop", "disconnect"} : errBus[e] = 0
           \/ LockCycle

(* Registration, starts and pauses all come to an end, with the link up or *)
(* out, unless a command hangs which no pause will end.                    *)
ComesToRest == []<>(Quiet \/ Hung \/ panicked)

(* Every error of the game or the connection is worked off, and what it    *)
(* sets in motion ends.                                                    *)
ErrorsAreHandled == HandlerReturns /\ ComesToRest
=============================================================================
