------------------------- MODULE PluginManagerProofs -------------------------
(***************************************************************************)
(* Proofs about the plugin manager, for any plugins, order and dependency  *)
(* of theirs, any number of starters and of incidents.                     *)
(***************************************************************************)
EXTENDS PluginManager, TLAPS

(* What has been registered, and how far Main can be with it.  It launches *)
(* the first starter when all of the core is.                              *)
Counted ==
  /\ registered = {Order[i] : i \in 1..count}
  /\ pc[Main] \in {"next", "lock"} => count < Len(Order)
  /\ pc[Main] = "done" => count = Len(Order)
  /\ pc[First] # "off" => \/ count > Boot
                          \/ count = Boot /\ pc[Main] \in {"next", "lock", "done"}

Queued == command # "none" => queue # <<>>

(* Nobody is at a plugin, or has one to visit, that is not registered.     *)
Visits ==
  \A t \in Thread : /\ at[t] # NoPlugin => at[t] \in registered
                    /\ todo[t] \subseteq registered

(* Where Main and errorHandler can be.                                     *)
MainAt ==
  /\ pc[Main] \in {"next", "lock", "init", "state", "set", "run", "rlock",
                   "pick", "done"}
  /\ pc[Main] \in {"next", "lock", "rlock", "done"} => Main \notin readers
  /\ pc[Main] = "pick" => Main \in readers
  /\ pc[Main] \in {"state", "set", "run"} => inited[at[Main]]
  /\ pc[Main] = "init" => Satisfied(at[Main])

HandlerAt ==
  /\ pc[Handler] \in {"wait", "rlock", "pick", "set", "run"}
  /\ pc[Handler] # "wait" => handling # "none"

(* The game is found ready through the command processor only.             *)
ReadyKnows ==
  /\ running => inited[Processor]
  /\ \A s \in Starter : pc[s] = "ready" => inited[Processor]

InitsSound == \A p \in Plugin : inited[p] => p \in registered /\ Satisfied(p)

(* From its loop over the map until it asks for the next plugin, Main has  *)
(* initialised what can be, or will in this loop.                          *)
InitsComplete ==
  Main \in readers \/ pc[Main] \in {"next", "lock", "done"} =>
    \A p \in registered :
      \/ ~Satisfied(p)
      \/ inited[p]
      \/ Main \in readers /\ p \in todo[Main]
      \/ Main \in readers /\ pc[Main] = "init" /\ at[Main] = p

(* The first StartMinecraft is launched when the core is initialised.      *)
CoreFirst ==
  /\ pc[First] # "off" => \A p \in BootPlugins : inited[p]
  /\ CoreInitialisedFirst

(* A starter that is going to start plugin p, or to find it started.  The  *)
(* first one may still give up as long as it does not know of the game.    *)
Will(s, p) ==
  \/ s # First /\ pc[s] \in {"login", "status", "start"}
  \/ pc[s] \in {"ready", "rlock"}
  \/ pc[s] \in {"pick", "set", "run"} /\ p \in todo[s]
  \/ pc[s] = "set" /\ at[s] = p

(* While the game is known to run, every plugin is started, or Main will   *)
(* start it when it is initialised, or errorHandler will launch a starter, *)
(* or there is one at work.                                                *)
Attended ==
  running /\ handling # "stop" =>
    \A p \in {Order[i] : i \in 1..Len(Order)} :
      \/ started[p]
      \/ ~inited[p] \/ (at[Main] = p /\ pc[Main] \in {"state", "set"})
      \/ handling = "disconnect" /\ pc[Handler] # "wait"
      \/ \E s \in Starter : Will(s, p)

Places == Counted /\ Queued /\ Visits /\ MainAt /\ HandlerAt /\ ReadyKnows

Inits == InitsSound /\ InitsComplete /\ CoreFirst /\ PanicIsEarly

IInv == TypeOK /\ Places /\ Inits /\ Attended

-----------------------------------------------------------------------------
(* The order of registration, as the proofs use it.                        *)
LEMMA DaemonFacts ==
  ASSUME daemon \in Daemons
  PROVE  /\ Order \in Seq(Plugin) /\ Len(Order) \in Nat
         /\ Boot \in 1..Len(Order)
         /\ BootPlugins \subseteq Plugin
         /\ \A i \in 1..Len(Order) : Order[i] \in Plugin
         /\ \A i \in 1..Len(Order) : Depends[Order[i]] \subseteq BootPlugins
  BY DaemonAssumption DEF Order, Boot, Depends, BootPlugins

(* Once the core is registered nothing is missing that a plugin depends on. *)
LEMMA CoreRegistered ==
  ASSUME daemon \in Daemons, count \in 0..Len(Order), Counted, Boot <= count
  PROVE  /\ BootPlugins \subseteq registered
         /\ \A p \in registered : Satisfied(p)
  <1>1. BootPlugins \subseteq registered
    BY DaemonFacts DEF BootPlugins, Counted
  <1>2. ASSUME NEW p \in registered PROVE Satisfied(p)
    <2>1. PICK i \in 1..Len(Order) : p = Order[i]
      BY <1>2, DaemonFacts DEF Counted
    <2>2. Depends[p] \subseteq BootPlugins
      BY <2>1, DaemonFacts
    <2> QED
      BY <1>1, <2>2 DEF Satisfied
  <1> QED
    BY <1>1, <1>2

LEMMA HappensTyped ==
  ASSUME TypeOK, UNCHANGED daemon, NEW k \in Incident, Happens(k)
  PROVE  /\ incidents' \in [Incident -> Nat]
         /\ \A i \in Incident : incidents'[i] <= daemon'.incidents[i]
  <1>1. daemon.incidents \in [Incident -> Nat]
    BY DaemonAssumption DEF TypeOK
  <1>2. incidents[k] + 1 \in Nat /\ incidents[k] + 1 <= daemon.incidents[k]
    BY <1>1 DEF Happens, TypeOK
  <1> QED
    BY <1>1, <1>2 DEF Happens, TypeOK

LEMMA QueueTyped ==
  ASSUME TypeOK
  PROVE  /\ \A t \in Thread : Append(queue, t) \in Seq(Thread)
         /\ queue # <<>> => Tail(queue) \in Seq(Thread)
  BY DEF TypeOK

(* Frames: what keeps CoreFirst and Attended.                              *)
LEMMA CoreFirstStays ==
  ASSUME CoreFirst, UNCHANGED <<daemon, inited>>,
         pc[First] = "off" => pc'[First] = "off",
         \A s \in Starter : pc[s] # "off" => pc'[s] # "off",
         \A p \in Plugin : started'[p] => started[p],
         \A t \in Thread : pc'[t] = "set" => pc[t] = "set" /\ at'[t] = at[t],
         BootPlugins \subseteq Plugin
  PROVE  CoreFirst'
  <1>1. BootPlugins' = BootPlugins
    BY DEF BootPlugins, Order, Boot
  <1>2. pc'[First] # "off" => \A p \in BootPlugins' : inited'[p]
    BY <1>1 DEF CoreFirst
  <1>3. CoreInitialisedFirst'
    <2> SUFFICES ASSUME NEW p \in BootPlugins,
                        started'[p] \/ \E t \in Thread : at'[t] = p /\ pc'[t] = "set"
                 PROVE  inited[p] \/ \E s \in Starter \ {First} : pc'[s] # "off"
      BY <1>1 DEF CoreInitialisedFirst
    <2>1. started[p] \/ \E t \in Thread : at[t] = p /\ pc[t] = "set"
      OBVIOUS
    <2>2. inited[p] \/ \E s \in Starter \ {First} : pc[s] # "off"
      BY <2>1 DEF CoreFirst, CoreInitialisedFirst
    <2> QED
      BY <2>2
  <1> QED
    BY <1>2, <1>3 DEF CoreFirst

LEMMA AttendedStays ==
  ASSUME Attended, UNCHANGED <<daemon, running, handling, inited>>,
         pc[Handler] # "wait" => pc'[Handler] # "wait",
         \A p \in Plugin : started[p] => started'[p],
         \A p \in Plugin :
           /\ at[Main] = p /\ pc[Main] \in {"state", "set"}
           => started'[p] \/ (at'[Main] = p /\ pc'[Main] \in {"state", "set"}),
         \A p \in Plugin : \A s \in Starter :
           Will(s, p) => started'[p] \/ ~inited[p] \/ Will(s, p)',
         \A i \in 1..Len(Order) : Order[i] \in Plugin
  PROVE  Attended'
  <1>1. Order' = Order
    BY DEF Order
  <1> SUFFICES ASSUME running, handling # "stop",
                      NEW p \in {Order[i] : i \in 1..Len(Order)}
               PROVE  \/ started'[p]
                      \/ ~inited[p]
                      \/ at'[Main] = p /\ pc'[Main] \in {"state", "set"}
                      \/ handling = "disconnect" /\ pc'[Handler] # "wait"
                      \/ \E s \in Starter : Will(s, p)'
    BY <1>1 DEF Attended
  <1>2. \/ started[p]
        \/ ~inited[p]
        \/ at[Main] = p /\ pc[Main] \in {"state", "set"}
        \/ handling = "disconnect" /\ pc[Handler] # "wait"
        \/ \E s \in Starter : Will(s, p)
    BY DEF Attended
  <1>3. p \in Plugin
    OBVIOUS
  <1> QED
    BY <1>2, <1>3

LEMMA InitInvariant == Init => IInv
  <1> SUFFICES ASSUME Init PROVE IInv
    OBVIOUS
  <1> USE ThreadAssumption, PluginAssumption DEF Init, Thread
  <1>1. TypeOK
    <2>1. /\ pc \in [Thread -> PC]
          /\ at \in [Thread -> Plugin \cup {NoPlugin}]
          /\ todo \in [Thread -> SUBSET Plugin]
      BY DEF PC
    <2>2. /\ inited \in [Plugin -> BOOLEAN] /\ started \in [Plugin -> BOOLEAN]
          /\ errBus \in [{"stop", "disconnect"} -> Nat]
          /\ queue \in Seq(Thread)
      OBVIOUS
    <2>3. /\ incidents \in [Incident -> Nat]
          /\ \A k \in Incident : incidents[k] <= daemon.incidents[k]
      BY DaemonAssumption DEF Incident
    <2>4. \A t \in Thread :
            at[t] # NoPlugin <=> pc[t] \in {"set", "run", "init", "state"}
      OBVIOUS
    <2>5. count \in 0..Len(Order)
      BY DaemonFacts
    <2> QED
      BY <2>1, <2>2, <2>3, <2>4, <2>5 DEF TypeOK
  <1>2. Places
    BY DaemonFacts DEF Places, Counted, Queued, Visits, MainAt, HandlerAt, ReadyKnows
  <1>3. Inits /\ Attended
    BY DEF Inits, InitsSound, InitsComplete, CoreFirst, CoreInitialisedFirst,
           PanicIsEarly, Attended, BootPlugins
  <1> QED
    BY <1>1, <1>2, <1>3 DEF IInv

LEMMA AskLockInv ==
  ASSUME IInv, Alive, AskLock
  PROVE  IInv'
  <1> USE ThreadAssumption, PluginAssumption
      DEF IInv, Alive, AskLock, Thread, PC, Goto, Proceed, Order, Boot, Depends,
          Satisfied, flags, walk, world, commands
  <1>1. TypeOK'
    BY DEF TypeOK, Places, Counted, Queued, Visits, MainAt, HandlerAt
  <1>2. Places'
    <2>1. Counted' /\ Queued'
      BY <1>1 DEF TypeOK, Places, Counted, Queued, MainAt
    <2>2. Visits'
      BY <1>1 DEF TypeOK, Places, Visits, MainAt
    <2>3. MainAt'
      BY <1>1 DEF TypeOK, Places, MainAt, HandlerAt
    <2>4. HandlerAt' /\ ReadyKnows'
      BY <1>1 DEF TypeOK, Places, HandlerAt, ReadyKnows
    <2> QED
      BY <2>1, <2>2, <2>3, <2>4 DEF Places
  <1>3. Inits'
    <2>1. InitsSound'
      BY <1>1 DEF TypeOK, Places, MainAt, Visits, Inits, InitsSound
    <2>2. InitsComplete'
      BY <1>1 DEF TypeOK, Places, MainAt, Visits, Inits, InitsSound, InitsComplete
    <2>3. CoreFirst'
      BY <1>1 DEF TypeOK, Places, MainAt, Inits, CoreFirst, CoreInitialisedFirst, BootPlugins
    <2>4. PanicIsEarly'
      BY <1>1 DEF Inits, PanicIsEarly
    <2> QED
      BY <2>1, <2>2, <2>3, <2>4 DEF Inits
  <1>4. Attended'
    BY <1>1 DEF TypeOK, Places, HandlerAt, ReadyKnows, Attended, Will
  <1> QED
    BY <1>1, <1>2, <1>3, <1>4

LEMMA RegisterInv ==
  ASSUME IInv, Alive, Register
  PROVE  IInv'
  <1> USE ThreadAssumption, PluginAssumption
      DEF IInv, Alive, Register, Thread, PC, Goto, Proceed, Order, Boot, Depends,
          Satisfied, flags, walk, world, commands
  <1>0. /\ Order[count + 1] \in Plugin /\ Order[count + 1] # NoPlugin
        /\ count + 1 \in 0..Len(Order)
    BY DaemonFacts DEF TypeOK, Places, Counted
  <1>1. TypeOK'
    <2>1. /\ pc' \in [Thread -> PC] /\ readers' \in SUBSET Thread
          /\ at' \in [Thread -> Plugin \cup {NoPlugin}]
          /\ todo' \in [Thread -> SUBSET Plugin]
      BY <1>0 DEF TypeOK
    <2>2. \A u \in readers' : pc'[u] \in {"pick", "set", "run", "init", "state"}
      BY DEF TypeOK, Places, MainAt, HandlerAt
    <2>3. \A u \in Thread :
            at'[u] # NoPlugin <=> pc'[u] \in {"set", "run", "init", "state"}
      BY <1>0 DEF TypeOK, Places, HandlerAt
    <2>4. queue' \in Seq(Thread) /\ command' \in {"none", "owed", "lost"}
      BY DEF TypeOK, Places, Queued
    <2>5. /\ registered' \in SUBSET Plugin /\ count' \in 0..Len(Order')
          /\ inited' \in [Plugin -> BOOLEAN] /\ started' \in [Plugin -> BOOLEAN]
          /\ running' \in BOOLEAN /\ panicked' \in BOOLEAN
      <3>1. registered' \in SUBSET Plugin /\ count' \in 0..Len(Order')
        BY <1>0 DEF TypeOK
      <3> QED
        BY <3>1 DEF TypeOK
    <2>6. /\ errBus' \in [{"stop", "disconnect"} -> Nat]
          /\ bus' \in Nat /\ streams' \in Nat
      BY DEF TypeOK
    <2>7. /\ incidents' \in [Incident -> Nat]
          /\ \A k \in Incident : incidents'[k] <= daemon'.incidents[k]
      BY DEF TypeOK, Incident
    <2> QED
      BY <2>1, <2>2, <2>3, <2>4, <2>5, <2>6, <2>7 DEF TypeOK
  <1>2. Places'
    <2>1. Counted'
      <3>1. 1..(count + 1) = 1..count \cup {count + 1}
        BY DEF TypeOK
      <3>2. registered' = {Order'[i] : i \in 1..count'}
        BY <3>1 DEF Places, Counted
      <3>3. Boot \in Nat
        BY DaemonFacts DEF TypeOK
      <3> QED
        BY <3>2, <3>3 DEF TypeOK, Places, Counted
    <2>2. Queued' /\ Visits'
      BY <1>1 DEF TypeOK, Places, Queued, Visits, MainAt
    <2>3. MainAt'
      BY <1>1 DEF TypeOK, Places, MainAt, HandlerAt
    <2>4. HandlerAt' /\ ReadyKnows'
      BY <1>1 DEF TypeOK, Places, HandlerAt, ReadyKnows
    <2> QED
      BY <2>1, <2>2, <2>3, <2>4 DEF Places
  <1>3. Inits'
    <2>1. InitsSound'
      BY <1>1 DEF TypeOK, Places, MainAt, Visits, Inits, InitsSound
    <2>2. InitsComplete'
      BY <1>1 DEF TypeOK, Places, MainAt, Visits, Inits, InitsSound, InitsComplete
    <2>3. CoreFirst'
      BY <1>1 DEF TypeOK, Places, MainAt, Inits, CoreFirst, CoreInitialisedFirst, BootPlugins
    <2>4. PanicIsEarly'
      BY <1>1 DEF Inits, PanicIsEarly
    <2> QED
      BY <2>1, <2>2, <2>3, <2>4 DEF Inits
  <1>4. Attended'
    BY <1>1 DEF TypeOK, Places, HandlerAt, ReadyKnows, Attended, Will
  <1> QED
    BY <1>1, <1>2, <1>3, <1>4

LEMMA InitPluginInv ==
  ASSUME IInv, Alive, InitPlugin
  PROVE  IInv'
  <1> USE ThreadAssumption, PluginAssumption
      DEF IInv, Alive, InitPlugin, Thread, PC, Goto, Proceed, Order, Boot, Depends,
          Satisfied, flags, walk, world, commands
  <1>1. TypeOK'
    BY DEF TypeOK, Places, Counted, Queued, Visits, MainAt, HandlerAt
  <1>2. Places'
    <2>1. Counted' /\ Queued'
      BY <1>1 DEF TypeOK, Places, Counted, Queued, MainAt
    <2>2. Visits'
      BY <1>1 DEF TypeOK, Places, Visits, MainAt
    <2>3. MainAt'
      BY <1>1 DEF TypeOK, Places, MainAt, HandlerAt
    <2>4. HandlerAt' /\ ReadyKnows'
      BY <1>1 DEF TypeOK, Places, HandlerAt, ReadyKnows
    <2> QED
      BY <2>1, <2>2, <2>3, <2>4 DEF Places
  <1>3. Inits'
    <2>1. InitsSound'
      BY <1>1 DEF TypeOK, Places, MainAt, Visits, Inits, InitsSound
    <2>2. InitsComplete'
      BY <1>1 DEF TypeOK, Places, MainAt, Visits, Inits, InitsSound, InitsComplete
    <2>3. CoreFirst'
      BY <1>1 DEF TypeOK, Places, MainAt, Inits, CoreFirst, CoreInitialisedFirst, BootPlugins
    <2>4. PanicIsEarly'
      BY <1>1 DEF Inits, PanicIsEarly
    <2> QED
      BY <2>1, <2>2, <2>3, <2>4 DEF Inits
  <1>4. Attended'
    BY <1>1 DEF TypeOK, Places, HandlerAt, ReadyKnows, Attended, Will
  <1> QED
    BY <1>1, <1>2, <1>3, <1>4

LEMMA InitStartsInv ==
  ASSUME IInv, Alive, InitStarts
  PROVE  IInv'
  <1> USE ThreadAssumption, PluginAssumption
      DEF IInv, Alive, InitStarts, Thread, PC, Goto, Proceed, Order, Boot, Depends,
          Satisfied, flags, walk, world, commands
  <1>1. TypeOK'
    BY DEF TypeOK, Places, Counted, Queued, Visits, MainAt, HandlerAt
  <1>2. Places'
    <2>1. Counted' /\ Queued'
      BY <1>1 DEF TypeOK, Places, Counted, Queued, MainAt
    <2>2. Visits'
      BY <1>1 DEF TypeOK, Places, Visits, MainAt
    <2>3. MainAt'
      BY <1>1 DEF TypeOK, Places, MainAt, HandlerAt
    <2>4. HandlerAt' /\ ReadyKnows'
      BY <1>1 DEF TypeOK, Places, HandlerAt, ReadyKnows
    <2> QED
      BY <2>1, <2>2, <2>3, <2>4 DEF Places
  <1>3. Inits'
    <2>1. InitsSound'
      BY <1>1 DEF TypeOK, Places, MainAt, Visits, Inits, InitsSound
    <2>2. InitsComplete'
      BY <1>1 DEF TypeOK, Places, MainAt, Visits, Inits, InitsSound, InitsComplete
    <2>3. CoreFirst'
      BY <1>1 DEF TypeOK, Places, MainAt, Inits, CoreFirst, CoreInitialisedFirst, BootPlugins
    <2>4. PanicIsEarly'
      BY <1>1 DEF Inits, PanicIsEarly
    <2> QED
      BY <2>1, <2>2, <2>3, <2>4 DEF Inits
  <1>4. Attended'
    BY <1>1 DEF TypeOK, Places, HandlerAt, ReadyKnows, Attended, Will
  <1> QED
    BY <1>1, <1>2, <1>3, <1>4

LEMMA RegisteredInv ==
  ASSUME IInv, Alive, Registered
  PROVE  IInv'
  <1> USE ThreadAssumption, PluginAssumption
      DEF IInv, Alive, Registered, Thread, PC, Goto, Proceed, Order, Boot, Depends,
          Satisfied, flags, walk, world, commands
  <1>0. count = Boot => pc[First] = "off" /\ First \notin readers /\ at[First] = NoPlugin
    <2>1. count = Boot => pc[First] = "off"
      <3>1. Boot \in Nat
        BY DaemonFacts DEF TypeOK
      <3> QED
        BY <3>1 DEF Places, Counted
    <2> QED
      BY <2>1 DEF TypeOK
  <1>1. TypeOK'
    <2>1. /\ pc' \in [Thread -> PC] /\ readers' \in SUBSET Thread
          /\ at' \in [Thread -> Plugin \cup {NoPlugin}]
          /\ todo' \in [Thread -> SUBSET Plugin]
      BY DEF TypeOK
    <2>2. \A u \in readers' : pc'[u] \in {"pick", "set", "run", "init", "state"}
      BY <1>0 DEF TypeOK, Places, MainAt, HandlerAt
    <2>3. \A u \in Thread :
            at'[u] # NoPlugin <=> pc'[u] \in {"set", "run", "init", "state"}
      BY <1>0 DEF TypeOK, Places, HandlerAt
    <2>4. queue' \in Seq(Thread) /\ command' \in {"none", "owed", "lost"}
      BY DEF TypeOK, Places, Queued
    <2>5. /\ registered' \in SUBSET Plugin /\ count' \in 0..Len(Order')
          /\ inited' \in [Plugin -> BOOLEAN] /\ started' \in [Plugin -> BOOLEAN]
          /\ running' \in BOOLEAN /\ panicked' \in BOOLEAN
      BY DEF TypeOK, Places, Counted
    <2>6. /\ errBus' \in [{"stop", "disconnect"} -> Nat]
          /\ bus' \in Nat /\ streams' \in Nat
      BY DEF TypeOK
    <2>7. /\ incidents' \in [Incident -> Nat]
          /\ \A k \in Incident : incidents'[k] <= daemon'.incidents[k]
      BY DEF TypeOK, Incident
    <2> QED
      BY <2>1, <2>2, <2>3, <2>4, <2>5, <2>6, <2>7 DEF TypeOK
  <1>2. Places'
    <2>1. Counted' /\ Queued'
      BY <1>1 DEF TypeOK, Places, Counted, Queued, MainAt
    <2>2. Visits'
      BY <1>1 DEF TypeOK, Places, Visits, MainAt
    <2>3. MainAt'
      BY <1>1 DEF TypeOK, Places, MainAt, HandlerAt
    <2>4. HandlerAt' /\ ReadyKnows'
      BY <1>1 DEF TypeOK, Places, HandlerAt, ReadyKnows
    <2> QED
      BY <2>1, <2>2, <2>3, <2>4 DEF Places
  <1>3. Inits'
    <2>1. InitsSound'
      BY <1>1 DEF TypeOK, Places, MainAt, Visits, Inits, InitsSound
    <2>2. InitsComplete'
      BY <1>1 DEF TypeOK, Places, MainAt, Visits, Inits, InitsSound, InitsComplete
    <2>3. CoreFirst'
      <3>1. ASSUME count = Boot, NEW p \in BootPlugins
            PROVE  inited[p]
        <4>1. p \in registered
          BY <3>1 DEF Places, Counted, BootPlugins
        <4>2. Depends[p] \subseteq registered
          BY <3>1, <4>1, CoreRegistered, DaemonFacts DEF TypeOK, Places
        <4> QED
          BY <4>1, <4>2, <3>1 DEF Inits, InitsComplete, Places, MainAt
      <3>2. \A p \in BootPlugins : inited[p] \/ count # Boot
        BY <3>1
      <3>3. BootPlugins' = BootPlugins
        BY DEF BootPlugins
      <3>4. pc'[First] # "off" => pc[First] # "off" \/ count = Boot
        BY DEF TypeOK
      <3>5. pc'[First] # "off" => \A p \in BootPlugins' : inited'[p]
        BY <3>2, <3>3, <3>4 DEF Inits, CoreFirst
      <3>6. /\ \A t \in Thread : pc'[t] = "set" => pc[t] = "set"
            /\ \A s \in Starter : pc[s] # "off" => pc'[s] # "off"
        BY DEF TypeOK
      <3>7. CoreInitialisedFirst'
        BY <3>3, <3>6 DEF Inits, CoreFirst, CoreInitialisedFirst
      <3> QED
        BY <3>5, <3>7 DEF CoreFirst
    <2>4. PanicIsEarly'
      BY <1>1 DEF Inits, PanicIsEarly
    <2> QED
      BY <2>1, <2>2, <2>3, <2>4 DEF Inits
  <1>4. Attended'
    <2>1. \A i \in 1..Len(Order) : Order[i] \in Plugin
      BY DaemonFacts DEF TypeOK
    <2>2. \A p \in Plugin : started[p] => started'[p]
      BY DEF TypeOK
    <2>3. \A p \in Plugin :
            at[Main] = p /\ pc[Main] \in {"state", "set"}
            => started'[p] \/ (at'[Main] = p /\ pc'[Main] \in {"state", "set"})
      BY DEF TypeOK
    <2>4. \A p \in Plugin : \A s \in Starter : Will(s, p) => Will(s, p)'
      BY <1>0 DEF TypeOK, Will
    <2>5. pc[Handler] # "wait" => pc'[Handler] # "wait"
      BY DEF TypeOK
    <2> QED
      BY <2>1, <2>2, <2>3, <2>4, <2>5, AttendedStays
  <1> QED
    BY <1>1, <1>2, <1>3, <1>4

LEMMA InitNextInv ==
  ASSUME IInv, Alive, NEW p \in Plugin, InitNext(p)
  PROVE  IInv'
  <1> USE ThreadAssumption, PluginAssumption
      DEF IInv, Alive, InitNext, Thread, PC, Goto, Proceed, Order, Boot, Depends,
          Satisfied, flags, walk, world, commands
  <1>1. TypeOK'
    BY DEF TypeOK, Places, Counted, Queued, Visits, MainAt, HandlerAt
  <1>2. Places'
    <2>1. Counted' /\ Queued'
      BY <1>1 DEF TypeOK, Places, Counted, Queued, MainAt
    <2>2. Visits'
      BY <1>1 DEF TypeOK, Places, Visits, MainAt
    <2>3. MainAt'
      BY <1>1 DEF TypeOK, Places, MainAt, HandlerAt
    <2>4. HandlerAt' /\ ReadyKnows'
      BY <1>1 DEF TypeOK, Places, HandlerAt, ReadyKnows
    <2> QED
      BY <2>1, <2>2, <2>3, <2>4 DEF Places
  <1>3. Inits'
    <2>1. InitsSound'
      BY <1>1 DEF TypeOK, Places, MainAt, Visits, Inits, InitsSound
    <2>2. InitsComplete'
      BY <1>1 DEF TypeOK, Places, MainAt, Visits, Inits, InitsSound, InitsComplete
    <2>3. CoreFirst'
      BY <1>1 DEF TypeOK, Places, MainAt, Inits, CoreFirst, CoreInitialisedFirst, BootPlugins
    <2>4. PanicIsEarly'
      BY <1>1 DEF Inits, PanicIsEarly
    <2> QED
      BY <2>1, <2>2, <2>3, <2>4 DEF Inits
  <1>4. Attended'
    BY <1>1 DEF TypeOK, Places, HandlerAt, ReadyKnows, Attended, Will
  <1> QED
    BY <1>1, <1>2, <1>3, <1>4

LEMMA RLockInv ==
  ASSUME IInv, Alive, NEW t \in Thread, RLock(t)
  PROVE  IInv'
  <1> USE ThreadAssumption, PluginAssumption
      DEF IInv, Alive, RLock, Thread, PC, Goto, Proceed, Order, Boot, Depends,
          Satisfied, flags, walk, world, commands
  <1>1. TypeOK'
    BY DEF TypeOK, Places, Counted, Queued, Visits, MainAt, HandlerAt
  <1>2. Places'
    <2>1. Counted' /\ Queued'
      BY <1>1 DEF TypeOK, Places, Counted, Queued, MainAt
    <2>2. Visits'
      BY <1>1 DEF TypeOK, Places, Visits, MainAt
    <2>3. MainAt'
      BY <1>1 DEF TypeOK, Places, MainAt, HandlerAt
    <2>4. HandlerAt' /\ ReadyKnows'
      BY <1>1 DEF TypeOK, Places, HandlerAt, ReadyKnows
    <2> QED
      BY <2>1, <2>2, <2>3, <2>4 DEF Places
  <1>3. Inits'
    <2>1. InitsSound'
      BY <1>1 DEF TypeOK, Places, MainAt, Visits, Inits, InitsSound
    <2>2. InitsComplete'
      BY <1>1 DEF TypeOK, Places, MainAt, Visits, Inits, InitsSound, InitsComplete
    <2>3. CoreFirst'
      BY <1>1 DEF TypeOK, Places, MainAt, Inits, CoreFirst, CoreInitialisedFirst, BootPlugins
    <2>4. PanicIsEarly'
      BY <1>1 DEF Inits, PanicIsEarly
    <2> QED
      BY <2>1, <2>2, <2>3, <2>4 DEF Inits
  <1>4. Attended'
    <2>1. \A i \in 1..Len(Order) : Order[i] \in Plugin
      BY DaemonFacts DEF TypeOK
    <2>2. \A p \in Plugin : started[p] => started'[p]
      BY DEF TypeOK
    <2>3. \A p \in Plugin :
            at[Main] = p /\ pc[Main] \in {"state", "set"}
            => started'[p] \/ (at'[Main] = p /\ pc'[Main] \in {"state", "set"})
      BY DEF TypeOK
    <2>4. ASSUME NEW p \in Plugin, NEW s \in Starter, Will(s, p)
          PROVE  ~inited[p] \/ Will(s, p)'
      <3>1. CASE s = t
        <4>1. pc'[s] = "pick" /\ todo'[s] = registered
          BY <3>1 DEF TypeOK
        <4>2. inited[p] => p \in registered
          BY DEF Inits, InitsSound
        <4> QED
          BY <4>1, <4>2 DEF Will
      <3>2. CASE s # t
        BY <2>4, <3>2 DEF TypeOK, Will
      <3> QED
        BY <3>1, <3>2
    <2>5. pc[Handler] # "wait" => pc'[Handler] # "wait"
      BY DEF TypeOK
    <2> QED
      BY <2>1, <2>2, <2>3, <2>4, <2>5, AttendedStays
  <1> QED
    BY <1>1, <1>2, <1>3, <1>4

LEMMA StartSetInv ==
  ASSUME IInv, Alive, NEW t \in Thread, StartSet(t)
  PROVE  IInv'
  <1> USE ThreadAssumption, PluginAssumption
      DEF IInv, Alive, StartSet, Thread, PC, Goto, Proceed, Order, Boot, Depends,
          Satisfied, flags, walk, world, commands
  <1>1. TypeOK'
    <2>1. /\ pc' \in [Thread -> PC] /\ readers' \in SUBSET Thread
          /\ at' \in [Thread -> Plugin \cup {NoPlugin}]
          /\ todo' \in [Thread -> SUBSET Plugin]
      BY DEF TypeOK
    <2>2. \A u \in readers' : pc'[u] \in {"pick", "set", "run", "init", "state"}
      BY DEF TypeOK, Places, MainAt, HandlerAt
    <2>3. \A u \in Thread :
            at'[u] # NoPlugin <=> pc'[u] \in {"set", "run", "init", "state"}
      BY DEF TypeOK, Places, HandlerAt
    <2>4. queue' \in Seq(Thread) /\ command' \in {"none", "owed", "lost"}
      <3>1. \A u \in Thread : Append(queue, u) \in Seq(Thread)
        BY QueueTyped
      <3> QED
        BY <3>1 DEF TypeOK
    <2>5. /\ registered' \in SUBSET Plugin /\ count' \in 0..Len(Order')
          /\ inited' \in [Plugin -> BOOLEAN] /\ started' \in [Plugin -> BOOLEAN]
          /\ running' \in BOOLEAN /\ panicked' \in BOOLEAN
      BY DEF TypeOK, Places, Counted
    <2>6. /\ errBus' \in [{"stop", "disconnect"} -> Nat]
          /\ bus' \in Nat /\ streams' \in Nat
      BY DEF TypeOK
    <2>7. /\ incidents' \in [Incident -> Nat]
          /\ \A k \in Incident : incidents'[k] <= daemon'.incidents[k]
      BY DEF TypeOK, Incident
    <2> QED
      BY <2>1, <2>2, <2>3, <2>4, <2>5, <2>6, <2>7 DEF TypeOK
  <1>2. Places'
    <2>1. Counted' /\ Queued'
      BY <1>1 DEF TypeOK, Places, Counted, Queued, MainAt
    <2>2. Visits'
      BY <1>1 DEF TypeOK, Places, Visits, MainAt
    <2>3. MainAt'
      BY <1>1 DEF TypeOK, Places, MainAt, HandlerAt
    <2>4. HandlerAt' /\ ReadyKnows'
      BY <1>1 DEF TypeOK, Places, HandlerAt, ReadyKnows
    <2> QED
      BY <2>1, <2>2, <2>3, <2>4 DEF Places
  <1>3. Inits'
    <2>1. InitsSound'
      BY <1>1 DEF TypeOK, Places, MainAt, Visits, Inits, InitsSound
    <2>2. InitsComplete'
      BY <1>1 DEF TypeOK, Places, MainAt, Visits, Inits, InitsSound, InitsComplete
    <2>3. CoreFirst'
      BY <1>1 DEF TypeOK, Places, MainAt, Inits, CoreFirst, CoreInitialisedFirst, BootPlugins
    <2>4. PanicIsEarly'
      <3> SUFFICES ASSUME pc[Main] = "done", ~inited[at[t]]
                   PROVE  FALSE
        BY DEF TypeOK, Inits, PanicIsEarly
      <3>1. at[t] \in registered
        BY DEF TypeOK, Places, Visits
      <3>2. count = Len(Order)
        BY DEF Places, Counted
      <3>3. Depends[at[t]] \subseteq registered
        BY <3>1, <3>2, CoreRegistered, DaemonFacts DEF TypeOK, Places
      <3> QED
        BY <3>1, <3>3 DEF Inits, InitsComplete, Places, MainAt
    <2> QED
      BY <2>1, <2>2, <2>3, <2>4 DEF Inits
  <1>4. Attended'
    <2>1. \A i \in 1..Len(Order) : Order[i] \in Plugin
      BY DaemonFacts DEF TypeOK
    <2>2. \A p \in Plugin : started[p] => started'[p]
      BY DEF TypeOK
    <2>3. \A p \in Plugin :
            at[Main] = p /\ pc[Main] \in {"state", "set"}
            => started'[p] \/ (at'[Main] = p /\ pc'[Main] \in {"state", "set"})
      BY DEF TypeOK
    <2>4. ASSUME NEW p \in Plugin, NEW s \in Starter, Will(s, p)
          PROVE  started'[p] \/ Will(s, p)'
      <3>1. CASE s = t /\ at[t] = p
        BY <3>1 DEF TypeOK
      <3>2. CASE s = t /\ at[t] # p
        BY <2>4, <3>2 DEF TypeOK, Will
      <3>3. CASE s # t
        BY <2>4, <3>3 DEF TypeOK, Will
      <3> QED
        BY <3>1, <3>2, <3>3
    <2>5. pc[Handler] # "wait" => pc'[Handler] # "wait"
      BY DEF TypeOK
    <2> QED
      BY <2>1, <2>2, <2>3, <2>4, <2>5, AttendedStays
  <1> QED
    BY <1>1, <1>2, <1>3, <1>4

LEMMA StartReturnsInv ==
  ASSUME IInv, Alive, NEW t \in Thread, StartReturns(t)
  PROVE  IInv'
  <1> USE ThreadAssumption, PluginAssumption
      DEF IInv, Alive, StartReturns, Thread, PC, Goto, Proceed, Order, Boot, Depends,
          Satisfied, flags, walk, world, commands
  <1>1. TypeOK'
    BY DEF TypeOK, Places, Counted, Queued, Visits, MainAt, HandlerAt
  <1>2. Places'
    <2>1. Counted' /\ Queued'
      BY <1>1 DEF TypeOK, Places, Counted, Queued, MainAt
    <2>2. Visits'
      BY <1>1 DEF TypeOK, Places, Visits, MainAt
    <2>3. MainAt'
      BY <1>1 DEF TypeOK, Places, MainAt, HandlerAt
    <2>4. HandlerAt' /\ ReadyKnows'
      BY <1>1 DEF TypeOK, Places, HandlerAt, ReadyKnows
    <2> QED
      BY <2>1, <2>2, <2>3, <2>4 DEF Places
  <1>3. Inits'
    <2>1. InitsSound'
      BY <1>1 DEF TypeOK, Places, MainAt, Visits, Inits, InitsSound
    <2>2. InitsComplete'
      BY <1>1 DEF TypeOK, Places, MainAt, Visits, Inits, InitsSound, InitsComplete
    <2>3. CoreFirst'
      BY <1>1 DEF TypeOK, Places, MainAt, Inits, CoreFirst, CoreInitialisedFirst, BootPlugins
    <2>4. PanicIsEarly'
      BY <1>1 DEF Inits, PanicIsEarly
    <2> QED
      BY <2>1, <2>2, <2>3, <2>4 DEF Inits
  <1>4. Attended'
    BY <1>1 DEF TypeOK, Places, HandlerAt, ReadyKnows, Attended, Will
  <1> QED
    BY <1>1, <1>2, <1>3, <1>4

LEMMA LoginInv ==
  ASSUME IInv, Alive, NEW s \in Starter, Login(s)
  PROVE  IInv'
  <1> USE ThreadAssumption, PluginAssumption
      DEF IInv, Alive, Login, Thread, PC, Goto, Proceed, Order, Boot, Depends,
          Satisfied, flags, walk, world, commands
  <1>1. TypeOK'
    <2>1. /\ pc' \in [Thread -> PC] /\ readers' \in SUBSET Thread
          /\ at' \in [Thread -> Plugin \cup {NoPlugin}]
          /\ todo' \in [Thread -> SUBSET Plugin]
      BY DEF TypeOK
    <2>2. \A u \in readers' : pc'[u] \in {"pick", "set", "run", "init", "state"}
      BY DEF TypeOK, Places, MainAt, HandlerAt
    <2>3. \A u \in Thread :
            at'[u] # NoPlugin <=> pc'[u] \in {"set", "run", "init", "state"}
      BY DEF TypeOK, Places, HandlerAt
    <2>4. queue' \in Seq(Thread) /\ command' \in {"none", "owed", "lost"}
      BY DEF TypeOK, Places, Queued
    <2>5. /\ registered' \in SUBSET Plugin /\ count' \in 0..Len(Order')
          /\ inited' \in [Plugin -> BOOLEAN] /\ started' \in [Plugin -> BOOLEAN]
          /\ running' \in BOOLEAN /\ panicked' \in BOOLEAN
      BY DEF TypeOK, Places, Counted
    <2>6. /\ errBus' \in [{"stop", "disconnect"} -> Nat]
          /\ bus' \in Nat /\ streams' \in Nat
      BY DEF TypeOK
    <2>7. /\ incidents' \in [Incident -> Nat]
          /\ \A k \in Incident : incidents'[k] <= daemon'.incidents[k]
      BY DEF TypeOK, Incident
    <2> QED
      BY <2>1, <2>2, <2>3, <2>4, <2>5, <2>6, <2>7 DEF TypeOK
  <1>2. Places'
    <2>1. Counted' /\ Queued'
      BY <1>1 DEF TypeOK, Places, Counted, Queued, MainAt
    <2>2. Visits'
      BY <1>1 DEF TypeOK, Places, Visits, MainAt
    <2>3. MainAt'
      BY <1>1 DEF TypeOK, Places, MainAt, HandlerAt
    <2>4. HandlerAt' /\ ReadyKnows'
      BY <1>1 DEF TypeOK, Places, HandlerAt, ReadyKnows
    <2> QED
      BY <2>1, <2>2, <2>3, <2>4 DEF Places
  <1>3. Inits'
    <2>1. InitsSound'
      BY <1>1 DEF TypeOK, Places, MainAt, Visits, Inits, InitsSound
    <2>2. InitsComplete'
      BY <1>1 DEF TypeOK, Places, MainAt, Visits, Inits, InitsSound, InitsComplete
    <2>3. CoreFirst'
      BY <1>1 DEF TypeOK, Places, MainAt, Inits, CoreFirst, CoreInitialisedFirst, BootPlugins
    <2>4. PanicIsEarly'
      BY <1>1 DEF Inits, PanicIsEarly
    <2> QED
      BY <2>1, <2>2, <2>3, <2>4 DEF Inits
  <1>4. Attended'
    BY <1>1 DEF TypeOK, Places, HandlerAt, ReadyKnows, Attended, Will
  <1> QED
    BY <1>1, <1>2, <1>3, <1>4

LEMMA StatusInv ==
  ASSUME IInv, Alive, NEW s \in Starter, Status(s)
  PROVE  IInv'
  <1> USE ThreadAssumption, PluginAssumption
      DEF IInv, Alive, Status, TestServerReady, Thread, PC, Goto, Proceed, Order, Boot, Depends,
          Satisfied, flags, walk, world, commands
  <1>1. TypeOK'
    <2>1. /\ pc' \in [Thread -> PC] /\ readers' \in SUBSET Thread
          /\ at' \in [Thread -> Plugin \cup {NoPlugin}]
          /\ todo' \in [Thread -> SUBSET Plugin]
      BY DEF TypeOK
    <2>2. \A u \in readers' : pc'[u] \in {"pick", "set", "run", "init", "state"}
      BY DEF TypeOK, Places, MainAt, HandlerAt
    <2>3. \A u \in Thread :
            at'[u] # NoPlugin <=> pc'[u] \in {"set", "run", "init", "state"}
      BY DEF TypeOK, Places, HandlerAt
    <2>4. queue' \in Seq(Thread) /\ command' \in {"none", "owed", "lost"}
      <3>1. Append(queue, s) \in Seq(Thread)
        BY QueueTyped
      <3> QED
        BY <3>1 DEF TypeOK
    <2>5. /\ registered' \in SUBSET Plugin /\ count' \in 0..Len(Order')
          /\ inited' \in [Plugin -> BOOLEAN] /\ started' \in [Plugin -> BOOLEAN]
          /\ running' \in BOOLEAN /\ panicked' \in BOOLEAN
      BY DEF TypeOK, Places, Counted
    <2>6. /\ errBus' \in [{"stop", "disconnect"} -> Nat]
          /\ bus' \in Nat /\ streams' \in Nat
      BY DEF TypeOK
    <2>7. /\ incidents' \in [Incident -> Nat]
          /\ \A k \in Incident : incidents'[k] <= daemon'.incidents[k]
      BY DEF TypeOK, Incident
    <2> QED
      BY <2>1, <2>2, <2>3, <2>4, <2>5, <2>6, <2>7 DEF TypeOK
  <1>2. Places'
    <2>1. Counted' /\ Queued'
      BY <1>1 DEF TypeOK, Places, Counted, Queued, MainAt
    <2>2. Visits'
      BY <1>1 DEF TypeOK, Places, Visits, MainAt
    <2>3. MainAt'
      BY <1>1 DEF TypeOK, Places, MainAt, HandlerAt
    <2>4. HandlerAt' /\ ReadyKnows'
      BY <1>1 DEF TypeOK, Places, HandlerAt, ReadyKnows
    <2> QED
      BY <2>1, <2>2, <2>3, <2>4 DEF Places
  <1>3. Inits'
    <2>1. InitsSound'
      BY <1>1 DEF TypeOK, Places, MainAt, Visits, Inits, InitsSound
    <2>2. InitsComplete'
      BY <1>1 DEF TypeOK, Places, MainAt, Visits, Inits, InitsSound, InitsComplete
    <2>3. CoreFirst'
      BY <1>1 DEF TypeOK, Places, MainAt, Inits, CoreFirst, CoreInitialisedFirst, BootPlugins
    <2>4. PanicIsEarly'
      BY <1>1 DEF Inits, PanicIsEarly
    <2> QED
      BY <2>1, <2>2, <2>3, <2>4 DEF Inits
  <1>4. Attended'
    BY <1>1 DEF TypeOK, Places, HandlerAt, ReadyKnows, Attended, Will
  <1> QED
    BY <1>1, <1>2, <1>3, <1>4

LEMMA StartGameInv ==
  ASSUME IInv, Alive, NEW s \in Starter, StartGame(s)
  PROVE  IInv'
  <1> USE ThreadAssumption, PluginAssumption
      DEF IInv, Alive, StartGame, TestServerReady, Thread, PC, Goto, Proceed, Order, Boot, Depends,
          Satisfied, flags, walk, world, commands
  <1>1. TypeOK'
    <2>1. /\ pc' \in [Thread -> PC] /\ readers' \in SUBSET Thread
          /\ at' \in [Thread -> Plugin \cup {NoPlugin}]
          /\ todo' \in [Thread -> SUBSET Plugin]
      BY DEF TypeOK
    <2>2. \A u \in readers' : pc'[u] \in {"pick", "set", "run", "init", "state"}
      BY DEF TypeOK, Places, MainAt, HandlerAt
    <2>3. \A u \in Thread :
            at'[u] # NoPlugin <=> pc'[u] \in {"set", "run", "init", "state"}
      BY DEF TypeOK, Places, HandlerAt
    <2>4. queue' \in Seq(Thread) /\ command' \in {"none", "owed", "lost"}
      <3>1. Append(queue, s) \in Seq(Thread)
        BY QueueTyped
      <3> QED
        BY <3>1 DEF TypeOK
    <2>5. /\ registered' \in SUBSET Plugin /\ count' \in 0..Len(Order')
          /\ inited' \in [Plugin -> BOOLEAN] /\ started' \in [Plugin -> BOOLEAN]
          /\ running' \in BOOLEAN /\ panicked' \in BOOLEAN
      BY DEF TypeOK, Places, Counted
    <2>6. /\ errBus' \in [{"stop", "disconnect"} -> Nat]
          /\ bus' \in Nat /\ streams' \in Nat
      BY DEF TypeOK
    <2>7. /\ incidents' \in [Incident -> Nat]
          /\ \A k \in Incident : incidents'[k] <= daemon'.incidents[k]
      BY DEF TypeOK, Incident
    <2> QED
      BY <2>1, <2>2, <2>3, <2>4, <2>5, <2>6, <2>7 DEF TypeOK
  <1>2. Places'
    <2>1. Counted' /\ Queued'
      BY <1>1 DEF TypeOK, Places, Counted, Queued, MainAt
    <2>2. Visits'
      BY <1>1 DEF TypeOK, Places, Visits, MainAt
    <2>3. MainAt'
      BY <1>1 DEF TypeOK, Places, MainAt, HandlerAt
    <2>4. HandlerAt' /\ ReadyKnows'
      BY <1>1 DEF TypeOK, Places, HandlerAt, ReadyKnows
    <2> QED
      BY <2>1, <2>2, <2>3, <2>4 DEF Places
  <1>3. Inits'
    <2>1. InitsSound'
      BY <1>1 DEF TypeOK, Places, MainAt, Visits, Inits, InitsSound
    <2>2. InitsComplete'
      BY <1>1 DEF TypeOK, Places, MainAt, Visits, Inits, InitsSound, InitsComplete
    <2>3. CoreFirst'
      BY <1>1 DEF TypeOK, Places, MainAt, Inits, CoreFirst, CoreInitialisedFirst, BootPlugins
    <2>4. PanicIsEarly'
      BY <1>1 DEF Inits, PanicIsEarly
    <2> QED
      BY <2>1, <2>2, <2>3, <2>4 DEF Inits
  <1>4. Attended'
    BY <1>1 DEF TypeOK, Places, HandlerAt, ReadyKnows, Attended, Will
  <1> QED
    BY <1>1, <1>2, <1>3, <1>4

LEMMA StarterFailsInv ==
  ASSUME IInv, Alive, NEW s \in Starter, StarterFails(s)
  PROVE  IInv'
  <1> USE ThreadAssumption, PluginAssumption
      DEF IInv, Alive, StarterFails, GiveUp, Happens, Thread, PC, Goto, Proceed, Order, Boot, Depends,
          Satisfied, flags, walk, world, commands
  <1>1. TypeOK'
    <2>1. /\ pc' \in [Thread -> PC] /\ readers' \in SUBSET Thread
          /\ at' \in [Thread -> Plugin \cup {NoPlugin}]
          /\ todo' \in [Thread -> SUBSET Plugin]
      BY DEF TypeOK
    <2>2. \A u \in readers' : pc'[u] \in {"pick", "set", "run", "init", "state"}
      BY DEF TypeOK, Places, MainAt, HandlerAt
    <2>3. \A u \in Thread :
            at'[u] # NoPlugin <=> pc'[u] \in {"set", "run", "init", "state"}
      BY DEF TypeOK, Places, HandlerAt
    <2>4. queue' \in Seq(Thread) /\ command' \in {"none", "owed", "lost"}
      BY DEF TypeOK, Places, Queued
    <2>5. /\ registered' \in SUBSET Plugin /\ count' \in 0..Len(Order')
          /\ inited' \in [Plugin -> BOOLEAN] /\ started' \in [Plugin -> BOOLEAN]
          /\ running' \in BOOLEAN /\ panicked' \in BOOLEAN
      BY DEF TypeOK, Places, Counted
    <2>6. /\ errBus' \in [{"stop", "disconnect"} -> Nat]
          /\ bus' \in Nat /\ streams' \in Nat
      BY DEF TypeOK
    <2>7. /\ incidents' \in [Incident -> Nat]
          /\ \A k \in Incident : incidents'[k] <= daemon'.incidents[k]
      BY HappensTyped DEF TypeOK, Incident
    <2> QED
      BY <2>1, <2>2, <2>3, <2>4, <2>5, <2>6, <2>7 DEF TypeOK
  <1>2. Places'
    <2>1. Counted' /\ Queued'
      BY <1>1 DEF TypeOK, Places, Counted, Queued, MainAt
    <2>2. Visits'
      BY <1>1 DEF TypeOK, Places, Visits, MainAt
    <2>3. MainAt'
      BY <1>1 DEF TypeOK, Places, MainAt, HandlerAt
    <2>4. HandlerAt' /\ ReadyKnows'
      BY <1>1 DEF TypeOK, Places, HandlerAt, ReadyKnows
    <2> QED
      BY <2>1, <2>2, <2>3, <2>4 DEF Places
  <1>3. Inits'
    <2>1. InitsSound'
      BY <1>1 DEF TypeOK, Places, MainAt, Visits, Inits, InitsSound
    <2>2. InitsComplete'
      BY <1>1 DEF TypeOK, Places, MainAt, Visits, Inits, InitsSound, InitsComplete
    <2>3. CoreFirst'
      BY <1>1 DEF TypeOK, Places, MainAt, Inits, CoreFirst, CoreInitialisedFirst, BootPlugins
    <2>4. PanicIsEarly'
      BY <1>1 DEF Inits, PanicIsEarly
    <2> QED
      BY <2>1, <2>2, <2>3, <2>4 DEF Inits
  <1>4. Attended'
    BY <1>1 DEF TypeOK, Places, HandlerAt, ReadyKnows, Attended, Will
  <1> QED
    BY <1>1, <1>2, <1>3, <1>4

LEMMA ReadyInv ==
  ASSUME IInv, Alive, NEW s \in Starter, Ready(s)
  PROVE  IInv'
  <1> USE ThreadAssumption, PluginAssumption
      DEF IInv, Alive, Ready, Thread, PC, Goto, Proceed, Order, Boot, Depends,
          Satisfied, flags, walk, world, commands
  <1>1. TypeOK'
    <2>1. /\ pc' \in [Thread -> PC] /\ readers' \in SUBSET Thread
          /\ at' \in [Thread -> Plugin \cup {NoPlugin}]
          /\ todo' \in [Thread -> SUBSET Plugin]
      BY DEF TypeOK
    <2>2. \A u \in readers' : pc'[u] \in {"pick", "set", "run", "init", "state"}
      BY DEF TypeOK, Places, MainAt, HandlerAt
    <2>3. \A u \in Thread :
            at'[u] # NoPlugin <=> pc'[u] \in {"set", "run", "init", "state"}
      BY DEF TypeOK, Places, HandlerAt
    <2>4. queue' \in Seq(Thread) /\ command' \in {"none", "owed", "lost"}
      BY DEF TypeOK, Places, Queued
    <2>5. /\ registered' \in SUBSET Plugin /\ count' \in 0..Len(Order')
          /\ inited' \in [Plugin -> BOOLEAN] /\ started' \in [Plugin -> BOOLEAN]
          /\ running' \in BOOLEAN /\ panicked' \in BOOLEAN
      BY DEF TypeOK, Places, Counted
    <2>6. /\ errBus' \in [{"stop", "disconnect"} -> Nat]
          /\ bus' \in Nat /\ streams' \in Nat
      BY DEF TypeOK
    <2>7. /\ incidents' \in [Incident -> Nat]
          /\ \A k \in Incident : incidents'[k] <= daemon'.incidents[k]
      BY DEF TypeOK, Incident
    <2> QED
      BY <2>1, <2>2, <2>3, <2>4, <2>5, <2>6, <2>7 DEF TypeOK
  <1>2. Places'
    <2>1. Counted' /\ Queued'
      BY <1>1 DEF TypeOK, Places, Counted, Queued, MainAt
    <2>2. Visits'
      BY <1>1 DEF TypeOK, Places, Visits, MainAt
    <2>3. MainAt'
      BY <1>1 DEF TypeOK, Places, MainAt, HandlerAt
    <2>4. HandlerAt' /\ ReadyKnows'
      BY <1>1 DEF TypeOK, Places, HandlerAt, ReadyKnows
    <2> QED
      BY <2>1, <2>2, <2>3, <2>4 DEF Places
  <1>3. Inits'
    <2>1. InitsSound'
      BY <1>1 DEF TypeOK, Places, MainAt, Visits, Inits, InitsSound
    <2>2. InitsComplete'
      BY <1>1 DEF TypeOK, Places, MainAt, Visits, Inits, InitsSound, InitsComplete
    <2>3. CoreFirst'
      BY <1>1 DEF TypeOK, Places, MainAt, Inits, CoreFirst, CoreInitialisedFirst, BootPlugins
    <2>4. PanicIsEarly'
      BY <1>1 DEF Inits, PanicIsEarly
    <2> QED
      BY <2>1, <2>2, <2>3, <2>4 DEF Inits
  <1>4. Attended'
    BY <1>1 DEF TypeOK, Places, HandlerAt, ReadyKnows, Attended, Will
  <1> QED
    BY <1>1, <1>2, <1>3, <1>4

LEMMA StartedAllInv ==
  ASSUME IInv, Alive, NEW s \in Starter, StartedAll(s)
  PROVE  IInv'
  <1> USE ThreadAssumption, PluginAssumption
      DEF IInv, Alive, StartedAll, Thread, PC, Goto, Proceed, Order, Boot, Depends,
          Satisfied, flags, walk, world, commands
  <1>1. TypeOK'
    <2>1. /\ pc' \in [Thread -> PC] /\ readers' \in SUBSET Thread
          /\ at' \in [Thread -> Plugin \cup {NoPlugin}]
          /\ todo' \in [Thread -> SUBSET Plugin]
      BY DEF TypeOK
    <2>2. \A u \in readers' : pc'[u] \in {"pick", "set", "run", "init", "state"}
      BY DEF TypeOK, Places, MainAt, HandlerAt
    <2>3. \A u \in Thread :
            at'[u] # NoPlugin <=> pc'[u] \in {"set", "run", "init", "state"}
      BY DEF TypeOK, Places, HandlerAt
    <2>4. queue' \in Seq(Thread) /\ command' \in {"none", "owed", "lost"}
      BY DEF TypeOK, Places, Queued
    <2>5. /\ registered' \in SUBSET Plugin /\ count' \in 0..Len(Order')
          /\ inited' \in [Plugin -> BOOLEAN] /\ started' \in [Plugin -> BOOLEAN]
          /\ running' \in BOOLEAN /\ panicked' \in BOOLEAN
      BY DEF TypeOK, Places, Counted
    <2>6. /\ errBus' \in [{"stop", "disconnect"} -> Nat]
          /\ bus' \in Nat /\ streams' \in Nat
      BY DEF TypeOK
    <2>7. /\ incidents' \in [Incident -> Nat]
          /\ \A k \in Incident : incidents'[k] <= daemon'.incidents[k]
      BY DEF TypeOK, Incident
    <2> QED
      BY <2>1, <2>2, <2>3, <2>4, <2>5, <2>6, <2>7 DEF TypeOK
  <1>2. Places'
    <2>1. Counted' /\ Queued'
      BY <1>1 DEF TypeOK, Places, Counted, Queued, MainAt
    <2>2. Visits'
      BY <1>1 DEF TypeOK, Places, Visits, MainAt
    <2>3. MainAt'
      BY <1>1 DEF TypeOK, Places, MainAt, HandlerAt
    <2>4. HandlerAt' /\ ReadyKnows'
      BY <1>1 DEF TypeOK, Places, HandlerAt, ReadyKnows
    <2> QED
      BY <2>1, <2>2, <2>3, <2>4 DEF Places
  <1>3. Inits'
    <2>1. InitsSound'
      BY <1>1 DEF TypeOK, Places, MainAt, Visits, Inits, InitsSound
    <2>2. InitsComplete'
      BY <1>1 DEF TypeOK, Places, MainAt, Visits, Inits, InitsSound, InitsComplete
    <2>3. CoreFirst'
      BY <1>1 DEF TypeOK, Places, MainAt, Inits, CoreFirst, CoreInitialisedFirst, BootPlugins
    <2>4. PanicIsEarly'
      BY <1>1 DEF Inits, PanicIsEarly
    <2> QED
      BY <2>1, <2>2, <2>3, <2>4 DEF Inits
  <1>4. Attended'
    BY <1>1 DEF TypeOK, Places, HandlerAt, ReadyKnows, Attended, Will
  <1> QED
    BY <1>1, <1>2, <1>3, <1>4

LEMMA StartNextInv ==
  ASSUME IInv, Alive, NEW s \in Starter, NEW p \in Plugin, StartNext(s, p)
  PROVE  IInv'
  <1> USE ThreadAssumption, PluginAssumption
      DEF IInv, Alive, StartNext, Thread, PC, Goto, Proceed, Order, Boot, Depends,
          Satisfied, flags, walk, world, commands
  <1>1. TypeOK'
    <2>1. /\ pc' \in [Thread -> PC] /\ readers' \in SUBSET Thread
          /\ at' \in [Thread -> Plugin \cup {NoPlugin}]
          /\ todo' \in [Thread -> SUBSET Plugin]
      BY DEF TypeOK
    <2>2. \A u \in readers' : pc'[u] \in {"pick", "set", "run", "init", "state"}
      BY DEF TypeOK, Places, MainAt, HandlerAt
    <2>3. \A u \in Thread :
            at'[u] # NoPlugin <=> pc'[u] \in {"set", "run", "init", "state"}
      BY DEF TypeOK, Places, HandlerAt
    <2>4. queue' \in Seq(Thread) /\ command' \in {"none", "owed", "lost"}
      BY DEF TypeOK, Places, Queued
    <2>5. /\ registered' \in SUBSET Plugin /\ count' \in 0..Len(Order')
          /\ inited' \in [Plugin -> BOOLEAN] /\ started' \in [Plugin -> BOOLEAN]
          /\ running' \in BOOLEAN /\ panicked' \in BOOLEAN
      BY DEF TypeOK, Places, Counted
    <2>6. /\ errBus' \in [{"stop", "disconnect"} -> Nat]
          /\ bus' \in Nat /\ streams' \in Nat
      BY DEF TypeOK
    <2>7. /\ incidents' \in [Incident -> Nat]
          /\ \A k \in Incident : incidents'[k] <= daemon'.incidents[k]
      BY DEF TypeOK, Incident
    <2> QED
      BY <2>1, <2>2, <2>3, <2>4, <2>5, <2>6, <2>7 DEF TypeOK
  <1>2. Places'
    <2>1. Counted' /\ Queued'
      BY <1>1 DEF TypeOK, Places, Counted, Queued, MainAt
    <2>2. Visits'
      BY <1>1 DEF TypeOK, Places, Visits, MainAt
    <2>3. MainAt'
      BY <1>1 DEF TypeOK, Places, MainAt, HandlerAt
    <2>4. HandlerAt' /\ ReadyKnows'
      BY <1>1 DEF TypeOK, Places, HandlerAt, ReadyKnows
    <2> QED
      BY <2>1, <2>2, <2>3, <2>4 DEF Places
  <1>3. Inits'
    <2>1. InitsSound'
      BY <1>1 DEF TypeOK, Places, MainAt, Visits, Inits, InitsSound
    <2>2. InitsComplete'
      BY <1>1 DEF TypeOK, Places, MainAt, Visits, Inits, InitsSound, InitsComplete
    <2>3. CoreFirst'
      BY <1>1 DEF TypeOK, Places, MainAt, Inits, CoreFirst, CoreInitialisedFirst, BootPlugins
    <2>4. PanicIsEarly'
      BY <1>1 DEF Inits, PanicIsEarly
    <2> QED
      BY <2>1, <2>2, <2>3, <2>4 DEF Inits
  <1>4. Attended'
    BY <1>1 DEF TypeOK, Places, HandlerAt, ReadyKnows, Attended, Will
  <1> QED
    BY <1>1, <1>2, <1>3, <1>4

LEMMA TakeErrorInv ==
  ASSUME IInv, Alive, NEW e \in {"stop", "disconnect"}, TakeError(e)
  PROVE  IInv'
  <1> USE ThreadAssumption, PluginAssumption
      DEF IInv, Alive, TakeError, Thread, PC, Goto, Proceed, Order, Boot, Depends,
          Satisfied, flags, walk, world, commands
  <1>1. TypeOK'
    BY DEF TypeOK, Places, Counted, Queued, Visits, MainAt, HandlerAt
  <1>2. Places'
    <2>1. Counted' /\ Queued'
      BY <1>1 DEF TypeOK, Places, Counted, Queued, MainAt
    <2>2. Visits'
      BY <1>1 DEF TypeOK, Places, Visits, MainAt
    <2>3. MainAt'
      BY <1>1 DEF TypeOK, Places, MainAt, HandlerAt
    <2>4. HandlerAt' /\ ReadyKnows'
      BY <1>1 DEF TypeOK, Places, HandlerAt, ReadyKnows
    <2> QED
      BY <2>1, <2>2, <2>3, <2>4 DEF Places
  <1>3. Inits'
    <2>1. InitsSound'
      BY <1>1 DEF TypeOK, Places, MainAt, Visits, Inits, InitsSound
    <2>2. InitsComplete'
      BY <1>1 DEF TypeOK, Places, MainAt, Visits, Inits, InitsSound, InitsComplete
    <2>3. CoreFirst'
      <3>1. /\ \A s \in Starter : pc'[s] = pc[s]
            /\ \A u \in Thread : pc'[u] = "set" => pc[u] = "set"
        BY DEF TypeOK
      <3>2. BootPlugins \subseteq Plugin
        BY DaemonFacts DEF TypeOK
      <3> QED
        BY <3>1, <3>2, CoreFirstStays DEF Inits
    <2>4. PanicIsEarly'
      BY <1>1 DEF Inits, PanicIsEarly
    <2> QED
      BY <2>1, <2>2, <2>3, <2>4 DEF Inits
  <1>4. Attended'
    BY <1>1 DEF TypeOK, Places, HandlerAt, ReadyKnows, Attended, Will
  <1> QED
    BY <1>1, <1>2, <1>3, <1>4

LEMMA PauseSetInv ==
  ASSUME IInv, Alive, PauseSet
  PROVE  IInv'
  <1> USE ThreadAssumption, PluginAssumption
      DEF IInv, Alive, PauseSet, Thread, PC, Goto, Proceed, Order, Boot, Depends,
          Satisfied, flags, walk, world, commands
  <1>1. TypeOK'
    BY DEF TypeOK, Places, Counted, Queued, Visits, MainAt, HandlerAt
  <1>2. Places'
    <2>1. Counted' /\ Queued'
      BY <1>1 DEF TypeOK, Places, Counted, Queued, MainAt
    <2>2. Visits'
      BY <1>1 DEF TypeOK, Places, Visits, MainAt
    <2>3. MainAt'
      BY <1>1 DEF TypeOK, Places, MainAt, HandlerAt
    <2>4. HandlerAt' /\ ReadyKnows'
      BY <1>1 DEF TypeOK, Places, HandlerAt, ReadyKnows
    <2> QED
      BY <2>1, <2>2, <2>3, <2>4 DEF Places
  <1>3. Inits'
    <2>1. InitsSound'
      BY <1>1 DEF TypeOK, Places, MainAt, Visits, Inits, InitsSound
    <2>2. InitsComplete'
      BY <1>1 DEF TypeOK, Places, MainAt, Visits, Inits, InitsSound, InitsComplete
    <2>3. CoreFirst'
      BY <1>1 DEF TypeOK, Places, MainAt, Inits, CoreFirst, CoreInitialisedFirst, BootPlugins
    <2>4. PanicIsEarly'
      BY <1>1 DEF Inits, PanicIsEarly
    <2> QED
      BY <2>1, <2>2, <2>3, <2>4 DEF Inits
  <1>4. Attended'
    BY <1>1 DEF TypeOK, Places, HandlerAt, ReadyKnows, Attended, Will
  <1> QED
    BY <1>1, <1>2, <1>3, <1>4

LEMMA PauseProcessorInv ==
  ASSUME IInv, Alive, PauseProcessor
  PROVE  IInv'
  <1> USE ThreadAssumption, PluginAssumption
      DEF IInv, Alive, PauseProcessor, Thread, PC, Goto, Proceed, Order, Boot, Depends,
          Satisfied, flags, walk, world, commands
  <1>1. TypeOK'
    <2>1. /\ pc' \in [Thread -> PC] /\ readers' \in SUBSET Thread
          /\ at' \in [Thread -> Plugin \cup {NoPlugin}]
          /\ todo' \in [Thread -> SUBSET Plugin]
      BY DEF TypeOK
    <2>2. \A u \in readers' : pc'[u] \in {"pick", "set", "run", "init", "state"}
      BY DEF TypeOK, Places, MainAt, HandlerAt
    <2>3. \A u \in Thread :
            at'[u] # NoPlugin <=> pc'[u] \in {"set", "run", "init", "state"}
      BY DEF TypeOK, Places, HandlerAt
    <2>4. queue' \in Seq(Thread) /\ command' \in {"none", "owed", "lost"}
      <3>1. command # "none" => Tail(queue) \in Seq(Thread)
        BY QueueTyped DEF Places, Queued
      <3> QED
        BY <3>1 DEF TypeOK
    <2>5. /\ registered' \in SUBSET Plugin /\ count' \in 0..Len(Order')
          /\ inited' \in [Plugin -> BOOLEAN] /\ started' \in [Plugin -> BOOLEAN]
          /\ running' \in BOOLEAN /\ panicked' \in BOOLEAN
      BY DEF TypeOK, Places, Counted
    <2>6. /\ errBus' \in [{"stop", "disconnect"} -> Nat]
          /\ bus' \in Nat /\ streams' \in Nat
      BY DEF TypeOK
    <2>7. /\ incidents' \in [Incident -> Nat]
          /\ \A k \in Incident : incidents'[k] <= daemon'.incidents[k]
      BY DEF TypeOK, Incident
    <2> QED
      BY <2>1, <2>2, <2>3, <2>4, <2>5, <2>6, <2>7 DEF TypeOK
  <1>2. Places'
    <2>1. Counted' /\ Queued'
      BY <1>1 DEF TypeOK, Places, Counted, Queued, MainAt
    <2>2. Visits'
      BY <1>1 DEF TypeOK, Places, Visits, MainAt
    <2>3. MainAt'
      BY <1>1 DEF TypeOK, Places, MainAt, HandlerAt
    <2>4. HandlerAt' /\ ReadyKnows'
      BY <1>1 DEF TypeOK, Places, HandlerAt, ReadyKnows
    <2> QED
      BY <2>1, <2>2, <2>3, <2>4 DEF Places
  <1>3. Inits'
    <2>1. InitsSound'
      BY <1>1 DEF TypeOK, Places, MainAt, Visits, Inits, InitsSound
    <2>2. InitsComplete'
      BY <1>1 DEF TypeOK, Places, MainAt, Visits, Inits, InitsSound, InitsComplete
    <2>3. CoreFirst'
      BY <1>1 DEF TypeOK, Places, MainAt, Inits, CoreFirst, CoreInitialisedFirst, BootPlugins
    <2>4. PanicIsEarly'
      BY <1>1 DEF Inits, PanicIsEarly
    <2> QED
      BY <2>1, <2>2, <2>3, <2>4 DEF Inits
  <1>4. Attended'
    BY <1>1 DEF TypeOK, Places, HandlerAt, ReadyKnows, Attended, Will
  <1> QED
    BY <1>1, <1>2, <1>3, <1>4

LEMMA PausedAllInv ==
  ASSUME IInv, Alive, PausedAll
  PROVE  IInv'
  <1> USE ThreadAssumption, PluginAssumption
      DEF IInv, Alive, PausedAll, Thread, PC, Goto, Proceed, Order, Boot, Depends,
          Satisfied, flags, walk, world, commands
  <1>1. TypeOK'
    <2>1. /\ pc' \in [Thread -> PC] /\ readers' \in SUBSET Thread
          /\ at' \in [Thread -> Plugin \cup {NoPlugin}]
          /\ todo' \in [Thread -> SUBSET Plugin]
      BY DEF TypeOK
    <2>2. \A u \in readers' : pc'[u] \in {"pick", "set", "run", "init", "state"}
      BY DEF TypeOK, Places, MainAt, HandlerAt
    <2>3. \A u \in Thread :
            at'[u] # NoPlugin <=> pc'[u] \in {"set", "run", "init", "state"}
      BY DEF TypeOK, Places, HandlerAt
    <2>4. queue' \in Seq(Thread) /\ command' \in {"none", "owed", "lost"}
      BY DEF TypeOK, Places, Queued
    <2>5. /\ registered' \in SUBSET Plugin /\ count' \in 0..Len(Order')
          /\ inited' \in [Plugin -> BOOLEAN] /\ started' \in [Plugin -> BOOLEAN]
          /\ running' \in BOOLEAN /\ panicked' \in BOOLEAN
      BY DEF TypeOK, Places, Counted
    <2>6. /\ errBus' \in [{"stop", "disconnect"} -> Nat]
          /\ bus' \in Nat /\ streams' \in Nat
      BY DEF TypeOK
    <2>7. /\ incidents' \in [Incident -> Nat]
          /\ \A k \in Incident : incidents'[k] <= daemon'.incidents[k]
      BY DEF TypeOK, Incident
    <2> QED
      BY <2>1, <2>2, <2>3, <2>4, <2>5, <2>6, <2>7 DEF TypeOK
  <1>2. Places'
    <2>1. Counted' /\ Queued'
      BY <1>1 DEF TypeOK, Places, Counted, Queued, MainAt
    <2>2. Visits'
      BY <1>1 DEF TypeOK, Places, Visits, MainAt
    <2>3. MainAt'
      BY <1>1 DEF TypeOK, Places, MainAt, HandlerAt
    <2>4. HandlerAt' /\ ReadyKnows'
      BY <1>1 DEF TypeOK, Places, HandlerAt, ReadyKnows
    <2> QED
      BY <2>1, <2>2, <2>3, <2>4 DEF Places
  <1>3. Inits'
    <2>1. InitsSound'
      BY <1>1 DEF TypeOK, Places, MainAt, Visits, Inits, InitsSound
    <2>2. InitsComplete'
      BY <1>1 DEF TypeOK, Places, MainAt, Visits, Inits, InitsSound, InitsComplete
    <2>3. CoreFirst'
      BY <1>1 DEF TypeOK, Places, MainAt, Inits, CoreFirst, CoreInitialisedFirst, BootPlugins
    <2>4. PanicIsEarly'
      BY <1>1 DEF Inits, PanicIsEarly
    <2> QED
      BY <2>1, <2>2, <2>3, <2>4 DEF Inits
  <1>4. Attended'
    BY <1>1 DEF TypeOK, Places, HandlerAt, ReadyKnows, Attended, Will
  <1> QED
    BY <1>1, <1>2, <1>3, <1>4

LEMMA PauseNextInv ==
  ASSUME IInv, Alive, NEW p \in Plugin, PauseNext(p)
  PROVE  IInv'
  <1> USE ThreadAssumption, PluginAssumption
      DEF IInv, Alive, PauseNext, Thread, PC, Goto, Proceed, Order, Boot, Depends,
          Satisfied, flags, walk, world, commands
  <1>1. TypeOK'
    BY DEF TypeOK, Places, Counted, Queued, Visits, MainAt, HandlerAt
  <1>2. Places'
    <2>1. Counted' /\ Queued'
      BY <1>1 DEF TypeOK, Places, Counted, Queued, MainAt
    <2>2. Visits'
      BY <1>1 DEF TypeOK, Places, Visits, MainAt
    <2>3. MainAt'
      BY <1>1 DEF TypeOK, Places, MainAt, HandlerAt
    <2>4. HandlerAt' /\ ReadyKnows'
      BY <1>1 DEF TypeOK, Places, HandlerAt, ReadyKnows
    <2> QED
      BY <2>1, <2>2, <2>3, <2>4 DEF Places
  <1>3. Inits'
    <2>1. InitsSound'
      BY <1>1 DEF TypeOK, Places, MainAt, Visits, Inits, InitsSound
    <2>2. InitsComplete'
      BY <1>1 DEF TypeOK, Places, MainAt, Visits, Inits, InitsSound, InitsComplete
    <2>3. CoreFirst'
      BY <1>1 DEF TypeOK, Places, MainAt, Inits, CoreFirst, CoreInitialisedFirst, BootPlugins
    <2>4. PanicIsEarly'
      BY <1>1 DEF Inits, PanicIsEarly
    <2> QED
      BY <2>1, <2>2, <2>3, <2>4 DEF Inits
  <1>4. Attended'
    BY <1>1 DEF TypeOK, Places, HandlerAt, ReadyKnows, Attended, Will
  <1> QED
    BY <1>1, <1>2, <1>3, <1>4

LEMMA WriteCommandInv ==
  ASSUME IInv, Alive, WriteCommand
  PROVE  IInv'
  <1> USE ThreadAssumption, PluginAssumption
      DEF IInv, Alive, WriteCommand, Thread, PC, Goto, Proceed, Order, Boot, Depends,
          Satisfied, flags, walk, world, commands
  <1>1. TypeOK'
    BY DEF TypeOK, Places, Counted, Queued, Visits, MainAt, HandlerAt
  <1>2. Places'
    <2>1. Counted' /\ Queued'
      BY <1>1 DEF TypeOK, Places, Counted, Queued, MainAt
    <2>2. Visits'
      BY <1>1 DEF TypeOK, Places, Visits, MainAt
    <2>3. MainAt'
      BY <1>1 DEF TypeOK, Places, MainAt, HandlerAt
    <2>4. HandlerAt' /\ ReadyKnows'
      BY <1>1 DEF TypeOK, Places, HandlerAt, ReadyKnows
    <2> QED
      BY <2>1, <2>2, <2>3, <2>4 DEF Places
  <1>3. Inits'
    <2>1. InitsSound'
      BY <1>1 DEF TypeOK, Places, MainAt, Visits, Inits, InitsSound
    <2>2. InitsComplete'
      BY <1>1 DEF TypeOK, Places, MainAt, Visits, Inits, InitsSound, InitsComplete
    <2>3. CoreFirst'
      BY <1>1 DEF TypeOK, Places, MainAt, Inits, CoreFirst, CoreInitialisedFirst, BootPlugins
    <2>4. PanicIsEarly'
      BY <1>1 DEF Inits, PanicIsEarly
    <2> QED
      BY <2>1, <2>2, <2>3, <2>4 DEF Inits
  <1>4. Attended'
    BY <1>1 DEF TypeOK, Places, HandlerAt, ReadyKnows, Attended, Will
  <1> QED
    BY <1>1, <1>2, <1>3, <1>4

LEMMA FailCommandInv ==
  ASSUME IInv, Alive, FailCommand
  PROVE  IInv'
  <1> USE ThreadAssumption, PluginAssumption
      DEF IInv, Alive, FailCommand, Thread, PC, Goto, Proceed, Order, Boot, Depends,
          Satisfied, flags, walk, world, commands
  <1>1. TypeOK'
    BY DEF TypeOK, Places, Counted, Queued, Visits, MainAt, HandlerAt
  <1>2. Places'
    <2>1. Counted' /\ Queued'
      BY <1>1 DEF TypeOK, Places, Counted, Queued, MainAt
    <2>2. Visits'
      BY <1>1 DEF TypeOK, Places, Visits, MainAt
    <2>3. MainAt'
      BY <1>1 DEF TypeOK, Places, MainAt, HandlerAt
    <2>4. HandlerAt' /\ ReadyKnows'
      BY <1>1 DEF TypeOK, Places, HandlerAt, ReadyKnows
    <2> QED
      BY <2>1, <2>2, <2>3, <2>4 DEF Places
  <1>3. Inits'
    <2>1. InitsSound'
      BY <1>1 DEF TypeOK, Places, MainAt, Visits, Inits, InitsSound
    <2>2. InitsComplete'
      BY <1>1 DEF TypeOK, Places, MainAt, Visits, Inits, InitsSound, InitsComplete
    <2>3. CoreFirst'
      BY <1>1 DEF TypeOK, Places, MainAt, Inits, CoreFirst, CoreInitialisedFirst, BootPlugins
    <2>4. PanicIsEarly'
      BY <1>1 DEF Inits, PanicIsEarly
    <2> QED
      BY <2>1, <2>2, <2>3, <2>4 DEF Inits
  <1>4. Attended'
    BY <1>1 DEF TypeOK, Places, HandlerAt, ReadyKnows, Attended, Will
  <1> QED
    BY <1>1, <1>2, <1>3, <1>4

LEMMA AnswerCommandInv ==
  ASSUME IInv, Alive, AnswerCommand
  PROVE  IInv'
  <1> USE ThreadAssumption, PluginAssumption
      DEF IInv, Alive, AnswerCommand, Thread, PC, Goto, Proceed, Order, Boot, Depends,
          Satisfied, flags, walk, world, commands
  <1>1. TypeOK'
    BY DEF TypeOK, Places, Counted, Queued, Visits, MainAt, HandlerAt
  <1>2. Places'
    <2>1. Counted' /\ Queued'
      BY <1>1 DEF TypeOK, Places, Counted, Queued, MainAt
    <2>2. Visits'
      BY <1>1 DEF TypeOK, Places, Visits, MainAt
    <2>3. MainAt'
      BY <1>1 DEF TypeOK, Places, MainAt, HandlerAt
    <2>4. HandlerAt' /\ ReadyKnows'
      BY <1>1 DEF TypeOK, Places, HandlerAt, ReadyKnows
    <2> QED
      BY <2>1, <2>2, <2>3, <2>4 DEF Places
  <1>3. Inits'
    <2>1. InitsSound'
      BY <1>1 DEF TypeOK, Places, MainAt, Visits, Inits, InitsSound
    <2>2. InitsComplete'
      BY <1>1 DEF TypeOK, Places, MainAt, Visits, Inits, InitsSound, InitsComplete
    <2>3. CoreFirst'
      BY <1>1 DEF TypeOK, Places, MainAt, Inits, CoreFirst, CoreInitialisedFirst, BootPlugins
    <2>4. PanicIsEarly'
      BY <1>1 DEF Inits, PanicIsEarly
    <2> QED
      BY <2>1, <2>2, <2>3, <2>4 DEF Inits
  <1>4. Attended'
    BY <1>1 DEF TypeOK, Places, HandlerAt, ReadyKnows, Attended, Will
  <1> QED
    BY <1>1, <1>2, <1>3, <1>4

LEMMA GameStopInv ==
  ASSUME IInv, Alive, GameStop
  PROVE  IInv'
  <1> USE ThreadAssumption, PluginAssumption
      DEF IInv, Alive, GameStop, Happens, Lose, Thread, PC, Goto, Proceed, Order, Boot, Depends,
          Satisfied, flags, walk, world, commands
  <1>1. TypeOK'
    <2>1. /\ pc' \in [Thread -> PC] /\ readers' \in SUBSET Thread
          /\ at' \in [Thread -> Plugin \cup {NoPlugin}]
          /\ todo' \in [Thread -> SUBSET Plugin]
      BY DEF TypeOK
    <2>2. \A u \in readers' : pc'[u] \in {"pick", "set", "run", "init", "state"}
      BY DEF TypeOK, Places, MainAt, HandlerAt
    <2>3. \A u \in Thread :
            at'[u] # NoPlugin <=> pc'[u] \in {"set", "run", "init", "state"}
      BY DEF TypeOK, Places, HandlerAt
    <2>4. queue' \in Seq(Thread) /\ command' \in {"none", "owed", "lost"}
      BY DEF TypeOK, Places, Queued
    <2>5. /\ registered' \in SUBSET Plugin /\ count' \in 0..Len(Order')
          /\ inited' \in [Plugin -> BOOLEAN] /\ started' \in [Plugin -> BOOLEAN]
          /\ running' \in BOOLEAN /\ panicked' \in BOOLEAN
      BY DEF TypeOK, Places, Counted
    <2>6. /\ errBus' \in [{"stop", "disconnect"} -> Nat]
          /\ bus' \in Nat /\ streams' \in Nat
      BY DEF TypeOK
    <2>7. /\ incidents' \in [Incident -> Nat]
          /\ \A k \in Incident : incidents'[k] <= daemon'.incidents[k]
      BY HappensTyped DEF TypeOK, Incident
    <2> QED
      BY <2>1, <2>2, <2>3, <2>4, <2>5, <2>6, <2>7 DEF TypeOK
  <1>2. Places'
    <2>1. Counted' /\ Queued'
      BY <1>1 DEF TypeOK, Places, Counted, Queued, MainAt
    <2>2. Visits'
      BY <1>1 DEF TypeOK, Places, Visits, MainAt
    <2>3. MainAt'
      BY <1>1 DEF TypeOK, Places, MainAt, HandlerAt
    <2>4. HandlerAt' /\ ReadyKnows'
      BY <1>1 DEF TypeOK, Places, HandlerAt, ReadyKnows
    <2> QED
      BY <2>1, <2>2, <2>3, <2>4 DEF Places
  <1>3. Inits'
    <2>1. InitsSound'
      BY <1>1 DEF TypeOK, Places, MainAt, Visits, Inits, InitsSound
    <2>2. InitsComplete'
      BY <1>1 DEF TypeOK, Places, MainAt, Visits, Inits, InitsSound, InitsComplete
    <2>3. CoreFirst'
      BY <1>1 DEF TypeOK, Places, MainAt, Inits, CoreFirst, CoreInitialisedFirst, BootPlugins
    <2>4. PanicIsEarly'
      BY <1>1 DEF Inits, PanicIsEarly
    <2> QED
      BY <2>1, <2>2, <2>3, <2>4 DEF Inits
  <1>4. Attended'
    BY AttendedStays, DaemonFacts DEF TypeOK, Will
  <1> QED
    BY <1>1, <1>2, <1>3, <1>4

LEMMA DisconnectInv ==
  ASSUME IInv, Alive, Disconnect
  PROVE  IInv'
  <1> USE ThreadAssumption, PluginAssumption
      DEF IInv, Alive, Disconnect, Happens, Lose, Thread, PC, Goto, Proceed, Order, Boot, Depends,
          Satisfied, flags, walk, world, commands
  <1>1. TypeOK'
    <2>1. /\ pc' \in [Thread -> PC] /\ readers' \in SUBSET Thread
          /\ at' \in [Thread -> Plugin \cup {NoPlugin}]
          /\ todo' \in [Thread -> SUBSET Plugin]
      BY DEF TypeOK
    <2>2. \A u \in readers' : pc'[u] \in {"pick", "set", "run", "init", "state"}
      BY DEF TypeOK, Places, MainAt, HandlerAt
    <2>3. \A u \in Thread :
            at'[u] # NoPlugin <=> pc'[u] \in {"set", "run", "init", "state"}
      BY DEF TypeOK, Places, HandlerAt
    <2>4. queue' \in Seq(Thread) /\ command' \in {"none", "owed", "lost"}
      BY DEF TypeOK, Places, Queued
    <2>5. /\ registered' \in SUBSET Plugin /\ count' \in 0..Len(Order')
          /\ inited' \in [Plugin -> BOOLEAN] /\ started' \in [Plugin -> BOOLEAN]
          /\ running' \in BOOLEAN /\ panicked' \in BOOLEAN
      BY DEF TypeOK, Places, Counted
    <2>6. /\ errBus' \in [{"stop", "disconnect"} -> Nat]
          /\ bus' \in Nat /\ streams' \in Nat
      BY DEF TypeOK
    <2>7. /\ incidents' \in [Incident -> Nat]
          /\ \A k \in Incident : incidents'[k] <= daemon'.incidents[k]
      BY HappensTyped DEF TypeOK, Incident
    <2> QED
      BY <2>1, <2>2, <2>3, <2>4, <2>5, <2>6, <2>7 DEF TypeOK
  <1>2. Places'
    <2>1. Counted' /\ Queued'
      BY <1>1 DEF TypeOK, Places, Counted, Queued, MainAt
    <2>2. Visits'
      BY <1>1 DEF TypeOK, Places, Visits, MainAt
    <2>3. MainAt'
      BY <1>1 DEF TypeOK, Places, MainAt, HandlerAt
    <2>4. HandlerAt' /\ ReadyKnows'
      BY <1>1 DEF TypeOK, Places, HandlerAt, ReadyKnows
    <2> QED
      BY <2>1, <2>2, <2>3, <2>4 DEF Places
  <1>3. Inits'
    <2>1. InitsSound'
      BY <1>1 DEF TypeOK, Places, MainAt, Visits, Inits, InitsSound
    <2>2. InitsComplete'
      BY <1>1 DEF TypeOK, Places, MainAt, Visits, Inits, InitsSound, InitsComplete
    <2>3. CoreFirst'
      BY <1>1 DEF TypeOK, Places, MainAt, Inits, CoreFirst, CoreInitialisedFirst, BootPlugins
    <2>4. PanicIsEarly'
      BY <1>1 DEF Inits, PanicIsEarly
    <2> QED
      BY <2>1, <2>2, <2>3, <2>4 DEF Inits
  <1>4. Attended'
    BY AttendedStays, DaemonFacts DEF TypeOK, Will
  <1> QED
    BY <1>1, <1>2, <1>3, <1>4

-----------------------------------------------------------------------------
LEMMA StepInvariant == IInv /\ [Next]_vars => IInv'
  <1> SUFFICES ASSUME IInv, [Next]_vars PROVE IInv'
    OBVIOUS
  <1>1. CASE UNCHANGED vars
    <2> USE <1>1 DEF vars, IInv
    <2>1. TypeOK'
      BY DEF TypeOK, Order
    <2>2. Places'
      <3>1. Counted' /\ Queued'
        BY DEF Places, Counted, Queued, Order, Boot
      <3>2. Visits' /\ MainAt'
        BY DEF Places, Visits, MainAt, Satisfied, Depends
      <3>3. HandlerAt' /\ ReadyKnows'
        BY DEF Places, HandlerAt, ReadyKnows
      <3> QED
        BY <3>1, <3>2, <3>3 DEF Places
    <2>3. Inits'
      BY DEF Inits, InitsSound, InitsComplete, CoreFirst, CoreInitialisedFirst,
             PanicIsEarly, BootPlugins, Order, Boot, Satisfied, Depends
    <2>4. Attended'
      BY DEF Attended, Will, Order
    <2> QED
      BY <2>1, <2>2, <2>3, <2>4
  <1>2. ASSUME Alive, MainStep
        PROVE  IInv'
    BY <1>2, AskLockInv, RegisterInv, InitPluginInv, InitStartsInv, RegisteredInv,
       RLockInv, StartSetInv, StartReturnsInv, InitNextInv
    DEF MainStep, Thread
  <1>3. ASSUME Alive, NEW s \in Starter, StarterStep(s)
        PROVE  IInv'
    BY <1>3, LoginInv, StatusInv, StartGameInv, StarterFailsInv, ReadyInv, RLockInv,
       StartSetInv, StartReturnsInv, StartedAllInv, StartNextInv
    DEF StarterStep, Thread
  <1>4. ASSUME Alive, HandlerStep
        PROVE  IInv'
    BY <1>4, TakeErrorInv, RLockInv, PauseSetInv, PauseProcessorInv, PausedAllInv,
       PauseNextInv
    DEF HandlerStep, Thread
  <1>5. ASSUME Alive, Worker \/ GameStop \/ Disconnect
        PROVE  IInv'
    BY <1>5, WriteCommandInv, FailCommandInv, AnswerCommandInv, GameStopInv, DisconnectInv
    DEF Worker
  <1> QED
    BY <1>1, <1>2, <1>3, <1>4, <1>5 DEF Next

LEMMA Invariance == Spec => []IInv
  BY InitInvariant, StepInvariant, PTL DEF Spec

(* The plugins, the goroutines and what they share keep to their types; a  *)
(* goroutine that holds pluginLock is at work on the map.                  *)
THEOREM TypeCorrect == Spec => []TypeOK
  <1>1. IInv => TypeOK
    BY DEF IInv
  <1> QED
    BY <1>1, Invariance, PTL

(* Plugins are initialised after those they depend on, none is forgotten,  *)
(* and none of the core is started before its Init.                        *)
THEOREM StartsInOrder == Spec => []StartupOrder
  <1>1. ASSUME IInv PROVE InitAfterDepends
    BY <1>1 DEF IInv, Places, MainAt, Inits, InitsSound, InitAfterDepends
  <1>2. ASSUME IInv PROVE DelayedInit
    BY <1>2 DEF IInv, Places, MainAt, Inits, InitsComplete, DelayedInit
  <1>3. IInv => StartupOrder
    BY <1>1, <1>2 DEF IInv, Inits, CoreFirst, StartupOrder
  <1> QED
    BY <1>3, Invariance, PTL

(* When everything has come to rest with the game running, every plugin is *)
(* started, however the loops of the starters, of Main and of errorHandler *)
(* have met.                                                               *)
THEOREM NobodyIsMissed == Spec => []NobodyMissed
  <1>1. ASSUME IInv, Quiet, running, handling # "stop", NEW i \in 1..Len(Order)
        PROVE  started[Order[i]]
    <2>1. Order[i] \in registered /\ Satisfied(Order[i])
      <3>1. Counted /\ count = Len(Order) /\ daemon \in Daemons
        BY <1>1 DEF IInv, TypeOK, Places, Counted, Quiet
      <3>2. Order[i] \in registered
        BY <1>1, <3>1 DEF Counted
      <3> QED
        BY <3>1, <3>2, CoreRegistered, DaemonFacts
    <2>2. inited[Order[i]]
      BY <1>1, <2>1 DEF IInv, Places, MainAt, Inits, InitsComplete, Quiet
    <2>3. \A s \in Starter : ~Will(s, Order[i])
      BY <1>1 DEF Quiet, Will
    <2> QED
      BY <1>1, <2>2, <2>3 DEF IInv, Attended, Quiet
  <1>2. IInv => NobodyMissed
    BY <1>1 DEF NobodyMissed
  <1> QED
    BY <1>2, Invariance, PTL
=============================================================================
