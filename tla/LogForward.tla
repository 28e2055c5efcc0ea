------------------------------ MODULE LogForward ------------------------------
(***************************************************************************)
(* The way of a log line and of the message "GameServerStop" from the game *)
(* to the plugins of a daemon:                                             *)
(*                                                                         *)
(*   game -> logForwardWorker -> forward channel -> Message (a stream)     *)
(*        -> gRPC -> messageForwardWorker -> channels of the daemon        *)
(*                                                                         *)
(* (core/gamemanager/gamemanager.go and core/core.go).  The message of a   *)
(* stop skips the forward channels: it waits in messageBus, which all      *)
(* streams share, for whichever stream takes it.  When a connection breaks *)
(* the daemon opens a new stream and starts another messageForwardWorker;  *)
(* all its workers read the field messageBus.client anew for each message. *)
(*                                                                         *)
(* A line is its number, a stream (with its forward channel and the worker *)
(* that was started for it) the number of its opening.                     *)
(***************************************************************************)
EXTENDS Naturals, Sequences

CONSTANTS Daemon,     \* connected daemons
          MaxLines,   \* bound: lines the game writes
          MaxStreams, \* bound: streams that are opened
          Bounds,     \* pairs <<lines, streams>> within these two bounds
          MaxBreaks,  \* bound: connections that break
          ForwardCap, \* capacity of a forward channel (16384)
          WireCap,    \* messages gRPC buffers before Send blocks
          ChannelCap, \* capacity of a channel of the daemon (16384)
          None        \* no daemon

ASSUME BoundAssumption == /\ MaxLines \in Nat /\ MaxStreams \in Nat
                          /\ MaxBreaks \in Nat
                          /\ Bounds \subseteq (0..MaxLines) \X (0..MaxStreams)
ASSUME CapAssumption == /\ ForwardCap \in Nat \ {0} /\ WireCap \in Nat \ {0}
                        /\ ChannelCap \in Nat \ {0}
ASSUME NoneAssumption == None \notin Daemon

Stream == 1..MaxStreams
StopMsg == 0          \* "GameServerStop"; lines are 1, 2, ...
Message == 0..MaxLines

VARIABLES bound,     \* which of Bounds holds in this behaviour
          read,      \* lines logForwardWorker has read
          bus,       \* whether messageBus holds the stop: "", "full", "taken"
          owner,     \* the daemon that opened each stream
          stream,    \* the handler of each stream ...
          forward,   \* ... its forward channel ...
          wire,      \* ... and what it has sent and no Recv has returned
          current,   \* messageBus.client of each daemon: its last stream
          worker,    \* messageForwardWorker of each stream
          up,        \* daemons with a sound connection
          dead,      \* streams whose connection has broken
          ready,     \* daemons that have made errBus
          errBus,    \* errBus of each daemon: a stop, or who was disconnected
          reconnect, \* the goroutine the error of each worker starts
          monitor,   \* the channel of monitorGameStopWorker
          channel,   \* the channel of one log processor ...
          listening, \* ... and whether it is registered
          heard,     \* history: the lines that processor has been given
          told,      \* history: daemons whose errorHandler got the stop
          breaks,    \* connections broken so far
          flaws      \* history: which exceptions have happened

logVars == <<bound, read, bus, owner, stream, forward, wire, current, worker, up, dead,
             ready, errBus, reconnect, told, monitor, channel, listening, heard,
             breaks, flaws>>

server == <<read, bus, stream, forward>>
streams == <<owner, current>>
errors == <<ready, errBus, reconnect, told>>
plugins == <<monitor, channel, listening, heard>>
net == <<up, dead, breaks>>

(* What can go wrong, by name: a full forward channel or a full channel of  *)
(* the daemon drops a message; a dead stream takes the stop or dies with   *)
(* it; the stop comes before anybody listens for it; a connection breaks   *)
(* before errBus exists; StartMinecraft fails; and after that a stream is  *)
(* opened beside one that still works or is still read.                    *)
Flaw == {"full", "swallowed", "early", "deaf", "failed", "reopened"}

LogTypeOK ==
  /\ bound \in Bounds
  /\ read \in 0..MaxLines
  /\ bus \in {"", "full", "taken"}
  /\ owner \in [Stream -> Daemon \cup {None}]
  /\ stream \in [Stream -> {"none", "called", "open", "ended"}]
  /\ \A s \in Stream : /\ forward[s] \in Seq(1..MaxLines)
                       /\ Len(forward[s]) <= ForwardCap
                       /\ wire[s] \in Seq(Message) /\ Len(wire[s]) <= WireCap
  /\ current \in [Daemon -> 0..MaxStreams]
  /\ worker \in [Stream -> [pc : {"none", "load", "recv", "forward",
                                  "report"},
                            on : 0..MaxStreams, got : Message]]
  /\ up \subseteq Daemon
  /\ dead \subseteq Stream
  /\ ready \subseteq Daemon
  /\ reconnect \in [Stream -> {"none", "client", "start"}]
  /\ \A d \in Daemon : /\ errBus[d] \in Seq(Message \cup Stream)
                       /\ Len(errBus[d]) <= 1
                       /\ monitor[d] \in Seq(Message)
                       /\ Len(monitor[d]) <= ChannelCap
                       /\ channel[d] \in Seq(Message)
                       /\ Len(channel[d]) <= ChannelCap
                       /\ heard[d] \in Seq(1..MaxLines)
  /\ listening \in [Daemon -> {"no", "yes", "closed"}]
  /\ told \subseteq Daemon
  /\ breaks \in 0..MaxBreaks
  /\ flaws \subseteq Flaw

NoWorker == [pc |-> "none", on |-> 0, got |-> 0]

LogInit ==
  /\ bound \in Bounds
  /\ read = 0
  /\ bus = ""
  /\ owner = [s \in Stream |-> None]
  /\ stream = [s \in Stream |-> "none"]
  /\ forward = [s \in Stream |-> <<>>]
  /\ wire = [s \in Stream |-> <<>>]
  /\ current = [d \in Daemon |-> 0]
  /\ worker = [s \in Stream |-> NoWorker]
  /\ up = Daemon
  /\ dead = {}
  /\ ready = {}
  /\ errBus = [d \in Daemon |-> <<>>]
  /\ reconnect = [s \in Stream |-> "none"]
  /\ monitor = [d \in Daemon |-> <<>>]
  /\ channel = [d \in Daemon |-> <<>>]
  /\ listening = [d \in Daemon |-> "no"]
  /\ heard = [d \in Daemon |-> <<>>]
  /\ told = {}
  /\ breaks = 0
  /\ flaws = {}

-----------------------------------------------------------------------------
(* The manager                                                             *)

Registered == {s \in Stream : stream[s] = "open"}

Room(q, cap) == Len(q) < cap

(* One line of logForwardWorker.  The list of channels is locked meanwhile.*)
ReadLine ==
  /\ read < bound[1]
  /\ read' = read + 1
  /\ forward' = [s \in Stream |->
                   IF s \in Registered /\ Room(forward[s], ForwardCap)
                   THEN Append(forward[s], read') ELSE forward[s]]
  /\ flaws' = IF \A s \in Registered : Room(forward[s], ForwardCap)
              THEN flaws ELSE flaws \cup {"full"}
  /\ UNCHANGED <<bus, stream, wire, streams, worker, errors, plugins, net>>

(* stopDetect sends its message.                                           *)
GameServerStop ==
  /\ bus = ""
  /\ bus' = "full"
  /\ UNCHANGED <<read, stream, forward, wire, streams, worker, errors, plugins,
                 net, flaws>>

(* RegisterForwardChannel, by Message.                                     *)
Register(s) ==
  /\ stream[s] = "called"
  /\ stream' = [stream EXCEPT ![s] = "open"]
  /\ UNCHANGED <<read, bus, forward, wire, streams, worker, errors, plugins,
                 net, flaws>>

(* Send: it waits for the peer, and fails at once on a dead stream.        *)
CanSend(s) == stream[s] = "open" /\ (s \in dead \/ Room(wire[s], WireCap))

SendTo(s, m) ==
  wire' = IF s \in dead THEN wire ELSE [wire EXCEPT ![s] = Append(@, m)]

StreamSends(s) ==
  /\ CanSend(s)
  /\ forward[s] # <<>>
  /\ SendTo(s, Head(forward[s]))
  /\ forward' = [forward EXCEPT ![s] = Tail(@)]
  /\ UNCHANGED <<read, bus, stream, streams, worker, errors, plugins, net,
                 flaws>>

(* The select of Message may prefer messageBus to the end of its context.  *)
StreamTakesStop(s) ==
  /\ CanSend(s)
  /\ bus = "full"
  /\ bus' = "taken"
  /\ SendTo(s, StopMsg)
  /\ flaws' = IF s \in dead THEN flaws \cup {"swallowed"} ELSE flaws
  /\ UNCHANGED <<read, stream, forward, streams, worker, errors, plugins, net>>

(* The context of the stream is done: UnregisterForwardChannel.            *)
StreamEnds(s) ==
  /\ stream[s] = "open"
  /\ s \in dead
  /\ stream' = [stream EXCEPT ![s] = "ended"]
  /\ forward' = [forward EXCEPT ![s] = <<>>]
  /\ UNCHANGED <<read, bus, wire, streams, worker, errors, plugins, net, flaws>>

-----------------------------------------------------------------------------
(* The connection of d breaks: its streams die, and of what is under way   *)
(* to it only what has already arrived can be received.                    *)

StreamsOf(d) == {s \in Stream : owner[s] = d}

Break(d) ==
  /\ breaks < MaxBreaks
  /\ d \in up
  /\ breaks' = breaks + 1
  /\ up' = up \ {d}
  /\ dead' = dead \cup StreamsOf(d)
  /\ \E n \in 0..WireCap :
       LET Lost(s) == s \in StreamsOf(d) /\ Len(wire[s]) > n
       IN  /\ wire' = [s \in Stream |-> IF Lost(s) THEN SubSeq(wire[s], 1, n)
                                      ELSE wire[s]]
           /\ flaws' = IF \E s \in Stream : Lost(s) /\ \E i \in n + 1..Len(wire[s]) :
                                                       wire[s][i] = StopMsg
                       THEN flaws \cup {"swallowed"} ELSE flaws
  /\ UNCHANGED <<server, streams, worker, errors, plugins>>

Restore(d) ==
  /\ d \notin up
  /\ up' = up \cup {d}
  /\ UNCHANGED <<server, wire, streams, worker, errors, plugins, dead, breaks,
                 flaws>>

-----------------------------------------------------------------------------
(* A daemon                                                                *)

(* registerServerMessageListener: a new stream, and a worker for it.       *)
OpenStream(d) ==
  /\ d \in up
  /\ \E s \in 1..bound[2] :
       /\ owner[s] = None
       /\ \A t \in Stream : t < s => owner[t] # None
       /\ owner' = [owner EXCEPT ![s] = d]
       /\ stream' = [stream EXCEPT ![s] = "called"]
       /\ current' = [current EXCEPT ![d] = s]
       /\ worker' = [worker EXCEPT ![s].pc = "load"]
  /\ flaws' = IF /\ "failed" \in flaws
                 /\ \E t \in StreamsOf(d) : t \notin dead \/ worker[t].pc # "none"
              THEN flaws \cup {"reopened"} ELSE flaws
  /\ UNCHANGED <<read, bus, forward, wire, plugins, net>>

(* initManager: initClient, and then initErrorHandler, which makes errBus  *)
(* and registers the channel of monitorGameStopWorker.                     *)
Dial(d) == current[d] = 0 /\ OpenStream(d) /\ UNCHANGED errors

InitErrorHandler(d) ==
  /\ current[d] # 0
  /\ d \notin ready
  /\ ready' = ready \cup {d}
  /\ UNCHANGED <<server, wire, streams, worker, errBus, reconnect, told, plugins,
                 net, flaws>>

(* messageForwardWorker: it reads the field client, receives from that     *)
(* stream, and hands the message to every channel that has room.           *)
Load(s) ==
  /\ worker[s].pc = "load"
  /\ worker' = [worker EXCEPT ![s].pc = "recv", ![s].on = current[owner[s]]]
  /\ UNCHANGED <<server, wire, streams, errors, plugins, net, flaws>>

Recv(s) ==
  LET t == worker[s].on IN
  /\ worker[s].pc = "recv"
  /\ \/ /\ wire[t] # <<>>
        /\ worker' = [worker EXCEPT ![s].pc = "forward",
                                    ![s].got = Head(wire[t])]
        /\ wire' = [wire EXCEPT ![t] = Tail(@)]
     \/ /\ wire[t] = <<>> /\ t \in dead
        /\ worker' = [worker EXCEPT ![s].pc = "report"]
        /\ UNCHANGED wire
  /\ UNCHANGED <<server, streams, errors, plugins, net, flaws>>

(* A send with default: q gets m if it has room.                           *)
Offer(q, m) == IF Room(q, ChannelCap) THEN Append(q, m) ELSE q

Forward(s) ==
  LET d == owner[s]
      m == worker[s].got
      full == \/ d \in ready /\ ~Room(monitor[d], ChannelCap)
              \/ listening[d] = "yes" /\ ~Room(channel[d], ChannelCap)
      early == m = StopMsg /\ d \notin ready
  IN  /\ worker[s].pc = "forward"
      /\ worker' = [worker EXCEPT ![s] = [NoWorker EXCEPT !.pc = "load"]]
      /\ monitor' = IF d \in ready THEN [monitor EXCEPT ![d] = Offer(@, m)]
                    ELSE monitor
      /\ channel' = IF listening[d] = "yes"
                    THEN [channel EXCEPT ![d] = Offer(@, m)] ELSE channel
      /\ flaws' = flaws \cup (IF full THEN {"full"} ELSE {})
                        \cup (IF early THEN {"early"} ELSE {})
      /\ UNCHANGED <<server, wire, streams, errors, listening, heard, net>>

(* Mutant: the worker goes on with whatever stream comes next.             *)
ReportAndGoOn(s) ==
  LET d == owner[s] IN
  /\ worker[s].pc = "report"
  /\ \/ /\ d \in ready /\ Room(errBus[d], 1)
        /\ errBus' = [errBus EXCEPT ![d] = Append(@, s)]
        /\ UNCHANGED flaws
     \/ /\ d \notin ready
        /\ flaws' = flaws \cup {"deaf"}
        /\ UNCHANGED errBus
  /\ worker' = [worker EXCEPT ![s] = [NoWorker EXCEPT !.pc = "load"]]
  /\ UNCHANGED <<server, wire, streams, ready, reconnect, told, plugins, net>>

(* The stream has failed: the worker reports errGrpcChannelDisconnect and  *)
(* ends.                                                                   *)
Report(s) ==
  LET d == owner[s] IN
  /\ worker[s].pc = "report"
  /\ \/ /\ d \in ready /\ Room(errBus[d], 1)
        /\ errBus' = [errBus EXCEPT ![d] = Append(@, s)]
        /\ UNCHANGED flaws
     \/ /\ d \notin ready
        /\ flaws' = flaws \cup {"deaf"}
        /\ UNCHANGED errBus
  /\ worker' = [worker EXCEPT ![s] = NoWorker]
  /\ UNCHANGED <<server, wire, streams, ready, reconnect, told, plugins, net>>

(* Mutant: a stop that finds errBus full is dropped.                       *)
MonitorDrops(d) ==
  /\ monitor[d] # <<>>
  /\ monitor' = [monitor EXCEPT ![d] = Tail(@)]
  /\ errBus' = IF Head(monitor[d]) # StopMsg \/ ~Room(errBus[d], 1) THEN errBus
               ELSE [errBus EXCEPT ![d] = Append(@, StopMsg)]
  /\ UNCHANGED <<server, wire, streams, worker, ready, reconnect, told, channel,
                 listening, heard, net, flaws>>

(* monitorGameStopWorker                                                   *)
Monitor(d) ==
  /\ monitor[d] # <<>>
  /\ Head(monitor[d]) = StopMsg => Room(errBus[d], 1)
  /\ monitor' = [monitor EXCEPT ![d] = Tail(@)]
  /\ errBus' = IF Head(monitor[d]) # StopMsg THEN errBus
               ELSE [errBus EXCEPT ![d] = Append(@, StopMsg)]
  /\ UNCHANGED <<server, wire, streams, worker, ready, reconnect, told, channel,
                 listening, heard, net, flaws>>

(* errorHandler: plugins pause (see PluginManager), and after a            *)
(* disconnection a goroutine logs in again.                                *)
HandleError(d) ==
  /\ errBus[d] # <<>>
  /\ errBus' = [errBus EXCEPT ![d] = Tail(@)]
  /\ \/ /\ Head(errBus[d]) = StopMsg
        /\ told' = told \cup {d}
        /\ UNCHANGED reconnect
     \/ /\ Head(errBus[d]) # StopMsg
        /\ reconnect' = [reconnect EXCEPT ![Head(errBus[d])] = "client"]
        /\ UNCHANGED told
  /\ UNCHANGED <<server, wire, streams, worker, ready, plugins, net, flaws>>

(* initClient, which waits for the manager ...                             *)
InitClient(s) ==
  /\ reconnect[s] = "client"
  /\ OpenStream(owner[s])
  /\ reconnect' = [reconnect EXCEPT ![s] = "start"]
  /\ UNCHANGED <<ready, errBus, told>>

(* ... and StartMinecraft.  When it fails everything begins again.         *)
StartMinecraft(s) ==
  /\ reconnect[s] = "start"
  /\ \/ /\ reconnect' = [reconnect EXCEPT ![s] = "none"]
        /\ UNCHANGED flaws
     \/ /\ reconnect' = [reconnect EXCEPT ![s] = "client"]
        /\ flaws' = flaws \cup {"failed"}
  /\ UNCHANGED <<server, wire, streams, worker, ready, errBus, told, plugins,
                 net>>

-----------------------------------------------------------------------------
(* A plugin: RegisterLogProcesser, the goroutine that reads the channel,   *)
(* and UnRegisterManagerMessageChannel with close.                         *)

RegisterLogProcesser(d) ==
  /\ d \in ready
  /\ listening[d] = "no"
  /\ listening' = [listening EXCEPT ![d] = "yes"]
  /\ UNCHANGED <<server, wire, streams, worker, errors, monitor, channel, heard,
                 net, flaws>>

Process(d) ==
  /\ channel[d] # <<>>
  /\ channel' = [channel EXCEPT ![d] = Tail(@)]
  /\ heard' = IF Head(channel[d]) = StopMsg THEN heard
              ELSE [heard EXCEPT ![d] = Append(@, Head(channel[d]))]
  /\ UNCHANGED <<server, wire, streams, worker, errors, monitor, listening, net,
                 flaws>>

Unregister(d) ==
  /\ listening[d] = "yes"
  /\ listening' = [listening EXCEPT ![d] = "closed"]
  /\ UNCHANGED <<server, wire, streams, worker, errors, monitor, channel, heard,
                 net, flaws>>

-----------------------------------------------------------------------------
StreamStep(s) == Register(s) \/ StreamSends(s) \/ StreamTakesStop(s) \/ StreamEnds(s)

WorkerStep(s) == Load(s) \/ Recv(s) \/ Forward(s) \/ Report(s)

ReconnectStep(s) == InitClient(s) \/ StartMinecraft(s)

DaemonStep(d) == Dial(d) \/ InitErrorHandler(d) \/ Monitor(d) \/ HandleError(d)

Step ==
  \/ ReadLine \/ GameServerStop
  \/ \E s \in Stream : StreamStep(s) \/ WorkerStep(s) \/ ReconnectStep(s)
  \/ \E d \in Daemon : \/ DaemonStep(d) \/ Break(d) \/ Restore(d)
                       \/ RegisterLogProcesser(d) \/ Process(d)
                       \/ Unregister(d)

LogNext == Step /\ UNCHANGED bound

LogSpec == LogInit /\ [][LogNext]_logVars

(* Goroutines run, and a connection that breaks comes back.                *)
LogFairness ==
  /\ \A s \in Stream : /\ WF_logVars(StreamStep(s) /\ UNCHANGED bound)
                       /\ WF_logVars(WorkerStep(s) /\ UNCHANGED bound)
                       /\ WF_logVars(ReconnectStep(s) /\ UNCHANGED bound)
  /\ \A d \in Daemon : /\ WF_logVars(DaemonStep(d) /\ UNCHANGED bound)
                       /\ WF_logVars(Restore(d) /\ UNCHANGED bound)

LogFairSpec == LogSpec /\ LogFairness

-----------------------------------------------------------------------------
(* A log processor is given each line once, in the order the game wrote    *)
(* them, whatever breaks and is opened again: exception is a stream opened *)
(* while an earlier one still works or is still read, after StartMinecraft *)
(* has failed.                                                             *)
LinesInOrder ==
  "reopened" \notin flaws =>
    \A d \in Daemon : \A i \in 1..Len(heard[d]) : \A j \in 1..Len(heard[d]) :
      i < j => heard[d][i] < heard[d][j]

(* No line is left out between two that arrive, unless a channel was full  *)
(* or the connection broke in between.                                     *)
NoLineLost ==
  \A d \in Daemon :
    (flaws \cap {"reopened", "full"} = {} /\ StreamsOf(d) \cap dead = {}) =>
      \A i \in 1..Len(heard[d]) : heard[d][i] = heard[d][1] + i - 1

(* The log arrives as it was written.                                      *)
LinesArrive == LinesInOrder /\ NoLineLost

(* A daemon learns that the game has stopped, unless the message dies on   *)
(* its way in one of the named ways or waits in a stream nobody reads.     *)
Unread(s) == s # current[owner[s]] /\ \A t \in Stream : worker[t].on # s

StopReported ==
  bus # "" ~>
    \/ told # {} \/ flaws \cap {"swallowed", "early", "full", "deaf"} # {}
    \/ \E s \in Stream : \E i \in 1..Len(wire[s]) :
          wire[s][i] = StopMsg /\ Unread(s)
=============================================================================
