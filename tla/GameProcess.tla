----------------------------- MODULE GameProcess -----------------------------
(***************************************************************************)
(* The game as a child process of the manager                              *)
(* (core/gamemanager/gamemanager.go): the RPCs Start and Stop, the         *)
(* goroutine that notices the end of the game (stopDetect), the one that   *)
(* reads its log (logForwardWorker), and the timer with which Stop sends   *)
(* SIGTERM.  All of them share minecraftInstance and forwardWorker without *)
(* any lock.  What the reader does with a line is part of LogForward.      *)
(*                                                                         *)
(* Games are numbered in the order in which their processes are created;   *)
(* the number also names the pipes to a game (its pty).  0 is nil.         *)
(* Durations are abstracted: an armed timer may fire at any moment.        *)
(***************************************************************************)
EXTENDS Naturals

CONSTANTS Handler,  \* goroutines that can be serving an RPC at once
          MaxGames, \* bound: processes created in a run
          MaxCalls, \* bound: RPCs made in a run
          Cap       \* capacity of messageBus (32)

ASSUME BoundAssumption == MaxGames \in Nat /\ MaxCalls \in Nat
ASSUME CapAssumption == Cap \in Nat \ {0}

Game == 1..MaxGames

VARIABLES state,     \* minecraftInstance.state
          process,   \* minecraftInstance.process
          pty,       \* minecraftInstance.pty
          game,      \* the processes themselves
          closed,    \* games whose pty the manager has closed
          pc,        \* where each handler is
          mine,      \* the game each handler creates or waits for
          detector,  \* stopDetect of each Start: where it is ...
          watched,   \* ... and the game it waits for
          forwardWorker, \* whether logForwardWorker counts as running
          reader,    \* logForwardWorker of each Start: where it is ...
          scanned,   \* ... and the game whose pty it scans
          timers,    \* SIGTERM timers that have not fired
          bus,       \* how many messages messageBus holds
          told,      \* history: games whose console got the line "stop"
          asked,     \* history: games a Stop has waited for
          signalled, \* history: games that were sent SIGTERM
          raced,     \* history: two Starts have passed the check at once
          overtaken, \* history: a Start has replaced the pty Stop closes
          failed,    \* history: a process could not be created
          tooLong,   \* history: a line did not fit the buffer of a reader
          unread,    \* history: games whose Start saw an earlier reader
          panicked,  \* a nil dereference has killed the manager
          calls      \* RPCs made so far

vars == <<state, process, pty, game, closed, pc, mine, detector, watched,
          forwardWorker, reader, scanned, timers, bus, told, asked, signalled,
          raced, overtaken, failed, tooLong, unread, panicked, calls>>

rpc == <<pc, mine, calls>>
instance == <<state, process, pty>>
games == <<game, closed>>
watch == <<detector, watched>>
log == <<forwardWorker, reader, scanned, tooLong, unread>>
history == <<told, asked, signalled, raced, overtaken, failed>>
rest == <<log, timers, bus, history, panicked>>

TypeOK ==
  /\ state \in {"stopped", "running"}
  /\ process \in 0..MaxGames
  /\ pty \in 0..MaxGames
  /\ game \in [Game -> {"none", "up", "exited"}]
  /\ closed \in SUBSET Game
  /\ pc \in [Handler -> {"idle", "check", "set", "spawn", "process", "pty",
                         "bus", "reader", "watch", "stop", "ask", "wait", "close"}]
  /\ mine \in [Handler -> 0..MaxGames]
  /\ detector \in [Game -> {"none", "new", "wait", "close", "state", "send"}]
  /\ watched \in [Game -> 0..MaxGames]
  /\ forwardWorker \in BOOLEAN
  /\ reader \in [Game -> {"none", "new", "begin", "scan", "end"}]
  /\ scanned \in [Game -> 0..MaxGames]
  /\ timers \in Nat
  /\ bus \in 0..Cap
  /\ told \in SUBSET Game
  /\ asked \in SUBSET Game
  /\ signalled \in SUBSET Game
  /\ raced \in BOOLEAN
  /\ overtaken \in BOOLEAN
  /\ failed \in BOOLEAN
  /\ tooLong \in BOOLEAN
  /\ unread \subseteq Game
  /\ panicked \in BOOLEAN
  /\ calls \in 0..MaxCalls

Init ==
  /\ state = "stopped"
  /\ process = 0
  /\ pty = 0
  /\ game = [g \in Game |-> "none"]
  /\ closed = {}
  /\ pc = [h \in Handler |-> "idle"]
  /\ mine = [h \in Handler |-> 0]
  /\ detector = [g \in Game |-> "none"]
  /\ watched = [g \in Game |-> 0]
  /\ forwardWorker = FALSE
  /\ reader = [g \in Game |-> "none"]
  /\ scanned = [g \in Game |-> 0]
  /\ timers = 0
  /\ bus = 0
  /\ told = {}
  /\ asked = {}
  /\ signalled = {}
  /\ raced = FALSE
  /\ overtaken = FALSE
  /\ failed = FALSE
  /\ tooLong = FALSE
  /\ unread = {}
  /\ panicked = FALSE
  /\ calls = 0

Goto(h, l) == pc' = [pc EXCEPT ![h] = l]

Return(h) == /\ Goto(h, "idle")
             /\ mine' = [mine EXCEPT ![h] = 0]

(* An RPC arrives: Start or Stop.  (Write is part of module WriteLock.)    *)
Call(h, l) ==
  /\ pc[h] = "idle"
  /\ calls < MaxCalls
  /\ calls' = calls + 1
  /\ Goto(h, l)
  /\ UNCHANGED <<mine, instance, games, watch, rest>>

-----------------------------------------------------------------------------
(* Start                                                                   *)

StartCheck(h) ==
  /\ pc[h] = "check"
  /\ \/ state # "stopped" /\ Goto(h, "idle")
     \/ state = "stopped" /\ Goto(h, "set")
  /\ UNCHANGED <<mine, calls, instance, games, watch, rest>>

StartSet(h) ==
  /\ pc[h] = "set"
  /\ state' = "running"
  /\ raced' = (raced \/ state = "running" \/ \E i \in Handler \ {h} :
                                               pc[i] = "set")
  /\ Goto(h, "spawn")
  /\ UNCHANGED <<mine, calls, process, pty, games, watch, log, timers, bus, told,
                 asked, signalled, overtaken, failed, panicked>>

(* cmd.Start.  When it fails the state stays what StartSet made it.        *)
Spawn(h) ==
  /\ pc[h] = "spawn"
  /\ \/ \E g \in Game :
          /\ game[g] = "none"
          /\ \A i \in Game : i < g => game[i] # "none"
          /\ game' = [game EXCEPT ![g] = "up"]
          /\ mine' = [mine EXCEPT ![h] = g]
          /\ Goto(h, "process")
          /\ UNCHANGED failed
     \/ /\ failed' = TRUE
        /\ Goto(h, "idle")
        /\ UNCHANGED <<game, mine>>
  /\ UNCHANGED <<calls, instance, closed, watch, log, timers, bus, told, asked,
                 signalled, raced, overtaken, panicked>>

SetProcess(h) ==
  /\ pc[h] = "process"
  /\ process' = mine[h]
  /\ Goto(h, "pty")
  /\ UNCHANGED <<mine, calls, state, pty, games, watch, rest>>

SetPty(h) ==
  /\ pc[h] = "pty"
  /\ pty' = mine[h]
  /\ Goto(h, "bus")
  /\ UNCHANGED <<mine, calls, state, process, games, watch, rest>>

(* Mutant: a message bus without a limit.                                  *)
AnnounceUnbounded(h) ==
  /\ pc[h] = "bus"
  /\ bus' = bus + 1
  /\ Goto(h, "reader")
  /\ UNCHANGED <<mine, calls, instance, games, watch, log, timers, history,
                 panicked>>

(* "StartGameServer"                                                       *)
Announce(h) ==
  /\ pc[h] = "bus"
  /\ bus < Cap
  /\ bus' = bus + 1
  /\ Goto(h, "reader")
  /\ UNCHANGED <<mine, calls, instance, games, watch, log, timers, history,
                 panicked>>

(* A logForwardWorker, unless there seems to be one.                       *)
StartReader(h) ==
  /\ pc[h] = "reader"
  /\ \/ /\ ~forwardWorker
        /\ reader' = [reader EXCEPT ![mine[h]] = "new"]
        /\ UNCHANGED unread
     \/ /\ forwardWorker
        /\ unread' = IF \E g \in Game : reader[g] \in {"scan", "end"}
                     THEN unread \cup {mine[h]} ELSE unread
        /\ UNCHANGED reader
  /\ Goto(h, "watch")
  /\ UNCHANGED <<mine, calls, instance, games, watch, forwardWorker, scanned,
                 tooLong, timers, bus, history, panicked>>

(* Mutant: nobody waits for the end of the game.                           *)
StartUnwatched(h) ==
  /\ pc[h] = "watch"
  /\ Return(h)
  /\ UNCHANGED <<calls, instance, games, watch, rest>>

StartWatch(h) ==
  /\ pc[h] = "watch"
  /\ detector' = [detector EXCEPT ![mine[h]] = "new"]
  /\ Return(h)
  /\ UNCHANGED <<calls, instance, games, watched, rest>>

-----------------------------------------------------------------------------
(* stopDetect, launched by the Start of game s.  It waits for whatever     *)
(* process is when it begins.                                              *)

Detect(s) ==
  /\ detector[s] = "new"
  /\ detector' = [detector EXCEPT ![s] = "wait"]
  /\ watched' = [watched EXCEPT ![s] = process]
  /\ UNCHANGED <<rpc, instance, games, rest>>

(* Mutant: the state is set before the pty is closed.                      *)
DetectedTooOpen(s) ==
  /\ detector[s] = "wait"
  /\ game[watched[s]] = "exited"
  /\ detector' = [detector EXCEPT ![s] = "close"]
  /\ state' = "stopped"
  /\ UNCHANGED <<rpc, process, pty, games, watched, rest>>

(* Process.Wait returns.                                                   *)
Detected(s) ==
  /\ detector[s] = "wait"
  /\ game[watched[s]] = "exited"
  /\ detector' = [detector EXCEPT ![s] = "close"]
  /\ UNCHANGED <<rpc, instance, games, watched, rest>>

DetectorCloses(s) ==
  /\ detector[s] = "close"
  /\ closed' = closed \cup {pty}
  /\ detector' = [detector EXCEPT ![s] = "state"]
  /\ UNCHANGED <<rpc, instance, game, watched, rest>>

DetectorSets(s) ==
  /\ detector[s] = "state"
  /\ state' = "stopped"
  /\ detector' = [detector EXCEPT ![s] = "send"]
  /\ UNCHANGED <<rpc, process, pty, games, watched, rest>>

(* "GameServerStop"                                                        *)
DetectorSends(s) ==
  /\ detector[s] = "send"
  /\ bus < Cap
  /\ bus' = bus + 1
  /\ detector' = [detector EXCEPT ![s] = "none"]
  /\ UNCHANGED <<rpc, instance, games, watched, log, timers, history, panicked>>

-----------------------------------------------------------------------------
(* logForwardWorker, launched by the Start of game s.  It scans whatever   *)
(* pty is when it begins (pty is never nil by then).                       *)

ReaderCheck(s) ==
  /\ reader[s] = "new"
  /\ reader' = [reader EXCEPT ![s] = IF forwardWorker THEN "none" ELSE "begin"]
  /\ UNCHANGED <<rpc, instance, games, watch, forwardWorker, scanned, tooLong,
                 unread, timers, bus, history, panicked>>

ReaderBegins(s) ==
  /\ reader[s] = "begin"
  /\ forwardWorker' = TRUE
  /\ reader' = [reader EXCEPT ![s] = "scan"]
  /\ scanned' = [scanned EXCEPT ![s] = pty]
  /\ UNCHANGED <<rpc, instance, games, watch, tooLong, unread, timers, bus,
                 history, panicked>>

(* End of file, a closed pipe, or a line longer than the buffer.           *)
ReaderEnds(s) ==
  /\ reader[s] = "scan"
  /\ \/ /\ game[scanned[s]] = "exited" \/ scanned[s] \in closed
        /\ UNCHANGED tooLong
     \/ /\ game[scanned[s]] = "up"
        /\ tooLong' = TRUE
  /\ reader' = [reader EXCEPT ![s] = "end"]
  /\ UNCHANGED <<rpc, instance, games, watch, forwardWorker, scanned, unread,
                 timers, bus, history, panicked>>

(* Mutant: the flag stays set.                                             *)
ReaderForgets(s) ==
  /\ reader[s] = "end"
  /\ reader' = [reader EXCEPT ![s] = "none"]
  /\ UNCHANGED <<rpc, instance, games, watch, forwardWorker, scanned, tooLong,
                 unread, timers, bus, history, panicked>>

ReaderClears(s) ==
  /\ reader[s] = "end"
  /\ forwardWorker' = FALSE
  /\ reader' = [reader EXCEPT ![s] = "none"]
  /\ UNCHANGED <<rpc, instance, games, watch, scanned, tooLong, unread, timers,
                 bus, history, panicked>>

-----------------------------------------------------------------------------
(* Stop                                                                    *)

StopCheck(h) ==
  /\ pc[h] = "stop"
  /\ \/ state # "running" /\ Goto(h, "idle")
     \/ state = "running" /\ Goto(h, "ask")
  /\ UNCHANGED <<mine, calls, instance, games, watch, rest>>

(* Mutant: no timer.                                                       *)
StopAskPolitely(h) ==
  /\ pc[h] = "ask"
  /\ \/ /\ pty = 0 \/ process = 0
        /\ panicked' = TRUE
        /\ UNCHANGED <<pc, mine, told, asked>>
     \/ /\ pty # 0 /\ process # 0
        /\ told' = told \cup {pty}
        /\ asked' = asked \cup {process}
        /\ mine' = [mine EXCEPT ![h] = process]
        /\ Goto(h, "wait")
        /\ UNCHANGED panicked
  /\ UNCHANGED <<calls, instance, games, watch, log, timers, bus, signalled, raced,
                 overtaken, failed>>

(* The line "stop" on the console, the timer, and which process to wait    *)
(* for.                                                                    *)
StopAsk(h) ==
  /\ pc[h] = "ask"
  /\ \/ /\ pty = 0 \/ process = 0
        /\ panicked' = TRUE
        /\ UNCHANGED <<pc, mine, timers, told, asked>>
     \/ /\ pty # 0 /\ process # 0
        /\ told' = told \cup {pty}
        /\ asked' = asked \cup {process}
        /\ timers' = timers + 1
        /\ mine' = [mine EXCEPT ![h] = process]
        /\ Goto(h, "wait")
        /\ UNCHANGED panicked
  /\ UNCHANGED <<calls, instance, games, watch, log, bus, signalled, raced,
                 overtaken, failed>>

(* Mutant: Stop itself declares the game stopped before it has ended.      *)
StopDoesNotWait(h) ==
  /\ pc[h] = "wait"
  /\ state' = "stopped"
  /\ Goto(h, "close")
  /\ UNCHANGED <<mine, calls, process, pty, games, watch, rest>>

StopWait(h) ==
  /\ pc[h] = "wait"
  /\ game[mine[h]] = "exited"
  /\ Goto(h, "close")
  /\ UNCHANGED <<mine, calls, instance, games, watch, rest>>

StopClose(h) ==
  /\ pc[h] = "close"
  /\ closed' = closed \cup {pty}
  /\ overtaken' = (overtaken \/ pty # mine[h])
  /\ Return(h)
  /\ UNCHANGED <<calls, instance, game, watch, log, timers, bus, told, asked,
                 signalled, raced, failed, panicked>>

(* The timer is never stopped, and signals whatever process is by then.    *)
Terminate ==
  /\ timers > 0
  /\ timers' = timers - 1
  /\ signalled' = IF game[process] = "up" THEN signalled \cup {process}
                  ELSE signalled
  /\ UNCHANGED <<rpc, instance, games, watch, log, bus, told, asked, raced,
                 overtaken, failed, panicked>>

-----------------------------------------------------------------------------
(* The game ends, asked or not.                                            *)
Exit(g) ==
  /\ game[g] = "up"
  /\ game' = [game EXCEPT ![g] = "exited"]
  /\ UNCHANGED <<rpc, instance, closed, watch, rest>>

(* A message stream takes a message.                                       *)
Receive ==
  /\ bus > 0
  /\ bus' = bus - 1
  /\ UNCHANGED <<rpc, instance, games, watch, log, timers, history, panicked>>

HandlerStep(h) ==
  \/ StartCheck(h) \/ StartSet(h) \/ Spawn(h) \/ SetProcess(h) \/ SetPty(h)
  \/ Announce(h) \/ StartReader(h) \/ StartWatch(h)
  \/ StopCheck(h) \/ StopAsk(h) \/ StopWait(h) \/ StopClose(h)

DetectorStep(s) ==
  \/ Detect(s) \/ Detected(s) \/ DetectorCloses(s) \/ DetectorSets(s)
  \/ DetectorSends(s)

ReaderStep(s) ==
  \/ ReaderCheck(s) \/ ReaderBegins(s) \/ ReaderEnds(s) \/ ReaderClears(s)

(* A behaviour is followed until a nil dereference ends the manager, or    *)
(* two Starts have passed the unlocked check together: with two games and  *)
(* one minecraftInstance there is nothing the manager can still promise.   *)
Followed == ~panicked /\ ~raced

Next ==
  /\ Followed
  /\ \/ \E h \in Handler, l \in {"check", "stop"} : Call(h, l)
     \/ \E h \in Handler : HandlerStep(h)
     \/ \E g \in Game : DetectorStep(g) \/ ReaderStep(g) \/ Exit(g)
     \/ Terminate
     \/ Receive

Spec == Init /\ [][Next]_vars

(* Goroutines run, timers fire, a game that is asked to stop or sent       *)
(* SIGTERM ends, and some client listens to the messages.                  *)
Fairness ==
  /\ \A h \in Handler : WF_vars(Followed /\ HandlerStep(h))
  /\ \A g \in Game : /\ WF_vars(Followed /\ DetectorStep(g))
                     /\ WF_vars(Followed /\ ReaderStep(g))
                     /\ WF_vars(Followed /\ g \in told \cup signalled
                                /\ Exit(g))
  /\ WF_vars(Followed /\ Terminate)
  /\ WF_vars(Followed /\ Receive)

FairSpec == Spec /\ Fairness

-----------------------------------------------------------------------------
(* The current process is up, or has exited.                               *)
Current(s) == process # 0 /\ game[process] = s

(* The state Status, Start and Write go by agrees with the process: when   *)
(* it is "stopped" no game runs, and when it is "running" a Start is at     *)
(* work or some stopDetect will set it back.  Exceptions are two Starts     *)
(* that pass the check together, and a process that cannot be created.     *)
StateFollowsGame ==
  ~raced =>
    /\ state = "stopped" => \A g \in Game : game[g] # "up"
    /\ state = "running" /\ ~failed =>
         \/ \E h \in Handler : pc[h] \in {"spawn", "process", "pty", "bus",
                                         "reader", "watch"}
         \/ \E s \in Game : detector[s] \in {"new", "wait", "close", "state"}

(* There is one game at a time.                                            *)
OneGame ==
  ~raced =>
    \A f \in Game : \A g \in Game :
      game[f] = "up" /\ game[g] = "up" => f = g

(* What Status, Start and Stop go by is the one game there is.             *)
StateIsTrue == StateFollowsGame /\ OneGame

(* The pipes of a game outlive it: stopDetect never closes those of a      *)
(* later game, and Stop does only if a Start has come in between.          *)
PtyOutlivesGame ==
  ~raced /\ ~overtaken => \A g \in closed : game[g] = "exited"

(* The log of a running game is read.  Exceptions are a Start that sees    *)
(* the flag of a reader about to end, a reader that ended over a line      *)
(* longer than its buffer, and a Stop that closes the pty of the next game.*)
GameIsRead ==
  Current("up") ~>
    \/ \E s \in Game : reader[s] = "scan" /\ scanned[s] = process
    \/ ~Current("up") \/ process \in unread
    \/ tooLong \/ overtaken \/ raced \/ panicked

(* Only a game that is being stopped is sent SIGTERM.                      *)
OnlyStoppedGamesSignalled == signalled \subseteq asked

(* Stop returns: the game obeys, or SIGTERM reaches it.                    *)
StopReturns ==
  \A h \in Handler : (pc[h] = "wait") ~> (pc[h] # "wait" \/ raced \/ panicked)

(* The end of the current game is noticed and lets a new one be started,   *)
(* unless a Start fails: that leaves the state "running" for good.         *)
EndNoticed ==
  Current("exited") ~>
    (state = "stopped" \/ Current("up") \/ raced \/ failed \/ panicked)
=============================================================================
