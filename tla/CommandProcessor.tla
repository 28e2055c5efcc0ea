--------------------------- MODULE CommandProcessor ---------------------------
(***************************************************************************)
(* The command processor of a daemon (core/command.go).  Any plugin calls  *)
(* RunCommand; one Worker takes the commands from a queue, writes them to  *)
(* the console of the game under the write lock, and gathers the answer    *)
(* from the log, which another goroutine (the pump) hands over line by     *)
(* line.  When the game stops or the connection breaks, Pause tells the    *)
(* Worker to give the current command up.                                  *)
(*                                                                         *)
(* Worker, pump and Pause meet in responeReceivers and cleanSignal, which  *)
(* receiverLock guards.  The two are always set and cleared together, so   *)
(* one variable, receiver, stands for both: it names the request whose     *)
(* channels are installed.  Timers may fire at any moment.                 *)
(***************************************************************************)
EXTENDS Naturals, Sequences

CONSTANTS Request,      \* the calls of RunCommand
          KindOf,       \* what each asks for: see Kind
          Cap,          \* capacity of a response channel (32)
          MaxLines,     \* bound: lines the game logs unasked
          MaxIncidents, \* bound: stops of the game and lost connections
          NoRequest     \* nil

(* SkipWaitCommand, WaitForRegexCommand, and everything else.              *)
Kind == {"skip", "regex", "plain"}

ASSUME RequestAssumption == NoRequest \notin Request
ASSUME KindAssumption == KindOf \in [Request -> Kind]
ASSUME BoundAssumption == /\ Cap \in Nat \ {0}
                          /\ MaxLines \in Nat
                          /\ MaxIncidents \in Nat

VARIABLES sent,      \* the requests put into mc.queue, in order
          taken,     \* how many the Worker has received from it
          pc,        \* where the Worker is
          locked,    \* does the manager's write lock belong to this client
          receiver,  \* responeReceivers and cleanSignal
          chan,      \* the content of each response channel
          buffer,    \* commandBuffer
          regexWait, \* isWaitRegex
          timer,     \* is endCommandTimer running
          answers,   \* the responses, in the order they were given
          inbox,     \* log lines that wait for the pump
          pump,      \* the line the pump is sending, and to which channel
          pauser,    \* is a Pause sending on cleanSignal (holding an RLock)
          due,       \* calls of Pause that errorHandler still has to make
          gameUp,    \* does the game run
          owed,      \* will the game log the line the current command awaits
          lines,     \* how many lines the game has logged
          incidents  \* how often the game stopped or the connection broke

vars == <<sent, taken, pc, locked, receiver, chan, buffer, regexWait, timer,
          answers, inbox, pump, pauser, due, gameUp, owed, lines, incidents>>

workerVars == <<taken, pc, receiver, buffer, regexWait, timer, answers>>
gameVars == <<gameUp, lines, incidents>>

(* A log line: its place in the log, and whether it is a message of the    *)
(* dedicated server (one the awaited regular expression matches is a       *)
(* "match"), a continuation line without prefix, or something the pump     *)
(* filters out.                                                            *)
Line == [n : Nat, kind : {"server", "match", "cont", "other"}]

Idle == [to |-> NoRequest]

Current == sent[taken]

TypeOK ==
  /\ sent \in Seq(Request)
  /\ taken \in 0..Len(sent)
  /\ pc \in {"take", "lock", "skip", "install", "write", "receive", "clear",
             "answer", "unlock"}
  /\ pc # "take" => taken > 0
  /\ locked \in BOOLEAN
  /\ receiver \in Request \cup {NoRequest}
  /\ chan \in [Request -> Seq(Line)]
  /\ \A r \in Request : Len(chan[r]) <= Cap
  /\ buffer \in Seq(Line)
  /\ regexWait \in BOOLEAN
  /\ timer \in BOOLEAN
  /\ answers \in Seq([request : Request, lines : Seq(Line),
                      how : {"error", "skip", "timer", "clean"}])
  /\ inbox \in Seq(Line)
  /\ pump \in [to : Request, line : Line] \cup {Idle}
  /\ pauser \in BOOLEAN
  /\ due \in 0..incidents
  /\ gameUp \in BOOLEAN
  /\ owed \in BOOLEAN
  /\ lines \in Nat
  /\ incidents \in 0..MaxIncidents

Init ==
  /\ sent = <<>>
  /\ taken = 0
  /\ pc = "take"
  /\ locked = FALSE
  /\ receiver = NoRequest
  /\ chan = [r \in Request |-> <<>>]
  /\ buffer = <<>>
  /\ regexWait = FALSE
  /\ timer = FALSE
  /\ answers = <<>>
  /\ inbox = <<>>
  /\ pump = Idle
  /\ pauser = FALSE
  /\ due = 0
  /\ gameUp \in BOOLEAN
  /\ owed = FALSE
  /\ lines = 0
  /\ incidents = 0

-----------------------------------------------------------------------------
(* RunCommand: queue the request, then wait for its response.              *)
RunCommand(r) ==
  /\ \A i \in 1..Len(sent) : sent[i] # r
  /\ sent' = Append(sent, r)
  /\ UNCHANGED <<workerVars, gameVars, locked, chan, inbox, pump, pauser, due,
                 owed>>

-----------------------------------------------------------------------------
(* The Worker.                                                             *)

Take ==
  /\ pc = "take"
  /\ taken < Len(sent)
  /\ taken' = taken + 1
  /\ pc' = "lock"
  /\ UNCHANGED <<sent, locked, receiver, chan, buffer, regexWait, timer,
                 answers, inbox, pump, pauser, due, owed, gameVars>>

Respond(ls, how) ==
  answers' = Append(answers, [request |-> Current, lines |-> ls, how |-> how])

(* Mutant: after an error of Lock the Worker goes on with the command.     *)
LockContinues ==
  /\ pc = "lock"
  /\ pc' = IF KindOf[Current] = "skip" THEN "skip" ELSE "install"
  /\ \/ locked' = TRUE /\ UNCHANGED answers
     \/ locked' \in {locked, TRUE} /\ Respond(<<>>, "error")
  /\ UNCHANGED <<sent, taken, receiver, chan, buffer, regexWait, timer, inbox,
                 pump, pauser, due, owed, gameVars>>

(* The Lock RPC; after an error the request gets an empty response.        *)
Lock ==
  /\ pc = "lock"
  /\ \/ /\ locked' = TRUE
        /\ pc' = IF KindOf[Current] = "skip" THEN "skip" ELSE "install"
        /\ UNCHANGED answers
     \/ /\ locked' \in {locked, TRUE}
        /\ Respond(<<>>, "error")
        /\ pc' = "unlock"
  /\ UNCHANGED <<sent, taken, receiver, chan, buffer, regexWait, timer, inbox,
                 pump, pauser, due, owed, gameVars>>

(* A command nobody waits for is written and answered at once.             *)
SkipWait ==
  /\ pc = "skip"
  /\ Respond(<<>>, "skip")
  /\ pc' = "unlock"
  /\ UNCHANGED <<sent, taken, locked, receiver, chan, buffer, regexWait, timer,
                 inbox, pump, pauser, due, owed, gameVars>>

(* receiverLock.Lock, which waits for a Pause.                             *)
Install ==
  /\ pc = "install"
  /\ ~pauser
  /\ receiver' = Current
  /\ pc' = "write"
  /\ UNCHANGED <<sent, taken, locked, chan, buffer, regexWait, timer, answers,
                 inbox, pump, pauser, due, owed, gameVars>>

(* Mutant: the end timer starts for every command.                         *)
WriteStartsTimer ==
  /\ pc = "write"
  /\ regexWait' = (KindOf[Current] = "regex")
  /\ timer' = TRUE
  /\ \/ locked /\ gameUp /\ owed' = (KindOf[Current] = "regex")
     \/ owed' = FALSE
  /\ pc' = "receive"
  /\ UNCHANGED <<sent, taken, locked, receiver, chan, buffer, answers, inbox,
                 pump, pauser, due, gameVars>>

(* The Write RPC.  Its error is ignored: without the lock, without a game  *)
(* or without a connection the Worker waits for an answer all the same.    *)
Write ==
  /\ pc = "write"
  /\ regexWait' = (KindOf[Current] = "regex")
  /\ timer' = (KindOf[Current] # "regex")
  /\ \/ locked /\ gameUp /\ owed' = (KindOf[Current] = "regex")
     \/ owed' = FALSE
  /\ pc' = "receive"
  /\ UNCHANGED <<sent, taken, locked, receiver, chan, buffer, answers, inbox,
                 pump, pauser, due, gameVars>>

(* The ticker: Lock again, whatever comes of it.                           *)
Renew ==
  /\ pc = "receive"
  /\ ~locked
  /\ locked' = TRUE
  /\ UNCHANGED <<sent, workerVars, chan, inbox, pump, pauser, due, owed,
                 gameVars>>

(* Mutant: isWaitRegex is reset by the match, but no timer is started.     *)
ReceiveWithoutTimer ==
  /\ pc = "receive"
  /\ chan[Current] # <<>>
  /\ LET line == Head(chan[Current]) IN
       /\ chan' = [chan EXCEPT ![Current] = Tail(@)]
       /\ buffer' = IF line.kind # "cont" \/ buffer # <<>>
                    THEN Append(buffer, line) ELSE buffer
       /\ regexWait' = (regexWait /\ line.kind # "match")
  /\ UNCHANGED <<sent, taken, pc, locked, receiver, timer, answers, inbox,
                 pump, pauser, due, owed, gameVars>>

(* A line of the response.  Continuation lines count only after a message; *)
(* the line the regular expression matches starts the end timer.           *)
ReceiveLine ==
  /\ pc = "receive"
  /\ chan[Current] # <<>>
  /\ LET line == Head(chan[Current]) IN
       /\ chan' = [chan EXCEPT ![Current] = Tail(@)]
       /\ buffer' = IF line.kind # "cont" \/ buffer # <<>>
                    THEN Append(buffer, line) ELSE buffer
       /\ regexWait' = (regexWait /\ line.kind # "match")
       /\ timer' = (timer \/ line.kind = "match")
  /\ UNCHANGED <<sent, taken, pc, locked, receiver, answers, inbox, pump,
                 pauser, due, owed, gameVars>>

EndTimer ==
  /\ pc = "receive"
  /\ timer
  /\ pc' = "clear"
  /\ UNCHANGED <<sent, taken, locked, receiver, chan, buffer, regexWait, timer,
                 answers, inbox, pump, pauser, due, owed, gameVars>>

(* The Worker takes the clean signal; Pause returns and drops its RLock.   *)
CleanSignal ==
  /\ pc = "receive"
  /\ pauser
  /\ pauser' = FALSE
  /\ pc' = "clear"
  /\ timer' = FALSE
  /\ UNCHANGED <<sent, taken, locked, receiver, chan, buffer, regexWait,
                 answers, inbox, pump, due, owed, gameVars>>

(* Mutant: the receiver is cleared without receiverLock.                   *)
ClearUnlocked ==
  /\ pc = "clear"
  /\ receiver' = NoRequest
  /\ owed' = FALSE
  /\ pc' = "answer"
  /\ UNCHANGED <<sent, taken, locked, chan, buffer, regexWait, timer, answers,
                 inbox, pump, pauser, due, gameVars>>

(* receiverLock.Lock again.                                                *)
Clear ==
  /\ pc = "clear"
  /\ ~pauser
  /\ receiver' = NoRequest
  /\ owed' = FALSE
  /\ pc' = "answer"
  /\ UNCHANGED <<sent, taken, locked, chan, buffer, regexWait, timer, answers,
                 inbox, pump, pauser, due, gameVars>>

(* Mutant: commandBuffer is shared by all commands.                        *)
AnswerKeepsBuffer ==
  /\ pc = "answer"
  /\ Respond(buffer, IF timer THEN "timer" ELSE "clean")
  /\ regexWait' = FALSE
  /\ timer' = FALSE
  /\ pc' = "unlock"
  /\ UNCHANGED <<sent, taken, locked, receiver, chan, buffer, inbox, pump,
                 pauser, due, owed, gameVars>>

Answer ==
  /\ pc = "answer"
  /\ Respond(buffer, IF timer THEN "timer" ELSE "clean")
  /\ buffer' = <<>>
  /\ regexWait' = FALSE
  /\ timer' = FALSE
  /\ pc' = "unlock"
  /\ UNCHANGED <<sent, taken, locked, receiver, chan, inbox, pump, pauser, due,
                 owed, gameVars>>

(* The Unlock RPC, whose error is ignored too.                             *)
Unlock ==
  /\ pc = "unlock"
  /\ locked' \in {locked, FALSE}
  /\ pc' = "take"
  /\ UNCHANGED <<sent, taken, receiver, chan, buffer, regexWait, timer,
                 answers, inbox, pump, pauser, due, owed, gameVars>>

Worker == \/ Take \/ Lock \/ SkipWait \/ Install \/ Write \/ Renew
          \/ ReceiveLine \/ EndTimer \/ CleanSignal \/ Clear \/ Answer
          \/ Unlock

-----------------------------------------------------------------------------
(* commandResponeProcessor, first half: look the receiver up.  A writer    *)
(* that waits for receiverLock keeps new readers out.                      *)
PumpRead ==
  /\ pump = Idle
  /\ inbox # <<>>
  /\ ~(pauser /\ pc = "clear")
  /\ inbox' = Tail(inbox)
  /\ pump' = IF receiver # NoRequest /\ Head(inbox).kind # "other"
             THEN [to |-> receiver, line |-> Head(inbox)] ELSE Idle
  /\ UNCHANGED <<sent, workerVars, locked, chan, pauser, due, owed, gameVars>>

(* Second half: send, with no lock held, to a channel that may by now be   *)
(* abandoned.                                                              *)
PumpSend ==
  /\ pump # Idle
  /\ Len(chan[pump.to]) < Cap
  /\ chan' = [chan EXCEPT ![pump.to] = Append(@, pump.line)]
  /\ pump' = Idle
  /\ UNCHANGED <<sent, workerVars, locked, inbox, pauser, due, owed, gameVars>>

(* Pause, called by errorHandler.  A plugin that is not started is not     *)
(* paused; with no command installed there is nothing to clean.            *)
Pause ==
  /\ due > 0
  /\ ~pauser
  /\ due' = due - 1
  /\ pauser' \in {FALSE, receiver # NoRequest}
  /\ UNCHANGED <<sent, workerVars, locked, chan, inbox, pump, owed, gameVars>>

-----------------------------------------------------------------------------
(* The surroundings.                                                       *)

(* The manager takes the lock back: its time is over, or it saw the        *)
(* connection end.                                                         *)
ExpireLock ==
  /\ locked
  /\ locked' = FALSE
  /\ UNCHANGED <<sent, workerVars, chan, inbox, pump, pauser, due, owed,
                 gameVars>>

Log(kind) ==
  /\ gameUp
  /\ lines < MaxLines \/ (owed /\ kind = "match")
  /\ lines' = lines + 1
  /\ inbox' = Append(inbox, [n |-> lines + 1, kind |-> kind])
  /\ owed' = (owed /\ kind # "match")
  /\ UNCHANGED <<sent, workerVars, locked, chan, pump, pauser, due, gameUp,
                 incidents>>

GameStop ==
  /\ gameUp
  /\ incidents < MaxIncidents
  /\ gameUp' = FALSE
  /\ owed' = FALSE
  /\ due' = due + 1
  /\ incidents' = incidents + 1
  /\ UNCHANGED <<sent, workerVars, locked, chan, inbox, pump, pauser, lines>>

GameStart ==
  /\ ~gameUp
  /\ gameUp' = TRUE
  /\ UNCHANGED <<sent, workerVars, locked, chan, inbox, pump, pauser, due,
                 owed, lines, incidents>>

(* The message stream breaks, and with it what the game was about to say.  *)
Disconnect ==
  /\ incidents < MaxIncidents
  /\ owed' = FALSE
  /\ due' = due + 1
  /\ incidents' = incidents + 1
  /\ UNCHANGED <<sent, workerVars, locked, chan, inbox, pump, pauser, gameUp,
                 lines>>

Next ==
  \/ \E r \in Request : RunCommand(r)
  \/ Worker
  \/ PumpRead \/ PumpSend
  \/ Pause
  \/ ExpireLock
  \/ \E kind \in {"server", "match", "cont", "other"} : Log(kind)
  \/ GameStop \/ GameStart \/ Disconnect

Spec == Init /\ [][Next]_vars

(* Goroutines run, RPCs return, a running timer fires, a select takes a    *)
(* ready channel, and a running game answers what it was asked.            *)
Fairness ==
  /\ WF_vars(Take \/ Lock \/ SkipWait \/ Install \/ Write)
  /\ WF_vars(Clear \/ Answer \/ Unlock)
  /\ WF_vars(ReceiveLine) /\ WF_vars(EndTimer) /\ WF_vars(CleanSignal)
  /\ WF_vars(PumpRead) /\ WF_vars(PumpSend)
  /\ WF_vars(Pause)
  /\ WF_vars(owed /\ Log("match"))

FairSpec == Spec /\ Fairness

-----------------------------------------------------------------------------
(* Responses go out in the order of the queue, one for each command, on    *)
(* every path through the Worker.                                          *)
AnswersInOrder ==
  /\ Len(answers) = IF pc \in {"take", "unlock"} THEN taken ELSE taken - 1
  /\ \A i \in 1..Len(answers) : answers[i].request = sent[i]

(* A Pause that waits to hand over its clean signal waits at the command   *)
(* it found installed: the signal never reaches a later one.               *)
SignalMeetsItsCommand ==
  /\ receiver = IF pc \in {"write", "receive", "clear"} THEN Current
                ELSE NoRequest
  /\ pauser => receiver # NoRequest

(* What the receiver's channel holds, what the pump is sending to it, and  *)
(* the stages of the way of a line, the last stage first: the responses,   *)
(* the buffer, the channel, the pump and the log.                          *)
Received == IF receiver = NoRequest THEN <<>> ELSE chan[receiver]
Sending == IF pump # Idle /\ pump.to = receiver THEN <<pump.line>> ELSE <<>>
OnTheWay == [i \in 1..Len(answers) |-> answers[i].lines]
              \o <<buffer, Received, Sending, inbox>>

Ascending(ls) ==
  \A i \in 1..Len(ls) : \A j \in 1..Len(ls) : i < j => ls[i].n < ls[j].n
Before(ls, ms) ==
  \A i \in 1..Len(ls) : \A j \in 1..Len(ms) : ls[i].n < ms[j].n

(* A line of the log reaches at most one response, and responses quote the *)
(* log in order: what the pump holds for an abandoned channel is lost and  *)
(* never turns up in a later answer.                                       *)
LinesInOrder ==
  LET way == OnTheWay IN
  \A i \in 1..Len(way) :
    /\ Ascending(way[i])
    /\ \A j \in 1..Len(way) : i < j => Before(way[i], way[j])

(* A command that waits for a regular expression is answered, unless it is *)
(* given up, only with a response in which the expression matched.         *)
RegexNeedsMatch ==
  \A i \in 1..Len(answers) :
    /\ KindOf[answers[i].request] = "regex"
    /\ answers[i].how = "timer"
    => \E j \in 1..Len(answers[i].lines) :
         answers[i].lines[j].kind = "match"

(* No response starts with a continuation line.                            *)
NoHeadlessResponse ==
  \A i \in 1..Len(answers) :
    answers[i].lines # <<>> => answers[i].lines[1].kind # "cont"

(* A response is what the command printed, as far as the Worker can tell:  *)
(* it begins with a message of the server and, where a match is awaited,   *)
(* has one.                                                                *)
ResponsesSound == RegexNeedsMatch /\ NoHeadlessResponse

-----------------------------------------------------------------------------
(* Worker and Pause wait for each other: the Worker left its select by the *)
(* timer and wants receiverLock, which Pause holds while it sends.         *)
PauseDeadlock == pauser /\ pc = "clear"

(* The pump waits on a channel nobody will ever read again.                *)
PumpStuck == /\ pump # Idle
             /\ pump.to # receiver
             /\ Len(chan[pump.to]) = Cap

HasMatch(ls) == \E i \in 1..Len(ls) : ls[i].kind = "match"

(* The current command waits for a line that will not come, and no Pause   *)
(* is on its way.                                                          *)
Starved ==
  /\ pc = "receive" /\ regexWait
  /\ due = 0 /\ ~pauser
  /\ ~HasMatch(chan[Current])
  /\ \/ PumpStuck
     \/ /\ ~owed
        /\ ~HasMatch(inbox)
        /\ pump # Idle => pump.line.kind # "match"

(* Every command is answered unless the Worker hangs in one of these two:  *)
(* again and again, the calls being finitely many, the Worker has answered *)
(* all that were sent, or hangs.                                           *)
EveryCommandAnswered ==
  []<>(Len(answers) = Len(sent) \/ PauseDeadlock \/ Starved)
=============================================================================
