------------------------------ MODULE CoreProofs ------------------------------
(***************************************************************************)
(* Proofs about two parts of the daemon that have no state in common: the  *)
(* command processor, for any set of requests, channel capacity and        *)
(* bounds, and, in the second half, the store of the players, for any      *)
(* number of goroutines, players, records and crashes.                     *)
(***************************************************************************)
EXTENDS CommandProcessor, PlayerStore, TLAPS


(* Outside a command the buffer is empty; it never starts with a           *)
(* continuation line.                                                      *)
BufferStarts ==
  /\ pc \notin {"receive", "clear", "answer"} => buffer = <<>>
  /\ buffer # <<>> => buffer[1].kind # "cont"

(* The end timer of a command that waits for a regular expression runs     *)
(* only after a match.                                                     *)
TimerNeedsMatch ==
  (/\ pc \in {"receive", "clear", "answer"}
   /\ KindOf[Current] = "regex"
   /\ timer)
  => HasMatch(buffer)

(* Nobody has sent to the channel of a request before it is installed.     *)
Fresh(r) == chan[r] = <<>> /\ (pump # Idle => pump.to # r)

Untouched ==
  /\ \A i, j \in 1..Len(sent) : sent[i] = sent[j] => i = j
  /\ \A i \in 1..Len(sent) :
       i > taken \/ (i = taken /\ pc \in {"lock", "skip", "install"}) =>
         Fresh(sent[i])
  /\ \A r \in Request : (\A i \in 1..Len(sent) : sent[i] # r) => Fresh(r)

(* The game has logged these lines.                                        *)
Logged(ls) == \A i \in 1..Len(ls) : ls[i].n <= lines

(* The four stages before the responses, and the responses, in order.      *)
Stages(b, c, p, q) ==
  /\ Ascending(b) /\ Ascending(c) /\ Ascending(p) /\ Ascending(q)
  /\ Before(b, c) /\ Before(b, p) /\ Before(b, q)
  /\ Before(c, p) /\ Before(c, q) /\ Before(p, q)

(* No line of the four stages comes before those of a response.            *)
Ahead(ls) == /\ Before(ls, buffer) /\ Before(ls, Received)
             /\ Before(ls, Sending) /\ Before(ls, inbox)

InOrder ==
  /\ Stages(buffer, Received, Sending, inbox)
  /\ \A i \in 1..Len(answers) :
       /\ Ascending(answers[i].lines)
       /\ Ahead(answers[i].lines)
       /\ \A j \in 1..Len(answers) :
            i < j => Before(answers[i].lines, answers[j].lines)

AllLogged ==
  /\ Logged(buffer) /\ Logged(Received) /\ Logged(Sending) /\ Logged(inbox)
  /\ \A i \in 1..Len(answers) : Logged(answers[i].lines)

(* The way of a line: whoever gets it gets it after the earlier ones.      *)
WayInv == Untouched /\ InOrder /\ AllLogged

IInv == /\ TypeOK
        /\ AnswersInOrder
        /\ SignalMeetsItsCommand
        /\ BufferStarts
        /\ TimerNeedsMatch
        /\ RegexNeedsMatch
        /\ NoHeadlessResponse
        /\ WayInv

-----------------------------------------------------------------------------
(* Nothing is before or after no line.                                     *)
LEMMA NothingBefore ==
  ASSUME NEW ls
  PROVE  /\ Before(<<>>, ls) /\ Before(ls, <<>>) /\ Ascending(<<>>) /\ Logged(<<>>)
         /\ Ascending(<<ls>>)
  BY DEF Before, Ascending, Logged

LEMMA WayInit == Init => WayInv
  <1> SUFFICES ASSUME Init PROVE WayInv
    OBVIOUS
  <1> USE RequestAssumption DEF Init
  <1>1. Untouched
    BY DEF Untouched, Fresh, Idle
  <1>2. Received = <<>> /\ Sending = <<>>
    BY DEF Received, Sending
  <1>3. Stages(<<>>, <<>>, <<>>, <<>>) /\ Logged(<<>>)
    BY NothingBefore DEF Stages
  <1>4. buffer = <<>> /\ inbox = <<>> /\ Len(answers) = 0
    OBVIOUS
  <1>5. InOrder
    BY <1>2, <1>3, <1>4 DEF InOrder
  <1>6. AllLogged
    BY <1>2, <1>3, <1>4 DEF AllLogged
  <1> QED
    BY <1>1, <1>5, <1>6 DEF WayInv

LEMMA InitInvariant == Init => IInv
  <1> SUFFICES ASSUME Init PROVE IInv
    OBVIOUS
  <1> USE RequestAssumption, BoundAssumption DEF Init
  <1>1. TypeOK
    <2>1. /\ chan \in [Request -> Seq(Line)]
          /\ \A r \in Request : Len(chan[r]) <= Cap
      OBVIOUS
    <2>2. sent \in Seq(Request) /\ buffer \in Seq(Line) /\ inbox \in Seq(Line)
      OBVIOUS
    <2>3. answers \in Seq([request : Request, lines : Seq(Line),
                          how : {"error", "skip", "timer", "clean"}])
      OBVIOUS
    <2>4. taken \in 0..Len(sent) /\ lines \in Nat
      OBVIOUS
    <2>5. incidents \in 0..MaxIncidents /\ due \in 0..incidents
      OBVIOUS
    <2>6. pump \in [to : Request, line : Line] \cup {Idle}
      OBVIOUS
    <2> QED
      BY <2>1, <2>2, <2>3, <2>4, <2>5, <2>6 DEF TypeOK
  <1>2. AnswersInOrder /\ SignalMeetsItsCommand /\ BufferStarts
    BY DEF AnswersInOrder, SignalMeetsItsCommand, BufferStarts
  <1>3. TimerNeedsMatch /\ RegexNeedsMatch /\ NoHeadlessResponse
    BY DEF TimerNeedsMatch, RegexNeedsMatch, NoHeadlessResponse
  <1> QED
    BY <1>1, <1>2, <1>3, WayInit DEF IInv

(* The steps that are neither a caller's nor the Worker's.                 *)
Others == \/ PumpRead \/ PumpSend \/ Pause \/ ExpireLock
          \/ \E kind \in {"server", "match", "cont", "other"} : Log(kind)
          \/ GameStop \/ GameStart \/ Disconnect

LEMMA OthersLeaveWorker ==
  ASSUME Others \/ UNCHANGED vars
  PROVE  UNCHANGED <<sent, taken, pc, receiver, buffer, regexWait, timer,
                     answers>>
  BY DEF Others, PumpRead, PumpSend, Pause, ExpireLock, Log, GameStop,
         GameStart, Disconnect, workerVars, vars

LEMMA NextSplit ==
  ASSUME [Next]_vars
  PROVE  \/ \E r \in Request : RunCommand(r)
         \/ Worker
         \/ Others
         \/ UNCHANGED vars
  BY DEF Next, Others

Response == [request : Request, lines : Seq(Line),
             how : {"error", "skip", "timer", "clean"}]

LEMMA CurrentType ==
  ASSUME TypeOK, pc # "take"
  PROVE  Current \in Request
  BY DEF TypeOK, Current

LEMMA NoLines == <<>> \in Seq(Line)
  OBVIOUS

(* What giving a response adds, and what it keeps.                         *)
LEMMA RespondAdds ==
  ASSUME TypeOK, pc # "take", NEW ls \in Seq(Line),
         NEW how \in {"error", "skip", "timer", "clean"}, Respond(ls, how)
  PROVE  /\ answers' \in Seq(Response)
         /\ Len(answers') = Len(answers) + 1
         /\ \A i \in 1..Len(answers) : answers'[i] = answers[i]
         /\ answers'[Len(answers) + 1].request = Current
         /\ answers'[Len(answers) + 1].lines = ls
         /\ answers'[Len(answers) + 1].how = how
  <1> DEFINE a == [request |-> Current, lines |-> ls, how |-> how]
  <1>1. a \in Response
    BY CurrentType DEF Response
  <1>2. answers \in Seq(Response)
    BY DEF TypeOK, Response
  <1>3. answers' = Append(answers, a)
    BY DEF Respond
  <1> HIDE DEF a
  <1>4. /\ Append(answers, a) \in Seq(Response)
        /\ Len(Append(answers, a)) = Len(answers) + 1
        /\ \A i \in 1..Len(answers) : Append(answers, a)[i] = answers[i]
        /\ Append(answers, a)[Len(answers) + 1] = a
    BY <1>1, <1>2
  <1>5. a.request = Current /\ a.lines = ls /\ a.how = how
    BY DEF a
  <1> QED
    BY <1>3, <1>4, <1>5

-----------------------------------------------------------------------------
LEMMA TypeStep ==
  ASSUME TypeOK, [Next]_vars
  PROVE  TypeOK'
  <1> USE RequestAssumption, KindAssumption, BoundAssumption
  <1>1. ASSUME NEW r \in Request, RunCommand(r)
        PROVE  TypeOK'
    BY <1>1 DEF RunCommand, workerVars, gameVars, TypeOK, Idle
  <1>2. CASE Take
    BY <1>2 DEF Take, gameVars, TypeOK
  <1>3. CASE Lock
    <2>1. \/ UNCHANGED answers
          \/ Respond(<<>>, "error")
      BY <1>3 DEF Lock
    <2>2. answers' \in Seq(Response)
      <3>1. CASE Respond(<<>>, "error")
        BY <1>3, <3>1, NoLines, RespondAdds DEF Lock
      <3>2. CASE UNCHANGED answers
        BY <3>2 DEF TypeOK, Response
      <3> QED
        BY <2>1, <3>1, <3>2
    <2>3. pc' \in {"skip", "install", "unlock"} /\ locked' \in BOOLEAN
      BY <1>3 DEF Lock, TypeOK
    <2> QED
      BY <1>3, <2>2, <2>3 DEF Lock, gameVars, TypeOK, Response
  <1>4. CASE SkipWait
    <2>1. answers' \in Seq(Response)
      BY <1>4, NoLines, RespondAdds DEF SkipWait
    <2> QED
      BY <1>4, <2>1 DEF SkipWait, gameVars, TypeOK, Response
  <1>5. CASE Install
    BY <1>5, CurrentType DEF Install, gameVars, TypeOK
  <1>6. CASE Write
    BY <1>6 DEF Write, gameVars, TypeOK
  <1>7. CASE Renew \/ EndTimer \/ CleanSignal \/ Clear \/ Unlock
    BY <1>7
    DEF Renew, EndTimer, CleanSignal, Clear, Unlock, workerVars, gameVars,
        TypeOK
  <1>8. CASE ReceiveLine
    <2> DEFINE ls == chan[Current]
    <2>1. Current \in Request
      BY <1>8, CurrentType DEF ReceiveLine
    <2>2. ls \in Seq(Line) /\ ls # <<>>
      BY <1>8, <2>1 DEF ReceiveLine, TypeOK
    <2>3. /\ Head(ls) \in Line
          /\ Tail(ls) \in Seq(Line)
          /\ Len(Tail(ls)) = Len(ls) - 1
      BY <2>2
    <2>4. chan' = [chan EXCEPT ![Current] = Tail(ls)]
      BY <1>8 DEF ReceiveLine
    <2>5. /\ chan' \in [Request -> Seq(Line)]
          /\ \A r \in Request : Len(chan'[r]) <= Cap
      BY <2>1, <2>2, <2>3, <2>4 DEF TypeOK
    <2>6. buffer' \in Seq(Line)
      BY <1>8, <2>3 DEF ReceiveLine, TypeOK
    <2>7. regexWait' \in BOOLEAN /\ timer' \in BOOLEAN
      BY <1>8 DEF ReceiveLine
    <2> QED
      BY <1>8, <2>5, <2>6, <2>7 DEF ReceiveLine, gameVars, TypeOK
  <1>9. CASE Answer
    <2>1. answers' \in Seq(Response)
      BY <1>9, RespondAdds DEF Answer, TypeOK
    <2>2. buffer' \in Seq(Line)
      BY <1>9 DEF Answer
    <2> QED
      BY <1>9, <2>1, <2>2 DEF Answer, gameVars, TypeOK, Response
  <1>10. CASE PumpRead
    <2>1. Head(inbox) \in Line /\ inbox' \in Seq(Line)
      BY <1>10 DEF PumpRead, TypeOK
    <2>2. pump' \in [to : Request, line : Line] \cup {Idle}
      BY <1>10, <2>1 DEF PumpRead, TypeOK
    <2> QED
      BY <1>10, <2>1, <2>2 DEF PumpRead, workerVars, gameVars, TypeOK
  <1>11. CASE PumpSend
    <2>1. pump.to \in Request /\ pump.line \in Line
      BY <1>11 DEF PumpSend, TypeOK
    <2>2. /\ chan' \in [Request -> Seq(Line)]
          /\ \A r \in Request : Len(chan'[r]) <= Cap
      BY <1>11, <2>1 DEF PumpSend, TypeOK
    <2> QED
      BY <1>11, <2>2 DEF PumpSend, workerVars, gameVars, TypeOK
  <1>12. CASE Pause
    <2>1. pauser' \in BOOLEAN
      BY <1>12 DEF Pause
    <2>2. due' \in 0..incidents
      BY <1>12 DEF Pause, TypeOK
    <2> QED
      BY <1>12, <2>1, <2>2 DEF Pause, workerVars, gameVars, TypeOK
  <1>13. ASSUME NEW kind \in {"server", "match", "cont", "other"}, Log(kind)
         PROVE  TypeOK'
    <2>1. [n |-> lines + 1, kind |-> kind] \in Line
      BY DEF TypeOK, Line
    <2>2. inbox' \in Seq(Line) /\ lines' \in Nat /\ owed' \in BOOLEAN
      BY <1>13, <2>1 DEF Log, TypeOK
    <2> QED
      BY <1>13, <2>2 DEF Log, workerVars, TypeOK
  <1>14. CASE ExpireLock \/ GameStart
    BY <1>14 DEF ExpireLock, GameStart, workerVars, gameVars, TypeOK
  <1>15. CASE GameStop \/ Disconnect
    <2>1. incidents' \in 0..MaxIncidents /\ due' \in 0..incidents'
      BY <1>15 DEF GameStop, Disconnect, TypeOK
    <2> QED
      BY <1>15, <2>1 DEF GameStop, Disconnect, workerVars, TypeOK
  <1>16. CASE UNCHANGED vars
    BY <1>16 DEF vars, workerVars, gameVars, TypeOK
  <1> QED
    BY <1>1, <1>2, <1>3, <1>4, <1>5, <1>6, <1>7, <1>8, <1>9, <1>10, <1>11,
       <1>12, <1>13, <1>14, <1>15, <1>16
    DEF Next, Worker

LEMMA OrderStep ==
  ASSUME TypeOK, AnswersInOrder, [Next]_vars
  PROVE  AnswersInOrder'
  <1>0. /\ sent \in Seq(Request)
        /\ taken \in 0..Len(sent)
        /\ pc # "take" => taken > 0
        /\ answers \in Seq(Response)
    BY DEF TypeOK, Response
  <1>1. ASSUME NEW r \in Request, RunCommand(r)
        PROVE  AnswersInOrder'
    <2>1. /\ \A i \in 1..Len(sent) : sent'[i] = sent[i]
          /\ UNCHANGED <<taken, pc, answers>>
      BY <1>0, <1>1 DEF RunCommand, workerVars
    <2>2. Len(answers) <= Len(sent)
      BY <1>0 DEF AnswersInOrder
    <2> QED
      BY <1>0, <2>1, <2>2 DEF AnswersInOrder
  (* A response is that of the current command, and ends its turn.         *)
  <1>2. ASSUME NEW ls \in Seq(Line),
               NEW how \in {"error", "skip", "timer", "clean"},
               pc \notin {"take", "unlock"}, Respond(ls, how),
               pc' = "unlock", UNCHANGED <<sent, taken>>
        PROVE  AnswersInOrder'
    <2>1. /\ answers' \in Seq(Response)
          /\ Len(answers') = Len(answers) + 1
          /\ \A i \in 1..Len(answers) : answers'[i] = answers[i]
          /\ answers'[Len(answers) + 1].request = sent[taken]
      BY <1>2, RespondAdds DEF Current
    <2>2. Len(answers) = taken - 1
      BY <1>2 DEF AnswersInOrder
    <2>3. Len(answers') = taken'
      BY <1>0, <1>2, <2>1, <2>2
    <2>4. ASSUME NEW i \in 1..Len(answers')
          PROVE  answers'[i].request = sent'[i]
      <3>1. CASE i \in 1..Len(answers)
        BY <1>2, <2>1, <3>1 DEF AnswersInOrder
      <3>2. CASE i = taken
        BY <1>0, <1>2, <2>1, <2>2, <3>2
      <3> QED
        BY <1>0, <2>2, <2>1, <3>1, <3>2
    <2> QED
      BY <1>2, <2>3, <2>4 DEF AnswersInOrder
  <1>3. CASE Lock
    <2>1. CASE Respond(<<>>, "error") /\ pc' = "unlock"
      BY <1>2, <1>3, <2>1, NoLines DEF Lock
    <2>2. CASE UNCHANGED answers /\ pc' \in {"skip", "install"}
      BY <1>3, <2>2 DEF Lock, AnswersInOrder
    <2> QED
      BY <1>3, <2>1, <2>2 DEF Lock
  <1>4. CASE SkipWait
    BY <1>2, <1>4, NoLines DEF SkipWait
  <1>5. CASE Answer
    <2>1. buffer \in Seq(Line)
      BY DEF TypeOK
    <2> QED
      BY <1>2, <1>5, <2>1 DEF Answer
  <1>6. CASE Take
    BY <1>0, <1>6 DEF Take, AnswersInOrder
  <1>7. CASE \/ Install \/ Write \/ Renew \/ ReceiveLine \/ EndTimer
             \/ CleanSignal \/ Clear \/ Unlock
    BY <1>7
    DEF Install, Write, Renew, ReceiveLine, EndTimer, CleanSignal, Clear,
        Unlock, workerVars, AnswersInOrder
  <1>8. CASE Others \/ UNCHANGED vars
    BY <1>8, OthersLeaveWorker DEF AnswersInOrder
  <1> QED
    BY <1>1, <1>3, <1>4, <1>5, <1>6, <1>7, <1>8, NextSplit DEF Worker

LEMMA SignalStep ==
  ASSUME TypeOK, SignalMeetsItsCommand, [Next]_vars
  PROVE  SignalMeetsItsCommand'
  <1> USE RequestAssumption DEF TypeOK, SignalMeetsItsCommand, Current
  <1>1. ASSUME NEW r \in Request, RunCommand(r)
        PROVE  SignalMeetsItsCommand'
    BY <1>1 DEF RunCommand, workerVars
  <1>2. CASE Take \/ Lock \/ SkipWait \/ Answer \/ Unlock
    <2>1. receiver = NoRequest /\ ~pauser
      BY <1>2 DEF Take, Lock, SkipWait, Answer, Unlock
    <2>2. /\ pc' \notin {"write", "receive", "clear"}
          /\ UNCHANGED <<receiver, pauser>>
      BY <1>2 DEF Take, Lock, SkipWait, Answer, Unlock
    <2> QED
      BY <2>1, <2>2
  <1>6. CASE Write \/ Renew
    BY <1>6 DEF Write, Renew, workerVars
  <1>5. CASE Install \/ ReceiveLine \/ EndTimer \/ CleanSignal \/ Clear
    BY <1>5, CurrentType
    DEF Install, ReceiveLine, EndTimer, CleanSignal, Clear
  <1>3. CASE Pause
    BY <1>3 DEF Pause, workerVars
  <1>4. ASSUME ~Pause, Others \/ UNCHANGED vars
        PROVE  UNCHANGED <<sent, taken, pc, receiver, pauser>>
    BY <1>4, OthersLeaveWorker
    DEF Others, PumpRead, PumpSend, ExpireLock, Log, GameStop, GameStart,
        Disconnect, vars
  <1> QED
    BY <1>1, <1>2, <1>3, <1>4, <1>5, <1>6, NextSplit DEF Worker

LEMMA BufferStep ==
  ASSUME TypeOK, BufferStarts, [Next]_vars
  PROVE  BufferStarts'
  <1> USE DEF TypeOK, BufferStarts
  <1>1. CASE ReceiveLine
    <2> DEFINE line == Head(chan[Current])
    <2>1. line \in Line
      BY <1>1, CurrentType DEF ReceiveLine
    <2>2. pc' = pc /\ pc = "receive"
      BY <1>1 DEF ReceiveLine
    <2>3. buffer' = IF line.kind # "cont" \/ buffer # <<>>
                    THEN Append(buffer, line) ELSE buffer
      BY <1>1 DEF ReceiveLine
    <2> QED
      BY <2>1, <2>2, <2>3
  <1>2. ASSUME Worker, ~ReceiveLine
        PROVE  BufferStarts'
    BY <1>2
    DEF Worker, Take, Lock, SkipWait, Install, Write, Renew, EndTimer,
        CleanSignal, Clear, Answer, Unlock, workerVars
  <1>3. ASSUME NEW r \in Request, RunCommand(r)
        PROVE  BufferStarts'
    BY <1>3 DEF RunCommand, workerVars
  <1>4. CASE Others \/ UNCHANGED vars
    BY <1>4, OthersLeaveWorker
  <1> QED
    BY <1>1, <1>2, <1>3, <1>4, NextSplit

LEMMA MatchStep ==
  ASSUME TypeOK, TimerNeedsMatch, [Next]_vars
  PROVE  TimerNeedsMatch'
  <1> USE DEF TypeOK, TimerNeedsMatch, HasMatch, Current
  <1>1. CASE ReceiveLine
    <2> DEFINE line == Head(chan[Current])
    <2>1. line \in Line
      BY <1>1, CurrentType DEF ReceiveLine
    <2>2. /\ buffer' = IF line.kind # "cont" \/ buffer # <<>>
                       THEN Append(buffer, line) ELSE buffer
          /\ timer' = (timer \/ line.kind = "match")
          /\ UNCHANGED <<sent, taken, pc>>
          /\ pc = "receive"
      BY <1>1 DEF ReceiveLine
    <2>3. CASE line.kind = "match"
      <3>1. buffer' = Append(buffer, line)
        BY <2>2, <2>3
      <3>2. buffer'[Len(buffer')].kind = "match" /\ Len(buffer') \in 1..Len(buffer')
        BY <2>1, <2>3, <3>1
      <3> QED
        BY <3>2
    <2>4. CASE line.kind # "match"
      <3>1. \A i \in 1..Len(buffer) :
              i \in 1..Len(buffer') /\ buffer'[i] = buffer[i]
        BY <2>1, <2>2
      <3>2. timer' = timer
        BY <2>2, <2>4
      <3> QED
        BY <2>2, <3>1, <3>2
    <2> QED
      BY <2>3, <2>4
  <1>2. CASE Write
    BY <1>2 DEF Write
  <1>3. ASSUME Worker, ~ReceiveLine, ~Write
        PROVE  TimerNeedsMatch'
    BY <1>3
    DEF Worker, Take, Lock, SkipWait, Install, Renew, EndTimer, CleanSignal,
        Clear, Answer, Unlock, workerVars
  <1>4. ASSUME NEW r \in Request, RunCommand(r)
        PROVE  TimerNeedsMatch'
    BY <1>4 DEF RunCommand, workerVars
  <1>5. CASE Others \/ UNCHANGED vars
    BY <1>5, OthersLeaveWorker
  <1> QED
    BY <1>1, <1>2, <1>3, <1>4, <1>5, NextSplit

LEMMA ResponseStep ==
  ASSUME TypeOK, BufferStarts, TimerNeedsMatch, RegexNeedsMatch,
         NoHeadlessResponse, [Next]_vars
  PROVE  (RegexNeedsMatch /\ NoHeadlessResponse)'
  <1> USE DEF RegexNeedsMatch, NoHeadlessResponse
  (* A new response has to satisfy both; the others keep them.             *)
  <1>1. ASSUME NEW ls \in Seq(Line),
               NEW how \in {"error", "skip", "timer", "clean"},
               pc # "take", Respond(ls, how),
               (KindOf[Current] = "regex" /\ how = "timer") => HasMatch(ls),
               ls # <<>> => ls[1].kind # "cont"
        PROVE  (RegexNeedsMatch /\ NoHeadlessResponse)'
    <2>1. /\ Len(answers') = Len(answers) + 1
          /\ \A i \in 1..Len(answers) : answers'[i] = answers[i]
          /\ answers'[Len(answers) + 1].request = Current
          /\ answers'[Len(answers) + 1].lines = ls
          /\ answers'[Len(answers) + 1].how = how
      BY <1>1, RespondAdds
    <2>2. ASSUME NEW i \in 1..Len(answers')
          PROVE  i \in 1..Len(answers) \/ i = Len(answers) + 1
      BY <2>1, <2>2 DEF TypeOK
    <2>3. RegexNeedsMatch'
      BY <1>1, <2>1, <2>2 DEF HasMatch
    <2>4. NoHeadlessResponse'
      BY <1>1, <2>1, <2>2
    <2> QED
      BY <2>3, <2>4
  <1>2. CASE Answer
    <2> DEFINE how == IF timer THEN "timer" ELSE "clean"
    <2>1. Respond(buffer, how) /\ pc = "answer"
      BY <1>2 DEF Answer
    <2>2. buffer \in Seq(Line)
      BY DEF TypeOK
    <2>3. (KindOf[Current] = "regex" /\ how = "timer") => HasMatch(buffer)
      BY <2>1 DEF TimerNeedsMatch
    <2>4. buffer # <<>> => buffer[1].kind # "cont"
      BY DEF BufferStarts
    <2> QED
      BY <1>1, <2>1, <2>2, <2>3, <2>4
  <1>3. CASE Lock
    <2>1. CASE Respond(<<>>, "error")
      BY <1>1, <1>3, <2>1, NoLines DEF Lock
    <2>2. CASE UNCHANGED answers
      BY <2>2
    <2> QED
      BY <1>3, <2>1, <2>2 DEF Lock
  <1>7. CASE SkipWait
    BY <1>1, <1>7, NoLines DEF SkipWait
  <1>4. ASSUME Worker, ~Answer, ~Lock, ~SkipWait
        PROVE  UNCHANGED answers
    BY <1>4
    DEF Worker, Take, Install, Write, Renew, ReceiveLine, EndTimer,
        CleanSignal, Clear, Unlock, workerVars
  <1>5. ASSUME NEW r \in Request, RunCommand(r)
        PROVE  UNCHANGED answers
    BY <1>5 DEF RunCommand, workerVars
  <1>6. CASE UNCHANGED answers
    BY <1>6
  <1> QED
    BY <1>2, <1>3, <1>4, <1>5, <1>6, <1>7, OthersLeaveWorker, NextSplit

-----------------------------------------------------------------------------
(* The way of the lines: through the log, the pump, the channel and the    *)
(* buffer into a response.                                                 *)

(* The first line of a stage and the others keep their places.             *)
LEMMA SplitStage ==
  ASSUME NEW ls \in Seq(Line), ls # <<>>
  PROVE  /\ Ascending(ls) => Ascending(Tail(ls)) /\ Before(<<Head(ls)>>, Tail(ls))
         /\ Logged(ls) => Logged(Tail(ls)) /\ Logged(<<Head(ls)>>)
         /\ \A ms \in Seq(Line) :
              /\ Before(ls, ms) => Before(Tail(ls), ms) /\ Before(<<Head(ls)>>, ms)
              /\ Before(ms, ls) => Before(ms, Tail(ls)) /\ Before(ms, <<Head(ls)>>)
  <1>1. /\ Tail(ls) \in Seq(Line) /\ Len(Tail(ls)) = Len(ls) - 1 /\ Len(ls) \in Nat \ {0}
        /\ \A i \in 1..Len(Tail(ls)) : Tail(ls)[i] = ls[i + 1] /\ i + 1 \in 1..Len(ls)
    OBVIOUS
  <1>2. Head(ls) = ls[1] /\ 1 \in 1..Len(ls)
    BY <1>1
  <1>3. ASSUME Ascending(ls)
        PROVE  Ascending(Tail(ls)) /\ Before(<<Head(ls)>>, Tail(ls))
    BY <1>1, <1>2, <1>3 DEF Ascending, Before
  <1>4. Logged(ls) => Logged(Tail(ls)) /\ Logged(<<Head(ls)>>)
    BY <1>1, <1>2 DEF Logged
  <1>5. ASSUME NEW ms \in Seq(Line)
        PROVE  /\ Before(ls, ms) => Before(Tail(ls), ms) /\ Before(<<Head(ls)>>, ms)
               /\ Before(ms, ls) => Before(ms, Tail(ls)) /\ Before(ms, <<Head(ls)>>)
    BY <1>1, <1>2 DEF Before
  <1> QED
    BY <1>3, <1>4, <1>5

(* A line joins a stage at its end.                                        *)
LEMMA JoinStage ==
  ASSUME NEW ls \in Seq(Line), NEW x \in Line
  PROVE  /\ Ascending(ls) /\ Before(ls, <<x>>) => Ascending(Append(ls, x))
         /\ Logged(ls) /\ Logged(<<x>>) => Logged(Append(ls, x))
         /\ \A ms \in Seq(Line) :
              /\ Before(ls, ms) /\ Before(<<x>>, ms) => Before(Append(ls, x), ms)
              /\ Before(ms, ls) /\ Before(ms, <<x>>) => Before(ms, Append(ls, x))
  <1>1. /\ Append(ls, x) \in Seq(Line) /\ Len(Append(ls, x)) = Len(ls) + 1
        /\ Len(ls) \in Nat
        /\ \A i \in 1..Len(ls) : Append(ls, x)[i] = ls[i]
        /\ Append(ls, x)[Len(ls) + 1] = x
    OBVIOUS
  <1>2. \A i \in 1..Len(Append(ls, x)) : i \in 1..Len(ls) \/ i = Len(ls) + 1
    BY <1>1
  <1>3. /\ Ascending(ls) /\ Before(ls, <<x>>) => Ascending(Append(ls, x))
    <2> SUFFICES ASSUME Ascending(ls), Before(ls, <<x>>),
                        NEW i \in 1..Len(Append(ls, x)), NEW j \in 1..Len(Append(ls, x)),
                        i < j
                 PROVE  Append(ls, x)[i].n < Append(ls, x)[j].n
      BY DEF Ascending
    <2>1. i \in 1..Len(ls)
      BY <1>1, <1>2
    <2>2. \A k \in 1..Len(ls) : ls[k].n < x.n
      BY DEF Before
    <2> QED
      BY <1>1, <1>2, <2>1, <2>2 DEF Ascending
  <1>4. Logged(ls) /\ Logged(<<x>>) => Logged(Append(ls, x))
    BY <1>1, <1>2 DEF Logged
  <1>5. ASSUME NEW ms \in Seq(Line)
        PROVE  /\ Before(ls, ms) /\ Before(<<x>>, ms) => Before(Append(ls, x), ms)
               /\ Before(ms, ls) /\ Before(ms, <<x>>) => Before(ms, Append(ls, x))
    BY <1>1, <1>2 DEF Before
  <1> QED
    BY <1>3, <1>4, <1>5

LEMMA InOrderIsLinesInOrder ==
  ASSUME TypeOK, InOrder
  PROVE  LinesInOrder
  <1> DEFINE as == [i \in 1..Len(answers) |-> answers[i].lines]
             rest == <<buffer, Received, Sending, inbox>>
  <1>1. Len(answers) \in Nat /\ as \in Seq(Seq(Line)) /\ Len(as) = Len(answers)
    <2>1. answers \in Seq(Response) /\ Len(answers) \in Nat
      BY DEF TypeOK, Response
    <2>2. ASSUME NEW i \in 1..Len(answers) PROVE answers[i].lines \in Seq(Line)
      <3>1. answers[i] \in Response
        BY <2>1
      <3> QED
        BY <3>1 DEF Response
    <2>3. as \in [1..Len(answers) -> Seq(Line)]
      BY <2>2
    <2> QED
      BY <2>1, <2>3
  <1>2. Received \in Seq(Line) /\ Sending \in Seq(Line)
    BY DEF TypeOK, Received, Sending
  <1>3. rest \in Seq(Seq(Line)) /\ Len(rest) = 4
    BY <1>2 DEF TypeOK
  <1>4. /\ Len(OnTheWay) = Len(answers) + 4
        /\ \A i \in 1..Len(answers) : OnTheWay[i] = answers[i].lines
        /\ OnTheWay[Len(answers) + 1] = buffer /\ OnTheWay[Len(answers) + 2] = Received
        /\ OnTheWay[Len(answers) + 3] = Sending /\ OnTheWay[Len(answers) + 4] = inbox
    BY <1>1, <1>3 DEF OnTheWay
  <1>5. \A i \in 1..Len(OnTheWay) :
          i \in 1..Len(answers) \/ i \in {Len(answers) + 1, Len(answers) + 2,
                                          Len(answers) + 3, Len(answers) + 4}
    BY <1>1, <1>4
  <1> QED
    BY <1>1, <1>4, <1>5 DEF LinesInOrder, InOrder, Stages, Ahead

LEMMA StageTypes ==
  ASSUME TypeOK
  PROVE  /\ buffer \in Seq(Line) /\ Received \in Seq(Line) /\ Sending \in Seq(Line)
         /\ inbox \in Seq(Line) /\ answers \in Seq(Response) /\ Len(answers) \in Nat
         /\ \A i \in 1..Len(answers) : answers[i].lines \in Seq(Line)
  <1>1. answers \in Seq(Response)
    BY DEF TypeOK, Response
  <1>2. ASSUME NEW i \in 1..Len(answers) PROVE answers[i].lines \in Seq(Line)
    <2>1. answers[i] \in Response
      BY <1>1
    <2> QED
      BY <2>1 DEF Response
  <1>3. Received \in Seq(Line) /\ Sending \in Seq(Line)
    BY DEF TypeOK, Received, Sending
  <1> QED
    BY <1>1, <1>2, <1>3 DEF TypeOK

(* A step after which each stage holds what it held, or nothing.           *)
LEMMA StagesShrink ==
  ASSUME TypeOK, InOrder, AllLogged, UNCHANGED <<answers, lines, inbox>>,
         buffer' \in {buffer, <<>>}, Received' \in {Received, <<>>},
         Sending' \in {Sending, <<>>}
  PROVE  InOrder' /\ AllLogged'
  BY NothingBefore DEF InOrder, AllLogged, Stages, Ahead, Logged

(* A response takes the buffer over, or has no lines.                      *)
LEMMA RespondOrder ==
  ASSUME TypeOK, InOrder, AllLogged, pc # "take", NEW ls \in {buffer, <<>>},
         NEW how \in {"error", "skip", "timer", "clean"}, Respond(ls, how),
         UNCHANGED <<lines, inbox>>, buffer' = <<>>, Received' = Received,
         Sending' = Sending
  PROVE  InOrder' /\ AllLogged'
  <1> DEFINE n == Len(answers) + 1
  <1>1. ls \in Seq(Line)
    BY NoLines DEF TypeOK
  <1>2. /\ Len(answers') = n /\ Len(answers) \in Nat
        /\ \A i \in 1..Len(answers) : answers'[i] = answers[i]
        /\ answers'[n].lines = ls
    BY <1>1, RespondAdds, StageTypes
  <1>3. \A i \in 1..n : i \in 1..Len(answers) \/ i = n
    BY <1>2
  <1>4. n \in 1..n /\ \A i \in 1..n : ~(n < i)
    BY <1>2
  <1>5. /\ Ascending(ls) /\ Logged(ls)
        /\ Before(ls, <<>>) /\ Before(ls, Received) /\ Before(ls, Sending)
        /\ Before(ls, inbox)
        /\ \A i \in 1..Len(answers) : Before(answers[i].lines, ls)
    BY NothingBefore DEF InOrder, AllLogged, Stages, Ahead
  <1>6. Stages(<<>>, Received, Sending, inbox) /\ Logged(<<>>)
    BY NothingBefore DEF InOrder, Stages
  <1>7. ASSUME NEW i \in 1..n
        PROVE  /\ Ascending(answers'[i].lines)
               /\ Ahead(answers[i].lines)'
               /\ Logged(answers'[i].lines) /\ Logged(answers[i].lines)'
               /\ \A j \in 1..n : i < j => Before(answers'[i].lines, answers'[j].lines)
    <2>1. CASE i = n
      <3>1. answers'[i].lines = ls
        BY <1>2, <2>1
      <3>2. Ahead(answers[i].lines)'
        BY <1>5, <3>1 DEF Ahead
      <3>3. \A j \in 1..n : ~(i < j)
        BY <1>4, <2>1
      <3>4. Logged(answers[i].lines)'
        BY <1>5, <3>1 DEF Logged
      <3> QED
        BY <1>5, <3>1, <3>2, <3>3, <3>4
    <2>2. CASE i \in 1..Len(answers)
      <3>1. /\ Ascending(answers[i].lines) /\ Ahead(answers[i].lines)
            /\ Logged(answers[i].lines)
            /\ \A j \in 1..Len(answers) :
                 i < j => Before(answers[i].lines, answers[j].lines)
        BY <2>2 DEF InOrder, AllLogged
      <3>2. Ahead(answers[i].lines)'
        BY <1>2, <2>2, <3>1, NothingBefore DEF Ahead
      <3>3. answers'[i].lines = answers[i].lines
        BY <1>2, <2>2
      <3>4. ASSUME NEW j \in 1..n, i < j
            PROVE  Before(answers'[i].lines, answers'[j].lines)
        <4>1. CASE j = n
          BY <1>2, <1>5, <2>2, <3>3, <4>1
        <4>2. CASE j \in 1..Len(answers)
          BY <1>2, <3>1, <3>3, <3>4, <4>2
        <4> QED
          BY <1>3, <4>1, <4>2
      <3>5. Logged(answers[i].lines)'
        BY <3>1, <3>3 DEF Logged
      <3> QED
        BY <3>1, <3>2, <3>3, <3>4, <3>5
    <2> QED
      BY <1>3, <2>1, <2>2
  <1>8. InOrder'
    BY <1>2, <1>6, <1>7 DEF InOrder
  <1>9. AllLogged'
    <2>1. \A i \in 1..Len(answers') : Logged(answers[i].lines)'
      BY <1>2, <1>7
    <2>2. /\ Logged(buffer)' /\ Logged(Received)' /\ Logged(Sending)' /\ Logged(inbox)'
      BY <1>6 DEF AllLogged, Logged
    <2> QED
      BY <2>1, <2>2 DEF AllLogged
  <1> QED
    BY <1>8, <1>9

(* The Worker takes the first line of the channel into the buffer.         *)
LEMMA ReceiveOrder ==
  ASSUME TypeOK, InOrder, AllLogged, SignalMeetsItsCommand, ReceiveLine
  PROVE  InOrder' /\ AllLogged'
  <1> DEFINE x == Head(chan[Current])
  <1>1. /\ receiver = Current /\ Current \in Request /\ Received = chan[Current]
        /\ Received # <<>> /\ receiver # NoRequest
    BY CurrentType, RequestAssumption DEF ReceiveLine, SignalMeetsItsCommand, Received
  <1>2. /\ UNCHANGED <<sent, taken, answers, lines, inbox, pump, receiver>>
        /\ buffer' \in {buffer, Append(buffer, x)} /\ chan' = [chan EXCEPT ![Current] = Tail(@)]
    BY DEF ReceiveLine, gameVars
  <1>3. Received' = Tail(Received) /\ Sending' = Sending
    BY <1>1, <1>2 DEF Received, Sending, TypeOK
  <1>4. x = Head(Received) /\ x \in Line /\ Received \in Seq(Line)
    BY <1>1, StageTypes
  <1> HIDE DEF x
  <1>5. <<x>> \in Seq(Line) /\ Tail(Received) \in Seq(Line)
    BY <1>1, <1>4
  <1>6. /\ Ascending(Tail(Received)) /\ Before(<<x>>, Tail(Received))
        /\ Logged(Tail(Received)) /\ Logged(<<x>>)
        /\ \A ms \in Seq(Line) :
             /\ Before(Received, ms) => Before(Tail(Received), ms) /\ Before(<<x>>, ms)
             /\ Before(ms, Received) => Before(ms, Tail(Received)) /\ Before(ms, <<x>>)
    BY <1>1, <1>4, SplitStage DEF InOrder, Stages, AllLogged
  <1>7. /\ Before(buffer, <<x>>) /\ Before(buffer, Tail(Received))
        /\ Before(<<x>>, Sending) /\ Before(<<x>>, inbox)
        /\ Before(Tail(Received), Sending) /\ Before(Tail(Received), inbox)
    BY <1>6, StageTypes DEF InOrder, Stages
  <1>8. /\ Ascending(buffer') /\ Logged(buffer') /\ Before(buffer', Tail(Received))
        /\ Before(buffer', Sending) /\ Before(buffer', inbox)
        /\ \A ms \in Seq(Line) : Before(ms, buffer) /\ Before(ms, <<x>>) => Before(ms, buffer')
    <2>1. CASE buffer' = buffer
      BY <1>7, <2>1 DEF InOrder, Stages, AllLogged
    <2>2. CASE buffer' = Append(buffer, x)
      <3>1. /\ Ascending(Append(buffer, x)) /\ Logged(Append(buffer, x))
        BY <1>4, <1>6, <1>7, StageTypes, JoinStage DEF InOrder, Stages, AllLogged
      <3>2. /\ Before(Append(buffer, x), Tail(Received))
            /\ Before(Append(buffer, x), Sending) /\ Before(Append(buffer, x), inbox)
        BY <1>4, <1>5, <1>6, <1>7, StageTypes, JoinStage DEF InOrder, Stages
      <3>3. \A ms \in Seq(Line) :
              Before(ms, buffer) /\ Before(ms, <<x>>) => Before(ms, Append(buffer, x))
        BY <1>4, StageTypes, JoinStage
      <3> QED
        BY <2>2, <3>1, <3>2, <3>3
    <2> QED
      BY <1>2, <2>1, <2>2
  <1>9. Stages(buffer', Received', Sending', inbox')
    BY <1>2, <1>3, <1>6, <1>7, <1>8 DEF InOrder, Stages
  <1>10. ASSUME NEW i \in 1..Len(answers) PROVE Ahead(answers[i].lines)'
    <2>1. Ahead(answers[i].lines) /\ answers[i].lines \in Seq(Line)
      BY StageTypes DEF InOrder
    <2>2. /\ Before(answers[i].lines, buffer') /\ Before(answers[i].lines, Tail(Received))
          /\ Before(answers[i].lines, Sending) /\ Before(answers[i].lines, inbox)
      BY <1>6, <1>8, <2>1 DEF Ahead
    <2> QED
      BY <1>2, <1>3, <2>2 DEF Ahead
  <1>11. InOrder'
    BY <1>2, <1>9, <1>10 DEF InOrder
  <1>12. AllLogged'
    BY <1>2, <1>3, <1>6, <1>8 DEF AllLogged, Logged
  <1> QED
    BY <1>11, <1>12

(* The pump takes the first line of the log, for the receiver or for none. *)
LEMMA PumpReadOrder ==
  ASSUME TypeOK, InOrder, AllLogged, PumpRead
  PROVE  InOrder' /\ AllLogged'
  <1> DEFINE x == Head(inbox)
  <1>1. /\ inbox \in Seq(Line) /\ inbox # <<>> /\ inbox' = Tail(inbox) /\ x \in Line
        /\ UNCHANGED <<buffer, receiver, chan, answers, lines>>
        /\ pump' \in {[to |-> receiver, line |-> x], Idle}
    BY DEF PumpRead, TypeOK, workerVars, gameVars
  <1>2. Received' = Received /\ Sending' \in {<<x>>, <<>>}
    BY <1>1 DEF Received, Sending
  <1> HIDE DEF x
  <1>3. /\ Ascending(Tail(inbox)) /\ Before(<<x>>, Tail(inbox))
        /\ Logged(Tail(inbox)) /\ Logged(<<x>>)
        /\ \A ms \in Seq(Line) :
             Before(ms, inbox) => Before(ms, Tail(inbox)) /\ Before(ms, <<x>>)
    BY <1>1, SplitStage DEF InOrder, Stages, AllLogged, x
  <1>4. /\ Ascending(Sending') /\ Logged(Sending') /\ Before(Sending', inbox')
        /\ \A ms \in Seq(Line) : Before(ms, inbox) => Before(ms, Sending')
    BY <1>1, <1>2, <1>3, NothingBefore
  <1>5. Stages(buffer, Received, Sending', inbox')
    BY <1>1, <1>3, <1>4, StageTypes DEF InOrder, Stages
  <1>6. ASSUME NEW i \in 1..Len(answers) PROVE Ahead(answers[i].lines)'
    <2>1. Ahead(answers[i].lines) /\ answers[i].lines \in Seq(Line)
      BY StageTypes DEF InOrder
    <2> QED
      BY <1>1, <1>2, <1>3, <1>4, <2>1 DEF Ahead
  <1>7. InOrder'
    BY <1>1, <1>2, <1>5, <1>6 DEF InOrder
  <1>8. AllLogged'
    BY <1>1, <1>2, <1>3, <1>4 DEF AllLogged, Logged
  <1> QED
    BY <1>7, <1>8

(* The pump sends it: what the receiver does not get is lost.              *)
LEMMA PumpSendOrder ==
  ASSUME TypeOK, InOrder, AllLogged, PumpSend
  PROVE  InOrder' /\ AllLogged'
  <1>1. /\ pump \in [to : Request, line : Line] /\ pump # Idle /\ pump' = Idle
        /\ chan' = [chan EXCEPT ![pump.to] = Append(@, pump.line)]
        /\ chan \in [Request -> Seq(Line)]
        /\ UNCHANGED <<buffer, receiver, inbox, answers, lines>>
    BY DEF PumpSend, TypeOK, workerVars, gameVars
  <1>2. Sending' = <<>>
    BY <1>1 DEF Sending
  <1>3. CASE pump.to # receiver
    <2>1. Received' = Received
      BY <1>1, <1>3 DEF Received, TypeOK
    <2> QED
      BY <1>1, <1>2, <2>1, StagesShrink
  <1>4. CASE pump.to = receiver
    <2> DEFINE x == pump.line
    <2>1. Sending = <<x>> /\ x \in Line
      BY <1>1, <1>4 DEF Sending
    <2>2. Received' = Append(Received, x) /\ Received \in Seq(Line)
      BY <1>1, <1>4, RequestAssumption DEF Received
    <2> HIDE DEF x
    <2>3. /\ Ascending(Received') /\ Logged(Received') /\ Before(Received', inbox)
          /\ Before(buffer, Received')
          /\ \A ms \in Seq(Line) :
               Before(ms, Received) /\ Before(ms, Sending) => Before(ms, Received')
      BY <2>1, <2>2, StageTypes, JoinStage DEF InOrder, Stages, AllLogged
    <2>4. Stages(buffer, Received', <<>>, inbox)
      BY <2>3, NothingBefore DEF InOrder, Stages
    <2>5. ASSUME NEW i \in 1..Len(answers) PROVE Ahead(answers[i].lines)'
      <3>1. Ahead(answers[i].lines) /\ answers[i].lines \in Seq(Line)
        BY StageTypes DEF InOrder
      <3> QED
        BY <1>1, <1>2, <2>3, <3>1, NothingBefore DEF Ahead
    <2>6. InOrder'
      BY <1>1, <1>2, <2>4, <2>5 DEF InOrder
    <2>7. AllLogged'
      BY <1>1, <1>2, <2>3, NothingBefore DEF AllLogged, Logged
    <2> QED
      BY <2>6, <2>7
  <1> QED
    BY <1>3, <1>4

(* The game logs a line that is later than all others.                     *)
LEMMA LogOrder ==
  ASSUME TypeOK, InOrder, AllLogged,
         NEW kind \in {"server", "match", "cont", "other"}, Log(kind)
  PROVE  InOrder' /\ AllLogged'
  <1> DEFINE x == [n |-> lines + 1, kind |-> kind]
  <1>1. /\ inbox' = Append(inbox, x) /\ lines' = lines + 1 /\ lines \in Nat
        /\ x \in Line /\ x.n = lines + 1
        /\ UNCHANGED <<buffer, receiver, chan, answers, pump>>
    BY DEF Log, TypeOK, Line, workerVars
  <1>2. Received' = Received /\ Sending' = Sending
    BY <1>1 DEF Received, Sending
  <1> HIDE DEF x
  <1>3. ASSUME NEW ls \in Seq(Line), Logged(ls)
        PROVE  Before(ls, <<x>>) /\ Logged(ls)'
    <2>1. ASSUME NEW i \in 1..Len(ls) PROVE ls[i].n \in Nat /\ ls[i].n <= lines
      <3>1. ls[i] \in Line
        BY <1>3
      <3>2. ls[i].n \in Nat
        BY <3>1 DEF Line
      <3> QED
        BY <1>3, <3>2 DEF Logged
    <2>2. Before(ls, <<x>>)
      BY <1>1, <2>1 DEF Before
    <2>3. \A i \in 1..Len(ls) : ls[i].n <= lines'
      BY <1>1, <2>1
    <2> QED
      BY <2>2, <2>3 DEF Logged
  <1>4. ASSUME NEW ls \in Seq(Line), Logged(ls), Before(ls, inbox)
        PROVE  Before(ls, inbox')
    BY <1>1, <1>3, <1>4, StageTypes, JoinStage
  <1>5. Ascending(inbox')
    BY <1>1, <1>3, StageTypes, JoinStage DEF InOrder, Stages, AllLogged
  <1>6. Stages(buffer, Received, Sending, inbox')
    BY <1>4, <1>5, StageTypes DEF InOrder, Stages, AllLogged
  <1>7. ASSUME NEW i \in 1..Len(answers) PROVE Ahead(answers[i].lines)'
    <2>1. /\ Ahead(answers[i].lines) /\ answers[i].lines \in Seq(Line)
          /\ Logged(answers[i].lines)
      BY StageTypes DEF InOrder, AllLogged
    <2> QED
      BY <1>1, <1>2, <1>4, <2>1 DEF Ahead
  <1>8. InOrder'
    BY <1>1, <1>2, <1>6, <1>7 DEF InOrder
  <1>9. Logged(inbox)'
    <2>1. inbox \in Seq(Line) /\ Logged(inbox)
      BY StageTypes DEF AllLogged
    <2>2. ASSUME NEW i \in 1..Len(inbox)
          PROVE  inbox[i].n \in Nat /\ inbox[i].n <= lines
      <3>1. inbox[i] \in Line
        BY <2>1
      <3>2. inbox[i].n \in Nat
        BY <3>1 DEF Line
      <3> QED
        BY <2>1, <3>2 DEF Logged
    <2>3. /\ Len(inbox') = Len(inbox) + 1 /\ inbox'[Len(inbox) + 1] = x
          /\ \A i \in 1..Len(inbox) : inbox'[i] = inbox[i]
      BY <1>1, <2>1
    <2>4. \A i \in 1..Len(inbox') : i \in 1..Len(inbox) \/ i = Len(inbox) + 1
      BY <2>1, <2>3
    <2> QED
      BY <1>1, <2>2, <2>3, <2>4 DEF Logged
  <1>10. /\ Logged(buffer)' /\ Logged(Received)' /\ Logged(Sending)'
    BY <1>1, <1>2, <1>3, StageTypes DEF AllLogged, Logged
  <1>11. ASSUME NEW i \in 1..Len(answers) PROVE Logged(answers[i].lines)'
    <2>1. answers[i].lines \in Seq(Line) /\ Logged(answers[i].lines)
      BY StageTypes DEF AllLogged
    <2> QED
      BY <1>1, <1>3, <2>1 DEF Logged
  <1> QED
    BY <1>1, <1>8, <1>9, <1>10, <1>11 DEF AllLogged

(* Until a request is installed nothing is sent to its channel.            *)
LEMMA UntouchedFrame ==
  ASSUME Untouched, UNCHANGED <<sent, taken, chan>>, pump' \in {pump, Idle},
         pc' \in {"lock", "skip", "install"} => pc \in {"lock", "skip", "install"}
  PROVE  Untouched'
  BY DEF Untouched, Fresh

(* The request of an installed channel has been taken and is not Fresh     *)
(* any more: what touches its channel touches no other.                    *)
LEMMA InstalledIsTouched ==
  ASSUME TypeOK, Untouched, SignalMeetsItsCommand,
         pc \in {"write", "receive", "clear"}
  PROVE  /\ receiver = sent[taken] /\ taken \in 1..Len(sent)
         /\ \A i \in 1..Len(sent) : i > taken => sent[i] # receiver
  BY DEF TypeOK, Untouched, SignalMeetsItsCommand, Current

LEMMA UntouchedStep ==
  ASSUME TypeOK, Untouched, SignalMeetsItsCommand, [Next]_vars
  PROVE  Untouched'
  <1>0. sent \in Seq(Request) /\ taken \in 0..Len(sent) /\ Len(sent) \in Nat
    BY DEF TypeOK
  <1>1. ASSUME NEW r \in Request, RunCommand(r)
        PROVE  Untouched'
    <2>1. /\ UNCHANGED <<taken, pc, chan, pump>>
          /\ sent' = Append(sent, r) /\ \A i \in 1..Len(sent) : sent[i] # r
      BY <1>1 DEF RunCommand, workerVars
    <2>2. /\ Len(sent') = Len(sent) + 1 /\ sent'[Len(sent) + 1] = r
          /\ \A i \in 1..Len(sent) : sent'[i] = sent[i]
      BY <1>0, <2>1
    <2>3. \A i \in 1..Len(sent') : i \in 1..Len(sent) \/ i = Len(sent) + 1
      BY <1>0, <2>2
    <2>4. \A q \in Request : Fresh(q) = Fresh(q)'
      BY <2>1 DEF Fresh
    <2>5. Fresh(r)
      BY <2>1 DEF Untouched
    <2>6. \A i \in 1..Len(sent') : \A j \in 1..Len(sent') : sent'[i] = sent'[j] => i = j
      BY <2>1, <2>2, <2>3 DEF Untouched
    <2>7. ASSUME NEW i \in 1..Len(sent'),
                 i > taken' \/ (i = taken' /\ pc' \in {"lock", "skip", "install"})
          PROVE  Fresh(sent[i])'
      <3>1. CASE i = Len(sent) + 1
        BY <2>1, <2>2, <2>5, <3>1 DEF Fresh
      <3>2. CASE i \in 1..Len(sent)
        BY <2>1, <2>2, <2>7, <3>2 DEF Fresh, Untouched
      <3> QED
        BY <2>3, <3>1, <3>2
    <2>8. ASSUME NEW q \in Request, \A i \in 1..Len(sent') : sent'[i] # q
          PROVE  Fresh(q)'
      <3>1. \A i \in 1..Len(sent) : i \in 1..Len(sent') /\ sent[i] # q
        BY <1>0, <2>2, <2>8
      <3> QED
        BY <2>4, <3>1 DEF Untouched
    <2> QED
      BY <2>6, <2>7, <2>8 DEF Untouched
  <1>2. CASE Take
    <2>1. /\ taken' = taken + 1 /\ pc' = "lock"
          /\ UNCHANGED <<sent, chan, pump>>
      BY <1>2 DEF Take
    <2> QED
      BY <1>0, <2>1 DEF Untouched, Fresh
  <1>3. CASE Lock \/ SkipWait \/ Install \/ Write \/ Renew \/ EndTimer
             \/ CleanSignal \/ Clear \/ Answer \/ Unlock
    <2>1. /\ UNCHANGED <<sent, taken, chan, pump>>
          /\ pc' \in {"lock", "skip", "install"} => pc \in {"lock", "skip", "install"}
      BY <1>3
      DEF Lock, SkipWait, Install, Write, Renew, EndTimer, CleanSignal, Clear,
          Answer, Unlock, workerVars
    <2> QED
      BY <2>1, UntouchedFrame
  (* What is taken from a channel, or put into it, is the current one's.   *)
  <1>4. ASSUME NEW r \in Request, ~Fresh(r), NEW ls, chan' = [chan EXCEPT ![r] = ls],
               UNCHANGED <<sent, taken, pc>>, pump' \in {pump, Idle}
        PROVE  Untouched'
    <2>1. \A q \in Request : Fresh(q) => Fresh(q)'
      BY <1>4 DEF Fresh, TypeOK
    <2>2. ASSUME NEW i \in 1..Len(sent),
                 i > taken \/ (i = taken /\ pc \in {"lock", "skip", "install"})
          PROVE  Fresh(sent[i])'
      <3>1. sent[i] \in Request /\ Fresh(sent[i])
        BY <1>0, <2>2 DEF Untouched
      <3> QED
        BY <1>4, <3>1 DEF Fresh, TypeOK
    <2> QED
      BY <1>4, <2>1, <2>2 DEF Untouched
  <1>5. CASE ReceiveLine
    <2>1. /\ Current \in Request /\ chan[Current] # <<>>
          /\ chan' = [chan EXCEPT ![Current] = Tail(chan[Current])]
          /\ UNCHANGED <<sent, taken, pc, pump>>
      BY <1>5, CurrentType DEF ReceiveLine
    <2> QED
      BY <1>4, <2>1 DEF Fresh
  <1>6. CASE PumpSend
    <2>1. /\ pump \in [to : Request, line : Line] /\ pump # Idle /\ pump' = Idle
          /\ chan' = [chan EXCEPT ![pump.to] = Append(chan[pump.to], pump.line)]
          /\ UNCHANGED <<sent, taken, pc>>
      BY <1>6 DEF PumpSend, TypeOK, workerVars
    <2>2. pump.to \in Request /\ ~Fresh(pump.to)
      BY <2>1 DEF Fresh
    <2> QED
      BY <1>4, <2>1, <2>2
  (* The pump finds only the channel of the installed request.             *)
  <1>7. CASE PumpRead
    <2>1. /\ UNCHANGED <<sent, taken, pc, chan>>
          /\ pump' = Idle \/ (receiver # NoRequest /\ pump'.to = receiver)
      BY <1>7 DEF PumpRead, workerVars
    <2>2. CASE pump' = Idle
      BY <2>1, <2>2, UntouchedFrame
    <2>3. CASE receiver # NoRequest /\ pump'.to = receiver
      <3>1. pc \in {"write", "receive", "clear"}
        BY <2>3 DEF SignalMeetsItsCommand
      <3>2. /\ receiver = sent[taken] /\ taken \in 1..Len(sent)
            /\ \A i \in 1..Len(sent) : i > taken => sent[i] # receiver
        BY <3>1, InstalledIsTouched
      <3>3. pump.to # receiver \/ pump = Idle
        BY <1>7 DEF PumpRead
      <3>4. \A r \in Request : Fresh(r) /\ r # receiver => Fresh(r)'
        BY <2>1, <2>3 DEF Fresh
      <3>5. ASSUME NEW i \in 1..Len(sent), i > taken
            PROVE  Fresh(sent[i])'
        BY <2>1, <2>3, <3>2, <3>5 DEF Fresh, Untouched
      <3>6. ASSUME NEW r \in Request, \A i \in 1..Len(sent) : sent[i] # r
            PROVE  Fresh(r)'
        BY <3>2, <3>4, <3>6 DEF Untouched
      <3> QED
        BY <2>1, <3>1, <3>5, <3>6 DEF Untouched
    <2> QED
      BY <2>1, <2>2, <2>3
  <1>8. CASE UNCHANGED <<sent, taken, pc, chan, pump>>
    BY <1>8, UntouchedFrame
  <1>9. ASSUME Others \/ UNCHANGED vars, ~PumpRead, ~PumpSend
        PROVE  UNCHANGED <<sent, taken, pc, chan, pump>>
    BY <1>9, OthersLeaveWorker
    DEF Others, Pause, ExpireLock, Log, GameStop, GameStart, Disconnect, vars
  <1> QED
    BY <1>1, <1>2, <1>3, <1>5, <1>6, <1>7, <1>8, <1>9, NextSplit DEF Worker

LEMMA OrderedStep ==
  ASSUME TypeOK, SignalMeetsItsCommand, BufferStarts, WayInv, [Next]_vars
  PROVE  InOrder' /\ AllLogged'
  <1> USE DEF WayInv
  <1>1. ASSUME UNCHANGED <<answers, lines, inbox, buffer, chan, pump, receiver>>
        PROVE  InOrder' /\ AllLogged'
    <2>1. Received' = Received /\ Sending' = Sending
      BY <1>1 DEF Received, Sending
    <2> QED
      BY <1>1, <2>1, StagesShrink
  <1>2. ASSUME \/ \E r \in Request : RunCommand(r)
               \/ Take \/ Write \/ Renew \/ EndTimer \/ CleanSignal \/ Unlock
               \/ Pause \/ ExpireLock \/ GameStop \/ GameStart \/ Disconnect
               \/ UNCHANGED vars
        PROVE  UNCHANGED <<answers, lines, inbox, buffer, chan, pump, receiver>>
    BY <1>2
    DEF RunCommand, Take, Write, Renew, EndTimer, CleanSignal, Unlock, Pause,
        ExpireLock, GameStop, GameStart, Disconnect, vars, workerVars, gameVars
  <1>3. CASE Lock
    <2>1. /\ UNCHANGED <<lines, inbox, buffer, chan, pump, receiver>>
          /\ pc = "lock" /\ buffer = <<>>
      BY <1>3 DEF Lock, gameVars, BufferStarts
    <2>2. CASE UNCHANGED answers
      BY <1>1, <2>1, <2>2
    <2>3. CASE Respond(<<>>, "error")
      <3>1. Received' = Received /\ Sending' = Sending
        BY <2>1 DEF Received, Sending
      <3> QED
        BY <2>1, <2>3, <3>1, RespondOrder
    <2> QED
      BY <1>3, <2>2, <2>3 DEF Lock
  <1>4. CASE SkipWait
    <2>1. /\ UNCHANGED <<lines, inbox, buffer, chan, pump, receiver>>
          /\ pc = "skip" /\ buffer = <<>> /\ Respond(<<>>, "skip")
      BY <1>4 DEF SkipWait, gameVars, BufferStarts
    <2>2. Received' = Received /\ Sending' = Sending
      BY <2>1 DEF Received, Sending
    <2> QED
      BY <2>1, <2>2, RespondOrder
  <1>5. CASE Answer
    <2> DEFINE how == IF timer THEN "timer" ELSE "clean"
    <2>1. /\ UNCHANGED <<lines, inbox, chan, pump, receiver>>
          /\ pc = "answer" /\ buffer' = <<>> /\ Respond(buffer, how)
      BY <1>5 DEF Answer, gameVars
    <2>2. Received' = Received /\ Sending' = Sending
      BY <2>1 DEF Received, Sending
    <2> QED
      BY <2>1, <2>2, RespondOrder
  <1>6. CASE Clear
    <2>1. /\ UNCHANGED <<answers, lines, inbox, buffer, chan, pump>>
          /\ receiver' = NoRequest
      BY <1>6 DEF Clear, gameVars
    <2>2. Received' = <<>> /\ Sending' = <<>>
      BY <2>1, RequestAssumption DEF Received, Sending, TypeOK
    <2> QED
      BY <2>1, <2>2, StagesShrink
  (* The channel of the request that is installed is still empty.          *)
  <1>7. CASE Install
    <2>1. /\ UNCHANGED <<answers, lines, inbox, buffer, chan, pump>>
          /\ receiver' = Current /\ pc = "install"
      BY <1>7 DEF Install, gameVars
    <2>2. taken \in 1..Len(sent)
      BY <2>1 DEF TypeOK
    <2>3. Fresh(Current)
      BY <2>1, <2>2 DEF Untouched, Current
    <2>4. Received' = <<>> /\ Sending' = <<>>
      BY <2>1, <2>3 DEF Received, Sending, Fresh
    <2> QED
      BY <2>1, <2>4, StagesShrink
  <1>8. CASE ReceiveLine
    BY <1>8, ReceiveOrder
  <1>9. CASE PumpRead
    BY <1>9, PumpReadOrder
  <1>10. CASE PumpSend
    BY <1>10, PumpSendOrder
  <1>11. ASSUME NEW kind \in {"server", "match", "cont", "other"}, Log(kind)
         PROVE  InOrder' /\ AllLogged'
    BY <1>11, LogOrder
  <1> QED
    BY <1>1, <1>2, <1>3, <1>4, <1>5, <1>6, <1>7, <1>8, <1>9, <1>10, <1>11
    DEF Next, Worker

LEMMA WayStep ==
  ASSUME TypeOK, SignalMeetsItsCommand, BufferStarts, WayInv, [Next]_vars
  PROVE  WayInv'
  BY UntouchedStep, OrderedStep DEF WayInv

-----------------------------------------------------------------------------
(* The inductive invariant of the command processor holds.                 *)
THEOREM Invariance == Spec => []IInv
  <1>1. IInv /\ [Next]_vars => IInv'
    BY TypeStep, OrderStep, SignalStep, BufferStep, MatchStep, ResponseStep,
       WayStep
    DEF IInv
  <1> QED
    BY <1>1, InitInvariant, PTL DEF Spec

(* Type correctness.                                                       *)
THEOREM TypeCorrect == Spec => []TypeOK
  BY Invariance, PTL DEF IInv

(* One response for each command, in the order of the queue.               *)
THEOREM ResponsesInOrder == Spec => []AnswersInOrder
  BY Invariance, PTL DEF IInv

(* A clean signal reaches the command it was meant for.                    *)
THEOREM SignalsMeetTheirCommand == Spec => []SignalMeetsItsCommand
  BY Invariance, PTL DEF IInv

(* Whatever fails between Lock and Unlock, a response begins with a        *)
(* message of the server, and a command that waits for a match is answered *)
(* with one or given up.                                                   *)
THEOREM ResponsesAreSound == Spec => []ResponsesSound
  BY Invariance, PTL DEF IInv, ResponsesSound

(* The responses quote the log in order, and no line of it twice: a line   *)
(* the pump still holds for the channel of an earlier command is lost, and *)
(* turns up in no later response.                                          *)
THEOREM ResponsesQuoteTheLog == Spec => []LinesInOrder
  BY Invariance, InOrderIsLinesInOrder, PTL DEF IInv, WayInv

-----------------------------------------------------------------------------
(* PlayerStore.                                                            *)

(* A version, or none.                                                     *)
Told == Nat \cup {Absent}

(* Where a thread has no record yet.                                       *)
NoRecord == {"idle", "lookup", "insert", "inserting"}

(* Of the types only what the argument needs.                              *)
StoreTyped ==
  /\ playerInfo \in [Player -> 0..MaxRecords]
  /\ version \in [Record -> Nat]
  /\ DOMAIN at = Thread
  /\ player \in [Thread -> 0..Players]
  /\ mine \in [Thread -> 0..MaxRecords]
  /\ wrote \in [Thread -> Nat]
  /\ next \in [Thread -> Nat \ {0}]
  /\ snap \in [Thread -> [Player -> Told]]
  /\ file.data \in [Player -> Told]
  /\ acked \in [Player -> Told]
  /\ \A t \in Thread : /\ at[t] # "idle" => player[t] \in Player
                       /\ at[t] \notin NoRecord => mine[t] # 0

(* Where a thread may have made a version.                                 *)
Committing == Snapshotting \cup {"rlock", "commit"}

(* A thread that has a record has that of its player.                      *)
MineIsCurrent(t) ==
  /\ wrote[t] # 0 => at[t] \in Committing
  /\ at[t] \in NoRecord => mine[t] = 0
  /\ at[t] \notin NoRecord => playerInfo[player[t]] = mine[t]

(* Versions only grow: the record has what was written, and what was told. *)
WrittenHolds(t) == wrote[t] # 0 => version[mine[t]] >= wrote[t]
ToldHolds(p) ==
  acked[p] # Absent => playerInfo[p] # 0 /\ version[playerInfo[p]] >= acked[p]

OneCommit ==
  \A t \in Thread : \A u \in Thread :
    at[t] \in Snapshotting /\ at[u] \in Snapshotting => t = u

(* The snapshot has what was told of p, and what t itself has written.     *)
Covers(t, p) ==
  /\ acked[p] # Absent => snap[t][p] >= acked[p]
  /\ p = player[t] /\ wrote[t] # 0 => snap[t][p] >= wrote[t]

SnapshotCovers(t) ==
  /\ at[t] # "marshal" => next[t] = 1
  /\ at[t] = "marshal" => \A p \in Player : p < next[t] => Covers(t, p)
  /\ at[t] \in {"truncate", "write"} => \A p \in Player : Covers(t, p)

(* The file is empty while it is written, and says what was told else.     *)
FileInv ==
  /\ \A t \in Thread : at[t] = "write" => file.size = 0
  /\ (\A t \in Thread : at[t] # "write") =>
       \A p \in Player : acked[p] # Absent => file.ok /\ file.data[p] >= acked[p]

Kept == /\ OneCommit /\ FileInv
        /\ \A t \in Thread : MineIsCurrent(t) /\ WrittenHolds(t) /\ SnapshotCovers(t)
        /\ \A p \in Player : ToldHolds(p)

StoreIInv == StoreTyped /\ (flaws = {} => Kept)

LEMMA StoreInitInv == StoreInit => StoreIInv
  <1> SUFFICES ASSUME StoreInit PROVE StoreIInv
    OBVIOUS
  <1> USE StoreBoundAssumption DEF StoreInit, All, Nothing, Absent, Player, Record
  <1>1. StoreTyped
    BY DEF StoreTyped, Told, NoRecord
  <1>2. OneCommit /\ FileInv
    BY DEF OneCommit, Snapshotting, FileInv
  <1>3. \A t \in Thread : MineIsCurrent(t) /\ WrittenHolds(t) /\ SnapshotCovers(t)
    BY DEF MineIsCurrent, WrittenHolds, SnapshotCovers, NoRecord
  <1>4. \A p \in Player : ToldHolds(p)
    BY DEF ToldHolds
  <1> QED
    BY <1>1, <1>2, <1>3, <1>4 DEF StoreIInv, Kept

LEMMA StoreNextSplit ==
  ASSUME [StoreNext]_storeVars
  PROVE  \/ \E t \in Thread : ThreadStep(t)
         \/ \E t \in Thread, p \in Player : Call(t, p)
         \/ Crash
         \/ UNCHANGED storeVars
  BY DEF StoreNext

(* The steps that only take or give back a lock, or look something up.     *)
Moves(t) == \/ Insert(t) \/ LockRecord(t) \/ RecordLocked(t) \/ Ask(t)
            \/ LookupUuid(t) \/ EnterUuid(t) \/ RLockRecord(t) \/ RLockUuids(t)
            \/ Commit(t)

(* Where they lead.                                                        *)
Ways == {<<"insert", "inserting">>, <<"lock", "locking">>, <<"locking", "ask">>,
         <<"ask", "unlock">>, <<"ask", "commit">>, <<"ask", "map">>,
         <<"map", "unlock">>, <<"map", "commit">>, <<"map", "mapping">>,
         <<"mapping", "unlock">>, <<"mapping", "commit">>, <<"rlock", "commit">>,
         <<"commit", "uuids">>, <<"uuids", "marshal">>}

LEMMA MovesWays ==
  ASSUME NEW t \in Thread, Moves(t)
  PROVE  /\ \E l : <<at[t], l>> \in Ways /\ at' = [at EXCEPT ![t] = l]
         /\ UNCHANGED <<playerInfo, version, player, mine, wrote, next, snap, file, acked>>
  <1>1. UNCHANGED <<playerInfo, version, player, mine, wrote, next, snap, file, acked>>
    BY DEF Moves, Insert, LockRecord, RecordLocked, Ask, LookupUuid, EnterUuid,
           RLockRecord, RLockUuids, Commit, store, work
  <1>2. \E l : <<at[t], l>> \in Ways /\ at' = [at EXCEPT ![t] = l]
    BY DEF Moves, Ways, Insert, LockRecord, RecordLocked, Ask, LookupUuid, EnterUuid,
           RLockRecord, RLockUuids, Commit, Leave, At, Goto
  <1> QED
    BY <1>1, <1>2

(* A step of t leaves what is said of the others.                          *)
LEMMA OthersKeep ==
  ASSUME StoreTyped, Kept, NEW u \in Thread,
         at'[u] = at[u], player'[u] = player[u], mine'[u] = mine[u],
         wrote'[u] = wrote[u], next'[u] = next[u], snap'[u] = snap[u],
         \A p \in Player : playerInfo[p] # 0 => playerInfo'[p] = playerInfo[p],
         \A r \in Record : version'[r] \in Nat /\ version'[r] >= version[r],
         UNCHANGED acked \/ at[u] \notin Snapshotting
  PROVE  MineIsCurrent(u)' /\ WrittenHolds(u)' /\ SnapshotCovers(u)'
  <1>1. MineIsCurrent(u) /\ WrittenHolds(u) /\ SnapshotCovers(u)
    BY DEF Kept
  <1>2. MineIsCurrent(u)'
    BY <1>1 DEF MineIsCurrent, StoreTyped, NoRecord
  <1>3. WrittenHolds(u)'
    <2>1. CASE wrote[u] = 0
      BY <2>1 DEF WrittenHolds
    <2>2. CASE wrote[u] # 0
      <3>1. mine[u] \in Record /\ version[mine[u]] \in Nat /\ wrote[u] \in Nat
        BY <1>1, <2>2 DEF MineIsCurrent, StoreTyped, Record, NoRecord, Committing,
           Snapshotting
      <3> QED
        BY <1>1, <3>1 DEF WrittenHolds
    <2> QED
      BY <2>1, <2>2
  <1>4. SnapshotCovers(u)'
    <2>1. CASE UNCHANGED acked
      <3>1. \A p \in Player : Covers(u, p) => Covers(u, p)'
        BY <2>1 DEF Covers
      <3> QED
        BY <1>1, <3>1 DEF SnapshotCovers
    <2>2. CASE at[u] \notin Snapshotting
      BY <1>1, <2>2 DEF SnapshotCovers, Snapshotting
    <2> QED
      BY <2>1, <2>2
  <1> QED
    BY <1>2, <1>3, <1>4

LEMMA ToldStays ==
  ASSUME StoreTyped, Kept, UNCHANGED acked, NEW p \in Player,
         playerInfo[p] # 0 => playerInfo'[p] = playerInfo[p],
         \A r \in Record : version'[r] \in Nat /\ version'[r] >= version[r]
  PROVE  ToldHolds(p)'
  <1>1. ToldHolds(p)
    BY DEF Kept
  <1>2. playerInfo[p] # 0 => playerInfo[p] \in Record
    BY StoreBoundAssumption DEF StoreTyped, Record
  <1> QED
    BY <1>1, <1>2 DEF ToldHolds, StoreTyped, Told

(* What is said of the threads together, when t has gone to l.             *)
LEMMA OneCommitStays ==
  ASSUME Kept, NEW t \in Thread, \A u \in Thread : u # t => at'[u] = at[u],
         at'[t] \in Snapshotting => at[t] \in Snapshotting
  PROVE  OneCommit'
  BY DEF OneCommit, Kept

LEMMA FileStays ==
  ASSUME Kept, NEW t \in Thread, \A u \in Thread : u # t => at'[u] = at[u],
         at[t] # "write", at'[t] # "write", UNCHANGED <<file, acked>>
  PROVE  FileInv'
  BY DEF FileInv, Kept

LEMMA MovesKeep ==
  ASSUME StoreTyped, Kept, NEW t \in Thread, Moves(t), flaws' = {}
  PROVE  Kept'
  <1>1. PICK l : <<at[t], l>> \in Ways /\ at' = [at EXCEPT ![t] = l]
    BY MovesWays
  <1>2. UNCHANGED <<playerInfo, version, player, mine, wrote, next, snap, file, acked>>
    BY MovesWays
  <1>3. /\ at'[t] = l /\ DOMAIN at' = Thread
        /\ \A u \in Thread : u # t => at'[u] = at[u]
    BY <1>1 DEF StoreTyped
  <1>5. OneCommit'
    <2>1. CASE at[t] = "commit"
      <3>1. Commit(t)
        BY <1>1, <2>1 DEF Moves, Insert, LockRecord, RecordLocked, Ask, LookupUuid,
           EnterUuid, RLockRecord, RLockUuids, At
      <3>2. \A u \in Thread : at[u] \notin Snapshotting
        BY <3>1 DEF Commit
      <3> QED
        BY <1>3, <3>2 DEF OneCommit
    <2>2. CASE at[t] # "commit"
      <3>1. l \in Snapshotting => at[t] \in Snapshotting
        BY <1>1, <2>2 DEF Ways, Snapshotting
      <3> QED
        BY <1>3, <3>1, OneCommitStays
    <2> QED
      BY <2>1, <2>2
  <1>6. /\ l \in NoRecord <=> at[t] \in NoRecord
        /\ l # "idle" /\ at[t] # "idle"
        /\ l \notin {"truncate", "write"} /\ at[t] \notin {"truncate", "write", "marshal"}
    BY <1>1 DEF Ways, NoRecord
  <1>6a. at[t] \in Committing => l \in Committing
    BY <1>1 DEF Ways, Committing, Snapshotting
  <1>7. MineIsCurrent(t)' /\ WrittenHolds(t)'
    BY <1>2, <1>3, <1>6, <1>6a DEF MineIsCurrent, WrittenHolds, Kept
  <1>8. SnapshotCovers(t)'
    <2>1. next'[t] = 1 /\ \A p \in Player : ~(p < 1)
      BY <1>2, <1>6 DEF SnapshotCovers, Kept, Player
    <2> QED
      BY <1>3, <1>6, <2>1 DEF SnapshotCovers
  <1>9. \A r \in Record : version'[r] \in Nat /\ version'[r] >= version[r]
    BY <1>2 DEF StoreTyped
  <1>10. \A u \in Thread : u # t =>
           MineIsCurrent(u)' /\ WrittenHolds(u)' /\ SnapshotCovers(u)'
    BY <1>2, <1>3, <1>9, OthersKeep
  <1>11. \A p \in Player : ToldHolds(p)'
    BY <1>2, <1>9, ToldStays
  <1>12. FileInv'
    BY <1>2, <1>3, <1>6, FileStays
  <1> QED
    BY <1>5, <1>7, <1>8, <1>10, <1>11, <1>12 DEF Kept


(* Nothing goes, and nothing is taken back.                                *)
LEMMA FlawsStay == ASSUME [StoreNext]_storeVars, flaws' = {} PROVE flaws = {}
  <1>1. CASE UNCHANGED storeVars
    BY <1>1 DEF storeVars
  <1>2. CASE Crash
    BY <1>2 DEF Crash
  <1>3. ASSUME NEW t \in Thread, NEW p \in Player, Call(t, p) PROVE flaws = {}
    BY <1>3 DEF Call
  <1>4. ASSUME NEW t \in Thread, ThreadStep(t) PROVE flaws = {}
    BY <1>4 DEF ThreadStep, GetPlayerInfo, CommitStep, Lookup, Insert, Inserting,
       LockRecord, RecordLocked, Ask, LookupUuid, EnterUuid, UnlockRecord, Change,
       RLockRecord, Commit, RLockUuids, Marshal, Marshalled, Truncate, WriteFile
  <1> QED
    BY <1>1, <1>2, <1>3, <1>4, StoreNextSplit

LEMMA MovesTyped ==
  ASSUME StoreTyped, NEW t \in Thread, Moves(t)
  PROVE  StoreTyped'
  <1>1. PICK l : <<at[t], l>> \in Ways /\ at' = [at EXCEPT ![t] = l]
    BY MovesWays
  <1>2. (l \notin NoRecord => at[t] \notin NoRecord) /\ at[t] # "idle"
    BY <1>1 DEF Ways, NoRecord
  <1>3. \A u \in Thread : /\ at'[u] \notin NoRecord => at[u] \notin NoRecord
                          /\ at'[u] # "idle" => at[u] # "idle"
    BY <1>1, <1>2 DEF StoreTyped
  <1>4. DOMAIN at' = Thread
    BY <1>1 DEF StoreTyped
  <1>5. UNCHANGED <<playerInfo, version, player, mine, wrote, next, snap, file, acked>>
    BY MovesWays
  <1> QED
    BY <1>3, <1>4, <1>5 DEF StoreTyped

(* Return from GetPlayerInfo.                                              *)
LEMMA ReturnedTyped ==
  ASSUME StoreTyped, NEW t \in Thread, Returned(t), at[t] \notin NoRecord
  PROVE  /\ DOMAIN at' = Thread
         /\ player' \in [Thread -> 0..Players]
         /\ mine' \in [Thread -> 0..MaxRecords]
         /\ wrote' \in [Thread -> Nat]
         /\ \A u \in Thread : /\ at'[u] # "idle" => player'[u] \in Player
                              /\ at'[u] \notin NoRecord => mine'[u] # 0
  <1> USE StoreBoundAssumption
  <1>1. CASE Done(t)
    BY <1>1 DEF Done, StoreTyped, NoRecord
  <1>2. CASE Goto(t, "change") /\ UNCHANGED <<player, mine, wrote>>
    BY <1>2 DEF Goto, StoreTyped, NoRecord
  <1> QED
    BY <1>1, <1>2 DEF Returned

LEMMA StepTyped ==
  ASSUME StoreTyped, NEW t \in Thread, ThreadStep(t)
  PROVE  StoreTyped'
  <1> USE StoreBoundAssumption DEF At, Goto, store, work
  <1>1. CASE Moves(t)
    BY <1>1, MovesTyped
  <1>2. CASE Lookup(t)
    <2>1. player[t] \in Player /\ playerInfo[player[t]] \in 0..MaxRecords
      BY <1>2 DEF Lookup, StoreTyped
    <2> QED
      BY <1>2, <2>1 DEF Lookup, StoreTyped, NoRecord
  <1>3. CASE Inserting(t)
    <2>1. PICK r \in Record : /\ playerInfo' = [playerInfo EXCEPT ![player[t]] = r]
                              /\ mine' = [mine EXCEPT ![t] = r]
      BY <1>3 DEF Inserting
    <2>2. r \in 0..MaxRecords /\ r # 0
      BY DEF Record
    <2>3. playerInfo' \in [Player -> 0..MaxRecords] /\ mine' \in [Thread -> 0..MaxRecords]
      BY <2>1, <2>2 DEF StoreTyped
    <2> QED
      BY <1>3, <2>1, <2>2, <2>3 DEF Inserting, StoreTyped, NoRecord
  <1>4. CASE UnlockRecord(t)
    <2>1. at[t] \notin NoRecord
      BY <1>4 DEF UnlockRecord, NoRecord
    <2> QED
      BY <1>4, <2>1, ReturnedTyped DEF UnlockRecord, StoreTyped
  <1>5. CASE Change(t)
    <2>1. mine[t] \in Record
      <3>1. mine[t] # 0 /\ mine[t] \in 0..MaxRecords
        BY <1>5 DEF Change, StoreTyped, NoRecord
      <3> QED
        BY <3>1 DEF Record
    <2>2. version' \in [Record -> Nat]
      BY <1>5, <2>1 DEF Change, StoreTyped
    <2>3. wrote' \in [Thread -> Nat]
      BY <1>5, <2>1, <2>2 DEF Change, StoreTyped
    <2> QED
      BY <1>5, <2>2, <2>3 DEF Change, StoreTyped, NoRecord
  <1>6. CASE Marshal(t)
    <2>1. next[t] \in Player /\ playerInfo[next[t]] \in 0..MaxRecords
      BY <1>6 DEF Marshal, StoreTyped, Player
    <2>1a. next' \in [Thread -> Nat \ {0}]
      <3>1. next[t] + 1 \in Nat \ {0}
        BY DEF StoreTyped
      <3> QED
        BY <1>6, <3>1 DEF Marshal, StoreTyped
    <2>2. CASE UNCHANGED snap
      BY <1>6, <2>2, <2>1a DEF Marshal, StoreTyped
    <2>3. CASE playerInfo[next[t]] # 0 /\ snap' = [snap EXCEPT ![t][next[t]] = version[playerInfo[next[t]]]]
      <3>1. playerInfo[next[t]] \in Record
        BY <2>1, <2>3 DEF Record
      <3>2. version[playerInfo[next[t]]] \in Told
        BY <3>1 DEF StoreTyped, Told
      <3>3. snap' \in [Thread -> [Player -> Told]]
        BY <2>1, <2>3, <3>2 DEF StoreTyped
      <3> QED
        BY <1>6, <3>3, <2>1a DEF Marshal, StoreTyped
    <2> QED
      BY <1>6, <2>2, <2>3 DEF Marshal
  <1>7. CASE Marshalled(t)
    BY <1>7 DEF Marshalled, StoreTyped, NoRecord
  <1>8. CASE Truncate(t)
    BY <1>8 DEF Truncate, StoreTyped, NoRecord, Nothing, Told
  <1>9. CASE WriteFile(t)
    <2>1. Nothing \in [Player -> Told]
      BY DEF Nothing, Told
    <2>2. file'.data \in [Player -> Told] /\ snap' \in [Thread -> [Player -> Told]]
      BY <1>9, <2>1 DEF WriteFile, Written, StoreTyped
    <2>3. at[t] \notin NoRecord /\ at[t] # "idle"
      BY <1>9 DEF WriteFile, NoRecord
    <2>4. CASE Done(t) /\ acked' = [acked EXCEPT ![player[t]] = IF @ > wrote[t] THEN @ ELSE wrote[t]]
      <3>1. player[t] \in Player /\ wrote[t] \in Told
        BY <2>3 DEF StoreTyped, Told
      <3>2. acked' \in [Player -> Told]
        BY <2>4, <3>1 DEF StoreTyped
      <3> QED
        BY <1>9, <2>2, <2>3, <2>4, <3>2, ReturnedTyped DEF WriteFile, StoreTyped, Returned
    <2>5. CASE Returned(t) /\ UNCHANGED acked
      BY <1>9, <2>2, <2>3, <2>5, ReturnedTyped DEF WriteFile, StoreTyped
    <2> QED
      BY <1>9, <2>4, <2>5 DEF WriteFile
  <1> QED
    BY <1>1, <1>2, <1>3, <1>4, <1>5, <1>6, <1>7, <1>8, <1>9
    DEF ThreadStep, GetPlayerInfo, CommitStep, Moves

LEMMA NextTyped == ASSUME StoreTyped, [StoreNext]_storeVars PROVE StoreTyped'
  <1> USE StoreBoundAssumption
  <1>1. CASE UNCHANGED storeVars
    BY <1>1 DEF storeVars, StoreTyped
  <1>2. CASE Crash
    <2>1. playerInfo' \in [Player -> 0..MaxRecords]
      BY <1>2 DEF Crash, Load, Player
    <2>2. version' \in [Record -> Nat]
      BY <1>2 DEF Crash, Load, StoreTyped, Told, Record
    <2> QED
      BY <1>2, <2>1, <2>2 DEF Crash, All, Nothing, StoreTyped, Told, NoRecord
  <1>3. ASSUME NEW t \in Thread, NEW p \in Player, Call(t, p) PROVE StoreTyped'
    BY <1>3 DEF Call, At, Goto, store, work, StoreTyped, NoRecord, Player
  <1> QED
    BY <1>1, <1>2, <1>3, StepTyped, StoreNextSplit

(* A step of t that leaves the store, and the commits of the others.       *)
LEMMA CallKeeps ==
  ASSUME StoreTyped, Kept, NEW t \in Thread, NEW p \in Player, Call(t, p)
  PROVE  Kept'
  <1> USE DEF Call, At, Goto, store, work
  <1>1. /\ at[t] = "idle" /\ at'[t] = "lookup" /\ player'[t] = p
        /\ \A u \in Thread : u # t => at'[u] = at[u] /\ player'[u] = player[u]
        /\ UNCHANGED <<playerInfo, version, mine, wrote, next, snap, file, acked>>
    BY DEF StoreTyped
  <1> USE DEF Call
  <1>2. MineIsCurrent(t)' /\ WrittenHolds(t)' /\ SnapshotCovers(t)'
    BY <1>1 DEF Kept, MineIsCurrent, WrittenHolds, SnapshotCovers, NoRecord,
       Committing, Snapshotting
  <1>3. \A r \in Record : version'[r] \in Nat /\ version'[r] >= version[r]
    BY <1>1 DEF StoreTyped
  <1>4. \A u \in Thread : u # t => MineIsCurrent(u)' /\ WrittenHolds(u)' /\ SnapshotCovers(u)'
    BY <1>1, <1>3, OthersKeep
  <1>5. \A q \in Player : ToldHolds(q)'
    BY <1>1, <1>3, ToldStays
  <1>6. OneCommit' /\ FileInv'
    BY <1>1, OneCommitStays, FileStays DEF Snapshotting
  <1> QED
    BY <1>2, <1>4, <1>5, <1>6 DEF Kept

LEMMA LookupKeeps ==
  ASSUME StoreTyped, Kept, NEW t \in Thread, Lookup(t)
  PROVE  Kept'
  <1>1. /\ at[t] = "lookup" /\ at'[t] \in {"insert", "lock"}
        /\ mine'[t] = playerInfo[player[t]]
        /\ at'[t] = "insert" <=> mine'[t] = 0
    BY DEF Lookup, At, Goto, StoreTyped
  <1>2. /\ \A u \in Thread : u # t => at'[u] = at[u] /\ mine'[u] = mine[u]
        /\ UNCHANGED <<playerInfo, version, player, wrote, next, snap, file, acked>>
    BY DEF Lookup, Goto, StoreTyped, store, work
  <1>3. MineIsCurrent(t)' /\ WrittenHolds(t)' /\ SnapshotCovers(t)'
    BY <1>1, <1>2 DEF Kept, MineIsCurrent, WrittenHolds, SnapshotCovers, NoRecord,
       Committing, Snapshotting
  <1>4. \A r \in Record : version'[r] \in Nat /\ version'[r] >= version[r]
    BY <1>2 DEF StoreTyped
  <1>5. \A u \in Thread : u # t => MineIsCurrent(u)' /\ WrittenHolds(u)' /\ SnapshotCovers(u)'
    BY <1>2, <1>4, OthersKeep
  <1>6. \A q \in Player : ToldHolds(q)'
    BY <1>2, <1>4, ToldStays
  <1>7. OneCommit' /\ FileInv'
    BY <1>1, <1>2, OneCommitStays, FileStays DEF Snapshotting
  <1> QED
    BY <1>3, <1>5, <1>6, <1>7 DEF Kept

LEMMA InsertingKeeps ==
  ASSUME StoreTyped, Kept, NEW t \in Thread, Inserting(t), flaws' = {}
  PROVE  Kept'
  <1> DEFINE p == player[t]
  <1>1. PICK r \in Record : /\ playerInfo' = [playerInfo EXCEPT ![p] = r]
                            /\ mine' = [mine EXCEPT ![t] = r]
    BY DEF Inserting
  <1>2. /\ at[t] = "inserting" /\ at'[t] = "ask"
        /\ \A u \in Thread : u # t => at'[u] = at[u]
        /\ UNCHANGED <<version, player, wrote, next, snap, file, acked>>
    BY DEF Inserting, At, Goto, StoreTyped, work
  <1>3. p \in Player /\ playerInfo[p] = 0
    BY <1>2 DEF Inserting, StoreTyped
  <1>4. /\ playerInfo'[p] = r /\ mine'[t] = r
        /\ \A q \in Player : q # p => playerInfo'[q] = playerInfo[q]
        /\ \A u \in Thread : u # t => mine'[u] = mine[u]
    BY <1>1, <1>3 DEF StoreTyped
  <1>5. MineIsCurrent(t)' /\ WrittenHolds(t)' /\ SnapshotCovers(t)'
    BY <1>2, <1>3, <1>4 DEF Kept, MineIsCurrent, WrittenHolds, SnapshotCovers, NoRecord,
       Committing, Snapshotting
  <1>6. /\ \A r_1 \in Record : version'[r_1] \in Nat /\ version'[r_1] >= version[r_1]
        /\ \A q \in Player : playerInfo[q] # 0 => playerInfo'[q] = playerInfo[q]
    BY <1>2, <1>3, <1>4 DEF StoreTyped
  <1>7. \A u \in Thread : u # t => MineIsCurrent(u)' /\ WrittenHolds(u)' /\ SnapshotCovers(u)'
    BY <1>2, <1>4, <1>6, OthersKeep
  <1>8. \A q \in Player : ToldHolds(q)'
    BY <1>2, <1>6, ToldStays
  <1>9. OneCommit' /\ FileInv'
    BY <1>2, OneCommitStays, FileStays DEF Snapshotting
  <1> QED
    BY <1>5, <1>7, <1>8, <1>9 DEF Kept

(* Return: what it leaves t with.                                          *)
LEMMA ReturnedLeaves ==
  ASSUME StoreTyped, Kept, NEW t \in Thread, Returned(t), at[t] \notin NoRecord,
         wrote[t] = 0, next'[t] = 1, UNCHANGED <<playerInfo, version>>
  PROVE  /\ at'[t] \in {"idle", "change"}
         /\ MineIsCurrent(t)' /\ WrittenHolds(t)' /\ SnapshotCovers(t)'
         /\ \A u \in Thread : u # t => /\ at'[u] = at[u] /\ player'[u] = player[u]
                                       /\ mine'[u] = mine[u] /\ wrote'[u] = wrote[u]
  <1>1. CASE Done(t)
    BY <1>1 DEF Done, StoreTyped, MineIsCurrent, WrittenHolds,
       SnapshotCovers, NoRecord, Committing, Snapshotting
  <1>2. CASE Goto(t, "change") /\ UNCHANGED <<player, mine, wrote>>
    BY <1>2 DEF Goto, StoreTyped, Kept, MineIsCurrent, WrittenHolds,
       SnapshotCovers, NoRecord, Committing, Snapshotting
  <1> QED
    BY <1>1, <1>2 DEF Returned

LEMMA UnlockKeeps ==
  ASSUME StoreTyped, Kept, NEW t \in Thread, UnlockRecord(t)
  PROVE  Kept'
  <1>1. /\ at[t] = "unlock" /\ Returned(t)
        /\ UNCHANGED <<playerInfo, version, next, snap, file, acked>>
    BY DEF UnlockRecord, At, store
  <1>2. wrote[t] = 0 /\ next[t] = 1
    BY <1>1 DEF Kept, SnapshotCovers, MineIsCurrent, NoRecord, Committing, Snapshotting
  <1>3. /\ at'[t] \in {"idle", "change"}
        /\ MineIsCurrent(t)' /\ WrittenHolds(t)' /\ SnapshotCovers(t)'
        /\ \A u \in Thread : u # t => /\ at'[u] = at[u] /\ player'[u] = player[u]
                                      /\ mine'[u] = mine[u] /\ wrote'[u] = wrote[u]
    BY <1>1, <1>2, ReturnedLeaves DEF NoRecord
  <1>4. \A r \in Record : version'[r] \in Nat /\ version'[r] >= version[r]
    BY <1>1 DEF StoreTyped
  <1>5. \A u \in Thread : u # t => MineIsCurrent(u)' /\ WrittenHolds(u)' /\ SnapshotCovers(u)'
    BY <1>1, <1>3, <1>4, OthersKeep
  <1>6. \A q \in Player : ToldHolds(q)'
    BY <1>1, <1>4, ToldStays
  <1>7. OneCommit' /\ FileInv'
    BY <1>1, <1>3, OneCommitStays, FileStays DEF Snapshotting
  <1> QED
    BY <1>3, <1>5, <1>6, <1>7 DEF Kept

LEMMA ChangeKeeps ==
  ASSUME StoreTyped, Kept, NEW t \in Thread, Change(t)
  PROVE  Kept'
  <1>1. /\ at[t] = "change" /\ at'[t] = "rlock"
        /\ \A u \in Thread : u # t => at'[u] = at[u] /\ wrote'[u] = wrote[u]
        /\ UNCHANGED <<playerInfo, player, mine, next, snap, file, acked>>
    BY DEF Change, At, Goto, StoreTyped
  <1>2. \A r \in Record : version'[r] \in Nat /\ version'[r] >= version[r]
    BY DEF Change, StoreTyped
  <1>3. mine[t] # 0 /\ mine[t] \in 0..MaxRecords /\ player[t] \in Player
    BY <1>1 DEF StoreTyped, NoRecord
  <1>4. wrote'[t] = version'[mine[t]] /\ mine[t] \in Record
    BY <1>3 DEF Change, StoreTyped, Record
  <1>5. MineIsCurrent(t)' /\ SnapshotCovers(t)'
    BY <1>1 DEF Kept, MineIsCurrent, SnapshotCovers, NoRecord, Committing, Snapshotting
  <1>6. WrittenHolds(t)'
    BY <1>1, <1>2, <1>4 DEF WrittenHolds
  <1>7. \A u \in Thread : u # t => MineIsCurrent(u)' /\ WrittenHolds(u)' /\ SnapshotCovers(u)'
    BY <1>1, <1>2, OthersKeep
  <1>8. \A q \in Player : ToldHolds(q)'
    BY <1>1, <1>2, ToldStays
  <1>9. OneCommit' /\ FileInv'
    BY <1>1, OneCommitStays, FileStays DEF Snapshotting
  <1> QED
    BY <1>5, <1>6, <1>7, <1>8, <1>9 DEF Kept

(* What is marshalled of p has what was told, and what t has written.      *)
LEMMA MarshalCovers ==
  ASSUME StoreTyped, Kept, NEW t \in Thread, Marshal(t)
  PROVE  \A p \in Player : p < next[t] + 1 => Covers(t, p)'
  <1>0. PICK n, r : n = next[t] /\ r = playerInfo[n]
    OBVIOUS
  <1> USE <1>0
  <1>1. /\ at[t] = "marshal" /\ n \in Player
        /\ UNCHANGED <<playerInfo, version, player, mine, wrote, acked>>
    BY DEF Marshal, At, StoreTyped, Player, store
  <1>2. r = 0 \/ r \in Record
    BY <1>1 DEF StoreTyped, Record
  <1>3. ASSUME NEW p \in Player, p < n PROVE Covers(t, p)'
    <2>1. Covers(t, p)
      BY <1>1, <1>3 DEF Kept, SnapshotCovers
    <2>2. snap'[t][p] = snap[t][p]
      <3>1. p # n
        BY <1>1, <1>3 DEF Player
      <3> QED
        BY <1>1, <3>1 DEF Marshal, StoreTyped
    <2> QED
      BY <1>1, <2>1, <2>2 DEF Covers
  <1>4. Covers(t, n)'
    <2>1. n = player[t] => r = mine[t] /\ mine[t] # 0
      BY <1>1 DEF Kept, MineIsCurrent, StoreTyped, NoRecord, Committing, Snapshotting
    <2>2. CASE r = 0
      BY <1>1, <2>1, <2>2 DEF Kept, ToldHolds, Covers
    <2>3. CASE r # 0
      <3>1. snap'[t][n] = version[r]
        BY <1>1, <2>3 DEF Marshal, StoreTyped
      <3>2. acked[n] # Absent => version[r] >= acked[n]
        BY <1>1 DEF Kept, ToldHolds
      <3>3. n = player[t] /\ wrote[t] # 0 => version[r] >= wrote[t]
        BY <2>1 DEF Kept, WrittenHolds
      <3> QED
        BY <1>1, <3>1, <3>2, <3>3 DEF Covers
    <2> QED
      BY <2>2, <2>3
  <1> QED
    <2>1. \A p \in Player : p < n + 1 => p < n \/ p = n
      BY <1>1 DEF Player
    <2> QED
      BY <1>3, <1>4, <2>1

LEMMA MarshalKeeps ==
  ASSUME StoreTyped, Kept, NEW t \in Thread, Marshal(t)
  PROVE  Kept'
  <1>1. /\ at[t] = "marshal" /\ next'[t] = next[t] + 1
        /\ \A u \in Thread : u # t => next'[u] = next[u] /\ snap'[u] = snap[u]
        /\ UNCHANGED <<playerInfo, version, at, player, mine, wrote, file, acked>>
    BY DEF Marshal, At, StoreTyped, store
  <1>2. SnapshotCovers(t)'
    BY <1>1, MarshalCovers DEF SnapshotCovers
  <1>3. MineIsCurrent(t)' /\ WrittenHolds(t)'
    BY <1>1 DEF Kept, MineIsCurrent, WrittenHolds, NoRecord, Committing, Snapshotting
  <1>4. \A r \in Record : version'[r] \in Nat /\ version'[r] >= version[r]
    BY <1>1 DEF StoreTyped
  <1>5. \A u \in Thread : u # t => MineIsCurrent(u)' /\ WrittenHolds(u)' /\ SnapshotCovers(u)'
    BY <1>1, <1>4, OthersKeep
  <1>6. \A q \in Player : ToldHolds(q)'
    BY <1>1, <1>4, ToldStays
  <1>7. OneCommit' /\ FileInv'
    BY <1>1 DEF Kept, OneCommit, FileInv
  <1> QED
    BY <1>2, <1>3, <1>5, <1>6, <1>7 DEF Kept

LEMMA MarshalledKeeps ==
  ASSUME StoreTyped, Kept, NEW t \in Thread, Marshalled(t)
  PROVE  Kept'
  <1>1. /\ at[t] = "marshal" /\ at'[t] = "truncate" /\ next'[t] = 1
        /\ \A u \in Thread : u # t => at'[u] = at[u] /\ next'[u] = next[u]
        /\ UNCHANGED <<playerInfo, version, player, mine, wrote, snap, file, acked>>
    BY DEF Marshalled, At, Goto, StoreTyped, store
  <1>2. \A p \in Player : p < next[t]
    <2>1. next[t] \in Nat /\ next[t] > Players
      BY DEF Marshalled, StoreTyped
    <2> QED
      BY <2>1, StoreBoundAssumption DEF Player
  <1>3. \A p \in Player : Covers(t, p)
    BY <1>1, <1>2 DEF Kept, SnapshotCovers
  <1>4. SnapshotCovers(t)'
    BY <1>1, <1>3 DEF SnapshotCovers, Covers
  <1>5. MineIsCurrent(t)' /\ WrittenHolds(t)'
    BY <1>1 DEF Kept, MineIsCurrent, WrittenHolds, NoRecord, Committing, Snapshotting
  <1>6. \A r \in Record : version'[r] \in Nat /\ version'[r] >= version[r]
    BY <1>1 DEF StoreTyped
  <1>7. \A u \in Thread : u # t => MineIsCurrent(u)' /\ WrittenHolds(u)' /\ SnapshotCovers(u)'
    BY <1>1, <1>6, OthersKeep
  <1>8. \A q \in Player : ToldHolds(q)'
    BY <1>1, <1>6, ToldStays
  <1>9. OneCommit' /\ FileInv'
    BY <1>1, OneCommitStays, FileStays DEF Snapshotting
  <1> QED
    BY <1>4, <1>5, <1>7, <1>8, <1>9 DEF Kept

LEMMA TruncateKeeps ==
  ASSUME StoreTyped, Kept, NEW t \in Thread, Truncate(t)
  PROVE  Kept'
  <1>1. /\ at[t] = "truncate" /\ at'[t] = "write" /\ file'.size = 0
        /\ \A u \in Thread : u # t => at'[u] = at[u]
        /\ UNCHANGED <<playerInfo, version, player, mine, wrote, next, snap, acked>>
    BY DEF Truncate, At, Goto, StoreTyped, store, work
  <1>2. SnapshotCovers(t)' /\ MineIsCurrent(t)' /\ WrittenHolds(t)'
    BY <1>1 DEF Kept, SnapshotCovers, Covers, MineIsCurrent, WrittenHolds,
       NoRecord, Committing, Snapshotting
  <1>3. \A r \in Record : version'[r] \in Nat /\ version'[r] >= version[r]
    BY <1>1 DEF StoreTyped
  <1>4. \A u \in Thread : u # t => MineIsCurrent(u)' /\ WrittenHolds(u)' /\ SnapshotCovers(u)'
    BY <1>1, <1>3, OthersKeep
  <1>5. \A q \in Player : ToldHolds(q)'
    BY <1>1, <1>3, ToldStays
  <1>6. OneCommit'
    BY <1>1, OneCommitStays DEF Snapshotting
  <1>7. FileInv'
    BY <1>1 DEF FileInv
  <1> QED
    BY <1>2, <1>4, <1>5, <1>6, <1>7 DEF Kept

LEMMA WriteKeeps ==
  ASSUME StoreTyped, Kept, NEW t \in Thread, WriteFile(t)
  PROVE  Kept'
  <1>1. /\ at[t] = "write" /\ at[t] \notin NoRecord
        /\ UNCHANGED <<playerInfo, version, next>>
        /\ \A u \in Thread : u # t => snap'[u] = snap[u]
    BY DEF WriteFile, At, StoreTyped, store, NoRecord
  <1>2. /\ next[t] = 1 /\ file.size = 0
        /\ \A p \in Player : Covers(t, p)
        /\ \A u \in Thread : u # t => at[u] \notin Snapshotting
    BY <1>1 DEF Kept, SnapshotCovers, FileInv, OneCommit, Snapshotting
  <1>3. file'.ok /\ file'.data = snap[t]
    BY <1>2 DEF WriteFile, Written
  <1>4. /\ player[t] \in Player /\ wrote[t] \in Nat
        /\ mine[t] = playerInfo[player[t]]
    BY <1>1 DEF Kept, StoreTyped, MineIsCurrent
  <1>5. /\ at'[t] \in {"idle", "change"}
        /\ MineIsCurrent(t)' /\ WrittenHolds(t)' /\ SnapshotCovers(t)'
        /\ \A u \in Thread : u # t => /\ at'[u] = at[u] /\ player'[u] = player[u]
                                      /\ mine'[u] = mine[u] /\ wrote'[u] = wrote[u]
    <2>1. CASE wrote[t] = 0
      <3>1. Returned(t)
        BY <2>1 DEF WriteFile
      <3> QED
        BY <1>1, <1>2, <2>1, <3>1, ReturnedLeaves
    <2>2. CASE wrote[t] # 0
      <3>1. Done(t)
        BY <2>2 DEF WriteFile
      <3>2. /\ at'[t] = "idle" /\ mine'[t] = 0 /\ wrote'[t] = 0 /\ next'[t] = 1
            /\ \A u \in Thread : u # t => /\ at'[u] = at[u] /\ player'[u] = player[u]
                                          /\ mine'[u] = mine[u] /\ wrote'[u] = wrote[u]
        BY <1>1, <1>2, <3>1 DEF Done, StoreTyped
      <3> QED
        BY <3>2 DEF MineIsCurrent, WrittenHolds, SnapshotCovers, NoRecord
    <2> QED
      BY <2>1, <2>2
  <1>6. \A r \in Record : version'[r] \in Nat /\ version'[r] >= version[r]
    BY <1>1 DEF StoreTyped
  <1>7. \A u \in Thread : u # t => MineIsCurrent(u)' /\ WrittenHolds(u)' /\ SnapshotCovers(u)'
    BY <1>1, <1>2, <1>5, <1>6, OthersKeep
  (* What is told now is what was told or what t has written.              *)
  <1>8. ASSUME NEW p \in Player, acked'[p] # Absent
        PROVE  \/ acked[p] # Absent /\ acked'[p] = acked[p]
               \/ p = player[t] /\ wrote[t] # 0 /\ acked'[p] = wrote[t]
    BY <1>4, <1>8 DEF WriteFile, StoreTyped
  <1>9. ASSUME NEW p \in Player PROVE ToldHolds(p)'
    <2>1. ToldHolds(p) /\ WrittenHolds(t)
      BY DEF Kept
    <2>2. wrote[t] # 0 => mine[t] # 0
      BY <1>1 DEF StoreTyped
    <2>3. UNCHANGED <<playerInfo, version>>
      BY <1>1
    <2> QED
      BY <1>4, <1>8, <2>1, <2>2, <2>3 DEF ToldHolds, WrittenHolds
  <1>10. FileInv'
    <2>1. \A u \in Thread : at'[u] # "write"
      BY <1>2, <1>5 DEF Snapshotting
    <2>2. ASSUME NEW p \in Player, acked'[p] # Absent
          PROVE  snap[t][p] >= acked'[p]
      <3>1. Covers(t, p)
        BY <1>2
      <3> QED
        BY <1>8, <2>2, <3>1 DEF Covers
    <2> QED
      BY <1>3, <2>1, <2>2 DEF FileInv
  <1>11. OneCommit'
    BY <1>5, OneCommitStays DEF Snapshotting
  <1> QED
    BY <1>5, <1>7, <1>9, <1>10, <1>11 DEF Kept

(* A crash: the store is what the file says, and the file is not empty.    *)
LEMMA CrashKeeps ==
  ASSUME StoreTyped, Kept, Crash, flaws' = {}
  PROVE  Kept'
  <1>1. \A t \in Thread : at[t] # "write"
    BY DEF Crash, At
  <1>2. \A p \in Player : acked[p] # Absent => file.ok /\ file.data[p] >= acked[p]
    BY <1>1 DEF Kept, FileInv
  <1>3. /\ \A t \in Thread : at'[t] = "idle" /\ wrote'[t] = 0 /\ mine'[t] = 0 /\ next'[t] = 1
        /\ UNCHANGED <<file, acked>>
    BY DEF Crash, All
  <1>4. \A t \in Thread : MineIsCurrent(t)' /\ WrittenHolds(t)' /\ SnapshotCovers(t)'
    BY <1>3 DEF MineIsCurrent, WrittenHolds, SnapshotCovers, NoRecord
  <1>5. OneCommit' /\ FileInv'
    BY <1>2, <1>3 DEF OneCommit, FileInv, Snapshotting
  <1>6. ASSUME NEW p \in Player, acked[p] # Absent
        PROVE  playerInfo'[p] = p /\ p # 0 /\ version'[p] = file.data[p]
    <2>1. acked[p] \in Nat /\ file.data[p] >= acked[p] /\ file.data[p] \in Told
      BY <1>2, <1>6 DEF StoreTyped, Told
    <2>2. file.data[p] # Absent
      BY <2>1 DEF Told, Absent
    <2>3. p \in Record /\ p # 0
      BY StoreBoundAssumption DEF Player, Record
    <2> QED
      BY <2>2, <2>3 DEF Crash, Load
  <1>7. \A p \in Player : ToldHolds(p)'
    BY <1>2, <1>3, <1>6 DEF ToldHolds
  <1> QED
    BY <1>4, <1>5, <1>7 DEF Kept

LEMMA StoreNextInv == ASSUME StoreIInv, [StoreNext]_storeVars PROVE StoreIInv'
  <1>1. StoreTyped'
    BY NextTyped DEF StoreIInv
  <1>2. ASSUME flaws' = {} PROVE Kept'
    <2>1. StoreTyped /\ Kept
      BY <1>2, FlawsStay DEF StoreIInv
    <2>2. CASE UNCHANGED storeVars
      BY <2>1, <2>2 DEF storeVars, Kept, OneCommit, FileInv, MineIsCurrent, WrittenHolds,
         SnapshotCovers, Covers, ToldHolds
    <2>3. CASE Crash
      BY <1>2, <2>1, <2>3, CrashKeeps
    <2>4. ASSUME NEW t \in Thread, NEW p \in Player, Call(t, p) PROVE Kept'
      BY <2>1, <2>4, CallKeeps
    <2>5. ASSUME NEW t \in Thread, ThreadStep(t) PROVE Kept'
      BY <1>2, <2>1, <2>5, MovesKeep, LookupKeeps, InsertingKeeps, UnlockKeeps, ChangeKeeps,
         MarshalKeeps, MarshalledKeeps, TruncateKeeps, WriteKeeps
      DEF ThreadStep, GetPlayerInfo, CommitStep, Moves
    <2> QED
      BY <2>2, <2>3, <2>4, <2>5, StoreNextSplit
  <1> QED
    BY <1>1, <1>2 DEF StoreIInv

(* The store stays typed, and as long as no exception has happened only    *)
(* one commit is under way, its snapshot has all that was told, and so has *)
(* the store.                                                              *)
THEOREM StoreInvariance == StoreSpec => []StoreIInv
  <1>1. StoreInit => StoreIInv
    BY StoreInitInv
  <1>2. StoreIInv /\ [StoreNext]_storeVars => StoreIInv'
    BY StoreNextInv
  <1> QED
    BY <1>1, <1>2, PTL DEF StoreSpec

(* For any players, records and goroutines: a change that was reported as  *)
(* saved (playerinfo.go, Commit returned nil) is in the file, and a start  *)
(* after a crash loads it, unless two commits overlapped, a player got two *)
(* records, or the crash hit between truncation and write.                 *)
THEOREM SavedChangesStay == StoreSpec => []SavedStaysSaved
  <1>1. StoreIInv => SavedStaysSaved
    BY DEF StoreIInv, Kept, FileInv, SavedStaysSaved, At
  <1> QED
    BY <1>1, StoreInvariance, PTL
===============================================================================
