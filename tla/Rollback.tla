------------------------------- MODULE Rollback -------------------------------
(***************************************************************************)
(* Rolling back the world or the data of a player (plugins/backup.go,      *)
(* backup_rollback_world.go, backup_rollback_playerdata.go).               *)
(*                                                                         *)
(* A request becomes rollbackPending, waits some seconds for "confirm" or  *)
(* "cancel", counts down, and replaces files of the game by those of a     *)
(* backup.  At work on it are the goroutine of the command that makes it   *)
(* (start), those of the commands confirm and cancel and of the button     *)
(* "cancel" (Handler), the callback of its timer (named like the request), *)
(* and Execute (exec).  Nothing but rollbackPending, each access by        *)
(* itself, is guarded by rollbackLock.                                     *)
(*                                                                         *)
(* Meanwhile the game may stop by itself, the link to the manager break,   *)
(* and the reconnection start the game.  A command is answered at once,    *)
(* and in vain, while the link is out, and waits for its turn as long as   *)
(* the Worker waits for an answer that is lost (CommandProcessor).         *)
(*                                                                         *)
(* Durations are abstracted; the copies are kept by their collisions: with *)
(* a backup, with a game that runs, with a player who is not kept out.     *)
(***************************************************************************)
EXTENDS Naturals

CONSTANTS Request,    \* requests to roll back the world or the one player
          Handler,    \* goroutines of confirm, cancel and the button
          NoRequest,  \* nil
          Bounds      \* the instances looked at: which requests for the world
                      \* and for the player are made, which handlers are at
                      \* work, the ticks of a countdown (10 and 5 in the
                      \* code), and which incidents happen, how often ever

(* A backup is made, the game ends by itself, the link breaks, the answer  *)
(* of a command is lost.                                                   *)
Incident == {"backup", "end", "disconnect", "starve"}

ASSUME RequestAssumption == /\ NoRequest \notin Request
                            /\ Request \cap {"free", "backup"} = {}
ASSUME HandlerAssumption == Handler \cap Request = {}
ASSUME BoundAssumption ==
  \A b \in Bounds : /\ b.world \subseteq Request
                    /\ b.playerdata \subseteq Request \ b.world
                    /\ b.handlers \subseteq Handler
                    /\ b.countdown \in Nat \ {0}
                    /\ b.incidents \subseteq Incident

(* Whoever can be inside Comfirm or Abort.                                 *)
Thread == Handler \cup Request

VARIABLES pending,   \* bp.rollbackPending
          start,     \* how far Start of each request is
          cancel,    \* the timer of each request: nil, armed, or done
          comfirm,   \* its ticker: nil, running, or stopped
          countdown, \* its countdown
          lock,      \* its lock
          exec,      \* where its Execute is
          pc, on,    \* where each thread is, and with which request
          backupLock,\* bp.backupLock: free, or whose it is
          gameUp,    \* does the game run
          banned,    \* is the player kept out
          link,      \* has the daemon a client id of the manager
          starved,   \* does the Worker wait for an answer that is lost
          restarting,\* is the StartMinecraft of a reconnection under way
          orphaned,  \* history: requests at work when pending was cleared
          raced,     \* history: two Starts, or two confirmations, overlapped
          cancelled, \* history: requests reported as cancelled in time
          exposed,   \* history: requests whose files an accident has exposed:
                     \* Stop failed, "ban" was in vain, or the reconnection
                     \* started the game while they were being replaced
          panicked,  \* a nil dereference has killed the daemon
          bound      \* the instance, which never changes

vars == <<pending, start, cancel, comfirm, countdown, lock, exec, pc, on,
          backupLock, gameUp, banned, link, starved, restarting, orphaned,
          raced, cancelled, exposed, panicked, bound>>

request == <<cancel, comfirm, countdown, lock>>
thread == <<pc, on>>
files == <<backupLock, gameUp, banned>>
manager == <<link, starved, restarting>>
history == <<orphaned, raced, cancelled, exposed>>

World == bound.world
Playerdata == bound.playerdata
Countdown == bound.countdown

(* What Execute is about to do.                                            *)
Stage == {"off", "tell", "count", "zero", "lock", "stop", "remove", "kick", "copy",
          "boot", "ready", "pardon", "clear"}

TypeOK ==
  /\ pending \in Request \cup {NoRequest}
  /\ start \in [Request -> {"check", "set", "arm", "done"}]
  /\ cancel \in [Request -> {"nil", "armed", "done"}]
  /\ comfirm \in [Request -> {"nil", "running", "stopped"}]
  /\ countdown \in [Request -> 0..Countdown]
  /\ lock \in [Request -> BOOLEAN]
  /\ exec \in [Request -> Stage]
  /\ pc \in [Thread -> {"idle", "confirm", "tick", "abort", "stop"}]
  /\ on \in [Thread -> Request \cup {NoRequest}]
  /\ backupLock \in Request \cup {"free", "backup"}
  /\ gameUp \in BOOLEAN
  /\ banned \in BOOLEAN
  /\ link \in BOOLEAN
  /\ starved \in BOOLEAN
  /\ restarting \in BOOLEAN
  /\ orphaned \in SUBSET Request
  /\ raced \in BOOLEAN
  /\ cancelled \in SUBSET Request
  /\ exposed \in SUBSET Request
  /\ panicked \in BOOLEAN
  /\ bound \in Bounds

Init ==
  /\ pending = NoRequest
  /\ start = [r \in Request |-> "check"]
  /\ cancel = [r \in Request |-> "nil"]
  /\ comfirm = [r \in Request |-> "nil"]
  /\ countdown = [r \in Request |-> 0]
  /\ lock = [r \in Request |-> FALSE]
  /\ exec = [r \in Request |-> "off"]
  /\ pc = [t \in Thread |-> "idle"]
  /\ on = [t \in Thread |-> NoRequest]
  /\ backupLock = "free"
  /\ gameUp = TRUE
  /\ banned = FALSE
  /\ link = TRUE
  /\ starved = FALSE
  /\ restarting = FALSE
  /\ orphaned = {}
  /\ raced = FALSE
  /\ cancelled = {}
  /\ exposed = {}
  /\ panicked = FALSE
  /\ bound \in Bounds

-----------------------------------------------------------------------------
(* Start of a request whose backup exists, at any time.                    *)

(* Mutant: the answer of the check is ignored.                             *)
CheckIgnored(r) ==
  /\ start[r] = "check"
  /\ start' = [start EXCEPT ![r] = "set"]
  /\ UNCHANGED <<pending, request, exec, thread, files, manager, history, panicked>>

CheckPending(r) ==
  /\ start[r] = "check"
  /\ start' = [start EXCEPT ![r] = IF pending = NoRequest THEN "set"
                                   ELSE "done"]
  /\ UNCHANGED <<pending, request, exec, thread, files, manager, history, panicked>>

SetPending(r) ==
  /\ start[r] = "set"
  /\ pending' = r
  /\ raced' = (raced \/ \E q \in Request \ {r} : start[q] = "set")
  /\ start' = [start EXCEPT ![r] = "arm"]
  /\ UNCHANGED <<request, exec, thread, files, manager, orphaned,
                 cancelled, exposed,
                 panicked>>

(* From now on the button "cancel" of this request can be clicked.         *)
ArmCancel(r) ==
  /\ start[r] = "arm"
  /\ cancel' = [cancel EXCEPT ![r] = "armed"]
  /\ start' = [start EXCEPT ![r] = "done"]
  /\ UNCHANGED <<pending, comfirm, countdown, lock, exec, thread, files, manager,
                 history, panicked>>

-----------------------------------------------------------------------------
Go(t, l, r) == /\ pc' = [pc EXCEPT ![t] = l]
               /\ on' = [on EXCEPT ![t] = r]

Return(t) == Go(t, "idle", NoRequest)

(* The commands confirm and cancel look the pending request up; a button   *)
(* knows its own.  The player who asked is the one who confirms.           *)
Command(h) ==
  /\ pc[h] = "idle"
  /\ pending # NoRequest
  /\ \E l \in {"confirm", "abort"} : Go(h, l, pending)
  /\ UNCHANGED <<pending, start, request, exec, files, manager, history, panicked>>

Button(h, r) ==
  /\ pc[h] = "idle"
  /\ cancel[r] # "nil"
  /\ Go(h, "abort", r)
  /\ UNCHANGED <<pending, start, request, exec, files, manager, history, panicked>>

(* The timer of a request fires.                                           *)
Timeout(r) ==
  /\ cancel[r] = "armed"
  /\ cancel' = [cancel EXCEPT ![r] = "done"]
  /\ Go(r, "abort", r)
  /\ UNCHANGED <<pending, start, comfirm, countdown, lock, exec, files, manager,
                 history, panicked>>

-----------------------------------------------------------------------------
(* Comfirm: TryLock and cancel.Stop, then the ticker.                      *)

ConfirmLock(h) ==
  /\ pc[h] = "confirm"
  /\ LET r == on[h] IN
     \/ /\ lock[r]
        /\ Return(h)
        /\ UNCHANGED <<cancel, lock, raced, panicked>>
     \/ /\ ~lock[r]
        /\ lock' = [lock EXCEPT ![r] = TRUE]
        /\ raced' = (raced \/ comfirm[r] # "nil")
        /\ \/ /\ cancel[r] = "nil"
              /\ panicked' = TRUE
              /\ UNCHANGED <<cancel, thread>>
           \/ /\ cancel[r] # "nil"
              /\ cancel' = [cancel EXCEPT ![r] = "done"]
              /\ Go(h, "tick", r)
              /\ UNCHANGED panicked
  /\ UNCHANGED <<pending, start, comfirm, countdown, exec, files, manager,
                 orphaned, cancelled, exposed>>

ConfirmTick(h) ==
  /\ pc[h] = "tick"
  /\ LET r == on[h] IN
     /\ countdown' = [countdown EXCEPT ![r] = Countdown]
     /\ comfirm' = [comfirm EXCEPT ![r] = "running"]
     /\ exec' = [exec EXCEPT ![r] = "tell"]
  /\ Return(h)
  /\ UNCHANGED <<pending, start, cancel, lock, files, manager, history, panicked>>

-----------------------------------------------------------------------------
(* Up to the last tick a cancellation can stop Execute.                    *)
InTime(r) == exec[r] \in {"off", "tell", "count"}

Counting(r) == exec[r] \in {"tell", "count"} /\ comfirm[r] = "running"

Confirming(r) == \E h \in Handler : pc[h] \in {"confirm", "tick"} /\ on[h] = r

(* A request is at work once a confirmation has found it, until Execute    *)
(* ends or its countdown is stopped.                                       *)
AtWork(r) == ~InTime(r) \/ Counting(r) \/ Confirming(r)

(* Abort: whatever request is pending is so no more ...                    *)
Abort(t) ==
  /\ pc[t] = "abort"
  /\ pending' = NoRequest
  /\ orphaned' = orphaned \cup {r \in Request : AtWork(r)}
  /\ Go(t, "stop", on[t])
  /\ UNCHANGED <<start, request, exec, files, manager, raced, cancelled,
                 exposed, panicked>>

(* Mutant: the ticker is left running.                                     *)
AbortKeepsTicker(t) ==
  /\ pc[t] = "stop"
  /\ LET r == on[t] IN
     /\ cancel[r] # "nil"
     /\ cancel' = [cancel EXCEPT ![r] = "done"]
     /\ cancelled' = IF InTime(r) /\ ~Confirming(r) THEN cancelled \cup {r}
                     ELSE cancelled
     /\ Return(t)
  /\ UNCHANGED <<pending, start, comfirm, countdown, lock, exec, files, manager,
                 orphaned, raced, exposed, panicked>>

(* ... then the timer and the ticker of this one are stopped, and the      *)
(* request is reported as cancelled.                                       *)
AbortStops(t) ==
  /\ pc[t] = "stop"
  /\ LET r == on[t] IN
     \/ /\ cancel[r] = "nil"
        /\ panicked' = TRUE
        /\ UNCHANGED <<cancel, comfirm, thread, cancelled>>
     \/ /\ cancel[r] # "nil"
        /\ cancel' = [cancel EXCEPT ![r] = "done"]
        /\ comfirm' = [comfirm EXCEPT ![r] = IF @ = "nil" THEN @
                                             ELSE "stopped"]
        /\ cancelled' = IF InTime(r) /\ ~Confirming(r) THEN cancelled \cup {r}
                        ELSE cancelled
        /\ Return(t)
        /\ UNCHANGED panicked
  /\ UNCHANGED <<pending, start, countdown, lock, exec, files, manager, orphaned,
                 raced, exposed>>

-----------------------------------------------------------------------------
(* Execute                                                                 *)

At(r, l) == exec[r] = l

Then(r, l) == exec' = [exec EXCEPT ![r] = l]

Tick(r) ==
  /\ At(r, "count")
  /\ Counting(r)
  /\ countdown' = [countdown EXCEPT ![r] = @ - 1]
  /\ Then(r, IF countdown[r] = 1 THEN "zero" ELSE "tell")
  /\ UNCHANGED <<pending, start, cancel, comfirm, lock, thread, files, manager,
                 history, panicked>>

(* The Tellraw before the first tick and after each; the last one ends the *)
(* loop.                                                                   *)
Tell(r) ==
  /\ ~starved
  /\ \/ /\ At(r, "tell")
        /\ Then(r, "count")
        /\ UNCHANGED comfirm
     \/ /\ At(r, "zero")
        /\ Then(r, IF r \in World THEN "lock" ELSE "kick")
        /\ comfirm' = [comfirm EXCEPT ![r] = "stopped"]
  /\ UNCHANGED <<pending, start, cancel, countdown, lock, thread, files, manager,
                 history, panicked>>

LockBackup(r) ==
  /\ At(r, "lock")
  /\ backupLock = "free"
  /\ backupLock' = r
  /\ Then(r, "stop")
  /\ UNCHANGED <<pending, start, request, thread, gameUp, banned, manager, history,
                 panicked>>

(* Stop returns when the game has ended, or with an error nobody looks at. *)
StopGame(r) ==
  /\ At(r, "stop")
  /\ gameUp' \in {gameUp, gameUp /\ ~link}
  /\ exposed' = IF gameUp' THEN exposed \cup {r} ELSE exposed
  /\ Then(r, "remove")
  /\ UNCHANGED <<pending, start, request, thread, backupLock, banned, manager,
                 orphaned, raced, cancelled, panicked>>

Remove(r) ==
  /\ At(r, "remove")
  /\ Then(r, "copy")
  /\ UNCHANGED <<pending, start, request, thread, files, manager, history, panicked>>

CopyWorld(r) ==
  /\ At(r, "copy") /\ r \in World
  /\ backupLock' = "free"
  /\ Then(r, "boot")
  /\ UNCHANGED <<pending, start, request, thread, gameUp, banned, manager, history,
                 panicked>>

(* StartMinecraft returns an error, or the game runs ...                   *)
Boot(r) ==
  /\ At(r, "boot")
  /\ \/ link /\ gameUp' = TRUE /\ Then(r, "ready")
     \/ Then(r, "clear") /\ UNCHANGED gameUp
  /\ UNCHANGED <<pending, start, request, thread, backupLock, banned, manager,
                 history, panicked>>

(* ... and is asked whether it is ready, with no timeout.                  *)
Ready(r) ==
  /\ At(r, "ready")
  /\ ~starved
  /\ Then(r, "clear")
  /\ UNCHANGED <<pending, start, request, thread, files, manager, history, panicked>>

(* A command has an effect.                                                *)
Obeyed == link /\ gameUp

(* Mutant: the player is kicked and not banned.                            *)
KickOnly(r) ==
  /\ At(r, "kick")
  /\ ~starved
  /\ exposed' = IF gameUp /\ ~link THEN exposed \cup {r} ELSE exposed
  /\ Then(r, "copy")
  /\ UNCHANGED <<pending, start, request, thread, files, manager, orphaned, raced,
                 cancelled, panicked>>

(* The player is kicked and banned (which is to kick, too), if there is a  *)
(* game to obey ...                                                        *)
Kick(r) ==
  /\ At(r, "kick")
  /\ ~starved
  /\ banned' = (banned \/ Obeyed)
  /\ exposed' = IF gameUp /\ ~link THEN exposed \cup {r} ELSE exposed
  /\ Then(r, "copy")
  /\ UNCHANGED <<pending, start, request, thread, backupLock, gameUp, manager,
                 orphaned, raced, cancelled, panicked>>

CopyPlayerdata(r) ==
  /\ At(r, "copy") /\ r \in Playerdata
  /\ Then(r, "pardon")
  /\ UNCHANGED <<pending, start, request, thread, files, manager, history, panicked>>

(* ... and pardoned on the same condition.                                 *)
Pardon(r) ==
  /\ At(r, "pardon")
  /\ ~starved
  /\ banned' = (banned /\ ~Obeyed)
  /\ Then(r, "clear")
  /\ UNCHANGED <<pending, start, request, thread, backupLock, gameUp, manager,
                 history, panicked>>

(* Mutant: the request stays pending.                                      *)
ClearKeepsPending(r) ==
  /\ At(r, "clear")
  /\ lock' = [lock EXCEPT ![r] = FALSE]
  /\ Then(r, "off")
  /\ UNCHANGED <<pending, start, cancel, comfirm, countdown, thread, files, manager,
                 history, panicked>>

(* Whatever request is pending is so no more.                              *)
Clear(r) ==
  /\ At(r, "clear")
  /\ pending' = NoRequest
  /\ orphaned' = orphaned \cup {q \in Request \ {r} : AtWork(q)}
  /\ raced' = (raced \/ \E h \in Handler : pc[h] = "confirm" /\ on[h] = r)
  /\ lock' = [lock EXCEPT ![r] = FALSE]
  /\ Then(r, "off")
  /\ UNCHANGED <<start, cancel, comfirm, countdown, thread, files, manager,
                 cancelled, exposed, panicked>>

-----------------------------------------------------------------------------
(* MakeBackup gives up when backupLock is taken, and has messages to send  *)
(* while it keeps it.                                                      *)

BeginBackup ==
  /\ "backup" \in bound.incidents
  /\ backupLock = "free"
  /\ backupLock' = "backup"
  /\ UNCHANGED <<pending, start, request, exec, thread, gameUp, banned, manager,
                 history, panicked>>

EndBackup ==
  /\ backupLock = "backup"
  /\ ~starved
  /\ backupLock' = "free"
  /\ UNCHANGED <<pending, start, request, exec, thread, gameUp, banned, manager,
                 history, panicked>>

-----------------------------------------------------------------------------
(* Incidents, at any time, and what follows them.                          *)

GameEnds ==
  /\ "end" \in bound.incidents
  /\ gameUp' = FALSE
  /\ UNCHANGED <<pending, start, request, exec, thread, backupLock, banned, manager,
                 history, panicked>>

(* errorHandler forgets the client id.                                     *)
Disconnect ==
  /\ "disconnect" \in bound.incidents
  /\ link' = FALSE
  /\ UNCHANGED <<pending, start, request, exec, thread, files, starved, restarting,
                 history, panicked>>

(* The answer of a command never comes, as the game has ended, or the link *)
(* has broken, or the line was filtered or dropped.                        *)
Starve ==
  /\ "starve" \in bound.incidents
  /\ starved' = TRUE
  /\ UNCHANGED <<pending, start, request, exec, thread, files, link, restarting,
                 history, panicked>>

(* Pause of the command processor ends that command.                       *)
Pause ==
  /\ starved
  /\ starved' = FALSE
  /\ UNCHANGED <<pending, start, request, exec, thread, files, link, restarting,
                 history, panicked>>

Login ==
  /\ ~link
  /\ link' = TRUE
  /\ restarting' = TRUE
  /\ UNCHANGED <<pending, start, request, exec, thread, files, starved, history,
                 panicked>>

(* The reconnection's StartMinecraft finds the game running or starts it,  *)
(* even one that a rollback has stopped.  Another may still be under way.  *)
Restart ==
  /\ restarting
  /\ link
  /\ gameUp' = TRUE
  /\ restarting' \in BOOLEAN
  /\ exposed' =
       IF gameUp THEN exposed
       ELSE exposed \cup
              {r \in Request : IF r \in World THEN exec[r] \in {"remove", "copy"}
                              ELSE exec[r] = "copy" /\ ~banned}
  /\ UNCHANGED <<pending, start, request, exec, thread, backupLock, banned, link,
                 starved, orphaned, raced, cancelled, panicked>>

-----------------------------------------------------------------------------
StartStep(r) == CheckPending(r) \/ SetPending(r) \/ ArmCancel(r)

ThreadStep(t) == Abort(t) \/ AbortStops(t)

ConfirmStep(h) == ConfirmLock(h) \/ ConfirmTick(h)

Execute(r) ==
  \/ Tick(r) \/ Tell(r) \/ LockBackup(r) \/ StopGame(r) \/ Remove(r)
  \/ CopyWorld(r) \/ Boot(r) \/ Ready(r) \/ Kick(r) \/ CopyPlayerdata(r)
  \/ Pardon(r) \/ Clear(r)

Environment ==
  \/ BeginBackup \/ EndBackup \/ GameEnds \/ Disconnect \/ Starve \/ Pause
  \/ Login \/ Restart

Next ==
  /\ ~panicked
  /\ UNCHANGED bound
  /\ \/ \E r \in World \cup Playerdata : StartStep(r) \/ Timeout(r) \/ Execute(r)
     \/ \E h \in bound.handlers :
          \/ Command(h) \/ ConfirmStep(h)
          \/ \E r \in Request : Button(h, r)
     \/ \E t \in Thread : ThreadStep(t)
     \/ Environment

Spec == Init /\ [][Next]_vars

(* Goroutines run, timers fire, a running ticker ticks, mutexes do not     *)
(* starve, and Stop returns; so does a command, and with it StartMinecraft *)
(* and MakeBackup, unless the Worker waits for an answer that is lost.     *)
(* Nothing makes a Pause, a Login or a Restart happen.  (Starts and timers *)
(* are finitely many, so fairness to all of them is fairness to each.)     *)
Alive == ~panicked /\ UNCHANGED bound

Fairness ==
  /\ WF_vars(Alive /\ \E r \in Request : SetPending(r) \/ ArmCancel(r))
  /\ WF_vars(Alive /\ \E r \in Request : Timeout(r) \/ ThreadStep(r))
  /\ \A r \in Request :
       /\ WF_vars(Alive /\ Execute(r))
       /\ SF_vars(Alive /\ LockBackup(r))
  /\ \A h \in Handler : WF_vars(Alive /\ (ConfirmStep(h) \/ ThreadStep(h)))
  /\ WF_vars(Alive /\ EndBackup)

FairSpec == Spec /\ Fairness

-----------------------------------------------------------------------------
(* No backup of the world is made of a world that is being replaced, and   *)
(* no two rollbacks replace it at once, even if they run side by side.     *)
WorldExclusive ==
  LET Replacing(r) == r \in World /\ exec[r] \in {"remove", "copy"} IN
  /\ backupLock = "backup" => \A r \in World : ~Replacing(r)
  /\ \A r \in World : \A q \in World : Replacing(r) /\ Replacing(q) => r = q

(* Unless two requests or confirmations overlapped, or a cancellation came *)
(* while a rollback was at work, files are replaced only while no game     *)
(* uses them: the world of a stopped game, and the data of a player who is *)
(* kept out, or has no game to play.  Nobody but an accident exposes them: *)
(* Stop fails, "ban" meets a game behind a broken link, or a reconnection  *)
(* starts the game; no other rollback, confirmation or timer does.         *)
UnusedWhileCopied ==
  ~raced /\ orphaned = {} =>
    \A r \in Request \ exposed :
      IF r \in World THEN exec[r] \in {"remove", "copy"} => ~gameUp
      ELSE exec[r] = "copy" => banned \/ ~gameUp

(* A world is replaced by one rollback at a time, while no backup reads it *)
(* and no game uses it; the data of a player while no game does.  (A       *)
(* backup may read those at that very moment: their copy takes no lock.)   *)
FilesUnused == WorldExclusive /\ UnusedWhileCopied

(* Two rollbacks are at work side by side only if a cancellation came      *)
(* while one of them was, or two requests or confirmations overlapped.     *)
OneAtATime ==
  ~raced =>
    \A r \in Request \ orphaned : \A q \in Request \ orphaned :
      AtWork(r) /\ AtWork(q) => r = q

(* A request that is reported as cancelled before its countdown has ended, *)
(* and while no thread is inside Comfirm with it, is never carried out:    *)
(* its countdown stands still, and no later command, button or timer       *)
(* revives it.                                                             *)
CancelHolds == \A r \in cancelled : InTime(r) /\ ~Counting(r)

(* Execute waits behind a command whose answer is lost, itself or through  *)
(* the backup that has backupLock.                                         *)
Starving(r) ==
  starved /\ exec[r] \in {"tell", "zero", "lock", "kick", "ready", "pardon"}

(* No request stays pending, and keeps all later ones out: it times out,  *)
(* is cancelled or is done, unless its Execute waits behind a lost answer, *)
(* for ever or ever again.                                                 *)
PendingEnds == []<>(pending = NoRequest \/ Starving(pending) \/ panicked)

(* Some thread reports request r as cancelled.                             *)
Reported(r) == \E t \in Thread : /\ pc[t] = "stop" /\ on[t] = r
                                 /\ pc'[t] = "idle"

(* A rollback that is reported as cancelled is not being carried out.      *)
CancelIsFinal == [][\A r \in Request : Reported(r) => InTime(r)]_vars
=============================================================================
