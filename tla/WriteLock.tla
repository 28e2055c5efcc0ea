------------------------------ MODULE WriteLock ------------------------------
(***************************************************************************)
(* The write lock of the game manager (core/gamemanager/gamemanager.go):   *)
(* the console of the game belongs to one client at a time, for at most    *)
(* lockMaxTime after its last renewal.                                     *)
(*                                                                         *)
(* Every RPC runs in a goroutine of its own (a handler).  Handlers, the    *)
(* AfterFunc callbacks and the end of a connection meet in                 *)
(*    mutex         the sync.Mutex a waiting Lock blocks on,               *)
(*    lockedClient  who holds the lock, guarded by clientLock,             *)
(*    time          the pending expiry, which Lock sets WITHOUT holding    *)
(*                  clientLock while Unlock and a renewal use it.          *)
(* A step is what one goroutine does between two points where another one  *)
(* can interfere.  Durations are abstracted: an armed timer may fire at    *)
(* any moment.                                                             *)
(***************************************************************************)
EXTENDS Naturals

CONSTANTS Client,   \* connections, named by the id TagConn gives each
          Handler,  \* goroutines that can be serving an RPC at once
          MaxCalls, \* bound: RPCs made in a run
          NoClient  \* nil

ASSUME ClientAssumption == NoClient \notin Client
ASSUME MaxCallsAssumption == MaxCalls \in Nat

VARIABLES mutex,        \* is writeLock.mutex locked
          lockedClient, \* writeLock.lockedClient
          clientLock,   \* an Unlock stands between time.Stop and time = nil
          time,         \* writeLock.time: whose timer, and whether it is armed
          expiring,     \* per client, callbacks no Stop can prevent any more
          pc,           \* where each handler is
          call,         \* the RPC each handler serves
          conn,         \* the state of each client's connection
          calls,        \* RPCs made so far
          lastRelease,  \* history: what ended the last hold of each client
          panicked      \* a nil dereference has killed the manager

vars == <<mutex, lockedClient, clientLock, time, expiring, pc, call, conn,
          calls, lastRelease, panicked>>

lockVars == <<mutex, lockedClient, clientLock, time, expiring, lastRelease,
              panicked>>

PC == {"idle", "unlock", "check", "lock", "mutex", "own", "arm", "ctx", "pty"}

NoTimer == [owner |-> NoClient, armed |-> FALSE]

NoCall == [op |-> "none", client |-> NoClient, live |-> FALSE]

(* live: the client still waits for the answer of the call.                *)
Calls == [op : {"none", "Lock", "Unlock", "Write"},
          client : Client \cup {NoClient}, live : BOOLEAN]

TypeOK ==
  /\ mutex \in BOOLEAN
  /\ lockedClient \in Client \cup {NoClient}
  /\ clientLock \in BOOLEAN
  /\ time \in [owner : Client \cup {NoClient}, armed : BOOLEAN]
  /\ time.armed => time.owner # NoClient
  /\ expiring \in [Client -> Nat]
  /\ pc \in [Handler -> PC]
  /\ call \in [Handler -> Calls]
  /\ \A h \in Handler : (pc[h] = "idle") <=> (call[h].client = NoClient)
  /\ conn \in [Client -> {"up", "lost", "ended"}]
  /\ calls \in 0..MaxCalls
  /\ lastRelease \in
       [Client -> {"none", "unlock", "dead", "connEnd", "expiry"}]
  /\ panicked \in BOOLEAN

Init ==
  /\ mutex = FALSE
  /\ lockedClient = NoClient
  /\ clientLock = FALSE
  /\ time = NoTimer
  /\ expiring = [c \in Client |-> 0]
  /\ pc = [h \in Handler |-> "idle"]
  /\ call = [h \in Handler |-> NoCall]
  /\ conn = [c \in Client |-> "up"]
  /\ calls = 0
  /\ lastRelease = [c \in Client |-> "none"]
  /\ panicked = FALSE

-----------------------------------------------------------------------------
(* WriteLock.Unlock, called for client c.  Its critical section is one     *)
(* step unless there is a timer to stop: the assignment of time in         *)
(* WriteLock.Lock takes no lock and may land before time is cleared.       *)

(* Mutant: no comparison of the caller's id with the holder's.             *)
UnlockAnyHolder(c, why) ==
  /\ ~clientLock
  /\ lockedClient' = NoClient
  /\ mutex' = FALSE
  /\ time' = NoTimer
  /\ lastRelease' = [d \in Client |-> IF d = lockedClient THEN why
                                      ELSE lastRelease[d]]
  /\ UNCHANGED clientLock

(* Mutant: the timer is stopped before the holder is compared.             *)
UnlockStopsFirst(c, why) ==
  /\ ~clientLock
  /\ time' = [time EXCEPT !.armed = FALSE]
  /\ lockedClient' = IF lockedClient = c THEN NoClient ELSE lockedClient
  /\ mutex' = IF lockedClient = c THEN FALSE ELSE mutex
  /\ lastRelease' = IF lockedClient = c THEN [lastRelease EXCEPT ![c] = why]
                    ELSE lastRelease
  /\ UNCHANGED clientLock

Unlock(c, why) ==
  /\ ~clientLock
  /\ \/ /\ lockedClient # c
        /\ UNCHANGED <<mutex, lockedClient, clientLock, time, lastRelease>>
     \/ /\ lockedClient = c
        /\ time.owner = NoClient
        /\ lockedClient' = NoClient
        /\ mutex' = FALSE
        /\ lastRelease' = [lastRelease EXCEPT ![c] = why]
        /\ UNCHANGED <<clientLock, time>>
     \/ /\ lockedClient = c
        /\ time.owner # NoClient
        /\ clientLock' = TRUE
        /\ time' = [time EXCEPT !.armed = FALSE]
        /\ lastRelease' = [lastRelease EXCEPT ![c] = why]
        /\ UNCHANGED <<mutex, lockedClient>>

(* A timer that is dropped while armed still fires.                        *)
DropTimer ==
  expiring' = IF time.armed
              THEN [expiring EXCEPT ![time.owner] = @ + 1] ELSE expiring

(* Mutant: Unlock returns without mutex.Unlock once it stopped the timer.  *)
FinishUnlockKeepsMutex ==
  /\ clientLock
  /\ time' = NoTimer
  /\ DropTimer
  /\ lockedClient' = NoClient
  /\ clientLock' = FALSE
  /\ UNCHANGED <<mutex, pc, call, conn, calls, lastRelease, panicked>>

FinishUnlock ==
  /\ clientLock
  /\ time' = NoTimer
  /\ DropTimer
  /\ lockedClient' = NoClient
  /\ mutex' = FALSE
  /\ clientLock' = FALSE
  /\ UNCHANGED <<pc, call, conn, calls, lastRelease, panicked>>

-----------------------------------------------------------------------------
(* A daemon calls from one goroutine, so a client starts a call only when  *)
(* no earlier one is live.  It may keep using its id after the connection  *)
(* that earned it is lost: gRPC reconnects by itself and the daemon logs   *)
(* in again only when its error handler gets there.                        *)

Begin(h, c, op) ==
  /\ pc[h] = "idle"
  /\ calls < MaxCalls
  /\ \A g \in Handler : ~(call[g].client = c /\ call[g].live)
  /\ call' = [call EXCEPT ![h] = [op |-> op, client |-> c, live |-> TRUE]]
  /\ pc' = [pc EXCEPT ![h] = CASE op = "Lock" -> "lock"
                               [] op = "Unlock" -> "unlock"
                               [] op = "Write" -> "check"]
  /\ calls' = calls + 1
  /\ UNCHANGED <<lockVars, conn>>

Goto(h, l) == /\ pc' = [pc EXCEPT ![h] = l]
              /\ UNCHANGED <<call, conn, calls>>

Return(h) == /\ pc' = [pc EXCEPT ![h] = "idle"]
             /\ call' = [call EXCEPT ![h] = NoCall]
             /\ UNCHANGED <<conn, calls>>

(* Lock ends in the check of the context, Write in the write to the pty.   *)
AfterLock(h) == Goto(h, IF call[h].op = "Write" THEN "pty" ELSE "ctx")

(* Write: only the holder may go on, and only if the game runs (its state  *)
(* is not part of this module: both answers are possible).                 *)
WriteCheck(h) ==
  /\ pc[h] = "check"
  /\ ~clientLock
  /\ \/ Return(h)
     \/ lockedClient = call[h].client /\ Goto(h, "lock")
  /\ UNCHANGED lockVars

(* Lock by the holder renews: Reset of a nil timer panics.                 *)
Renew(h) ==
  /\ pc[h] = "lock"
  /\ ~clientLock
  /\ lockedClient = call[h].client
  /\ \/ /\ time.owner = NoClient
        /\ panicked' = TRUE
        /\ UNCHANGED <<time, pc, call, conn, calls>>
     \/ /\ time.owner # NoClient
        /\ time' = [time EXCEPT !.armed = TRUE]
        /\ AfterLock(h)
        /\ UNCHANGED panicked
  /\ UNCHANGED <<mutex, lockedClient, clientLock, expiring, lastRelease>>

Queue(h) ==
  /\ pc[h] = "lock"
  /\ ~clientLock
  /\ lockedClient # call[h].client
  /\ Goto(h, "mutex")
  /\ UNCHANGED lockVars

(* Mutant: TryLock, whose answer is ignored.                               *)
AcquireMutexUnchecked(h) ==
  /\ pc[h] = "mutex"
  /\ mutex' = TRUE
  /\ Goto(h, "own")
  /\ UNCHANGED <<lockedClient, clientLock, time, expiring, lastRelease,
                 panicked>>

AcquireMutex(h) ==
  /\ pc[h] = "mutex"
  /\ ~mutex
  /\ mutex' = TRUE
  /\ Goto(h, "own")
  /\ UNCHANGED <<lockedClient, clientLock, time, expiring, lastRelease,
                 panicked>>

SetOwner(h) ==
  /\ pc[h] = "own"
  /\ ~clientLock
  /\ lockedClient' = call[h].client
  /\ Goto(h, "arm")
  /\ UNCHANGED <<mutex, clientLock, time, expiring, lastRelease, panicked>>

(* Mutant: a timer with no callback.                                       *)
ArmTimerSilent(h) ==
  /\ pc[h] = "arm"
  /\ time' = [owner |-> call[h].client, armed |-> FALSE]
  /\ AfterLock(h)
  /\ UNCHANGED <<mutex, lockedClient, clientLock, expiring, lastRelease,
                 panicked>>

(* time = AfterFunc(...), outside clientLock, without stopping the timer   *)
(* the pointer may still name.                                             *)
ArmTimer(h) ==
  /\ pc[h] = "arm"
  /\ time' = [owner |-> call[h].client, armed |-> TRUE]
  /\ DropTimer
  /\ AfterLock(h)
  /\ UNCHANGED <<mutex, lockedClient, clientLock, lastRelease, panicked>>

(* The Lock RPC gives the lock back when its context is done.  The server  *)
(* may not yet know that a client has gone.                                *)
CheckContext(h) ==
  /\ pc[h] = "ctx"
  /\ \/ Return(h)
     \/ ~call[h].live /\ Goto(h, "unlock")
  /\ UNCHANGED lockVars

UnlockCall(h) ==
  /\ pc[h] = "unlock"
  /\ Unlock(call[h].client, IF call[h].live THEN "unlock" ELSE "dead")
  /\ Return(h)
  /\ UNCHANGED <<expiring, panicked>>

WritePty(h) ==
  /\ pc[h] = "pty"
  /\ Return(h)
  /\ UNCHANGED lockVars

-----------------------------------------------------------------------------
Fire ==
  /\ time.armed
  /\ time' = [time EXCEPT !.armed = FALSE]
  /\ expiring' = [expiring EXCEPT ![time.owner] = @ + 1]
  /\ UNCHANGED <<mutex, lockedClient, clientLock, pc, call, conn, calls,
                 lastRelease, panicked>>

(* The callback of an expired timer.                                       *)
Expire(c) ==
  /\ expiring[c] > 0
  /\ Unlock(c, "expiry")
  /\ expiring' = [expiring EXCEPT ![c] = @ - 1]
  /\ UNCHANGED <<pc, call, conn, calls, panicked>>

(* The connection that carries the client's calls is lost: the client      *)
(* gives its call up, the handler that serves it goes on.                  *)
Disconnect(c) ==
  /\ \/ conn[c] = "up"
     \/ \E h \in Handler : call[h].client = c /\ call[h].live
  /\ conn' = [conn EXCEPT ![c] = IF @ = "up" THEN "lost" ELSE @]
  /\ call' = [h \in Handler |-> IF call[h].client = c
                                THEN [call[h] EXCEPT !.live = FALSE]
                                ELSE call[h]]
  /\ UNCHANGED <<lockVars, pc, calls>>

(* HandleConn, once for each connection.                                   *)
ConnEnd(c) ==
  /\ conn[c] = "lost"
  /\ Unlock(c, "connEnd")
  /\ conn' = [conn EXCEPT ![c] = "ended"]
  /\ UNCHANGED <<pc, call, calls, expiring, panicked>>

-----------------------------------------------------------------------------
HandlerStep(h) ==
  \/ WriteCheck(h) \/ Renew(h) \/ Queue(h) \/ AcquireMutex(h) \/ SetOwner(h)
  \/ ArmTimer(h) \/ CheckContext(h) \/ UnlockCall(h) \/ WritePty(h)

(* The calls are used up and have returned, or the manager is dead.        *)
Finished ==
  /\ panicked \/ (calls = MaxCalls /\ \A h \in Handler : pc[h] = "idle")
  /\ UNCHANGED vars

Next ==
  \/ /\ ~panicked
     /\ \/ \E h \in Handler, c \in Client, op \in {"Lock", "Unlock", "Write"} :
             Begin(h, c, op)
        \/ \E h \in Handler : HandlerStep(h)
        \/ \E c \in Client : Expire(c) \/ Disconnect(c) \/ ConnEnd(c)
        \/ Fire
        \/ FinishUnlock
  \/ Finished

Spec == Init /\ [][Next]_vars

(* Goroutines keep running, timers fire, ends of connections are reported, *)
(* and sync.Mutex does not starve a waiter.                                *)
Fairness ==
  /\ \A h \in Handler : WF_vars(~panicked /\ HandlerStep(h))
  /\ \A h \in Handler : SF_vars(~panicked /\ AcquireMutex(h))
  /\ \A c \in Client : /\ WF_vars(~panicked /\ Expire(c))
                       /\ WF_vars(~panicked /\ ConnEnd(c))
  /\ WF_vars(~panicked /\ Fire)
  /\ WF_vars(~panicked /\ FinishUnlock)

FairSpec == Spec /\ Fairness

-----------------------------------------------------------------------------
(* The mutex is locked exactly while a client holds the lock or one call   *)
(* stands between mutex.Lock and the assignment of lockedClient.  So       *)
(* Unlock never unlocks an unlocked mutex, which Go answers with a fatal   *)
(* error.                                                                  *)
MutexOwned ==
  /\ mutex <=> \/ lockedClient # NoClient
               \/ \E h \in Handler : pc[h] = "own"
  /\ \A h \in Handler :
       pc[h] = "own" => /\ lockedClient = NoClient
                        /\ \A g \in Handler : pc[g] = "own" => g = h

(* Whoever holds the lock will lose it if it falls silent: the expiry is   *)
(* armed, under way, or about to be armed by the call that got the lock.   *)
(* No order of renewals, releases and late assignments of time leaves a    *)
(* hold that nothing ends.                                                 *)
HoldExpires ==
  lockedClient # NoClient =>
    \/ clientLock
    \/ time.armed /\ time.owner = lockedClient
    \/ expiring[lockedClient] > 0
    \/ \E h \in Handler : pc[h] = "arm" /\ call[h].client = lockedClient

(* A client on a sound connection that has been given the lock, and is     *)
(* about to write to the console or to be told that it holds it, does hold *)
(* it, unless its hold has expired meanwhile.                              *)
HeldUntilExpiry ==
  \A h \in Handler :
    LET c == call[h].client IN
    /\ pc[h] \in {"arm", "ctx", "pty"}
    /\ call[h].live
    /\ conn[c] = "up"
    => lockedClient = c \/ lastRelease[c] = "expiry"

(* Reset of a nil timer needs a call under the id of a lost connection.    *)
PanicNeedsLostConnection == panicked => \E c \in Client : conn[c] # "up"

(* The lock is the abstract one: held by one client at a time, granted     *)
(* only to a waiting call and only when free.                              *)
Abstract == INSTANCE AbstractLock WITH
  Call <- Handler,
  holder <- lockedClient,
  asking <- {<<h, call[h].client>> :
               h \in {g \in Handler : pc[g] \in {"mutex", "own"}}}

ImplementsLock == Abstract!Spec

(* Every call returns: no waiter stays behind a client that died, forgot   *)
(* to unlock or lost its connection.                                       *)
EveryCallReturns ==
  \A h \in Handler : (pc[h] # "idle") ~> (pc[h] = "idle" \/ panicked)

(* When the clients fall silent the lock becomes free.                     *)
LockBecomesFree == <>[](panicked \/ (lockedClient = NoClient /\ ~mutex))
=============================================================================
