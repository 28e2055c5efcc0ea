-------------------------- MODULE GameManagerProofs ---------------------------
(***************************************************************************)
(* Proofs about two parts of the game manager that have no state in common:*)
(* the write lock, for any number of clients, handlers and calls, and, in  *)
(* the second half, the forwarding of the log, for any number of lines,    *)
(* streams, daemons, broken connections and capacities.                    *)
(***************************************************************************)
EXTENDS WriteLock, LogForward, TLAPS


(* An Unlock that has stopped the timer still finds a holder to release    *)
(* and a timer to clear.                                                   *)
UnlockingHolds ==
  clientLock => lockedClient # NoClient /\ time.owner # NoClient

(* A holder without a timer is about to get one.                           *)
NilTimerIsFresh ==
  (lockedClient # NoClient /\ time.owner = NoClient) =>
    \E h \in Handler : pc[h] = "arm" /\ call[h].client = lockedClient

(* While the connection of a client stands, its calls are live and follow  *)
(* one another.                                                            *)
CallsInSequence ==
  \A h \in Handler : \A c \in Client :
    (call[h].client = c /\ conn[c] = "up") =>
      /\ call[h].live
      /\ \A g \in Handler : call[g].client = c => g = h

(* HeldUntilExpiry as a step can rely on it: no release is under way that  *)
(* is not an expiry.                                                       *)
HeldOrExpired ==
  \A h \in Handler : \A c \in Client :
    (/\ pc[h] \in {"arm", "ctx", "pty"}
     /\ call[h].client = c
     /\ conn[c] = "up")
    => \/ lockedClient = c /\ ~clientLock
       \/ lastRelease[c] = "expiry"

(* The parts about who holds the lock and when the hold ends.              *)
LockInv == MutexOwned /\ UnlockingHolds /\ NilTimerIsFresh /\ HoldExpires

IInv == /\ TypeOK
        /\ LockInv
        /\ CallsInSequence
        /\ HeldOrExpired
        /\ PanicNeedsLostConnection

-----------------------------------------------------------------------------
LEMMA InitInvariant == Init => IInv
  <1> SUFFICES ASSUME Init PROVE IInv
    OBVIOUS
  <1> USE ClientAssumption, MaxCallsAssumption DEF Init, NoTimer, NoCall
  <1>1. TypeOK
    <2>1. call \in [Handler -> Calls] /\ pc \in [Handler -> PC]
      BY DEF PC, Calls
    <2>2. \A h \in Handler : (pc[h] = "idle") <=> (call[h].client = NoClient)
      OBVIOUS
    <2>3. expiring \in [Client -> Nat] /\ calls \in 0..MaxCalls
      OBVIOUS
    <2>4. lastRelease \in
            [Client -> {"none", "unlock", "dead", "connEnd", "expiry"}]
      OBVIOUS
    <2> QED
      BY <2>1, <2>2, <2>3, <2>4 DEF TypeOK
  <1>2. LockInv
    BY DEF LockInv, MutexOwned, UnlockingHolds, NilTimerIsFresh, HoldExpires
  <1>3. CallsInSequence /\ HeldOrExpired /\ PanicNeedsLostConnection
    BY DEF CallsInSequence, HeldOrExpired, PanicNeedsLostConnection
  <1> QED
    BY <1>1, <1>2, <1>3 DEF IInv

(* What the shared parts of the actions do to the types.                   *)
HandlersOK ==
  /\ pc \in [Handler -> PC]
  /\ call \in [Handler -> Calls]
  /\ \A h \in Handler : (pc[h] = "idle") <=> (call[h].client = NoClient)

LEMMA ReturnType ==
  ASSUME HandlersOK, NEW h \in Handler, Return(h)
  PROVE  HandlersOK'
  BY ClientAssumption DEF HandlersOK, Return, PC, Calls, NoCall

LEMMA GotoType ==
  ASSUME HandlersOK, NEW h \in Handler, NEW l \in PC \ {"idle"},
         pc[h] # "idle", Goto(h, l)
  PROVE  HandlersOK'
  BY DEF HandlersOK, Goto, PC

LEMMA AfterLockType ==
  ASSUME HandlersOK, NEW h \in Handler, pc[h] # "idle", AfterLock(h)
  PROVE  HandlersOK'
  <1> DEFINE l == IF call[h].op = "Write" THEN "pty" ELSE "ctx"
  <1>1. l \in PC \ {"idle"}
    BY DEF PC
  <1>2. Goto(h, l)
    BY DEF AfterLock
  <1> QED
    BY <1>1, <1>2, GotoType

LEMMA DropTimerType ==
  ASSUME TypeOK, DropTimer
  PROVE  expiring' \in [Client -> Nat]
  <1>1. CASE time.armed
    <2>1. time.owner \in Client
      BY <1>1 DEF TypeOK
    <2>2. expiring' = [expiring EXCEPT ![time.owner] = @ + 1]
      BY <1>1 DEF DropTimer
    <2> QED
      BY <2>1, <2>2 DEF TypeOK
  <1>2. CASE ~time.armed
    BY <1>2 DEF DropTimer, TypeOK
  <1> QED
    BY <1>1, <1>2

LEMMA UnlockType ==
  ASSUME TypeOK, NEW c \in Client,
         NEW why \in {"unlock", "dead", "connEnd", "expiry"}, Unlock(c, why)
  PROVE  /\ mutex' \in BOOLEAN
         /\ lockedClient' \in Client \cup {NoClient}
         /\ clientLock' \in BOOLEAN
         /\ time' \in [owner : Client \cup {NoClient}, armed : BOOLEAN]
         /\ time'.armed => time'.owner # NoClient
         /\ lastRelease' \in
              [Client -> {"none", "unlock", "dead", "connEnd", "expiry"}]
  <1>1. CASE lockedClient # c
    BY <1>1 DEF Unlock, TypeOK
  <1>2. CASE lockedClient = c /\ time.owner = NoClient
    BY <1>2 DEF Unlock, TypeOK
  <1>3. CASE lockedClient = c /\ time.owner # NoClient
    <2>1. /\ time' = [time EXCEPT !.armed = FALSE]
          /\ clientLock' = TRUE
          /\ lastRelease' = [lastRelease EXCEPT ![c] = why]
          /\ UNCHANGED <<mutex, lockedClient>>
      BY <1>3 DEF Unlock
    <2>2. /\ time' \in [owner : Client \cup {NoClient}, armed : BOOLEAN]
          /\ ~time'.armed
      BY <2>1 DEF TypeOK
    <2> QED
      BY <2>1, <2>2 DEF TypeOK
  <1> QED
    BY <1>1, <1>2, <1>3

LEMMA TypeStep ==
  ASSUME TypeOK, [Next]_vars
  PROVE  TypeOK'
  <1> USE ClientAssumption, MaxCallsAssumption
  <1>0. HandlersOK
    BY DEF TypeOK, HandlersOK
  <1>1. ASSUME NEW h \in Handler, NEW c \in Client,
               NEW op \in {"Lock", "Unlock", "Write"}, Begin(h, c, op)
        PROVE  TypeOK'
    BY <1>1 DEF Begin, lockVars, TypeOK, PC, Calls
  <1>2. ASSUME NEW h \in Handler,
               WriteCheck(h) \/ Queue(h) \/ CheckContext(h) \/ WritePty(h)
        PROVE  TypeOK'
    <2>1. /\ UNCHANGED <<lockVars, conn, calls>>
          /\ \/ Return(h)
             \/ \E l \in PC \ {"idle"} : pc[h] # "idle" /\ Goto(h, l)
      BY <1>2 DEF WriteCheck, Queue, CheckContext, WritePty, Return, Goto, PC
    <2>2. HandlersOK'
      BY <2>1, <1>0, ReturnType, GotoType
    <2> QED
      BY <2>1, <2>2 DEF TypeOK, HandlersOK, lockVars
  <1>3. ASSUME NEW h \in Handler, Renew(h)
        PROVE  TypeOK'
    <2>1. HandlersOK'
      <3>1. CASE UNCHANGED <<pc, call>>
        BY <3>1, <1>0 DEF HandlersOK
      <3>2. CASE AfterLock(h)
        BY <3>2, <1>3, <1>0, AfterLockType DEF Renew
      <3> QED
        BY <3>1, <3>2, <1>3 DEF Renew
    <2>2. /\ time' \in [owner : Client \cup {NoClient}, armed : BOOLEAN]
          /\ time'.armed => time'.owner # NoClient
      BY <1>3 DEF Renew, TypeOK
    <2>3. UNCHANGED <<mutex, lockedClient, clientLock, expiring, lastRelease,
                      conn, calls>>
      BY <1>3 DEF Renew, AfterLock, Goto
    <2>4. panicked' \in BOOLEAN
      BY <1>3 DEF Renew, TypeOK
    <2> QED
      BY <2>1, <2>2, <2>3, <2>4 DEF TypeOK, HandlersOK
  <1>4. ASSUME NEW h \in Handler, AcquireMutex(h) \/ SetOwner(h)
        PROVE  TypeOK'
    <2>1. HandlersOK' /\ UNCHANGED <<conn, calls>>
      BY <1>4, <1>0, GotoType DEF AcquireMutex, SetOwner, Goto, PC
    <2>2. call[h].client \in Client \cup {NoClient}
      BY DEF TypeOK, Calls
    <2>3. CASE AcquireMutex(h)
      BY <2>1, <2>3 DEF AcquireMutex, TypeOK, HandlersOK
    <2>4. CASE SetOwner(h)
      BY <2>1, <2>2, <2>4 DEF SetOwner, TypeOK, HandlersOK
    <2> QED
      BY <1>4, <2>3, <2>4
  <1>5. ASSUME NEW h \in Handler, ArmTimer(h)
        PROVE  TypeOK'
    <2>1. HandlersOK' /\ UNCHANGED <<conn, calls>>
      BY <1>5, <1>0, AfterLockType DEF ArmTimer, AfterLock, Goto
    <2>2. expiring' \in [Client -> Nat]
      BY <1>5, DropTimerType DEF ArmTimer
    <2>3. /\ time' \in [owner : Client \cup {NoClient}, armed : BOOLEAN]
          /\ time'.armed => time'.owner # NoClient
      BY <1>5 DEF ArmTimer, TypeOK, Calls
    <2> QED
      BY <2>1, <2>2, <2>3, <1>5 DEF ArmTimer, TypeOK, HandlersOK
  <1>6. ASSUME NEW h \in Handler, UnlockCall(h)
        PROVE  TypeOK'
    <2>1. HandlersOK' /\ UNCHANGED <<conn, calls>>
      BY <1>6, <1>0, ReturnType DEF UnlockCall, Return
    <2>2. call[h].client \in Client
      BY <1>6 DEF UnlockCall, TypeOK, Calls
    <2>3. Unlock(call[h].client, IF call[h].live THEN "unlock" ELSE "dead")
      BY <1>6 DEF UnlockCall
    <2> QED
      BY <2>1, <2>2, <2>3, <1>6, UnlockType DEF UnlockCall, TypeOK, HandlersOK
  <1>7. ASSUME NEW c \in Client, Expire(c)
        PROVE  TypeOK'
    <2>1. expiring' \in [Client -> Nat]
      BY <1>7 DEF Expire, TypeOK
    <2> QED
      BY <2>1, <1>7, UnlockType DEF Expire, TypeOK
  <1>8. ASSUME NEW c \in Client, Disconnect(c)
        PROVE  TypeOK'
    <2>1. HandlersOK'
      <3>1. \A h \in Handler : /\ call'[h] \in Calls
                               /\ call'[h].client = call[h].client
        <4> TAKE h \in Handler
        <4>1. call[h] \in Calls
          BY DEF TypeOK
        <4>2. call'[h] = IF call[h].client = c
                         THEN [call[h] EXCEPT !.live = FALSE] ELSE call[h]
          BY <1>8 DEF Disconnect
        <4> QED
          BY <4>1, <4>2 DEF Calls
      <3> QED
        BY <3>1, <1>8 DEF Disconnect, TypeOK, HandlersOK
    <2>2. conn' \in [Client -> {"up", "lost", "ended"}]
      BY <1>8 DEF Disconnect, TypeOK
    <2> QED
      BY <2>1, <2>2, <1>8 DEF Disconnect, lockVars, TypeOK, HandlersOK
  <1>9. ASSUME NEW c \in Client, ConnEnd(c)
        PROVE  TypeOK'
    <2>1. conn' \in [Client -> {"up", "lost", "ended"}]
      BY <1>9 DEF ConnEnd, TypeOK
    <2> QED
      BY <2>1, <1>9, UnlockType DEF ConnEnd, TypeOK
  <1>10. ASSUME Fire
         PROVE  TypeOK'
    <2>1. expiring' \in [Client -> Nat]
      <3>1. time.owner \in Client
        BY <1>10 DEF Fire, TypeOK
      <3> QED
        BY <3>1, <1>10 DEF Fire, TypeOK
    <2>2. /\ time' \in [owner : Client \cup {NoClient}, armed : BOOLEAN]
          /\ ~time'.armed
      BY <1>10 DEF Fire, TypeOK
    <2> QED
      BY <2>1, <2>2, <1>10 DEF Fire, TypeOK
  <1>11. ASSUME FinishUnlock
         PROVE  TypeOK'
    BY <1>11, DropTimerType DEF FinishUnlock, NoTimer, TypeOK
  <1>12. CASE UNCHANGED vars
    BY <1>12 DEF vars, TypeOK
  <1> QED
    BY <1>1, <1>2, <1>3, <1>4, <1>5, <1>6, <1>7, <1>8, <1>9, <1>10, <1>11,
       <1>12
    DEF Next, HandlerStep, Finished

LEMMA SequenceStep ==
  ASSUME TypeOK, CallsInSequence, [Next]_vars
  PROVE  CallsInSequence'
  <1> USE ClientAssumption DEF TypeOK, Calls, CallsInSequence
  <1>1. ASSUME NEW h \in Handler, NEW c \in Client,
               NEW op \in {"Lock", "Unlock", "Write"}, Begin(h, c, op)
        PROVE  CallsInSequence'
    BY <1>1 DEF Begin
  <1>2. ASSUME NEW h \in Handler, Return(h)
        PROVE  CallsInSequence'
    BY <1>2 DEF Return, NoCall
  <1>3. ASSUME NEW c \in Client, Disconnect(c)
        PROVE  CallsInSequence'
    BY <1>3 DEF Disconnect
  <1>4. ASSUME NEW c \in Client, ConnEnd(c)
        PROVE  CallsInSequence'
    BY <1>4 DEF ConnEnd
  <1>5. CASE UNCHANGED <<call, conn>>
    BY <1>5
  <1>6. ASSUME NEW h \in Handler, HandlerStep(h)
        PROVE  Return(h) \/ UNCHANGED <<call, conn>>
    BY <1>6
    DEF HandlerStep, WriteCheck, Renew, Queue, AcquireMutex, SetOwner,
        ArmTimer, CheckContext, UnlockCall, WritePty, AfterLock, Goto
  <1> QED
    BY <1>1, <1>2, <1>3, <1>4, <1>5, <1>6
    DEF Next, Expire, Fire, FinishUnlock, Finished, vars

LEMMA LockStep ==
  ASSUME TypeOK, LockInv, [Next]_vars
  PROVE  LockInv'
  <1> USE ClientAssumption
      DEF TypeOK, Calls, PC, LockInv, MutexOwned, UnlockingHolds,
          NilTimerIsFresh, HoldExpires
  (* Steps that touch neither the lock nor a handler at own or arm.        *)
  <1>1. ASSUME UNCHANGED lockVars,
               \A h \in Handler :
                 \/ pc'[h] = pc[h] /\ call'[h].client = call[h].client
                 \/ {pc[h], pc'[h]} \cap {"own", "arm"} = {}
        PROVE  LockInv'
    BY <1>1 DEF lockVars
  <1>2. ASSUME NEW h \in Handler, Renew(h)
        PROVE  LockInv'
    <2>1. MutexOwned' /\ UnlockingHolds'
      BY <1>2 DEF Renew, AfterLock, Goto
    <2>2. NilTimerIsFresh' /\ HoldExpires'
      BY <1>2 DEF Renew, AfterLock, Goto
    <2> QED
      BY <2>1, <2>2
  <1>3. ASSUME NEW h \in Handler, AcquireMutex(h)
        PROVE  LockInv'
    BY <1>3 DEF AcquireMutex, Goto
  <1>4. ASSUME NEW h \in Handler, SetOwner(h)
        PROVE  LockInv'
    <2>1. MutexOwned' /\ UnlockingHolds'
      BY <1>4 DEF SetOwner, Goto
    <2>2. NilTimerIsFresh' /\ HoldExpires'
      BY <1>4 DEF SetOwner, Goto
    <2> QED
      BY <2>1, <2>2
  <1>5. ASSUME NEW h \in Handler, ArmTimer(h)
        PROVE  LockInv'
    <2>1. MutexOwned' /\ UnlockingHolds'
      BY <1>5 DEF ArmTimer, AfterLock, Goto
    <2>2. NilTimerIsFresh'
      BY <1>5 DEF ArmTimer, AfterLock, Goto
    <2>3. HoldExpires'
      (* The timer that was armed before now counts in expiring.           *)
      <3>1. \A c \in Client : expiring[c] > 0 => expiring'[c] > 0
        BY <1>5 DEF ArmTimer, DropTimer
      <3>2. (time.armed /\ time.owner = lockedClient)
              => expiring'[lockedClient] > 0
        BY <1>5 DEF ArmTimer, DropTimer
      <3> QED
        BY <1>5, <3>1, <3>2 DEF ArmTimer, AfterLock, Goto
    <2> QED
      BY <2>1, <2>2, <2>3
  <1>6. ASSUME NEW c \in Client, NEW why, Unlock(c, why),
               \A h \in Handler :
                 \/ pc'[h] = pc[h] /\ call'[h].client = call[h].client
                 \/ {pc[h], pc'[h]} \cap {"own", "arm"} = {},
               \A d \in Client : d # c => expiring'[d] = expiring[d],
               expiring'[c] = expiring[c] \/ why = "expiry"
        PROVE  LockInv'
    <2>0. \A h \in Handler : pc'[h] = "own" <=> pc[h] = "own"
      BY <1>6
    <2>1. CASE lockedClient = c /\ time.owner = NoClient
      <3>1. /\ lockedClient' = NoClient
            /\ mutex' = FALSE
            /\ UNCHANGED <<clientLock, time>>
            /\ ~clientLock
        BY <1>6, <2>1 DEF Unlock
      <3> QED
        BY <3>1, <2>0, <2>1
    <2>2. CASE lockedClient = c /\ time.owner # NoClient
      <3>1. /\ clientLock' = TRUE
            /\ time' = [time EXCEPT !.armed = FALSE]
            /\ UNCHANGED <<mutex, lockedClient>>
        BY <1>6, <2>2 DEF Unlock
      <3> QED
        BY <3>1, <2>0, <2>2
    <2>3. CASE lockedClient # c
      <3>1. UNCHANGED <<mutex, lockedClient, clientLock, time>>
        BY <1>6, <2>3 DEF Unlock
      <3>2. MutexOwned' /\ UnlockingHolds'
        BY <3>1, <2>0
      <3>3. NilTimerIsFresh'
        BY <1>6, <3>1
      <3>4. HoldExpires'
        BY <1>6, <3>1, <2>3
      <3> QED
        BY <3>2, <3>3, <3>4
    <2> QED
      BY <2>1, <2>2, <2>3
  <1>7. CASE Fire
    BY <1>7 DEF Fire
  <1>8. CASE FinishUnlock
    BY <1>8 DEF FinishUnlock, NoTimer
  <1>9. ASSUME NEW h \in Handler,
               WriteCheck(h) \/ Queue(h) \/ CheckContext(h) \/ WritePty(h)
        PROVE  LockInv'
    BY <1>1, <1>9
    DEF WriteCheck, Queue, CheckContext, WritePty, Return, Goto
  <1>10. ASSUME NEW h \in Handler, NEW c \in Client,
                NEW op \in {"Lock", "Unlock", "Write"}, Begin(h, c, op)
         PROVE  LockInv'
    BY <1>1, <1>10 DEF Begin
  <1>11. ASSUME NEW c \in Client, Disconnect(c)
         PROVE  LockInv'
    BY <1>1, <1>11 DEF Disconnect
  <1>12. ASSUME NEW h \in Handler, UnlockCall(h)
         PROVE  LockInv'
    <2>1. call[h].client \in Client
      BY <1>12 DEF UnlockCall
    <2> QED
      BY <1>6, <1>12, <2>1 DEF UnlockCall, Return
  <1>13. ASSUME NEW c \in Client, ConnEnd(c)
         PROVE  LockInv'
    BY <1>6, <1>13 DEF ConnEnd
  <1>14. ASSUME NEW c \in Client, Expire(c)
         PROVE  LockInv'
    BY <1>6, <1>14 DEF Expire
  <1>15. CASE UNCHANGED vars
    BY <1>1, <1>15 DEF vars, lockVars
  <1> QED
    BY <1>2, <1>3, <1>4, <1>5, <1>7, <1>8, <1>9, <1>10, <1>11, <1>12, <1>13,
       <1>14, <1>15
    DEF Next, HandlerStep, Finished

LEMMA HeldStep ==
  ASSUME TypeOK, MutexOwned, UnlockingHolds, CallsInSequence, HeldOrExpired,
         [Next]_vars
  PROVE  HeldOrExpired'
  <1> USE ClientAssumption DEF TypeOK, Calls, PC, HeldOrExpired
  (* Steps after which no new call has the lock.                           *)
  <1>1. ASSUME UNCHANGED <<lockedClient, clientLock, lastRelease>>,
               \A h \in Handler : pc'[h] \in {"arm", "ctx", "pty"} =>
                 /\ pc[h] \in {"arm", "ctx", "pty"}
                 /\ call'[h].client = call[h].client,
               \A c \in Client : conn'[c] = "up" => conn[c] = "up"
        PROVE  HeldOrExpired'
    BY <1>1
  <1>2. ASSUME NEW h \in Handler, Renew(h)
        PROVE  HeldOrExpired'
    BY <1>2 DEF Renew, AfterLock, Goto
  <1>3. ASSUME NEW h \in Handler, SetOwner(h)
        PROVE  HeldOrExpired'
    BY <1>3 DEF SetOwner, Goto, MutexOwned
  (* Of the calls that may release a hold of c only one is not that of c.  *)
  <1>4. ASSUME NEW c \in Client, NEW why, Unlock(c, why),
               \A h \in Handler : pc'[h] \in {"arm", "ctx", "pty"} =>
                 /\ pc[h] \in {"arm", "ctx", "pty"}
                 /\ call'[h].client = call[h].client
                 /\ call[h].client = c => why = "expiry" \/ conn'[c] # "up",
               \A d \in Client : conn'[d] = "up" => conn[d] = "up"
        PROVE  HeldOrExpired'
    BY <1>4 DEF Unlock
  <1>5. ASSUME NEW h \in Handler, UnlockCall(h)
        PROVE  HeldOrExpired'
    <2>1. call[h].client \in Client /\ pc[h] = "unlock"
      BY <1>5 DEF UnlockCall
    <2>2. \A g \in Handler :
            (call[g].client = call[h].client /\ g # h)
              => conn[call[h].client] # "up"
      BY <2>1 DEF CallsInSequence
    <2>3. PICK why : Unlock(call[h].client, why) /\ Return(h)
      BY <1>5, Zenon DEF UnlockCall
    <2>4. \A g \in Handler : pc'[g] \in {"arm", "ctx", "pty"} =>
            /\ pc[g] \in {"arm", "ctx", "pty"}
            /\ call'[g].client = call[g].client
            /\ call[g].client = call[h].client =>
                 conn'[call[h].client] # "up"
      BY <2>1, <2>2, <2>3 DEF Return
    <2>5. \A d \in Client : conn'[d] = "up" => conn[d] = "up"
      BY <2>3 DEF Return
    <2> HIDE DEF TypeOK, Calls, PC, HeldOrExpired
    <2> QED
      BY <1>4, <2>1, <2>3, <2>4, <2>5
  <1>6. ASSUME NEW c \in Client, Expire(c)
        PROVE  HeldOrExpired'
    BY <1>4, <1>6 DEF Expire
  <1>7. ASSUME NEW c \in Client, ConnEnd(c)
        PROVE  HeldOrExpired'
    BY <1>4, <1>7 DEF ConnEnd
  <1>8. CASE FinishUnlock
    BY <1>8 DEF FinishUnlock
  <1>9. ASSUME NEW h \in Handler,
               \/ WriteCheck(h) \/ Queue(h) \/ AcquireMutex(h) \/ ArmTimer(h)
               \/ CheckContext(h) \/ WritePty(h)
        PROVE  HeldOrExpired'
    BY <1>1, <1>9
    DEF WriteCheck, Queue, AcquireMutex, ArmTimer, CheckContext, WritePty,
        AfterLock, Return, Goto, lockVars
  <1>10. ASSUME NEW h \in Handler, NEW c \in Client,
                NEW op \in {"Lock", "Unlock", "Write"}, Begin(h, c, op)
         PROVE  HeldOrExpired'
    BY <1>1, <1>10 DEF Begin, lockVars
  <1>11. ASSUME NEW c \in Client, Disconnect(c)
         PROVE  HeldOrExpired'
    BY <1>1, <1>11 DEF Disconnect, lockVars
  <1>12. CASE Fire \/ UNCHANGED vars
    BY <1>1, <1>12 DEF Fire, vars
  <1> HIDE DEF TypeOK, Calls, PC, HeldOrExpired
  <1> QED
    BY <1>2, <1>3, <1>5, <1>6, <1>7, <1>8, <1>9, <1>10, <1>11, <1>12
    DEF Next, HandlerStep, Finished

LEMMA PanicStep ==
  ASSUME TypeOK, NilTimerIsFresh, CallsInSequence, PanicNeedsLostConnection,
         [Next]_vars
  PROVE  PanicNeedsLostConnection'
  <1> USE DEF PanicNeedsLostConnection
  <1>1. ASSUME NEW h \in Handler, Renew(h), panicked', ~panicked
        PROVE  PanicNeedsLostConnection'
    <2>1. /\ pc[h] = "lock"
          /\ lockedClient = call[h].client
          /\ time.owner = NoClient
          /\ UNCHANGED conn
      BY <1>1 DEF Renew
    <2>2. lockedClient \in Client
      BY <2>1, ClientAssumption DEF TypeOK, Calls
    <2>3. PICK g \in Handler : pc[g] = "arm" /\ call[g].client = lockedClient
      BY <2>1, <2>2, ClientAssumption DEF NilTimerIsFresh
    <2>4. conn[lockedClient] # "up"
      BY <2>1, <2>2, <2>3 DEF CallsInSequence
    <2> QED
      BY <2>1, <2>2, <2>4
  <1>2. ASSUME NEW c \in Client, conn[c] # "up"
        PROVE  conn'[c] # "up"
    BY <1>2
    DEF TypeOK, Next, HandlerStep, Begin, WriteCheck, Renew, Queue,
        AcquireMutex, SetOwner, ArmTimer, CheckContext, UnlockCall, WritePty,
        Expire, Disconnect, ConnEnd, Fire, FinishUnlock, Finished, AfterLock,
        Return, Goto, vars
  <1>3. CASE panicked
    BY <1>2, <1>3
  <1>4. CASE ~panicked'
    BY <1>4
  <1>5. ASSUME panicked', ~panicked
        PROVE  \E h \in Handler : Renew(h)
    BY <1>5
    DEF Next, HandlerStep, Begin, WriteCheck, Queue, AcquireMutex, SetOwner,
        ArmTimer, CheckContext, UnlockCall, WritePty, Expire, Disconnect,
        ConnEnd, Fire, FinishUnlock, Finished, lockVars, vars
  <1> QED
    BY <1>1, <1>3, <1>4, <1>5

-----------------------------------------------------------------------------
LEMMA StepInvariant ==
  ASSUME IInv, [Next]_vars
  PROVE  IInv'
  BY TypeStep, LockStep, SequenceStep, HeldStep, PanicStep DEF IInv, LockInv

(* The inductive invariant of the write lock holds.                         *)
THEOREM Invariance == Spec => []IInv
  BY InitInvariant, StepInvariant, PTL DEF Spec

(* Type correctness.                                                       *)
THEOREM TypeCorrect == Spec => []TypeOK
  BY Invariance, PTL DEF IInv

(* The mutex of the write lock is locked exactly while it has an owner, so *)
(* no Unlock ever unlocks it twice.                                        *)
THEOREM MutexIsOwned == Spec => []MutexOwned
  BY Invariance, PTL DEF IInv, LockInv

(* Every hold has an end in sight, whatever happened to its timer.         *)
THEOREM EveryHoldExpires == Spec => []HoldExpires
  BY Invariance, PTL DEF IInv, LockInv

(* A client keeps the lock it was given until it expires.                  *)
THEOREM LockIsKept == Spec => []HeldUntilExpiry
  <1>1. IInv => HeldUntilExpiry
    BY ClientAssumption
    DEF IInv, TypeOK, Calls, HeldOrExpired, HeldUntilExpiry
  <1> QED
    BY <1>1, Invariance, PTL

(* The manager panics only after a connection was lost.                    *)
THEOREM PanicIsRare == Spec => []PanicNeedsLostConnection
  BY Invariance, PTL DEF IInv

-----------------------------------------------------------------------------
(* The lock implements the abstract one.                                   *)
Asking == {<<h, call[h].client>> :
             h \in {g \in Handler : pc[g] \in {"mutex", "own"}}}

(* A step that moves no handler in or out of the queue keeps it.           *)
LEMMA AskingKept ==
  ASSUME \A h \in Handler :
           \/ /\ (pc'[h] \in {"mutex", "own"}) <=> (pc[h] \in {"mutex", "own"})
              /\ call'[h].client = call[h].client
           \/ {pc[h], pc'[h]} \cap {"mutex", "own"} = {}
  PROVE  Asking' = Asking
  BY DEF Asking

LEMMA InitImplements == Init => Abstract!Init
  BY DEF Init, Abstract!Init

LEMMA AbstractStep ==
  ASSUME NEW h \in Handler, NEW c \in Client,
         Abstract!Ask(h, c) \/ Abstract!Grant(h, c)
  PROVE  Abstract!Next
  BY Zenon DEF Abstract!Next

LEMMA StepImplements ==
  ASSUME IInv, [Next]_vars
  PROVE  [Abstract!Next]_(Abstract!vars)
  <1> USE DEF IInv, LockInv, TypeOK, Calls, PC
  <1>0. Abstract!vars = <<lockedClient, Asking>>
    BY DEF Abstract!vars, Asking
  <1>1. ASSUME Asking' = Asking, UNCHANGED lockedClient
        PROVE  UNCHANGED Abstract!vars
    BY <1>0, <1>1 DEF Abstract!vars, Asking
  <1>2. ASSUME NEW h \in Handler, Queue(h)
        PROVE  Abstract!Next
    <2>1. PICK c \in Client : c = call[h].client
      BY <1>2 DEF Queue
    <2>2. \A d \in Client : <<h, d>> \notin Asking
      BY <1>2 DEF Queue, Asking
    <2>3. Asking' = Asking \cup {<<h, c>>}
      BY <1>2, <2>1 DEF Queue, Goto, Asking
    <2>4. UNCHANGED lockedClient
      BY <1>2 DEF Queue, lockVars
    <2>5. Abstract!Ask(h, c)
      BY <2>2, <2>3, <2>4 DEF Abstract!Ask, Asking
    <2> QED
      BY <2>1, <2>5, AbstractStep
  <1>3. ASSUME NEW h \in Handler, SetOwner(h)
        PROVE  Abstract!Next
    <2>1. PICK c \in Client : c = call[h].client
      BY <1>3 DEF SetOwner
    <2>2. <<h, c>> \in Asking
      BY <1>3, <2>1 DEF SetOwner, Asking
    <2>3. Asking' = Asking \ {<<h, c>>}
      BY <1>3, <2>1 DEF SetOwner, Goto, Asking
    <2>4. lockedClient = NoClient /\ lockedClient' = c
      BY <1>3, <2>1 DEF SetOwner, MutexOwned
    <2>5. Abstract!Grant(h, c)
      BY <2>2, <2>3, <2>4 DEF Abstract!Grant, Asking
    <2> QED
      BY <2>1, <2>5, AbstractStep
  <1>4. ASSUME lockedClient # NoClient, lockedClient' = NoClient,
               Asking' = Asking
        PROVE  Abstract!Next
    BY <1>4 DEF Abstract!Next, Abstract!Release, Asking
  <1>5. ASSUME NEW c \in Client, NEW why, Unlock(c, why), Asking' = Asking
        PROVE  [Abstract!Next]_(Abstract!vars)
    <2>1. CASE UNCHANGED lockedClient
      BY <1>1, <1>5, <2>1
    <2>2. CASE lockedClient = c /\ lockedClient' = NoClient
      BY <1>4, <1>5, <2>2, ClientAssumption
    <2> QED
      BY <1>5, <2>1, <2>2 DEF Unlock
  <1>6. ASSUME NEW h \in Handler, UnlockCall(h)
        PROVE  [Abstract!Next]_(Abstract!vars)
    <2>1. call[h].client \in Client
      BY <1>6 DEF UnlockCall
    <2>2. Asking' = Asking
      BY <1>6, AskingKept DEF UnlockCall, Return
    <2> QED
      BY <1>5, <1>6, <2>1, <2>2 DEF UnlockCall
  <1>7. ASSUME NEW c \in Client, Expire(c) \/ ConnEnd(c)
        PROVE  [Abstract!Next]_(Abstract!vars)
    <2>1. Asking' = Asking
      BY <1>7 DEF Expire, ConnEnd, Asking
    <2> QED
      BY <1>5, <1>7, <2>1 DEF Expire, ConnEnd
  <1>8. CASE FinishUnlock
    <2>1. Asking' = Asking
      BY <1>8 DEF FinishUnlock, Asking
    <2> QED
      BY <1>4, <1>8, <2>1 DEF FinishUnlock, UnlockingHolds
  <1>9. ASSUME NEW h \in Handler,
               \/ WriteCheck(h) \/ Renew(h) \/ AcquireMutex(h) \/ ArmTimer(h)
               \/ CheckContext(h) \/ WritePty(h)
        PROVE  UNCHANGED Abstract!vars
    <2>1. Asking' = Asking
      BY <1>9, AskingKept
      DEF WriteCheck, Renew, AcquireMutex, ArmTimer, CheckContext, WritePty,
          AfterLock, Return, Goto
    <2>2. UNCHANGED lockedClient
      BY <1>9
      DEF WriteCheck, Renew, AcquireMutex, ArmTimer, CheckContext, WritePty,
          lockVars
    <2> QED
      BY <1>1, <2>1, <2>2
  <1>10. ASSUME NEW h \in Handler, NEW c \in Client,
                NEW op \in {"Lock", "Unlock", "Write"}, Begin(h, c, op)
         PROVE  UNCHANGED Abstract!vars
    <2>1. Asking' = Asking
      BY <1>10, AskingKept DEF Begin
    <2> QED
      BY <1>1, <1>10, <2>1 DEF Begin, lockVars
  <1>11. ASSUME NEW c \in Client, Disconnect(c)
         PROVE  UNCHANGED Abstract!vars
    <2>1. Asking' = Asking
      BY <1>11, AskingKept DEF Disconnect
    <2> QED
      BY <1>1, <1>11, <2>1 DEF Disconnect, lockVars
  <1>12. CASE Fire \/ UNCHANGED vars
    BY <1>1, <1>12 DEF Fire, vars, Asking
  <1> QED
    BY <1>2, <1>3, <1>6, <1>7, <1>8, <1>9, <1>10, <1>11, <1>12
    DEF Next, HandlerStep, Finished

THEOREM Implementation == Spec => ImplementsLock
  BY InitImplements, StepImplements, Invariance, PTL
  DEF Spec, ImplementsLock, Abstract!Spec

-----------------------------------------------------------------------------
(* LogForward.                                                             *)

(* Of the types only what the argument needs.                              *)
Work == [pc : {"none", "load", "recv", "forward", "report"}, on : 0..MaxStreams, got : Nat]

LogTyped ==
  /\ bound \in Bounds
  /\ read \in Nat
  /\ owner \in [Stream -> Daemon \cup {None}]
  /\ stream \in [Stream -> {"none", "called", "open", "ended"}]
  /\ forward \in [Stream -> Seq(Nat \ {0})]
  /\ wire \in [Stream -> Seq(Nat)]
  /\ current \in [Daemon -> 0..MaxStreams]
  /\ worker \in [Stream -> Work]
  /\ up \subseteq Daemon
  /\ dead \subseteq Stream
  /\ errBus \in [Daemon -> Seq(Nat)] /\ \A d \in Daemon : Len(errBus[d]) <= 1
  /\ reconnect \in [Stream -> {"none", "client", "start"}]
  /\ channel \in [Daemon -> Seq(Nat)]
  /\ heard \in [Daemon -> Seq(Nat \ {0})]
  /\ listening \in [Daemon -> {"no", "yes", "closed"}]

(* A stream nobody has opened, or that is not registered, is empty.        *)
StreamsKept ==
  /\ \A s \in Stream :
       /\ owner[s] = None => stream[s] = "none" /\ worker[s].pc = "none"
       /\ owner[s] # None => stream[s] # "none"
       /\ stream[s] \in {"none", "called"} => forward[s] = <<>> /\ wire[s] = <<>>
       /\ stream[s] = "ended" => s \in dead
       /\ worker[s].pc # "none" => owner[s] # None
       /\ worker[s].pc = "recv" => worker[s].on \in Stream
  /\ \A d \in Daemon : /\ current[d] # 0 => owner[current[d]] = d
                       /\ current[d] = 0 => StreamsOf(d) = {}
                       /\ listening[d] = "no" => channel[d] = <<>> /\ heard[d] = <<>>

(* Only the last stream of a daemon works and is read, by its own worker.  *)
OneWorks ==
  \A s \in Stream :
    /\ owner[s] # None /\ s # current[owner[s]] => s \in dead /\ worker[s].pc = "none"
    /\ worker[s].pc = "recv" => worker[s].on = s
    /\ worker[s].pc = "report" => s \in dead

(* The reconnection of a stream: it has ended, and nothing else of it runs.*)
Ended(s, d) == owner[s] = d /\ current[d] = s /\ s \in dead /\ worker[s].pc = "none"
Reconnects ==
  /\ \A d \in Daemon : \A i \in 1..Len(errBus[d]) :
       errBus[d][i] # StopMsg => /\ errBus[d][i] \in Stream
                                 /\ Ended(errBus[d][i], d)
                                 /\ reconnect[errBus[d][i]] = "none"
  /\ \A s \in Stream : reconnect[s] = "client" => Ended(s, owner[s])
  /\ \A s \in Stream : worker[s].pc # "none" \/ owner[s] = None => reconnect[s] = "none"

(* The lines that are under way to d, from the last to the first place.    *)
Lines(q) == {q[i] : i \in DOMAIN q} \ {0}
Wire(d) == IF current[d] = 0 THEN <<>> ELSE wire[current[d]]
Spool(d) == IF current[d] = 0 THEN <<>> ELSE forward[current[d]]
Got(d) == IF current[d] # 0 /\ worker[current[d]].pc = "forward"
          THEN {worker[current[d]].got} \ {0} ELSE {}

Rising(q) ==
  \A i, j \in 1..Len(q) : i < j /\ q[i] # 0 /\ q[j] # 0 => q[i] < q[j]

Below(A, B) == \A x \in A : \A y \in B : x < y

Chain(H, C, G, W, F) ==
  /\ Below(H, C) /\ Below(H, G) /\ Below(H, W) /\ Below(H, F)
  /\ Below(C, G) /\ Below(C, W) /\ Below(C, F)
  /\ Below(G, W) /\ Below(G, F)
  /\ Below(W, F)

InFlight(d) == Lines(heard[d]) \cup Lines(channel[d]) \cup Got(d) \cup Lines(Wire(d))
               \cup Lines(Spool(d))

Ordered(d) ==
  /\ Rising(heard[d]) /\ Rising(channel[d]) /\ Rising(Wire(d)) /\ Rising(Spool(d))
  /\ Chain(Lines(heard[d]), Lines(channel[d]), Got(d), Lines(Wire(d)), Lines(Spool(d)))
  /\ \A x \in InFlight(d) : x <= read

Gapless(S) == \A x, y \in S : \A z \in x..y : z \in S

Unbroken(d) ==
  /\ \A i \in 1..Len(heard[d]) : heard[d][i] = heard[d][1] + i - 1
  /\ Gapless(Lines(heard[d]) \cup Lines(channel[d]))
  /\ (current[d] = 0 \/ stream[current[d]] = "called") => InFlight(d) = {}
  /\ (current[d] # 0 /\ listening[d] # "closed") => Gapless(InFlight(d) \cup {read + 1})

Sound(d) == flaws \cap {"reopened", "full"} = {} /\ StreamsOf(d) \cap dead = {}

LogIInv ==
  /\ LogTyped
  /\ StreamsKept
  /\ "failed" \notin flaws => Reconnects
  /\ "reopened" \in flaws => "failed" \in flaws
  /\ "reopened" \notin flaws => OneWorks /\ \A d \in Daemon : Ordered(d)
  /\ \A d \in Daemon : Sound(d) => Unbroken(d)

LEMMA LinesOfNone == Lines(<<>>) = {} /\ Rising(<<>>)
  BY DEF Lines, Rising

LEMMA LinesAreNumbers ==
  ASSUME NEW q \in Seq(Nat), NEW x \in Lines(q)
  PROVE  x \in Nat /\ \E i \in 1..Len(q) : q[i] = x /\ x # 0
  BY DEF Lines

LEMMA AtEnd ==
  ASSUME NEW q \in Seq(Nat), NEW m \in Nat
  PROVE  /\ Append(q, m) \in Seq(Nat)
         /\ Lines(Append(q, m)) = Lines(q) \cup ({m} \ {0})
         /\ Rising(q) /\ (m # 0 => \A x \in Lines(q) : x < m) => Rising(Append(q, m))
  <1> DEFINE r == Append(q, m)
             n == Len(q)
  <1>1. /\ n \in Nat /\ Len(r) = n + 1 /\ r \in Seq(Nat)
        /\ r[n + 1] = m /\ \A i \in 1..n : r[i] = q[i]
    OBVIOUS
  <1>2. DOMAIN r = (1..n) \cup {n + 1} /\ DOMAIN q = 1..n
    BY <1>1
  <1>3. Lines(r) = Lines(q) \cup ({m} \ {0})
    <2>1. ASSUME NEW x \in Lines(r) PROVE x \in Lines(q) \cup ({m} \ {0})
      <3>1. PICK i \in DOMAIN r : x = r[i] /\ x # 0
        BY DEF Lines
      <3>2. CASE i \in 1..n
        BY <1>1, <1>2, <3>1, <3>2 DEF Lines
      <3>3. CASE i = n + 1
        BY <1>1, <3>1, <3>3
      <3> QED
        BY <1>2, <3>1, <3>2, <3>3
    <2>2. ASSUME NEW x \in Lines(q) PROVE x \in Lines(r)
      <3>1. PICK i \in 1..n : x = q[i] /\ x # 0
        BY <1>2 DEF Lines
      <3> QED
        BY <1>1, <1>2, <3>1 DEF Lines
    <2>3. m # 0 => m \in Lines(r)
      BY <1>1, <1>2 DEF Lines
    <2> QED
      BY <2>1, <2>2, <2>3
  <1>4. ASSUME Rising(q), m # 0 => \A x \in Lines(q) : x < m
        PROVE  Rising(r)
    <2>1. SUFFICES ASSUME NEW i \in 1..Len(r), NEW j \in 1..Len(r), i < j, r[i] # 0, r[j] # 0
                   PROVE  r[i] < r[j]
      BY DEF Rising
    <2>2. i \in 1..n /\ r[i] = q[i] /\ r[i] \in Lines(q)
      BY <1>1, <1>2, <2>1 DEF Lines
    <2>3. CASE j \in 1..n
      BY <1>1, <1>4, <2>1, <2>2, <2>3 DEF Rising
    <2>4. CASE j = n + 1
      BY <1>1, <1>4, <2>1, <2>2, <2>4
    <2> QED
      BY <1>1, <2>1, <2>3, <2>4
  <1> QED
    BY <1>1, <1>3, <1>4

LEMMA AtFront ==
  ASSUME NEW q \in Seq(Nat), q # <<>>
  PROVE  /\ Tail(q) \in Seq(Nat) /\ Head(q) \in Nat
         /\ Lines(q) = Lines(Tail(q)) \cup ({Head(q)} \ {0})
         /\ Rising(q) => /\ Rising(Tail(q))
                         /\ Head(q) # 0 => \A x \in Lines(Tail(q)) : Head(q) < x
  <1> DEFINE r == Tail(q)
             n == Len(q)
  <1>1. /\ n \in Nat /\ n >= 1 /\ Len(r) = n - 1 /\ r \in Seq(Nat) /\ Head(q) = q[1]
        /\ \A i \in 1..n - 1 : r[i] = q[i + 1]
    OBVIOUS
  <1>2. DOMAIN r = 1..n - 1 /\ DOMAIN q = 1..n
    BY <1>1
  <1>3. ASSUME NEW x \in Lines(r)
        PROVE  \E i \in 2..n : x = q[i] /\ x # 0
    <2>1. PICK i \in 1..n - 1 : x = r[i] /\ x # 0
      BY <1>2 DEF Lines
    <2>2. i + 1 \in 2..n /\ x = q[i + 1]
      BY <1>1, <2>1
    <2> QED
      BY <2>1, <2>2
  <1>4. Lines(q) = Lines(r) \cup ({Head(q)} \ {0})
    <2>1. ASSUME NEW x \in Lines(q) PROVE x \in Lines(r) \cup ({Head(q)} \ {0})
      <3>1. PICK i \in 1..n : x = q[i] /\ x # 0
        BY <1>2 DEF Lines
      <3>2. CASE i = 1
        BY <1>1, <3>1, <3>2
      <3>3. CASE i # 1
        <4>1. i - 1 \in 1..n - 1 /\ r[i - 1] = x
          BY <1>1, <3>1, <3>3
        <4> QED
          BY <1>2, <3>1, <4>1 DEF Lines
      <3> QED
        BY <3>2, <3>3
    <2>2. Lines(r) \subseteq Lines(q)
      BY <1>1, <1>2, <1>3 DEF Lines
    <2>3. Head(q) # 0 => Head(q) \in Lines(q)
      BY <1>1, <1>2 DEF Lines
    <2> QED
      BY <2>1, <2>2, <2>3
  <1>5. ASSUME Rising(q) PROVE Rising(r)
    <2>1. SUFFICES ASSUME NEW i \in 1..Len(r), NEW j \in 1..Len(r), i < j, r[i] # 0, r[j] # 0
                   PROVE  r[i] < r[j]
      BY DEF Rising
    <2>2. i + 1 \in 1..n /\ j + 1 \in 1..n /\ i + 1 < j + 1
      BY <1>1, <2>1
    <2>3. r[i] = q[i + 1] /\ r[j] = q[j + 1]
      BY <1>1, <2>1
    <2> QED
      BY <1>5, <2>1, <2>2, <2>3 DEF Rising
  <1>6. ASSUME Rising(q), Head(q) # 0, NEW x \in Lines(r) PROVE Head(q) < x
    <2>1. PICK i \in 2..n : x = q[i] /\ x # 0
      BY <1>3
    <2> QED
      BY <1>1, <1>6, <2>1 DEF Rising
  <1> QED
    BY <1>1, <1>4, <1>5, <1>6

LEMMA Prefix ==
  ASSUME NEW q \in Seq(Nat), NEW n \in Nat, n <= Len(q)
  PROVE  /\ SubSeq(q, 1, n) \in Seq(Nat)
         /\ Lines(SubSeq(q, 1, n)) \subseteq Lines(q)
         /\ Rising(q) => Rising(SubSeq(q, 1, n))
  <1> DEFINE r == SubSeq(q, 1, n)
  <1>1. /\ Len(r) = n /\ r \in Seq(Nat) /\ Len(q) \in Nat
        /\ \A i \in 1..n : r[i] = q[i] /\ i \in 1..Len(q)
    OBVIOUS
  <1>2. DOMAIN r = 1..n /\ DOMAIN q = 1..Len(q)
    BY <1>1
  <1>3. Lines(r) \subseteq Lines(q)
    BY <1>1, <1>2 DEF Lines
  <1>4. ASSUME Rising(q) PROVE Rising(r)
    BY <1>1, <1>4 DEF Rising
  <1> QED
    BY <1>1, <1>3, <1>4

(* The lines of a chain of places: they may be lost, and move on.          *)
LEMMA ChainLoses ==
  ASSUME NEW H, NEW C, NEW G, NEW W, NEW F, Chain(H, C, G, W, F),
         NEW H1, NEW C1, NEW G1, NEW W1, NEW F1,
         H1 \subseteq H, C1 \subseteq C, G1 \subseteq G, W1 \subseteq W, F1 \subseteq F
  PROVE  Chain(H1, C1, G1, W1, F1)
  BY DEF Chain, Below

-----------------------------------------------------------------------------
LEMMA NoWorkerTyped ==
  NoWorker \in Work /\ NoWorker.pc = "none" /\ [NoWorker EXCEPT !.pc = "load"] \in Work
  BY BoundAssumption DEF NoWorker, Work

LEMMA LogStarts == LogInit => LogIInv
  <1> SUFFICES ASSUME LogInit PROVE LogIInv
    OBVIOUS
  <1>1. LogTyped
    <2>1. <<>> \in Seq(Nat) /\ <<>> \in Seq(Nat \ {0}) /\ Len(<<>>) = 0 /\ 0 \in 0..MaxStreams
      BY BoundAssumption
    <2>2. worker \in [Stream -> Work]
      BY NoWorkerTyped DEF LogInit
    <2>3. current \in [Daemon -> 0..MaxStreams]
      BY <2>1 DEF LogInit
    <2>4. errBus \in [Daemon -> Seq(Nat)] /\ \A d \in Daemon : Len(errBus[d]) <= 1
      <3>1. errBus = [d \in Daemon |-> <<>>]
        BY DEF LogInit
      <3> QED
        BY <2>1, <3>1
    <2>5. channel \in [Daemon -> Seq(Nat)] /\ heard \in [Daemon -> Seq(Nat \ {0})]
      BY <2>1 DEF LogInit
    <2>6. forward \in [Stream -> Seq(Nat \ {0})] /\ wire \in [Stream -> Seq(Nat)]
      BY <2>1 DEF LogInit
    <2> QED
      BY <2>2, <2>3, <2>4, <2>5, <2>6 DEF LogTyped, LogInit
  <1>2. StreamsKept
    BY NoneAssumption, NoWorkerTyped DEF StreamsKept, StreamsOf, LogInit
  <1>3. Reconnects
    <2>1. \A d \in Daemon : 1..Len(errBus[d]) = {}
      <3>1. errBus = [d \in Daemon |-> <<>>]
        BY DEF LogInit
      <3>2. Len(<<>>) = 0 /\ 1..0 = {}
        OBVIOUS
      <3> QED
        BY <3>1, <3>2
    <2>2. \A s \in Stream : reconnect[s] = "none"
      BY DEF LogInit
    <2> QED
      BY <2>1, <2>2 DEF Reconnects
  <1>4. OneWorks
    BY NoWorkerTyped DEF OneWorks, LogInit
  <1>5. ASSUME NEW d \in Daemon
        PROVE  /\ heard[d] = <<>> /\ channel[d] = <<>> /\ Wire(d) = <<>> /\ Spool(d) = <<>>
               /\ Got(d) = {} /\ InFlight(d) = {} /\ current[d] = 0
    BY LinesOfNone DEF Wire, Spool, Got, InFlight, LogInit
  <1>6. ASSUME NEW d \in Daemon PROVE Ordered(d)
    BY <1>5, LinesOfNone DEF Ordered, Chain, Below
  <1>7. ASSUME NEW d \in Daemon PROVE Unbroken(d)
    <2>1. Lines(heard[d]) = {} /\ Lines(channel[d]) = {}
      BY <1>5, LinesOfNone
    <2>2. heard[d] = <<>> /\ current[d] = 0 /\ InFlight(d) = {}
      BY <1>5
    <2>3. 1..Len(heard[d]) = {}
      BY <2>2
    <2> QED
      BY <2>1, <2>2, <2>3 DEF Unbroken, Gapless
  <1>8. flaws = {}
    BY DEF LogInit
  <1> QED
    BY <1>1, <1>2, <1>3, <1>4, <1>6, <1>7, <1>8 DEF LogIInv

(* A worker goes to l.                                                     *)
LEMMA WorkerGoes ==
  ASSUME LogTyped, NEW s \in Stream, NEW l \in {"none", "load", "recv", "forward", "report"}
  PROVE  [worker EXCEPT ![s].pc = l] \in [Stream -> Work]
  <1>1. worker[s] \in Work /\ worker \in [Stream -> Work]
    BY DEF LogTyped
  <1>2. [worker[s] EXCEPT !.pc = l] \in Work
    BY <1>1 DEF Work
  <1> QED
    BY <1>1, <1>2

LEMMA WorkerLoads ==
  ASSUME LogTyped, NEW s \in Stream, NEW o \in 0..MaxStreams
  PROVE  [worker EXCEPT ![s].pc = "recv", ![s].on = o] \in [Stream -> Work]
  <1>1. worker[s] \in Work /\ worker \in [Stream -> Work]
    BY DEF LogTyped
  <1>2. [worker[s] EXCEPT !.pc = "recv", !.on = o] \in Work
    BY <1>1 DEF Work
  <1> QED
    BY <1>1, <1>2

LEMMA WorkerGets ==
  ASSUME LogTyped, NEW s \in Stream, NEW g \in Nat
  PROVE  [worker EXCEPT ![s].pc = "forward", ![s].got = g] \in [Stream -> Work]
  <1>1. worker[s] \in Work /\ worker \in [Stream -> Work]
    BY DEF LogTyped
  <1>2. [worker[s] EXCEPT !.pc = "forward", !.got = g] \in Work
    BY <1>1 DEF Work
  <1> QED
    BY <1>1, <1>2

LEMMA WorkerResets ==
  ASSUME LogTyped, NEW s \in Stream
  PROVE  /\ [worker EXCEPT ![s] = NoWorker] \in [Stream -> Work]
         /\ [worker EXCEPT ![s] = [NoWorker EXCEPT !.pc = "load"]] \in [Stream -> Work]
  BY NoWorkerTyped DEF LogTyped

LEMMA ManagerTyped ==
  ASSUME LogTyped, UNCHANGED bound,
         \/ ReadLine \/ GameServerStop
         \/ \E s \in Stream : StreamStep(s)
  PROVE  LogTyped'
  <1>1. CASE ReadLine
    <2>1. read' \in Nat \ {0}
      BY <1>1 DEF ReadLine, LogTyped
    <2>2. forward' \in [Stream -> Seq(Nat \ {0})]
      <3>1. \A s \in Stream : /\ forward[s] \in Seq(Nat \ {0})
                              /\ Append(forward[s], read') \in Seq(Nat \ {0})
        BY <2>1 DEF LogTyped
      <3> QED
        BY <1>1, <3>1 DEF ReadLine
    <2> QED
      BY <1>1, <2>1, <2>2 DEF ReadLine, LogTyped, streams, errors, plugins, net
  <1>2. CASE GameServerStop
    BY <1>2 DEF GameServerStop, LogTyped, streams, errors, plugins, net
  <1>3. ASSUME NEW s \in Stream, Register(s) PROVE LogTyped'
    BY <1>3 DEF Register, LogTyped, streams, errors, plugins, net
  <1>4. ASSUME NEW s \in Stream, StreamSends(s) PROVE LogTyped'
    <2>1. /\ Head(forward[s]) \in Nat /\ Tail(forward[s]) \in Seq(Nat \ {0})
          /\ Append(wire[s], Head(forward[s])) \in Seq(Nat)
      BY <1>4 DEF StreamSends, LogTyped
    <2>2. wire' \in [Stream -> Seq(Nat)] /\ forward' \in [Stream -> Seq(Nat \ {0})]
      BY <1>4, <2>1 DEF StreamSends, SendTo, LogTyped
    <2> QED
      BY <1>4, <2>2 DEF StreamSends, LogTyped, streams, errors, plugins, net
  <1>5. ASSUME NEW s \in Stream, StreamTakesStop(s) PROVE LogTyped'
    <2>1. Append(wire[s], StopMsg) \in Seq(Nat)
      BY DEF LogTyped, StopMsg
    <2>2. wire' \in [Stream -> Seq(Nat)]
      BY <1>5, <2>1 DEF StreamTakesStop, SendTo, LogTyped
    <2> QED
      BY <1>5, <2>2 DEF StreamTakesStop, LogTyped, streams, errors, plugins, net
  <1>6. ASSUME NEW s \in Stream, StreamEnds(s) PROVE LogTyped'
    <2>1. forward' \in [Stream -> Seq(Nat \ {0})]
      BY <1>6 DEF StreamEnds, LogTyped
    <2> QED
      BY <1>6, <2>1 DEF StreamEnds, LogTyped, streams, errors, plugins, net
  <1> QED
    BY <1>1, <1>2, <1>3, <1>4, <1>5, <1>6 DEF StreamStep

(* What opening a stream does.                                             *)
LEMMA Opens ==
  ASSUME LogTyped, NEW d, OpenStream(d)
  PROVE  /\ d \in Daemon /\ UNCHANGED <<read, forward, wire, plugins, net>>
         /\ \E s \in Stream :
              /\ owner[s] = None
              /\ owner' = [owner EXCEPT ![s] = d]
              /\ stream' = [stream EXCEPT ![s] = "called"]
              /\ current' = [current EXCEPT ![d] = s]
              /\ worker' = [worker EXCEPT ![s].pc = "load"]
  <1>1. d \in Daemon /\ UNCHANGED <<read, forward, wire, plugins, net>>
    BY DEF OpenStream, LogTyped
  <1>2. 1..bound[2] \subseteq Stream
    <2>1. bound[2] \in 0..MaxStreams
      BY BoundAssumption DEF LogTyped
    <2> QED
      BY <2>1, BoundAssumption DEF Stream
  <1> QED
    BY <1>1, <1>2 DEF OpenStream

LEMMA OpenTyped ==
  ASSUME LogTyped, UNCHANGED bound, NEW d, OpenStream(d),
         reconnect' \in [Stream -> {"none", "client", "start"}], UNCHANGED errBus
  PROVE  LogTyped'
  <1>1. d \in Daemon /\ UNCHANGED <<read, forward, wire, plugins, net>>
    BY Opens
  <1>2. PICK s \in Stream : /\ owner' = [owner EXCEPT ![s] = d]
                            /\ stream' = [stream EXCEPT ![s] = "called"]
                            /\ current' = [current EXCEPT ![d] = s]
                            /\ worker' = [worker EXCEPT ![s].pc = "load"]
    BY Opens
  <1>3. worker' \in [Stream -> Work]
    BY <1>2, WorkerGoes
  <1>4. current' \in [Daemon -> 0..MaxStreams]
    <2>1. s \in 0..MaxStreams
      BY DEF Stream
    <2> QED
      BY <1>1, <1>2, <2>1 DEF LogTyped
  <1>5. owner' \in [Stream -> Daemon \cup {None}] /\ stream' \in [Stream -> {"none", "called",
          "open", "ended"}]
    BY <1>1, <1>2 DEF LogTyped
  <1> QED
    BY <1>1, <1>3, <1>4, <1>5 DEF LogTyped, plugins, net

LEMMA WorkerTyped ==
  ASSUME LogTyped, StreamsKept, UNCHANGED bound, NEW s \in Stream, WorkerStep(s)
  PROVE  LogTyped'
  <1>1. CASE Load(s)
    <2>1. current[owner[s]] \in 0..MaxStreams
      BY <1>1 DEF Load, LogTyped, StreamsKept
    <2>2. worker' \in [Stream -> Work]
      BY <1>1, <2>1, WorkerLoads DEF Load
    <2> QED
      BY <1>1, <2>2 DEF Load, LogTyped, server, streams, errors, plugins, net
  <1>2. CASE Recv(s)
    <2>1. CASE wire[worker[s].on] # <<>> /\ worker' = [worker EXCEPT ![s].pc = "forward",
                   ![s].got = Head(wire[worker[s].on])]
               /\ wire' = [wire EXCEPT ![worker[s].on] = Tail(@)]
      <3>1. worker[s].on \in Stream
        BY <1>2 DEF Recv, StreamsKept
      <3> QED
        <4>1. Head(wire[worker[s].on]) \in Nat /\ Tail(wire[worker[s].on]) \in Seq(Nat)
          BY <2>1, <3>1, AtFront DEF LogTyped
        <4>2. worker' \in [Stream -> Work] /\ wire' \in [Stream -> Seq(Nat)]
          BY <2>1, <3>1, <4>1, WorkerGets DEF LogTyped
        <4> QED
          BY <1>2, <4>2 DEF Recv, LogTyped, server, streams, errors, plugins, net
    <2>2. CASE worker' = [worker EXCEPT ![s].pc = "report"] /\ UNCHANGED wire
      <3>1. worker' \in [Stream -> Work]
        BY <2>2, WorkerGoes
      <3> QED
        BY <1>2, <2>2, <3>1 DEF Recv, LogTyped, server, streams, errors, plugins, net
    <2> QED
      BY <1>2, <2>1, <2>2 DEF Recv
  <1>3. CASE Forward(s)
    <2>1. worker' \in [Stream -> Work]
      BY <1>3, WorkerResets DEF Forward
    <2>2. worker[s].got \in Nat
      BY DEF LogTyped, Work
    <2>3. channel' \in [Daemon -> Seq(Nat)]
      <3>1. CASE UNCHANGED channel
        BY <3>1 DEF LogTyped
      <3>2. CASE channel' = [channel EXCEPT ![owner[s]] = Offer(@, worker[s].got)]
        <4>1. owner[s] \in Daemon /\ channel[owner[s]] \in Seq(Nat)
          BY <1>3 DEF Forward, LogTyped, StreamsKept
        <4>2. Offer(channel[owner[s]], worker[s].got) \in Seq(Nat)
          BY <2>2, <4>1 DEF Offer
        <4> QED
          BY <3>2, <4>1, <4>2 DEF LogTyped
      <3> QED
        BY <1>3, <3>1, <3>2 DEF Forward
    <2> QED
      BY <1>3, <2>1, <2>3 DEF Forward, LogTyped, server, streams, errors, net
  <1>4. CASE Report(s)
    <2>1. worker' \in [Stream -> Work]
      BY <1>4, WorkerResets DEF Report
    <2>2. errBus' \in [Daemon -> Seq(Nat)] /\ \A d \in Daemon : Len(errBus'[d]) <= 1
      <3>1. CASE UNCHANGED errBus
        BY <3>1 DEF LogTyped
      <3>2. CASE Room(errBus[owner[s]], 1) /\ errBus' = [errBus EXCEPT ![owner[s]] = Append(@, s)]
        <4>1. s \in Nat
          BY DEF Stream
        <4>2. owner[s] \in Daemon
          BY <1>4 DEF Report, LogTyped, StreamsKept
        <4>3. /\ Append(errBus[owner[s]], s) \in Seq(Nat)
              /\ Len(Append(errBus[owner[s]], s)) <= 1
          BY <3>2, <4>1, <4>2 DEF LogTyped, Room
        <4> QED
          BY <3>2, <4>2, <4>3 DEF LogTyped
      <3> QED
        BY <1>4, <3>1, <3>2 DEF Report
    <2> QED
      BY <1>4, <2>1, <2>2 DEF Report, LogTyped, server, streams, plugins, net
  <1> QED
    BY <1>1, <1>2, <1>3, <1>4 DEF WorkerStep

LEMMA DaemonTyped ==
  ASSUME LogTyped, UNCHANGED bound, NEW d \in Daemon,
         \/ DaemonStep(d) \/ Break(d) \/ Restore(d)
         \/ RegisterLogProcesser(d) \/ Process(d) \/ Unregister(d)
  PROVE  LogTyped'
  <1>1. CASE Dial(d)
    BY <1>1, OpenTyped DEF Dial, errors, LogTyped
  <1>2. CASE InitErrorHandler(d)
    BY <1>2 DEF InitErrorHandler, LogTyped, server, streams, plugins, net
  <1>3. CASE Monitor(d)
    <2>1. errBus' \in [Daemon -> Seq(Nat)] /\ \A e \in Daemon : Len(errBus'[e]) <= 1
      <3>1. CASE UNCHANGED errBus
        BY <3>1 DEF LogTyped
      <3>2. CASE Room(errBus[d], 1) /\ errBus' = [errBus EXCEPT ![d] = Append(@, StopMsg)]
        <4>1. /\ Append(errBus[d], StopMsg) \in Seq(Nat)
              /\ Len(Append(errBus[d], StopMsg)) <= 1
          BY <3>2 DEF LogTyped, Room, StopMsg
        <4> QED
          BY <3>2, <4>1 DEF LogTyped
      <3> QED
        BY <1>3, <3>1, <3>2 DEF Monitor
    <2> QED
      BY <1>3, <2>1 DEF Monitor, LogTyped, server, streams, net
  <1>4. CASE HandleError(d)
    <2>1. Tail(errBus[d]) \in Seq(Nat) /\ Len(Tail(errBus[d])) <= 1
      BY <1>4 DEF HandleError, LogTyped
    <2>2. errBus' \in [Daemon -> Seq(Nat)] /\ \A e \in Daemon : Len(errBus'[e]) <= 1
      BY <1>4, <2>1 DEF HandleError, LogTyped
    <2>3. reconnect' \in [Stream -> {"none", "client", "start"}]
      BY <1>4 DEF HandleError, LogTyped
    <2> QED
      BY <1>4, <2>2, <2>3 DEF HandleError, LogTyped, server, streams, plugins, net
  <1>5. CASE Break(d)
    <2>1. PICK n \in 0..WireCap :
            wire' = [s \in Stream |-> IF s \in StreamsOf(d) /\ Len(wire[s]) > n
                                      THEN SubSeq(wire[s], 1, n) ELSE wire[s]]
      BY <1>5 DEF Break
    <2>2. n \in Nat
      BY <2>1, CapAssumption
    <2>3. \A s \in Stream : wire[s] \in Seq(Nat) /\ Len(wire[s]) \in Nat
      BY DEF LogTyped
    <2>4. \A s \in Stream : Len(wire[s]) > n => SubSeq(wire[s], 1, n) \in Seq(Nat)
      BY <2>2, <2>3, Prefix
    <2>5. wire' \in [Stream -> Seq(Nat)]
      BY <2>1, <2>3, <2>4
    <2>6. up' \subseteq Daemon /\ dead' \subseteq Stream
      BY <1>5 DEF Break, LogTyped, StreamsOf
    <2> QED
      BY <1>5, <2>5, <2>6 DEF Break, LogTyped, server, streams, errors, plugins
  <1>6. CASE Restore(d)
    BY <1>6 DEF Restore, LogTyped, server, streams, errors, plugins
  <1>7. CASE RegisterLogProcesser(d)
    BY <1>7 DEF RegisterLogProcesser, LogTyped, server, streams, errors, net
  <1>8. CASE Unregister(d)
    BY <1>8 DEF Unregister, LogTyped, server, streams, errors, net
  <1>9. CASE Process(d)
    <2>1. channel[d] \in Seq(Nat) /\ channel[d] # <<>>
      BY <1>9 DEF Process, LogTyped
    <2>2. Tail(channel[d]) \in Seq(Nat) /\ Head(channel[d]) \in Nat
      BY <2>1, AtFront
    <2>3. channel' \in [Daemon -> Seq(Nat)]
      BY <1>9, <2>2 DEF Process, LogTyped
    <2>4. heard' \in [Daemon -> Seq(Nat \ {0})]
      <3>1. CASE UNCHANGED heard
        BY <3>1 DEF LogTyped
      <3>2. CASE Head(channel[d]) # StopMsg /\ heard' = [heard EXCEPT ![d] = Append(@, Head(channel[d]))]
        <4>1. Append(heard[d], Head(channel[d])) \in Seq(Nat \ {0})
          BY <2>2, <3>2 DEF LogTyped, StopMsg
        <4> QED
          BY <3>2, <4>1 DEF LogTyped
      <3> QED
        BY <1>9, <3>1, <3>2 DEF Process
    <2> QED
      BY <1>9, <2>3, <2>4 DEF Process, LogTyped, server, streams, errors, net
  <1> QED
    BY <1>1, <1>2, <1>3, <1>4, <1>5, <1>6, <1>7, <1>8, <1>9 DEF DaemonStep

LEMMA ReconnectTyped ==
  ASSUME LogTyped, UNCHANGED bound, NEW s \in Stream, ReconnectStep(s)
  PROVE  LogTyped'
  <1>1. reconnect' \in [Stream -> {"none", "client", "start"}]
    BY DEF ReconnectStep, InitClient, StartMinecraft, LogTyped
  <1>2. CASE InitClient(s)
    BY <1>1, <1>2, OpenTyped DEF InitClient
  <1>3. CASE StartMinecraft(s)
    BY <1>1, <1>3 DEF StartMinecraft, LogTyped, server, streams, plugins, net
  <1> QED
    BY <1>2, <1>3 DEF ReconnectStep

LEMMA LogNextTyped ==
  ASSUME LogTyped, StreamsKept, [LogNext]_logVars
  PROVE  LogTyped'
  <1>1. CASE UNCHANGED logVars
    BY <1>1 DEF logVars, LogTyped
  <1>2. CASE Step /\ UNCHANGED bound
    BY <1>2, ManagerTyped, WorkerTyped, DaemonTyped, ReconnectTyped DEF Step
  <1> QED
    BY <1>1, <1>2 DEF LogNext

-----------------------------------------------------------------------------
(* Streams that nobody has opened stay as they were.                       *)
LEMMA SendsOnlyOpen ==
  ASSUME LogTyped, StreamsKept, NEW s \in Stream, CanSend(s), NEW m, SendTo(s, m)
  PROVE  \A t \in Stream : stream[t] \in {"none", "called"} => wire'[t] = wire[t]
  BY DEF CanSend, SendTo, LogTyped

LEMMA ManagerKept ==
  ASSUME LogTyped, StreamsKept, ReadLine \/ \E s \in Stream : StreamStep(s)
  PROVE  StreamsKept'
  <1>1. CASE ReadLine
    BY <1>1 DEF ReadLine, StreamsKept, Registered, StreamsOf, streams, errors, plugins, net
  <1>2. ASSUME NEW s \in Stream, Register(s) PROVE StreamsKept'
    BY <1>2, NoneAssumption DEF Register, StreamsKept, StreamsOf, LogTyped, streams, errors,
       plugins, net
  <1>3. ASSUME NEW s \in Stream, StreamSends(s) PROVE StreamsKept'
    <2>1. \A t \in Stream : stream[t] \in {"none", "called"} =>
            wire'[t] = wire[t] /\ forward'[t] = forward[t]
      BY <1>3, SendsOnlyOpen DEF StreamSends, CanSend, LogTyped
    <2> QED
      BY <1>3, <2>1 DEF StreamSends, StreamsKept, StreamsOf, streams, errors, plugins, net
  <1>4. ASSUME NEW s \in Stream, StreamTakesStop(s) PROVE StreamsKept'
    <2>1. \A t \in Stream : stream[t] \in {"none", "called"} => wire'[t] = wire[t]
      BY <1>4, SendsOnlyOpen DEF StreamTakesStop
    <2> QED
      BY <1>4, <2>1 DEF StreamTakesStop, StreamsKept, StreamsOf, streams, errors, plugins, net
  <1>5. ASSUME NEW s \in Stream, StreamEnds(s) PROVE StreamsKept'
    BY <1>5, NoneAssumption DEF StreamEnds, StreamsKept, StreamsOf, LogTyped, streams, errors,
       plugins, net
  <1> QED
    BY <1>1, <1>2, <1>3, <1>4, <1>5 DEF StreamStep

LEMMA OpenKept ==
  ASSUME LogTyped, StreamsKept, NEW d, OpenStream(d)
  PROVE  StreamsKept'
  <1>1. d \in Daemon /\ UNCHANGED <<read, forward, wire, plugins, net>>
    BY Opens
  <1>2. PICK s \in Stream : /\ owner[s] = None
                            /\ owner' = [owner EXCEPT ![s] = d]
                            /\ stream' = [stream EXCEPT ![s] = "called"]
                            /\ current' = [current EXCEPT ![d] = s]
                            /\ worker' = [worker EXCEPT ![s].pc = "load"]
    BY Opens
  <1>3. /\ owner'[s] = d /\ stream'[s] = "called" /\ current'[d] = s /\ d # None
        /\ worker'[s].pc = "load"
        /\ \A t \in Stream : t # s => /\ owner'[t] = owner[t] /\ stream'[t] = stream[t]
                                      /\ worker'[t] = worker[t]
        /\ \A e \in Daemon : e # d => current'[e] = current[e]
    BY <1>1, <1>2, NoneAssumption DEF LogTyped, Work
  <1>4. \A t \in Stream :
       /\ owner'[t] = None => stream'[t] = "none" /\ worker'[t].pc = "none"
       /\ owner'[t] # None => stream'[t] # "none"
       /\ stream'[t] \in {"none", "called"} => forward'[t] = <<>> /\ wire'[t] = <<>>
       /\ stream'[t] = "ended" => t \in dead'
       /\ worker'[t].pc # "none" => owner'[t] # None
       /\ worker'[t].pc = "recv" => worker'[t].on \in Stream
    BY <1>1, <1>2, <1>3 DEF StreamsKept, net
  <1>5. ASSUME NEW e \in Daemon
        PROVE  /\ current'[e] # 0 => owner'[current'[e]] = e
               /\ current'[e] = 0 => StreamsOf(e)' = {}
               /\ listening'[e] = "no" => channel'[e] = <<>> /\ heard'[e] = <<>>
    <2>1. listening'[e] = "no" => channel'[e] = <<>> /\ heard'[e] = <<>>
      BY <1>1 DEF StreamsKept, plugins
    <2>2. CASE e = d
      <3>1. s # 0
        BY DEF Stream
      <3> QED
        BY <1>3, <2>1, <2>2, <3>1
    <2>3. CASE e # d
      <3>1. current[e] # 0 => current[e] \in Stream /\ owner[current[e]] = e
        BY DEF LogTyped, Stream, StreamsKept
      <3>2. current[e] # s
        BY <1>2, <3>1, NoneAssumption DEF Stream
      <3>3. StreamsOf(e)' = StreamsOf(e)
        BY <1>2, <1>3, <2>3, NoneAssumption DEF StreamsOf
      <3>4. current[e] = 0 => StreamsOf(e) = {}
        BY DEF StreamsKept
      <3> QED
        BY <1>3, <2>1, <2>3, <3>1, <3>2, <3>3, <3>4
    <2> QED
      BY <2>2, <2>3
  <1> QED
    BY <1>4, <1>5 DEF StreamsKept

(* A worker of an opened stream, and a daemon that listens.                *)
LEMMA WorkerKept ==
  ASSUME LogTyped, StreamsKept, NEW s \in Stream, WorkerStep(s)
  PROVE  StreamsKept'
  <1>1. UNCHANGED <<stream, forward, owner, current, reconnect, dead, heard, listening>>
    BY DEF WorkerStep, Load, Recv, Forward, Report, server, streams, errors, plugins, net
  <1>2. /\ owner[s] # None
        /\ \A t \in Stream : t # s => worker'[t] = worker[t]
    BY DEF WorkerStep, Load, Recv, Forward, Report, StreamsKept, LogTyped
  <1>3. worker'[s].pc = "recv" => worker'[s].on \in Stream
    <2>1. CASE Load(s)
      <3>1. owner[s] \in Daemon /\ StreamsOf(owner[s]) # {}
        BY <1>2 DEF LogTyped, StreamsOf
      <3>2. current[owner[s]] \in Stream
        BY <3>1 DEF StreamsKept, LogTyped, Stream
      <3> QED
        BY <2>1, <3>2 DEF Load, LogTyped, Work
    <2>2. CASE ~Load(s)
      <3>1. worker'[s].pc # "recv"
        BY <2>2 DEF WorkerStep, Recv, Forward, Report, NoWorker, LogTyped, Work
      <3> QED
        BY <3>1
    <2> QED
      BY <2>1, <2>2
  <1>4. \A t \in Stream : wire[t] = <<>> => wire'[t] = <<>>
    <2>1. CASE UNCHANGED wire
      BY <2>1
    <2>2. CASE wire[worker[s].on] # <<>> /\ wire' = [wire EXCEPT ![worker[s].on] = Tail(@)]
      BY <2>2 DEF LogTyped
    <2> QED
      BY <2>1, <2>2 DEF WorkerStep, Load, Recv, Forward, Report
  <1>5. \A d \in Daemon : listening[d] = "no" => channel'[d] = channel[d]
    <2>1. CASE Forward(s)
      BY <2>1 DEF Forward, LogTyped
    <2>2. CASE ~Forward(s)
      BY <2>2 DEF WorkerStep, Load, Recv, Report, plugins
    <2> QED
      BY <2>1, <2>2
  <1> QED
    BY <1>1, <1>2, <1>3, <1>4, <1>5 DEF StreamsKept, StreamsOf

LEMMA DaemonKept ==
  ASSUME LogTyped, StreamsKept, NEW d \in Daemon,
         \/ DaemonStep(d) \/ Break(d) \/ Restore(d)
         \/ RegisterLogProcesser(d) \/ Process(d) \/ Unregister(d)
  PROVE  StreamsKept'
  <1>1. CASE Dial(d)
    BY <1>1, OpenKept DEF Dial
  <1>2. CASE InitErrorHandler(d) \/ Monitor(d) \/ HandleError(d) \/ Restore(d)
    BY <1>2 DEF InitErrorHandler, Monitor, HandleError, Restore, StreamsKept, StreamsOf,
       server, streams, plugins, net
  <1>3. CASE Break(d)
    <2>1. PICK n \in 0..WireCap :
            wire' = [s \in Stream |-> IF s \in StreamsOf(d) /\ Len(wire[s]) > n
                                      THEN SubSeq(wire[s], 1, n) ELSE wire[s]]
      BY <1>3 DEF Break
    <2>2. \A t \in Stream : wire[t] = <<>> => wire'[t] = <<>>
      <3>1. n \in Nat /\ Len(<<>>) = 0
        BY <2>1, CapAssumption
      <3> QED
        BY <2>1, <3>1
    <2> QED
      BY <1>3, <2>2 DEF Break, StreamsKept, StreamsOf, server, streams, errors, plugins
  <1>4. CASE RegisterLogProcesser(d) \/ Unregister(d)
    BY <1>4 DEF RegisterLogProcesser, Unregister, StreamsKept, StreamsOf, LogTyped, server,
       streams, errors, net
  <1>5. CASE Process(d)
    <2>1. listening[d] # "no"
      BY <1>5 DEF Process, StreamsKept
    <2> QED
      BY <1>5, <2>1 DEF Process, StreamsKept, StreamsOf, LogTyped, server, streams, errors, net
  <1> QED
    BY <1>1, <1>2, <1>3, <1>4, <1>5 DEF DaemonStep

LEMMA LogNextKept ==
  ASSUME LogTyped, StreamsKept, [LogNext]_logVars
  PROVE  StreamsKept'
  <1>1. CASE UNCHANGED logVars
    BY <1>1 DEF logVars, StreamsKept, StreamsOf
  <1>2. CASE GameServerStop
    <2>1. UNCHANGED <<owner, stream, worker, forward, wire, dead, current, listening, channel,
                      heard>>
      BY <1>2 DEF GameServerStop, streams, plugins, net
    <2> QED
      BY <2>1 DEF StreamsKept, StreamsOf
  <1>3. ASSUME NEW s \in Stream, ReconnectStep(s) PROVE StreamsKept'
    <2>1. CASE InitClient(s)
      BY <2>1, OpenKept DEF InitClient
    <2>2. CASE StartMinecraft(s)
      BY <2>2 DEF StartMinecraft, StreamsKept, StreamsOf, server, streams, plugins, net
    <2> QED
      BY <1>3, <2>1, <2>2 DEF ReconnectStep
  <1>4. CASE Step
    BY <1>2, <1>3, <1>4, ManagerKept, WorkerKept, DaemonKept DEF Step
  <1> QED
    BY <1>1, <1>4 DEF LogNext

-----------------------------------------------------------------------------
LEMMA FlawsGrow == ASSUME Step PROVE flaws \subseteq flaws'
  <1>1. CASE ReadLine \/ GameServerStop
    BY <1>1 DEF ReadLine, GameServerStop
  <1>2. ASSUME NEW s \in Stream, StreamStep(s) \/ WorkerStep(s) \/ ReconnectStep(s)
        PROVE  flaws \subseteq flaws'
    BY <1>2 DEF StreamStep, Register, StreamSends, StreamTakesStop, StreamEnds, WorkerStep, Load,
       Recv, Forward, Report, ReconnectStep, InitClient, OpenStream, StartMinecraft
  <1>3. ASSUME NEW d \in Daemon, \/ DaemonStep(d) \/ Break(d) \/ Restore(d)
                                 \/ RegisterLogProcesser(d) \/ Process(d) \/ Unregister(d)
        PROVE  flaws \subseteq flaws'
    BY <1>3 DEF DaemonStep, Dial, OpenStream, InitErrorHandler, Monitor, HandleError, Break,
       Restore, RegisterLogProcesser, Process, Unregister
  <1> QED
    BY <1>1, <1>2, <1>3 DEF Step

(* What the reconnections and the workers of the streams rest on.          *)
Others == <<owner, current, worker, dead, errBus, reconnect>>

(* A new stream is opened when all others of d have ended, or it is flawed.*)
LEMMA OpenEnded ==
  ASSUME LogTyped, StreamsKept, NEW d, OpenStream(d), "reopened" \notin flaws', OneWorks,
         current[d] = 0 \/ "failed" \in flaws
           \/ (current[d] \in Stream /\ Ended(current[d], d))
  PROVE  \A t \in StreamsOf(d) : t \in dead /\ worker[t].pc = "none"
  <1>1. d \in Daemon
    BY Opens
  <1>2. CASE current[d] = 0
    BY <1>1, <1>2 DEF StreamsKept
  <1>3. CASE "failed" \in flaws
    BY <1>3 DEF OpenStream
  <1>4. CASE current[d] \in Stream /\ Ended(current[d], d)
    BY <1>1, <1>4, NoneAssumption DEF Ended, OneWorks, StreamsOf
  <1> QED
    BY <1>2, <1>3, <1>4

LEMMA OpenOneWorks ==
  ASSUME LogTyped, StreamsKept, NEW d, OpenStream(d), OneWorks,
         \A t \in StreamsOf(d) : t \in dead /\ worker[t].pc = "none"
  PROVE  OneWorks'
  <1>1. d \in Daemon /\ UNCHANGED dead
    BY Opens DEF net
  <1>2. PICK s \in Stream : /\ owner[s] = None
                            /\ owner' = [owner EXCEPT ![s] = d]
                            /\ current' = [current EXCEPT ![d] = s]
                            /\ worker' = [worker EXCEPT ![s].pc = "load"]
    BY Opens
  <1>3. /\ owner'[s] = d /\ current'[d] = s
        /\ worker'[s].pc = "load"
        /\ \A t \in Stream : t # s => owner'[t] = owner[t] /\ worker'[t] = worker[t]
        /\ \A e \in Daemon : e # d => current'[e] = current[e]
    BY <1>1, <1>2 DEF LogTyped, Work
  <1>4. ASSUME NEW t \in Stream
        PROVE  /\ owner'[t] # None /\ t # current'[owner'[t]] => t \in dead /\ worker'[t].pc = "none"
               /\ worker'[t].pc = "recv" => worker'[t].on = t
               /\ worker'[t].pc = "report" => t \in dead
    <2>1. CASE t = s
      BY <1>3, <2>1
    <2>2. CASE t # s /\ owner[t] = d
      BY <1>3, <2>2 DEF StreamsOf
    <2>3. CASE t # s /\ owner[t] # d
      BY <1>3, <2>3 DEF OneWorks, LogTyped
    <2> QED
      BY <2>1, <2>2, <2>3
  <1> QED
    BY <1>1, <1>4 DEF OneWorks

LEMMA WorkerOneWorks ==
  ASSUME LogTyped, StreamsKept, OneWorks, NEW s \in Stream, WorkerStep(s)
  PROVE  OneWorks'
  <1>1. UNCHANGED <<owner, current, dead>>
    BY DEF WorkerStep, Load, Recv, Forward, Report, streams, net
  <1>2. /\ owner[s] \in Daemon /\ s = current[owner[s]]
        /\ \A t \in Stream : t # s => worker'[t] = worker[t]
    BY DEF WorkerStep, Load, Recv, Forward, Report, StreamsKept, LogTyped, OneWorks
  <1>3. worker'[s].pc = "recv" => worker'[s].on = s
    BY <1>2 DEF WorkerStep, Load, Recv, Forward, Report, NoWorker, LogTyped, Work
  <1>4. worker'[s].pc = "report" => s \in dead
    <2>1. CASE Recv(s)
      BY <2>1 DEF Recv, OneWorks, LogTyped, Work
    <2>2. CASE ~Recv(s)
      <3>1. worker'[s].pc # "report"
        BY <2>2 DEF WorkerStep, Load, Forward, Report, NoWorker, LogTyped, Work
      <3> QED
        BY <3>1
    <2> QED
      BY <2>1, <2>2
  <1> QED
    BY <1>1, <1>2, <1>3, <1>4 DEF OneWorks

(* The other steps leave what these two rest on.                           *)
LEMMA RestSame ==
  ASSUME Step
  PROVE  \/ UNCHANGED Others
         \/ \E d \in Daemon : Dial(d) \/ Monitor(d) \/ HandleError(d) \/ Break(d)
         \/ \E s \in Stream : WorkerStep(s) \/ ReconnectStep(s)
  BY DEF Step, ReadLine, GameServerStop, StreamStep, Register, StreamSends, StreamTakesStop,
     StreamEnds, DaemonStep, InitErrorHandler, Restore, RegisterLogProcesser, Process, Unregister,
     Others, server, streams, errors, net

LEMMA NextOneWorks ==
  ASSUME LogTyped, StreamsKept, OneWorks, Step, "reopened" \notin flaws',
         "failed" \notin flaws => Reconnects
  PROVE  OneWorks'
  <1>1. CASE UNCHANGED Others
    BY <1>1 DEF Others, OneWorks
  <1>2. ASSUME NEW d \in Daemon, Dial(d) PROVE OneWorks'
    BY <1>2, OpenEnded, OpenOneWorks DEF Dial
  <1>3. ASSUME NEW d \in Daemon, Monitor(d) \/ HandleError(d) \/ Break(d) PROVE OneWorks'
    BY <1>3 DEF Monitor, HandleError, Break, OneWorks, streams, net
  <1>4. ASSUME NEW s \in Stream, WorkerStep(s) PROVE OneWorks'
    BY <1>4, WorkerOneWorks
  <1>5. ASSUME NEW s \in Stream, ReconnectStep(s) PROVE OneWorks'
    <2>1. CASE StartMinecraft(s)
      BY <2>1 DEF StartMinecraft, OneWorks, streams, net
    <2>2. CASE InitClient(s)
      <3>1. "failed" \in flaws \/ (current[owner[s]] \in Stream /\ Ended(current[owner[s]], owner[s]))
        BY <2>2 DEF InitClient, Reconnects, Ended
      <3> QED
        BY <2>2, <3>1, OpenEnded, OpenOneWorks DEF InitClient
    <2> QED
      BY <1>5, <2>1, <2>2 DEF ReconnectStep
  <1> QED
    BY <1>1, <1>2, <1>3, <1>4, <1>5, RestSame

(* Nobody is reconnecting a stream of d, and errBus has no stream: then a  *)
(* new one of d disturbs nothing.                                          *)
LEMMA OpenReconnects ==
  ASSUME LogTyped, StreamsKept, Reconnects, NEW d, OpenStream(d), UNCHANGED errBus,
         \A t \in Stream : reconnect'[t] = reconnect[t] \/ reconnect'[t] = "start",
         \A t \in Stream : owner[t] = d => reconnect'[t] # "client",
         \A t \in Stream : owner[t] = None => reconnect'[t] = reconnect[t],
         \A t \in Stream : worker[t].pc # "none" => reconnect'[t] = reconnect[t],
         \A i \in 1..Len(errBus[d]) : errBus[d][i] = StopMsg,
         \A e \in Daemon : \A i \in 1..Len(errBus[e]) : errBus[e][i] # StopMsg =>
            reconnect'[errBus[e][i]] = reconnect[errBus[e][i]]
  PROVE  Reconnects'
  <1>1. d \in Daemon /\ UNCHANGED dead
    BY Opens DEF net
  <1>2. PICK s \in Stream : /\ owner[s] = None
                            /\ owner' = [owner EXCEPT ![s] = d]
                            /\ current' = [current EXCEPT ![d] = s]
                            /\ worker' = [worker EXCEPT ![s].pc = "load"]
    BY Opens
  <1>3. /\ owner'[s] = d
        /\ \A t \in Stream : t # s => owner'[t] = owner[t] /\ worker'[t] = worker[t]
        /\ \A e \in Daemon : e # d => current'[e] = current[e]
    BY <1>1, <1>2 DEF LogTyped
  <1>4. ASSUME NEW t \in Stream, NEW e \in Daemon, Ended(t, e), e # d
        PROVE  Ended(t, e)'
    BY <1>1, <1>2, <1>3, <1>4, NoneAssumption DEF Ended
  <1>5. ASSUME NEW e \in Daemon, NEW i \in 1..Len(errBus[e]), errBus[e][i] # StopMsg
        PROVE  \E t \in Stream : errBus[e][i] = t /\ Ended(t, e)' /\ reconnect'[t] = "none"
    <2>1. e # d
      BY <1>5
    <2>2. PICK t \in Stream : t = errBus[e][i] /\ Ended(t, e) /\ reconnect[t] = "none"
      BY <1>5 DEF Reconnects
    <2> QED
      BY <1>4, <1>5, <2>1, <2>2
  <1>6. ASSUME NEW t \in Stream, reconnect'[t] = "client" PROVE Ended(t, owner[t])'
    <2>1. reconnect[t] = "client" /\ owner[t] # d
      BY <1>6
    <2>2. Ended(t, owner[t]) /\ t # s /\ owner[t] \in Daemon
      BY <1>2, <2>1 DEF Reconnects, LogTyped
    <2>3. owner'[t] = owner[t]
      BY <1>3, <2>2
    <2> QED
      BY <1>2, <1>3, <2>1, <2>2, <2>3, <1>1 DEF Ended
  <1>7. \A t \in Stream : worker'[t].pc # "none" \/ owner'[t] = None => reconnect'[t] = "none"
    BY <1>2, <1>3, <1>1, NoneAssumption DEF Reconnects
  <1>8. ASSUME NEW e \in Daemon, NEW i \in 1..Len(errBus'[e]), errBus'[e][i] # StopMsg
        PROVE  (/\ errBus[e][i] \in Stream
                /\ Ended(errBus[e][i], e)
                /\ reconnect[errBus[e][i]] = "none")'
    <2>1. PICK t \in Stream : errBus[e][i] = t /\ Ended(t, e)' /\ reconnect'[t] = "none"
      BY <1>5, <1>8
    <2> QED
      BY <2>1 DEF Ended
  <1> QED
    BY <1>6, <1>7, <1>8 DEF Reconnects

LEMMA OnlyOne ==
  ASSUME NEW q \in Seq(Nat), q # <<>>, Len(q) <= 1
  PROVE  Len(q) = 1 /\ Head(q) = q[1] /\ Len(Tail(q)) = 0
  <1>1. Len(q) \in Nat /\ Len(q) # 0
    OBVIOUS
  <1>2. Len(q) = 1
    <2>1. \A n \in Nat : n # 0 /\ n <= 1 => n = 1
      OBVIOUS
    <2> QED
      BY <1>1, <2>1, Zenon
  <1> QED
    BY <1>2

LEMMA HandleReconnects ==
  ASSUME LogTyped, Reconnects, NEW d \in Daemon, HandleError(d)
  PROVE  Reconnects'
  <1>1. /\ errBus[d] \in Seq(Nat) /\ errBus[d] # <<>> /\ Len(errBus[d]) = 1
        /\ Head(errBus[d]) = errBus[d][1] /\ Len(Tail(errBus[d])) = 0
    BY OnlyOne DEF HandleError, LogTyped
  <1>2. /\ UNCHANGED <<owner, current, worker, dead>>
        /\ Len(errBus'[d]) = 0
        /\ \A e \in Daemon : e # d => errBus'[e] = errBus[e]
    BY <1>1 DEF HandleError, LogTyped, streams, net
  <1>3. \A e \in Daemon, t \in Stream : Ended(t, e) => Ended(t, e)'
    BY <1>2 DEF Ended
  (* The stream whose failure is handled, if it is one.                    *)
  <1>4. \E x \in Nat : /\ x # StopMsg => /\ x \in Stream /\ Ended(x, d)
                                         /\ reconnect' = [reconnect EXCEPT ![x] = "client"]
                       /\ x = StopMsg => UNCHANGED reconnect
    <2>1. errBus[d][1] \in Nat /\ 1 \in 1..Len(errBus[d])
      BY <1>1
    <2> QED
      BY <1>1, <2>1 DEF HandleError, Reconnects
  <1>5. PICK x \in Nat : /\ x # StopMsg => /\ x \in Stream /\ Ended(x, d)
                                           /\ reconnect' = [reconnect EXCEPT ![x] = "client"]
                         /\ x = StopMsg => UNCHANGED reconnect
    BY <1>4
  <1>6. \A t \in Stream : t # x => reconnect'[t] = reconnect[t]
    BY <1>5 DEF LogTyped
  <1>7. ASSUME NEW e \in Daemon, NEW i \in 1..Len(errBus'[e]), errBus'[e][i] # StopMsg
        PROVE  (/\ errBus[e][i] \in Stream
                /\ Ended(errBus[e][i], e)
                /\ reconnect[errBus[e][i]] = "none")'
    <2>1. e # d
      BY <1>2, <1>7
    <2>2. PICK t \in Stream : t = errBus[e][i] /\ Ended(t, e) /\ reconnect[t] = "none"
      BY <1>2, <1>7, <2>1 DEF Reconnects
    <2>3. reconnect'[t] = "none"
      BY <1>5, <1>6, <2>1, <2>2 DEF Ended
    <2>4. errBus'[e][i] = t
      BY <1>2, <2>1, <2>2
    <2> QED
      BY <1>2, <2>2, <2>3, <2>4 DEF Ended
  <1>8. ASSUME NEW t \in Stream, reconnect'[t] = "client" PROVE Ended(t, owner[t])'
    <2>1. Ended(t, owner[t])
      BY <1>5, <1>6, <1>8 DEF Reconnects, Ended
    <2> QED
      BY <1>2, <2>1 DEF Ended
  <1>9. ASSUME NEW t \in Stream, worker'[t].pc # "none" \/ owner'[t] = None
        PROVE  reconnect'[t] = "none"
    <2>1. worker[t].pc # "none" \/ owner[t] = None
      BY <1>2, <1>9
    <2>2. ~(x # StopMsg /\ t = x)
      BY <1>5, <2>1, NoneAssumption DEF Ended
    <2> QED
      BY <1>5, <1>6, <2>1, <2>2 DEF Reconnects
  <1> QED
    BY <1>7, <1>8, <1>9 DEF Reconnects

(* A worker goes on, or reports its stream, which has ended.               *)
LEMMA WorkerReconnects ==
  ASSUME LogTyped, StreamsKept, OneWorks, Reconnects, NEW s \in Stream, WorkerStep(s)
  PROVE  Reconnects'
  <1> DEFINE d == owner[s]
  <1>1. /\ UNCHANGED <<owner, current, dead, reconnect>>
        /\ worker[s].pc # "none" /\ d \in Daemon /\ s = current[d]
        /\ \A t \in Stream : t # s => worker'[t] = worker[t]
    BY DEF WorkerStep, Load, Recv, Forward, Report, streams, net, errors, StreamsKept, OneWorks,
       LogTyped
  <1>2. reconnect[s] = "none"
    BY <1>1 DEF Reconnects
  <1>3. \A e, t : t \in Stream /\ Ended(t, e) => Ended(t, e)'
    BY <1>1 DEF Ended
  <1>4. ASSUME NEW e \in Daemon, NEW i \in 1..Len(errBus'[e]), errBus'[e][i] # StopMsg
        PROVE  (/\ errBus[e][i] \in Stream
                /\ Ended(errBus[e][i], e)
                /\ reconnect[errBus[e][i]] = "none")'
    <2>1. CASE errBus'[e] = errBus[e]
      <3>1. PICK t \in Stream : t = errBus[e][i] /\ Ended(t, e) /\ reconnect[t] = "none"
        BY <1>4, <2>1 DEF Reconnects
      <3>2. errBus'[e][i] = t
        BY <2>1, <3>1
      <3> QED
        BY <1>1, <1>3, <3>1, <3>2 DEF Ended
    <2>2. CASE errBus'[e] # errBus[e]
      <3>1. Report(s) /\ e = d /\ Room(errBus[d], 1) /\ errBus'[d] = Append(errBus[d], s)
        BY <1>1, <2>2 DEF WorkerStep, Load, Recv, Forward, Report, errors, LogTyped
      <3>2. errBus[d] \in Seq(Nat) /\ Len(errBus[d]) < 1 /\ s \in Nat
        BY <1>1, <3>1 DEF Room, LogTyped, Stream
      <3>3. Len(errBus'[e]) = 1 /\ errBus'[e][1] = s
        BY <3>1, <3>2
      <3>4. errBus'[e][i] = s
        BY <1>4, <3>3
      <3>5. s \in dead /\ worker'[s].pc = "none"
        BY <3>1 DEF Report, OneWorks, NoWorker, LogTyped
      <3> QED
        BY <1>1, <1>2, <3>1, <3>4, <3>5 DEF Ended
    <2> QED
      BY <2>1, <2>2
  <1>5. ASSUME NEW t \in Stream, reconnect'[t] = "client" PROVE Ended(t, owner[t])'
    <2>1. Ended(t, owner[t])
      BY <1>1, <1>5 DEF Reconnects
    <2> QED
      BY <1>1, <1>3, <2>1 DEF Ended
  <1>6. \A t \in Stream : worker'[t].pc # "none" \/ owner'[t] = None => reconnect'[t] = "none"
    BY <1>1, <1>2 DEF Reconnects
  <1> QED
    BY <1>4, <1>5, <1>6 DEF Reconnects

LEMMA MonitorReconnects ==
  ASSUME LogTyped, Reconnects, NEW d \in Daemon, Monitor(d)
  PROVE  Reconnects'
  <1>1. UNCHANGED <<owner, current, worker, dead, reconnect>>
    BY DEF Monitor, streams, net
  <1>2. ASSUME NEW e \in Daemon, NEW i \in 1..Len(errBus'[e]), errBus'[e][i] # StopMsg
        PROVE  errBus'[e] = errBus[e]
    <2>1. CASE UNCHANGED errBus
      BY <2>1
    <2>2. CASE Room(errBus[d], 1) /\ errBus' = [errBus EXCEPT ![d] = Append(@, StopMsg)]
      <3>1. errBus[d] \in Seq(Nat) /\ Len(errBus[d]) < 1
        BY <2>2 DEF Room, LogTyped
      <3>2. Len(Append(errBus[d], StopMsg)) = 1 /\ Append(errBus[d], StopMsg)[1] = StopMsg
        BY <3>1
      <3>3. e # d
        BY <1>2, <2>2, <3>2 DEF LogTyped
      <3> QED
        BY <2>2, <3>3 DEF LogTyped
    <2> QED
      BY <2>1, <2>2 DEF Monitor
  <1>3. ASSUME NEW e \in Daemon, NEW i \in 1..Len(errBus'[e]), errBus'[e][i] # StopMsg
        PROVE  (/\ errBus[e][i] \in Stream
                /\ Ended(errBus[e][i], e)
                /\ reconnect[errBus[e][i]] = "none")'
    BY <1>1, <1>2, <1>3 DEF Reconnects, Ended
  <1> QED
    BY <1>1, <1>3 DEF Reconnects, Ended

LEMMA BreakReconnects ==
  ASSUME LogTyped, Reconnects, UNCHANGED <<owner, current, worker, errBus, reconnect>>,
         dead \subseteq dead'
  PROVE  Reconnects'
  <1>1. \A e, t : Ended(t, e) => Ended(t, e)'
    BY DEF Ended
  <1>2. ASSUME NEW e \in Daemon, NEW i \in 1..Len(errBus'[e]), errBus'[e][i] # StopMsg
        PROVE  (/\ errBus[e][i] \in Stream
                /\ Ended(errBus[e][i], e)
                /\ reconnect[errBus[e][i]] = "none")'
    BY <1>2 DEF Reconnects, Ended
  <1>3. \A t \in Stream : reconnect'[t] = "client" => Ended(t, owner[t])'
    BY DEF Reconnects, Ended
  <1> QED
    BY <1>2, <1>3 DEF Reconnects

LEMMA NextReconnects ==
  ASSUME LogTyped, StreamsKept, OneWorks, Reconnects, Step, "failed" \notin flaws'
  PROVE  Reconnects'
  <1>1. CASE UNCHANGED Others
    BY <1>1, BreakReconnects DEF Others
  <1>2. ASSUME NEW d \in Daemon, Dial(d) PROVE Reconnects'
    <2>1. OpenStream(d) /\ UNCHANGED <<errBus, reconnect>> /\ current[d] = 0
      BY <1>2 DEF Dial, errors
    <2>2. \A t \in Stream : ~Ended(t, d)
      BY <2>1 DEF Ended, Stream
    <2>3. \A i \in 1..Len(errBus[d]) : errBus[d][i] = StopMsg
      BY <2>2 DEF Reconnects
    <2>4. \A t \in Stream : owner[t] = d => reconnect'[t] # "client"
      BY <2>1, <2>2 DEF Reconnects
    <2> QED
      BY <2>1, <2>3, <2>4, OpenReconnects
  <1>3. ASSUME NEW d \in Daemon, Monitor(d) \/ HandleError(d) \/ Break(d) PROVE Reconnects'
    BY <1>3, MonitorReconnects, HandleReconnects, BreakReconnects
       DEF Break, server, streams, errors
  <1>4. ASSUME NEW s \in Stream, WorkerStep(s) PROVE Reconnects'
    BY <1>4, WorkerReconnects
  <1>5. ASSUME NEW s \in Stream, ReconnectStep(s) PROVE Reconnects'
    <2>1. CASE StartMinecraft(s)
      <3>1. /\ reconnect[s] = "start" /\ reconnect' = [reconnect EXCEPT ![s] = "none"]
            /\ UNCHANGED <<owner, current, worker, dead, errBus>>
        BY <2>1 DEF StartMinecraft, streams, net
      <3>2. \A t \in Stream : reconnect[t] = "none" \/ t = s => reconnect'[t] = "none"
        BY <3>1 DEF LogTyped
      <3>3. \A t \in Stream : reconnect'[t] = "client" => reconnect[t] = "client"
        BY <3>1 DEF LogTyped
      <3>4. \A e, t : Ended(t, e) => Ended(t, e)'
        BY <3>1 DEF Ended
      <3>5. ASSUME NEW e \in Daemon, NEW i \in 1..Len(errBus'[e]), errBus'[e][i] # StopMsg
            PROVE  (/\ errBus[e][i] \in Stream
                    /\ Ended(errBus[e][i], e)
                    /\ reconnect[errBus[e][i]] = "none")'
        BY <3>1, <3>2, <3>5 DEF Reconnects, Ended
      <3>6. \A t \in Stream : reconnect'[t] = "client" => Ended(t, owner[t])'
        BY <3>1, <3>3 DEF Reconnects, Ended
      <3> QED
        BY <3>1, <3>2, <3>5, <3>6 DEF Reconnects
    <2>2. CASE InitClient(s)
      <3>1. PICK d : d = owner[s]
        OBVIOUS
      <3>2. /\ OpenStream(d) /\ UNCHANGED errBus
            /\ reconnect[s] = "client" /\ reconnect' = [reconnect EXCEPT ![s] = "start"]
        BY <2>2, <3>1 DEF InitClient
      <3>3. d \in Daemon /\ Ended(s, d)
        BY <3>1, <3>2, Opens DEF Reconnects
      <3>4. \A t \in Stream : Ended(t, d) => t = s
        BY <3>3 DEF Ended
      <3>5. \A i \in 1..Len(errBus[d]) : errBus[d][i] = StopMsg
        BY <3>2, <3>3, <3>4 DEF Reconnects
      <3>6. \A t \in Stream : reconnect'[t] = IF t = s THEN "start" ELSE reconnect[t]
        BY <3>2 DEF LogTyped
      <3>7. \A t \in Stream : owner[t] = d => reconnect'[t] # "client"
        BY <3>4, <3>6 DEF Reconnects
      <3>8. \A t \in Stream : owner[t] = None \/ worker[t].pc # "none" =>
              reconnect'[t] = reconnect[t]
        BY <3>2, <3>6 DEF Reconnects
      <3>9. \A e \in Daemon : \A i \in 1..Len(errBus[e]) : errBus[e][i] # StopMsg =>
              reconnect'[errBus[e][i]] = reconnect[errBus[e][i]]
        BY <3>2, <3>6 DEF Reconnects
      <3> QED
        BY <3>2, <3>5, <3>6, <3>7, <3>8, <3>9, OpenReconnects
    <2> QED
      BY <1>5, <2>1, <2>2 DEF ReconnectStep
  <1> QED
    BY <1>1, <1>2, <1>3, <1>4, <1>5, RestSame

(* A stream is opened beside another only after StartMinecraft has failed. *)
LEMMA ReopenedFailed ==
  ASSUME Step, "reopened" \in flaws => "failed" \in flaws
  PROVE  "reopened" \in flaws' => "failed" \in flaws'
  <1>1. ReadLine \/ GameServerStop => ("reopened" \in flaws' => "reopened" \in flaws)
    <2>1. ReadLine \/ GameServerStop => flaws' = flaws \/ flaws' = flaws \cup {"full"}
      BY DEF ReadLine, GameServerStop
    <2> QED
      BY <2>1
  <1>2. ASSUME NEW s \in Stream, StreamStep(s) \/ WorkerStep(s)
        PROVE  "reopened" \in flaws' => "reopened" \in flaws
    BY <1>2 DEF StreamStep, Register, StreamSends, StreamTakesStop, StreamEnds, WorkerStep, Load,
       Recv, Forward, Report
  <1>3. ASSUME NEW s \in Stream, ReconnectStep(s)
        PROVE  "reopened" \in flaws' => "reopened" \in flaws \/ "failed" \in flaws
    BY <1>3 DEF ReconnectStep, InitClient, OpenStream, StartMinecraft
  <1>4. ASSUME NEW d \in Daemon, \/ DaemonStep(d) \/ Break(d) \/ Restore(d)
                                 \/ RegisterLogProcesser(d) \/ Process(d) \/ Unregister(d)
        PROVE  "reopened" \in flaws' => "reopened" \in flaws \/ "failed" \in flaws
    BY <1>4 DEF DaemonStep, Dial, OpenStream, InitErrorHandler, Monitor, HandleError, Break,
       Restore, RegisterLogProcesser, Process, Unregister
  <1> QED
    BY <1>1, <1>2, <1>3, <1>4, FlawsGrow DEF Step

-----------------------------------------------------------------------------
(* The places of the lines of d.                                           *)
LEMMA PlacesTyped ==
  ASSUME LogTyped, NEW d \in Daemon
  PROVE  /\ Wire(d) \in Seq(Nat) /\ Spool(d) \in Seq(Nat) /\ Got(d) \subseteq Nat
         /\ heard[d] \in Seq(Nat) /\ channel[d] \in Seq(Nat) /\ read \in Nat
         /\ InFlight(d) \subseteq Nat
  <1>1. heard[d] \in Seq(Nat) /\ channel[d] \in Seq(Nat) /\ read \in Nat
    <2>1. heard[d] \in Seq(Nat \ {0}) /\ Seq(Nat \ {0}) \subseteq Seq(Nat)
      BY DEF LogTyped
    <2> QED
      BY <2>1 DEF LogTyped
  <1>2. current[d] # 0 => current[d] \in Stream
    BY DEF LogTyped, Stream
  <1>3. Wire(d) \in Seq(Nat)
    BY <1>2 DEF Wire, LogTyped
  <1>4. Spool(d) \in Seq(Nat)
    <2>1. current[d] # 0 => forward[current[d]] \in Seq(Nat \ {0})
      BY <1>2 DEF LogTyped
    <2>2. Seq(Nat \ {0}) \subseteq Seq(Nat) /\ <<>> \in Seq(Nat)
      OBVIOUS
    <2> QED
      BY <2>1, <2>2 DEF Spool
  <1>5. Got(d) \subseteq Nat
    BY <1>2 DEF Got, LogTyped, Work
  <1>6. \A q \in Seq(Nat) : Lines(q) \subseteq Nat
    BY LinesAreNumbers
  <1> QED
    BY <1>1, <1>3, <1>4, <1>5, <1>6 DEF InFlight

LEMMA OrderedSame ==
  ASSUME NEW d \in Daemon, Ordered(d),
         heard'[d] = heard[d], channel'[d] = channel[d], Wire(d)' = Wire(d),
         Spool(d)' = Spool(d), Got(d)' = Got(d), read' = read
  PROVE  Ordered(d)'
  BY DEF Ordered, InFlight

(* A step of which no place of d takes part.                               *)
LEMMA PlacesSame ==
  ASSUME NEW d \in Daemon, current'[d] = current[d],
         current[d] # 0 => /\ wire'[current[d]] = wire[current[d]]
                           /\ forward'[current[d]] = forward[current[d]]
                           /\ worker'[current[d]] = worker[current[d]]
  PROVE  Wire(d)' = Wire(d) /\ Spool(d)' = Spool(d) /\ Got(d)' = Got(d)
  BY DEF Wire, Spool, Got

(* Lines get lost.                                                         *)
LEMMA OrderedLoses ==
  ASSUME LogTyped, NEW d \in Daemon, Ordered(d), read' = read, Rising(heard[d])',
         Rising(channel[d])', Rising(Wire(d))', Rising(Spool(d))',
         Lines(heard[d])' \subseteq Lines(heard[d]),
         Lines(channel[d])' \subseteq Lines(channel[d]),
         Got(d)' \subseteq Got(d),
         Lines(Wire(d))' \subseteq Lines(Wire(d)),
         Lines(Spool(d))' \subseteq Lines(Spool(d))
  PROVE  Ordered(d)' /\ InFlight(d)' \subseteq InFlight(d)
  <1>1. Chain(Lines(heard[d]), Lines(channel[d]), Got(d), Lines(Wire(d)), Lines(Spool(d)))'
    BY DEF Ordered, Chain, Below
  <1>2. InFlight(d)' \subseteq InFlight(d)
    BY DEF InFlight
  <1> QED
    BY <1>1, <1>2 DEF Ordered

LEMMA ReadOrdered ==
  ASSUME LogTyped, ReadLine, NEW d \in Daemon, Ordered(d)
  PROVE  Ordered(d)'
  <1>1. /\ heard'[d] = heard[d] /\ channel'[d] = channel[d] /\ read' = read + 1
        /\ Wire(d)' = Wire(d) /\ Got(d)' = Got(d) /\ UNCHANGED current
    BY DEF ReadLine, plugins, streams, Wire, Got
  <1>2. Spool(d)' = Spool(d) \/ Spool(d)' = Append(Spool(d), read + 1)
    <2>1. current[d] # 0 => current[d] \in Stream
      BY DEF LogTyped, Stream
    <2> QED
      BY <1>1, <2>1 DEF ReadLine, Spool
  <1>3. /\ Spool(d) \in Seq(Nat) /\ read \in Nat /\ InFlight(d) \subseteq Nat
        /\ \A x \in InFlight(d) : x <= read
    BY PlacesTyped DEF Ordered
  <1>4. PICK N : N = Lines(Spool(d)) \cup {read + 1}
    OBVIOUS
  <1>5. Rising(Spool(d))' /\ Lines(Spool(d))' \subseteq N
    <2>1. CASE Spool(d)' = Spool(d)
      BY <1>4, <2>1 DEF Ordered
    <2>2. CASE Spool(d)' = Append(Spool(d), read + 1)
      <3>1. \A x \in Lines(Spool(d)) : x < read + 1
        BY <1>3 DEF InFlight
      <3>2. read + 1 \in Nat
        BY <1>3
      <3>3. /\ Rising(Append(Spool(d), read + 1))
            /\ Lines(Append(Spool(d), read + 1)) \subseteq N
        BY <1>3, <1>4, <3>1, <3>2, AtEnd DEF Ordered
      <3>4. PICK q : q = Append(Spool(d), read + 1)
        OBVIOUS
      <3>5. Rising(q) /\ Lines(q) \subseteq N /\ Spool(d)' = q
        BY <2>2, <3>3, <3>4
      <3> QED
        BY <3>5 DEF Rising, Lines
    <2> QED
      BY <1>2, <2>1, <2>2
  <1>6. Chain(Lines(heard[d]), Lines(channel[d]), Got(d), Lines(Wire(d)), N)
    <2>1. \A x \in Lines(heard[d]) \cup Lines(channel[d]) \cup Got(d) \cup Lines(Wire(d)) :
            x < read + 1
      BY <1>3 DEF InFlight
    <2> QED
      BY <1>4, <2>1 DEF Ordered, Chain, Below
  <1>7. Chain(Lines(heard[d]), Lines(channel[d]), Got(d), Lines(Wire(d)), Lines(Spool(d)))'
    BY <1>1, <1>5, <1>6 DEF Chain, Below
  <1>8. \A x \in InFlight(d)' : x <= read'
    <2>1. InFlight(d)' \subseteq InFlight(d) \cup {read + 1}
      BY <1>1, <1>4, <1>5 DEF InFlight
    <2> QED
      BY <1>1, <1>3, <2>1
  <1> QED
    BY <1>1, <1>5, <1>7, <1>8 DEF Ordered

(* A stream of d that is not its last plays no part.                       *)
LEMMA OtherStream ==
  ASSUME LogTyped, StreamsKept, NEW s \in Stream, NEW d \in Daemon, s # current[d],
         UNCHANGED <<current, worker>>, \A t \in Stream : t # s => wire'[t] = wire[t],
         \A t \in Stream : t # s => forward'[t] = forward[t]
  PROVE  Wire(d)' = Wire(d) /\ Spool(d)' = Spool(d) /\ Got(d)' = Got(d)
  <1>1. current[d] # 0 => current[d] \in Stream /\ current[d] # s
    BY DEF LogTyped, Stream
  <1>2. current[d] # 0 => /\ wire'[current[d]] = wire[current[d]]
                          /\ forward'[current[d]] = forward[current[d]]
                          /\ worker'[current[d]] = worker[current[d]]
    BY <1>1
  <1>3. current'[d] = current[d]
    OBVIOUS
  <1> QED
    BY <1>2, <1>3, PlacesSame

LEMMA SendsOrdered ==
  ASSUME LogTyped, StreamsKept, NEW s \in Stream, StreamSends(s), NEW d \in Daemon, Ordered(d)
  PROVE  /\ Ordered(d)'
         /\ s # current[d] \/ s \notin dead => InFlight(d)' = InFlight(d)
  <1>1. /\ heard'[d] = heard[d] /\ channel'[d] = channel[d] /\ read' = read
        /\ UNCHANGED <<current, worker>>
    BY DEF StreamSends, plugins, streams
  <1>2. \A t \in Stream : t # s => wire'[t] = wire[t] /\ forward'[t] = forward[t]
    BY DEF StreamSends, SendTo, LogTyped
  <1>3. CASE s # current[d]
    <2>1. Wire(d)' = Wire(d) /\ Spool(d)' = Spool(d) /\ Got(d)' = Got(d)
      BY <1>1, <1>2, <1>3, OtherStream
    <2>2. InFlight(d)' = InFlight(d)
      BY <1>1, <2>1 DEF InFlight
    <2> QED
      BY <1>1, <2>1, <2>2, OrderedSame
  <1>4. CASE s = current[d]
    <2>1. /\ s # 0 /\ Wire(d) = wire[s] /\ Spool(d) = forward[s]
          /\ Wire(d)' = wire'[s] /\ Spool(d)' = forward'[s] /\ Got(d)' = Got(d)
      BY <1>1, <1>4 DEF Wire, Spool, Got, Stream
    <2>2. PICK w \in Seq(Nat), f \in Seq(Nat) : w = wire[s] /\ f = forward[s] /\ f # <<>>
      BY <2>1, PlacesTyped DEF StreamSends
    <2>3. /\ forward'[s] = Tail(f) /\ (wire'[s] = w \/ wire'[s] = Append(w, Head(f)))
      BY <2>2 DEF StreamSends, SendTo, LogTyped
    <2>4. Rising(w) /\ Rising(f) /\ Below(Lines(w), Lines(f))
      BY <2>1, <2>2 DEF Ordered, Chain
    <2>5. /\ Tail(f) \in Seq(Nat) /\ Head(f) \in Nat
          /\ Lines(f) = Lines(Tail(f)) \cup ({Head(f)} \ {0})
          /\ Rising(Tail(f))
          /\ Head(f) # 0 => \A x \in Lines(Tail(f)) : Head(f) < x
      BY <2>2, <2>4, AtFront
    <2>6. /\ Rising(Append(w, Head(f)))
          /\ Lines(Append(w, Head(f))) = Lines(w) \cup ({Head(f)} \ {0})
      <3>1. Head(f) # 0 => \A x \in Lines(w) : x < Head(f)
        BY <2>4, <2>5 DEF Below
      <3> QED
        BY <2>2, <2>4, <2>5, <3>1, AtEnd
    <2>7. Rising(Wire(d))' /\ Rising(Spool(d))'
      <3>1. Rising(wire'[s]) /\ Rising(forward'[s])
        BY <2>3, <2>4, <2>5, <2>6
      <3> QED
        BY <2>1, <3>1 DEF Rising
    <2>8. /\ Lines(Wire(d))' \subseteq Lines(w) \cup ({Head(f)} \ {0})
          /\ Lines(Spool(d))' = Lines(Tail(f))
      <3>1. Lines(wire'[s]) \subseteq Lines(w) \cup ({Head(f)} \ {0})
        BY <2>3, <2>6
      <3>2. Lines(forward'[s]) = Lines(Tail(f))
        BY <2>3
      <3> QED
        BY <2>1, <3>1, <3>2 DEF Lines
    <2>9. Chain(Lines(heard[d]), Lines(channel[d]), Got(d), Lines(w), Lines(f))
      BY <2>1, <2>2 DEF Ordered
    <2>10. Chain(Lines(heard[d]), Lines(channel[d]), Got(d), Lines(w) \cup ({Head(f)} \ {0}),
                 Lines(Tail(f)))
      BY <2>5, <2>9 DEF Chain, Below
    <2>11. Chain(Lines(heard[d]), Lines(channel[d]), Got(d), Lines(Wire(d)), Lines(Spool(d)))'
      BY <1>1, <2>1, <2>8, <2>10 DEF Chain, Below
    <2>12. InFlight(d)' \subseteq InFlight(d)
      BY <1>1, <2>1, <2>2, <2>5, <2>8 DEF InFlight
    <2>13. s \notin dead => InFlight(d)' = InFlight(d)
      <3>1. s \notin dead => wire'[s] = Append(w, Head(f))
        BY <2>2 DEF StreamSends, SendTo, LogTyped
      <3>2. s \notin dead => Lines(Wire(d))' = Lines(w) \cup ({Head(f)} \ {0})
        BY <2>1, <2>6, <3>1 DEF Lines
      <3> QED
        BY <1>1, <2>1, <2>2, <2>5, <2>8, <3>2 DEF InFlight
    <2> QED
      BY <1>1, <1>4, <2>7, <2>11, <2>12, <2>13 DEF Ordered
  <1> QED
    BY <1>3, <1>4

LEMMA StopOrdered ==
  ASSUME LogTyped, StreamsKept, NEW s \in Stream, StreamTakesStop(s), NEW d \in Daemon, Ordered(d)
  PROVE  Ordered(d)' /\ InFlight(d)' = InFlight(d)
  <1>1. /\ heard'[d] = heard[d] /\ channel'[d] = channel[d] /\ read' = read
        /\ UNCHANGED <<current, worker, forward>>
    BY DEF StreamTakesStop, plugins, streams
  <1>2. \A t \in Stream : t # s => wire'[t] = wire[t] /\ forward'[t] = forward[t]
    BY DEF StreamTakesStop, SendTo, LogTyped
  <1>3. CASE s # current[d]
    <2>1. Wire(d)' = Wire(d) /\ Spool(d)' = Spool(d) /\ Got(d)' = Got(d)
      BY <1>1, <1>2, <1>3, OtherStream
    <2>2. InFlight(d)' = InFlight(d)
      BY <1>1, <2>1 DEF InFlight
    <2> QED
      BY <1>1, <2>1, <2>2, OrderedSame
  <1>4. CASE s = current[d]
    <2>1. /\ Wire(d) = wire[s] /\ Wire(d)' = wire'[s]
          /\ Spool(d)' = Spool(d) /\ Got(d)' = Got(d)
      BY <1>1, <1>4 DEF Wire, Spool, Got, Stream
    <2>2. PICK w \in Seq(Nat) : w = wire[s]
      BY <2>1, PlacesTyped
    <2>3. wire'[s] = w \/ wire'[s] = Append(w, 0)
      BY <2>2 DEF StreamTakesStop, SendTo, LogTyped, StopMsg
    <2>4. Rising(w)
      BY <2>1, <2>2 DEF Ordered
    <2>5. Rising(Append(w, 0)) /\ Lines(Append(w, 0)) = Lines(w)
      <3>1. PICK m \in Nat : m = 0
        OBVIOUS
      <3>2. Rising(Append(w, m)) /\ Lines(Append(w, m)) = Lines(w) \cup ({m} \ {0})
        BY <2>2, <2>4, <3>1, AtEnd
      <3> QED
        BY <3>1, <3>2
    <2>6. Rising(wire'[s]) /\ Lines(wire'[s]) = Lines(w)
      BY <2>3, <2>4, <2>5
    <2>7. Rising(Wire(d))' /\ Lines(Wire(d))' = Lines(Wire(d))
      <3>1. Rising(Wire(d))'
        BY <2>1, <2>6 DEF Rising
      <3>2. Lines(Wire(d))' = Lines(Wire(d))
        BY <2>1, <2>2, <2>6 DEF Lines
      <3> QED
        BY <3>1, <3>2
    <2>8. Rising(heard[d])' /\ Rising(channel[d])' /\ Rising(Spool(d))'
      BY <1>1, <2>1 DEF Ordered
    <2>9. /\ Lines(heard[d])' = Lines(heard[d]) /\ Lines(channel[d])' = Lines(channel[d])
          /\ Lines(Spool(d))' = Lines(Spool(d))
      BY <1>1, <2>1
    <2>10. InFlight(d)' = InFlight(d)
      BY <2>1, <2>7, <2>9 DEF InFlight
    <2> QED
      BY <1>1, <2>1, <2>7, <2>8, <2>9, <2>10, OrderedLoses
  <1> QED
    BY <1>3, <1>4

(* The end of a stream, and a broken connection: what is under way is lost.*)
LEMMA EndsOrdered ==
  ASSUME LogTyped, NEW s \in Stream, StreamEnds(s), NEW d \in Daemon, Ordered(d)
  PROVE  Ordered(d)'
  <1>1. /\ heard'[d] = heard[d] /\ channel'[d] = channel[d] /\ read' = read
        /\ Wire(d)' = Wire(d) /\ Got(d)' = Got(d) /\ UNCHANGED current
    BY DEF StreamEnds, plugins, streams, Wire, Got
  <1>2. Spool(d)' = Spool(d) \/ Spool(d)' = <<>>
    <2>1. current[d] # 0 => current[d] \in Stream
      BY DEF LogTyped, Stream
    <2> QED
      BY <1>1, <2>1 DEF StreamEnds, Spool, LogTyped
  <1>3. Rising(Spool(d))' /\ Lines(Spool(d))' \subseteq Lines(Spool(d))
    <2>1. CASE Spool(d)' = Spool(d)
      BY <2>1 DEF Ordered
    <2>2. CASE Spool(d)' = <<>>
      BY <2>2, LinesOfNone DEF Rising, Lines
    <2> QED
      BY <1>2, <2>1, <2>2
  <1>4. Rising(heard[d])' /\ Rising(channel[d])' /\ Rising(Wire(d))'
    BY <1>1 DEF Ordered
  <1>5. /\ Lines(heard[d])' = Lines(heard[d]) /\ Lines(channel[d])' = Lines(channel[d])
        /\ Lines(Wire(d))' = Lines(Wire(d))
    BY <1>1
  <1> QED
    BY <1>1, <1>3, <1>4, <1>5, OrderedLoses

LEMMA BreakOrdered ==
  ASSUME LogTyped, NEW e \in Daemon, Break(e), NEW d \in Daemon, Ordered(d)
  PROVE  Ordered(d)'
  <1>1. /\ heard'[d] = heard[d] /\ channel'[d] = channel[d] /\ read' = read
        /\ Spool(d)' = Spool(d) /\ Got(d)' = Got(d) /\ UNCHANGED current
    BY DEF Break, plugins, streams, server, Spool, Got
  <1>2. PICK n \in 0..WireCap :
          wire' = [t \in Stream |-> IF t \in StreamsOf(e) /\ Len(wire[t]) > n
                                    THEN SubSeq(wire[t], 1, n) ELSE wire[t]]
    BY DEF Break
  <1>3. n \in Nat /\ Wire(d) \in Seq(Nat) /\ Rising(Wire(d))
    BY <1>2, CapAssumption, PlacesTyped DEF Ordered
  <1>4. Wire(d)' = Wire(d) \/ (Wire(d)' = SubSeq(Wire(d), 1, n) /\ n <= Len(Wire(d)))
    <2>1. current[d] # 0 => current[d] \in Stream
      BY DEF LogTyped, Stream
    <2>2. CASE current[d] = 0
      BY <1>1, <2>2 DEF Wire
    <2>3. CASE current[d] # 0
      <3>1. Wire(d) = wire[current[d]] /\ Wire(d)' = wire'[current[d]]
        BY <1>1, <2>3 DEF Wire
      <3>2. Len(wire[current[d]]) \in Nat
        BY <1>3, <3>1
      <3> QED
        BY <1>2, <1>3, <2>1, <2>3, <3>1, <3>2
    <2> QED
      BY <2>2, <2>3
  <1>5. Rising(Wire(d))' /\ Lines(Wire(d))' \subseteq Lines(Wire(d))
    <2>1. CASE Wire(d)' = Wire(d)
      BY <1>3, <2>1 DEF Rising, Lines
    <2>2. CASE Wire(d)' = SubSeq(Wire(d), 1, n) /\ n <= Len(Wire(d))
      <3>1. PICK q : q = SubSeq(Wire(d), 1, n)
        OBVIOUS
      <3>2. Rising(q) /\ Lines(q) \subseteq Lines(Wire(d)) /\ Wire(d)' = q
        BY <1>3, <2>2, <3>1, Prefix
      <3> QED
        BY <3>2 DEF Rising, Lines
    <2> QED
      BY <1>4, <2>1, <2>2
  <1>6. Rising(heard[d])' /\ Rising(channel[d])' /\ Rising(Spool(d))'
    BY <1>1 DEF Ordered
  <1>7. /\ Lines(heard[d])' = Lines(heard[d]) /\ Lines(channel[d])' = Lines(channel[d])
        /\ Lines(Spool(d))' = Lines(Spool(d))
    BY <1>1
  <1> QED
    BY <1>1, <1>5, <1>6, <1>7, OrderedLoses

(* A new stream of d brings no lines.                                      *)
LEMMA OpenOrdered ==
  ASSUME LogTyped, StreamsKept, NEW e, OpenStream(e), NEW d \in Daemon, Ordered(d)
  PROVE  Ordered(d)' /\ InFlight(d)' \subseteq InFlight(d)
  <1>1. e \in Daemon /\ UNCHANGED <<read, forward, wire, heard, channel>>
    BY Opens DEF plugins
  <1>2. PICK s \in Stream : /\ owner[s] = None
                            /\ current' = [current EXCEPT ![e] = s]
                            /\ worker' = [worker EXCEPT ![s].pc = "load"]
    BY Opens
  <1>3. CASE d # e
    <2>1. current'[d] = current[d]
      BY <1>1, <1>2, <1>3 DEF LogTyped
    <2>2. current[d] # 0 => current[d] \in Stream /\ current[d] # s
      BY <1>2, NoneAssumption DEF StreamsKept, LogTyped, Stream
    <2>3. current[d] # 0 => worker'[current[d]] = worker[current[d]]
      BY <1>2, <2>2 DEF LogTyped
    <2>4. Wire(d)' = Wire(d) /\ Spool(d)' = Spool(d) /\ Got(d)' = Got(d)
      BY <1>1, <2>1, <2>3, PlacesSame
    <2>5. InFlight(d)' = InFlight(d)
      BY <1>1, <2>4 DEF InFlight
    <2> QED
      BY <1>1, <2>4, <2>5, OrderedSame
  <1>4. CASE d = e
    <2>1. /\ current'[d] = s /\ s # 0 /\ wire[s] = <<>> /\ forward[s] = <<>>
          /\ worker'[s].pc = "load"
      BY <1>1, <1>2, <1>4 DEF StreamsKept, Stream, LogTyped, Work
    <2>2. Wire(d)' = <<>> /\ Spool(d)' = <<>> /\ Got(d)' = {}
      BY <1>1, <2>1 DEF Wire, Spool, Got
    <2>3. /\ Rising(Wire(d))' /\ Rising(Spool(d))'
          /\ Lines(Wire(d))' = {} /\ Lines(Spool(d))' = {}
      BY <2>2, LinesOfNone DEF Rising, Lines
    <2>4. Rising(heard[d])' /\ Rising(channel[d])'
      BY <1>1 DEF Ordered
    <2>5. Lines(heard[d])' = Lines(heard[d]) /\ Lines(channel[d])' = Lines(channel[d])
      BY <1>1
    <2> QED
      BY <1>1, <2>2, <2>3, <2>4, <2>5, OrderedLoses
  <1> QED
    BY <1>3, <1>4

(* The worker that reads the last stream of d, and no other, moves lines.  *)
LEMMA WorkerOfLast ==
  ASSUME LogTyped, StreamsKept, OneWorks, NEW s \in Stream, worker[s].pc # "none"
  PROVE  /\ owner[s] \in Daemon /\ s = current[owner[s]] /\ s # 0
         /\ worker[s].pc = "recv" => worker[s].on = s
         /\ \A d \in Daemon : d # owner[s] => current[d] # s
  BY NoneAssumption DEF LogTyped, StreamsKept, OneWorks, Stream

LEMMA RecvOrdered ==
  ASSUME LogTyped, StreamsKept, OneWorks, NEW s \in Stream, Recv(s), NEW d \in Daemon, Ordered(d)
  PROVE  Ordered(d)' /\ InFlight(d)' = InFlight(d)
  <1>1. /\ heard'[d] = heard[d] /\ channel'[d] = channel[d] /\ read' = read
        /\ UNCHANGED <<current, forward>>
        /\ worker[s].pc = "recv" /\ worker[s].on = s
        /\ \A t \in Stream : t # s => worker'[t] = worker[t] /\ wire'[t] = wire[t]
    BY WorkerOfLast DEF Recv, plugins, streams, server, LogTyped
  <1>2. CASE d # owner[s]
    <2>0. current[d] # s
      BY <1>1, <1>2, WorkerOfLast
    <2>1. current[d] # 0 => current[d] \in Stream /\ current[d] # s
      BY <2>0 DEF LogTyped, Stream
    <2>2. Wire(d)' = Wire(d) /\ Spool(d)' = Spool(d) /\ Got(d)' = Got(d)
      BY <1>1, <2>1, PlacesSame
    <2>3. InFlight(d)' = InFlight(d)
      BY <1>1, <2>2 DEF InFlight
    <2> QED
      BY <1>1, <2>2, <2>3, OrderedSame
  <1>3. CASE d = owner[s]
    <2>1. current[d] = s /\ s # 0 /\ current' = current
      BY <1>1, <1>3, WorkerOfLast
    <2>2. /\ Wire(d) = wire[s] /\ Wire(d)' = wire'[s] /\ Spool(d)' = Spool(d)
          /\ Got(d) = {}
          /\ Got(d)' = IF worker'[s].pc = "forward" THEN {worker'[s].got} \ {0} ELSE {}
      BY <1>1, <2>1 DEF Wire, Spool, Got
    <2>3. PICK w \in Seq(Nat) : w = wire[s]
      BY <2>2, PlacesTyped
    <2>4. /\ Rising(heard[d])' /\ Rising(channel[d])' /\ Rising(Spool(d))'
          /\ Lines(heard[d])' = Lines(heard[d]) /\ Lines(channel[d])' = Lines(channel[d])
          /\ Lines(Spool(d))' = Lines(Spool(d))
      BY <1>1, <2>2 DEF Ordered
    <2>5. CASE w # <<>>
      <3>1. wire'[s] = Tail(w) /\ worker'[s].pc = "forward" /\ worker'[s].got = Head(w)
        BY <1>1, <2>3, <2>5 DEF Recv, LogTyped, Work
      <3>2. Rising(w)
        BY <2>2, <2>3 DEF Ordered
      <3>3. /\ Tail(w) \in Seq(Nat) /\ Head(w) \in Nat
            /\ Lines(w) = Lines(Tail(w)) \cup ({Head(w)} \ {0})
            /\ Rising(Tail(w))
            /\ Head(w) # 0 => \A x \in Lines(Tail(w)) : Head(w) < x
        BY <2>3, <2>5, <3>2, AtFront
      <3>4. Got(d)' = {Head(w)} \ {0}
        BY <2>2, <3>1
      <3>5. Rising(Wire(d))' /\ Lines(Wire(d))' = Lines(Tail(w))
        <4>1. Rising(wire'[s]) /\ Lines(wire'[s]) = Lines(Tail(w))
          BY <3>1, <3>3
        <4> QED
          BY <2>2, <4>1 DEF Rising, Lines
      <3>6. Chain(Lines(heard[d]), Lines(channel[d]), {}, Lines(w), Lines(Spool(d)))
        BY <2>2, <2>3 DEF Ordered
      <3>7. Chain(Lines(heard[d]), Lines(channel[d]), {Head(w)} \ {0}, Lines(Tail(w)),
                  Lines(Spool(d)))
        BY <3>3, <3>6 DEF Chain, Below
      <3>8. Chain(Lines(heard[d]), Lines(channel[d]), Got(d), Lines(Wire(d)), Lines(Spool(d)))'
        BY <2>4, <3>4, <3>5, <3>7 DEF Chain, Below
      <3>9. InFlight(d)' = InFlight(d)
        BY <2>2, <2>3, <2>4, <3>3, <3>4, <3>5 DEF InFlight
      <3> QED
        BY <1>1, <2>4, <3>5, <3>8, <3>9 DEF Ordered
    <2>6. CASE w = <<>>
      <3>1. wire'[s] = w /\ worker'[s].pc = "report"
        BY <1>1, <2>3, <2>6 DEF Recv, LogTyped, Work
      <3>2. Wire(d)' = Wire(d) /\ Got(d)' = Got(d)
        BY <2>2, <2>3, <3>1
      <3>3. InFlight(d)' = InFlight(d)
        BY <1>1, <2>2, <3>2 DEF InFlight
      <3> QED
        BY <1>1, <2>2, <3>2, <3>3, OrderedSame
    <2> QED
      BY <2>5, <2>6
  <1> QED
    BY <1>2, <1>3

(* Where the message goes that the worker s hands on.                      *)
LEMMA ForwardElsewhere ==
  ASSUME LogTyped, StreamsKept, OneWorks, NEW s \in Stream, Forward(s), NEW d \in Daemon,
         d # owner[s]
  PROVE  /\ Wire(d)' = Wire(d) /\ Spool(d)' = Spool(d) /\ Got(d)' = Got(d)
         /\ heard'[d] = heard[d] /\ channel'[d] = channel[d] /\ read' = read
         /\ InFlight(d)' = InFlight(d)
  <1>1. /\ heard'[d] = heard[d] /\ channel'[d] = channel[d] /\ read' = read
        /\ UNCHANGED <<current, forward, wire>>
        /\ worker[s].pc = "forward"
        /\ \A t \in Stream : t # s => worker'[t] = worker[t]
    BY DEF Forward, streams, server, LogTyped
  <1>2. current[d] # s
    BY <1>1, WorkerOfLast
  <1>3. current[d] # 0 => current[d] \in Stream /\ current[d] # s
    BY <1>2 DEF LogTyped, Stream
  <1>4. Wire(d)' = Wire(d) /\ Spool(d)' = Spool(d) /\ Got(d)' = Got(d)
    BY <1>1, <1>3, PlacesSame
  <1> QED
    BY <1>1, <1>4 DEF InFlight

LEMMA ForwardPlaces ==
  ASSUME LogTyped, StreamsKept, OneWorks, NEW s \in Stream, Forward(s), NEW d \in Daemon,
         d = owner[s]
  PROVE  \E g \in Nat, c \in Seq(Nat) :
           /\ g = worker[s].got /\ c = channel[d]
           /\ Wire(d)' = Wire(d) /\ Spool(d)' = Spool(d) /\ Got(d) = {g} \ {0} /\ Got(d)' = {}
           /\ channel'[d] = c \/ channel'[d] = Append(c, g)
           /\ heard'[d] = heard[d] /\ read' = read
  <1>1. /\ heard'[d] = heard[d] /\ read' = read
        /\ UNCHANGED <<current, forward, wire>>
        /\ worker[s].pc = "forward" /\ worker'[s].pc = "load"
    BY DEF Forward, streams, server, LogTyped, NoWorker
  <1>2. current[d] = s /\ s # 0 /\ current' = current
    BY <1>1, WorkerOfLast
  <1>3. PICK g \in Nat : g = worker[s].got
    BY DEF LogTyped, Work
  <1>4. Wire(d)' = Wire(d) /\ Spool(d)' = Spool(d) /\ Got(d) = {g} \ {0} /\ Got(d)' = {}
    BY <1>1, <1>2, <1>3 DEF Wire, Spool, Got
  <1>5. PICK c \in Seq(Nat) : c = channel[d]
    BY PlacesTyped
  <1>6. channel'[d] = c \/ channel'[d] = Append(c, g)
    BY <1>3, <1>5 DEF Forward, Offer, LogTyped
  <1> QED
    BY <1>1, <1>3, <1>4, <1>5, <1>6

LEMMA ForwardOrdered ==
  ASSUME LogTyped, StreamsKept, OneWorks, NEW s \in Stream, Forward(s), NEW d \in Daemon,
         Ordered(d)
  PROVE  Ordered(d)'
  <1>1. CASE d # owner[s]
    BY <1>1, ForwardElsewhere, OrderedSame
  <1>2. CASE d = owner[s]
    <2>1. PICK g \in Nat, c \in Seq(Nat) :
            /\ c = channel[d]
            /\ Wire(d)' = Wire(d) /\ Spool(d)' = Spool(d) /\ Got(d) = {g} \ {0} /\ Got(d)' = {}
            /\ channel'[d] = c \/ channel'[d] = Append(c, g)
            /\ heard'[d] = heard[d] /\ read' = read
      BY <1>2, ForwardPlaces
    <2>2. Chain(Lines(heard[d]), Lines(c), {g} \ {0}, Lines(Wire(d)), Lines(Spool(d))) /\ Rising(c)
      BY <2>1 DEF Ordered
    <2>3. Rising(Append(c, g)) /\ Lines(Append(c, g)) = Lines(c) \cup ({g} \ {0})
      <3>1. g # 0 => \A x \in Lines(c) : x < g
        BY <2>2 DEF Chain, Below
      <3> QED
        BY <2>2, <3>1, AtEnd
    <2>4. Rising(channel[d])' /\ Lines(channel[d])' \subseteq Lines(c) \cup ({g} \ {0})
      <3>1. Rising(channel'[d]) /\ Lines(channel'[d]) \subseteq Lines(c) \cup ({g} \ {0})
        BY <2>1, <2>2, <2>3
      <3> QED
        BY <3>1 DEF Rising, Lines
    <2>5. Chain(Lines(heard[d]), Lines(c) \cup ({g} \ {0}), {}, Lines(Wire(d)), Lines(Spool(d)))
      BY <2>2 DEF Chain, Below
    <2>6. /\ Rising(heard[d])' /\ Rising(Wire(d))' /\ Rising(Spool(d))'
          /\ Lines(heard[d])' = Lines(heard[d]) /\ Lines(Wire(d))' = Lines(Wire(d))
          /\ Lines(Spool(d))' = Lines(Spool(d))
      BY <2>1 DEF Ordered
    <2>7. Chain(Lines(heard[d]), Lines(channel[d]), Got(d), Lines(Wire(d)), Lines(Spool(d)))'
      BY <2>1, <2>4, <2>5, <2>6 DEF Chain, Below
    <2>8. InFlight(d)' \subseteq InFlight(d)
      BY <2>1, <2>4, <2>6 DEF InFlight
    <2> QED
      BY <2>1, <2>4, <2>6, <2>7, <2>8 DEF Ordered
  <1> QED
    BY <1>1, <1>2

LEMMA ProcessOrdered ==
  ASSUME LogTyped, NEW e \in Daemon, Process(e), NEW d \in Daemon, Ordered(d)
  PROVE  Ordered(d)'
  <1>1. /\ read' = read /\ UNCHANGED <<current, forward, wire, worker>>
        /\ d # e => heard'[d] = heard[d] /\ channel'[d] = channel[d]
    BY DEF Process, streams, server, LogTyped
  <1>2. Wire(d)' = Wire(d) /\ Spool(d)' = Spool(d) /\ Got(d)' = Got(d)
    BY <1>1 DEF Wire, Spool, Got
  <1>3. CASE d # e
    BY <1>1, <1>2, <1>3, OrderedSame
  <1>4. CASE d = e
    <2>1. PICK c \in Seq(Nat), h \in Seq(Nat) : c = channel[d] /\ h = heard[d]
      BY PlacesTyped
    <2>2. /\ c # <<>> /\ channel'[d] = Tail(c)
          /\ heard'[d] = IF Head(c) = 0 THEN h ELSE Append(h, Head(c))
      BY <1>4, <2>1 DEF Process, LogTyped, StopMsg
    <2>3. /\ Rising(c) /\ Rising(h)
          /\ Chain(Lines(h), Lines(c), Got(d), Lines(Wire(d)), Lines(Spool(d)))
      BY <2>1 DEF Ordered
    <2>4. /\ Tail(c) \in Seq(Nat) /\ Head(c) \in Nat
          /\ Lines(c) = Lines(Tail(c)) \cup ({Head(c)} \ {0})
          /\ Rising(Tail(c))
          /\ Head(c) # 0 => \A x \in Lines(Tail(c)) : Head(c) < x
      BY <2>1, <2>2, <2>3, AtFront
    <2>5. /\ Rising(Append(h, Head(c)))
          /\ Lines(Append(h, Head(c))) = Lines(h) \cup ({Head(c)} \ {0})
      <3>1. Head(c) # 0 => \A x \in Lines(h) : x < Head(c)
        BY <2>3, <2>4 DEF Chain, Below
      <3> QED
        BY <2>1, <2>3, <2>4, <3>1, AtEnd
    <2>6. Rising(heard'[d]) /\ Lines(heard'[d]) = Lines(h) \cup ({Head(c)} \ {0})
      BY <2>2, <2>3, <2>5
    <2>7. Rising(channel'[d]) /\ Lines(channel'[d]) = Lines(Tail(c))
      BY <2>2, <2>4
    <2>8. Chain(Lines(h) \cup ({Head(c)} \ {0}), Lines(Tail(c)), Got(d), Lines(Wire(d)),
                Lines(Spool(d)))
      BY <2>3, <2>4 DEF Chain, Below
    <2>9. /\ Rising(Wire(d))' /\ Rising(Spool(d))' /\ Lines(Wire(d))' = Lines(Wire(d))
          /\ Lines(Spool(d))' = Lines(Spool(d))
      BY <1>2 DEF Ordered
    <2>10. Chain(Lines(heard[d]), Lines(channel[d]), Got(d), Lines(Wire(d)), Lines(Spool(d)))'
      BY <1>2, <2>6, <2>7, <2>8, <2>9 DEF Chain, Below
    <2>11. InFlight(d)' \subseteq InFlight(d)
      BY <1>2, <2>1, <2>4, <2>6, <2>7, <2>9 DEF InFlight
    <2> QED
      BY <1>1, <2>6, <2>7, <2>9, <2>10, <2>11 DEF Ordered
  <1> QED
    BY <1>3, <1>4

LEMMA NextOrdered ==
  ASSUME LogTyped, StreamsKept, OneWorks, Step, NEW d \in Daemon, Ordered(d)
  PROVE  Ordered(d)'
  <1>1. CASE ReadLine
    BY <1>1, ReadOrdered
  <1>2. CASE GameServerStop
    <2>1. UNCHANGED <<read, heard, channel, current, wire, forward, worker>>
      BY <1>2 DEF GameServerStop, plugins, streams
    <2> QED
      BY <2>1, OrderedSame, PlacesSame
  <1>3. ASSUME NEW s \in Stream, StreamStep(s) PROVE Ordered(d)'
    <2>1. CASE Register(s)
      <3>1. UNCHANGED <<read, heard, channel, current, wire, forward, worker>>
        BY <2>1 DEF Register, plugins, streams
      <3> QED
        BY <3>1, OrderedSame, PlacesSame
    <2> QED
      BY <1>3, <2>1, SendsOrdered, StopOrdered, EndsOrdered DEF StreamStep
  <1>4. ASSUME NEW s \in Stream, WorkerStep(s) PROVE Ordered(d)'
    <2>1. CASE Load(s) \/ Report(s)
      <3>1. /\ UNCHANGED <<read, heard, channel, current, wire, forward>>
            /\ worker[s].pc # "forward" /\ worker'[s].pc # "forward"
            /\ \A t \in Stream : t # s => worker'[t] = worker[t]
        BY <2>1 DEF Load, Report, NoWorker, plugins, streams, server, LogTyped, Work
      <3>2. Wire(d)' = Wire(d) /\ Spool(d)' = Spool(d)
        BY <3>1 DEF Wire, Spool
      <3>3. Got(d)' = Got(d)
        <4>1. current[d] # 0 => current[d] \in Stream
          BY DEF LogTyped, Stream
        <4>2. current'[d] = current[d]
          BY <3>1
        <4>3. CASE current[d] = s
          BY <3>1, <4>2, <4>3 DEF Got
        <4>4. CASE current[d] # s
          BY <3>1, <4>1, <4>2, <4>4 DEF Got
        <4> QED
          BY <4>3, <4>4
      <3> QED
        BY <3>1, <3>2, <3>3, OrderedSame
    <2> QED
      BY <1>4, <2>1, RecvOrdered, ForwardOrdered DEF WorkerStep
  <1>5. ASSUME NEW s \in Stream, ReconnectStep(s) PROVE Ordered(d)'
    <2>1. CASE StartMinecraft(s)
      <3>1. UNCHANGED <<read, heard, channel, current, wire, forward, worker>>
        BY <2>1 DEF StartMinecraft, plugins, streams, server
      <3> QED
        BY <3>1, OrderedSame, PlacesSame
    <2> QED
      BY <1>5, <2>1, OpenOrdered DEF ReconnectStep, InitClient
  <1>6. ASSUME NEW e \in Daemon, \/ DaemonStep(e) \/ Break(e) \/ Restore(e)
                                 \/ RegisterLogProcesser(e) \/ Process(e) \/ Unregister(e)
        PROVE  Ordered(d)'
    <2>1. CASE \/ InitErrorHandler(e) \/ Monitor(e) \/ HandleError(e) \/ Restore(e)
               \/ RegisterLogProcesser(e) \/ Unregister(e)
      <3>1. UNCHANGED <<read, heard, channel, current, wire, forward, worker>>
        BY <2>1 DEF InitErrorHandler, Monitor, HandleError, Restore, RegisterLogProcesser,
           Unregister, plugins, streams, server
      <3> QED
        BY <3>1, OrderedSame, PlacesSame
    <2> QED
      BY <1>6, <2>1, OpenOrdered, BreakOrdered, ProcessOrdered DEF DaemonStep, Dial
  <1> QED
    BY <1>1, <1>2, <1>3, <1>4, <1>5, <1>6 DEF Step

-----------------------------------------------------------------------------
(* Lines without a gap, cut in two.                                        *)
LEMMA Cut ==
  ASSUME NEW A, NEW B, A \subseteq Nat, B \subseteq Nat, Below(A, B), Gapless(A \cup B)
  PROVE  Gapless(A) /\ Gapless(B)
  <1>1. ASSUME NEW x \in A, NEW y \in A, NEW z \in x..y PROVE z \in A
    <2>1. z \in A \cup B
      BY DEF Gapless
    <2>2. z \notin B
      BY DEF Below
    <2> QED
      BY <2>1, <2>2
  <1>2. ASSUME NEW x \in B, NEW y \in B, NEW z \in x..y PROVE z \in B
    <2>1. z \in A \cup B
      BY DEF Gapless
    <2>2. z \notin A
      BY DEF Below
    <2> QED
      BY <2>1, <2>2
  <1> QED
    BY <1>1, <1>2 DEF Gapless

LEMMA SoundBefore ==
  ASSUME Step, LogTyped, StreamsKept, NEW d \in Daemon, Sound(d)'
  PROVE  /\ Sound(d) /\ "reopened" \notin flaws /\ "reopened" \notin flaws'
         /\ "full" \notin flaws'
         /\ current[d] # 0 => current[d] \in Stream /\ current[d] \notin dead
                              /\ owner[current[d]] = d
  <1>1. flaws \subseteq flaws'
    BY FlawsGrow
  <1>2. dead \subseteq dead' /\ StreamsOf(d) \subseteq StreamsOf(d)'
    <2>1. CASE UNCHANGED <<owner, dead>>
      BY <2>1 DEF StreamsOf
    <2>2. ASSUME NEW e, OpenStream(e) PROVE dead \subseteq dead' /\ StreamsOf(d) \subseteq StreamsOf(d)'
      <3>1. UNCHANGED dead
        BY <2>2, Opens DEF net
      <3>2. PICK s \in Stream : owner[s] = None /\ owner' = [owner EXCEPT ![s] = e]
        BY <2>2, Opens
      <3> QED
        BY <3>1, <3>2, NoneAssumption DEF StreamsOf, LogTyped
    <2>3. ASSUME NEW e, Break(e) PROVE dead \subseteq dead' /\ StreamsOf(d) \subseteq StreamsOf(d)'
      BY <2>3 DEF Break, StreamsOf, streams
    <2> QED
      BY <2>1, <2>2, <2>3 DEF Step, ReadLine, GameServerStop, StreamStep, Register, StreamSends,
         StreamTakesStop, StreamEnds, WorkerStep, Load, Recv, Forward, Report, ReconnectStep,
         InitClient, StartMinecraft, DaemonStep, Dial, InitErrorHandler, Monitor, HandleError,
         Restore, RegisterLogProcesser, Process, Unregister, streams, net
  <1>3. Sound(d)
    BY <1>1, <1>2 DEF Sound
  <1>4. current[d] # 0 => current[d] \in Stream /\ owner[current[d]] = d
    BY DEF LogTyped, StreamsKept, Stream
  <1> QED
    BY <1>1, <1>3, <1>4 DEF Sound, StreamsOf

(* A step that moves no line out of the way to d, or none to the processor.*)
LEMMA UnbrokenSame ==
  ASSUME NEW d \in Daemon, Unbroken(d),
         heard'[d] = heard[d], channel'[d] = channel[d], InFlight(d)' = InFlight(d),
         read' = read, current'[d] = current[d],
         listening'[d] # "closed" => listening[d] # "closed",
         current[d] # 0 /\ stream'[current[d]] = "called" => stream[current[d]] = "called"
  PROVE  Unbroken(d)'
  <1>1. \A i \in 1..Len(heard'[d]) : heard'[d][i] = heard'[d][1] + i - 1
    BY DEF Unbroken
  <1>2. Gapless(Lines(heard[d]) \cup Lines(channel[d]))'
    <2>1. PICK S : S = Lines(heard[d]) \cup Lines(channel[d])
      OBVIOUS
    <2>2. S = (Lines(heard[d]) \cup Lines(channel[d]))' /\ Gapless(S)
      BY <2>1 DEF Unbroken, Lines
    <2> QED
      BY <2>2 DEF Gapless
  <1>3. (current'[d] = 0 \/ stream'[current'[d]] = "called") => InFlight(d)' = {}
    BY DEF Unbroken
  <1>4. (current'[d] # 0 /\ listening'[d] # "closed") => Gapless(InFlight(d)' \cup {read' + 1})
    BY DEF Unbroken
  <1> QED
    BY <1>1, <1>2, <1>3, <1>4 DEF Unbroken

LEMMA ReadUnbroken ==
  ASSUME LogTyped, StreamsKept, ReadLine, NEW d \in Daemon, Unbroken(d), Ordered(d),
         "full" \notin flaws',
         current[d] # 0 => current[d] \in Stream /\ current[d] \notin dead /\ owner[current[d]] = d
  PROVE  Unbroken(d)'
  <1>1. /\ heard'[d] = heard[d] /\ channel'[d] = channel[d] /\ read' = read + 1
        /\ Wire(d)' = Wire(d) /\ Got(d)' = Got(d)
        /\ UNCHANGED <<current, stream, listening>>
    BY DEF ReadLine, plugins, streams, Wire, Got
  <1>2. /\ Spool(d) \in Seq(Nat) /\ read \in Nat /\ InFlight(d) \subseteq Nat
        /\ \A x \in InFlight(d) : x <= read
    BY PlacesTyped DEF Ordered
  <1>3. \A i \in 1..Len(heard'[d]) : heard'[d][i] = heard'[d][1] + i - 1
    BY <1>1 DEF Unbroken
  <1>4. Gapless(Lines(heard[d]) \cup Lines(channel[d]))'
    <2>1. (Lines(heard[d]) \cup Lines(channel[d]))' = Lines(heard[d]) \cup Lines(channel[d])
      BY <1>1 DEF Lines
    <2> QED
      BY <2>1 DEF Unbroken, Gapless
  <1>5. CASE current[d] = 0 \/ stream[current[d]] = "called"
    <2>1. Spool(d)' = Spool(d)
      BY <1>1, <1>5 DEF Spool, ReadLine, Registered
    <2>2. InFlight(d)' = {} /\ InFlight(d)' \cup {read' + 1} = {read' + 1}
      BY <1>1, <1>5, <2>1 DEF InFlight, Unbroken
    <2>3. read' + 1 \in Nat
      BY <1>1, <1>2
    <2>4. Gapless(InFlight(d)' \cup {read' + 1})
      BY <2>2, <2>3 DEF Gapless
    <2> QED
      BY <1>3, <1>4, <2>2, <2>4 DEF Unbroken
  <1>6. CASE current[d] # 0 /\ stream[current[d]] # "called"
    <2>1. PICK c \in Stream : c = current[d]
      BY <1>6
    <2>2. stream[c] = "open"
      BY <1>6, <2>1, NoneAssumption DEF StreamsKept, LogTyped
    <2>3. Spool(d)' = Append(Spool(d), read + 1)
      <3>1. \A s \in Registered : Room(forward[s], ForwardCap)
        BY DEF ReadLine
      <3>2. forward'[c] = Append(forward[c], read + 1)
        BY <1>1, <2>2, <3>1 DEF ReadLine, Registered
      <3> QED
        BY <1>1, <1>6, <2>1, <3>2 DEF Spool
    <2>4. Lines(Spool(d))' = Lines(Spool(d)) \cup {read + 1}
      <3>1. PICK q : q = Append(Spool(d), read + 1)
        OBVIOUS
      <3>2. read + 1 \in Nat /\ {read + 1} \ {0} = {read + 1}
        BY <1>2
      <3>3. Lines(q) = Lines(Spool(d)) \cup {read + 1}
        BY <1>2, <3>1, <3>2, AtEnd
      <3> QED
        BY <2>3, <3>1, <3>3 DEF Lines
    <2>5. PICK S : S = InFlight(d) \cup {read + 1}
      OBVIOUS
    <2>6. InFlight(d)' = S
      BY <1>1, <2>4, <2>5 DEF InFlight
    <2>7. ASSUME listening[d] # "closed" PROVE Gapless(InFlight(d)' \cup {read' + 1})
      <3>1. Gapless(S) /\ S \subseteq Nat /\ read + 1 \in S /\ \A x \in S : x <= read + 1
        BY <1>2, <1>6, <2>5, <2>7 DEF Unbroken
      <3>2. Gapless(S \cup {read + 2})
        <4>1. ASSUME NEW x \in S \cup {read + 2}, NEW y \in S \cup {read + 2}, NEW z \in x..y
              PROVE  z \in S \cup {read + 2}
          <5>1. CASE x \in S /\ y \in S
            BY <3>1, <5>1 DEF Gapless
          <5>2. CASE x \in S /\ y = read + 2
            <6>1. z \in x..(read + 1) \/ z = read + 2
              BY <1>2, <3>1, <5>2
            <6> QED
              BY <3>1, <5>2, <6>1 DEF Gapless
          <5>3. CASE x = read + 2
            BY <1>2, <3>1, <5>3
          <5> QED
            BY <4>1, <5>1, <5>2, <5>3
        <4> QED
          BY <4>1 DEF Gapless
      <3>3. read' + 1 = read + 2
        BY <1>1, <1>2
      <3> QED
        BY <2>6, <3>2, <3>3
    <2> QED
      BY <1>1, <1>3, <1>4, <1>6, <2>7 DEF Unbroken
  <1> QED
    BY <1>5, <1>6

LEMMA ForwardUnbroken ==
  ASSUME LogTyped, StreamsKept, OneWorks, NEW s \in Stream, Forward(s), NEW d \in Daemon,
         d = owner[s], Unbroken(d), Ordered(d), "full" \notin flaws'
  PROVE  Unbroken(d)'
  <1>1. PICK g \in Nat, c \in Seq(Nat) :
          /\ g = worker[s].got /\ c = channel[d]
          /\ Wire(d)' = Wire(d) /\ Spool(d)' = Spool(d) /\ Got(d) = {g} \ {0} /\ Got(d)' = {}
          /\ channel'[d] = c \/ channel'[d] = Append(c, g)
          /\ heard'[d] = heard[d] /\ read' = read
    BY ForwardPlaces
  <1>2. UNCHANGED <<current, stream, listening>> /\ current[d] = s /\ s # 0 /\ stream[s] # "none"
    BY WorkerOfLast, NoneAssumption DEF Forward, streams, server, StreamsKept
  <1>3. \A i \in 1..Len(heard'[d]) : heard'[d][i] = heard'[d][1] + i - 1
    BY <1>1 DEF Unbroken
  <1>4. PICK h, w, q, k, n : /\ h = Lines(heard[d]) /\ w = Lines(Wire(d)) /\ q = Lines(Spool(d))
                             /\ k = Lines(c) /\ n = {read + 1}
    OBVIOUS
  <1>5. /\ Lines(heard[d])' = h /\ Lines(Wire(d))' = w /\ Lines(Spool(d))' = q
        /\ Lines(channel[d])' = Lines(channel'[d])
    BY <1>1, <1>4 DEF Lines
  <1>6. InFlight(d) = h \cup k \cup ({g} \ {0}) \cup w \cup q
    BY <1>1, <1>4 DEF InFlight
  <1>7. InFlight(d)' = h \cup Lines(channel'[d]) \cup w \cup q
    BY <1>1, <1>5 DEF InFlight
  <1>8. /\ InFlight(d) \subseteq Nat /\ read \in Nat
        /\ \A x \in InFlight(d) : x <= read
        /\ Chain(h, k, {g} \ {0}, w, q)
    BY <1>1, <1>4, PlacesTyped DEF Ordered
  <1>9. Lines(Append(c, g)) = k \cup ({g} \ {0})
    BY <1>4, AtEnd
  <1>10. Lines(channel'[d]) = k \/ Lines(channel'[d]) = k \cup ({g} \ {0})
    BY <1>1, <1>4, <1>9
  <1>11. InFlight(d)' \subseteq InFlight(d)
    BY <1>6, <1>7, <1>10
  <1>12. (current'[d] = 0 \/ stream'[current'[d]] = "called") => InFlight(d)' = {}
    BY <1>2, <1>11 DEF Unbroken
  <1>13. Gapless(h \cup k)
    BY <1>1, <1>4 DEF Unbroken
  <1>14. listening[d] # "closed" => Gapless(InFlight(d) \cup n)
    BY <1>2, <1>4 DEF Unbroken
  <1>15. /\ h \cup k \cup ({g} \ {0}) \subseteq Nat /\ w \cup q \cup n \subseteq Nat
         /\ Below(h \cup k \cup ({g} \ {0}), w \cup q \cup n)
    <2>1. read + 1 \in Nat /\ \A x \in InFlight(d) : x < read + 1
      BY <1>8
    <2> QED
      BY <1>4, <1>6, <1>8, <2>1 DEF Chain, Below
  <1>16. ASSUME listening[d] # "closed"
         PROVE  Gapless(h \cup k \cup ({g} \ {0})) /\ Gapless(w \cup q \cup n)
    <2>1. InFlight(d) \cup n = (h \cup k \cup ({g} \ {0})) \cup (w \cup q \cup n)
      BY <1>6
    <2> QED
      BY <1>14, <1>15, <1>16, <2>1, Cut
  <1>17. PICK A : A = Lines(channel'[d])
    OBVIOUS
  <1>18. CASE listening[d] = "no"
    <2>1. h = {} /\ k = {}
      BY <1>1, <1>4, <1>18, LinesOfNone DEF StreamsKept
    <2>2. channel'[d] = channel[d]
      BY <1>18 DEF Forward
    <2>3. A = {}
      BY <1>1, <1>4, <1>17, <2>1, <2>2
    <2>4. InFlight(d)' \cup n = w \cup q \cup n
      BY <1>7, <1>17, <2>1, <2>3
    <2>5. Gapless(InFlight(d)' \cup {read' + 1})
      BY <1>1, <1>4, <1>16, <1>18, <2>4
    <2>6. Gapless(Lines(heard[d]) \cup Lines(channel[d]))'
      BY <1>5, <1>17, <2>1, <2>3 DEF Gapless
    <2> QED
      BY <1>3, <1>12, <2>5, <2>6 DEF Unbroken
  <1>19. CASE listening[d] = "yes"
    <2>1. channel'[d] = Append(c, g)
      <3>1. Room(channel[d], ChannelCap)
        BY <1>19 DEF Forward
      <3> QED
        BY <1>1, <1>19, <3>1 DEF Forward, Offer, LogTyped
    <2>2. A = k \cup ({g} \ {0})
      BY <1>9, <1>17, <2>1
    <2>3. InFlight(d)' = InFlight(d)
      BY <1>6, <1>7, <1>17, <2>2
    <2>4. Gapless(InFlight(d)' \cup {read' + 1})
      BY <1>1, <1>4, <1>14, <1>19, <2>3
    <2>5. Gapless(h \cup A)
      <3>1. h \cup A = h \cup k \cup ({g} \ {0})
        BY <2>2
      <3> QED
        BY <1>16, <1>19, <3>1
    <2>6. Gapless(Lines(heard[d]) \cup Lines(channel[d]))'
      BY <1>5, <1>17, <2>5 DEF Gapless
    <2> QED
      BY <1>3, <1>12, <2>4, <2>6 DEF Unbroken
  <1>20. CASE listening[d] = "closed"
    <2>1. channel'[d] = channel[d]
      BY <1>20 DEF Forward
    <2>2. A = k
      BY <1>1, <1>4, <1>17, <2>1
    <2>3. Gapless(Lines(heard[d]) \cup Lines(channel[d]))'
      BY <1>5, <1>13, <1>17, <2>2 DEF Gapless
    <2>4. listening'[d] = "closed"
      BY <1>2, <1>20
    <2> QED
      BY <1>3, <1>12, <2>3, <2>4 DEF Unbroken
  <1> QED
    BY <1>18, <1>19, <1>20 DEF LogTyped

LEMMA ProcessUnbroken ==
  ASSUME LogTyped, NEW d \in Daemon, Process(d), Unbroken(d), Ordered(d)
  PROVE  Unbroken(d)'
  <1>1. UNCHANGED <<read, current, stream, listening, forward, wire, worker>>
    BY DEF Process, streams, server
  <1>2. Wire(d)' = Wire(d) /\ Spool(d)' = Spool(d) /\ Got(d)' = Got(d)
    BY <1>1 DEF Wire, Spool, Got
  <1>3. PICK c \in Seq(Nat), h \in Seq(Nat) : c = channel[d] /\ h = heard[d]
    BY PlacesTyped
  <1>4. /\ c # <<>> /\ channel'[d] = Tail(c)
        /\ heard'[d] = IF Head(c) = 0 THEN h ELSE Append(h, Head(c))
    BY <1>3 DEF Process, LogTyped, StopMsg
  <1>5. Rising(c) /\ Rising(h) /\ Below(Lines(h), Lines(c))
    BY <1>3 DEF Ordered, Chain
  <1>6. /\ Tail(c) \in Seq(Nat) /\ Head(c) \in Nat
        /\ Lines(c) = Lines(Tail(c)) \cup ({Head(c)} \ {0})
        /\ Head(c) # 0 => \A x \in Lines(Tail(c)) : Head(c) < x
    BY <1>3, <1>4, <1>5, AtFront
  <1>7. Lines(Append(h, Head(c))) = Lines(h) \cup ({Head(c)} \ {0})
    BY <1>3, <1>6, AtEnd
  <1>8. Lines(heard'[d]) = Lines(h) \cup ({Head(c)} \ {0})
    BY <1>4, <1>7
  <1>9. PICK S : S = Lines(heard[d]) \cup Lines(channel[d])
    OBVIOUS
  <1>10. (Lines(heard[d]) \cup Lines(channel[d]))' = S
    <2>1. Lines(heard'[d]) \cup Lines(channel'[d]) = S
      BY <1>3, <1>4, <1>6, <1>8, <1>9
    <2> QED
      BY <2>1 DEF Lines
  <1>11. InFlight(d)' = InFlight(d)
    BY <1>2, <1>9, <1>10 DEF InFlight
  <1>12. Gapless(Lines(heard[d]) \cup Lines(channel[d]))'
    BY <1>9, <1>10 DEF Unbroken, Gapless
  <1>13. /\ (current'[d] = 0 \/ stream'[current'[d]] = "called") => InFlight(d)' = {}
         /\ (current'[d] # 0 /\ listening'[d] # "closed") => Gapless(InFlight(d)' \cup {read' + 1})
    BY <1>1, <1>11 DEF Unbroken
  (* The next line is the one after the last that was heard.               *)
  <1>14. ASSUME Head(c) # 0, Len(h) # 0 PROVE Head(c) = h[Len(h)] + 1
    <2>1. PICK l \in Nat : l = Len(h)
      BY <1>3
    <2>2. l >= 1 /\ \A i \in 1..l : i \in DOMAIN h
      BY <1>3, <1>14, <2>1
    <2>3. \A i \in 1..l : h[i] # 0
      <3>1. heard[d] \in Seq(Nat \ {0})
        BY DEF LogTyped
      <3> QED
        BY <1>3, <2>1, <3>1
    <2>4. PICK m \in Nat : m = h[l] /\ m \in Lines(h)
      BY <1>3, <2>2, <2>3 DEF Lines
    <2>5. \A x \in Lines(h) : x <= m
      <3>1. ASSUME NEW x \in Lines(h) PROVE x <= m
        <4>1. PICK i \in 1..l : x = h[i]
          BY <1>3, <2>1 DEF Lines
        <4>2. CASE i = l
          BY <2>4, <4>1, <4>2
        <4>3. CASE i < l
          <5>1. h[i] < h[l]
            BY <1>5, <2>1, <2>2, <2>3, <4>3 DEF Rising
          <5>2. h[i] = x /\ h[l] = m
            BY <2>4, <4>1
          <5>3. x \in Nat
            BY <1>3, LinesAreNumbers
          <5>4. x < m
            BY <5>1, <5>2
          <5> QED
            BY <5>3, <5>4
        <4> QED
          BY <4>1, <4>2, <4>3
      <3> QED
        BY <3>1
    <2>6. PICK x \in Nat : x = Head(c) /\ x \in Lines(c) /\ m < x
      BY <1>5, <1>6, <1>14, <2>4 DEF Below
    <2>7. Gapless(S) /\ m \in S /\ x \in S
      BY <1>3, <1>9, <2>4, <2>6 DEF Unbroken
    <2>8. m + 1 \in S
      BY <2>6, <2>7 DEF Gapless
    <2>9. m + 1 \notin Lines(h)
      BY <2>5
    <2>10. m + 1 \in Lines(c)
      BY <1>3, <1>9, <2>8, <2>9
    <2>11. m + 1 >= x
      BY <1>6, <1>14, <2>6, <2>10
    <2>12. x = m + 1
      BY <2>6, <2>11
    <2> QED
      BY <2>1, <2>4, <2>6, <2>12
  <1>15. \A i \in 1..Len(heard'[d]) : heard'[d][i] = heard'[d][1] + i - 1
    <2>1. PICK g \in Seq(Nat), l \in Nat : g = heard'[d] /\ l = Len(h)
      <3>1. heard'[d] \in Seq(Nat) /\ Len(h) \in Nat
        BY <1>3, <1>4, <1>6
      <3> QED
        BY <3>1
    <2>2. \A i \in 1..l : h[i] = h[1] + i - 1
      BY <1>3, <2>1 DEF Unbroken
    <2>3. CASE Head(c) = 0
      BY <1>4, <2>1, <2>2, <2>3
    <2>4. CASE Head(c) # 0
      <3>1. Len(g) = l + 1 /\ g[l + 1] = Head(c) /\ \A i \in 1..l : g[i] = h[i]
        BY <1>3, <1>4, <1>6, <2>1, <2>4
      <3>2. CASE l = 0
        BY <1>6, <2>1, <3>1, <3>2
      <3>3. CASE l # 0
        <4>1. h[1] \in Nat /\ g[1] = h[1] /\ h[l] = h[1] + l - 1
          <5>1. l \in Nat /\ 1 \in 1..l /\ l \in 1..l /\ l = Len(h)
            BY <2>1, <3>3
          <5>2. h[l] = h[1] + l - 1
            BY <2>2, <5>1
          <5>3. g[1] = h[1]
            BY <3>1, <5>1
          <5>4. h[1] \in Nat
            BY <1>3, <5>1
          <5> QED
            BY <5>2, <5>3, <5>4
        <4>2. g[l + 1] = h[l] + 1
          BY <1>14, <2>1, <2>4, <3>1, <3>3
        <4>3. ASSUME NEW i \in 1..l + 1 PROVE g[i] = g[1] + i - 1
          <5>1. CASE i \in 1..l
            BY <2>2, <3>1, <4>1, <5>1
          <5>2. CASE i = l + 1
            BY <4>1, <4>2, <5>2
          <5> QED
            BY <4>3, <5>1, <5>2
        <4> QED
          BY <2>1, <3>1, <4>3
      <3> QED
        BY <3>2, <3>3
    <2> QED
      BY <2>3, <2>4
  <1> QED
    BY <1>12, <1>13, <1>15 DEF Unbroken

(* A new stream of another daemon.                                         *)
LEMMA OpenElsewhere ==
  ASSUME LogTyped, StreamsKept, NEW e, OpenStream(e), NEW d \in Daemon, e # d
  PROVE  InFlight(d)' = InFlight(d)
  <1>1. e \in Daemon /\ UNCHANGED <<forward, wire, heard, channel>>
    BY Opens DEF plugins
  <1>2. PICK s \in Stream : /\ owner[s] = None
                            /\ current' = [current EXCEPT ![e] = s]
                            /\ worker' = [worker EXCEPT ![s].pc = "load"]
    BY Opens
  <1>3. current'[d] = current[d]
    BY <1>1, <1>2 DEF LogTyped
  <1>4. current[d] # 0 => current[d] \in Stream /\ current[d] # s
    BY <1>2, NoneAssumption DEF StreamsKept, LogTyped, Stream
  <1>5. current[d] # 0 => worker'[current[d]] = worker[current[d]]
    BY <1>2, <1>4 DEF LogTyped
  <1>6. Wire(d)' = Wire(d) /\ Spool(d)' = Spool(d) /\ Got(d)' = Got(d)
    BY <1>1, <1>3, <1>5, PlacesSame
  <1> QED
    BY <1>1, <1>6 DEF InFlight

LEMMA NoStreamIsNought == \A s \in Stream : s # 0
  BY DEF Stream

LEMMA OpenUnbroken ==
  ASSUME LogTyped, StreamsKept, NEW e, OpenStream(e), NEW d \in Daemon, Unbroken(d), Ordered(d),
         Sound(d), e = d => \A t \in StreamsOf(d) : t \in dead
  PROVE  Unbroken(d)'
  <1>1. e \in Daemon /\ UNCHANGED <<read, heard, channel, listening>>
    BY Opens DEF plugins
  <1>2. PICK s \in Stream : /\ owner[s] = None
                            /\ stream' = [stream EXCEPT ![s] = "called"]
                            /\ current' = [current EXCEPT ![e] = s]
    BY Opens
  <1>3. CASE e = d
    <2>1. StreamsOf(d) = {}
      BY <1>3 DEF Sound
    <2>2. current[d] = 0
      BY <2>1 DEF StreamsKept, LogTyped, Stream, StreamsOf
    <2>3. InFlight(d) = {}
      BY <2>2 DEF Unbroken
    <2>4. InFlight(d)' = {}
      BY <2>3, OpenOrdered
    <2>5. PICK n \in Nat : n = read + 1
      BY DEF LogTyped
    <2>6. Gapless(InFlight(d)' \cup {read' + 1})
      <3>1. InFlight(d)' \cup {read' + 1} = {n}
        BY <1>1, <2>4, <2>5
      <3> QED
        BY <3>1 DEF Gapless
    <2>7. Gapless(Lines(heard[d]) \cup Lines(channel[d]))'
      <3>1. PICK S : S = Lines(heard[d]) \cup Lines(channel[d])
        OBVIOUS
      <3>2. S = (Lines(heard[d]) \cup Lines(channel[d]))' /\ Gapless(S)
        BY <1>1, <3>1 DEF Unbroken, Lines
      <3> QED
        BY <3>2 DEF Gapless
    <2>8. \A i \in 1..Len(heard'[d]) : heard'[d][i] = heard'[d][1] + i - 1
      BY <1>1 DEF Unbroken
    <2> QED
      BY <2>4, <2>6, <2>7, <2>8 DEF Unbroken
  <1>4. CASE e # d
    <2>1. current'[d] = current[d]
      BY <1>1, <1>2, <1>4 DEF LogTyped
    <2>2. current[d] # 0 => current[d] # s /\ current[d] \in Stream
      BY <1>2, NoneAssumption DEF StreamsKept, LogTyped, Stream
    <2>3. current[d] # 0 => stream'[current[d]] = stream[current[d]]
      BY <1>2, <2>2 DEF LogTyped
    <2>4. InFlight(d)' = InFlight(d)
      BY <1>4, OpenElsewhere
    <2> QED
      BY <1>1, <2>1, <2>3, <2>4, UnbrokenSame
  <1> QED
    BY <1>3, <1>4

(* A message or another channel: nothing of the way to d changes.          *)
LEMMA ManagerUnbroken ==
  ASSUME LogTyped, StreamsKept, NEW s \in Stream, StreamStep(s), NEW d \in Daemon, Unbroken(d),
         Ordered(d), current[d] # 0 => current[d] \notin dead
  PROVE  Unbroken(d)'
  <1>1. /\ UNCHANGED <<read, heard, channel, listening, current, worker>>
        /\ \A t \in Stream : stream'[t] = "called" => stream[t] = "called"
    BY DEF StreamStep, Register, StreamSends, StreamTakesStop, StreamEnds, plugins, streams,
       LogTyped
  <1>2. current[d] # 0 => current[d] \in Stream
    BY DEF LogTyped, Stream
  <1>3. InFlight(d)' = InFlight(d)
    <2>1. CASE Register(s)
      <3>1. UNCHANGED <<heard, channel, current, wire, forward, worker>>
        BY <2>1 DEF Register, plugins, streams
      <3>2. Wire(d)' = Wire(d) /\ Spool(d)' = Spool(d) /\ Got(d)' = Got(d)
        BY <3>1, PlacesSame
      <3> QED
        BY <3>1, <3>2 DEF InFlight
    <2>2. CASE StreamSends(s)
      BY <2>2, SendsOrdered, NoStreamIsNought
    <2>3. CASE StreamTakesStop(s)
      BY <2>3, StopOrdered
    <2>4. CASE StreamEnds(s)
      <3>1. s \in dead /\ UNCHANGED <<wire, current, worker>>
        BY <2>4 DEF StreamEnds, streams
      <3>2. s # current[d]
        BY <3>1, NoStreamIsNought
      <3>3. \A t \in Stream : t # s => wire'[t] = wire[t] /\ forward'[t] = forward[t]
        BY <2>4 DEF StreamEnds, LogTyped
      <3>4. Wire(d)' = Wire(d) /\ Spool(d)' = Spool(d) /\ Got(d)' = Got(d)
        BY <3>1, <3>2, <3>3, OtherStream
      <3> QED
        BY <1>1, <3>4 DEF InFlight
    <2> QED
      BY <2>1, <2>2, <2>3, <2>4 DEF StreamStep
  <1> QED
    BY <1>1, <1>2, <1>3, UnbrokenSame

LEMMA WorkerUnbroken ==
  ASSUME LogTyped, StreamsKept, OneWorks, NEW s \in Stream, WorkerStep(s), NEW d \in Daemon,
         Unbroken(d), Ordered(d), "full" \notin flaws'
  PROVE  Unbroken(d)'
  <1>1. CASE Load(s) \/ Report(s)
    <2>1. /\ UNCHANGED <<read, heard, channel, current, wire, forward, stream, listening>>
          /\ worker[s].pc # "forward" /\ worker'[s].pc # "forward"
          /\ \A t \in Stream : t # s => worker'[t] = worker[t]
      BY <1>1 DEF Load, Report, NoWorker, plugins, streams, server, LogTyped, Work
    <2>2. Wire(d)' = Wire(d) /\ Spool(d)' = Spool(d)
      BY <2>1 DEF Wire, Spool
    <2>3. Got(d)' = Got(d)
      <3>1. current[d] # 0 => current[d] \in Stream
        BY DEF LogTyped, Stream
      <3>2. current'[d] = current[d]
        BY <2>1
      <3>3. CASE current[d] = s
        BY <2>1, <3>2, <3>3 DEF Got
      <3>4. CASE current[d] # s
        BY <2>1, <3>1, <3>2, <3>4 DEF Got
      <3> QED
        BY <3>3, <3>4
    <2>4. InFlight(d)' = InFlight(d)
      BY <2>1, <2>2, <2>3 DEF InFlight
    <2> QED
      BY <2>1, <2>4, UnbrokenSame
  <1>2. CASE Recv(s)
    <2>1. UNCHANGED <<read, heard, channel, current, stream, listening>>
      BY <1>2 DEF Recv, plugins, streams, server
    <2>2. InFlight(d)' = InFlight(d)
      BY <1>2, RecvOrdered
    <2> QED
      BY <2>1, <2>2, UnbrokenSame
  <1>3. CASE Forward(s) /\ d # owner[s]
    <2>1. UNCHANGED <<current, stream, listening>>
      BY <1>3 DEF Forward, streams, server
    <2>2. /\ heard'[d] = heard[d] /\ channel'[d] = channel[d] /\ read' = read
          /\ InFlight(d)' = InFlight(d)
      BY <1>3, ForwardElsewhere
    <2> QED
      BY <2>1, <2>2, UnbrokenSame
  <1>4. CASE Forward(s) /\ d = owner[s]
    BY <1>4, ForwardUnbroken
  <1> QED
    BY <1>1, <1>2, <1>3, <1>4 DEF WorkerStep

LEMMA DaemonUnbroken ==
  ASSUME LogTyped, StreamsKept, NEW e \in Daemon, NEW d \in Daemon, Unbroken(d), Ordered(d),
         Sound(d)',
         \/ InitErrorHandler(e) \/ Monitor(e) \/ HandleError(e) \/ Break(e) \/ Restore(e)
         \/ RegisterLogProcesser(e) \/ Process(e) \/ Unregister(e)
  PROVE  Unbroken(d)'
  <1>1. CASE \/ InitErrorHandler(e) \/ Monitor(e) \/ HandleError(e) \/ Restore(e)
             \/ RegisterLogProcesser(e) \/ Unregister(e)
    <2>1. /\ UNCHANGED <<read, heard, channel, current, wire, forward, worker, stream>>
          /\ listening'[d] # "closed" => listening[d] # "closed"
      BY <1>1 DEF InitErrorHandler, Monitor, HandleError, Restore, RegisterLogProcesser,
         Unregister, plugins, streams, server, LogTyped
    <2>2. Wire(d)' = Wire(d) /\ Spool(d)' = Spool(d) /\ Got(d)' = Got(d)
      BY <2>1, PlacesSame
    <2>3. InFlight(d)' = InFlight(d)
      BY <2>1, <2>2 DEF InFlight
    <2> QED
      BY <2>1, <2>3, UnbrokenSame
  <1>2. CASE Break(e)
    <2>1. /\ UNCHANGED <<read, heard, channel, current, forward, worker, stream, listening>>
          /\ dead' = dead \cup StreamsOf(e) /\ owner' = owner
      BY <1>2 DEF Break, plugins, streams, server
    <2>2. current[d] # 0 => current[d] \in StreamsOf(d) /\ current[d] \notin dead'
      BY <2>1 DEF Sound, StreamsOf, LogTyped, StreamsKept, Stream
    <2>3. current[d] # 0 => current[d] \in Stream /\ current[d] \notin StreamsOf(e)
      BY <2>1, <2>2 DEF StreamsOf
    <2>4. current[d] # 0 => wire'[current[d]] = wire[current[d]]
      BY <1>2, <2>3 DEF Break
    <2>5. Wire(d)' = Wire(d) /\ Spool(d)' = Spool(d) /\ Got(d)' = Got(d)
      BY <2>1, <2>4, PlacesSame
    <2>6. InFlight(d)' = InFlight(d)
      BY <2>1, <2>5 DEF InFlight
    <2> QED
      BY <2>1, <2>6, UnbrokenSame
  <1>3. CASE Process(e) /\ e # d
    <2>1. /\ UNCHANGED <<read, current, wire, forward, worker, stream, listening>>
          /\ heard'[d] = heard[d] /\ channel'[d] = channel[d]
      BY <1>3 DEF Process, streams, server, LogTyped
    <2>2. Wire(d)' = Wire(d) /\ Spool(d)' = Spool(d) /\ Got(d)' = Got(d)
      BY <2>1, PlacesSame
    <2>3. InFlight(d)' = InFlight(d)
      BY <2>1, <2>2 DEF InFlight
    <2> QED
      BY <2>1, <2>3, UnbrokenSame
  <1>4. CASE Process(e) /\ e = d
    BY <1>4, ProcessUnbroken
  <1> QED
    BY <1>1, <1>2, <1>3, <1>4

LEMMA NextUnbroken ==
  ASSUME LogTyped, StreamsKept, Step, NEW d \in Daemon, Sound(d)',
         "reopened" \notin flaws => OneWorks /\ Ordered(d),
         "failed" \notin flaws => Reconnects, Sound(d) => Unbroken(d)
  PROVE  Unbroken(d)'
  <1>1. /\ Sound(d) /\ Unbroken(d) /\ OneWorks /\ Ordered(d) /\ "full" \notin flaws'
        /\ "reopened" \notin flaws'
        /\ current[d] # 0 => current[d] \in Stream /\ current[d] \notin dead
                             /\ owner[current[d]] = d
    BY SoundBefore
  <1>2. "full" \notin flaws' /\ "reopened" \notin flaws'
    BY <1>1
  <1>3. CASE ReadLine
    BY <1>1, <1>3, ReadUnbroken
  <1>4. CASE GameServerStop
    <2>1. UNCHANGED <<read, heard, channel, current, wire, forward, worker, stream, listening>>
      BY <1>4 DEF GameServerStop, plugins, streams
    <2>2. Wire(d)' = Wire(d) /\ Spool(d)' = Spool(d) /\ Got(d)' = Got(d)
      BY <2>1, PlacesSame
    <2>3. InFlight(d)' = InFlight(d)
      BY <2>1, <2>2 DEF InFlight
    <2> QED
      BY <1>1, <2>1, <2>3, UnbrokenSame
  <1>5. ASSUME NEW s \in Stream, StreamStep(s) PROVE Unbroken(d)'
    BY <1>1, <1>5, ManagerUnbroken
  <1>6. ASSUME NEW s \in Stream, WorkerStep(s) PROVE Unbroken(d)'
    BY <1>1, <1>6, WorkerUnbroken
  <1>7. ASSUME NEW s \in Stream, ReconnectStep(s) PROVE Unbroken(d)'
    <2>1. CASE StartMinecraft(s)
      <3>1. UNCHANGED <<read, heard, channel, current, wire, forward, worker, stream, listening>>
        BY <2>1 DEF StartMinecraft, plugins, streams, server
      <3>2. Wire(d)' = Wire(d) /\ Spool(d)' = Spool(d) /\ Got(d)' = Got(d)
        BY <3>1, PlacesSame
      <3>3. InFlight(d)' = InFlight(d)
        BY <3>1, <3>2 DEF InFlight
      <3> QED
        BY <1>1, <3>1, <3>3, UnbrokenSame
    <2>2. CASE InitClient(s)
      <3>1. OpenStream(owner[s])
        BY <2>2 DEF InitClient
      <3>2. "failed" \in flaws \/ (current[owner[s]] \in Stream /\ Ended(current[owner[s]], owner[s]))
        BY <2>2 DEF InitClient, Reconnects, Ended
      <3>3. \A t \in StreamsOf(owner[s]) : t \in dead
        BY <1>1, <3>1, <3>2, OpenEnded
      <3> QED
        BY <1>1, <3>1, <3>3, OpenUnbroken
    <2> QED
      BY <1>7, <2>1, <2>2 DEF ReconnectStep
  <1>8. ASSUME NEW e \in Daemon, Dial(e) PROVE Unbroken(d)'
    <2>1. OpenStream(e) /\ current[e] = 0
      BY <1>8 DEF Dial
    <2>2. \A t \in StreamsOf(e) : t \in dead
      BY <2>1 DEF StreamsKept
    <2> QED
      BY <1>1, <2>1, <2>2, OpenUnbroken
  <1>9. ASSUME NEW e \in Daemon,
               \/ InitErrorHandler(e) \/ Monitor(e) \/ HandleError(e) \/ Break(e) \/ Restore(e)
               \/ RegisterLogProcesser(e) \/ Process(e) \/ Unregister(e)
        PROVE  Unbroken(d)'
    BY <1>1, <1>9, DaemonUnbroken
  <1> QED
    BY <1>3, <1>4, <1>5, <1>6, <1>7, <1>8, <1>9 DEF Step, DaemonStep

-----------------------------------------------------------------------------
LEMMA LogNextInv == LogIInv /\ [LogNext]_logVars => LogIInv'
  <1> SUFFICES ASSUME LogIInv, [LogNext]_logVars PROVE LogIInv'
    OBVIOUS
  <1>1. LogTyped /\ StreamsKept
    BY DEF LogIInv
  <1>2. LogTyped' /\ StreamsKept'
    BY <1>1, LogNextTyped, LogNextKept
  <1>3. CASE UNCHANGED logVars
    <2>1. UNCHANGED <<owner, stream, forward, wire, current, worker, dead, errBus, reconnect,
                      channel, listening, heard, read, flaws>>
      BY <1>3 DEF logVars
    <2>2. "failed" \notin flaws' => Reconnects'
      BY <2>1 DEF LogIInv, Reconnects, Ended
    <2>3. "reopened" \notin flaws' => OneWorks'
      BY <2>1 DEF LogIInv, OneWorks
    <2>4. ASSUME NEW d \in Daemon
          PROVE  /\ "reopened" \notin flaws' => Ordered(d)'
                 /\ Sound(d)' => Unbroken(d)'
      <3>1. Wire(d)' = Wire(d) /\ Spool(d)' = Spool(d) /\ Got(d)' = Got(d)
        BY <2>1, PlacesSame
      <3>2. InFlight(d)' = InFlight(d)
        BY <2>1, <3>1 DEF InFlight
      <3>3. "reopened" \notin flaws' => Ordered(d)'
        BY <2>1, <3>1, OrderedSame DEF LogIInv
      <3>4. Sound(d)' => Sound(d)
        BY <2>1 DEF Sound, StreamsOf
      <3>5. Sound(d)' => Unbroken(d)'
        BY <2>1, <3>2, <3>4, UnbrokenSame DEF LogIInv
      <3> QED
        BY <3>3, <3>5
    <2> QED
      BY <1>2, <2>1, <2>2, <2>3, <2>4 DEF LogIInv
  <1>4. CASE Step
    <2>1. "failed" \notin flaws' => Reconnects'
      BY <1>1, <1>4, FlawsGrow, NextReconnects DEF LogIInv
    <2>2. "reopened" \in flaws' => "failed" \in flaws'
      BY <1>4, ReopenedFailed DEF LogIInv
    <2>3. ASSUME "reopened" \notin flaws' PROVE OneWorks' /\ \A d \in Daemon : Ordered(d)'
      <3>1. "reopened" \notin flaws
        BY <1>4, <2>3, FlawsGrow
      <3> QED
        BY <1>1, <1>4, <2>3, <3>1, NextOneWorks, NextOrdered DEF LogIInv
    <2>4. ASSUME NEW d \in Daemon, Sound(d)' PROVE Unbroken(d)'
      <3>1. /\ "reopened" \notin flaws => OneWorks /\ Ordered(d)
            /\ "failed" \notin flaws => Reconnects
            /\ Sound(d) => Unbroken(d)
        BY DEF LogIInv
      <3> QED
        BY <1>1, <1>4, <2>4, <3>1, NextUnbroken
    <2> QED
      BY <1>2, <2>1, <2>2, <2>3, <2>4 DEF LogIInv
  <1> QED
    BY <1>3, <1>4 DEF LogNext

LEMMA LogInvArrives == LogIInv => LinesArrive
  <1> SUFFICES ASSUME LogIInv PROVE LinesArrive
    OBVIOUS
  <1>1. LinesInOrder
    <2>1. SUFFICES ASSUME "reopened" \notin flaws, NEW d \in Daemon,
                          NEW i \in 1..Len(heard[d]), NEW j \in 1..Len(heard[d]), i < j
                   PROVE  heard[d][i] < heard[d][j]
      BY DEF LinesInOrder
    <2>2. Rising(heard[d]) /\ heard[d] \in Seq(Nat \ {0})
      BY <2>1 DEF LogIInv, Ordered, LogTyped
    <2>3. heard[d][i] # 0 /\ heard[d][j] # 0
      BY <2>2
    <2> QED
      BY <2>1, <2>2, <2>3 DEF Rising
  <1>2. NoLineLost
    BY DEF NoLineLost, LogIInv, Sound, Unbroken
  <1> QED
    BY <1>1, <1>2 DEF LinesArrive

(* The lines on their way stay in their order, and sound ones without gap: *)
(* what the workers, the streams and the reconnections of the game manager *)
(* and the daemon (gamemanager.go, core.go) keep, for any number of lines, *)
(* streams, daemons and broken connections.                                *)
THEOREM LogInvariance == LogSpec => []LogIInv
  <1>1. LogInit => LogIInv
    BY LogStarts
  <1>2. LogIInv /\ [LogNext]_logVars => LogIInv'
    BY LogNextInv
  <1> QED
    BY <1>1, <1>2, PTL DEF LogSpec

(* A log processor (RegisterLogProcesser) is given the lines the game      *)
(* wrote, each once and in order, and none is left out between two of them *)
(* while the connection stays and no channel is full.                      *)
THEOREM LinesAlwaysArrive == LogSpec => []LinesArrive
  <1>1. LogIInv => LinesArrive
    BY LogInvArrives
  <1> QED
    BY <1>1, LogInvariance, PTL
===============================================================================
