--------------------------- MODULE RollbackProofs ---------------------------
(***************************************************************************)
(* Proofs about the rollbacks, for any number of requests and handlers and *)
(* any countdown.                                                          *)
(***************************************************************************)
EXTENDS Rollback, TLAPS

(* Who is inside a handler knows the request; callbacks only cancel.       *)
Placed ==
  \A t \in Thread : /\ pc[t] # "idle" => on[t] \in Request
                    /\ pc[t] \in {"confirm", "tick"} => t \in Handler

(* An Execute goes the way of its kind of request.                         *)
Kinds ==
  \A r \in Request :
    /\ exec[r] \in {"lock", "stop", "remove", "boot", "ready"} => r \in World
    /\ exec[r] \in {"kick", "pardon"} => r \in Playerdata

(* The lock of a request is held from the confirmation that takes it until *)
(* the end of Execute: one thread at a time is past it, and no Execute is  *)
(* started twice.                                                          *)
Locked ==
  /\ \A r \in Request : exec[r] # "off" => lock[r]
  /\ \A h \in Handler : pc[h] = "tick" => lock[on[h]] /\ exec[on[h]] = "off"
  /\ \A h \in Handler : \A i \in Handler :
       pc[h] = "tick" /\ pc[i] = "tick" /\ on[h] = on[i] => h = i

(* The world is replaced by the owner of backupLock.                       *)
Owner ==
  \A r \in World : exec[r] \in {"stop", "remove", "copy"} => backupLock = r

CountsDown == \A r \in Request : exec[r] \in {"tell", "count"} => countdown[r] > 0

(* Until two Starts or confirmations race: a Start past its check finds    *)
(* nothing pending, and a rollback at work is the one that is pending,     *)
(* unless a cancellation has come in between.                              *)
PendingKnown ==
  ~raced => /\ \A r \in Request : start[r] = "set" => pending = NoRequest
            /\ \A r \in Request \ orphaned : AtWork(r) => pending = r

(* What Stop and the ban have achieved lasts until the copy, unless an     *)
(* accident undoes it.                                                     *)
Kept ==
  ~raced /\ orphaned = {} =>
    \A r \in Request \ exposed :
      /\ r \in World /\ exec[r] \in {"remove", "copy"} => ~gameUp
      /\ r \notin World /\ exec[r] = "copy" => banned \/ ~gameUp

(* A request some thread deals with has been pending, and never becomes so *)
(* again; it is not pending any more when a cancellation reports it.       *)
Begun ==
  /\ \A r \in Request : cancel[r] # "nil" => start[r] = "done"
  /\ \A r \in Request : pending = r => start[r] \in {"arm", "done"}
  /\ \A t \in Thread : pc[t] # "idle" => start[on[t]] \in {"arm", "done"}
  /\ \A t \in Thread : pc[t] = "stop" => pending # on[t]

(* What has been cancelled in time is not pending, no thread can confirm   *)
(* it, and its ticker does not run.                                        *)
CancelKept ==
  \A r \in cancelled : /\ start[r] = "done" /\ pending # r
                       /\ ~Confirming(r) /\ InTime(r)
                       /\ comfirm[r] # "running"

Structure == Placed /\ Kinds /\ Locked /\ Owner /\ CountsDown

IInv == TypeOK /\ Structure /\ PendingKnown /\ Kept /\ Begun /\ CancelKept

-----------------------------------------------------------------------------
LEMMA InitInvariant == Init => IInv
  <1> SUFFICES ASSUME Init PROVE IInv
    OBVIOUS
  <1> USE RequestAssumption, BoundAssumption DEF Init
  <1>1. bound \in Bounds /\ Countdown \in Nat \ {0}
    BY DEF Countdown
  <1>2. TypeOK
    <2>1. countdown \in [Request -> 0..Countdown]
      BY <1>1
    <2>2. /\ cancel \in [Request -> {"nil", "armed", "done"}]
          /\ start \in [Request -> {"check", "set", "arm", "done"}]
          /\ comfirm \in [Request -> {"nil", "running", "stopped"}]
          /\ lock \in [Request -> BOOLEAN]
      OBVIOUS
    <2>3. exec \in [Request -> Stage]
      BY DEF Stage
    <2>4. /\ pc \in [Thread -> {"idle", "confirm", "tick", "abort", "stop"}]
          /\ on \in [Thread -> Request \cup {NoRequest}]
      OBVIOUS
    <2> QED
      BY <1>1, <2>1, <2>2, <2>3, <2>4 DEF TypeOK
  <1>3. Structure
    BY DEF Structure, Placed, Kinds, Locked, Owner, CountsDown, Counting, World, Thread
  <1>4. PendingKnown /\ Kept /\ Begun /\ CancelKept
    BY DEF PendingKnown, Kept, Begun, CancelKept, AtWork, InTime, Confirming, Counting,
           Thread
  <1> QED
    BY <1>2, <1>3, <1>4 DEF IInv

LEMMA CheckPendingInv ==
  ASSUME IInv, UNCHANGED bound, NEW r \in Request, CheckPending(r)
  PROVE  IInv'
  <1> USE RequestAssumption, HandlerAssumption, BoundAssumption
      DEF IInv, CheckPending, Thread, World, Playerdata, Countdown, Go, Return,
          Then, At, Obeyed, Stage, InTime, Confirming, request, thread, files,
          manager, history
  <1>1. TypeOK'
    BY DEF TypeOK
  <1>2. Structure'
    BY DEF TypeOK, Structure, Placed, Kinds, Locked, Owner, CountsDown, Counting
  <1>3. PendingKnown'
    BY DEF TypeOK, Structure, Placed, Locked, PendingKnown, AtWork, Counting
  <1>4. Kept'
    BY DEF TypeOK, Structure, Kinds, PendingKnown, Kept, AtWork
  <1>5. Begun'
    BY DEF TypeOK, Structure, Placed, Begun
  <1>6. CancelKept'
    BY DEF TypeOK, Structure, Placed, Begun, CancelKept, Counting
  <1> QED
    BY <1>1, <1>2, <1>3, <1>4, <1>5, <1>6

(* A Start that makes its request pending finds no other at work.          *)
LEMMA SetPendingInv ==
  ASSUME IInv, UNCHANGED bound, NEW r \in Request, SetPending(r)
  PROVE  IInv'
  <1> USE RequestAssumption, HandlerAssumption, BoundAssumption
      DEF IInv, SetPending, Thread, World, Playerdata, Countdown, Go, Return,
          Then, At, Obeyed, Stage, InTime, Confirming, request, thread, files,
          manager, history
  <1>1. TypeOK'
    BY DEF TypeOK
  <1>2. Structure'
    BY DEF TypeOK, Structure, Placed, Kinds, Locked, Owner, CountsDown, Counting
  <1>3. PendingKnown'
    <2> SUFFICES ASSUME ~raced'
                 PROVE  /\ \A q \in Request : start'[q] # "set"
                        /\ \A q \in Request \ orphaned' : ~AtWork(q)'
      BY DEF PendingKnown
    <2>1. ~raced /\ \A q \in Request \ {r} : start[q] # "set"
      OBVIOUS
    <2>2. \A q \in Request : start'[q] # "set"
      BY <2>1 DEF TypeOK
    <2>3. \A q \in Request \ orphaned : ~AtWork(q)
      BY <2>1 DEF PendingKnown
    <2> QED
      BY <2>2, <2>3 DEF AtWork, Counting
  <1>4. Kept'
    BY DEF TypeOK, Structure, Kinds, PendingKnown, Kept, AtWork
  <1>5. Begun'
    BY DEF TypeOK, Structure, Placed, Begun
  <1>6. CancelKept'
    BY DEF TypeOK, Structure, Placed, Begun, CancelKept, Counting
  <1> QED
    BY <1>1, <1>2, <1>3, <1>4, <1>5, <1>6

LEMMA ArmCancelInv ==
  ASSUME IInv, UNCHANGED bound, NEW r \in Request, ArmCancel(r)
  PROVE  IInv'
  <1> USE RequestAssumption, HandlerAssumption, BoundAssumption
      DEF IInv, ArmCancel, Thread, World, Playerdata, Countdown, Go, Return,
          Then, At, Obeyed, Stage, InTime, Confirming, request, thread, files,
          manager, history
  <1>1. TypeOK'
    BY DEF TypeOK
  <1>2. Structure'
    BY DEF TypeOK, Structure, Placed, Kinds, Locked, Owner, CountsDown, Counting
  <1>3. PendingKnown'
    BY DEF TypeOK, Structure, Placed, Locked, PendingKnown, AtWork, Counting
  <1>4. Kept'
    BY DEF TypeOK, Structure, Kinds, PendingKnown, Kept, AtWork
  <1>5. Begun'
    BY DEF TypeOK, Structure, Placed, Begun
  <1>6. CancelKept'
    BY DEF TypeOK, Structure, Placed, Begun, CancelKept, Counting
  <1> QED
    BY <1>1, <1>2, <1>3, <1>4, <1>5, <1>6

LEMMA TimeoutInv ==
  ASSUME IInv, UNCHANGED bound, NEW r \in Request, Timeout(r)
  PROVE  IInv'
  <1> USE RequestAssumption, HandlerAssumption, BoundAssumption
      DEF IInv, Timeout, Thread, World, Playerdata, Countdown, Go, Return,
          Then, At, Obeyed, Stage, InTime, Confirming, request, thread, files,
          manager, history
  <1>1. TypeOK'
    BY DEF TypeOK
  <1>2. Structure'
    BY DEF TypeOK, Structure, Placed, Kinds, Locked, Owner, CountsDown, Counting
  <1>3. PendingKnown'
    BY DEF TypeOK, Structure, Placed, Locked, PendingKnown, AtWork, Counting
  <1>4. Kept'
    BY DEF TypeOK, Structure, Kinds, PendingKnown, Kept, AtWork
  <1>5. Begun'
    BY DEF TypeOK, Structure, Placed, Begun
  <1>6. CancelKept'
    BY DEF TypeOK, Structure, Placed, Begun, CancelKept, Counting
  <1> QED
    BY <1>1, <1>2, <1>3, <1>4, <1>5, <1>6

LEMMA CommandInv ==
  ASSUME IInv, UNCHANGED bound, NEW h \in Handler, Command(h)
  PROVE  IInv'
  <1> USE RequestAssumption, HandlerAssumption, BoundAssumption
      DEF IInv, Command, Thread, World, Playerdata, Countdown, Go, Return,
          Then, At, Obeyed, Stage, InTime, Confirming, request, thread, files,
          manager, history
  <1>1. TypeOK'
    BY DEF TypeOK
  <1>2. Structure'
    BY DEF TypeOK, Structure, Placed, Kinds, Locked, Owner, CountsDown, Counting
  <1>3. PendingKnown'
    BY DEF TypeOK, Structure, Placed, Locked, PendingKnown, AtWork, Counting
  <1>4. Kept'
    BY DEF TypeOK, Structure, Kinds, PendingKnown, Kept, AtWork
  <1>5. Begun'
    BY DEF TypeOK, Structure, Placed, Begun
  <1>6. CancelKept'
    BY DEF TypeOK, Structure, Placed, Begun, CancelKept, Counting
  <1> QED
    BY <1>1, <1>2, <1>3, <1>4, <1>5, <1>6

LEMMA ButtonInv ==
  ASSUME IInv, UNCHANGED bound, NEW h \in Handler, NEW r \in Request, Button(h, r)
  PROVE  IInv'
  <1> USE RequestAssumption, HandlerAssumption, BoundAssumption
      DEF IInv, Button, Thread, World, Playerdata, Countdown, Go, Return,
          Then, At, Obeyed, Stage, InTime, Confirming, request, thread, files,
          manager, history
  <1>1. TypeOK'
    BY DEF TypeOK
  <1>2. Structure'
    BY DEF TypeOK, Structure, Placed, Kinds, Locked, Owner, CountsDown, Counting
  <1>3. PendingKnown'
    BY DEF TypeOK, Structure, Placed, Locked, PendingKnown, AtWork, Counting
  <1>4. Kept'
    BY DEF TypeOK, Structure, Kinds, PendingKnown, Kept, AtWork
  <1>5. Begun'
    BY DEF TypeOK, Structure, Placed, Begun
  <1>6. CancelKept'
    BY DEF TypeOK, Structure, Placed, Begun, CancelKept, Counting
  <1> QED
    BY <1>1, <1>2, <1>3, <1>4, <1>5, <1>6

LEMMA ConfirmLockInv ==
  ASSUME IInv, UNCHANGED bound, NEW h \in Handler, ConfirmLock(h)
  PROVE  IInv'
  <1> USE RequestAssumption, HandlerAssumption, BoundAssumption
      DEF IInv, ConfirmLock, Thread, World, Playerdata, Countdown, Go, Return,
          Then, At, Obeyed, Stage, InTime, Confirming, request, thread, files,
          manager, history
  <1>0. on[h] \in Request
    BY DEF Structure, Placed
  <1>1. TypeOK'
    <2>1. cancel' \in [Request -> {"nil", "armed", "done"}]
      BY <1>0 DEF TypeOK
    <2>2. lock' \in [Request -> BOOLEAN]
      BY <1>0 DEF TypeOK
    <2>3. raced' \in BOOLEAN
      BY <1>0 DEF TypeOK
    <2>4. panicked' \in BOOLEAN
      BY <1>0 DEF TypeOK
    <2>5. /\ pc' \in [Thread -> {"idle", "confirm", "tick", "abort", "stop"}]
          /\ on' \in [Thread -> Request \cup {NoRequest}]
      BY <1>0 DEF TypeOK
    <2> QED
      BY <2>1, <2>2, <2>3, <2>4, <2>5 DEF TypeOK
  <1>2. Structure'
    BY DEF TypeOK, Structure, Placed, Kinds, Locked, Owner, CountsDown, Counting
  <1>3. PendingKnown'
    BY DEF TypeOK, Structure, Placed, Locked, PendingKnown, AtWork, Counting
  <1>4. Kept'
    BY DEF TypeOK, Structure, Kinds, PendingKnown, Kept, AtWork
  <1>5. Begun'
    BY DEF TypeOK, Structure, Placed, Begun
  <1>6. CancelKept'
    BY DEF TypeOK, Structure, Placed, Begun, CancelKept, Counting
  <1> QED
    BY <1>1, <1>2, <1>3, <1>4, <1>5, <1>6

LEMMA ConfirmTickInv ==
  ASSUME IInv, UNCHANGED bound, NEW h \in Handler, ConfirmTick(h)
  PROVE  IInv'
  <1> USE RequestAssumption, HandlerAssumption, BoundAssumption
      DEF IInv, ConfirmTick, Thread, World, Playerdata, Countdown, Go, Return,
          Then, At, Obeyed, Stage, InTime, Confirming, request, thread, files,
          manager, history
  <1>0. on[h] \in Request /\ bound.countdown \in Nat
    BY DEF Structure, Placed, TypeOK
  <1>1. TypeOK'
    <2>1. countdown' \in [Request -> 0..Countdown]
      BY <1>0 DEF TypeOK
    <2>2. comfirm' \in [Request -> {"nil", "running", "stopped"}]
      BY <1>0 DEF TypeOK
    <2>3. exec' \in [Request -> Stage]
      BY <1>0 DEF TypeOK
    <2>4. /\ pc' \in [Thread -> {"idle", "confirm", "tick", "abort", "stop"}]
          /\ on' \in [Thread -> Request \cup {NoRequest}]
      BY <1>0 DEF TypeOK
    <2> QED
      BY <2>1, <2>2, <2>3, <2>4 DEF TypeOK
  <1>2. Structure'
    BY DEF TypeOK, Structure, Placed, Kinds, Locked, Owner, CountsDown, Counting
  <1>3. PendingKnown'
    BY DEF TypeOK, Structure, Placed, Locked, PendingKnown, AtWork, Counting
  <1>4. Kept'
    BY DEF TypeOK, Structure, Kinds, PendingKnown, Kept, AtWork
  <1>5. Begun'
    BY DEF TypeOK, Structure, Placed, Begun
  <1>6. CancelKept'
    BY DEF TypeOK, Structure, Placed, Begun, CancelKept, Counting
  <1> QED
    BY <1>1, <1>2, <1>3, <1>4, <1>5, <1>6

LEMMA AbortInv ==
  ASSUME IInv, UNCHANGED bound, NEW t \in Thread, Abort(t)
  PROVE  IInv'
  <1> USE RequestAssumption, HandlerAssumption, BoundAssumption
      DEF IInv, Abort, Thread, World, Playerdata, Countdown, Go, Return,
          Then, At, Obeyed, Stage, InTime, Confirming, request, thread, files,
          manager, history
  <1>1. TypeOK'
    BY DEF TypeOK
  <1>2. Structure'
    BY DEF TypeOK, Structure, Placed, Kinds, Locked, Owner, CountsDown, Counting
  <1>3. PendingKnown'
    BY DEF TypeOK, Structure, Placed, Locked, PendingKnown, AtWork, Counting
  <1>4. Kept'
    BY DEF TypeOK, Structure, Kinds, PendingKnown, Kept, AtWork
  <1>5. Begun'
    BY DEF TypeOK, Structure, Placed, Begun
  <1>6. CancelKept'
    BY DEF TypeOK, Structure, Placed, Begun, CancelKept, Counting
  <1> QED
    BY <1>1, <1>2, <1>3, <1>4, <1>5, <1>6

LEMMA AbortStopsInv ==
  ASSUME IInv, UNCHANGED bound, NEW t \in Thread, AbortStops(t)
  PROVE  IInv'
  <1> USE RequestAssumption, HandlerAssumption, BoundAssumption
      DEF IInv, AbortStops, Thread, World, Playerdata, Countdown, Go, Return,
          Then, At, Obeyed, Stage, InTime, Confirming, request, thread, files,
          manager, history
  <1>0. on[t] \in Request
    BY DEF Structure, Placed
  <1>1. TypeOK'
    <2>1. cancel' \in [Request -> {"nil", "armed", "done"}]
      BY <1>0 DEF TypeOK
    <2>2. comfirm' \in [Request -> {"nil", "running", "stopped"}] /\ panicked' \in BOOLEAN
      BY <1>0 DEF TypeOK
    <2>3. /\ pc' \in [Thread -> {"idle", "confirm", "tick", "abort", "stop"}]
          /\ on' \in [Thread -> Request \cup {NoRequest}]
      BY <1>0 DEF TypeOK
    <2>4. cancelled' \in SUBSET Request
      BY <1>0 DEF TypeOK
    <2> QED
      BY <2>1, <2>2, <2>3, <2>4 DEF TypeOK
  <1>2. Structure'
    BY DEF TypeOK, Structure, Placed, Kinds, Locked, Owner, CountsDown, Counting
  <1>3. PendingKnown'
    BY DEF TypeOK, Structure, Placed, Locked, PendingKnown, AtWork, Counting
  <1>4. Kept'
    BY DEF TypeOK, Structure, Kinds, PendingKnown, Kept, AtWork
  <1>5. Begun'
    BY DEF TypeOK, Structure, Placed, Begun
  <1>6. CancelKept'
    BY DEF TypeOK, Structure, Placed, Begun, CancelKept, Counting
  <1> QED
    BY <1>1, <1>2, <1>3, <1>4, <1>5, <1>6

LEMMA TickInv ==
  ASSUME IInv, UNCHANGED bound, NEW r \in World \cup Playerdata, Tick(r)
  PROVE  IInv'
  <1> USE RequestAssumption, HandlerAssumption, BoundAssumption
      DEF IInv, Tick, Thread, World, Playerdata, Countdown, Go, Return,
          Then, At, Obeyed, Stage, InTime, Confirming, request, thread, files,
          manager, history
  <1>0. r \in Request /\ bound.countdown \in Nat
    BY DEF TypeOK
  <1>1. TypeOK'
    <2>1. countdown' \in [Request -> 0..Countdown]
      <3>1. countdown[r] \in 0..bound.countdown /\ countdown[r] > 0
        BY <1>0 DEF TypeOK, Structure, CountsDown
      <3>2. countdown[r] - 1 \in 0..bound.countdown
        BY <1>0, <3>1
      <3> QED
        BY <1>0, <3>2 DEF TypeOK
    <2>2. comfirm' \in [Request -> {"nil", "running", "stopped"}]
      BY DEF TypeOK
    <2>3. exec' \in [Request -> Stage]
      BY DEF TypeOK
    <2> QED
      BY <2>1, <2>2, <2>3 DEF TypeOK
  <1>2. Structure'
    BY DEF TypeOK, Structure, Placed, Kinds, Locked, Owner, CountsDown, Counting
  <1>3. PendingKnown'
    BY DEF TypeOK, Structure, Placed, Locked, PendingKnown, AtWork, Counting
  <1>4. Kept'
    BY DEF TypeOK, Structure, Kinds, PendingKnown, Kept, AtWork
  <1>5. Begun'
    BY DEF TypeOK, Structure, Placed, Begun
  <1>6. CancelKept'
    BY DEF TypeOK, Structure, Placed, Begun, CancelKept, Counting
  <1> QED
    BY <1>1, <1>2, <1>3, <1>4, <1>5, <1>6

LEMMA TellInv ==
  ASSUME IInv, UNCHANGED bound, NEW r \in World \cup Playerdata, Tell(r)
  PROVE  IInv'
  <1> USE RequestAssumption, HandlerAssumption, BoundAssumption
      DEF IInv, Tell, Thread, World, Playerdata, Countdown, Go, Return,
          Then, At, Obeyed, Stage, InTime, Confirming, request, thread, files,
          manager, history
  <1>1. TypeOK'
    BY DEF TypeOK
  <1>2. Structure'
    BY DEF TypeOK, Structure, Placed, Kinds, Locked, Owner, CountsDown, Counting
  <1>3. PendingKnown'
    BY DEF TypeOK, Structure, Placed, Locked, PendingKnown, AtWork, Counting
  <1>4. Kept'
    BY DEF TypeOK, Structure, Kinds, PendingKnown, Kept, AtWork
  <1>5. Begun'
    BY DEF TypeOK, Structure, Placed, Begun
  <1>6. CancelKept'
    BY DEF TypeOK, Structure, Placed, Begun, CancelKept, Counting
  <1> QED
    BY <1>1, <1>2, <1>3, <1>4, <1>5, <1>6

LEMMA LockBackupInv ==
  ASSUME IInv, UNCHANGED bound, NEW r \in World \cup Playerdata, LockBackup(r)
  PROVE  IInv'
  <1> USE RequestAssumption, HandlerAssumption, BoundAssumption
      DEF IInv, LockBackup, Thread, World, Playerdata, Countdown, Go, Return,
          Then, At, Obeyed, Stage, InTime, Confirming, request, thread, files,
          manager, history
  <1>1. TypeOK'
    BY DEF TypeOK
  <1>2. Structure'
    <2>1. Placed' /\ Kinds' /\ Locked' /\ CountsDown'
      BY DEF TypeOK, Structure, Placed, Kinds, Locked, CountsDown, Counting
    <2>2. Owner'
      <3>1. \A q \in bound.world : q \in Request /\ q \notin {"free", "backup"}
        BY DEF TypeOK
      <3> QED
        BY <3>1 DEF TypeOK, Structure, Owner
    <2> QED
      BY <2>1, <2>2 DEF Structure
  <1>3. PendingKnown'
    BY DEF TypeOK, Structure, Placed, Locked, PendingKnown, AtWork, Counting
  <1>4. Kept'
    BY DEF TypeOK, Structure, Kinds, PendingKnown, Kept, AtWork
  <1>5. Begun'
    BY DEF TypeOK, Structure, Placed, Begun
  <1>6. CancelKept'
    BY DEF TypeOK, Structure, Placed, Begun, CancelKept, Counting
  <1> QED
    BY <1>1, <1>2, <1>3, <1>4, <1>5, <1>6

LEMMA StopGameInv ==
  ASSUME IInv, UNCHANGED bound, NEW r \in World \cup Playerdata, StopGame(r)
  PROVE  IInv'
  <1> USE RequestAssumption, HandlerAssumption, BoundAssumption
      DEF IInv, StopGame, Thread, World, Playerdata, Countdown, Go, Return,
          Then, At, Obeyed, Stage, InTime, Confirming, request, thread, files,
          manager, history
  <1>0. r \in Request
    BY DEF TypeOK
  <1>1. TypeOK'
    <2>1. gameUp' \in BOOLEAN
      BY DEF TypeOK
    <2>2. exposed' \in SUBSET Request
      BY <1>0 DEF TypeOK
    <2>3. exec' \in [Request -> Stage]
      BY <1>0 DEF TypeOK
    <2> QED
      BY <2>1, <2>2, <2>3 DEF TypeOK
  <1>2. Structure'
    BY DEF TypeOK, Structure, Placed, Kinds, Locked, Owner, CountsDown, Counting
  <1>3. PendingKnown'
    BY DEF TypeOK, Structure, Placed, Locked, PendingKnown, AtWork, Counting
  <1>4. Kept'
    BY DEF TypeOK, Structure, Kinds, PendingKnown, Kept, AtWork
  <1>5. Begun'
    BY DEF TypeOK, Structure, Placed, Begun
  <1>6. CancelKept'
    BY DEF TypeOK, Structure, Placed, Begun, CancelKept, Counting
  <1> QED
    BY <1>1, <1>2, <1>3, <1>4, <1>5, <1>6

LEMMA RemoveInv ==
  ASSUME IInv, UNCHANGED bound, NEW r \in World \cup Playerdata, Remove(r)
  PROVE  IInv'
  <1> USE RequestAssumption, HandlerAssumption, BoundAssumption
      DEF IInv, Remove, Thread, World, Playerdata, Countdown, Go, Return,
          Then, At, Obeyed, Stage, InTime, Confirming, request, thread, files,
          manager, history
  <1>1. TypeOK'
    BY DEF TypeOK
  <1>2. Structure'
    BY DEF TypeOK, Structure, Placed, Kinds, Locked, Owner, CountsDown, Counting
  <1>3. PendingKnown'
    BY DEF TypeOK, Structure, Placed, Locked, PendingKnown, AtWork, Counting
  <1>4. Kept'
    BY DEF TypeOK, Structure, Kinds, PendingKnown, Kept, AtWork
  <1>5. Begun'
    BY DEF TypeOK, Structure, Placed, Begun
  <1>6. CancelKept'
    BY DEF TypeOK, Structure, Placed, Begun, CancelKept, Counting
  <1> QED
    BY <1>1, <1>2, <1>3, <1>4, <1>5, <1>6

LEMMA CopyWorldInv ==
  ASSUME IInv, UNCHANGED bound, NEW r \in World \cup Playerdata, CopyWorld(r)
  PROVE  IInv'
  <1> USE RequestAssumption, HandlerAssumption, BoundAssumption
      DEF IInv, CopyWorld, Thread, World, Playerdata, Countdown, Go, Return,
          Then, At, Obeyed, Stage, InTime, Confirming, request, thread, files,
          manager, history
  <1>1. TypeOK'
    BY DEF TypeOK
  <1>2. Structure'
    BY DEF TypeOK, Structure, Placed, Kinds, Locked, Owner, CountsDown, Counting
  <1>3. PendingKnown'
    BY DEF TypeOK, Structure, Placed, Locked, PendingKnown, AtWork, Counting
  <1>4. Kept'
    BY DEF TypeOK, Structure, Kinds, PendingKnown, Kept, AtWork
  <1>5. Begun'
    BY DEF TypeOK, Structure, Placed, Begun
  <1>6. CancelKept'
    BY DEF TypeOK, Structure, Placed, Begun, CancelKept, Counting
  <1> QED
    BY <1>1, <1>2, <1>3, <1>4, <1>5, <1>6

LEMMA BootInv ==
  ASSUME IInv, UNCHANGED bound, NEW r \in World \cup Playerdata, Boot(r)
  PROVE  IInv'
  <1> USE RequestAssumption, HandlerAssumption, BoundAssumption
      DEF IInv, Boot, Thread, World, Playerdata, Countdown, Go, Return,
          Then, At, Obeyed, Stage, InTime, Confirming, request, thread, files,
          manager, history
  <1>0. r \in Request
    BY DEF TypeOK
  <1>1. TypeOK'
    <2>1. gameUp' \in BOOLEAN
      BY DEF TypeOK
    <2>2. exposed' = exposed
      OBVIOUS
    <2>3. exec' \in [Request -> Stage]
      BY <1>0 DEF TypeOK
    <2> QED
      BY <2>1, <2>2, <2>3 DEF TypeOK
  <1>2. Structure'
    BY DEF TypeOK, Structure, Placed, Kinds, Locked, Owner, CountsDown, Counting
  <1>3. PendingKnown'
    BY DEF TypeOK, Structure, Placed, Locked, PendingKnown, AtWork, Counting
  <1>4. Kept'
    BY DEF TypeOK, Structure, Kinds, PendingKnown, Kept, AtWork
  <1>5. Begun'
    BY DEF TypeOK, Structure, Placed, Begun
  <1>6. CancelKept'
    BY DEF TypeOK, Structure, Placed, Begun, CancelKept, Counting
  <1> QED
    BY <1>1, <1>2, <1>3, <1>4, <1>5, <1>6

LEMMA ReadyInv ==
  ASSUME IInv, UNCHANGED bound, NEW r \in World \cup Playerdata, Ready(r)
  PROVE  IInv'
  <1> USE RequestAssumption, HandlerAssumption, BoundAssumption
      DEF IInv, Ready, Thread, World, Playerdata, Countdown, Go, Return,
          Then, At, Obeyed, Stage, InTime, Confirming, request, thread, files,
          manager, history
  <1>1. TypeOK'
    BY DEF TypeOK
  <1>2. Structure'
    BY DEF TypeOK, Structure, Placed, Kinds, Locked, Owner, CountsDown, Counting
  <1>3. PendingKnown'
    BY DEF TypeOK, Structure, Placed, Locked, PendingKnown, AtWork, Counting
  <1>4. Kept'
    BY DEF TypeOK, Structure, Kinds, PendingKnown, Kept, AtWork
  <1>5. Begun'
    BY DEF TypeOK, Structure, Placed, Begun
  <1>6. CancelKept'
    BY DEF TypeOK, Structure, Placed, Begun, CancelKept, Counting
  <1> QED
    BY <1>1, <1>2, <1>3, <1>4, <1>5, <1>6

LEMMA KickInv ==
  ASSUME IInv, UNCHANGED bound, NEW r \in World \cup Playerdata, Kick(r)
  PROVE  IInv'
  <1> USE RequestAssumption, HandlerAssumption, BoundAssumption
      DEF IInv, Kick, Thread, World, Playerdata, Countdown, Go, Return,
          Then, At, Obeyed, Stage, InTime, Confirming, request, thread, files,
          manager, history
  <1>1. TypeOK'
    BY DEF TypeOK
  <1>2. Structure'
    BY DEF TypeOK, Structure, Placed, Kinds, Locked, Owner, CountsDown, Counting
  <1>3. PendingKnown'
    BY DEF TypeOK, Structure, Placed, Locked, PendingKnown, AtWork, Counting
  <1>4. Kept'
    BY DEF TypeOK, Structure, Kinds, PendingKnown, Kept, AtWork
  <1>5. Begun'
    BY DEF TypeOK, Structure, Placed, Begun
  <1>6. CancelKept'
    BY DEF TypeOK, Structure, Placed, Begun, CancelKept, Counting
  <1> QED
    BY <1>1, <1>2, <1>3, <1>4, <1>5, <1>6

LEMMA CopyPlayerdataInv ==
  ASSUME IInv, UNCHANGED bound, NEW r \in World \cup Playerdata, CopyPlayerdata(r)
  PROVE  IInv'
  <1> USE RequestAssumption, HandlerAssumption, BoundAssumption
      DEF IInv, CopyPlayerdata, Thread, World, Playerdata, Countdown, Go, Return,
          Then, At, Obeyed, Stage, InTime, Confirming, request, thread, files,
          manager, history
  <1>1. TypeOK'
    BY DEF TypeOK
  <1>2. Structure'
    BY DEF TypeOK, Structure, Placed, Kinds, Locked, Owner, CountsDown, Counting
  <1>3. PendingKnown'
    BY DEF TypeOK, Structure, Placed, Locked, PendingKnown, AtWork, Counting
  <1>4. Kept'
    BY DEF TypeOK, Structure, Kinds, PendingKnown, Kept, AtWork
  <1>5. Begun'
    BY DEF TypeOK, Structure, Placed, Begun
  <1>6. CancelKept'
    BY DEF TypeOK, Structure, Placed, Begun, CancelKept, Counting
  <1> QED
    BY <1>1, <1>2, <1>3, <1>4, <1>5, <1>6

LEMMA PardonInv ==
  ASSUME IInv, UNCHANGED bound, NEW r \in World \cup Playerdata, Pardon(r)
  PROVE  IInv'
  <1> USE RequestAssumption, HandlerAssumption, BoundAssumption
      DEF IInv, Pardon, Thread, World, Playerdata, Countdown, Go, Return,
          Then, At, Obeyed, Stage, InTime, Confirming, request, thread, files,
          manager, history
  <1>1. TypeOK'
    BY DEF TypeOK
  <1>2. Structure'
    BY DEF TypeOK, Structure, Placed, Kinds, Locked, Owner, CountsDown, Counting
  <1>3. PendingKnown'
    BY DEF TypeOK, Structure, Placed, Locked, PendingKnown, AtWork, Counting
  <1>4. Kept'
    BY DEF TypeOK, Structure, Kinds, PendingKnown, Kept, AtWork
  <1>5. Begun'
    BY DEF TypeOK, Structure, Placed, Begun
  <1>6. CancelKept'
    BY DEF TypeOK, Structure, Placed, Begun, CancelKept, Counting
  <1> QED
    BY <1>1, <1>2, <1>3, <1>4, <1>5, <1>6

LEMMA ClearInv ==
  ASSUME IInv, UNCHANGED bound, NEW r \in World \cup Playerdata, Clear(r)
  PROVE  IInv'
  <1> USE RequestAssumption, HandlerAssumption, BoundAssumption
      DEF IInv, Clear, Thread, World, Playerdata, Countdown, Go, Return,
          Then, At, Obeyed, Stage, InTime, Confirming, request, thread, files,
          manager, history
  <1>1. TypeOK'
    BY DEF TypeOK
  <1>2. Structure'
    BY DEF TypeOK, Structure, Placed, Kinds, Locked, Owner, CountsDown, Counting
  <1>3. PendingKnown'
    BY DEF TypeOK, Structure, Placed, Locked, PendingKnown, AtWork, Counting
  <1>4. Kept'
    BY DEF TypeOK, Structure, Kinds, PendingKnown, Kept, AtWork
  <1>5. Begun'
    BY DEF TypeOK, Structure, Placed, Begun
  <1>6. CancelKept'
    BY DEF TypeOK, Structure, Placed, Begun, CancelKept, Counting
  <1> QED
    BY <1>1, <1>2, <1>3, <1>4, <1>5, <1>6

LEMMA BeginBackupInv ==
  ASSUME IInv, UNCHANGED bound, BeginBackup
  PROVE  IInv'
  <1> USE RequestAssumption, HandlerAssumption, BoundAssumption
      DEF IInv, BeginBackup, Thread, World, Playerdata, Countdown, Go, Return,
          Then, At, Obeyed, Stage, InTime, Confirming, request, thread, files,
          manager, history
  <1>1. TypeOK'
    BY DEF TypeOK
  <1>2. Structure'
    <2>1. Placed' /\ Kinds' /\ Locked' /\ CountsDown'
      BY DEF TypeOK, Structure, Placed, Kinds, Locked, CountsDown, Counting
    <2>2. Owner'
      <3>1. \A q \in bound.world : q \in Request /\ q \notin {"free", "backup"}
        BY DEF TypeOK
      <3> QED
        BY <3>1 DEF TypeOK, Structure, Owner
    <2> QED
      BY <2>1, <2>2 DEF Structure
  <1>3. PendingKnown'
    BY DEF TypeOK, Structure, Placed, Locked, PendingKnown, AtWork, Counting
  <1>4. Kept'
    BY DEF TypeOK, Structure, Kinds, PendingKnown, Kept, AtWork
  <1>5. Begun'
    BY DEF TypeOK, Structure, Placed, Begun
  <1>6. CancelKept'
    BY DEF TypeOK, Structure, Placed, Begun, CancelKept, Counting
  <1> QED
    BY <1>1, <1>2, <1>3, <1>4, <1>5, <1>6

LEMMA EndBackupInv ==
  ASSUME IInv, UNCHANGED bound, EndBackup
  PROVE  IInv'
  <1> USE RequestAssumption, HandlerAssumption, BoundAssumption
      DEF IInv, EndBackup, Thread, World, Playerdata, Countdown, Go, Return,
          Then, At, Obeyed, Stage, InTime, Confirming, request, thread, files,
          manager, history
  <1>1. TypeOK'
    BY DEF TypeOK
  <1>2. Structure'
    <2>1. Placed' /\ Kinds' /\ Locked' /\ CountsDown'
      BY DEF TypeOK, Structure, Placed, Kinds, Locked, CountsDown, Counting
    <2>2. Owner'
      <3>1. \A q \in bound.world : q \in Request /\ q \notin {"free", "backup"}
        BY DEF TypeOK
      <3> QED
        BY <3>1 DEF TypeOK, Structure, Owner
    <2> QED
      BY <2>1, <2>2 DEF Structure
  <1>3. PendingKnown'
    BY DEF TypeOK, Structure, Placed, Locked, PendingKnown, AtWork, Counting
  <1>4. Kept'
    BY DEF TypeOK, Structure, Kinds, PendingKnown, Kept, AtWork
  <1>5. Begun'
    BY DEF TypeOK, Structure, Placed, Begun
  <1>6. CancelKept'
    BY DEF TypeOK, Structure, Placed, Begun, CancelKept, Counting
  <1> QED
    BY <1>1, <1>2, <1>3, <1>4, <1>5, <1>6

LEMMA GameEndsInv ==
  ASSUME IInv, UNCHANGED bound, GameEnds
  PROVE  IInv'
  <1> USE RequestAssumption, HandlerAssumption, BoundAssumption
      DEF IInv, GameEnds, Thread, World, Playerdata, Countdown, Go, Return,
          Then, At, Obeyed, Stage, InTime, Confirming, request, thread, files,
          manager, history
  <1>1. TypeOK'
    BY DEF TypeOK
  <1>2. Structure'
    BY DEF TypeOK, Structure, Placed, Kinds, Locked, Owner, CountsDown, Counting
  <1>3. PendingKnown'
    BY DEF TypeOK, Structure, Placed, Locked, PendingKnown, AtWork, Counting
  <1>4. Kept'
    BY DEF TypeOK, Structure, Kinds, PendingKnown, Kept, AtWork
  <1>5. Begun'
    BY DEF TypeOK, Structure, Placed, Begun
  <1>6. CancelKept'
    BY DEF TypeOK, Structure, Placed, Begun, CancelKept, Counting
  <1> QED
    BY <1>1, <1>2, <1>3, <1>4, <1>5, <1>6

LEMMA DisconnectInv ==
  ASSUME IInv, UNCHANGED bound, Disconnect
  PROVE  IInv'
  <1> USE RequestAssumption, HandlerAssumption, BoundAssumption
      DEF IInv, Disconnect, Thread, World, Playerdata, Countdown, Go, Return,
          Then, At, Obeyed, Stage, InTime, Confirming, request, thread, files,
          manager, history
  <1>1. TypeOK'
    BY DEF TypeOK
  <1>2. Structure'
    BY DEF TypeOK, Structure, Placed, Kinds, Locked, Owner, CountsDown, Counting
  <1>3. PendingKnown'
    BY DEF TypeOK, Structure, Placed, Locked, PendingKnown, AtWork, Counting
  <1>4. Kept'
    BY DEF TypeOK, Structure, Kinds, PendingKnown, Kept, AtWork
  <1>5. Begun'
    BY DEF TypeOK, Structure, Placed, Begun
  <1>6. CancelKept'
    BY DEF TypeOK, Structure, Placed, Begun, CancelKept, Counting
  <1> QED
    BY <1>1, <1>2, <1>3, <1>4, <1>5, <1>6

LEMMA StarveInv ==
  ASSUME IInv, UNCHANGED bound, Starve
  PROVE  IInv'
  <1> USE RequestAssumption, HandlerAssumption, BoundAssumption
      DEF IInv, Starve, Thread, World, Playerdata, Countdown, Go, Return,
          Then, At, Obeyed, Stage, InTime, Confirming, request, thread, files,
          manager, history
  <1>1. TypeOK'
    BY DEF TypeOK
  <1>2. Structure'
    BY DEF TypeOK, Structure, Placed, Kinds, Locked, Owner, CountsDown, Counting
  <1>3. PendingKnown'
    BY DEF TypeOK, Structure, Placed, Locked, PendingKnown, AtWork, Counting
  <1>4. Kept'
    BY DEF TypeOK, Structure, Kinds, PendingKnown, Kept, AtWork
  <1>5. Begun'
    BY DEF TypeOK, Structure, Placed, Begun
  <1>6. CancelKept'
    BY DEF TypeOK, Structure, Placed, Begun, CancelKept, Counting
  <1> QED
    BY <1>1, <1>2, <1>3, <1>4, <1>5, <1>6

LEMMA PauseInv ==
  ASSUME IInv, UNCHANGED bound, Pause
  PROVE  IInv'
  <1> USE RequestAssumption, HandlerAssumption, BoundAssumption
      DEF IInv, Pause, Thread, World, Playerdata, Countdown, Go, Return,
          Then, At, Obeyed, Stage, InTime, Confirming, request, thread, files,
          manager, history
  <1>1. TypeOK'
    BY DEF TypeOK
  <1>2. Structure'
    BY DEF TypeOK, Structure, Placed, Kinds, Locked, Owner, CountsDown, Counting
  <1>3. PendingKnown'
    BY DEF TypeOK, Structure, Placed, Locked, PendingKnown, AtWork, Counting
  <1>4. Kept'
    BY DEF TypeOK, Structure, Kinds, PendingKnown, Kept, AtWork
  <1>5. Begun'
    BY DEF TypeOK, Structure, Placed, Begun
  <1>6. CancelKept'
    BY DEF TypeOK, Structure, Placed, Begun, CancelKept, Counting
  <1> QED
    BY <1>1, <1>2, <1>3, <1>4, <1>5, <1>6

LEMMA LoginInv ==
  ASSUME IInv, UNCHANGED bound, Login
  PROVE  IInv'
  <1> USE RequestAssumption, HandlerAssumption, BoundAssumption
      DEF IInv, Login, Thread, World, Playerdata, Countdown, Go, Return,
          Then, At, Obeyed, Stage, InTime, Confirming, request, thread, files,
          manager, history
  <1>1. TypeOK'
    BY DEF TypeOK
  <1>2. Structure'
    BY DEF TypeOK, Structure, Placed, Kinds, Locked, Owner, CountsDown, Counting
  <1>3. PendingKnown'
    BY DEF TypeOK, Structure, Placed, Locked, PendingKnown, AtWork, Counting
  <1>4. Kept'
    BY DEF TypeOK, Structure, Kinds, PendingKnown, Kept, AtWork
  <1>5. Begun'
    BY DEF TypeOK, Structure, Placed, Begun
  <1>6. CancelKept'
    BY DEF TypeOK, Structure, Placed, Begun, CancelKept, Counting
  <1> QED
    BY <1>1, <1>2, <1>3, <1>4, <1>5, <1>6

LEMMA RestartInv ==
  ASSUME IInv, UNCHANGED bound, Restart
  PROVE  IInv'
  <1> USE RequestAssumption, HandlerAssumption, BoundAssumption
      DEF IInv, Restart, Thread, World, Playerdata, Countdown, Go, Return,
          Then, At, Obeyed, Stage, InTime, Confirming, request, thread, files,
          manager, history
  <1>1. TypeOK'
    BY DEF TypeOK
  <1>2. Structure'
    BY DEF TypeOK, Structure, Placed, Kinds, Locked, Owner, CountsDown, Counting
  <1>3. PendingKnown'
    BY DEF TypeOK, Structure, Placed, Locked, PendingKnown, AtWork, Counting
  <1>4. Kept'
    BY DEF TypeOK, Structure, Kinds, PendingKnown, Kept, AtWork
  <1>5. Begun'
    BY DEF TypeOK, Structure, Placed, Begun
  <1>6. CancelKept'
    BY DEF TypeOK, Structure, Placed, Begun, CancelKept, Counting
  <1> QED
    BY <1>1, <1>2, <1>3, <1>4, <1>5, <1>6

-----------------------------------------------------------------------------
LEMMA StepInvariant == IInv /\ [Next]_vars => IInv'
  <1> SUFFICES ASSUME IInv, [Next]_vars PROVE IInv'
    OBVIOUS
  <1>1. CASE UNCHANGED vars
    BY <1>1 DEF vars, IInv, TypeOK, Structure, Placed, Kinds, Locked, Owner,
                CountsDown, PendingKnown, Kept, Begun, CancelKept, AtWork, InTime,
                Confirming, Counting, World, Playerdata, Countdown
  <1>2. ASSUME UNCHANGED bound, NEW r \in World \cup Playerdata,
               StartStep(r) \/ Timeout(r)
        PROVE  IInv'
    <2>1. r \in Request
      BY BoundAssumption DEF World, Playerdata, IInv, TypeOK
    <2> QED
      BY <1>2, <2>1, CheckPendingInv, SetPendingInv, ArmCancelInv, TimeoutInv
      DEF StartStep
  <1>3. ASSUME UNCHANGED bound, NEW r \in World \cup Playerdata, Execute(r)
        PROVE  IInv'
    BY <1>3, TickInv, TellInv, ReadyInv, LockBackupInv, StopGameInv, RemoveInv, CopyWorldInv,
       BootInv, KickInv, CopyPlayerdataInv, PardonInv, ClearInv
    DEF Execute
  <1>4. ASSUME UNCHANGED bound, NEW h \in bound.handlers,
               \/ Command(h) \/ ConfirmStep(h)
               \/ \E r \in Request : Button(h, r)
        PROVE  IInv'
    <2>1. h \in Handler
      BY BoundAssumption DEF IInv, TypeOK
    <2> QED
      BY <1>4, <2>1, CommandInv, ButtonInv, ConfirmLockInv, ConfirmTickInv
      DEF ConfirmStep
  <1>5. ASSUME UNCHANGED bound, NEW t \in Thread, ThreadStep(t)
        PROVE  IInv'
    BY <1>5, AbortInv, AbortStopsInv DEF ThreadStep
  <1>6. ASSUME UNCHANGED bound, Environment
        PROVE  IInv'
    BY <1>6, BeginBackupInv, EndBackupInv, GameEndsInv, DisconnectInv, StarveInv,
       PauseInv, LoginInv, RestartInv
    DEF Environment
  <1> QED
    BY <1>1, <1>2, <1>3, <1>4, <1>5, <1>6 DEF Next

(* Everything keeps to its type; a countdown never leaves its range.       *)
THEOREM TypeCorrect == Spec => []TypeOK
  <1>1. IInv => TypeOK
    BY DEF IInv
  <1> QED
    BY <1>1, InitInvariant, StepInvariant, PTL DEF Spec

(* Two rollbacks work side by side only if something has raced or has been *)
(* cancelled too late: the one at work is the one that is pending.         *)
THEOREM OneRollback == Spec => []OneAtATime
  <1>1. IInv => OneAtATime
    BY DEF IInv, PendingKnown, OneAtATime
  <1> QED
    BY <1>1, InitInvariant, StepInvariant, PTL DEF Spec

(* Files are replaced by one rollback at a time, while no backup reads     *)
(* the world and, with the exceptions of UnusedWhileCopied, no game uses   *)
(* them, whenever it ends, the link breaks or a reconnection starts it.    *)
THEOREM NobodyUsesFiles == Spec => []FilesUnused
  <1>1. ASSUME IInv PROVE WorldExclusive
    <2>1. \A r \in World : r \in Request /\ r # "backup"
      BY <1>1, BoundAssumption, RequestAssumption DEF IInv, TypeOK, World
    <2> QED
      BY <1>1, <2>1 DEF IInv, Structure, Owner, WorldExclusive
  <1>2. IInv => UnusedWhileCopied
    BY DEF IInv, Kept, UnusedWhileCopied
  <1>3. IInv => FilesUnused
    BY <1>1, <1>2 DEF FilesUnused
  <1> QED
    BY <1>3, InitInvariant, StepInvariant, PTL DEF Spec

(* A cancellation that is reported in time holds: nothing revives the      *)
(* countdown it has stopped, and nothing confirms the request any more.    *)
THEOREM CancelIsKept == Spec => []CancelHolds
  <1>1. IInv => CancelHolds
    BY DEF IInv, CancelKept, CancelHolds, Counting
  <1> QED
    BY <1>1, InitInvariant, StepInvariant, PTL DEF Spec
=============================================================================
