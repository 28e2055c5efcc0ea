-------------------------- MODULE GameProcessProofs --------------------------
(***************************************************************************)
(* Proofs about the game process, for any number of handlers, games and    *)
(* calls and any capacity of the message bus.                              *)
(***************************************************************************)
EXTENDS GameProcess, TLAPS

(* A Start that has passed the check and set the state; one that has       *)
(* created its game; and a stopDetect that has not yet set the state back. *)
Starting(h) == pc[h] \in {"spawn", "process", "pty", "bus", "reader", "watch"}
Created(h) == pc[h] \in {"process", "pty", "bus", "reader", "watch"}
Watching(s) == detector[s] \in {"new", "wait", "close", "state"}

(* What each of them knows of the shared fields.                           *)
StartKnows ==
  \A h \in Handler :
    /\ Created(h) => mine[h] \in Game
    /\ pc[h] \in {"pty", "bus", "reader", "watch"} => process = mine[h]
    /\ pc[h] \in {"bus", "reader", "watch"} => pty = mine[h]

DetectorKnows ==
  \A s \in Game :
    /\ Watching(s) => process \in Game /\ pty = process
    /\ detector[s] \in {"wait", "close", "state"} => watched[s] = process
    /\ detector[s] \in {"close", "state"} => game[process] = "exited"

(* A Stop waits for a game there is; a timer has a process to signal.      *)
StopKnows ==
  /\ \A h \in Handler : /\ pc[h] \in {"wait", "close"} => mine[h] \in Game /\ pty \in Game
                        /\ pc[h] = "close" => game[mine[h]] = "exited"
  /\ timers > 0 => process \in Game

(* The state is running from the moment a Start sets it until the          *)
(* stopDetect of its game sets it back: one Start or one stopDetect is at  *)
(* work in that time, and none in any other.                               *)
OneAtWork ==
  /\ \A h \in Handler : \A i \in Handler : Starting(h) /\ Starting(i) => h = i
  /\ \A s \in Game : \A t \in Game : Watching(s) /\ Watching(t) => s = t
  /\ \A h \in Handler : \A s \in Game : ~(Starting(h) /\ Watching(s))
  /\ state = "stopped" => /\ \A h \in Handler : ~Starting(h)
                          /\ \A s \in Game : ~Watching(s)
  /\ state = "running" => \A h \in Handler : pc[h] # "set"
  /\ state = "running" /\ ~failed => \/ \E h \in Handler : Starting(h)
                                     \/ \E s \in Game : Watching(s)

(* A game that is up belongs to the Start that has created it or to the    *)
(* stopDetect that waits, or will wait, for it.                            *)
Owned(g) ==
  \/ \E h \in Handler : Created(h) /\ mine[h] = g
  \/ \E s \in Game : /\ detector[s] \in {"new", "wait"} /\ process = g

GamesOwned == \A g \in Game : game[g] = "up" => Owned(g)

(* The parts that hold until two Starts have raced; nothing is followed    *)
(* from then on.                                                           *)
Undisturbed == /\ StartKnows
               /\ DetectorKnows
               /\ OneAtWork
               /\ GamesOwned

IInv == /\ TypeOK
        /\ StopKnows
        /\ ~raced => Undisturbed
        /\ PtyOutlivesGame
-----------------------------------------------------------------------------
LEMMA InitInvariant == Init => IInv
  <1> SUFFICES ASSUME Init PROVE IInv
    OBVIOUS
  <1> USE BoundAssumption, CapAssumption DEF Init, Game
  <1>1. TypeOK
    <2>1. /\ bus \in 0..Cap /\ calls \in 0..MaxCalls /\ timers \in Nat
          /\ process \in 0..MaxGames /\ pty \in 0..MaxGames
      OBVIOUS
    <2>2. /\ mine \in [Handler -> 0..MaxGames]
          /\ watched \in [Game -> 0..MaxGames]
          /\ scanned \in [Game -> 0..MaxGames]
      OBVIOUS
    <2>3. /\ game \in [Game -> {"none", "up", "exited"}]
          /\ detector \in [Game -> {"none", "new", "wait", "close", "state", "send"}]
          /\ reader \in [Game -> {"none", "new", "begin", "scan", "end"}]
          /\ pc \in [Handler -> {"idle", "check", "set", "spawn", "process", "pty",
                        "bus", "reader", "watch", "stop", "ask", "wait", "close"}]
      OBVIOUS
    <2> QED
      BY <2>1, <2>2, <2>3 DEF TypeOK
  <1>2. StopKnows /\ StartKnows /\ DetectorKnows /\ GamesOwned
    BY DEF StopKnows, StartKnows, DetectorKnows, GamesOwned, Created, Watching
  <1>3. OneAtWork /\ PtyOutlivesGame
    BY DEF OneAtWork, PtyOutlivesGame, Starting, Watching
  <1> QED
    BY <1>1, <1>2, <1>3 DEF IInv, Undisturbed

(* Games keep their owners in a step that changes neither.                 *)
LEMMA OwnersStay ==
  ASSUME GamesOwned, UNCHANGED <<game, process>>,
         \A i \in Handler : Created(i) => Created(i)' /\ mine'[i] = mine[i],
         \A t \in Game : detector[t] \in {"new", "wait"} =>
                           detector'[t] \in {"new", "wait"}
  PROVE  GamesOwned'
  <1> SUFFICES ASSUME NEW g \in Game, game[g] = "up"
               PROVE  Owned(g)'
    BY DEF GamesOwned
  <1>1. Owned(g)
    BY DEF GamesOwned
  <1>2. CASE \E i \in Handler : Created(i) /\ mine[i] = g
    BY <1>2 DEF Owned
  <1>3. CASE \E t \in Game : detector[t] \in {"new", "wait"} /\ process = g
    BY <1>3 DEF Owned
  <1> QED
    BY <1>1, <1>2, <1>3 DEF Owned

(* What does not touch these variables only has its types to check.        *)
LEMMA Untouched ==
  ASSUME IInv, TypeOK',
         UNCHANGED <<rpc, instance, games, watch, timers, history>>
  PROVE  IInv'
  <1> USE DEF rpc, instance, games, watch, history
  <1>1. StopKnows' /\ PtyOutlivesGame'
    BY DEF IInv, StopKnows, PtyOutlivesGame
  <1>2. Undisturbed' <=> Undisturbed
    BY DEF Undisturbed, StartKnows, DetectorKnows, OneAtWork, GamesOwned, Owned,
           Starting, Created, Watching
  <1> QED
    BY <1>1, <1>2 DEF IInv

LEMMA CallInv ==
  ASSUME IInv, ~raced, NEW h \in Handler, NEW l \in {"check", "stop"},
         Call(h, l)
  PROVE  IInv'
  <1> USE BoundAssumption, CapAssumption
      DEF IInv, Game, Call, Goto, Return, rpc, instance, games, watch, log, history, rest
  <1>1. TypeOK'
    <2>1. calls' \in 0..MaxCalls
      BY DEF TypeOK
    <2> QED
      BY <2>1 DEF TypeOK
  <1>2. StopKnows'
    BY DEF TypeOK, StopKnows, Undisturbed, StartKnows, Created
  <1>3. ASSUME ~raced' PROVE Undisturbed'
    <2>1. StartKnows'
      BY <1>3 DEF TypeOK, Undisturbed, StartKnows, OneAtWork, Starting, Created
    <2>2. DetectorKnows'
      BY <1>3 DEF TypeOK, Undisturbed, DetectorKnows, OneAtWork, StartKnows,
                  Starting, Created, Watching
    <2>3. OneAtWork'
      BY <1>3 DEF TypeOK, Undisturbed, OneAtWork, Starting, Watching
    <2>4. GamesOwned'
      <3>1. \A i \in Handler : Created(i) => Created(i)' /\ mine'[i] = mine[i]
        BY DEF TypeOK, Created
      <3>2. \A t \in Game : detector[t] \in {"new", "wait"} =>
                             detector'[t] \in {"new", "wait"}
        BY DEF TypeOK
      <3> QED
        BY <1>3, <3>1, <3>2, OwnersStay DEF Undisturbed
    <2> QED
      BY <2>1, <2>2, <2>3, <2>4 DEF Undisturbed
  <1>4. PtyOutlivesGame'
    BY DEF TypeOK, PtyOutlivesGame, StopKnows, Undisturbed, DetectorKnows, Watching
  <1> QED
    BY <1>1, <1>2, <1>3, <1>4

LEMMA StartCheckInv ==
  ASSUME IInv, ~raced, NEW h \in Handler, StartCheck(h)
  PROVE  IInv'
  <1> USE BoundAssumption, CapAssumption
      DEF IInv, Game, StartCheck, Goto, Return, rpc, instance, games, watch, log, history, rest
  <1>1. TypeOK'
    BY DEF TypeOK, Undisturbed, StopKnows, StartKnows, DetectorKnows, Created, Watching
  <1>2. StopKnows'
    BY DEF TypeOK, StopKnows, Undisturbed, StartKnows, Created
  <1>3. ASSUME ~raced' PROVE Undisturbed'
    <2>1. StartKnows'
      BY <1>3 DEF TypeOK, Undisturbed, StartKnows, OneAtWork, Starting, Created
    <2>2. DetectorKnows'
      BY <1>3 DEF TypeOK, Undisturbed, DetectorKnows, OneAtWork, StartKnows,
                  Starting, Created, Watching
    <2>3. OneAtWork'
      BY <1>3 DEF TypeOK, Undisturbed, OneAtWork, Starting, Watching
    <2>4. GamesOwned'
      <3>1. \A i \in Handler : Created(i) => Created(i)' /\ mine'[i] = mine[i]
        BY DEF TypeOK, Created
      <3>2. \A t \in Game : detector[t] \in {"new", "wait"} =>
                             detector'[t] \in {"new", "wait"}
        BY DEF TypeOK
      <3> QED
        BY <1>3, <3>1, <3>2, OwnersStay DEF Undisturbed
    <2> QED
      BY <2>1, <2>2, <2>3, <2>4 DEF Undisturbed
  <1>4. PtyOutlivesGame'
    BY DEF TypeOK, PtyOutlivesGame, StopKnows, Undisturbed, DetectorKnows, Watching
  <1> QED
    BY <1>1, <1>2, <1>3, <1>4

(* A Start that sets the state finds nobody at work, or else has raced.    *)
LEMMA StartSetInv ==
  ASSUME IInv, ~raced, NEW h \in Handler, StartSet(h)
  PROVE  IInv'
  <1> USE BoundAssumption, CapAssumption
      DEF IInv, Game, StartSet, Goto, Return, rpc, instance, games, watch, log, history, rest
  <1>1. TypeOK'
    BY DEF TypeOK, Undisturbed, StopKnows, StartKnows, DetectorKnows, Created, Watching
  <1>2. StopKnows'
    BY DEF TypeOK, StopKnows, Undisturbed, StartKnows, Created
  <1>3. ASSUME ~raced' PROVE Undisturbed'
    <2>1. StartKnows'
      BY <1>3 DEF TypeOK, Undisturbed, StartKnows, OneAtWork, Starting, Created
    <2>2. DetectorKnows'
      BY <1>3 DEF TypeOK, Undisturbed, DetectorKnows, OneAtWork, StartKnows,
                  Starting, Created, Watching
    <2>3. OneAtWork'
      <3>1. state = "stopped" /\ \A i \in Handler \ {h} : pc[i] # "set"
        BY <1>3 DEF TypeOK
      <3>2. /\ \A i \in Handler : ~Starting(i)
            /\ \A t \in Game : ~Watching(t)
        BY <3>1 DEF Undisturbed, OneAtWork
      <3>3. /\ \A i \in Handler : Starting(i)' <=> i = h
            /\ \A t \in Game : ~Watching(t)'
            /\ \A i \in Handler : pc'[i] # "set"
        BY <3>1, <3>2 DEF TypeOK, Starting, Watching
      <3> QED
        BY <3>3 DEF OneAtWork
    <2>4. GamesOwned'
      <3>1. \A i \in Handler : Created(i) => Created(i)' /\ mine'[i] = mine[i]
        BY DEF TypeOK, Created
      <3>2. \A t \in Game : detector[t] \in {"new", "wait"} =>
                             detector'[t] \in {"new", "wait"}
        BY DEF TypeOK
      <3> QED
        BY <1>3, <3>1, <3>2, OwnersStay DEF Undisturbed
    <2> QED
      BY <2>1, <2>2, <2>3, <2>4 DEF Undisturbed
  <1>4. PtyOutlivesGame'
    BY DEF TypeOK, PtyOutlivesGame, StopKnows, Undisturbed, DetectorKnows, Watching
  <1> QED
    BY <1>1, <1>2, <1>3, <1>4

(* A Start that creates a game owns it; there is no other that is up.      *)
LEMMA SpawnInv ==
  ASSUME IInv, ~raced, NEW h \in Handler, Spawn(h)
  PROVE  IInv'
  <1> USE BoundAssumption, CapAssumption
      DEF IInv, Game, Spawn, Goto, Return, rpc, instance, games, watch, log, history, rest
  <1>0. \A i \in Game : game[i] = "exited" => game'[i] = "exited"
    BY DEF TypeOK
  <1>1. TypeOK'
    <2>1. game' \in [Game -> {"none", "up", "exited"}]
      BY DEF TypeOK
    <2>3. mine' \in [Handler -> 0..MaxGames]
      <3>1. CASE mine' = mine
        BY <3>1 DEF TypeOK
      <3>2. ASSUME NEW g \in Game, mine' = [mine EXCEPT ![h] = g]
            PROVE  mine' \in [Handler -> 0..MaxGames]
        <4>1. g \in 0..MaxGames /\ mine \in [Handler -> 0..MaxGames]
          BY DEF TypeOK
        <4> QED
          BY <3>2, <4>1
      <3>3. mine' = mine \/ \E g \in Game : mine' = [mine EXCEPT ![h] = g]
        OBVIOUS
      <3> QED
        BY <3>1, <3>2, <3>3
    <2>4. failed' \in BOOLEAN
      BY DEF TypeOK
    <2>2. pc' \in [Handler -> {"idle", "check", "set", "spawn", "process", "pty",
                       "bus", "reader", "watch", "stop", "ask", "wait", "close"}]
      BY DEF TypeOK
    <2> QED
      BY <2>1, <2>2, <2>3, <2>4 DEF TypeOK
  <1>2. StopKnows'
    <2>1. \A i \in Handler : pc'[i] \in {"wait", "close"} =>
                              pc'[i] = pc[i] /\ mine'[i] = mine[i]
      BY DEF TypeOK
    <2> QED
      BY <1>0, <2>1 DEF TypeOK, StopKnows
  <1>3. ASSUME ~raced' PROVE Undisturbed'
    <2>1. StartKnows'
      BY <1>3 DEF TypeOK, Undisturbed, StartKnows, OneAtWork, Starting, Created
    <2>2. DetectorKnows'
      BY <1>3 DEF TypeOK, Undisturbed, DetectorKnows, OneAtWork, StartKnows,
                  Starting, Created, Watching
    <2>3. OneAtWork'
      <3>1. \A i \in Handler : /\ Starting(i)' => Starting(i)
                               /\ pc'[i] = "set" => pc[i] = "set"
        BY DEF TypeOK, Starting
      <3>2. failed' \/ Starting(h)'
        BY DEF TypeOK, Starting
      <3>3. \A t \in Game : Watching(t)' <=> Watching(t)
        BY DEF Watching
      <3>4. OneAtWork /\ Starting(h) /\ state' = state /\ (failed => failed')
        BY DEF Undisturbed, Starting
      <3>5. state # "stopped"
        BY <3>4 DEF OneAtWork
      <3>6. \A i \in Handler : \A j \in Handler : Starting(i)' /\ Starting(j)' => i = j
        <4>1. \A i \in Handler : \A j \in Handler : Starting(i) /\ Starting(j) => i = j
          BY <3>4 DEF OneAtWork
        <4> QED
          BY <3>1, <4>1
      <3>7. /\ \A u \in Game : \A t \in Game : Watching(u)' /\ Watching(t)' => u = t
            /\ \A i \in Handler : \A t \in Game : ~(Starting(i)' /\ Watching(t)')
        BY <3>1, <3>3, <3>4 DEF OneAtWork
      <3>8. \A i \in Handler : pc'[i] # "set"
        <4>1. \A i \in Handler : pc[i] # "set"
          <5>1. state = "running"
            BY <3>5 DEF TypeOK
          <5> QED
            BY <3>4, <5>1 DEF OneAtWork
        <4> QED
          BY <3>1, <4>1
      <3> QED
        BY <3>2, <3>4, <3>5, <3>6, <3>7, <3>8 DEF OneAtWork
    <2>4. GamesOwned'
      <3>1. Starting(h)
        BY DEF Starting
      <3>2. /\ \A i \in Handler : ~Created(i)
            /\ \A t \in Game : ~Watching(t)
        BY <3>1 DEF Undisturbed, OneAtWork, Starting, Created
      <3>3. \A g \in Game : game[g] # "up"
        BY <3>2 DEF Undisturbed, GamesOwned, Owned, Watching
      <3>4. ASSUME NEW g \in Game, game'[g] = "up"
            PROVE  Created(h)' /\ mine'[h] = g
        BY <3>3, <3>4 DEF TypeOK, Created
      <3> QED
        BY <3>4 DEF GamesOwned, Owned
    <2> QED
      BY <2>1, <2>2, <2>3, <2>4 DEF Undisturbed
  <1>4. PtyOutlivesGame'
    BY DEF TypeOK, PtyOutlivesGame, StopKnows, Undisturbed, DetectorKnows, Watching
  <1> QED
    BY <1>1, <1>2, <1>3, <1>4

LEMMA SetProcessInv ==
  ASSUME IInv, ~raced, NEW h \in Handler, SetProcess(h)
  PROVE  IInv'
  <1> USE BoundAssumption, CapAssumption
      DEF IInv, Game, SetProcess, Goto, Return, rpc, instance, games, watch, log, history, rest
  <1>1. TypeOK'
    BY DEF TypeOK, Undisturbed, StopKnows, StartKnows, DetectorKnows, Created, Watching
  <1>2. StopKnows'
    BY DEF TypeOK, StopKnows, Undisturbed, StartKnows, Created
  <1>3. ASSUME ~raced' PROVE Undisturbed'
    <2>1. StartKnows'
      BY <1>3 DEF TypeOK, Undisturbed, StartKnows, OneAtWork, Starting, Created
    <2>2. DetectorKnows'
      BY <1>3 DEF TypeOK, Undisturbed, DetectorKnows, OneAtWork, StartKnows,
                  Starting, Created, Watching
    <2>3. OneAtWork'
      BY <1>3 DEF TypeOK, Undisturbed, OneAtWork, Starting, Watching
    <2>4. GamesOwned'
      <3>1. Starting(h)
        BY DEF Starting
      <3>2. \A t \in Game : ~Watching(t)
        BY <3>1 DEF Undisturbed, OneAtWork
      <3>3. \A i \in Handler : Created(i) => Created(i)'
        BY DEF TypeOK, Created
      <3>4. ASSUME NEW g \in Game, game[g] = "up"
            PROVE  \E i \in Handler : Created(i) /\ mine[i] = g
        BY <3>2, <3>4 DEF Undisturbed, GamesOwned, Owned, Watching
      <3> QED
        BY <3>3, <3>4 DEF GamesOwned, Owned
    <2> QED
      BY <2>1, <2>2, <2>3, <2>4 DEF Undisturbed
  <1>4. PtyOutlivesGame'
    BY DEF TypeOK, PtyOutlivesGame, StopKnows, Undisturbed, DetectorKnows, Watching
  <1> QED
    BY <1>1, <1>2, <1>3, <1>4

LEMMA SetPtyInv ==
  ASSUME IInv, ~raced, NEW h \in Handler, SetPty(h)
  PROVE  IInv'
  <1> USE BoundAssumption, CapAssumption
      DEF IInv, Game, SetPty, Goto, Return, rpc, instance, games, watch, log, history, rest
  <1>1. TypeOK'
    BY DEF TypeOK, Undisturbed, StopKnows, StartKnows, DetectorKnows, Created, Watching
  <1>2. StopKnows'
    BY DEF TypeOK, StopKnows, Undisturbed, StartKnows, Created
  <1>3. ASSUME ~raced' PROVE Undisturbed'
    <2>1. StartKnows'
      BY <1>3 DEF TypeOK, Undisturbed, StartKnows, OneAtWork, Starting, Created
    <2>2. DetectorKnows'
      BY <1>3 DEF TypeOK, Undisturbed, DetectorKnows, OneAtWork, StartKnows,
                  Starting, Created, Watching
    <2>3. OneAtWork'
      BY <1>3 DEF TypeOK, Undisturbed, OneAtWork, Starting, Watching
    <2>4. GamesOwned'
      <3>1. \A i \in Handler : Created(i) => Created(i)' /\ mine'[i] = mine[i]
        BY DEF TypeOK, Created
      <3>2. \A t \in Game : detector[t] \in {"new", "wait"} =>
                             detector'[t] \in {"new", "wait"}
        BY DEF TypeOK
      <3> QED
        BY <1>3, <3>1, <3>2, OwnersStay DEF Undisturbed
    <2> QED
      BY <2>1, <2>2, <2>3, <2>4 DEF Undisturbed
  <1>4. PtyOutlivesGame'
    BY DEF TypeOK, PtyOutlivesGame, StopKnows, Undisturbed, DetectorKnows, Watching
  <1> QED
    BY <1>1, <1>2, <1>3, <1>4

LEMMA AnnounceInv ==
  ASSUME IInv, ~raced, NEW h \in Handler, Announce(h)
  PROVE  IInv'
  <1> USE BoundAssumption, CapAssumption
      DEF IInv, Game, Announce, Goto, Return, rpc, instance, games, watch, log, history, rest
  <1>1. TypeOK'
    <2>1. bus' \in 0..Cap
      BY DEF TypeOK
    <2> QED
      BY <2>1 DEF TypeOK
  <1>2. StopKnows'
    BY DEF TypeOK, StopKnows, Undisturbed, StartKnows, Created
  <1>3. ASSUME ~raced' PROVE Undisturbed'
    <2>1. StartKnows'
      BY <1>3 DEF TypeOK, Undisturbed, StartKnows, OneAtWork, Starting, Created
    <2>2. DetectorKnows'
      BY <1>3 DEF TypeOK, Undisturbed, DetectorKnows, OneAtWork, StartKnows,
                  Starting, Created, Watching
    <2>3. OneAtWork'
      BY <1>3 DEF TypeOK, Undisturbed, OneAtWork, Starting, Watching
    <2>4. GamesOwned'
      <3>1. \A i \in Handler : Created(i) => Created(i)' /\ mine'[i] = mine[i]
        BY DEF TypeOK, Created
      <3>2. \A t \in Game : detector[t] \in {"new", "wait"} =>
                             detector'[t] \in {"new", "wait"}
        BY DEF TypeOK
      <3> QED
        BY <1>3, <3>1, <3>2, OwnersStay DEF Undisturbed
    <2> QED
      BY <2>1, <2>2, <2>3, <2>4 DEF Undisturbed
  <1>4. PtyOutlivesGame'
    BY DEF TypeOK, PtyOutlivesGame, StopKnows, Undisturbed, DetectorKnows, Watching
  <1> QED
    BY <1>1, <1>2, <1>3, <1>4

LEMMA StartReaderInv ==
  ASSUME IInv, ~raced, NEW h \in Handler, StartReader(h)
  PROVE  IInv'
  <1> USE BoundAssumption, CapAssumption
      DEF IInv, Game, StartReader, Goto, Return, rpc, instance, games, watch, log, history, rest
  <1>1. TypeOK'
    BY DEF TypeOK, Undisturbed, StopKnows, StartKnows, DetectorKnows, Created, Watching
  <1>2. StopKnows'
    BY DEF TypeOK, StopKnows, Undisturbed, StartKnows, Created
  <1>3. ASSUME ~raced' PROVE Undisturbed'
    <2>1. StartKnows'
      BY <1>3 DEF TypeOK, Undisturbed, StartKnows, OneAtWork, Starting, Created
    <2>2. DetectorKnows'
      BY <1>3 DEF TypeOK, Undisturbed, DetectorKnows, OneAtWork, StartKnows,
                  Starting, Created, Watching
    <2>3. OneAtWork'
      BY <1>3 DEF TypeOK, Undisturbed, OneAtWork, Starting, Watching
    <2>4. GamesOwned'
      <3>1. \A i \in Handler : Created(i) => Created(i)' /\ mine'[i] = mine[i]
        BY DEF TypeOK, Created
      <3>2. \A t \in Game : detector[t] \in {"new", "wait"} =>
                             detector'[t] \in {"new", "wait"}
        BY DEF TypeOK
      <3> QED
        BY <1>3, <3>1, <3>2, OwnersStay DEF Undisturbed
    <2> QED
      BY <2>1, <2>2, <2>3, <2>4 DEF Undisturbed
  <1>4. PtyOutlivesGame'
    BY DEF TypeOK, PtyOutlivesGame, StopKnows, Undisturbed, DetectorKnows, Watching
  <1> QED
    BY <1>1, <1>2, <1>3, <1>4

(* The Start hands its game over to stopDetect.                            *)
LEMMA StartWatchInv ==
  ASSUME IInv, ~raced, NEW h \in Handler, StartWatch(h)
  PROVE  IInv'
  <1> USE BoundAssumption, CapAssumption
      DEF IInv, Game, StartWatch, Goto, Return, rpc, instance, games, watch, log, history, rest
  <1>0. mine[h] \in Game /\ process = mine[h] /\ pty = mine[h]
    BY DEF Undisturbed, StartKnows, Created
  <1>1. TypeOK'
    <2>1. detector' \in [Game -> {"none", "new", "wait", "close", "state", "send"}]
      BY <1>0 DEF TypeOK
    <2>2. /\ pc' \in [Handler -> {"idle", "check", "set", "spawn", "process", "pty",
                          "bus", "reader", "watch", "stop", "ask", "wait", "close"}]
          /\ mine' \in [Handler -> 0..MaxGames]
      BY DEF TypeOK
    <2> QED
      BY <2>1, <2>2 DEF TypeOK
  <1>2. StopKnows'
    BY DEF TypeOK, StopKnows, Undisturbed, StartKnows, Created
  <1>3. ASSUME ~raced' PROVE Undisturbed'
    <2>1. StartKnows'
      BY <1>3 DEF TypeOK, Undisturbed, StartKnows, OneAtWork, Starting, Created
    <2>2. DetectorKnows'
      BY <1>3 DEF TypeOK, Undisturbed, DetectorKnows, OneAtWork, StartKnows,
                  Starting, Created, Watching
    <2>3. OneAtWork'
      <3>1. Starting(h)
        BY DEF Starting
      <3>2. /\ \A i \in Handler : Starting(i) => i = h
            /\ \A t \in Game : ~Watching(t)
            /\ state = "running"
        BY <3>1 DEF TypeOK, Undisturbed, OneAtWork
      <3>3. /\ \A i \in Handler : ~Starting(i)'
            /\ \A t \in Game : Watching(t)' <=> t = mine[h]
        BY <1>0, <3>2 DEF TypeOK, Starting, Watching
      <3>4. \A i \in Handler : pc'[i] # "set"
        BY <3>2 DEF TypeOK, Undisturbed, OneAtWork
      <3> QED
        BY <1>0, <3>2, <3>3, <3>4 DEF OneAtWork
    <2>4. GamesOwned'
      <3>1. Starting(h)
        BY DEF Starting
      <3>2. /\ \A i \in Handler : Starting(i) => i = h
            /\ \A t \in Game : ~Watching(t)
        BY <3>1 DEF Undisturbed, OneAtWork
      <3>3. detector'[mine[h]] = "new"
        BY <1>0 DEF TypeOK
      <3>4. ASSUME NEW g \in Game, game[g] = "up"
            PROVE  g = mine[h]
        BY <3>2, <3>4 DEF Undisturbed, GamesOwned, Owned, Watching, Starting, Created
      <3> QED
        BY <1>0, <3>3, <3>4 DEF GamesOwned, Owned
    <2> QED
      BY <2>1, <2>2, <2>3, <2>4 DEF Undisturbed
  <1>4. PtyOutlivesGame'
    BY DEF TypeOK, PtyOutlivesGame, StopKnows, Undisturbed, DetectorKnows, Watching
  <1> QED
    BY <1>1, <1>2, <1>3, <1>4

LEMMA StopCheckInv ==
  ASSUME IInv, ~raced, NEW h \in Handler, StopCheck(h)
  PROVE  IInv'
  <1> USE BoundAssumption, CapAssumption
      DEF IInv, Game, StopCheck, Goto, Return, rpc, instance, games, watch, log, history, rest
  <1>1. TypeOK'
    BY DEF TypeOK, Undisturbed, StopKnows, StartKnows, DetectorKnows, Created, Watching
  <1>2. StopKnows'
    BY DEF TypeOK, StopKnows, Undisturbed, StartKnows, Created
  <1>3. ASSUME ~raced' PROVE Undisturbed'
    <2>1. StartKnows'
      BY <1>3 DEF TypeOK, Undisturbed, StartKnows, OneAtWork, Starting, Created
    <2>2. DetectorKnows'
      BY <1>3 DEF TypeOK, Undisturbed, DetectorKnows, OneAtWork, StartKnows,
                  Starting, Created, Watching
    <2>3. OneAtWork'
      BY <1>3 DEF TypeOK, Undisturbed, OneAtWork, Starting, Watching
    <2>4. GamesOwned'
      <3>1. \A i \in Handler : Created(i) => Created(i)' /\ mine'[i] = mine[i]
        BY DEF TypeOK, Created
      <3>2. \A t \in Game : detector[t] \in {"new", "wait"} =>
                             detector'[t] \in {"new", "wait"}
        BY DEF TypeOK
      <3> QED
        BY <1>3, <3>1, <3>2, OwnersStay DEF Undisturbed
    <2> QED
      BY <2>1, <2>2, <2>3, <2>4 DEF Undisturbed
  <1>4. PtyOutlivesGame'
    BY DEF TypeOK, PtyOutlivesGame, StopKnows, Undisturbed, DetectorKnows, Watching
  <1> QED
    BY <1>1, <1>2, <1>3, <1>4

LEMMA StopAskInv ==
  ASSUME IInv, ~raced, NEW h \in Handler, StopAsk(h)
  PROVE  IInv'
  <1> USE BoundAssumption, CapAssumption
      DEF IInv, Game, StopAsk, Goto, Return, rpc, instance, games, watch, log, history, rest
  <1>1. TypeOK'
    <2>1. timers' \in Nat
      BY DEF TypeOK
    <2>2. told' \in SUBSET Game /\ asked' \in SUBSET Game
      <3>1. CASE pty = 0 \/ process = 0
        BY <3>1 DEF TypeOK
      <3>2. CASE pty \in Game /\ process \in Game
        BY <3>2 DEF TypeOK
      <3> QED
        BY <3>1, <3>2 DEF TypeOK
    <2>3. mine' \in [Handler -> 0..MaxGames] /\ panicked' \in BOOLEAN
      BY DEF TypeOK
    <2>4. pc' \in [Handler -> {"idle", "check", "set", "spawn", "process", "pty",
                       "bus", "reader", "watch", "stop", "ask", "wait", "close"}]
      BY DEF TypeOK
    <2> QED
      BY <2>1, <2>2, <2>3, <2>4 DEF TypeOK
  <1>2. StopKnows'
    BY DEF TypeOK, StopKnows, Undisturbed, StartKnows, Created
  <1>3. ASSUME ~raced' PROVE Undisturbed'
    <2>1. StartKnows'
      BY <1>3 DEF TypeOK, Undisturbed, StartKnows, OneAtWork, Starting, Created
    <2>2. DetectorKnows'
      BY <1>3 DEF TypeOK, Undisturbed, DetectorKnows, OneAtWork, StartKnows,
                  Starting, Created, Watching
    <2>3. OneAtWork'
      BY <1>3 DEF TypeOK, Undisturbed, OneAtWork, Starting, Watching
    <2>4. GamesOwned'
      <3>1. \A i \in Handler : Created(i) => Created(i)' /\ mine'[i] = mine[i]
        BY DEF TypeOK, Created
      <3>2. \A t \in Game : detector[t] \in {"new", "wait"} =>
                             detector'[t] \in {"new", "wait"}
        BY DEF TypeOK
      <3> QED
        BY <1>3, <3>1, <3>2, OwnersStay DEF Undisturbed
    <2> QED
      BY <2>1, <2>2, <2>3, <2>4 DEF Undisturbed
  <1>4. PtyOutlivesGame'
    BY DEF TypeOK, PtyOutlivesGame, StopKnows, Undisturbed, DetectorKnows, Watching
  <1> QED
    BY <1>1, <1>2, <1>3, <1>4

LEMMA StopWaitInv ==
  ASSUME IInv, ~raced, NEW h \in Handler, StopWait(h)
  PROVE  IInv'
  <1> USE BoundAssumption, CapAssumption
      DEF IInv, Game, StopWait, Goto, Return, rpc, instance, games, watch, log, history, rest
  <1>1. TypeOK'
    BY DEF TypeOK, Undisturbed, StopKnows, StartKnows, DetectorKnows, Created, Watching
  <1>2. StopKnows'
    BY DEF TypeOK, StopKnows, Undisturbed, StartKnows, Created
  <1>3. ASSUME ~raced' PROVE Undisturbed'
    <2>1. StartKnows'
      BY <1>3 DEF TypeOK, Undisturbed, StartKnows, OneAtWork, Starting, Created
    <2>2. DetectorKnows'
      BY <1>3 DEF TypeOK, Undisturbed, DetectorKnows, OneAtWork, StartKnows,
                  Starting, Created, Watching
    <2>3. OneAtWork'
      BY <1>3 DEF TypeOK, Undisturbed, OneAtWork, Starting, Watching
    <2>4. GamesOwned'
      <3>1. \A i \in Handler : Created(i) => Created(i)' /\ mine'[i] = mine[i]
        BY DEF TypeOK, Created
      <3>2. \A t \in Game : detector[t] \in {"new", "wait"} =>
                             detector'[t] \in {"new", "wait"}
        BY DEF TypeOK
      <3> QED
        BY <1>3, <3>1, <3>2, OwnersStay DEF Undisturbed
    <2> QED
      BY <2>1, <2>2, <2>3, <2>4 DEF Undisturbed
  <1>4. PtyOutlivesGame'
    BY DEF TypeOK, PtyOutlivesGame, StopKnows, Undisturbed, DetectorKnows, Watching
  <1> QED
    BY <1>1, <1>2, <1>3, <1>4

LEMMA StopCloseInv ==
  ASSUME IInv, ~raced, NEW h \in Handler, StopClose(h)
  PROVE  IInv'
  <1> USE BoundAssumption, CapAssumption
      DEF IInv, Game, StopClose, Goto, Return, rpc, instance, games, watch, log, history, rest
  <1>1. TypeOK'
    BY DEF TypeOK, Undisturbed, StopKnows, StartKnows, DetectorKnows, Created, Watching
  <1>2. StopKnows'
    BY DEF TypeOK, StopKnows, Undisturbed, StartKnows, Created
  <1>3. ASSUME ~raced' PROVE Undisturbed'
    <2>1. StartKnows'
      BY <1>3 DEF TypeOK, Undisturbed, StartKnows, OneAtWork, Starting, Created
    <2>2. DetectorKnows'
      BY <1>3 DEF TypeOK, Undisturbed, DetectorKnows, OneAtWork, StartKnows,
                  Starting, Created, Watching
    <2>3. OneAtWork'
      BY <1>3 DEF TypeOK, Undisturbed, OneAtWork, Starting, Watching
    <2>4. GamesOwned'
      <3>1. \A i \in Handler : Created(i) => Created(i)' /\ mine'[i] = mine[i]
        BY DEF TypeOK, Created
      <3>2. \A t \in Game : detector[t] \in {"new", "wait"} =>
                             detector'[t] \in {"new", "wait"}
        BY DEF TypeOK
      <3> QED
        BY <1>3, <3>1, <3>2, OwnersStay DEF Undisturbed
    <2> QED
      BY <2>1, <2>2, <2>3, <2>4 DEF Undisturbed
  <1>4. PtyOutlivesGame'
    BY DEF TypeOK, PtyOutlivesGame, StopKnows, Undisturbed, DetectorKnows, Watching
  <1> QED
    BY <1>1, <1>2, <1>3, <1>4

LEMMA DetectInv ==
  ASSUME IInv, ~raced, NEW s \in Game, Detect(s)
  PROVE  IInv'
  <1> USE BoundAssumption, CapAssumption
      DEF IInv, Game, Detect, Goto, Return, rpc, instance, games, watch, log, history, rest
  <1>1. TypeOK'
    BY DEF TypeOK, Undisturbed, StopKnows, StartKnows, DetectorKnows, Created, Watching
  <1>2. StopKnows'
    BY DEF TypeOK, StopKnows, Undisturbed, StartKnows, Created
  <1>3. ASSUME ~raced' PROVE Undisturbed'
    <2>1. StartKnows'
      BY <1>3 DEF TypeOK, Undisturbed, StartKnows, OneAtWork, Starting, Created
    <2>2. DetectorKnows'
      BY <1>3 DEF TypeOK, Undisturbed, DetectorKnows, OneAtWork, StartKnows,
                  Starting, Created, Watching
    <2>3. OneAtWork'
      BY <1>3 DEF TypeOK, Undisturbed, OneAtWork, Starting, Watching
    <2>4. GamesOwned'
      <3>1. \A i \in Handler : Created(i) => Created(i)' /\ mine'[i] = mine[i]
        BY DEF TypeOK, Created
      <3>2. \A t \in Game : detector[t] \in {"new", "wait"} =>
                             detector'[t] \in {"new", "wait"}
        BY DEF TypeOK
      <3> QED
        BY <1>3, <3>1, <3>2, OwnersStay DEF Undisturbed
    <2> QED
      BY <2>1, <2>2, <2>3, <2>4 DEF Undisturbed
  <1>4. PtyOutlivesGame'
    BY DEF TypeOK, PtyOutlivesGame, StopKnows, Undisturbed, DetectorKnows, Watching
  <1> QED
    BY <1>1, <1>2, <1>3, <1>4

LEMMA DetectedInv ==
  ASSUME IInv, ~raced, NEW s \in Game, Detected(s)
  PROVE  IInv'
  <1> USE BoundAssumption, CapAssumption
      DEF IInv, Game, Detected, Goto, Return, rpc, instance, games, watch, log, history, rest
  <1>1. TypeOK'
    BY DEF TypeOK, Undisturbed, StopKnows, StartKnows, DetectorKnows, Created, Watching
  <1>2. StopKnows'
    BY DEF TypeOK, StopKnows, Undisturbed, StartKnows, Created
  <1>3. ASSUME ~raced' PROVE Undisturbed'
    <2>1. StartKnows'
      BY <1>3 DEF TypeOK, Undisturbed, StartKnows, OneAtWork, Starting, Created
    <2>2. DetectorKnows'
      BY <1>3 DEF TypeOK, Undisturbed, DetectorKnows, OneAtWork, StartKnows,
                  Starting, Created, Watching
    <2>3. OneAtWork'
      BY <1>3 DEF TypeOK, Undisturbed, OneAtWork, Starting, Watching
    <2>4. GamesOwned'
      <3>1. Watching(s) /\ process \in Game /\ game[process] = "exited"
        BY DEF Undisturbed, DetectorKnows, Watching
      <3>2. /\ \A i \in Handler : ~Created(i)
            /\ \A t \in Game : Watching(t) => t = s
        BY <3>1 DEF Undisturbed, OneAtWork, Starting, Created
      <3>3. \A g \in Game : game[g] # "up"
        BY <3>1, <3>2 DEF Undisturbed, GamesOwned, Owned
      <3> QED
        BY <3>3 DEF GamesOwned
    <2> QED
      BY <2>1, <2>2, <2>3, <2>4 DEF Undisturbed
  <1>4. PtyOutlivesGame'
    BY DEF TypeOK, PtyOutlivesGame, StopKnows, Undisturbed, DetectorKnows, Watching
  <1> QED
    BY <1>1, <1>2, <1>3, <1>4

LEMMA DetectorClosesInv ==
  ASSUME IInv, ~raced, NEW s \in Game, DetectorCloses(s)
  PROVE  IInv'
  <1> USE BoundAssumption, CapAssumption
      DEF IInv, Game, DetectorCloses, Goto, Return, rpc, instance, games, watch, log, history, rest
  <1>1. TypeOK'
    <2>1. pty \in Game
      BY DEF Undisturbed, DetectorKnows, Watching
    <2> QED
      BY <2>1 DEF TypeOK
  <1>2. StopKnows'
    BY DEF TypeOK, StopKnows, Undisturbed, StartKnows, Created
  <1>3. ASSUME ~raced' PROVE Undisturbed'
    <2>1. StartKnows'
      BY <1>3 DEF TypeOK, Undisturbed, StartKnows, OneAtWork, Starting, Created
    <2>2. DetectorKnows'
      BY <1>3 DEF TypeOK, Undisturbed, DetectorKnows, OneAtWork, StartKnows,
                  Starting, Created, Watching
    <2>3. OneAtWork'
      BY <1>3 DEF TypeOK, Undisturbed, OneAtWork, Starting, Watching
    <2>4. GamesOwned'
      <3>1. \A i \in Handler : Created(i) => Created(i)' /\ mine'[i] = mine[i]
        BY DEF TypeOK, Created
      <3>2. \A t \in Game : detector[t] \in {"new", "wait"} =>
                             detector'[t] \in {"new", "wait"}
        BY DEF TypeOK
      <3> QED
        BY <1>3, <3>1, <3>2, OwnersStay DEF Undisturbed
    <2> QED
      BY <2>1, <2>2, <2>3, <2>4 DEF Undisturbed
  <1>4. PtyOutlivesGame'
    BY DEF TypeOK, PtyOutlivesGame, StopKnows, Undisturbed, DetectorKnows, Watching
  <1> QED
    BY <1>1, <1>2, <1>3, <1>4

LEMMA DetectorSetsInv ==
  ASSUME IInv, ~raced, NEW s \in Game, DetectorSets(s)
  PROVE  IInv'
  <1> USE BoundAssumption, CapAssumption
      DEF IInv, Game, DetectorSets, Goto, Return, rpc, instance, games, watch, log, history, rest
  <1>1. TypeOK'
    BY DEF TypeOK, Undisturbed, StopKnows, StartKnows, DetectorKnows, Created, Watching
  <1>2. StopKnows'
    BY DEF TypeOK, StopKnows, Undisturbed, StartKnows, Created
  <1>3. ASSUME ~raced' PROVE Undisturbed'
    <2>1. StartKnows'
      BY <1>3 DEF TypeOK, Undisturbed, StartKnows, OneAtWork, Starting, Created
    <2>2. DetectorKnows'
      BY <1>3 DEF TypeOK, Undisturbed, DetectorKnows, OneAtWork, StartKnows,
                  Starting, Created, Watching
    <2>3. OneAtWork'
      BY <1>3 DEF TypeOK, Undisturbed, OneAtWork, Starting, Watching
    <2>4. GamesOwned'
      <3>1. \A i \in Handler : Created(i) => Created(i)' /\ mine'[i] = mine[i]
        BY DEF TypeOK, Created
      <3>2. \A t \in Game : detector[t] \in {"new", "wait"} =>
                             detector'[t] \in {"new", "wait"}
        BY DEF TypeOK
      <3> QED
        BY <1>3, <3>1, <3>2, OwnersStay DEF Undisturbed
    <2> QED
      BY <2>1, <2>2, <2>3, <2>4 DEF Undisturbed
  <1>4. PtyOutlivesGame'
    BY DEF TypeOK, PtyOutlivesGame, StopKnows, Undisturbed, DetectorKnows, Watching
  <1> QED
    BY <1>1, <1>2, <1>3, <1>4

LEMMA DetectorSendsInv ==
  ASSUME IInv, ~raced, NEW s \in Game, DetectorSends(s)
  PROVE  IInv'
  <1> USE BoundAssumption, CapAssumption
      DEF IInv, Game, DetectorSends, Goto, Return, rpc, instance, games, watch, log, history, rest
  <1>1. TypeOK'
    <2>1. bus' \in 0..Cap
      BY DEF TypeOK
    <2> QED
      BY <2>1 DEF TypeOK
  <1>2. StopKnows'
    BY DEF TypeOK, StopKnows, Undisturbed, StartKnows, Created
  <1>3. ASSUME ~raced' PROVE Undisturbed'
    <2>1. StartKnows'
      BY <1>3 DEF TypeOK, Undisturbed, StartKnows, OneAtWork, Starting, Created
    <2>2. DetectorKnows'
      BY <1>3 DEF TypeOK, Undisturbed, DetectorKnows, OneAtWork, StartKnows,
                  Starting, Created, Watching
    <2>3. OneAtWork'
      BY <1>3 DEF TypeOK, Undisturbed, OneAtWork, Starting, Watching
    <2>4. GamesOwned'
      <3>1. \A i \in Handler : Created(i) => Created(i)' /\ mine'[i] = mine[i]
        BY DEF TypeOK, Created
      <3>2. \A t \in Game : detector[t] \in {"new", "wait"} =>
                             detector'[t] \in {"new", "wait"}
        BY DEF TypeOK
      <3> QED
        BY <1>3, <3>1, <3>2, OwnersStay DEF Undisturbed
    <2> QED
      BY <2>1, <2>2, <2>3, <2>4 DEF Undisturbed
  <1>4. PtyOutlivesGame'
    BY DEF TypeOK, PtyOutlivesGame, StopKnows, Undisturbed, DetectorKnows, Watching
  <1> QED
    BY <1>1, <1>2, <1>3, <1>4

LEMMA ExitInv ==
  ASSUME IInv, ~raced, NEW g \in Game, Exit(g)
  PROVE  IInv'
  <1> USE BoundAssumption, CapAssumption
      DEF IInv, Game, Exit, Goto, Return, rpc, instance, games, watch, log, history, rest
  <1>1. TypeOK'
    BY DEF TypeOK, Undisturbed, StopKnows, StartKnows, DetectorKnows, Created, Watching
  <1>2. StopKnows'
    BY DEF TypeOK, StopKnows, Undisturbed, StartKnows, Created
  <1>3. ASSUME ~raced' PROVE Undisturbed'
    <2>1. StartKnows'
      BY <1>3 DEF TypeOK, Undisturbed, StartKnows, OneAtWork, Starting, Created
    <2>2. DetectorKnows'
      BY <1>3 DEF TypeOK, Undisturbed, DetectorKnows, OneAtWork, StartKnows,
                  Starting, Created, Watching
    <2>3. OneAtWork'
      BY <1>3 DEF TypeOK, Undisturbed, OneAtWork, Starting, Watching
    <2>4. GamesOwned'
      <3>1. \A f \in Game : game'[f] = "up" => game[f] = "up"
        BY DEF TypeOK
      <3>2. \A f \in Game : Owned(f) => Owned(f)'
        BY DEF Owned, Created
      <3> QED
        BY <3>1, <3>2 DEF Undisturbed, GamesOwned
    <2> QED
      BY <2>1, <2>2, <2>3, <2>4 DEF Undisturbed
  <1>4. PtyOutlivesGame'
    BY DEF TypeOK, PtyOutlivesGame, StopKnows, Undisturbed, DetectorKnows, Watching
  <1> QED
    BY <1>1, <1>2, <1>3, <1>4

LEMMA TerminateInv ==
  ASSUME IInv, ~raced, Terminate
  PROVE  IInv'
  <1> USE BoundAssumption, CapAssumption
      DEF IInv, Game, Terminate, Goto, Return, rpc, instance, games, watch, log, history, rest
  <1>1. TypeOK'
    <2>1. timers' \in Nat /\ signalled' \in SUBSET Game
      BY DEF TypeOK, StopKnows
    <2> QED
      BY <2>1 DEF TypeOK
  <1>2. StopKnows'
    BY DEF TypeOK, StopKnows, Undisturbed, StartKnows, Created
  <1>3. ASSUME ~raced' PROVE Undisturbed'
    <2>1. StartKnows'
      BY <1>3 DEF TypeOK, Undisturbed, StartKnows, OneAtWork, Starting, Created
    <2>2. DetectorKnows'
      BY <1>3 DEF TypeOK, Undisturbed, DetectorKnows, OneAtWork, StartKnows,
                  Starting, Created, Watching
    <2>3. OneAtWork'
      BY <1>3 DEF TypeOK, Undisturbed, OneAtWork, Starting, Watching
    <2>4. GamesOwned'
      <3>1. \A i \in Handler : Created(i) => Created(i)' /\ mine'[i] = mine[i]
        BY DEF TypeOK, Created
      <3>2. \A t \in Game : detector[t] \in {"new", "wait"} =>
                             detector'[t] \in {"new", "wait"}
        BY DEF TypeOK
      <3> QED
        BY <1>3, <3>1, <3>2, OwnersStay DEF Undisturbed
    <2> QED
      BY <2>1, <2>2, <2>3, <2>4 DEF Undisturbed
  <1>4. PtyOutlivesGame'
    BY DEF TypeOK, PtyOutlivesGame, StopKnows, Undisturbed, DetectorKnows, Watching
  <1> QED
    BY <1>1, <1>2, <1>3, <1>4

LEMMA ReaderCheckInv ==
  ASSUME IInv, NEW s \in Game, ReaderCheck(s)
  PROVE  IInv'
  <1> USE BoundAssumption, CapAssumption
      DEF IInv, Game, ReaderCheck, Goto, Return, rpc, instance, games, watch, log, history, rest
  <1>1. TypeOK'
    BY DEF TypeOK
  <1> QED
    BY <1>1, Untouched

LEMMA ReaderBeginsInv ==
  ASSUME IInv, NEW s \in Game, ReaderBegins(s)
  PROVE  IInv'
  <1> USE BoundAssumption, CapAssumption
      DEF IInv, Game, ReaderBegins, Goto, Return, rpc, instance, games, watch, log, history, rest
  <1>1. TypeOK'
    BY DEF TypeOK
  <1> QED
    BY <1>1, Untouched

LEMMA ReaderEndsInv ==
  ASSUME IInv, NEW s \in Game, ReaderEnds(s)
  PROVE  IInv'
  <1> USE BoundAssumption, CapAssumption
      DEF IInv, Game, ReaderEnds, Goto, Return, rpc, instance, games, watch, log, history, rest
  <1>1. TypeOK'
    BY DEF TypeOK
  <1> QED
    BY <1>1, Untouched

LEMMA ReaderClearsInv ==
  ASSUME IInv, NEW s \in Game, ReaderClears(s)
  PROVE  IInv'
  <1> USE BoundAssumption, CapAssumption
      DEF IInv, Game, ReaderClears, Goto, Return, rpc, instance, games, watch, log, history, rest
  <1>1. TypeOK'
    BY DEF TypeOK
  <1> QED
    BY <1>1, Untouched

LEMMA ReceiveInv ==
  ASSUME IInv, Receive
  PROVE  IInv'
  <1> USE BoundAssumption, CapAssumption
      DEF IInv, Game, Receive, Goto, Return, rpc, instance, games, watch, log, history, rest
  <1>0. bus' \in 0..Cap
    BY DEF TypeOK
  <1>1. TypeOK'
    BY <1>0 DEF TypeOK
  <1> QED
    BY <1>1, Untouched

-----------------------------------------------------------------------------
LEMMA StepInvariant == IInv /\ [Next]_vars => IInv'
  <1> SUFFICES ASSUME IInv, [Next]_vars PROVE IInv'
    OBVIOUS
  <1>1. CASE UNCHANGED vars
    <2>1. TypeOK'
      BY <1>1 DEF IInv, TypeOK, vars
    <2> QED
      BY <1>1, <2>1, Untouched DEF vars, rpc, instance, games, watch, history
  <1>2. ASSUME ~raced, NEW h \in Handler, NEW l \in {"check", "stop"}, Call(h, l)
        PROVE  IInv'
    BY <1>2, CallInv
  <1>3. ASSUME ~raced, NEW h \in Handler, HandlerStep(h)
        PROVE  IInv'
    BY <1>3, StartCheckInv, StartSetInv, SpawnInv, SetProcessInv,
       SetPtyInv, AnnounceInv, StartReaderInv, StartWatchInv,
       StopCheckInv, StopAskInv, StopWaitInv, StopCloseInv
    DEF HandlerStep
  <1>4. ASSUME ~raced, NEW s \in Game, DetectorStep(s)
        PROVE  IInv'
    BY <1>4, DetectInv, DetectedInv, DetectorClosesInv, DetectorSetsInv,
       DetectorSendsInv
    DEF DetectorStep
  <1>5. ASSUME NEW s \in Game, ReaderStep(s)
        PROVE  IInv'
    BY <1>5, ReaderCheckInv, ReaderBeginsInv, ReaderEndsInv, ReaderClearsInv
    DEF ReaderStep
  <1>6. ASSUME ~raced, NEW g \in Game, Exit(g)
        PROVE  IInv'
    BY <1>6, ExitInv
  <1>7. ASSUME ~raced, Terminate \/ Receive
        PROVE  IInv'
    BY <1>7, TerminateInv, ReceiveInv
  <1> QED
    BY <1>1, <1>2, <1>3, <1>4, <1>5, <1>6, <1>7 DEF Next, Followed

(* The state, the processes and the goroutines of the manager keep to      *)
(* their types; the bus never holds more than its capacity.                *)
THEOREM TypeCorrect == Spec => []TypeOK
  <1>1. IInv => TypeOK
    BY DEF IInv
  <1> QED
    BY <1>1, InitInvariant, StepInvariant, PTL DEF Spec

LEMMA InvariantImpliesState == IInv => StateIsTrue
  <1> SUFFICES ASSUME IInv, ~raced
               PROVE  StateFollowsGame /\ OneGame
    BY DEF StateIsTrue, StateFollowsGame, OneGame
  <1>0. Undisturbed
    BY DEF IInv
  <1>1. StateFollowsGame
    <2>1. ASSUME state = "stopped", NEW g \in Game, game[g] = "up"
          PROVE  FALSE
      <3>1. Owned(g)
        BY <1>0, <2>1 DEF Undisturbed, GamesOwned
      <3> QED
        BY <1>0, <2>1, <3>1
        DEF Undisturbed, OneAtWork, Owned, Created, Starting, Watching
    <2>2. ASSUME state = "running", ~failed
          PROVE  (\E h \in Handler : Starting(h)) \/ (\E s \in Game : Watching(s))
      BY <1>0, <2>2 DEF Undisturbed, OneAtWork
    <2> QED
      BY <2>1, <2>2 DEF StateFollowsGame, Starting, Watching
  <1>2. OneGame
    <2> SUFFICES ASSUME NEW f \in Game, NEW g \in Game, game[f] = "up", game[g] = "up"
                 PROVE  f = g
      BY DEF OneGame
    <2>1. Owned(f) /\ Owned(g)
      BY <1>0 DEF Undisturbed, GamesOwned
    <2> QED
      BY <1>0, <2>1
      DEF Undisturbed, OneAtWork, Owned, Created, Starting, Watching
  <1> QED
    BY <1>1, <1>2

(* The state the manager goes by is that of the one game there is, unless  *)
(* two Starts have raced.                                                  *)
THEOREM StateTrue == Spec => []StateIsTrue
  BY InitInvariant, StepInvariant, InvariantImpliesState, PTL DEF Spec

(* No pty of a running game is closed, unless two Starts have raced or a   *)
(* Start has overtaken a Stop.                                             *)
THEOREM PtyOutlives == Spec => []PtyOutlivesGame
  <1>1. IInv => PtyOutlivesGame
    BY DEF IInv
  <1> QED
    BY <1>1, InitInvariant, StepInvariant, PTL DEF Spec
=============================================================================
