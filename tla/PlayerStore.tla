----------------------------- MODULE PlayerStore -----------------------------
(***************************************************************************)
(* What the daemon knows of the players (core/plugin/playerinfo.go): the   *)
(* map of their records, the locks around it, and the file                 *)
(* data/playerinfo.json it is committed to and loaded from.  The goroutines*)
(* of the commands of players use it at the same time: each looks a player *)
(* up (GetPlayerInfo) and may then change the record and commit it.        *)
(*                                                                         *)
(* The content of a record is a version; the file grows with the versions. *)
(* The UUID and the position the game is asked for are one datum, known or *)
(* not.  A read lock that is released at once is part of the step it       *)
(* guards; what is kept over other steps is counted in lock.               *)
(***************************************************************************)
EXTENDS Integers, FiniteSets, Functions

CONSTANTS Thread,     \* goroutines that use the store at the same time
          None,       \* no thread
          Players,    \* number of players
          MaxRecords, \* bound: records made between two starts
          MaxChanges, \* bound: versions of a record
          MaxCalls,   \* bound: commands
          MaxCrashes, \* bound: crashes of the daemon
          Bounds      \* pairs <<commands, crashes>> within these two bounds

ASSUME NoneAssumption == None \notin Thread
ASSUME StoreBoundAssumption ==
  /\ Players \in Nat /\ MaxRecords \in Nat /\ MaxChanges \in Nat
  /\ Players <= MaxRecords
  /\ MaxCalls \in Nat /\ MaxCrashes \in Nat
  /\ Bounds \subseteq (0..MaxCalls) \X (0..MaxCrashes)

Player == 1..Players
Record == 1..MaxRecords
PlayerInfoLock == MaxRecords + 1
UuidMapLock == MaxRecords + 2
Mutex == 1..MaxRecords + 2      \* the lock of each record, and these two

VARIABLES playerInfo, \* the map: the record of each player, 0 if none
          owner,      \* the player of each record, 0 if it is unused
          known,      \* records with UUID and position
          version,    \* what each record holds
          uuidMap,    \* players in UUIDMap
          lock,       \* each RWMutex: readers, and the writer in or waiting
          at,         \* where each thread is
          player,     \* the player its command is about
          mine,       \* the record it uses
          wrote,      \* the version it has made, 0 if none
          next,       \* the player it marshals next
          snap,       \* what it has marshalled
          file,       \* the file: its size, what it says, whether it parses
          bound,      \* which of Bounds holds in this behaviour
          calls, crashes,
          acked,      \* history: the version each player was told is saved
          flaws       \* history: which exceptions have happened

storeVars == <<playerInfo, owner, known, version, uuidMap, lock, at, player, mine,
               wrote, next, snap, file, bound, calls, crashes, acked,
               flaws>>
store == <<playerInfo, owner, known, version, uuidMap>>
work == <<wrote, next, snap>>
bounds == <<bound, calls, crashes>>

Absent == -1
Nothing == [p \in Player |-> Absent]

(* The length of the text: an entry for each player, longer with what it   *)
(* holds.                                                                  *)
Size(d) ==
  FoldFunction(LAMBDA n, m : n + m, 0, [p \in Player |-> d[p] + 1])

Flaw == {"stale",     \* a commit was overtaken by a later one
         "twice",     \* a player got two records
         "truncated"} \* a crash while the file was empty

StoreTypeOK ==
  /\ playerInfo \in [Player -> 0..MaxRecords]
  /\ owner \in [Record -> 0..Players]
  /\ known \subseteq Record
  /\ version \in [Record -> 0..MaxChanges]
  /\ uuidMap \subseteq Player
  /\ lock \in [Mutex -> [r : 0..Cardinality(Thread) * 2, w : Thread \cup {None}]]
  /\ at \in [Thread -> {"idle", "lookup", "insert", "inserting", "lock",
                        "locking", "ask", "map", "mapping",
                        "unlock", "change", "rlock", "commit", "uuids",
                        "marshal", "truncate", "write"}]
  /\ player \in [Thread -> 0..Players]
  /\ mine \in [Thread -> 0..MaxRecords]
  /\ wrote \in [Thread -> 0..MaxChanges]
  /\ next \in [Thread -> 1..Players + 1]
  /\ snap \in [Thread -> [Player -> Absent..MaxChanges]]
  /\ file \in [size : 0..Players * (MaxChanges + 1), ok : BOOLEAN,
               data : [Player -> Absent..MaxChanges]]
  /\ bound \in Bounds
  /\ calls \in 0..MaxCalls /\ crashes \in 0..MaxCrashes
  /\ acked \in [Player -> Absent..MaxChanges]
  /\ flaws \subseteq Flaw

Free == [r |-> 0, w |-> None]

All(x) == [t \in Thread |-> x]

StoreInit ==
  /\ playerInfo = [p \in Player |-> 0]
  /\ owner = [r \in Record |-> 0]
  /\ known = {}
  /\ version = [r \in Record |-> 0]
  /\ uuidMap = {}
  /\ lock = [l \in Mutex |-> Free]
  /\ at = All("idle")
  /\ player = All(0)
  /\ mine = All(0)
  /\ wrote = All(0)
  /\ next = All(1)
  /\ snap = All(Nothing)
  /\ file = [size |-> 0, ok |-> TRUE, data |-> Nothing]
  /\ bound \in Bounds
  /\ calls = 0
  /\ crashes = 0
  /\ acked = Nothing
  /\ flaws = {}

-----------------------------------------------------------------------------
(* sync.RWMutex: a writer that waits keeps new readers out.                *)

Readable(l) == lock[l].w = None

RLock(l) == Readable(l) /\ lock' = [lock EXCEPT ![l].r = @ + 1]

RUnlock(l) == lock' = [lock EXCEPT ![l].r = @ - 1]

Announce(t, l) == Readable(l) /\ lock' = [lock EXCEPT ![l].w = t]

Writable(t, l) == lock[l].w = t /\ lock[l].r = 0

WUnlock(l) == lock' = [lock EXCEPT ![l].w = None]

At(t, l) == at[t] = l
Goto(t, l) == at' = [at EXCEPT ![t] = l]
Done(t) == /\ at' = [at EXCEPT ![t] = "idle"]
           /\ player' = [player EXCEPT ![t] = 0]
           /\ mine' = [mine EXCEPT ![t] = 0]
           /\ wrote' = [wrote EXCEPT ![t] = 0]

-----------------------------------------------------------------------------
(* GetPlayerInfo                                                           *)

(* A command, or a button, of a player.                                    *)
Call(t, p) ==
  /\ At(t, "idle")
  /\ calls < bound[1]
  /\ calls' = calls + 1
  /\ player' = [player EXCEPT ![t] = p]
  /\ Goto(t, "lookup")
  /\ UNCHANGED <<store, lock, mine, work, file, bound, crashes, acked,
                 flaws>>

Lookup(t) ==
  LET r == playerInfo[player[t]] IN
  /\ At(t, "lookup")
  /\ Readable(PlayerInfoLock)
  /\ mine' = [mine EXCEPT ![t] = r]
  /\ Goto(t, IF r = 0 THEN "insert" ELSE "lock")
  /\ UNCHANGED <<store, lock, player, work, file, bounds, acked, flaws>>

Insert(t) ==
  /\ At(t, "insert")
  /\ Announce(t, PlayerInfoLock)
  /\ Goto(t, "inserting")
  /\ UNCHANGED <<store, player, mine, work, file, bounds, acked, flaws>>

(* A new record, whether or not somebody has come first.                   *)
Inserting(t) ==
  LET p == player[t] IN
  /\ At(t, "inserting")
  /\ Writable(t, PlayerInfoLock)
  /\ \E r \in Record :
       /\ owner[r] = 0
       /\ \A q \in Record : q < r => owner[q] # 0
       /\ owner' = [owner EXCEPT ![r] = p]
       /\ playerInfo' = [playerInfo EXCEPT ![p] = r]
       /\ mine' = [mine EXCEPT ![t] = r]
  /\ flaws' = IF playerInfo[p] # 0 THEN flaws \cup {"twice"} ELSE flaws
  /\ WUnlock(PlayerInfoLock)
  /\ Goto(t, "ask")
  /\ UNCHANGED <<known, version, uuidMap, player, work, file, bounds, acked>>

LockRecord(t) ==
  /\ At(t, "lock")
  /\ Announce(t, mine[t])
  /\ Goto(t, "locking")
  /\ UNCHANGED <<store, player, mine, work, file, bounds, acked, flaws>>

RecordLocked(t) ==
  /\ At(t, "locking")
  /\ Writable(t, mine[t])
  /\ Goto(t, "ask")
  /\ UNCHANGED <<store, lock, player, mine, work, file, bounds, acked, flaws>>

Holds(t) == mine[t] # 0 /\ lock[mine[t]].w = t

(* Mutant: the record is committed before its lock is given back.          *)
LeaveLocked(t) == Goto(t, "commit")

(* Return from GetPlayerInfo: a known record is unlocked, a new one        *)
(* committed; both are deferred, so they happen on errors as well.         *)
Leave(t) == Goto(t, IF Holds(t) THEN "unlock" ELSE "commit")

(* What is not known the game is asked for, which may fail.                *)
Ask(t) ==
  /\ At(t, "ask")
  /\ IF mine[t] \in known THEN Leave(t)
     ELSE \/ Leave(t)
          \/ Goto(t, "map")
  /\ UNCHANGED <<store, lock, player, mine, work, file, bounds, acked, flaws>>

(* getPlayerUUID: the UUID is looked up and entered if it is missing.      *)
LookupUuid(t) ==
  /\ At(t, "map")
  /\ Readable(UuidMapLock)
  /\ IF player[t] \in uuidMap
     THEN /\ known' = known \cup {mine[t]}
          /\ Leave(t)
          /\ UNCHANGED lock
     ELSE /\ Announce(t, UuidMapLock)
          /\ Goto(t, "mapping")
          /\ UNCHANGED known
  /\ UNCHANGED <<playerInfo, owner, version, uuidMap, player, mine, work, file,
                 bounds, acked, flaws>>

EnterUuid(t) ==
  /\ At(t, "mapping")
  /\ Writable(t, UuidMapLock)
  /\ uuidMap' = uuidMap \cup {player[t]}
  /\ known' = known \cup {mine[t]}
  /\ WUnlock(UuidMapLock)
  /\ Leave(t)
  /\ UNCHANGED <<playerInfo, owner, version, player, mine, work, file, bounds,
                 acked, flaws>>

(* The caller gets an error or only reads, and is done, or goes on to      *)
(* change the record (within the bound).                                   *)
MayChange(r) ==
  LET changing == {t \in Thread : At(t, "change") /\ mine[t] = r}
  IN  r \in known /\ version[r] + Cardinality(changing) < MaxChanges

Returned(t) ==
  \/ Done(t)
  \/ /\ MayChange(mine[t])
     /\ Goto(t, "change")
     /\ UNCHANGED <<player, mine, wrote>>

UnlockRecord(t) ==
  /\ At(t, "unlock")
  /\ WUnlock(mine[t])
  /\ Returned(t)
  /\ UNCHANGED <<store, next, snap, file, bounds, acked, flaws>>

-----------------------------------------------------------------------------
(* The caller changes the record without its lock (LastLocation, a home)   *)
(* and commits it: MinecraftPlayerInfo.Commit keeps a read lock meanwhile. *)

Change(t) ==
  /\ At(t, "change")
  /\ version' = [version EXCEPT ![mine[t]] = @ + 1]
  /\ wrote' = [wrote EXCEPT ![t] = version'[mine[t]]]
  /\ Goto(t, "rlock")
  /\ UNCHANGED <<playerInfo, owner, known, uuidMap, lock, player, mine, next, snap,
                 file, bounds, acked, flaws>>

RLockRecord(t) ==
  /\ At(t, "rlock")
  /\ RLock(mine[t])
  /\ Goto(t, "commit")
  /\ UNCHANGED <<store, player, mine, work, file, bounds, acked, flaws>>

-----------------------------------------------------------------------------
(* PlayerInfo.Commit: the store is marshalled under read locks, then the   *)
(* file is opened, which truncates it, and written under a lock of the     *)
(* file, from its beginning.                                               *)

Snapshotting == {"uuids", "marshal", "truncate", "write"}

Commit(t) ==
  /\ At(t, "commit")
  /\ RLock(PlayerInfoLock)
  /\ Goto(t, "uuids")
  /\ flaws' = IF \E u \in Thread : at[u] \in Snapshotting
              THEN flaws \cup {"stale"} ELSE flaws
  /\ UNCHANGED <<store, player, mine, work, file, bounds, acked>>

RLockUuids(t) ==
  /\ At(t, "uuids")
  /\ RLock(UuidMapLock)
  /\ Goto(t, "marshal")
  /\ UNCHANGED <<store, player, mine, work, file, bounds, acked, flaws>>

(* Mutant: only the record that has changed is marshalled.                 *)
MarshalOwn(t) ==
  LET p == next[t]
      r == playerInfo[p]
  IN  /\ At(t, "marshal")
      /\ p <= Players
      /\ snap' = [snap EXCEPT ![t][p] = IF r # 0 /\ r = mine[t] THEN version[r] ELSE @]
      /\ next' = [next EXCEPT ![t] = p + 1]
      /\ UNCHANGED <<store, lock, at, player, mine, wrote, file, bounds, acked,
                     flaws>>

(* MarshalJSON of one record, under its read lock.                         *)
Marshal(t) ==
  LET p == next[t]
      r == playerInfo[p]
  IN  /\ At(t, "marshal")
      /\ p <= Players
      /\ \/ r = 0 /\ UNCHANGED snap
         \/ r # 0 /\ Readable(r) /\ snap' = [snap EXCEPT ![t][p] = version[r]]
      /\ next' = [next EXCEPT ![t] = p + 1]
      /\ UNCHANGED <<store, lock, at, player, mine, wrote, file, bounds, acked,
                     flaws>>

Marshalled(t) ==
  /\ At(t, "marshal")
  /\ next[t] > Players
  /\ lock' = [lock EXCEPT ![PlayerInfoLock].r = @ - 1, ![UuidMapLock].r = @ - 1]
  /\ next' = [next EXCEPT ![t] = 1]
  /\ Goto(t, "truncate")
  /\ UNCHANGED <<store, player, mine, wrote, snap, file, bounds, acked, flaws>>

Truncate(t) ==
  /\ At(t, "truncate")
  /\ file' = [size |-> 0, ok |-> FALSE, data |-> Nothing]
  /\ Goto(t, "write")
  /\ UNCHANGED <<store, lock, player, mine, work, bounds, acked, flaws>>

(* The file is still empty, or what another commit has written since is    *)
(* overwritten, or is longer.                                              *)
Written(d) ==
  IF file.size = 0 \/ Size(d) >= file.size
  THEN [size |-> Size(d), ok |-> TRUE, data |-> d]
  ELSE [size |-> file.size, ok |-> FALSE, data |-> Nothing]

(* Write, and return: from MinecraftPlayerInfo.Commit, which gives back    *)
(* its read lock, or from GetPlayerInfo.                                   *)
WriteFile(t) ==
  /\ At(t, "write")
  /\ file' = Written(snap[t])
  /\ \/ /\ wrote[t] # 0
        /\ RUnlock(mine[t])
        /\ acked' = [acked EXCEPT ![player[t]] = IF @ > wrote[t] THEN @
                                                ELSE wrote[t]]
        /\ Done(t)
     \/ /\ wrote[t] = 0
        /\ Returned(t)
        /\ UNCHANGED <<lock, acked>>
  /\ snap' = [snap EXCEPT ![t] = Nothing]
  /\ UNCHANGED <<store, next, bounds, flaws>>

(* Load: what the file says, or nothing if that cannot be parsed.          *)
Load(d) ==
  LET Saved(r) == IF r \in Player /\ d[r] # Absent THEN r ELSE 0
  IN  /\ playerInfo' = [p \in Player |-> Saved(p)]
      /\ owner' = [r \in Record |-> Saved(r)]
      /\ known' = {r \in Record : Saved(r) # 0}
      /\ version' = [r \in Record |-> IF Saved(r) # 0 THEN d[r] ELSE 0]
      /\ uuidMap' = {p \in Player : Saved(p) # 0}

(* The daemon dies and is started again.                                   *)
Crash ==
  /\ crashes < bound[2]
  /\ crashes' = crashes + 1
  /\ flaws' = IF \E t \in Thread : At(t, "write")
              THEN flaws \cup {"truncated"} ELSE flaws
  /\ Load(file.data)
  /\ lock' = [l \in Mutex |-> Free]
  /\ at' = All("idle")
  /\ player' = All(0)
  /\ mine' = All(0)
  /\ wrote' = All(0)
  /\ next' = All(1)
  /\ snap' = All(Nothing)
  /\ UNCHANGED <<file, bound, calls, acked>>

-----------------------------------------------------------------------------
GetPlayerInfo(t) ==
  \/ Lookup(t) \/ Insert(t) \/ Inserting(t) \/ LockRecord(t)
  \/ RecordLocked(t) \/ Ask(t) \/ LookupUuid(t) \/ EnterUuid(t)
  \/ UnlockRecord(t)

CommitStep(t) ==
  \/ Change(t) \/ RLockRecord(t) \/ Commit(t) \/ RLockUuids(t)
  \/ Marshal(t) \/ Marshalled(t) \/ Truncate(t) \/ WriteFile(t)

ThreadStep(t) == GetPlayerInfo(t) \/ CommitStep(t)

StoreNext ==
  \/ \E t \in Thread : ThreadStep(t) \/ \E p \in Player : Call(t, p)
  \/ Crash

StoreSpec == StoreInit /\ [][StoreNext]_storeVars

(* Goroutines run.                                                         *)
StoreFairSpec == StoreSpec /\ \A t \in Thread : WF_storeVars(ThreadStep(t))

-----------------------------------------------------------------------------
(* A change that has been reported as saved is in the file whenever no     *)
(* commit is rewriting it, and so survives a crash.  Exceptions are two    *)
(* commits at the same time, of which the earlier snapshot may be written  *)
(* last, over a longer text; two records of one player; and a crash        *)
(* between truncation and write.                                           *)
SavedStaysSaved ==
  (flaws = {} /\ \A t \in Thread : ~At(t, "write")) =>
    \A p \in Player : acked[p] # Absent => file.ok /\ file.data[p] >= acked[p]

(* MinecraftPlayerInfo.Commit takes the read lock of its record again to   *)
(* marshal it, behind a GetPlayerInfo that waits for the first to be given *)
(* back.                                                                   *)
Reentry ==
  \E t \in Thread : /\ wrote[t] # 0
                    /\ at[t] \in {"commit", "uuids", "marshal"}
                    /\ next[t] <= player[t]
                    /\ playerInfo[player[t]] = mine[t]
                    /\ ~Readable(mine[t])

(* A commit holds the map of UUIDs and waits for a record, whose holder    *)
(* waits for that map.                                                     *)
Inversion ==
  \E t \in Thread : \E u \in Thread :
    /\ At(t, "marshal")
    /\ at[u] \in {"map", "mapping"} /\ Holds(u) /\ ~Readable(UuidMapLock)
    /\ next[t] <= player[u]
    /\ playerInfo[player[u]] = mine[u]

(* Every command ends, unless it runs into one of these two deadlocks.     *)
EveryCommandEnds ==
  \A t \in Thread : ~At(t, "idle") ~> (At(t, "idle") \/ Reentry \/ Inversion)
=============================================================================
