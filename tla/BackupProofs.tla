---------------------------- MODULE BackupProofs ----------------------------
(***************************************************************************)
(* Proofs about the backups, for any number of makers, backups, versions   *)
(* and calls of Start, and any number of backups that are kept.            *)
(***************************************************************************)
EXTENDS Backup, FiniteSetTheorems, TLAPS

(* TypeOK, without the pages.                                              *)
WorldTyped ==
  /\ bound \in Bounds
  /\ made \in 0..MaxMakes
  /\ modified \in [WorldBackup -> Nat]
  /\ disk \subseteq 1..made /\ told \subseteq 1..made
  /\ holds \in [WorldBackup -> {"empty", "partial", "whole"}]
  /\ maker \in [Maker -> {"idle", "made", "copy", "copying", "clean", "remove"}]
  /\ mine \in [Maker -> 0..MaxMakes]
  /\ doomed \subseteq disk
  /\ backupLock \in Maker \cup {Free, Execute}
  /\ world \in {"whole", "partial", "none", "new"}
  /\ rollback \in {"none", "pending", "wipe", "copy", "start"}

PlayerTyped ==
  /\ {file, extra, savedExtra} \subseteq Version /\ dirs \subseteq Version
  /\ watcher \in 0..MaxStarts /\ opened \subseteq 1..MaxStarts
  /\ running \in BOOLEAN
  /\ loop \in [Worker -> {"none", "select", "wait", "scan", "compare", "put",
                          "copy", "clean", "watch"}]
  /\ on \in [Worker -> 0..MaxStarts] /\ mtime \in [Worker -> Version]
  /\ need \in [Worker -> BOOLEAN]
  /\ starts \in 0..MaxStarts

-----------------------------------------------------------------------------
(* The backups of the world                                                *)

(* No two backups were modified at once.                                   *)
Ranked ==
  /\ \A b \in 1..made : modified[b] \in 1..made
  /\ \A b \in 1..made : \A c \in 1..made : b # c => modified[b] # modified[c]

(* A maker has a directory of its own, which nobody else writes.           *)
Working(m) == maker[m] \in {"made", "copy", "copying"}

OwnBackup ==
  /\ \A m \in Maker : Working(m) => mine[m] \in 1..made /\ mine[m] \notin told
  /\ \A m \in Maker : \A n \in Maker :
       Working(m) /\ Working(n) /\ mine[m] = mine[n] => m = n

(* Who holds backupLock, and what nobody else does meanwhile.              *)
Holders ==
  /\ \A m \in Maker : maker[m] \in {"copy", "copying", "clean", "remove"} =>
                        backupLock = m
  /\ \A m \in Maker : maker[m] = "copying" => mine[m] \in disk
  /\ \A m \in Maker : maker[m] \in {"copy", "copying"} => world # "none"
  /\ rollback \in {"wipe", "copy"} => backupLock = Execute
  /\ doomed # {} => \E m \in Maker : maker[m] = "remove"

Enough(S) == Cardinality(S) >= Keep

(* Backups to be removed are older than Keep others that are not.          *)
Outnumbered == \A b \in doomed : Enough({c \in disk \ doomed : Newer(c, b)})

(* Rollbacks are to backups that were reported complete.                   *)
ToldOnly ==
  flaws \cap {"silent", "untold"} = {} =>
    world # "partial" /\ (rollback # "none" => request \in told)

(* The backup is there until it is restored, and so is the world before.   *)
Restored ==
  flaws = {} => /\ rollback # "none" => request \in disk
                /\ rollback # "copy" => world = "whole"

WorldInv == /\ WorldTyped
            /\ Ranked
            /\ OwnBackup
            /\ Holders
            /\ Outnumbered
            /\ ReportedIsKept
            /\ ToldOnly
            /\ Restored

-----------------------------------------------------------------------------
(* The data of the player                                                  *)

(* Worker 0 is Start, which ends before Pause; its worker is the last one. *)
Launched ==
  /\ \A w \in Worker : w > starts => loop[w] = "none"
  /\ loop[0] # "none" => running /\ starts > 0 /\ loop[starts] = "none"
  /\ \A w \in Worker : loop[w] = "watch" => w = 0
  /\ loop[0] \notin {"select", "wait"}

(* The one watcher that may be open is the last; Start makes a new one.    *)
Watchers ==
  /\ opened \subseteq {watcher} /\ event \subseteq opened
  /\ ~running => opened = {}
  /\ loop[0] # "none" => opened = {} /\ watcher < starts
  /\ watcher <= starts
  /\ \A w \in Worker : on[w] <= watcher

(* Somebody makes a backup, or waits for an event that may come.           *)
Active(w) == AtWork(w) \/ (LoopAt(w, "wait") /\ Open(w))

OneActive ==
  "overrun" \notin flaws =>
    \A v \in Worker : \A w \in Worker : Active(v) /\ Active(w) => v = w

(* Version x is there, in a backup or in one that is being made.           *)
Backed(x) == \/ x = 0
             \/ \E v \in dirs : v >= x
             \/ \E w \in Worker : LoopAt(w, "copy") /\ mtime[w] >= x

VersionsBacked ==
  flaws \cap {"silent", "crash"} = {} =>
    /\ Backed(extra)
    /\ Backed(savedExtra)
    /\ \A w \in Worker : LoopAt(w, "put") /\ ~need[w] => Backed(mtime[w])

PlayerInv == /\ PlayerTyped
             /\ Launched
             /\ Watchers
             /\ OneActive
             /\ VersionsBacked

IInv == WorldInv /\ PlayerInv

-----------------------------------------------------------------------------
LEMMA InitInvariant == Init => IInv
  <1> SUFFICES ASSUME Init PROVE IInv
    OBVIOUS
  <1> USE BoundAssumption, LockAssumption DEF Init, Version, Worker
  <1>1. WorldTyped
    <2>1. modified \in [WorldBackup -> Nat]
      OBVIOUS
    <2>2. /\ made \in 0..MaxMakes
          /\ mine \in [Maker -> 0..MaxMakes]
      OBVIOUS
    <2>3. holds \in [WorldBackup -> {"empty", "partial", "whole"}]
      OBVIOUS
    <2>4. maker \in [Maker -> {"idle", "made", "copy", "copying", "clean", "remove"}]
      OBVIOUS
    <2> QED
      BY <2>1, <2>2, <2>3, <2>4 DEF WorldTyped
  <1>2. Ranked /\ OwnBackup /\ Holders
    BY DEF Ranked, OwnBackup, Holders, Working
  <1>3. Outnumbered /\ ReportedIsKept /\ ToldOnly /\ Restored
    BY DEF Outnumbered, ReportedIsKept, ToldOnly, Restored
  <1>4. PlayerTyped
    <2>1. /\ on \in [Worker -> 0..MaxStarts] /\ mtime \in [Worker -> Version]
          /\ watcher \in 0..MaxStarts /\ starts \in 0..MaxStarts
          /\ {file, extra, savedExtra} \subseteq Version
      OBVIOUS
    <2>2. /\ loop \in [Worker -> {"none", "select", "wait", "scan", "compare", "put",
                                  "copy", "clean", "watch"}]
          /\ need \in [Worker -> BOOLEAN]
      OBVIOUS
    <2> QED
      BY <2>1, <2>2 DEF PlayerTyped
  <1>5. Launched /\ Watchers
    BY DEF Launched, Watchers
  <1>6. OneActive /\ VersionsBacked
    BY DEF OneActive, Active, AtWork, LoopAt, VersionsBacked, Backed
  <1> QED
    BY <1>1, <1>2, <1>3, <1>4, <1>5, <1>6 DEF IInv, WorldInv, PlayerInv

-----------------------------------------------------------------------------
(* Steps of one part leave the other alone: they can only add exceptions.  *)
LEMMA WorldStays ==
  ASSUME WorldInv, flaws \subseteq flaws',
         UNCHANGED <<bound, worldFiles, makers, backupLock, world, rolling>>
  PROVE  WorldInv'
  <1> USE DEF worldFiles, makers, rolling, WorldInv
  <1>1. WorldTyped' /\ Ranked' /\ OwnBackup' /\ Holders'
    BY DEF WorldTyped, Ranked, OwnBackup, Holders, Working
  <1>2. Outnumbered'
    BY DEF Outnumbered, Newer
  <1>3. ReportedIsKept'
    BY DEF ReportedIsKept, Newer
  <1>4. ToldOnly' /\ Restored'
    BY DEF ToldOnly, Restored
  <1> QED
    BY <1>1, <1>2, <1>3, <1>4

LEMMA PlayerStays ==
  ASSUME PlayerInv, flaws \subseteq flaws', UNCHANGED <<bound, playerPart>>
  PROVE  PlayerInv'
  <1> USE DEF playerPart, data, watch, work, PlayerInv
  <1>1. PlayerTyped' /\ Launched' /\ Watchers'
    BY DEF PlayerTyped, Launched, Watchers
  <1>2. OneActive'
    BY DEF OneActive, Active, AtWork, LoopAt, Open
  <1>3. VersionsBacked'
    BY DEF VersionsBacked, Backed, LoopAt
  <1> QED
    BY <1>1, <1>2, <1>3

-----------------------------------------------------------------------------
(* Counting backups                                                        *)

LEMMA DiskFinite ==
  ASSUME WorldTyped, NEW S \in SUBSET disk
  PROVE  IsFiniteSet(S)
  <1>1. IsFiniteSet(1..made)
    <2>1. 1 \in Int /\ made \in Int
      BY BoundAssumption DEF WorldTyped
    <2> QED
      BY <2>1, FS_Interval, Zenon
  <1> QED
    BY <1>1, FS_Subset DEF WorldTyped

LEMMA RanksAreNumbers ==
  ASSUME WorldTyped
  PROVE  /\ made \in Nat /\ 1..made \subseteq WorldBackup
         /\ \A b \in 1..made : modified[b] \in Nat
  <1>1. made \in Nat /\ 1..made \subseteq WorldBackup
    BY BoundAssumption DEF WorldTyped, WorldBackup
  <1> QED
    BY <1>1 DEF WorldTyped

LEMMA EnoughMore ==
  ASSUME NEW T, IsFiniteSet(T), NEW S \in SUBSET T, Enough(S)
  PROVE  Enough(T)
  <1>1. /\ IsFiniteSet(S) /\ Cardinality(S) <= Cardinality(T)
        /\ Cardinality(S) \in Nat /\ Cardinality(T) \in Nat
    BY FS_Subset, FS_CardinalityType
  <1> QED
    BY <1>1, SizeAssumption DEF Enough

(* A finite set has an element where f is largest.                         *)
LEMMA Largest ==
  ASSUME NEW B, IsFiniteSet(B), B # {}, NEW f \in [B -> Nat]
  PROVE  \E b \in B : \A c \in B : f[c] <= f[b]
  <1> DEFINE AtLeast(b) == {c \in B : f[c] >= f[b]}
             T == {AtLeast(b) : b \in B}
  <1>1. T \subseteq FiniteSubsetsOf(B) /\ T # {}
    <2>1. FiniteSubsetsOf(B) = SUBSET B
      BY FS_FiniteSubsetsOfFinite
    <2>2. PICK b : b \in B
      OBVIOUS
    <2>3. AtLeast(b) \in T
      BY <2>2
    <2>4. T \subseteq SUBSET B
      OBVIOUS
    <2> HIDE DEF T
    <2> QED
      BY <2>1, <2>3, <2>4
  <1>2. IsWellFoundedOn(StrictSubsetOrdering(B), FiniteSubsetsOf(B))
    BY FS_StrictSubsetOrderingWellFounded
  <1>3. \E S \in T : \A R \in T : <<R, S>> \notin StrictSubsetOrdering(B)
    <2> HIDE DEF T
    <2> QED
      BY <1>1, <1>2, WFMin
  <1>4. PICK b \in B : \A c \in B : <<AtLeast(c), AtLeast(b)>> \notin StrictSubsetOrdering(B)
    BY <1>3
  <1>5. ASSUME NEW c \in B, ~(f[c] <= f[b])
        PROVE  FALSE
    <2>1. f[c] \in Nat /\ f[b] \in Nat /\ f[c] > f[b]
      BY <1>5
    <2>2. AtLeast(c) \subseteq AtLeast(b)
      <3> SUFFICES ASSUME NEW d \in B, f[d] >= f[c] PROVE f[d] >= f[b]
        OBVIOUS
      <3>1. f[d] \in Nat
        OBVIOUS
      <3> QED
        BY <2>1, <3>1
    <2>3. b \in AtLeast(b) /\ b \notin AtLeast(c)
      BY <2>1
    <2>4. AtLeast(c) \in SUBSET B /\ AtLeast(b) \in SUBSET B
      OBVIOUS
    <2> HIDE DEF AtLeast
    <2>5. <<AtLeast(c), AtLeast(b)>> \in StrictSubsetOrdering(B)
      BY <2>2, <2>3, <2>4 DEF StrictSubsetOrdering
    <2> QED
      BY <1>4, <2>5
  <1> QED
    BY <1>5

(* What is written becomes the newest, and leaves the order of the others. *)
LEMMA TouchRanks ==
  ASSUME WorldTyped, Ranked, NEW b \in 1..made, Touch(b), UNCHANGED made
  PROVE  /\ modified' \in [WorldBackup -> Nat]
         /\ Ranked'
         /\ \A c \in 1..made : \A d \in 1..made \ {b} : Newer(c, d) => Newer(c, d)'
  <1> USE BoundAssumption DEF WorldTyped
  <1>1. 1..made \subseteq WorldBackup /\ made \in Nat
    BY DEF WorldBackup
  <1>2. \A c \in 1..made : modified[c] \in 1..made
    BY DEF Ranked
  <1>3. \A c \in 1..made : \A d \in 1..made : c # d => modified[c] # modified[d]
    BY DEF Ranked
  <1>4. \A c \in WorldBackup :
          modified'[c] = IF c = b THEN made
                         ELSE IF modified[c] > modified[b] THEN modified[c] - 1
                         ELSE modified[c]
    BY DEF Touch, Newer
  <1>5. modified' \in [WorldBackup -> Nat]
    <2> SUFFICES ASSUME NEW c \in WorldBackup
                 PROVE  (IF c = b THEN made ELSE IF Newer(c, b) THEN modified[c] - 1
                        ELSE modified[c]) \in Nat
      BY DEF Touch
    <2>1. modified[c] \in Nat /\ modified[b] \in Nat /\ modified[b] >= 1
      BY <1>1, <1>2
    <2> QED
      BY <1>1, <2>1 DEF Newer
  <1>6. \A c \in 1..made : modified'[c] \in 1..made
    BY <1>1, <1>2, <1>3, <1>4
  <1>7. ASSUME NEW c \in 1..made, NEW d \in 1..made, c # d
        PROVE  modified'[c] # modified'[d]
    <2>1. /\ modified[c] \in 1..made /\ modified[d] \in 1..made
          /\ modified[b] \in 1..made /\ modified[c] # modified[d]
          /\ c # b => modified[c] # modified[b]
          /\ d # b => modified[d] # modified[b]
      BY <1>2, <1>3, <1>7
    <2> QED
      BY <1>1, <1>4, <1>7, <2>1
  <1>8. ASSUME NEW c \in 1..made, NEW d \in 1..made \ {b}, Newer(c, d)
        PROVE  Newer(c, d)'
    <2>1. /\ modified[c] \in 1..made /\ modified[d] \in 1..made
          /\ modified[b] \in 1..made /\ modified[c] > modified[d]
          /\ c # b => modified[c] # modified[b]
          /\ modified[d] # modified[b]
      BY <1>2, <1>3, <1>8 DEF Newer
    <2> QED
      BY <1>1, <1>4, <2>1 DEF Newer
  <1> QED
    BY <1>5, <1>6, <1>7, <1>8 DEF Ranked

-----------------------------------------------------------------------------
(* Steps that leave the directories alone only add exceptions to these.    *)
LEMMA FilesStay ==
  ASSUME WorldInv, flaws \subseteq flaws', UNCHANGED <<worldFiles, doomed>>
  PROVE  Ranked' /\ Outnumbered' /\ ReportedIsKept'
  <1> USE DEF worldFiles, WorldInv
  <1>1. Ranked'
    BY DEF Ranked
  <1>2. Outnumbered'
    BY DEF Outnumbered, Newer
  <1>3. ReportedIsKept'
    BY DEF ReportedIsKept, Newer
  <1> QED
    BY <1>1, <1>2, <1>3

LEMMA TryLockWorld ==
  ASSUME WorldInv, UNCHANGED <<bound, flaws>>, NEW m \in Maker, TryLock(m)
  PROVE  WorldInv'
  <1> USE LockAssumption DEF WorldInv, TryLock, MakerAt, MakerTo, worldFiles, makers, rolling, pages
  <1>1. WorldTyped'
    BY DEF WorldTyped
  <1>2. Ranked' /\ Outnumbered' /\ ReportedIsKept'
    BY FilesStay
  <1>3. OwnBackup'
    BY DEF WorldTyped, OwnBackup, Working
  <1>4. Holders'
    BY DEF WorldTyped, Holders
  <1>5. ToldOnly' /\ Restored'
    BY DEF WorldTyped, ToldOnly, Restored, ReportedIsKept, Holders
  <1> QED
    BY <1>1, <1>2, <1>3, <1>4, <1>5

LEMMA CopyFailsWorld ==
  ASSUME WorldInv, UNCHANGED <<bound, flaws>>, NEW m \in Maker, CopyFails(m)
  PROVE  WorldInv'
  <1> USE LockAssumption DEF WorldInv, CopyFails, MakerAt, MakerTo, worldFiles, makers, rolling, pages
  <1>1. WorldTyped'
    BY DEF WorldTyped
  <1>2. Ranked' /\ Outnumbered' /\ ReportedIsKept'
    BY FilesStay
  <1>3. OwnBackup'
    BY DEF WorldTyped, OwnBackup, Working
  <1>4. Holders'
    BY DEF WorldTyped, Holders
  <1>5. ToldOnly' /\ Restored'
    BY DEF WorldTyped, ToldOnly, Restored, ReportedIsKept, Holders
  <1> QED
    BY <1>1, <1>2, <1>3, <1>4, <1>5

LEMMA CleanEndsWorld ==
  ASSUME WorldInv, UNCHANGED <<bound, flaws>>, NEW m \in Maker, CleanEnds(m)
  PROVE  WorldInv'
  <1> USE LockAssumption DEF WorldInv, CleanEnds, MakerAt, MakerTo, worldFiles, makers, rolling, pages
  <1>1. WorldTyped'
    BY DEF WorldTyped
  <1>2. Ranked' /\ Outnumbered' /\ ReportedIsKept'
    BY FilesStay
  <1>3. OwnBackup'
    BY DEF WorldTyped, OwnBackup, Working
  <1>4. Holders'
    BY DEF WorldTyped, Holders
  <1>5. ToldOnly' /\ Restored'
    BY DEF WorldTyped, ToldOnly, Restored, ReportedIsKept, Holders
  <1> QED
    BY <1>1, <1>2, <1>3, <1>4, <1>5

LEMMA RequestWorld ==
  ASSUME WorldInv, UNCHANGED bound, NEW b \in WorldBackup, Request(b)
  PROVE  WorldInv'
  <1> USE LockAssumption DEF WorldInv, Request, worldFiles, makers, rolling, pages
  <1>1. WorldTyped'
    BY DEF WorldTyped
  <1>2. Ranked' /\ Outnumbered' /\ ReportedIsKept'
    BY FilesStay
  <1>3. OwnBackup'
    BY DEF WorldTyped, OwnBackup, Working
  <1>4. Holders'
    BY DEF WorldTyped, Holders
  <1>5. ToldOnly' /\ Restored'
    BY DEF WorldTyped, ToldOnly, Restored, ReportedIsKept, Holders
  <1> QED
    BY <1>1, <1>2, <1>3, <1>4, <1>5

LEMMA AbortWorld ==
  ASSUME WorldInv, UNCHANGED bound, Abort
  PROVE  WorldInv'
  <1> USE LockAssumption DEF WorldInv, Abort, worldFiles, makers, rolling, pages
  <1>1. WorldTyped'
    BY DEF WorldTyped
  <1>2. Ranked' /\ Outnumbered' /\ ReportedIsKept'
    BY FilesStay
  <1>3. OwnBackup'
    BY DEF WorldTyped, OwnBackup, Working
  <1>4. Holders'
    BY DEF WorldTyped, Holders
  <1>5. ToldOnly' /\ Restored'
    BY DEF WorldTyped, ToldOnly, Restored, ReportedIsKept, Holders
  <1> QED
    BY <1>1, <1>2, <1>3, <1>4, <1>5

LEMMA LockForRollbackWorld ==
  ASSUME WorldInv, UNCHANGED bound, LockForRollback
  PROVE  WorldInv'
  <1> USE LockAssumption DEF WorldInv, LockForRollback, worldFiles, makers, rolling, pages
  <1>1. WorldTyped'
    BY DEF WorldTyped
  <1>2. Ranked' /\ Outnumbered' /\ ReportedIsKept'
    BY FilesStay
  <1>3. OwnBackup'
    BY DEF WorldTyped, OwnBackup, Working
  <1>4. Holders'
    BY DEF WorldTyped, Holders
  <1>5. ToldOnly' /\ Restored'
    BY DEF WorldTyped, ToldOnly, Restored, ReportedIsKept, Holders
  <1> QED
    BY <1>1, <1>2, <1>3, <1>4, <1>5

LEMMA WipeWorld ==
  ASSUME WorldInv, UNCHANGED bound, Wipe
  PROVE  WorldInv'
  <1> USE LockAssumption DEF WorldInv, Wipe, worldFiles, makers, rolling, pages
  <1>1. WorldTyped'
    BY DEF WorldTyped
  <1>2. Ranked' /\ Outnumbered' /\ ReportedIsKept'
    BY FilesStay
  <1>3. OwnBackup'
    BY DEF WorldTyped, OwnBackup, Working
  <1>4. Holders'
    BY DEF WorldTyped, Holders
  <1>5. ToldOnly' /\ Restored'
    BY DEF WorldTyped, ToldOnly, Restored, ReportedIsKept, Holders
  <1> QED
    BY <1>1, <1>2, <1>3, <1>4, <1>5

(* A backup that was reported is whole if it is there still.               *)
LEMMA RestoreWorld ==
  ASSUME WorldInv, UNCHANGED bound, Restore
  PROVE  WorldInv'
  <1> USE LockAssumption DEF WorldInv, Restore, worldFiles, makers, rolling, pages
  <1>0. request \in disk => holds[request] \in {"empty", "partial", "whole"}
    BY BoundAssumption DEF WorldTyped, WorldBackup
  <1> DEFINE W == [empty |-> "none", partial |-> "partial", whole |-> "whole"]
  <1>1. /\ W["empty"] = "none" /\ W["partial"] = "partial" /\ W["whole"] = "whole"
    OBVIOUS
  <1>2. request \in disk => W[holds[request]] = IF holds[request] = "empty" THEN "none"
                                                ELSE holds[request]
    BY <1>0, <1>1
  <1>3. world' \in {"whole", "partial", "none"}
    BY <1>0, <1>2
  <1>4. WorldTyped'
    BY <1>3 DEF WorldTyped
  <1>5. Ranked' /\ Outnumbered' /\ ReportedIsKept'
    BY FilesStay
  <1>6. OwnBackup'
    BY DEF WorldTyped, OwnBackup, Working
  <1>7. Holders'
    BY <1>3 DEF WorldTyped, Holders
  <1>8. "silent" \notin flaws' => flaws' = flaws /\
          world' = IF request \notin disk THEN "none" ELSE W[holds[request]]
    OBVIOUS
  <1>9. ToldOnly' /\ Restored'
    BY <1>2, <1>8 DEF WorldTyped, ToldOnly, Restored, ReportedIsKept
  <1> QED
    BY <1>4, <1>5, <1>6, <1>7, <1>9

LEMMA StartMinecraftWorld ==
  ASSUME WorldInv, UNCHANGED bound, StartMinecraft
  PROVE  WorldInv'
  <1> USE LockAssumption DEF WorldInv, StartMinecraft, worldFiles, makers, rolling, pages
  <1>1. WorldTyped'
    BY DEF WorldTyped
  <1>2. Ranked' /\ Outnumbered' /\ ReportedIsKept'
    BY FilesStay
  <1>3. OwnBackup'
    BY DEF WorldTyped, OwnBackup, Working
  <1>4. Holders'
    BY DEF WorldTyped, Holders
  <1>5. ToldOnly' /\ Restored'
    BY DEF WorldTyped, ToldOnly, Restored, ReportedIsKept, Holders
  <1> QED
    BY <1>1, <1>2, <1>3, <1>4, <1>5

-----------------------------------------------------------------------------
(* Steps that write directories                                            *)

(* A backup that was reported and is gone has Keep newer ones, if those    *)
(* that were newer are there still.                                        *)
LEMMA ReportedStay ==
  ASSUME WorldInv, WorldTyped', flaws \subseteq flaws', told \subseteq told',
         \A b \in told : b \in disk' => b \in disk /\ holds'[b] = holds[b],
         \A b \in told : b \notin disk' /\ b \in disk =>
           Enough({c \in disk' : Newer(c, b)'}),
         \A b \in told : b \notin disk' /\ b \notin disk =>
           \/ {c \in disk : Newer(c, b)} \subseteq {c \in disk' : Newer(c, b)'}
           \/ Enough({c \in disk' : Newer(c, b)'}),
         flaws' \cap {"silent", "untold"} = {} =>
           \A b \in told' \ told : b \in disk' /\ holds'[b] = "whole"
  PROVE  ReportedIsKept'
  <1> SUFFICES ASSUME flaws' \cap {"silent", "untold"} = {}, NEW b \in told'
               PROVE  IF b \in disk' THEN holds'[b] = "whole"
                      ELSE Enough({c \in disk' : Newer(c, b)'})
    BY DEF ReportedIsKept, Enough
  <1>1. CASE b \notin told
    BY <1>1
  <1>2. CASE b \in told /\ b \in disk'
    BY <1>2 DEF WorldInv, ReportedIsKept
  <1>3. CASE b \in told /\ b \notin disk' /\ b \in disk
    BY <1>3
  <1>4. CASE b \in told /\ b \notin disk' /\ b \notin disk
    <2> DEFINE S == {c \in disk : Newer(c, b)}
               T == {c \in disk' : Newer(c, b)'}
    <2>1. Enough(S)
      BY <1>4 DEF WorldInv, ReportedIsKept, Enough
    <2>2. IsFiniteSet(T)
      <3>1. made' \in 0..MaxMakes /\ disk' \subseteq 1..made'
        BY DEF WorldTyped
      <3>2. IsFiniteSet(1..made')
        <4>1. 1 \in Int /\ made' \in Int
          BY <3>1, BoundAssumption
        <4> QED
          BY <4>1, FS_Interval, Zenon
      <3>3. T \in SUBSET (1..made')
        BY <3>1
      <3> QED
        BY <3>2, <3>3, FS_Subset
    <2>3. S \subseteq T \/ Enough(T)
      BY <1>4
    <2> HIDE DEF S, T
    <2>4. Enough(T)
      BY <2>1, <2>2, <2>3, EnoughMore
    <2> QED
      BY <1>4, <2>4 DEF T
  <1> QED
    BY <1>1, <1>2, <1>3, <1>4

LEMMA MakeDirectoryWorld ==
  ASSUME WorldInv, UNCHANGED <<bound, flaws>>, NEW m \in Maker, MakeDirectory(m)
  PROVE  WorldInv'
  <1> USE LockAssumption
      DEF WorldInv, MakeDirectory, MakerAt, MakerTo, worldFiles, makers, rolling, pages
  <1>0. /\ made \in Nat /\ made' = made + 1 /\ made' \in 1..MaxMakes
        /\ made' \in WorldBackup /\ made' \notin 1..made /\ 1..made \subseteq 1..made'
        /\ 1..made' = (1..made) \cup {made'} /\ 1..made \subseteq WorldBackup
    BY BoundAssumption DEF WorldTyped, WorldBackup
  <1>1. WorldTyped'
    <2>1. modified' \in [WorldBackup -> Nat] /\ made' \in 0..MaxMakes
      BY <1>0 DEF WorldTyped
    <2>2. mine' \in [Maker -> 0..MaxMakes]
      BY <1>0 DEF WorldTyped
    <2>3. disk' \subseteq 1..made' /\ told' \subseteq 1..made'
      BY <1>0 DEF WorldTyped
    <2> QED
      BY <2>1, <2>2, <2>3 DEF WorldTyped
  <1>2. /\ modified'[made'] = made'
        /\ \A b \in 1..made : modified'[b] = modified[b]
    BY <1>0 DEF WorldTyped
  <1>3. Ranked'
    BY <1>0, <1>2 DEF Ranked
  <1>4. OwnBackup'
    <2>1. /\ mine'[m] = made' /\ mine'[m] \in 1..made' /\ mine'[m] \notin told'
          /\ \A n \in Maker \ {m} : mine'[n] = mine[n] /\ maker'[n] = maker[n]
      BY <1>0 DEF WorldTyped
    <2>2. \A n \in Maker \ {m} : Working(n) =>
            mine'[n] \in 1..made' /\ mine'[n] \notin told' /\ mine'[n] # made'
      BY <1>0, <2>1 DEF OwnBackup
    <2>3. \A n \in Maker \ {m} : Working(n)' <=> Working(n)
      BY <2>1 DEF Working
    <2> QED
      BY <2>1, <2>2, <2>3 DEF OwnBackup
  <1>5. Holders'
    BY <1>0 DEF WorldTyped, Holders
  <1>6. \A b \in 1..made : \A c \in 1..made : Newer(c, b)' <=> Newer(c, b)
    BY <1>2 DEF Newer
  <1>7. Outnumbered'
    <2> SUFFICES ASSUME NEW b \in doomed
                 PROVE  Enough({c \in disk' \ doomed : Newer(c, b)'})
      BY DEF Outnumbered
    <2>1. {c \in disk \ doomed : Newer(c, b)} \in
            SUBSET {c \in disk' \ doomed : Newer(c, b)'}
      BY <1>6 DEF WorldTyped
    <2>2. IsFiniteSet({c \in disk' \ doomed : Newer(c, b)'})
      <3>1. IsFiniteSet(disk)
        BY DiskFinite
      <3>2. IsFiniteSet(disk')
        BY <3>1, FS_AddElement
      <3> QED
        BY <3>2, FS_Subset
    <2> QED
      BY <2>1, <2>2, EnoughMore DEF Outnumbered
  <1>8. ReportedIsKept'
    BY <1>0, <1>1, <1>6, ReportedStay DEF WorldTyped
  <1>9. ToldOnly' /\ Restored'
    BY DEF WorldTyped, ToldOnly, Restored
  <1> QED
    BY <1>1, <1>3, <1>4, <1>5, <1>7, <1>8, <1>9

(* The holder of the lock writes: nobody is about to remove anything.      *)
LEMMA NoneDoomed ==
  ASSUME WorldInv, NEW m \in Maker, maker[m] \in {"copy", "copying", "clean"}
  PROVE  doomed = {}
  BY LockAssumption DEF WorldInv, WorldTyped, Holders

LEMMA CopyStartsWorld ==
  ASSUME WorldInv, UNCHANGED <<bound, flaws>>, NEW m \in Maker, CopyStarts(m)
  PROVE  WorldInv'
  <1> USE LockAssumption
      DEF WorldInv, CopyStarts, MakerAt, MakerTo, worldFiles, makers, rolling, pages
  <1>0. /\ mine[m] \in 1..made /\ mine[m] \notin told /\ made \in Nat
        /\ 1..made \subseteq WorldBackup /\ doomed = {}
    BY BoundAssumption, NoneDoomed DEF WorldTyped, WorldBackup, OwnBackup, Working
  <1>1. /\ modified' \in [WorldBackup -> Nat]
        /\ Ranked'
        /\ \A c \in 1..made : \A d \in 1..made \ {mine[m]} :
             Newer(c, d) => Newer(c, d)'
    BY <1>0, TouchRanks
  <1>2. WorldTyped'
    <2>1. holds' \in [WorldBackup -> {"empty", "partial", "whole"}]
      BY DEF WorldTyped
    <2>2. maker' \in [Maker -> {"idle", "made", "copy", "copying", "clean", "remove"}]
      BY DEF WorldTyped
    <2> QED
      BY <1>0, <1>1, <2>1, <2>2 DEF WorldTyped
  <1>3. OwnBackup'
    BY DEF WorldTyped, OwnBackup, Working
  <1>4. Holders'
    BY DEF WorldTyped, Holders
  <1>5. Outnumbered'
    BY <1>0 DEF Outnumbered
  <1>6. ReportedIsKept'
    <2>1. \A b \in told : b # mine[m] /\ b \in 1..made
      BY <1>0 DEF WorldTyped
    <2>2. \A b \in told : b \in disk' => b \in disk /\ holds'[b] = holds[b]
      BY <2>1, <1>0 DEF WorldTyped
    <2>3. \A b \in told : b \notin disk' =>
            b \notin disk /\ {c \in disk : Newer(c, b)} \subseteq {c \in disk' : Newer(c, b)'}
      BY <2>1, <1>1 DEF WorldTyped
    <2> QED
      BY <1>2, <2>2, <2>3, ReportedStay
  <1>7. ToldOnly' /\ Restored'
    BY DEF WorldTyped, ToldOnly, Restored
  <1> QED
    BY <1>1, <1>2, <1>3, <1>4, <1>5, <1>6, <1>7

(* A backup is reported while its directory is there, and is whole since   *)
(* the world is.                                                           *)
LEMMA CopyEndsWorld ==
  ASSUME WorldInv, UNCHANGED bound, NEW m \in Maker, CopyEnds(m)
  PROVE  WorldInv'
  <1> USE LockAssumption
      DEF WorldInv, CopyEnds, MakerAt, MakerTo, worldFiles, makers, rolling, pages
  <1>0. /\ mine[m] \in 1..made /\ mine[m] \notin told /\ made \in Nat
        /\ 1..made \subseteq WorldBackup /\ doomed = {} /\ mine[m] \in disk
        /\ world # "none"
    BY BoundAssumption, NoneDoomed DEF WorldTyped, WorldBackup, OwnBackup, Working, Holders
  <1>1. /\ modified' \in [WorldBackup -> Nat]
        /\ Ranked'
        /\ \A c \in 1..made : \A d \in 1..made \ {mine[m]} :
             Newer(c, d) => Newer(c, d)'
    BY <1>0, TouchRanks
  <1>2. WorldTyped'
    <2>1. holds' \in [WorldBackup -> {"empty", "partial", "whole"}]
      BY DEF WorldTyped
    <2>2. maker' \in [Maker -> {"idle", "made", "copy", "copying", "clean", "remove"}]
      BY DEF WorldTyped
    <2> QED
      BY <1>0, <1>1, <2>1, <2>2 DEF WorldTyped
  <1>3. OwnBackup'
    <2>1. \A n \in Maker : Working(n)' => n # m /\ Working(n) /\ mine[n] # mine[m]
      BY DEF WorldTyped, OwnBackup, Working
    <2> QED
      BY <2>1 DEF OwnBackup
  <1>4. Holders'
    BY DEF WorldTyped, Holders
  <1>5. Outnumbered'
    BY <1>0 DEF Outnumbered
  <1>6. flaws \subseteq flaws'
    OBVIOUS
  <1>7. ReportedIsKept'
    <2>1. \A b \in told : b # mine[m] /\ b \in 1..made
      BY <1>0 DEF WorldTyped
    <2>2. \A b \in told : b \in disk' => b \in disk /\ holds'[b] = holds[b]
      BY <2>1, <1>0 DEF WorldTyped
    <2>3. \A b \in told : b \notin disk' =>
            b \notin disk /\ {c \in disk : Newer(c, b)} \subseteq {c \in disk' : Newer(c, b)'}
      BY <2>1, <1>1 DEF WorldTyped
    <2>4. flaws' \cap {"silent", "untold"} = {} =>
            mine[m] \in disk' /\ holds'[mine[m]] = "whole"
      BY <1>0 DEF WorldTyped, ToldOnly
    <2>5. told \subseteq told' /\ told' \ told \subseteq {mine[m]}
      OBVIOUS
    <2> QED
      BY <1>2, <1>6, <2>2, <2>3, <2>4, <2>5, ReportedStay
  <1>8. ToldOnly' /\ Restored'
    BY <1>6 DEF WorldTyped, ToldOnly, Restored
  <1> QED
    BY <1>1, <1>2, <1>3, <1>4, <1>5, <1>7, <1>8

(* The newest of those to be removed is older than Keep others, which are  *)
(* newer than the rest of them too.                                        *)
LEMMA BeyondOutnumbered ==
  ASSUME WorldTyped, NEW b \in Beyond
  PROVE  Enough({c \in disk \ Beyond : Newer(c, b)})
  <1> DEFINE NewerThan(d) == {c \in disk : Newer(c, d)}
             f == [d \in Beyond |-> modified[d]]
  <1>1. /\ disk \subseteq WorldBackup
        /\ \A d \in disk : modified[d] \in Nat
    BY RanksAreNumbers DEF WorldTyped
  <1>2. Beyond \in SUBSET disk /\ \A d \in Beyond : Enough(NewerThan(d))
    BY DEF Beyond, Enough
  <1>3. f \in [Beyond -> Nat] /\ IsFiniteSet(Beyond) /\ Beyond # {}
    BY <1>1, <1>2, DiskFinite
  <1>4. PICK e \in Beyond : \A d \in Beyond : f[d] <= f[e]
    BY <1>3, Largest
  <1>5. \A d \in Beyond : modified[d] <= modified[e]
    BY <1>4
  <1>6. modified[b] \in Nat /\ modified[e] \in Nat /\ modified[b] <= modified[e]
    BY <1>1, <1>2, <1>5
  <1>7. NewerThan(e) \in SUBSET {c \in disk \ Beyond : Newer(c, b)}
    <2> SUFFICES ASSUME NEW c \in disk, Newer(c, e)
                 PROVE  c \notin Beyond /\ Newer(c, b)
      OBVIOUS
    <2>1. modified[c] \in Nat /\ modified[c] > modified[e]
      BY <1>1 DEF Newer
    <2> QED
      BY <1>5, <1>6, <2>1 DEF Newer
  <1>8. IsFiniteSet({c \in disk \ Beyond : Newer(c, b)})
    BY DiskFinite
  <1>9. Enough(NewerThan(e))
    BY <1>2
  <1> HIDE DEF NewerThan
  <1> QED
    BY <1>7, <1>8, <1>9, EnoughMore

LEMMA CleanWorld ==
  ASSUME WorldInv, UNCHANGED <<bound, flaws>>, NEW m \in Maker, Clean(m)
  PROVE  WorldInv'
  <1> USE LockAssumption
      DEF WorldInv, Clean, MakerAt, MakerTo, worldFiles, makers, rolling, pages
  <1>1. WorldTyped'
    BY DEF WorldTyped, Beyond
  <1>2. Ranked' /\ ReportedIsKept'
    BY DEF Ranked, ReportedIsKept, Newer
  <1>3. OwnBackup'
    BY DEF WorldTyped, OwnBackup, Working
  <1>4. Holders'
    BY DEF WorldTyped, Holders
  <1>5. Outnumbered'
    <2> SUFFICES ASSUME NEW b \in Beyond
                 PROVE  Enough({c \in disk \ Beyond : Newer(c, b)})
      BY DEF Outnumbered, Newer
    <2> QED
      BY BeyondOutnumbered
  <1>6. ToldOnly' /\ Restored'
    BY DEF ToldOnly, Restored
  <1> QED
    BY <1>1, <1>2, <1>3, <1>4, <1>5, <1>6

(* Whatever is older than a backup that is removed is as outnumbered.      *)
LEMMA RemoveOldWorld ==
  ASSUME WorldInv, UNCHANGED bound, NEW m \in Maker, RemoveOld(m)
  PROVE  WorldInv'
  <1> USE LockAssumption
      DEF WorldInv, RemoveOld, MakerAt, MakerTo, worldFiles, makers, rolling, pages
  <1>0. PICK b \in doomed :
          /\ disk' = disk \ {b} /\ doomed' = doomed \ {b}
          /\ flaws' = IF rollback # "none" /\ request = b
                      THEN flaws \cup {"removed"} ELSE flaws
    OBVIOUS
  <1>1. WorldTyped'
    BY <1>0 DEF WorldTyped
  <1>2. Ranked' /\ OwnBackup'
    BY DEF Ranked, OwnBackup, Working
  <1>3. Holders'
    BY DEF WorldTyped, Holders
  <1>4. \A d \in doomed : {c \in disk \ doomed : Newer(c, d)}
                            \subseteq {c \in disk' \ doomed' : Newer(c, d)'}
    BY <1>0 DEF Newer
  <1>5. \A d \in doomed : Enough({c \in disk' : Newer(c, d)'})
    <2> SUFFICES ASSUME NEW d \in doomed
                 PROVE  Enough({c \in disk' : Newer(c, d)'})
      OBVIOUS
    <2>1. {c \in disk \ doomed : Newer(c, d)} \in SUBSET {c \in disk' : Newer(c, d)'}
      BY <1>0 DEF Newer
    <2>2. IsFiniteSet({c \in disk' : Newer(c, d)'})
      BY <1>0, DiskFinite
    <2>3. Enough({c \in disk \ doomed : Newer(c, d)})
      BY DEF Outnumbered
    <2> QED
      BY <2>1, <2>2, <2>3, EnoughMore
  <1>6. Outnumbered'
    <2> SUFFICES ASSUME NEW d \in doomed'
                 PROVE  Enough({c \in disk' \ doomed' : Newer(c, d)'})
      BY DEF Outnumbered
    <2>1. d \in doomed
      BY <1>0
    <2>2. {c \in disk' \ doomed' : Newer(c, d)'} = {c \in disk \ doomed : Newer(c, d)}
      BY <1>0 DEF Newer
    <2> QED
      BY <2>1, <2>2 DEF Outnumbered
  <1>7. ReportedIsKept'
    <2>1. \A d \in told : d \notin disk' /\ d \in disk =>
            Enough({c \in disk' : Newer(c, d)'})
      BY <1>0, <1>5
    <2>2. ASSUME NEW d \in told, d \notin disk
          PROVE  \/ {c \in disk : Newer(c, d)} \subseteq {c \in disk' : Newer(c, d)'}
                 \/ Enough({c \in disk' : Newer(c, d)'})
      <3>1. CASE ~Newer(b, d)
        BY <1>0, <3>1 DEF Newer
      <3>2. CASE Newer(b, d)
        <4>1. modified[b] \in Nat /\ modified[d] \in Nat /\ modified[b] > modified[d]
          BY <3>2, RanksAreNumbers DEF WorldTyped, Newer
        <4>2. \A c \in disk' : modified[c] \in Nat
          BY <1>0, RanksAreNumbers DEF WorldTyped
        <4>3. {c \in disk' : Newer(c, b)'} \in SUBSET {c \in disk' : Newer(c, d)'}
          BY <4>1, <4>2 DEF Newer
        <4>4. IsFiniteSet({c \in disk' : Newer(c, d)'})
          BY <1>0, DiskFinite
        <4>5. Enough({c \in disk' : Newer(c, b)'})
          BY <1>5
        <4> QED
          BY <4>3, <4>4, <4>5, EnoughMore
      <3> QED
        BY <3>1, <3>2
    <2>3. /\ flaws \subseteq flaws' /\ told' = told
          /\ \A d \in told : d \in disk' => d \in disk /\ holds'[d] = holds[d]
      BY <1>0
    <2> QED
      BY <1>1, <2>1, <2>2, <2>3, ReportedStay
  <1>8. ToldOnly'
    BY <1>0 DEF ToldOnly
  <1>9. Restored'
    BY <1>0 DEF Restored
  <1> QED
    BY <1>1, <1>2, <1>3, <1>6, <1>7, <1>8, <1>9

LEMMA WorldStepInvariant ==
  ASSUME IInv, WorldStep, UNCHANGED <<bound, playerPart>>
  PROVE  IInv'
  <1>1. flaws \subseteq flaws'
    BY DEF WorldStep, CopyEnds, RemoveOld, Request, Abort, LockForRollback, Wipe,
           Restore, StartMinecraft, OpenList, NextPage, PreviousPage, Turn, Show
  <1>2. PlayerInv'
    BY <1>1, PlayerStays DEF IInv
  <1> USE DEF IInv
  <1>3. ASSUME NEW m \in Maker,
               \/ MakeDirectory(m) /\ UNCHANGED flaws
               \/ TryLock(m) /\ UNCHANGED flaws
               \/ CopyStarts(m) /\ UNCHANGED flaws
               \/ CopyEnds(m)
               \/ CopyFails(m) /\ UNCHANGED flaws
               \/ Clean(m) /\ UNCHANGED flaws
               \/ RemoveOld(m)
               \/ CleanEnds(m) /\ UNCHANGED flaws
        PROVE  WorldInv'
    BY <1>3, MakeDirectoryWorld, TryLockWorld, CopyStartsWorld, CopyEndsWorld,
       CopyFailsWorld, CleanWorld, RemoveOldWorld, CleanEndsWorld
  <1>4. ASSUME NEW b \in WorldBackup, Request(b) PROVE WorldInv'
    BY <1>4, RequestWorld
  <1>5. CASE Abort \/ LockForRollback \/ Wipe \/ Restore \/ StartMinecraft
    <2>1. CASE Abort
      BY <2>1, <1>2, AbortWorld
    <2>2. CASE LockForRollback
      BY <2>2, <1>2, LockForRollbackWorld
    <2>3. CASE Wipe
      BY <2>3, <1>2, WipeWorld
    <2>4. CASE Restore
      BY <2>4, <1>2, RestoreWorld
    <2>5. CASE StartMinecraft
      BY <2>5, <1>2, StartMinecraftWorld
    <2> QED
      BY <1>5, <2>1, <2>2, <2>3, <2>4, <2>5
  <1>6. CASE OpenList \/ NextPage \/ PreviousPage
    <2>1. UNCHANGED <<bound, worldFiles, makers, backupLock, world, rolling>>
      BY <1>6 DEF OpenList, NextPage, PreviousPage, Turn, Show
    <2> QED
      BY <1>1, <1>2, <2>1, WorldStays
  <1> QED
    BY <1>2, <1>3, <1>4, <1>5, <1>6 DEF WorldStep

-----------------------------------------------------------------------------
(* Steps about the data of the player                                      *)

LEMMA VersionsAreNumbers ==
  ASSUME PlayerTyped
  PROVE  /\ extra \in Nat /\ savedExtra \in Nat
         /\ dirs \subseteq Nat /\ IsFiniteSet(dirs)
         /\ \A w \in Worker : mtime[w] \in Nat
  <1>1. Version \subseteq Nat
    BY DEF Version
  <1>2. IsFiniteSet(Version)
    <2>1. 0 \in Int /\ MaxChanges \in Int
      BY BoundAssumption
    <2>2. IsFiniteSet(0..MaxChanges)
      BY <2>1, FS_Interval, Zenon
    <2> QED
      BY <2>2 DEF Version
  <1>3. IsFiniteSet(dirs)
    BY <1>2, FS_Subset DEF PlayerTyped
  <1> QED
    BY <1>1, <1>3 DEF PlayerTyped

(* Cleaning up never removes the newest version.                           *)
LEMMA NewestIsKept ==
  ASSUME PlayerTyped, NEW d \in dirs
  PROVE  \E v \in {u \in dirs : Cardinality({t \in dirs : t > u}) < Keep} : v >= d
  <1> DEFINE f == [u \in dirs |-> u]
  <1>1. dirs \subseteq Nat /\ IsFiniteSet(dirs)
    BY VersionsAreNumbers
  <1>2. f \in [dirs -> Nat] /\ dirs # {}
    BY <1>1
  <1>3. PICK v \in dirs : \A u \in dirs : f[u] <= f[v]
    BY <1>1, <1>2, Largest
  <1>4. \A u \in dirs : u <= v
    BY <1>3
  <1>5. v >= d /\ \A t \in dirs : ~(t > v)
    <2>1. \A u \in dirs : u \in Nat
      BY <1>1
    <2> QED
      BY <1>4, <2>1
  <1>6. Cardinality({t \in dirs : t > v}) < Keep
    <2>1. {t \in dirs : t > v} = {}
      BY <1>5
    <2>2. Cardinality({t \in dirs : t > v}) = 0
      BY <2>1, FS_EmptySet
    <2> QED
      BY <2>2, SizeAssumption
  <1> QED
    BY <1>5, <1>6

(* Nobody becomes active in a step that lets nobody begin.                 *)
LEMMA OneActiveStays ==
  ASSUME OneActive, flaws \subseteq flaws',
         \A w \in Worker : Active(w)' => Active(w)
  PROVE  OneActive'
  BY DEF OneActive

(* Versions stay backed while backups and copies under way do.             *)
LEMMA VersionsStay ==
  ASSUME VersionsBacked, flaws \subseteq flaws', dirs \subseteq dirs',
         extra' = extra, savedExtra' \in {extra, savedExtra},
         \A w \in Worker : LoopAt(w, "copy") =>
           \/ LoopAt(w, "copy")' /\ mtime'[w] = mtime[w]
           \/ mtime[w] \in dirs',
         \A w \in Worker : LoopAt(w, "put")' /\ ~need'[w] =>
           LoopAt(w, "put") /\ ~need[w] /\ mtime'[w] = mtime[w]
  PROVE  VersionsBacked'
  <1> SUFFICES ASSUME flaws' \cap {"silent", "crash"} = {}
               PROVE  /\ Backed(extra)'
                      /\ Backed(savedExtra)'
                      /\ \A w \in Worker : LoopAt(w, "put")' /\ ~need'[w] =>
                           Backed(mtime[w])'
    BY DEF VersionsBacked
  <1> DEFINE Kept(x) == \/ x = 0
                        \/ \E v \in dirs' : v >= x
                        \/ \E w \in Worker : LoopAt(w, "copy")' /\ mtime'[w] >= x
  <1>1. \A x : Backed(x) => Kept(x)
    BY DEF Backed
  <1>2. /\ Backed(extra) /\ Backed(savedExtra)
        /\ \A w \in Worker : LoopAt(w, "put") /\ ~need[w] => Backed(mtime[w])
    BY DEF VersionsBacked
  <1> QED
    BY <1>1, <1>2 DEF Backed

LEMMA ChangePlayer ==
  ASSUME PlayerInv, WorldTyped, Change
  PROVE  PlayerInv'
  <1> USE BoundAssumption DEF PlayerInv, Change, LoopAt, LoopTo, data, watch, work, Worker, Version
  <1>1. PlayerTyped'
    <2>1. bound.changes \in 0..MaxChanges
      BY DEF WorldTyped
    <2>2. file' \in Version
      BY <2>1 DEF PlayerTyped
    <2> QED
      BY <2>2 DEF PlayerTyped
  <1>2. Launched'
    BY DEF PlayerTyped, Launched
  <1>3. Watchers'
    BY DEF PlayerTyped, Watchers
  <1>4. OneActive'
    BY OneActiveStays DEF PlayerTyped, Active, AtWork, LoopAt, Open
  <1>5. VersionsBacked'
    <2>1. /\ flaws \subseteq flaws' /\ dirs \subseteq dirs' /\ extra' = extra
          /\ savedExtra' \in {extra, savedExtra}
      OBVIOUS
    <2>2. \A v \in Worker : loop[v] = "copy" => loop'[v] = "copy" /\ mtime'[v] = mtime[v]
      BY DEF PlayerTyped, Launched
    <2>3. \A v \in Worker : loop'[v] = "put" /\ ~need'[v] =>
            loop[v] = "put" /\ ~need[v] /\ mtime'[v] = mtime[v]
      BY DEF PlayerTyped, Launched
    <2> QED
      BY <2>1, <2>2, <2>3, VersionsStay
  <1> QED
    BY <1>1, <1>2, <1>3, <1>4, <1>5

(* Start finds nobody at work, or it is the exception.                     *)
LEMMA StartPlayer ==
  ASSUME PlayerInv, Start
  PROVE  PlayerInv'
  <1> USE BoundAssumption DEF PlayerInv, Start, LoopAt, LoopTo, data, watch, work, Worker, Version
  <1>1. PlayerTyped'
    BY DEF PlayerTyped
  <1>2. Launched'
    BY DEF PlayerTyped, Launched
  <1>3. Watchers'
    BY DEF PlayerTyped, Watchers
  <1>4. OneActive'
    <2>1. /\ flaws \subseteq flaws' /\ opened' = {} /\ on' = on
          /\ \A w \in Worker : w # 0 => loop'[w] = loop[w]
      BY DEF PlayerTyped, Watchers
    <2>2. "overrun" \notin flaws' => \A w \in Worker : ~AtWork(w)
      OBVIOUS
    <2>3. "overrun" \notin flaws' => \A w \in Worker : Active(w)' => w = 0
      BY <2>1, <2>2 DEF Active, AtWork, Open
    <2> QED
      BY <2>3 DEF OneActive
  <1>5. VersionsBacked'
    <2>1. /\ flaws \subseteq flaws' /\ dirs \subseteq dirs' /\ extra' = extra
          /\ savedExtra' \in {extra, savedExtra}
      OBVIOUS
    <2>2. \A v \in Worker : loop[v] = "copy" => loop'[v] = "copy" /\ mtime'[v] = mtime[v]
      BY DEF PlayerTyped, Launched
    <2>3. \A v \in Worker : loop'[v] = "put" /\ ~need'[v] =>
            loop[v] = "put" /\ ~need[v] /\ mtime'[v] = mtime[v]
      BY DEF PlayerTyped, Launched
    <2> QED
      BY <2>1, <2>2, <2>3, VersionsStay
  <1> QED
    BY <1>1, <1>2, <1>3, <1>4, <1>5

(* The new goroutine takes the place of Start.                             *)
LEMMA WatchPlayer ==
  ASSUME PlayerInv, Watch
  PROVE  PlayerInv'
  <1> USE BoundAssumption DEF PlayerInv, Watch, LoopAt, LoopTo, data, watch, work, Worker, Version
  <1>0. /\ starts \in Worker /\ starts # 0 /\ running
        /\ opened' = {starts} /\ opened = {} /\ on' = on
        /\ loop'[0] = "none" /\ loop'[starts] = "select"
        /\ \A w \in Worker \ {0, starts} : loop'[w] = loop[w]
    <2>1. loop[0] # "none" /\ starts \in 0..MaxStarts
      BY DEF PlayerTyped
    <2>2. starts \in Worker /\ starts # 0 /\ running /\ opened = {}
      BY <2>1 DEF Launched, Watchers
    <2>3. 0 \in Worker /\ DOMAIN loop = Worker
      BY DEF PlayerTyped
    <2> QED
      BY <2>2, <2>3
  <1>0a. \A w \in Worker : on[w] < starts
    <2>1. watcher < starts /\ watcher \in Nat /\ starts \in Nat
      BY DEF PlayerTyped, Watchers
    <2>2. \A w \in Worker : on[w] \in Nat /\ on[w] <= watcher
      BY DEF PlayerTyped, Watchers
    <2> QED
      BY <2>1, <2>2
  <1>1. PlayerTyped'
    BY DEF PlayerTyped
  <1>2. Launched'
    BY DEF PlayerTyped, Launched
  <1>3. Watchers'
    <2>1. opened' \subseteq {watcher'} /\ event' \subseteq opened' /\ running'
      BY <1>0 DEF Watchers
    <2>2. \A w \in Worker : on'[w] <= watcher'
      <3>1. \A w \in Worker : on[w] \in Nat /\ starts \in Nat
        BY DEF PlayerTyped
      <3> QED
        BY <1>0, <1>0a, <3>1
    <2>3. watcher' <= starts'
      BY DEF PlayerTyped
    <2> QED
      BY <1>0, <2>1, <2>2, <2>3 DEF Watchers
  <1>4. OneActive'
    <2>2. "overrun" \notin flaws => \A w \in Worker \ {0} : ~AtWork(w)
      BY DEF OneActive, Active, AtWork
    <2>3. "overrun" \notin flaws' => \A w \in Worker : Active(w)' => w = starts
      BY <1>0, <1>0a, <2>2 DEF Active, AtWork, Open
    <2> QED
      BY <2>3 DEF OneActive
  <1>5. VersionsBacked'
    <2>1. /\ flaws \subseteq flaws' /\ dirs \subseteq dirs' /\ extra' = extra
          /\ savedExtra' \in {extra, savedExtra}
      OBVIOUS
    <2>2. \A v \in Worker : loop[v] = "copy" => loop'[v] = "copy" /\ mtime'[v] = mtime[v]
      BY DEF PlayerTyped, Launched
    <2>3. \A v \in Worker : loop'[v] = "put" /\ ~need'[v] =>
            loop[v] = "put" /\ ~need[v] /\ mtime'[v] = mtime[v]
      BY DEF PlayerTyped, Launched
    <2> QED
      BY <2>1, <2>2, <2>3, VersionsStay
  <1> QED
    BY <1>1, <1>2, <1>3, <1>4, <1>5

LEMMA CommitPlayer ==
  ASSUME PlayerInv, Commit
  PROVE  PlayerInv'
  <1> USE BoundAssumption DEF PlayerInv, Commit, LoopAt, LoopTo, data, watch, work, Worker, Version
  <1>1. PlayerTyped'
    BY DEF PlayerTyped
  <1>2. Launched'
    BY DEF PlayerTyped, Launched
  <1>3. Watchers'
    BY DEF PlayerTyped, Watchers
  <1>4. OneActive'
    BY OneActiveStays DEF PlayerTyped, Active, AtWork, LoopAt, Open
  <1>5. VersionsBacked'
    <2>1. /\ flaws \subseteq flaws' /\ dirs \subseteq dirs' /\ extra' = extra
          /\ savedExtra' \in {extra, savedExtra}
      OBVIOUS
    <2>2. \A v \in Worker : loop[v] = "copy" => loop'[v] = "copy" /\ mtime'[v] = mtime[v]
      BY DEF PlayerTyped, Launched
    <2>3. \A v \in Worker : loop'[v] = "put" /\ ~need'[v] =>
            loop[v] = "put" /\ ~need[v] /\ mtime'[v] = mtime[v]
      BY DEF PlayerTyped, Launched
    <2> QED
      BY <2>1, <2>2, <2>3, VersionsStay
  <1> QED
    BY <1>1, <1>2, <1>3, <1>4, <1>5

LEMMA PausePlayer ==
  ASSUME PlayerInv, Pause
  PROVE  PlayerInv'
  <1> USE BoundAssumption DEF PlayerInv, Pause, LoopAt, LoopTo, data, watch, work, Worker, Version
  <1>1. PlayerTyped'
    BY DEF PlayerTyped
  <1>2. Launched'
    BY DEF PlayerTyped, Launched
  <1>3. Watchers'
    BY DEF PlayerTyped, Watchers
  <1>4. OneActive'
    BY OneActiveStays DEF PlayerTyped, Active, AtWork, LoopAt, Open
  <1>5. VersionsBacked'
    <2>1. /\ flaws \subseteq flaws' /\ dirs \subseteq dirs' /\ extra' = extra
          /\ savedExtra' \in {extra, savedExtra}
      OBVIOUS
    <2>2. \A v \in Worker : loop[v] = "copy" => loop'[v] = "copy" /\ mtime'[v] = mtime[v]
      BY DEF PlayerTyped, Launched
    <2>3. \A v \in Worker : loop'[v] = "put" /\ ~need'[v] =>
            loop[v] = "put" /\ ~need[v] /\ mtime'[v] = mtime[v]
      BY DEF PlayerTyped, Launched
    <2> QED
      BY <2>1, <2>2, <2>3, VersionsStay
  <1> QED
    BY <1>1, <1>2, <1>3, <1>4, <1>5

(* What is recorded in the file is backed unless its copy was under way.   *)
LEMMA CrashPlayer ==
  ASSUME PlayerInv, Crash
  PROVE  PlayerInv'
  <1> USE BoundAssumption DEF PlayerInv, Crash, LoopAt, LoopTo, data, watch, work, Worker, Version
  <1>1. PlayerTyped'
    BY DEF PlayerTyped
  <1>2. Launched'
    BY DEF PlayerTyped, Launched
  <1>3. Watchers'
    BY DEF PlayerTyped, Watchers
  <1>4. OneActive'
    BY DEF OneActive, Active, AtWork
  <1>5. VersionsBacked'
    <2> SUFFICES ASSUME flaws' \cap {"silent", "crash"} = {}
                 PROVE  Backed(savedExtra)'
      BY DEF VersionsBacked
    <2>1. /\ flaws \cap {"silent", "crash"} = {}
          /\ \A w \in Worker : loop[w] = "copy" => savedExtra \notin 1..mtime[w]
      OBVIOUS
    <2>2. Backed(savedExtra)
      BY <2>1 DEF VersionsBacked
    <2>3. \A w \in Worker : loop[w] = "copy" /\ mtime[w] >= savedExtra => savedExtra = 0
      BY <2>1 DEF PlayerTyped
    <2>4. savedExtra = 0 \/ \E v \in dirs : v >= savedExtra
      BY <2>2, <2>3 DEF Backed
    <2> QED
      BY <2>4 DEF Backed
  <1> QED
    BY <1>1, <1>2, <1>3, <1>4, <1>5

LEMMA SelectPlayer ==
  ASSUME PlayerInv, NEW w \in Worker, Select(w)
  PROVE  PlayerInv'
  <1> USE BoundAssumption DEF PlayerInv, Select, LoopAt, LoopTo, data, watch, work, Worker, Version
  <1>1. PlayerTyped'
    BY DEF PlayerTyped
  <1>2. Launched'
    BY DEF PlayerTyped, Launched
  <1>3. Watchers'
    BY DEF PlayerTyped, Watchers
  <1>4. OneActive'
    BY OneActiveStays DEF PlayerTyped, Active, AtWork, LoopAt, Open
  <1>5. VersionsBacked'
    <2>1. /\ flaws \subseteq flaws' /\ dirs \subseteq dirs' /\ extra' = extra
          /\ savedExtra' \in {extra, savedExtra}
      OBVIOUS
    <2>2. \A v \in Worker : loop[v] = "copy" => loop'[v] = "copy" /\ mtime'[v] = mtime[v]
      BY DEF PlayerTyped, Launched
    <2>3. \A v \in Worker : loop'[v] = "put" /\ ~need'[v] =>
            loop[v] = "put" /\ ~need[v] /\ mtime'[v] = mtime[v]
      BY DEF PlayerTyped, Launched
    <2> QED
      BY <2>1, <2>2, <2>3, VersionsStay
  <1> QED
    BY <1>1, <1>2, <1>3, <1>4, <1>5

LEMMA ReceivePlayer ==
  ASSUME PlayerInv, NEW w \in Worker, Receive(w)
  PROVE  PlayerInv'
  <1> USE BoundAssumption DEF PlayerInv, Receive, LoopAt, LoopTo, data, watch, work, Worker, Version
  <1>1. PlayerTyped'
    BY DEF PlayerTyped
  <1>2. Launched'
    BY DEF PlayerTyped, Launched
  <1>3. Watchers'
    <2>1. event' \subseteq opened
      BY DEF Watchers
    <2>3. w # 0 /\ loop'[0] = loop[0]
      BY DEF PlayerTyped, Launched
    <2> QED
      BY <2>1, <2>3 DEF PlayerTyped, Watchers
  <1>4. OneActive'
    <2>1. on[w] \in opened
      BY DEF Watchers
    <2>2. Active(w)
      BY <2>1 DEF Active, Open
    <2>3. \A v \in Worker : Active(v)' => Active(v)
      BY <2>2 DEF PlayerTyped, Active, AtWork, Open
    <2> QED
      BY <2>3, OneActiveStays
  <1>5. VersionsBacked'
    <2>1. /\ flaws \subseteq flaws' /\ dirs \subseteq dirs' /\ extra' = extra
          /\ savedExtra' \in {extra, savedExtra}
      OBVIOUS
    <2>2. \A v \in Worker : loop[v] = "copy" => loop'[v] = "copy" /\ mtime'[v] = mtime[v]
      BY DEF PlayerTyped, Launched
    <2>3. \A v \in Worker : loop'[v] = "put" /\ ~need'[v] =>
            loop[v] = "put" /\ ~need[v] /\ mtime'[v] = mtime[v]
      BY DEF PlayerTyped, Launched
    <2> QED
      BY <2>1, <2>2, <2>3, VersionsStay
  <1> QED
    BY <1>1, <1>2, <1>3, <1>4, <1>5

LEMMA WorkerEndsPlayer ==
  ASSUME PlayerInv, NEW w \in Worker, WorkerEnds(w)
  PROVE  PlayerInv'
  <1> USE BoundAssumption DEF PlayerInv, WorkerEnds, LoopAt, LoopTo, data, watch, work, Worker, Version
  <1>1. PlayerTyped'
    BY DEF PlayerTyped
  <1>2. Launched'
    BY DEF PlayerTyped, Launched
  <1>3. Watchers'
    BY DEF PlayerTyped, Watchers
  <1>4. OneActive'
    BY OneActiveStays DEF PlayerTyped, Active, AtWork, LoopAt, Open
  <1>5. VersionsBacked'
    <2>1. /\ flaws \subseteq flaws' /\ dirs \subseteq dirs' /\ extra' = extra
          /\ savedExtra' \in {extra, savedExtra}
      OBVIOUS
    <2>2. \A v \in Worker : loop[v] = "copy" => loop'[v] = "copy" /\ mtime'[v] = mtime[v]
      BY DEF PlayerTyped, Launched
    <2>3. \A v \in Worker : loop'[v] = "put" /\ ~need'[v] =>
            loop[v] = "put" /\ ~need[v] /\ mtime'[v] = mtime[v]
      BY DEF PlayerTyped, Launched
    <2> QED
      BY <2>1, <2>2, <2>3, VersionsStay
  <1> QED
    BY <1>1, <1>2, <1>3, <1>4, <1>5

LEMMA ScanPlayer ==
  ASSUME PlayerInv, NEW w \in Worker, Scan(w)
  PROVE  PlayerInv'
  <1> USE BoundAssumption DEF PlayerInv, Scan, LoopAt, LoopTo, data, watch, work, Worker, Version
  <1>1. PlayerTyped'
    BY DEF PlayerTyped
  <1>2. Launched'
    BY DEF PlayerTyped, Launched
  <1>3. Watchers'
    BY DEF PlayerTyped, Watchers
  <1>4. OneActive'
    BY OneActiveStays DEF PlayerTyped, Active, AtWork, LoopAt, Open
  <1>5. VersionsBacked'
    <2>1. /\ flaws \subseteq flaws' /\ dirs \subseteq dirs' /\ extra' = extra
          /\ savedExtra' \in {extra, savedExtra}
      OBVIOUS
    <2>2. \A v \in Worker : loop[v] = "copy" => loop'[v] = "copy" /\ mtime'[v] = mtime[v]
      BY DEF PlayerTyped, Launched
    <2>3. \A v \in Worker : loop'[v] = "put" /\ ~need'[v] =>
            loop[v] = "put" /\ ~need[v] /\ mtime'[v] = mtime[v]
      BY DEF PlayerTyped, Launched
    <2> QED
      BY <2>1, <2>2, <2>3, VersionsStay
  <1> QED
    BY <1>1, <1>2, <1>3, <1>4, <1>5

LEMMA ComparePlayer ==
  ASSUME PlayerInv, NEW w \in Worker, Compare(w)
  PROVE  PlayerInv'
  <1> USE BoundAssumption DEF PlayerInv, Compare, LoopAt, LoopTo, data, watch, work, Worker, Version
  <1>1. PlayerTyped'
    BY DEF PlayerTyped
  <1>2. Launched'
    BY DEF PlayerTyped, Launched
  <1>3. Watchers'
    BY DEF PlayerTyped, Watchers
  <1>4. OneActive'
    BY OneActiveStays DEF PlayerTyped, Active, AtWork, LoopAt, Open
  <1>5. VersionsBacked'
    <2> SUFFICES ASSUME flaws \cap {"silent", "crash"} = {}
                 PROVE  /\ Backed(extra)' /\ Backed(savedExtra)'
                        /\ \A v \in Worker : loop'[v] = "put" /\ ~need'[v] => Backed(mtime[v])'
      BY DEF VersionsBacked
    <2>1. \A x : Backed(x)' <=> Backed(x)
      BY DEF PlayerTyped, Backed
    <2>2. Backed(extra) /\ Backed(savedExtra)
      BY DEF VersionsBacked
    <2>3. mtime[w] <= extra => Backed(mtime[w])
      <3> SUFFICES ASSUME mtime[w] <= extra PROVE Backed(mtime[w])
        OBVIOUS
      <3>1. mtime[w] \in Nat /\ extra \in Nat /\ dirs \subseteq Nat
            /\ \A v \in Worker : mtime[v] \in Nat
        BY VersionsAreNumbers
      <3> QED
        BY <2>2, <3>1 DEF Backed
    <2>4. /\ need'[w] = (mtime[w] > extra)
          /\ \A v \in Worker \ {w} : need'[v] = need[v] /\ loop'[v] = loop[v]
      BY DEF PlayerTyped
    <2>4a. mtime[w] \in Nat /\ extra \in Nat
      BY VersionsAreNumbers
    <2>5. \A v \in Worker : loop'[v] = "put" /\ ~need'[v] => Backed(mtime[v])
      <3>1. loop'[w] = "put" /\ ~need'[w] => Backed(mtime[w])
        <4>1. ~need'[w] => ~(mtime[w] > extra)
          BY <2>4, Zenon
        <4>2. ~(mtime[w] > extra) => mtime[w] <= extra
          BY <2>4a
        <4> QED
          BY <2>3, <4>1, <4>2, Zenon
      <3>2. \A v \in Worker \ {w} : loop'[v] = "put" /\ ~need'[v] => Backed(mtime[v])
        BY <2>4 DEF VersionsBacked
      <3> QED
        BY <3>1, <3>2
    <2> QED
      BY <2>1, <2>2, <2>5
  <1> QED
    BY <1>1, <1>2, <1>3, <1>4, <1>5

(* What is recorded will be copied, or need not be.                        *)
LEMMA PutPlayer ==
  ASSUME PlayerInv, NEW w \in Worker, Put(w)
  PROVE  PlayerInv'
  <1> USE BoundAssumption DEF PlayerInv, Put, LoopAt, LoopTo, data, watch, work, Worker, Version
  <1>1. PlayerTyped'
    BY DEF PlayerTyped
  <1>2. Launched'
    BY DEF PlayerTyped, Launched
  <1>3. Watchers'
    BY DEF PlayerTyped, Watchers
  <1>4. OneActive'
    BY OneActiveStays DEF PlayerTyped, Active, AtWork, LoopAt, Open
  <1>5. VersionsBacked'
    <2> SUFFICES ASSUME flaws \cap {"silent", "crash"} = {}
                 PROVE  /\ Backed(extra)' /\ Backed(savedExtra)'
                        /\ \A v \in Worker : loop'[v] = "put" /\ ~need'[v] => Backed(mtime[v])'
      BY DEF VersionsBacked
    <2>1. /\ UNCHANGED <<dirs, mtime, need, savedExtra>> /\ extra' = mtime[w]
          /\ loop'[w] = IF need[w] THEN "copy" ELSE "clean"
          /\ \A v \in Worker \ {w} : loop'[v] = loop[v]
      BY DEF PlayerTyped
    <2>2. \A x : Backed(x) => \/ x = 0
                              \/ \E v \in dirs' : v >= x
                              \/ \E v \in Worker : loop'[v] = "copy" /\ mtime'[v] >= x
      BY <2>1 DEF Backed
    <2>3. Backed(savedExtra)'
      BY <2>1, <2>2 DEF Backed, VersionsBacked
    <2>4. \A v \in Worker : loop'[v] = "put" /\ ~need'[v] => Backed(mtime[v])'
      BY <2>1, <2>2 DEF Backed, VersionsBacked
    <2>5. CASE need[w]
      <3>1. mtime[w] >= mtime[w]
        BY VersionsAreNumbers
      <3>2. loop'[w] = "copy" /\ mtime'[w] >= extra'
        BY <2>1, <2>5, <3>1
      <3>3. Backed(extra)'
        BY <3>2 DEF Backed
      <3> QED
        BY <2>3, <2>4, <3>3
    <2>6. CASE ~need[w]
      <3>1. Backed(extra)'
        BY <2>1, <2>2, <2>6 DEF Backed, VersionsBacked
      <3> QED
        BY <2>3, <2>4, <3>1
    <2> QED
      BY <2>3, <2>4, <2>5, <2>6
  <1> QED
    BY <1>1, <1>2, <1>3, <1>4, <1>5

LEMMA CopyDataPlayer ==
  ASSUME PlayerInv, NEW w \in Worker, CopyData(w)
  PROVE  PlayerInv'
  <1> USE BoundAssumption DEF PlayerInv, CopyData, LoopAt, LoopTo, data, watch, work, Worker, Version
  <1>1. PlayerTyped'
    BY DEF PlayerTyped
  <1>2. Launched'
    BY DEF PlayerTyped, Launched
  <1>3. Watchers'
    BY DEF PlayerTyped, Watchers
  <1>4. OneActive'
    BY OneActiveStays DEF PlayerTyped, Active, AtWork, LoopAt, Open
  <1>5. VersionsBacked'
    <2>1. CASE dirs' = dirs \cup {mtime[w]} /\ UNCHANGED flaws
      <3>1. /\ flaws \subseteq flaws' /\ dirs \subseteq dirs' /\ extra' = extra
            /\ savedExtra' \in {extra, savedExtra}
        BY <2>1
      <3>2. \A v \in Worker : loop[v] = "copy" =>
              \/ loop'[v] = "copy" /\ mtime'[v] = mtime[v]
              \/ mtime[v] \in dirs'
        BY <2>1 DEF PlayerTyped
      <3>3. \A v \in Worker : loop'[v] = "put" /\ ~need'[v] =>
              loop[v] = "put" /\ ~need[v] /\ mtime'[v] = mtime[v]
        BY DEF PlayerTyped
      <3> QED
        BY <3>1, <3>2, <3>3, VersionsStay
    <2>2. CASE "silent" \in flaws'
      BY <2>2 DEF VersionsBacked
    <2> QED
      BY <2>1, <2>2
  <1> QED
    BY <1>1, <1>2, <1>3, <1>4, <1>5

(* The newest version is kept.                                             *)
LEMMA CleanDataPlayer ==
  ASSUME PlayerInv, NEW w \in Worker, CleanData(w)
  PROVE  PlayerInv'
  <1> USE BoundAssumption DEF PlayerInv, CleanData, LoopAt, LoopTo, data, watch, work, Worker, Version, Return
  <1>1. PlayerTyped'
    <2>1. dirs' \subseteq dirs
      OBVIOUS
    <2> QED
      BY <2>1 DEF PlayerTyped
  <1>2. Launched'
    BY DEF PlayerTyped, Launched
  <1>3. Watchers'
    BY DEF PlayerTyped, Watchers
  <1>4. OneActive'
    BY OneActiveStays DEF PlayerTyped, Active, AtWork, LoopAt, Open
  <1>5. VersionsBacked'
    <2>1. \A d \in dirs : \E v \in dirs' : v >= d
      BY NewestIsKept
    <2>2. /\ UNCHANGED <<flaws, extra, savedExtra, mtime, need>>
          /\ \A v \in Worker : loop[v] = "copy" => loop'[v] = "copy"
          /\ \A v \in Worker : loop'[v] = "put" => loop[v] = "put"
      BY DEF PlayerTyped
    <2>3. \A x \in Nat : Backed(x) =>
            \/ x = 0
            \/ \E v \in dirs' : v >= x
            \/ \E v \in Worker : loop'[v] = "copy" /\ mtime'[v] >= x
      <3>1. dirs \subseteq Nat /\ dirs' \subseteq Nat
        BY VersionsAreNumbers
      <3>2. \A x \in Nat : \A d \in dirs : d >= x => \E v \in dirs' : v >= x
        BY <2>1, <3>1
      <3> QED
        BY <2>2, <3>2 DEF Backed
    <2> QED
      BY <2>2, <2>3, VersionsAreNumbers DEF Backed, VersionsBacked
  <1> QED
    BY <1>1, <1>2, <1>3, <1>4, <1>5

LEMMA PlayerStepInvariant ==
  ASSUME IInv, PlayerStep, UNCHANGED <<bound, worldPart>>
  PROVE  IInv'
  <1>1. flaws \subseteq flaws'
    BY DEF PlayerStep, Change, Start, Watch, Commit, Pause, Crash, Select, Receive,
           WorkerEnds, Scan, Compare, Put, CopyData, CleanData
  <1>2. WorldInv'
    BY <1>1, WorldStays DEF IInv, worldPart
  <1>3. CASE Change
    BY <1>2, <1>3, ChangePlayer DEF IInv, WorldInv
  <1>4. CASE Start
    BY <1>2, <1>4, StartPlayer DEF IInv
  <1>5. CASE Watch
    BY <1>2, <1>5, WatchPlayer DEF IInv
  <1>6. CASE Commit
    BY <1>2, <1>6, CommitPlayer DEF IInv
  <1>7. CASE Pause
    BY <1>2, <1>7, PausePlayer DEF IInv
  <1>8. CASE Crash
    BY <1>2, <1>8, CrashPlayer DEF IInv
  <1>9. ASSUME NEW w \in Worker,
               \/ Select(w) \/ Receive(w) \/ WorkerEnds(w) \/ Scan(w) \/ Compare(w)
               \/ Put(w) \/ CopyData(w) \/ CleanData(w)
        PROVE  PlayerInv'
    BY <1>9, SelectPlayer, ReceivePlayer, WorkerEndsPlayer, ScanPlayer, ComparePlayer,
       PutPlayer, CopyDataPlayer, CleanDataPlayer DEF IInv
  <1> QED
    BY <1>2, <1>3, <1>4, <1>5, <1>6, <1>7, <1>8, <1>9 DEF PlayerStep, IInv

LEMMA StepInvariant == IInv /\ [Next]_vars => IInv'
  <1> SUFFICES ASSUME IInv, [Next]_vars PROVE IInv'
    OBVIOUS
  <1>1. CASE WorldStep /\ UNCHANGED <<bound, playerPart>>
    BY <1>1, WorldStepInvariant
  <1>2. CASE PlayerStep /\ UNCHANGED <<bound, worldPart>>
    BY <1>2, PlayerStepInvariant
  <1>3. CASE UNCHANGED vars
    <2>1. /\ flaws \subseteq flaws' /\ UNCHANGED <<bound, playerPart>>
          /\ UNCHANGED <<bound, worldFiles, makers, backupLock, world, rolling>>
      BY <1>3 DEF vars, worldPart
    <2>2. WorldInv'
      BY <2>1, WorldStays DEF IInv
    <2>3. PlayerInv'
      BY <2>1, PlayerStays DEF IInv
    <2> QED
      BY <2>2, <2>3 DEF IInv
  <1> QED
    BY <1>1, <1>2, <1>3 DEF Next

(* The inductive invariant holds in every state of both parts.             *)
THEOREM Invariance == Spec => []IInv
  BY InitInvariant, StepInvariant, PTL DEF Spec

(* A backup that was reported complete is whole and kept until Keep newer  *)
(* ones are there, whatever makers, cleaning up and rollbacks do between.  *)
THEOREM ReportedAreKept == Spec => []ReportedIsKept
  <1>1. IInv => ReportedIsKept
    BY DEF IInv, WorldInv
  <1> QED
    BY <1>1, Invariance, PTL

(* A rollback gives the game the whole world of a backup.                  *)
THEOREM WorldIsRestored == Spec => []WorldRestored
  <1>1. IInv => WorldRestored
    BY DEF IInv, WorldInv, Restored, WorldRestored
  <1> QED
    BY <1>1, Invariance, PTL

(* The recorded version of the data of a player is in a backup or will be. *)
THEOREM RecordedAreKept == Spec => []RecordedIsKept
  <1>1. IInv => RecordedIsKept
    BY DEF IInv, PlayerInv, VersionsBacked, Backed, RecordedIsKept
  <1> QED
    BY <1>1, Invariance, PTL

LEMMA AtMostOne ==
  ASSUME NEW S, \A v \in S : \A w \in S : v = w
  PROVE  Cardinality(S) <= 1
  <1>1. CASE S = {}
    BY <1>1, FS_EmptySet
  <1>2. CASE S # {}
    <2>1. PICK w \in S : S = {w}
      BY <1>2
    <2>2. Cardinality(S) = 1
      BY <2>1, FS_Singleton
    <2> QED
      BY <2>2
  <1> QED
    BY <1>1, <1>2

(* One goroutine at a time backs up the data of players, and one waits for *)
(* the watcher, unless Start came before the last had ended.               *)
THEOREM OneIsAtWork == Spec => []OneWorker
  <1>1. IInv => OneWorker
    <2> SUFFICES ASSUME IInv, "overrun" \notin flaws
                 PROVE  /\ Cardinality({w \in Worker : AtWork(w)}) <= 1
                        /\ Cardinality({w \in Worker : LoopAt(w, "wait") /\ Open(w)}) <= 1
      BY DEF OneWorker
    <2>1. \A v \in Worker : \A w \in Worker : Active(v) /\ Active(w) => v = w
      BY DEF IInv, PlayerInv, OneActive
    <2>2. Cardinality({w \in Worker : AtWork(w)}) <= 1
      BY <2>1, AtMostOne DEF Active
    <2>3. Cardinality({w \in Worker : LoopAt(w, "wait") /\ Open(w)}) <= 1
      BY <2>1, AtMostOne DEF Active
    <2> QED
      BY <2>2, <2>3
  <1> QED
    BY <1>1, Invariance, PTL
=============================================================================
