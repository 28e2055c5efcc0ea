-------------------------------- MODULE Backup --------------------------------
(***************************************************************************)
(* Making, listing, restoring and cleaning up backups (plugins/backup.go,  *)
(* with the copy of backup_linux.go).                                      *)
(*                                                                         *)
(* Backups of the world are made by goroutines of commands and of cron     *)
(* (Maker), one at a time; the directory of a backup is made before that   *)
(* is known, and is listed from then on.  Cleaning up keeps the newest.    *)
(* How a rollback is requested, confirmed and cancelled is Rollback: here  *)
(* it takes a backup that exists and uses it some time later.              *)
(*                                                                         *)
(* The data of one player is backed up by a goroutine that waits for       *)
(* events of a watcher of files, and by Start itself (worker 0), without   *)
(* any lock.  A version of that data is its time of modification.          *)
(***************************************************************************)
EXTENDS Naturals, FiniteSets, SequencesExt

CONSTANTS Maker,
          Keep,       \* backups that are kept (60)
          PageSize,   \* entries of a page of a list (5)
          MaxMakes,   \* bound: backups of the world begun
          MaxChanges, \* bound: changes of the data of the player
          MaxStarts,  \* bound: calls of Start
          Bounds,     \* records of bounds: makes, lists, rollbacks, changes
          Free,       \* nobody holds backupLock ...
          Execute     \* ... or a rollback does

ASSUME SizeAssumption == Keep \in Nat \ {0} /\ PageSize \in Nat \ {0}
ASSUME BoundAssumption ==
  /\ {MaxMakes, MaxChanges, MaxStarts} \subseteq Nat
  /\ Bounds \subseteq [makes : 0..MaxMakes, lists : Nat, rollbacks : Nat,
                      changes : 0..MaxChanges]
ASSUME LockAssumption == Free \notin Maker /\ Execute \notin Maker /\ Free # Execute

WorldBackup == 1..MaxMakes
Version == 0..MaxChanges
Worker == 0..MaxStarts

VARIABLES bound,      \* which of Bounds holds in this behaviour
          made,       \* backups of the world begun, gone ones too
          modified,   \* rank of each by the time of its modification
          disk,       \* those that are there
          holds,      \* what each holds
          told,       \* those reported to be complete
          maker, mine,\* where each maker is, and with which backup
          doomed,     \* what the maker who cleans up has still to remove
          backupLock,
          world,      \* the world the game has
          rollback, request, rollbacks, \* a rollback, of which backup; count
          page,       \* the page that is shown: list, first and last entry
          seen, listed, lists, \* what pages have shown; what they should; count
          file,       \* the version of the data of the player
          extra,      \* the version recorded for the player in memory ...
          savedExtra, \* ... and in the file of the player store
          dirs,       \* versions that have been backed up
          watcher,    \* the watcher in use, 0 before the first
          opened,     \* watchers that are open
          event,      \* watchers that have an event
          running,    \* has Start been called, and Pause not
          loop, on,   \* where each worker is, and with which watcher
          mtime, need,\* the version it has found; is a backup needed
          starts,
          flaws       \* history: which exceptions have happened

worldFiles == <<made, modified, disk, holds, told>>
makers == <<maker, mine, doomed>>
rolling == <<rollback, request, rollbacks>>
pages == <<page, seen, listed, lists>>
worldPart == <<worldFiles, makers, backupLock, world, rolling, pages>>
data == <<file, extra, savedExtra, dirs>>
watch == <<watcher, opened, event, running>>
work == <<loop, on, mtime, need>>
playerPart == <<data, watch, work, starts>>
vars == <<bound, worldPart, playerPart, flaws>>

Flaw == {"silent",  \* a copy has failed without an error
         "untold",  \* a rollback to a backup that is not complete
         "removed", \* a backup was cleaned up that a rollback is to use
         "crash",   \* a crash after a version was recorded, before its copy
         "overrun"} \* Start before the last goroutine has ended

NoPage == [list |-> <<>>, first |-> 0, last |-> 0]

TypeOK ==
  /\ bound \in Bounds
  /\ made \in 0..bound.makes
  /\ modified \in [WorldBackup -> 0..made]
  /\ disk \subseteq 1..made /\ told \subseteq 1..made
  /\ holds \in [WorldBackup -> {"empty", "partial", "whole"}]
  /\ maker \in [Maker -> {"idle", "made", "copy", "copying", "clean", "remove"}]
  /\ mine \in [Maker -> 0..MaxMakes]
  /\ doomed \subseteq disk
  /\ backupLock \in Maker \cup {Free, Execute}
  /\ world \in {"whole", "partial", "none", "new"}
  /\ rollback \in {"none", "pending", "wipe", "copy", "start"}
  /\ request \in 0..MaxMakes /\ rollbacks \in Nat
  /\ page.first <= page.last /\ page.last <= Len(page.list)
  /\ page.last < page.first + PageSize
  /\ seen \subseteq WorldBackup /\ listed \subseteq WorldBackup /\ lists \in Nat
  /\ {file, extra, savedExtra} \subseteq Version /\ dirs \subseteq Version \ {0}
  /\ watcher \in 0..MaxStarts /\ event \subseteq opened /\ opened \subseteq 1..MaxStarts
  /\ running \in BOOLEAN
  /\ loop \in [Worker -> {"none", "select", "wait", "scan", "compare", "put",
                          "copy", "clean", "watch"}]
  /\ on \in [Worker -> 0..MaxStarts] /\ mtime \in [Worker -> Version]
  /\ need \in [Worker -> BOOLEAN]
  /\ starts \in 0..MaxStarts
  /\ flaws \subseteq Flaw

Init ==
  /\ bound \in Bounds
  /\ made = 0 /\ disk = {} /\ told = {}
  /\ modified = [b \in WorldBackup |-> 0]
  /\ holds = [b \in WorldBackup |-> "empty"]
  /\ maker = [m \in Maker |-> "idle"]
  /\ mine = [m \in Maker |-> 0]
  /\ doomed = {}
  /\ backupLock = Free
  /\ world = "whole"
  /\ rollback = "none" /\ request = 0 /\ rollbacks = 0
  /\ page = NoPage /\ seen = {} /\ listed = {} /\ lists = 0
  /\ file = 0 /\ extra = 0 /\ savedExtra = 0 /\ dirs = {}
  /\ watcher = 0 /\ opened = {} /\ event = {} /\ running = FALSE
  /\ loop = [w \in Worker |-> "none"]
  /\ on = [w \in Worker |-> 0]
  /\ mtime = [w \in Worker |-> 0]
  /\ need = [w \in Worker |-> FALSE]
  /\ starts = 0
  /\ flaws = {}

-----------------------------------------------------------------------------
(* Backups of the world                                                    *)

Newer(b, c) == modified[b] > modified[c]

(* getBackupList: by modification of the directory, newest first.          *)
BackupList == SetToSortSeq(disk, Newer)

(* A file is made in the directory of a backup, which is the newest then.  *)
Touch(b) ==
  modified' = [c \in WorldBackup |-> IF c = b THEN made
                                    ELSE IF Newer(c, b) THEN modified[c] - 1
                                    ELSE modified[c]]

MakerAt(m, l) == maker[m] = l
MakerTo(m, l) == maker' = [maker EXCEPT ![m] = l]

(* MakeBackup, by "make" or by cron.                                       *)
MakeDirectory(m) ==
  /\ MakerAt(m, "idle")
  /\ made < bound.makes
  /\ made' = made + 1
  /\ modified' = [modified EXCEPT ![made'] = made']
  /\ disk' = disk \cup {made'}
  /\ mine' = [mine EXCEPT ![m] = made']
  /\ MakerTo(m, "made")
  /\ UNCHANGED <<holds, told, doomed, backupLock, world, rolling, pages>>

(* The call is cancelled if another is at work or the world is not there.  *)
TryLock(m) ==
  /\ MakerAt(m, "made")
  /\ IF backupLock = Free /\ world # "none"
     THEN backupLock' = m /\ MakerTo(m, "copy")
     ELSE UNCHANGED backupLock /\ MakerTo(m, "idle")
  /\ UNCHANGED <<worldFiles, mine, doomed, world, rolling, pages>>

(* Copy makes the directory if it has been cleaned up meanwhile.           *)
CopyStarts(m) ==
  /\ MakerAt(m, "copy")
  /\ disk' = disk \cup {mine[m]}
  /\ Touch(mine[m])
  /\ holds' = [holds EXCEPT ![mine[m]] = "partial"]
  /\ MakerTo(m, "copying")
  /\ UNCHANGED <<made, told, mine, doomed, backupLock, world, rolling, pages>>

(* What is copied is whole, unless the world is being replaced or a file   *)
(* vanishes or cannot be read, about which Copy is silent.                 *)
CopyEnds(m) ==
  /\ MakerAt(m, "copying")
  /\ Touch(mine[m])
  /\ told' = told \cup {mine[m]}
  /\ MakerTo(m, "clean")
  /\ \/ /\ holds' = [holds EXCEPT ![mine[m]] =
                       IF world \in {"whole", "new"} THEN "whole" ELSE @]
        /\ UNCHANGED flaws
     \/ /\ flaws' = flaws \cup {"silent"}
        /\ UNCHANGED holds
  /\ UNCHANGED <<made, disk, mine, doomed, backupLock, world, rolling, pages>>

CopyFails(m) ==
  /\ MakerAt(m, "copying")
  /\ backupLock' = Free
  /\ MakerTo(m, "idle")
  /\ UNCHANGED <<worldFiles, mine, doomed, world, rolling, pages>>

(* Mutant: the cleaning up counts the entries from the wrong end.          *)
BeyondFromEnd == {b \in disk : Cardinality({c \in disk : Newer(b, c)}) >= Keep}

(* What is behind the first Keep entries of the list.                      *)
Beyond == {b \in disk : Cardinality({c \in disk : Newer(c, b)}) >= Keep}

(* CleanupBackup lists and sorts, and then removes one after the other.    *)
Clean(m) ==
  /\ MakerAt(m, "clean")
  /\ doomed' = Beyond
  /\ MakerTo(m, "remove")
  /\ UNCHANGED <<worldFiles, mine, backupLock, world, rolling, pages>>

RemoveOld(m) ==
  /\ MakerAt(m, "remove")
  /\ \E b \in doomed :
       /\ \A c \in doomed \ {b} : Newer(b, c)
       /\ disk' = disk \ {b}
       /\ doomed' = doomed \ {b}
       /\ flaws' = IF rollback # "none" /\ request = b
                   THEN flaws \cup {"removed"} ELSE flaws
  /\ UNCHANGED <<made, modified, holds, told, maker, mine, backupLock, world,
                 rolling, pages>>

CleanEnds(m) ==
  /\ MakerAt(m, "remove")
  /\ doomed = {}
  /\ backupLock' = Free
  /\ MakerTo(m, "idle")
  /\ UNCHANGED <<worldFiles, mine, doomed, world, rolling, pages>>

-----------------------------------------------------------------------------
(* A rollback of the world                                                 *)

(* Mutant: a button of a list that is older than the disk is believed.     *)
RequestUnchecked(b) ==
  /\ rollback = "none"
  /\ rollbacks < bound.rollbacks
  /\ b \in 1..made
  /\ rollbacks' = rollbacks + 1
  /\ rollback' = "pending"
  /\ request' = b
  /\ flaws' = IF b \in told THEN flaws ELSE flaws \cup {"untold"}
  /\ UNCHANGED <<worldFiles, makers, backupLock, world, pages>>

(* rollbackSelected, by name or by a button of a list: the name is looked  *)
(* up, and the request becomes pending.                                    *)
Request(b) ==
  /\ rollback = "none"
  /\ rollbacks < bound.rollbacks
  /\ b \in disk
  /\ rollbacks' = rollbacks + 1
  /\ rollback' = "pending"
  /\ request' = b
  /\ flaws' = IF b \in told THEN flaws ELSE flaws \cup {"untold"}
  /\ UNCHANGED <<worldFiles, makers, backupLock, world, pages>>

Abort ==
  /\ rollback = "pending"
  /\ rollback' = "none"
  /\ UNCHANGED <<worldFiles, makers, backupLock, world, request, rollbacks, pages,
                 flaws>>

(* Execute, after the countdown.                                           *)
LockForRollback ==
  /\ rollback = "pending"
  /\ backupLock = Free
  /\ backupLock' = Execute
  /\ rollback' = "wipe"
  /\ UNCHANGED <<worldFiles, makers, world, request, rollbacks, pages, flaws>>

Wipe ==
  /\ rollback = "wipe"
  /\ world' = "none"
  /\ rollback' = "copy"
  /\ UNCHANGED <<worldFiles, makers, backupLock, request, rollbacks, pages, flaws>>

(* What cannot be copied is left out without a word.                       *)
Restore ==
  /\ rollback = "copy"
  /\ \/ /\ world' = IF request \notin disk THEN "none"
                    ELSE [empty |-> "none", partial |-> "partial",
                          whole |-> "whole"][holds[request]]
        /\ UNCHANGED flaws
     \/ /\ request \in disk /\ holds[request] # "empty"
        /\ world' = "partial"
        /\ flaws' = flaws \cup {"silent"}
  /\ backupLock' = Free
  /\ rollback' = "start"
  /\ UNCHANGED <<worldFiles, makers, request, rollbacks, pages>>

(* The game makes a new world if there is none.                            *)
StartMinecraft ==
  /\ rollback = "start"
  /\ world' = IF world = "none" THEN "new" ELSE world
  /\ rollback' = "none"
  /\ UNCHANGED <<worldFiles, makers, backupLock, request, rollbacks, pages, flaws>>

-----------------------------------------------------------------------------
(* Lists                                                                   *)

Least(i, j) == IF i < j THEN i ELSE j
Most(i, j) == IF i > j THEN i ELSE j

Position(list, b) ==
  IF b \in ToSet(list) THEN CHOOSE i \in 1..Len(list) : list[i] = b ELSE 1

PageFrom(list, i) ==
  [list |-> list, first |-> i, last |-> Least(Len(list), i + PageSize - 1)]

Entries(p) == {p.list[i] : i \in p.first..p.last}

(* rollbackList: the page that begins with b, or the first one.            *)
Show(b) ==
  LET list == BackupList
      p == PageFrom(list, Position(list, b))
  IN  /\ list # <<>>
      /\ page' = p
      /\ UNCHANGED <<worldFiles, makers, backupLock, world, rolling, flaws>>

(* The list is asked for.  Should be shown: what nobody is still making.   *)
OpenList ==
  /\ lists < bound.lists
  /\ lists' = lists + 1
  /\ Show(0)
  /\ seen' = Entries(page')
  /\ listed' = disk \ {mine[m] : m \in {n \in Maker : ~MakerAt(n, "idle")}}

(* Mutant: the next page begins after the first entry that is not shown.   *)
NextNameSkips == page.list[Least(Len(page.list), page.last + 2)]
NextName == page.list[Least(Len(page.list), page.last + 1)]

PreviousName == page.list[Most(1, page.first - PageSize)]

HasNext == Len(page.list) - page.last > 1
HasPrevious == page.first > 1

Turn(b) ==
  /\ Show(b)
  /\ seen' = seen \cup Entries(page')
  /\ UNCHANGED <<listed, lists>>

NextPage == page # NoPage /\ HasNext /\ Turn(NextName)
PreviousPage == page # NoPage /\ HasPrevious /\ Turn(PreviousName)

-----------------------------------------------------------------------------
(* The data of the player                                                  *)

LoopAt(w, l) == loop[w] = l
LoopTo(w, l) == loop' = [loop EXCEPT ![w] = l]

(* Start is done, and another goroutine waits again.                       *)
Return(w) == LoopTo(w, IF w = 0 THEN "watch" ELSE "select")

AtWork(w) == loop[w] \notin {"none", "wait"}

(* The game saves the data; the watcher may see it, or something else.     *)
Change ==
  /\ file < bound.changes
  /\ file' = file + 1
  /\ event' \in {event, opened}
  /\ UNCHANGED <<extra, savedExtra, dirs, watcher, opened, running, work, starts, flaws>>

(* Start makes a backup itself ...                                         *)
Start ==
  /\ bound.changes > 0
  /\ starts < MaxStarts
  /\ ~running
  /\ starts' = starts + 1
  /\ running' = TRUE
  /\ LoopTo(0, "scan")
  /\ flaws' = IF \E w \in Worker : AtWork(w) THEN flaws \cup {"overrun"} ELSE flaws
  /\ UNCHANGED <<data, watcher, opened, event, on, mtime, need>>

(* ... and then makes a watcher and a goroutine that waits for its events. *)
Watch ==
  /\ LoopAt(0, "watch")
  /\ watcher' = starts
  /\ opened' = opened \cup {starts}
  /\ loop' = [loop EXCEPT ![0] = "none", ![starts] = "select"]
  /\ UNCHANGED <<data, event, running, on, mtime, need, starts, flaws>>

(* The field fswatcher is read anew each time.                             *)
Select(w) ==
  /\ LoopAt(w, "select")
  /\ on' = [on EXCEPT ![w] = watcher]
  /\ LoopTo(w, "wait")
  /\ UNCHANGED <<data, watch, mtime, need, starts, flaws>>

Open(w) == on[w] \in opened

(* An event: nothing is done while nobody plays.                           *)
Receive(w) ==
  /\ LoopAt(w, "wait")
  /\ on[w] \in event
  /\ event' = event \ {on[w]}
  /\ LoopTo(w, "scan") \/ LoopTo(w, "select")
  /\ UNCHANGED <<data, watcher, opened, running, on, mtime, need, starts, flaws>>

WorkerEnds(w) ==
  /\ LoopAt(w, "wait")
  /\ ~Open(w)
  /\ LoopTo(w, "none")
  /\ UNCHANGED <<data, watch, on, mtime, need, starts, flaws>>

(* MakePlayerDataBackup: the times of the files; the player may be unknown. *)
Scan(w) ==
  /\ LoopAt(w, "scan")
  /\ \/ file # 0 /\ mtime' = [mtime EXCEPT ![w] = file] /\ LoopTo(w, "compare")
     \/ UNCHANGED mtime /\ LoopTo(w, "clean")
  /\ UNCHANGED <<data, watch, on, need, starts, flaws>>

Compare(w) ==
  /\ LoopAt(w, "compare")
  /\ need' = [need EXCEPT ![w] = mtime[w] > extra]
  /\ LoopTo(w, "put")
  /\ UNCHANGED <<data, watch, on, mtime, starts, flaws>>

(* Mutant: the time of the files is looked up again when it is recorded.   *)
PutLatest(w) ==
  /\ LoopAt(w, "put")
  /\ extra' = file
  /\ LoopTo(w, IF need[w] THEN "copy" ELSE "clean")
  /\ UNCHANGED <<file, savedExtra, dirs, watch, on, mtime, need, starts, flaws>>

(* PutExtra comes before the copy, and whether or not there is one.        *)
Put(w) ==
  /\ LoopAt(w, "put")
  /\ extra' = mtime[w]
  /\ LoopTo(w, IF need[w] THEN "copy" ELSE "clean")
  /\ UNCHANGED <<file, savedExtra, dirs, watch, on, mtime, need, starts, flaws>>

(* The errors of Copy are not looked at.                                   *)
CopyData(w) ==
  /\ LoopAt(w, "copy")
  /\ \/ dirs' = dirs \cup {mtime[w]} /\ UNCHANGED flaws
     \/ flaws' = flaws \cup {"silent"} /\ UNCHANGED dirs
  /\ LoopTo(w, "clean")
  /\ UNCHANGED <<file, extra, savedExtra, watch, on, mtime, need, starts>>

(* CleanupPlayerdataBackup; the directories have the times of the versions. *)
CleanData(w) ==
  /\ LoopAt(w, "clean")
  /\ dirs' = {v \in dirs : Cardinality({u \in dirs : u > v}) < Keep}
  /\ Return(w)
  /\ UNCHANGED <<file, extra, savedExtra, watch, on, mtime, need, starts, flaws>>

(* Some command commits the player store.                                  *)
Commit ==
  /\ savedExtra # extra
  /\ savedExtra' = extra
  /\ UNCHANGED <<file, extra, dirs, watch, work, starts, flaws>>

(* Mutant: the watcher is not closed.                                      *)
PauseUnclosed ==
  /\ running /\ LoopAt(0, "none")
  /\ running' = FALSE
  /\ UNCHANGED <<data, watcher, opened, event, work, starts, flaws>>

Pause ==
  /\ running /\ LoopAt(0, "none")
  /\ running' = FALSE
  /\ opened' = opened \ {watcher}
  /\ event' = event \ {watcher}
  /\ UNCHANGED <<data, watcher, work, starts, flaws>>

Crash ==
  /\ starts > 0
  /\ extra' = savedExtra
  /\ flaws' = IF \E w \in Worker : LoopAt(w, "copy") /\ savedExtra \in 1..mtime[w]
              THEN flaws \cup {"crash"} ELSE flaws
  /\ opened' = {}
  /\ event' = {}
  /\ running' = FALSE
  /\ loop' = [w \in Worker |-> "none"]
  /\ UNCHANGED <<file, savedExtra, dirs, watcher, on, mtime, need, starts>>

-----------------------------------------------------------------------------
WorldStep ==
  \/ \E m \in Maker :
       \/ MakeDirectory(m) /\ UNCHANGED flaws
       \/ TryLock(m) /\ UNCHANGED flaws
       \/ CopyStarts(m) /\ UNCHANGED flaws
       \/ CopyEnds(m)
       \/ CopyFails(m) /\ UNCHANGED flaws
       \/ Clean(m) /\ UNCHANGED flaws
       \/ RemoveOld(m)
       \/ CleanEnds(m) /\ UNCHANGED flaws
  \/ \E b \in WorldBackup : Request(b)
  \/ Abort \/ LockForRollback \/ Wipe \/ Restore \/ StartMinecraft
  \/ OpenList \/ NextPage \/ PreviousPage

PlayerStep ==
  \/ Change \/ Start \/ Watch \/ Commit \/ Pause \/ Crash
  \/ \E w \in Worker :
       \/ Select(w) \/ Receive(w) \/ WorkerEnds(w) \/ Scan(w) \/ Compare(w)
       \/ Put(w) \/ CopyData(w) \/ CleanData(w)

Next ==
  \/ WorldStep /\ UNCHANGED <<bound, playerPart>>
  \/ PlayerStep /\ UNCHANGED <<bound, worldPart>>

Spec == Init /\ [][Next]_vars

-----------------------------------------------------------------------------
(* A backup that was reported complete is whole, and there until Keep      *)
(* newer ones are.  Exceptions are copies that fail without an error, and  *)
(* a world that comes from a backup which was not complete.                *)
ReportedIsKept ==
  flaws \cap {"silent", "untold"} = {} =>
    \A b \in told :
      IF b \in disk THEN holds[b] = "whole"
      ELSE Cardinality({c \in disk : Newer(c, b)}) >= Keep

(* After a rollback the game has the whole world of a backup, not a part   *)
(* of it or a new one, unless the backup was not complete when it was      *)
(* chosen, or was cleaned up before it was used, or a copy has failed.     *)
WorldRestored ==
  (flaws = {} /\ rollback \in {"start", "none"}) => world = "whole"

(* Who has turned to a page without a next one has seen every backup that  *)
(* was complete when the list was asked for and is still there, except one *)
(* that is alone on the last page.                                         *)
PagesShowAll ==
  (page # NoPage /\ ~HasNext) =>
    LET missed == (listed \cap ToSet(page.list)) \ seen
    IN  missed \subseteq {page.list[Len(page.list)]}

(* The version that is recorded for the player is, or a newer one, in a    *)
(* backup, or is being copied: else it would never be backed up.  The      *)
(* exceptions are copies that fail, and a crash before the copy.           *)
RecordedIsKept ==
  (flaws \cap {"silent", "crash"} = {} /\ extra # 0) =>
    \/ \E v \in dirs : v >= extra
    \/ \E w \in Worker : LoopAt(w, "copy") /\ mtime[w] >= extra

(* One goroutine at a time makes backups or waits for the watcher, unless  *)
(* Start was called before the last one had ended, as after a rollback.    *)
OneWorker ==
  "overrun" \notin flaws =>
    /\ Cardinality({w \in Worker : AtWork(w)}) <= 1
    /\ Cardinality({w \in Worker : LoopAt(w, "wait") /\ Open(w)}) <= 1
=============================================================================
