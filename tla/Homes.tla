-------------------------------- MODULE Homes --------------------------------
(***************************************************************************)
(* The commands "home", "sethome", "delhome", "homelist", "back" and "tp"  *)
(* of players and the death of a player (plugins/home.go, back.go and      *)
(* teleport.go, core/plugin/teleportcore.go): goroutines that share,       *)
(* without a lock, the positions in the record of a player and the map of  *)
(* the player's homes.  The store itself is PlayerStore: here looking a    *)
(* player up and committing are one step each.                             *)
(*                                                                         *)
(* A record loaded from the file holds the homes as text; the first        *)
(* GetExtra decodes them into a map and puts that into the record.  Maps   *)
(* are numbered as they are made, so that two goroutines can be seen to    *)
(* use two maps.  A player may be anywhere whenever the game is asked.     *)
(***************************************************************************)
EXTENDS Naturals, FiniteSets

CONSTANTS Thread,     \* goroutines that run commands
          Player,
          Name,       \* names of homes
          Place,      \* positions
          Nowhere,    \* no position (nil)
          MaxMaps,    \* bound: maps made between two starts
          MaxCalls,   \* bound: commands
          MaxCrashes, \* bound: starts of the daemon after the first
          Bounds      \* triples <<goroutines at work, commands, crashes>>

ASSUME PlaceAssumption == Nowhere \notin Place
ASSUME BoundAssumption ==
  /\ {MaxMaps, MaxCalls, MaxCrashes} \subseteq Nat
  /\ Bounds \subseteq Nat \X (0..MaxCalls) \X (0..MaxCrashes)

Place0 == Place \cup {Nowhere}
Homes == [Name -> Place0]
NoHomes == [n \in Name |-> Nowhere]
None == 0       \* no list of homes
Text == MaxMaps + 1 \* a list that is not decoded yet; maps are in between

VARIABLES location,  \* Location in the record of each player ...
          last,      \* ... LastLocation ...
          extra,     \* ... and the list of homes
          heap,      \* the maps
          maps,      \* how many there are
          saved,     \* the file: last, location, homes, and whether any
          pc,        \* where each thread is
          job,       \* its command: what, who, which home, to whom
          place,     \* the position it uses
          list,      \* the map it uses
          undo,      \* buttons "undo" that have been offered
          bound,     \* which of Bounds holds in this behaviour
          calls, crashes,
          meant,     \* history: the homes of each player by what was told
          raced,     \* history: players two of whose commands made a map
          failed,    \* history: a query for a position has failed
          died       \* the daemon has panicked: why

vars == <<location, last, extra, heap, maps, saved, pc, job, place,
          list, undo, bound, calls, crashes, meant, raced, failed, died>>
record == <<location, last, extra>>
lists == <<heap, maps>>
bounds == <<bound, calls, crashes>>
history == <<meant, raced, failed, died>>

Kind == {"sethome", "delhome", "home", "homelist", "back", "tp", "death", "undo"}
NoJob == [kind |-> "none"]
Job == {j \in [kind : Kind, player : Player, name : Name, target : Player] :
          j.kind = "tp" \/ j.target = j.player}

TypeOK ==
  /\ location \in [Player -> Place0] /\ last \in [Player -> Place0]
  /\ extra \in [Player -> None..Text]
  /\ heap \in [1..MaxMaps -> Homes] /\ maps \in 0..MaxMaps
  /\ saved \in [Player -> [last : Place0, location : Place0, homes : Homes,
                           any : BOOLEAN]]
  /\ pc \in [Thread -> {"idle", "get", "list", "store", "make", "use", "commit",
                        "sleep", "position", "last", "save", "go", "cross"}]
  /\ job \in [Thread -> Job \cup {NoJob}]
  /\ place \in [Thread -> Place0] /\ list \in [Thread -> None..Text]
  /\ undo \subseteq Player \X Name \X Place
  /\ bound \in Bounds /\ calls \in 0..MaxCalls /\ crashes \in 0..MaxCrashes
  /\ meant \in [Player -> Homes]
  /\ raced \subseteq Player /\ failed \subseteq Player
  /\ died \in {"", "map", "location", "target"}

All(x) == [t \in Thread |-> x]

(* What the file may hold of every player: nothing yet, or what an earlier *)
(* run of the daemon has left.                                             *)
File == {[last |-> Nowhere, location |-> Nowhere, homes |-> NoHomes, any |-> FALSE]}
          \cup {[last |-> x, location |-> x, homes |-> [n \in Name |-> x],
                 any |-> TRUE] : x \in Place}

Init ==
  /\ \E f \in File : saved = [p \in Player |-> f]
  /\ location = [p \in Player |-> saved[p].location]
  /\ last = [p \in Player |-> saved[p].last]
  /\ extra = [p \in Player |-> IF saved[p].any THEN Text ELSE None]
  /\ heap = [m \in 1..MaxMaps |-> NoHomes]
  /\ maps = 0
  /\ pc = All("idle")
  /\ job = All(NoJob)
  /\ place = All(Nowhere)
  /\ list = All(None)
  /\ undo = {}
  /\ bound \in Bounds
  /\ calls = 0
  /\ crashes = 0
  /\ meant = [p \in Player |-> saved[p].homes]
  /\ raced = {}
  /\ failed = {}
  /\ died = ""

-----------------------------------------------------------------------------
At(t, l) == pc[t] = l
Goto(t, l) == pc' = [pc EXCEPT ![t] = l]
Is(t, kinds) == job[t].kind \in kinds
Who(t) == job[t].player

Done(t) == /\ Goto(t, "idle")
           /\ job' = [job EXCEPT ![t] = NoJob]
           /\ place' = [place EXCEPT ![t] = Nowhere]
           /\ list' = [list EXCEPT ![t] = None]

(* The list a player has, decoded or not.                                  *)
HomesOf(p) == CASE extra[p] = None -> NoHomes
                [] extra[p] = Text -> saved[p].homes
                [] OTHER -> heap[extra[p]]

(* A command of a player, a button, or a line of the log about a death.    *)
(* "tp" begins with the wait that the others have later.                   *)
Call(t, j) ==
  /\ At(t, "idle")
  /\ Cardinality({u \in Thread : ~At(u, "idle")}) < bound[1]
  /\ calls < bound[2]
  /\ calls' = calls + 1
  /\ job' = [job EXCEPT ![t] = j]
  /\ \/ /\ j.kind \in {"delhome", "home", "homelist", "back", "death"}
        /\ Goto(t, "get")
        /\ UNCHANGED <<place, undo>>
     \/ /\ j.kind \in {"sethome", "tp"}
        /\ Goto(t, "position")
        /\ UNCHANGED <<place, undo>>
     \/ /\ j.kind = "undo"
        /\ \E u \in undo : /\ u[1] = j.player /\ u[2] = j.name
                           /\ undo' = undo \ {u}
                           /\ place' = [place EXCEPT ![t] = u[3]]
        /\ Goto(t, "get")
  /\ UNCHANGED <<record, lists, saved, list, bound, crashes, history>>

(* GetPlayerInfo.  It asks for the position only if there is none.         *)
Get(t) ==
  LET p == Who(t) IN
  /\ At(t, "get")
  /\ \/ /\ \E x \in Place :
             location' = [location EXCEPT ![p] = IF @ = Nowhere THEN x ELSE @]
        /\ \/ Is(t, {"delhome", "home", "homelist", "undo"}) /\ Goto(t, "list")
           \/ Is(t, {"death"}) /\ Goto(t, "last")
           \/ Is(t, {"back"}) /\ last[p] # Nowhere /\ Goto(t, "sleep")
        /\ UNCHANGED <<job, place, list, failed>>
     \/ /\ location[p] = Nowhere \/ (Is(t, {"back"}) /\ last[p] = Nowhere)
        /\ Done(t)
        /\ UNCHANGED <<location, failed>>
  /\ UNCHANGED <<last, extra, lists, saved, undo, bounds, meant, raced,
                 died>>

(* GetPlayerInfo_Position always asks, and stores nil when it fails.       *)
Position(t) ==
  LET p == Who(t) IN
  /\ At(t, "position")
  /\ \/ /\ \E x \in Place : location' = [location EXCEPT ![p] = x]
        /\ Goto(t, IF Is(t, {"sethome"}) THEN "list" ELSE "last")
        /\ UNCHANGED <<job, place, list, failed>>
     \/ /\ location' = [location EXCEPT ![p] = Nowhere]
        /\ failed' = failed \cup {p}
        /\ Done(t)
  /\ UNCHANGED <<last, extra, lists, saved, undo, bounds, meant, raced,
                 died>>

-----------------------------------------------------------------------------
(* Homes                                                                   *)

(* A goroutine that has found no map and not yet put its own.              *)
Making(t) == pc[t] \in {"store", "make"}

NewMap(h) == /\ maps < MaxMaps
             /\ maps' = maps + 1
             /\ heap' = [heap EXCEPT ![maps'] = h]

(* GetExtra: decoded homes are shared, others decoded into a new map.  The *)
(* arguments of sethome are evaluated first.                               *)
List(t) ==
  LET p == Who(t) IN
  /\ At(t, "list")
  /\ place' = IF Is(t, {"sethome"}) THEN [place EXCEPT ![t] = location[p]]
              ELSE place
  /\ raced' = IF extra[p] \in {None, Text} /\ \E u \in Thread :
                     Making(u) /\ Who(u) = p
              THEN raced \cup {p} ELSE raced
  /\ \/ /\ extra[p] = None
        /\ Goto(t, IF Is(t, {"home", "homelist"}) THEN "use" ELSE "make")
        /\ UNCHANGED <<list, lists>>
     \/ /\ extra[p] = Text
        /\ NewMap(saved[p].homes)
        /\ list' = [list EXCEPT ![t] = maps']
        /\ Goto(t, "store")
     \/ /\ extra[p] \notin {None, Text}
        /\ list' = [list EXCEPT ![t] = extra[p]]
        /\ Goto(t, "use")
        /\ UNCHANGED lists
  /\ UNCHANGED <<record, saved, job, undo, bounds, meant, failed, died>>

(* The map is used, and not put into the record: what a later command      *)
(* writes into a map of its own.                                           *)
StoreNothing(t) ==
  /\ At(t, "store")
  /\ Goto(t, "use")
  /\ UNCHANGED <<record, lists, saved, job, place, list, undo, bounds, history>>

StoreMap(t) ==
  /\ At(t, "store")
  /\ extra' = [extra EXCEPT ![Who(t)] = list[t]]
  /\ Goto(t, "use")
  /\ UNCHANGED <<location, last, lists, saved, job, place, list, undo,
                 bounds, history>>

(* make and PutExtra, where there was no list.                             *)
MakeMap(t) ==
  /\ At(t, "make")
  /\ NewMap(NoHomes)
  /\ list' = [list EXCEPT ![t] = maps']
  /\ extra' = [extra EXCEPT ![Who(t)] = maps']
  /\ Goto(t, "use")
  /\ UNCHANGED <<location, last, saved, job, place, undo, bounds,
                 history>>

(* Another goroutine is using or encoding the same map.                    *)
Shared(t) ==
  \E u \in Thread \ {t} :
    \/ pc[u] = "use" /\ list[u] = list[t]
    \/ pc[u] \in {"commit", "save"} /\ \E p \in Player : extra[p] = list[t]

Write(t, x) ==
  /\ heap' = [heap EXCEPT ![list[t]][job[t].name] = x]
  /\ meant' = [meant EXCEPT ![Who(t)][job[t].name] = x]

(* sethome dereferences the position and, for the text, Location.          *)
SetHome(t) ==
  /\ At(t, "use")
  /\ Is(t, {"sethome", "undo"})
  /\ Write(t, place[t])
  /\ \/ /\ died' = IF Nowhere \in {place[t], location[Who(t)]} THEN "location"
                   ELSE ""
        /\ Goto(t, "commit")
     \/ Shared(t) /\ died' = "map" /\ UNCHANGED pc
  /\ UNCHANGED <<record, maps, saved, job, place, list, undo, bounds,
                 raced, failed>>

DelHome(t) ==
  LET h == heap[list[t]][job[t].name] IN
  /\ At(t, "use")
  /\ Is(t, {"delhome"})
  /\ IF h = Nowhere THEN Done(t) /\ UNCHANGED <<heap, meant, died>>
     ELSE /\ Write(t, Nowhere)
          /\ place' = [place EXCEPT ![t] = h]
          /\ \/ Goto(t, "commit") /\ UNCHANGED died
             \/ Shared(t) /\ died' = "map" /\ UNCHANGED pc
          /\ UNCHANGED <<job, list>>
  /\ UNCHANGED <<record, maps, saved, undo, bounds, raced, failed>>

(* A home that is not there is used as one without a position.             *)
GoHomeUnchecked(t) ==
  /\ At(t, "use")
  /\ Is(t, {"home"})
  /\ place' = [place EXCEPT ![t] = IF list[t] = None THEN Nowhere
                                  ELSE heap[list[t]][job[t].name]]
  /\ Goto(t, "position")
  /\ UNCHANGED <<record, lists, saved, job, list, undo, bounds, history>>

(* home, and the button of an entry of homelist: 1.5 s later the player is *)
(* teleported.                                                             *)
GoHome(t) ==
  LET h == IF list[t] = None THEN Nowhere ELSE heap[list[t]][job[t].name] IN
  /\ At(t, "use")
  /\ Is(t, {"home"})
  /\ IF h = Nowhere THEN Done(t)
     ELSE /\ place' = [place EXCEPT ![t] = h]
          /\ Goto(t, "position")
          /\ UNCHANGED <<job, list>>
  /\ UNCHANGED <<record, lists, saved, undo, bounds, history>>

(* homelist, and delhome without a name: a button for each home, whose use *)
(* is another command.                                                     *)
ShowHomes(t) ==
  /\ At(t, "use")
  /\ Is(t, {"homelist"})
  /\ Done(t)
  /\ UNCHANGED <<record, lists, saved, undo, bounds, history>>

(* Commit, as one step.                                                    *)
Commit ==
  saved' = [p \in Player |-> [last |-> last[p], location |-> location[p],
                             homes |-> HomesOf(p), any |-> extra[p] # None]]

(* Who has deleted a home can then undo that.                              *)
CommitHome(t) ==
  /\ At(t, "commit")
  /\ Commit
  /\ undo' = IF Is(t, {"delhome"})
             THEN undo \cup {<<Who(t), job[t].name, place[t]>>} ELSE undo
  /\ Done(t)
  /\ UNCHANGED <<record, lists, bounds, history>>

-----------------------------------------------------------------------------
(* Teleport                                                                *)

(* back names LastLocation to the player, and reads it again after 1.5 s.  *)
Back(t) ==
  /\ At(t, "sleep")
  /\ place' = [place EXCEPT ![t] = last[Who(t)]]
  /\ Goto(t, "position")
  /\ UNCHANGED <<record, lists, saved, job, list, undo, bounds, history>>

(* LastLocation becomes Location, or the place of a death, if that can be  *)
(* found and is another one.  Where a death leaves no mark the position is *)
(* asked for, and becomes Location as well.                                *)
SetLast(t) ==
  LET p == Who(t) IN
  /\ At(t, "last")
  /\ \/ /\ ~Is(t, {"death"})
        /\ last' = [last EXCEPT ![p] = location[p]]
        /\ Goto(t, "save")
        /\ UNCHANGED <<location, job, place, list>>
     \/ /\ Is(t, {"death"})
        /\ \E x \in Place :
             /\ location' \in {location, [location EXCEPT ![p] = x]}
             /\ IF x = last[p] THEN Done(t) /\ UNCHANGED last
                ELSE /\ last' = [last EXCEPT ![p] = x]
                     /\ Goto(t, "commit")
                     /\ UNCHANGED <<job, place, list>>
     \/ /\ Is(t, {"death"})
        /\ Done(t)
        /\ UNCHANGED <<location, last>>
  /\ UNCHANGED <<extra, lists, saved, undo, bounds, history>>

CommitLast(t) ==
  /\ At(t, "save")
  /\ Commit
  /\ Goto(t, "go")
  /\ UNCHANGED <<record, lists, job, place, list, undo, bounds, history>>

(* TeleportPosition                                                        *)
GoToPlace(t) ==
  /\ At(t, "go")
  /\ Is(t, {"home", "back"})
  /\ \/ /\ place[t] = Nowhere /\ died' = "location"
        /\ UNCHANGED <<pc, job, place, list>>
     \/ /\ place[t] # Nowhere
        /\ Done(t)
        /\ UNCHANGED died
  /\ UNCHANGED <<record, lists, saved, undo, bounds, meant, raced, failed>>

(* TeleportPlayer: done, nobody there, or another answer of the game.      *)
GoToPlayer(t) ==
  /\ At(t, "go")
  /\ Is(t, {"tp"})
  /\ \/ Done(t)
     \/ Goto(t, "cross") /\ UNCHANGED <<job, place, list>>
  /\ UNCHANGED <<record, lists, saved, undo, bounds, history>>

(* Then the position of the target is asked for, and the dimension of its  *)
(* LastLocation used.                                                      *)
Cross(t) ==
  LET q == job[t].target IN
  /\ At(t, "cross")
  /\ \/ /\ \E x \in Place : location' = [location EXCEPT ![q] = x]
        /\ \/ /\ last[q] = Nowhere
              /\ died' = "target"
              /\ UNCHANGED <<pc, job, place, list>>
           \/ /\ last[q] # Nowhere
              /\ Done(t)
              /\ UNCHANGED died
        /\ UNCHANGED failed
     \/ /\ location' = [location EXCEPT ![q] = Nowhere]
        /\ failed' = failed \cup {q}
        /\ Done(t)
        /\ UNCHANGED died
  /\ UNCHANGED <<last, extra, lists, saved, undo, bounds, meant, raced>>

-----------------------------------------------------------------------------
(* The daemon ends, by a panic or otherwise, and loads the file again.     *)
Crash ==
  /\ crashes < bound[3]
  /\ crashes' = crashes + 1
  /\ location' = [p \in Player |-> saved[p].location]
  /\ last' = [p \in Player |-> saved[p].last]
  /\ extra' = [p \in Player |-> IF saved[p].any THEN Text ELSE None]
  /\ heap' = [m \in 1..MaxMaps |-> NoHomes]
  /\ maps' = 0
  /\ pc' = All("idle")
  /\ job' = All(NoJob)
  /\ place' = All(Nowhere)
  /\ list' = All(None)
  /\ undo' = {}
  /\ meant' = [p \in Player |->
                IF \E t \in Thread : pc[t] \in {"use", "commit"} /\ Who(t) = p
                THEN saved[p].homes ELSE meant[p]]
  /\ died' = ""
  /\ UNCHANGED <<saved, bound, calls, raced, failed>>

HomeStep(t) ==
  \/ Get(t) \/ Position(t) \/ List(t) \/ StoreMap(t) \/ MakeMap(t)
  \/ SetHome(t) \/ DelHome(t) \/ GoHome(t) \/ ShowHomes(t)
  \/ CommitHome(t)

TeleportStep(t) ==
  \/ Back(t) \/ SetLast(t) \/ CommitLast(t) \/ GoToPlace(t) \/ GoToPlayer(t)
  \/ Cross(t)

Next ==
  \/ /\ died = ""
     /\ \E t \in Thread : \/ HomeStep(t) \/ TeleportStep(t)
                          \/ \E j \in Job : Call(t, j)
  \/ Crash

Spec == Init /\ [][Next]_vars

-----------------------------------------------------------------------------
(* What a player has been told of the homes is so, in memory and in the    *)
(* file, as soon as no command of the player is about to commit.           *)
(* Exception are two commands of one player that look for the list while   *)
(* it has not been decoded or made: each makes a map of its own.           *)
HomesAsTold ==
  died = "" => \A p \in Player \ raced :
    (\A t \in Thread : ~(At(t, "commit") /\ Who(t) = p)) =>
      HomesOf(p) = meant[p] /\ saved[p].homes = meant[p]

(* A nil position ends the daemon only in a command of a player for whom a *)
(* query for the position has failed while another command used the        *)
(* record, or by "tp" across worlds to a player whose LastLocation such a  *)
(* failure has cost, or who has none in the file either.  A map ends it    *)
(* only by two commands of one player, or a commit, which encodes all.     *)
PositionLost ==
  \E t \in Thread : /\ pc[t] \in {"commit", "go"}
                    /\ Who(t) \in failed
                    /\ Nowhere \in {place[t], location[Who(t)]}

TargetWithout ==
  \E t \in Thread : /\ At(t, "cross")
                    /\ LET q == job[t].target
                       IN  last[q] = Nowhere /\ (saved[q].last = Nowhere \/ q \in failed)

MapInUse ==
  \E t, u \in Thread : /\ t # u
                       /\ At(t, "use")
                       /\ \/ At(u, "use") /\ Who(u) = Who(t)
                          \/ pc[u] \in {"commit", "save"}

PanicIsExplained ==
  /\ died = "location" => PositionLost
  /\ died = "target" => TargetWithout
  /\ died = "map" => MapInUse
=============================================================================
