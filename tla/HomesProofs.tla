---------------------------- MODULE HomesProofs -----------------------------
(***************************************************************************)
(* Proofs about the homes, the teleports and the deaths of players, for    *)
(* any number of players, goroutines, names, positions and maps.           *)
(***************************************************************************)
EXTENDS Homes, TLAPS

(* A goroutine at work has a command.                                      *)
Busy == \A t \in Thread : pc[t] # "idle" => job[t] \in Job

(* A goroutine that may use a map, and a player whose homes are a map.     *)
Holds(t) == pc[t] \in {"store", "use"} /\ list[t] # None
Decoded(p) == extra[p] \notin {None, Text}

(* Whose name may be written has a map to write it into.                   *)
Mapped ==
  \A t \in Thread :
    /\ pc[t] = "store" => list[t] # None
    /\ pc[t] = "use" /\ ~Is(t, {"home", "homelist"}) => list[t] # None

(* A goroutine that has yet to look for the list has none.                 *)
Empty ==
  \A t \in Thread :
    pc[t] \in {"idle", "get", "list"} \/ (pc[t] = "position" /\ Is(t, {"sethome"})) =>
      list[t] = None

(* Only "back" waits before it knows the position.                         *)
Sleepers == \A t \in Thread : pc[t] = "sleep" => Is(t, {"back"})

(* Two players never share a map, in the records or in the hands of their  *)
(* commands, and a map that is yet to be made is in use nowhere.           *)
OwnMaps ==
  /\ \A t \in Thread : list[t] \in None..maps
  /\ \A p \in Player : extra[p] \in (None..maps) \cup {Text}
  /\ \A p, q \in Player : Decoded(p) /\ extra[p] = extra[q] => p = q
  /\ \A t \in Thread, q \in Player :
       Holds(t) /\ extra[q] = list[t] => Who(t) = q
  /\ \A t, u \in Thread :
       Holds(t) /\ Holds(u) /\ list[t] = list[u] => Who(t) = Who(u)

(* As long as no two commands of a player have made a map, one at most is  *)
(* making it, from what the player was told, and all others use the map of *)
(* the record.                                                             *)
OneMap ==
  \A t \in Thread : pc[t] # "idle" /\ Who(t) \notin raced =>
    /\ pc[t] = "make" => extra[Who(t)] = None
    /\ pc[t] = "store" => /\ extra[Who(t)] = Text
                          /\ heap[list[t]] = meant[Who(t)]
    /\ pc[t] = "use" /\ list[t] # None => list[t] = extra[Who(t)]
    /\ \A u \in Thread :
         Making(t) /\ Making(u) /\ Who(t) = Who(u) => t = u

(* A player without a list has no homes in the file either.                *)
Unlisted == \A p \in Player : saved[p].any \/ saved[p].homes = NoHomes

(* A change that is not in the file yet is about to be committed, or has   *)
(* ended the daemon.                                                       *)
Unsaved(t, p) == /\ pc[t] = "commit" \/ (pc[t] = "use" /\ died # "")
                 /\ Who(t) = p

Told ==
  \A p \in Player \ raced :
    /\ HomesOf(p) = meant[p]
    /\ saved[p].homes = meant[p] \/ \E t \in Thread : Unsaved(t, p)

(* Whoever has asked for a position has one, unless a query has failed.    *)
Located ==
  \A t \in Thread :
    pc[t] \in {"list", "store", "make", "use", "commit", "sleep", "last",
               "save", "go"} =>
      location[Who(t)] # Nowhere \/ Who(t) \in failed

(* The position a command is to use is one, unless a query has failed.     *)
PlaceFor(t) ==
  /\ Is(t, {"undo"}) /\ pc[t] # "idle" => place[t] # Nowhere
  /\ Is(t, {"delhome"}) /\ pc[t] = "commit" => place[t] # Nowhere
  /\ Is(t, {"sethome"}) /\ pc[t] \in {"store", "make", "use", "commit"} =>
       place[t] # Nowhere \/ Who(t) \in failed
  /\ Is(t, {"home"}) /\ pc[t] \in {"position", "last", "save", "go"} =>
       place[t] # Nowhere
  /\ Is(t, {"back"}) /\ pc[t] = "sleep" =>
       last[Who(t)] # Nowhere \/ Who(t) \in failed
  /\ Is(t, {"back"}) /\ pc[t] \in {"position", "last", "save", "go"} =>
       place[t] # Nowhere \/ Who(t) \in failed

Placed == \A t \in Thread : PlaceFor(t)

(* Whoever has a LastLocation in the file has one, unless a query has      *)
(* failed.                                                                 *)
Filed == \A p \in Player : last[p] = Nowhere => saved[p].last = Nowhere \/ p \in failed

-----------------------------------------------------------------------------
(* Types, in parts                                                         *)

(* The maps, and what a record or a goroutine may hold.                    *)
Maps == 1..MaxMaps
Lists == None..Text

LEMMA Constants == /\ MaxMaps \in Nat /\ MaxCalls \in Nat /\ MaxCrashes \in Nat
                   /\ None = 0 /\ Text \in Nat /\ Text = MaxMaps + 1
  BY BoundAssumption DEF Text, None

LEMMA AboutLists ==
  /\ None \in Lists /\ Text \in Lists /\ None \notin Maps /\ Text \notin Maps
  /\ None # Text
  /\ \A l \in Lists : l \in Maps \/ l \in {None, Text}
  /\ Maps \subseteq Lists
  BY Constants DEF Lists, Maps

(* A new map is one that nobody holds yet.                                 *)
LEMMA NewIsNew ==
  ASSUME maps \in 0..MaxMaps, NEW h, NewMap(h)
  PROVE  /\ maps' \in Maps /\ maps' \in 0..MaxMaps
         /\ \A l \in None..maps : l # maps' /\ l \in None..maps'
         /\ maps' \in None..maps'
         /\ heap' = [heap EXCEPT ![maps'] = h]
  BY Constants DEF NewMap, Maps

LEMMA NoHomesTyped == NoHomes \in Homes
  BY DEF NoHomes, Homes, Place0

(* The limits of this behaviour are within the bounds.                     *)
LEMMA BoundTyped ==
  ASSUME bound \in Bounds
  PROVE  bound[2] \in 0..MaxCalls /\ bound[3] \in 0..MaxCrashes
  <1>1. bound \in Nat \X (0..MaxCalls) \X (0..MaxCrashes)
    BY BoundAssumption
  <1> QED
    BY <1>1

Label == {"idle", "get", "list", "store", "make", "use", "commit", "sleep",
          "position", "last", "save", "go", "cross"}
Entry == [last : Place0, location : Place0, homes : Homes, any : BOOLEAN]

Positions == /\ location \in [Player -> Place0] /\ last \in [Player -> Place0]
             /\ place \in [Thread -> Place0]
             /\ undo \subseteq Player \X Name \X Place
HeapTyped == /\ heap \in [Maps -> Homes] /\ maps \in 0..MaxMaps
             /\ meant \in [Player -> Homes]
             /\ extra \in [Player -> Lists] /\ list \in [Thread -> Lists]
FileTyped == saved \in [Player -> Entry]
Control == /\ pc \in [Thread -> Label]
           /\ job \in [Thread -> Job \cup {NoJob}]
           /\ Busy
Counts == bound \in Bounds /\ calls \in 0..MaxCalls /\ crashes \in 0..MaxCrashes
Marks == /\ raced \subseteq Player /\ failed \subseteq Player
         /\ died \in {"", "map", "location", "target"}

Typed == Positions /\ HeapTyped /\ FileTyped /\ Control /\ Counts /\ Marks

LEMMA TypedIsTypeOK == Typed <=> TypeOK /\ Busy
  BY DEF Typed, Positions, HeapTyped, FileTyped, Control, Counts, Marks, TypeOK,
         Maps, Lists, Label, Entry

LEMMA InitTyped == Init => Typed
  <1> SUFFICES ASSUME Init PROVE Typed
    OBVIOUS
  <1>1. saved \in [Player -> Entry]
    <2>1. ASSUME NEW f \in File PROVE f \in Entry
      <3>1. CASE f = [last |-> Nowhere, location |-> Nowhere, homes |-> NoHomes,
                      any |-> FALSE]
        BY <3>1, NoHomesTyped DEF Entry, Place0
      <3>2. ASSUME NEW x \in Place,
                   f = [last |-> x, location |-> x, homes |-> [n \in Name |-> x],
                        any |-> TRUE]
            PROVE  f \in Entry
        <4>1. [n \in Name |-> x] \in Homes
          BY DEF Homes, Place0
        <4> QED
          BY <3>2, <4>1 DEF Entry, Place0
      <3> QED
        BY <3>1, <3>2 DEF File
    <2>2. PICK f \in File : saved = [p \in Player |-> f]
      BY DEF Init
    <2> QED
      BY <2>1, <2>2
  <1>2. Positions
    BY <1>1 DEF Init, Positions, Entry, All, Place0
  <1>3. HeapTyped
    <2>1. maps \in 0..MaxMaps
      <3>1. 0 \in 0..MaxMaps
        BY Constants
      <3> QED
        BY <3>1 DEF Init
    <2>2. list \in [Thread -> Lists] /\ extra \in [Player -> Lists]
      BY AboutLists DEF Init, All
    <2>3. heap \in [Maps -> Homes]
      BY NoHomesTyped DEF Init, Maps
    <2>4. meant \in [Player -> Homes]
      BY <1>1 DEF Init, Entry
    <2> QED
      BY <2>1, <2>2, <2>3, <2>4 DEF HeapTyped
  <1>4. Control
    BY DEF Init, Control, Busy, All, Label
  <1>5. Counts
    <2>1. 0 \in 0..MaxCalls /\ 0 \in 0..MaxCrashes
      BY Constants
    <2> QED
      BY <2>1 DEF Init, Counts
  <1> QED
    BY <1>1, <1>2, <1>3, <1>4, <1>5 DEF Typed, FileTyped, Marks, Init

(* What a step of a goroutine does to its program counter and its command: *)
(* it goes on with the command, or ends it.                                *)
Moves(t) ==
  /\ pc' = [pc EXCEPT ![t] = pc'[t]]
  /\ pc'[t] \in Label
  /\ job' = [job EXCEPT ![t] = job'[t]]
  /\ job'[t] \in Job \/ (pc'[t] = "idle" /\ job'[t] = NoJob)

LEMMA MovesTyped ==
  ASSUME Control, NEW t \in Thread, Moves(t)
  PROVE  Control'
  BY DEF Control, Busy, Moves

LEMMA JobTyped ==
  \A j \in Job : j.player \in Player /\ j.name \in Name /\ j.target \in Player
  BY DEF Job

LEMMA HomesOfTyped ==
  ASSUME HeapTyped, FileTyped, NEW p \in Player
  PROVE  HomesOf(p) \in Homes
  <1>1. saved[p].homes \in Homes
    BY DEF FileTyped, Entry
  <1>2. extra[p] \notin {None, Text} => heap[extra[p]] \in Homes
    BY AboutLists DEF HeapTyped
  <1> QED
    BY <1>1, <1>2, NoHomesTyped DEF HomesOf

LEMMA CommitTyped ==
  ASSUME HeapTyped, FileTyped, Positions, Commit
  PROVE  FileTyped'
  <1>1. ASSUME NEW p \in Player
        PROVE  [last |-> last[p], location |-> location[p],
                homes |-> HomesOf(p), any |-> extra[p] # None] \in Entry
    BY HomesOfTyped DEF Positions, Entry
  <1> QED
    BY <1>1 DEF Commit, FileTyped

(* Who is at work has a command of a player.                               *)
LEMMA JobAtWork ==
  ASSUME Control, NEW t \in Thread, pc[t] # "idle"
  PROVE  /\ job[t] \in Job /\ Who(t) \in Player /\ job[t].name \in Name
         /\ job[t].target \in Player
  BY JobTyped DEF Control, Busy, Who

(* Who holds a map holds one that has been made, and can read it.          *)
LEMMA MapInHand ==
  ASSUME Typed, OwnMaps, NEW t \in Thread, list[t] # None
  PROVE  list[t] \in Maps /\ heap[list[t]] \in Homes
  <1>1. list[t] \in None..maps /\ maps \in 0..MaxMaps
    BY DEF OwnMaps, Typed, HeapTyped
  <1>2. list[t] \in Maps
    BY <1>1, Constants DEF Maps
  <1> QED
    BY <1>2 DEF Typed, HeapTyped

LEMMA WriteTyped ==
  ASSUME Typed, NEW t \in Thread, pc[t] # "idle", NEW x \in Place0, Write(t, x)
  PROVE  heap' \in [Maps -> Homes] /\ meant' \in [Player -> Homes]
  BY JobAtWork DEF Typed, Write, HeapTyped, Homes

LEMMA StepTyped ==
  ASSUME Typed, Mapped, OwnMaps, Placed, [Next]_vars
  PROVE  Typed'
  <1> USE DEF Typed
  <1>1. ASSUME NEW t \in Thread, Get(t)
        PROVE  Typed'
    <2>1. Moves(t)
      BY <1>1 DEF Get, Moves, Control, Busy, Label, At, Goto, Done
    <2>2. Positions'
      BY <1>1 DEF Get, Positions, Place0, Done
    <2>3. HeapTyped'
      BY <1>1, AboutLists DEF Get, HeapTyped, lists, Done
    <2>4. FileTyped'
      BY <1>1 DEF Get, FileTyped
    <2>5. Counts' /\ Marks'
      BY <1>1 DEF Get, Counts, Marks, bounds
    <2> QED
      BY <2>1, <2>2, <2>3, <2>4, <2>5, MovesTyped DEF Typed
  <1>2. ASSUME NEW t \in Thread, Position(t)
        PROVE  Typed'
    <2>1. Moves(t)
      BY <1>2 DEF Position, Moves, Control, Busy, Label, At, Goto, Done
    <2>2. Positions'
      BY <1>2 DEF Position, Positions, Place0, Done
    <2>3. HeapTyped'
      BY <1>2, AboutLists DEF Position, HeapTyped, lists, Done
    <2>4. FileTyped'
      BY <1>2 DEF Position, FileTyped
    <2>5. Counts' /\ Marks'
      BY <1>2, JobAtWork DEF Position, Counts, Marks, bounds, At
    <2> QED
      BY <2>1, <2>2, <2>3, <2>4, <2>5, MovesTyped DEF Typed
  <1>3. ASSUME NEW t \in Thread, List(t)
        PROVE  Typed'
    <2>1. Moves(t)
      BY <1>3 DEF List, Moves, Control, Busy, Label, At, Goto
    <2>2. Positions'
      BY <1>3, JobAtWork DEF List, Positions, record, At
    <2>3. HeapTyped'
      <3>1. Who(t) \in Player /\ saved[Who(t)].homes \in Homes
        BY <1>3, JobAtWork DEF List, At, FileTyped, Entry
      <3>2. list' \in [Thread -> Lists]
        BY <1>3, <3>1, NewIsNew, AboutLists DEF List, HeapTyped
      <3>3. heap' \in [Maps -> Homes] /\ maps' \in 0..MaxMaps
        BY <1>3, <3>1, NewIsNew DEF List, HeapTyped, lists
      <3> QED
        BY <1>3, <3>2, <3>3 DEF List, HeapTyped, record
    <2>4. FileTyped'
      BY <1>3 DEF List, FileTyped
    <2>5. Counts' /\ Marks'
      BY <1>3, JobAtWork DEF List, Counts, Marks, bounds, At
    <2> QED
      BY <2>1, <2>2, <2>3, <2>4, <2>5, MovesTyped DEF Typed
  <1>4. ASSUME NEW t \in Thread, StoreMap(t)
        PROVE  Typed'
    <2>1. Moves(t)
      BY <1>4 DEF StoreMap, Moves, Control, Busy, Label, At, Goto
    <2>2. Positions'
      BY <1>4 DEF StoreMap, Positions
    <2>3. HeapTyped'
      BY <1>4 DEF StoreMap, HeapTyped, lists, history
    <2>4. FileTyped'
      BY <1>4 DEF StoreMap, FileTyped
    <2>5. Counts' /\ Marks'
      BY <1>4 DEF StoreMap, Counts, Marks, bounds, history
    <2> QED
      BY <2>1, <2>2, <2>3, <2>4, <2>5, MovesTyped DEF Typed
  <1>5. ASSUME NEW t \in Thread, MakeMap(t)
        PROVE  Typed'
    <2>1. Moves(t)
      BY <1>5 DEF MakeMap, Moves, Control, Busy, Label, At, Goto
    <2>2. Positions'
      BY <1>5 DEF MakeMap, Positions
    <2>3. HeapTyped'
      <3>1. /\ maps' \in Maps /\ maps' \in 0..MaxMaps
            /\ heap' = [heap EXCEPT ![maps'] = NoHomes]
        BY <1>5, NewIsNew DEF MakeMap, HeapTyped
      <3>2. list' \in [Thread -> Lists] /\ extra' \in [Player -> Lists]
        BY <1>5, <3>1, AboutLists DEF MakeMap, HeapTyped
      <3> QED
        BY <1>5, <3>1, <3>2, NoHomesTyped DEF MakeMap, HeapTyped, history
    <2>4. FileTyped'
      BY <1>5 DEF MakeMap, FileTyped
    <2>5. Counts' /\ Marks'
      BY <1>5 DEF MakeMap, Counts, Marks, bounds, history
    <2> QED
      BY <2>1, <2>2, <2>3, <2>4, <2>5, MovesTyped DEF Typed
  <1>6. ASSUME NEW t \in Thread, SetHome(t)
        PROVE  Typed'
    <2>1. Moves(t)
      BY <1>6 DEF SetHome, Moves, Control, Busy, Label, At, Goto
    <2>2. Positions'
      BY <1>6 DEF SetHome, Positions, record
    <2>3. HeapTyped'
      <3>1. place[t] \in Place0 /\ Write(t, place[t])
        BY <1>6 DEF SetHome, Positions
      <3>2. heap' \in [Maps -> Homes] /\ meant' \in [Player -> Homes]
        BY <1>6, <3>1, WriteTyped DEF SetHome, At
      <3> QED
        BY <1>6, <3>2 DEF SetHome, HeapTyped, record
    <2>4. FileTyped'
      BY <1>6 DEF SetHome, FileTyped
    <2>5. Counts' /\ Marks'
      BY <1>6 DEF SetHome, Counts, Marks, bounds
    <2> QED
      BY <2>1, <2>2, <2>3, <2>4, <2>5, MovesTyped DEF Typed
  <1>7. ASSUME NEW t \in Thread, DelHome(t)
        PROVE  Typed'
    <2>1. Moves(t)
      BY <1>7 DEF DelHome, Moves, Control, Busy, Label, At, Goto, Done
    <2>2. Positions'
      <3>1. heap[list[t]][job[t].name] \in Place0
        <4>1. list[t] # None
          BY <1>7 DEF Mapped, DelHome, At, Is
        <4> QED
          BY <1>7, <4>1, MapInHand, JobAtWork DEF DelHome, At, Homes
      <3> QED
        BY <1>7, <3>1 DEF DelHome, Positions, record, Done
    <2>3. HeapTyped'
      <3>1. CASE heap[list[t]][job[t].name] = Nowhere
        BY <1>7, <3>1, AboutLists DEF DelHome, HeapTyped, record, Done
      <3>2. CASE heap[list[t]][job[t].name] # Nowhere
        <4>1. Write(t, Nowhere) /\ Nowhere \in Place0
          BY <1>7, <3>2 DEF DelHome, Place0
        <4>2. heap' \in [Maps -> Homes] /\ meant' \in [Player -> Homes]
          BY <1>7, <4>1, WriteTyped DEF DelHome, At
        <4> QED
          BY <1>7, <3>2, <4>2 DEF DelHome, HeapTyped, record
      <3> QED
        BY <3>1, <3>2
    <2>4. FileTyped'
      BY <1>7 DEF DelHome, FileTyped
    <2>5. Counts' /\ Marks'
      BY <1>7 DEF DelHome, Counts, Marks, bounds
    <2> QED
      BY <2>1, <2>2, <2>3, <2>4, <2>5, MovesTyped DEF Typed
  <1>8. ASSUME NEW t \in Thread, GoHome(t)
        PROVE  Typed'
    <2>1. Moves(t)
      BY <1>8 DEF GoHome, Moves, Control, Busy, Label, At, Goto, Done
    <2>2. Positions'
      <3>1. list[t] # None => heap[list[t]][job[t].name] \in Place0
        BY <1>8, MapInHand, JobAtWork DEF GoHome, At, Homes
      <3> QED
        BY <1>8, <3>1 DEF GoHome, Positions, Place0, record, Done
    <2>3. HeapTyped'
      BY <1>8, AboutLists DEF GoHome, HeapTyped, record, lists, history, Done
    <2>4. FileTyped'
      BY <1>8 DEF GoHome, FileTyped
    <2>5. Counts' /\ Marks'
      BY <1>8 DEF GoHome, Counts, Marks, bounds, history
    <2> QED
      BY <2>1, <2>2, <2>3, <2>4, <2>5, MovesTyped DEF Typed
  <1>9. ASSUME NEW t \in Thread, ShowHomes(t)
        PROVE  Typed'
    <2>1. Moves(t)
      BY <1>9 DEF ShowHomes, Moves, Control, Label, Goto, Done
    <2>2. Positions'
      BY <1>9 DEF ShowHomes, Positions, Place0, record, Done
    <2>3. HeapTyped'
      BY <1>9, AboutLists DEF ShowHomes, HeapTyped, record, lists, history, Done
    <2>4. FileTyped'
      BY <1>9 DEF ShowHomes, FileTyped
    <2>5. Counts' /\ Marks'
      BY <1>9 DEF ShowHomes, Counts, Marks, bounds, history
    <2> QED
      BY <2>1, <2>2, <2>3, <2>4, <2>5, MovesTyped DEF Typed
  <1>10. ASSUME NEW t \in Thread, CommitHome(t)
        PROVE  Typed'
    <2>1. Moves(t)
      BY <1>10 DEF CommitHome, Moves, Control, Label, Goto, Done
    <2>2. Positions'
      <3>1. Is(t, {"delhome"}) => place[t] \in Place
        BY <1>10 DEF CommitHome, At, Placed, PlaceFor, Positions, Place0
      <3>2. undo' \subseteq Player \X Name \X Place
        BY <1>10, <3>1, JobAtWork DEF CommitHome, At, Positions
      <3> QED
        BY <1>10, <3>2 DEF CommitHome, Positions, Place0, record, Done
    <2>3. HeapTyped'
      BY <1>10, AboutLists DEF CommitHome, HeapTyped, record, lists, history, Done
    <2>4. FileTyped'
      BY <1>10, CommitTyped DEF CommitHome, FileTyped
    <2>5. Counts' /\ Marks'
      BY <1>10 DEF CommitHome, Counts, Marks, bounds, history
    <2> QED
      BY <2>1, <2>2, <2>3, <2>4, <2>5, MovesTyped DEF Typed
  <1>11. ASSUME NEW t \in Thread, Back(t)
        PROVE  Typed'
    <2>1. Moves(t)
      BY <1>11 DEF Back, Moves, Control, Busy, Label, At, Goto
    <2>2. Positions'
      BY <1>11, JobAtWork DEF Back, Positions, record, At
    <2>3. HeapTyped'
      BY <1>11 DEF Back, HeapTyped, record, lists, history
    <2>4. FileTyped'
      BY <1>11 DEF Back, FileTyped
    <2>5. Counts' /\ Marks'
      BY <1>11 DEF Back, Counts, Marks, bounds, history
    <2> QED
      BY <2>1, <2>2, <2>3, <2>4, <2>5, MovesTyped DEF Typed
  <1>12. ASSUME NEW t \in Thread, SetLast(t)
        PROVE  Typed'
    <2>1. Moves(t)
      BY <1>12 DEF SetLast, Moves, Control, Busy, Label, At, Goto, Done
    <2>2. Positions'
      BY <1>12 DEF SetLast, Positions, Place0, Done
    <2>3. HeapTyped'
      BY <1>12, AboutLists DEF SetLast, HeapTyped, lists, history, Done
    <2>4. FileTyped'
      BY <1>12 DEF SetLast, FileTyped
    <2>5. Counts' /\ Marks'
      BY <1>12 DEF SetLast, Counts, Marks, bounds, history
    <2> QED
      BY <2>1, <2>2, <2>3, <2>4, <2>5, MovesTyped DEF Typed
  <1>13. ASSUME NEW t \in Thread, CommitLast(t)
        PROVE  Typed'
    <2>1. Moves(t)
      BY <1>13 DEF CommitLast, Moves, Control, Busy, Label, At, Goto
    <2>2. Positions'
      BY <1>13 DEF CommitLast, Positions, record
    <2>3. HeapTyped'
      BY <1>13 DEF CommitLast, HeapTyped, record, lists, history
    <2>4. FileTyped'
      BY <1>13, CommitTyped DEF CommitLast, FileTyped
    <2>5. Counts' /\ Marks'
      BY <1>13 DEF CommitLast, Counts, Marks, bounds, history
    <2> QED
      BY <2>1, <2>2, <2>3, <2>4, <2>5, MovesTyped DEF Typed
  <1>14. ASSUME NEW t \in Thread, GoToPlace(t)
        PROVE  Typed'
    <2>1. Moves(t)
      BY <1>14 DEF GoToPlace, Moves, Control, Busy, Label, Goto, Done
    <2>2. Positions'
      BY <1>14 DEF GoToPlace, Positions, Place0, record, Done
    <2>3. HeapTyped'
      BY <1>14, AboutLists DEF GoToPlace, HeapTyped, record, lists, Done
    <2>4. FileTyped'
      BY <1>14 DEF GoToPlace, FileTyped
    <2>5. Counts' /\ Marks'
      BY <1>14 DEF GoToPlace, Counts, Marks, bounds
    <2> QED
      BY <2>1, <2>2, <2>3, <2>4, <2>5, MovesTyped DEF Typed
  <1>15. ASSUME NEW t \in Thread, GoToPlayer(t)
        PROVE  Typed'
    <2>1. Moves(t)
      BY <1>15 DEF GoToPlayer, Moves, Control, Busy, Label, At, Goto, Done
    <2>2. Positions'
      BY <1>15 DEF GoToPlayer, Positions, Place0, record, Done
    <2>3. HeapTyped'
      BY <1>15, AboutLists DEF GoToPlayer, HeapTyped, record, lists, history, Done
    <2>4. FileTyped'
      BY <1>15 DEF GoToPlayer, FileTyped
    <2>5. Counts' /\ Marks'
      BY <1>15 DEF GoToPlayer, Counts, Marks, bounds, history
    <2> QED
      BY <2>1, <2>2, <2>3, <2>4, <2>5, MovesTyped DEF Typed
  <1>16. ASSUME NEW t \in Thread, Cross(t)
        PROVE  Typed'
    <2>1. Moves(t)
      BY <1>16 DEF Cross, Moves, Control, Busy, Label, Goto, Done
    <2>2. Positions'
      BY <1>16 DEF Cross, Positions, Place0, Done
    <2>3. HeapTyped'
      BY <1>16, AboutLists DEF Cross, HeapTyped, lists, Done
    <2>4. FileTyped'
      BY <1>16 DEF Cross, FileTyped
    <2>5. Counts' /\ Marks'
      BY <1>16, JobAtWork DEF Cross, Counts, Marks, bounds, At
    <2> QED
      BY <2>1, <2>2, <2>3, <2>4, <2>5, MovesTyped DEF Typed
  <1>17. ASSUME NEW t \in Thread, NEW j \in Job, Call(t, j)
        PROVE  Typed'
    <2>1. Moves(t)
      BY <1>17 DEF Call, Moves, Control, Label, At, Goto
    <2>2. Positions'
      BY <1>17 DEF Call, Positions, Place0, record
    <2>3. HeapTyped'
      BY <1>17 DEF Call, HeapTyped, record, lists, history
    <2>4. FileTyped' /\ Marks'
      BY <1>17 DEF Call, FileTyped, Marks, history
    <2>5. Counts'
      <3>1. calls \in 0..MaxCalls /\ calls < bound[2] /\ calls' = calls + 1
        BY <1>17 DEF Call, Counts
      <3>2. bound[2] \in 0..MaxCalls
        BY BoundTyped DEF Counts
      <3>3. calls' \in 0..MaxCalls
        BY <3>1, <3>2, Constants
      <3> QED
        BY <1>17, <3>3 DEF Call, Counts
    <2> QED
      BY <2>1, <2>2, <2>3, <2>4, <2>5, MovesTyped
  <1>18. CASE Crash
    <2>1. Positions'
      BY <1>18 DEF Crash, Positions, FileTyped, Entry, All, Place0
    <2>2. HeapTyped'
      <3>1. 0 \in 0..MaxMaps
        BY Constants
      <3>2. heap' \in [Maps -> Homes] /\ maps' \in 0..MaxMaps
        BY <1>18, <3>1, NoHomesTyped DEF Crash, Maps
      <3>3. extra' \in [Player -> Lists] /\ list' \in [Thread -> Lists]
        BY <1>18, AboutLists DEF Crash, All
      <3>4. meant' \in [Player -> Homes]
        BY <1>18 DEF Crash, FileTyped, Entry, HeapTyped
      <3> QED
        BY <3>2, <3>3, <3>4 DEF HeapTyped
    <2>3. Control'
      BY <1>18 DEF Crash, Control, Busy, All, Label
    <2>4. Counts'
      <3>1. crashes \in 0..MaxCrashes /\ crashes < bound[3] /\ crashes' = crashes + 1
        BY <1>18 DEF Crash, Counts
      <3>2. bound[3] \in 0..MaxCrashes
        BY BoundTyped DEF Counts
      <3>3. crashes' \in 0..MaxCrashes
        BY <3>1, <3>2, Constants
      <3> QED
        BY <1>18, <3>3 DEF Crash, Counts
    <2> QED
      BY <1>18, <2>1, <2>2, <2>3, <2>4 DEF Crash, FileTyped, Marks
  <1>19. CASE UNCHANGED vars
    BY <1>19 DEF Positions, HeapTyped, FileTyped, Control, Busy, Counts, Marks, vars,
                 record, lists, bounds, history
  <1> QED
    BY <1>1, <1>2, <1>3, <1>4, <1>5, <1>6, <1>7, <1>8, <1>9, <1>10, <1>11,
       <1>12, <1>13, <1>14, <1>15, <1>16, <1>17, <1>18, <1>19
    DEF Next, HomeStep, TeleportStep

-----------------------------------------------------------------------------
(* The maps                                                                *)

MapInv == Mapped /\ OwnMaps /\ OneMap

(* A step of one goroutine leaves the others where they are.               *)
Only(t) ==
  \A u \in Thread \ {t} : /\ pc'[u] = pc[u] /\ job'[u] = job[u]
                          /\ list'[u] = list[u] /\ place'[u] = place[u]

LEMMA OnlyOne ==
  ASSUME Typed, NEW t \in Thread,
         HomeStep(t) \/ TeleportStep(t) \/ \E j \in Job : Call(t, j)
  PROVE  Only(t)
  <1> USE DEF Typed, Control, Positions, HeapTyped, Only, Goto, Done
  <1>1. ASSUME HomeStep(t) PROVE Only(t)
    BY <1>1 DEF HomeStep, Get, Position, List, StoreMap, MakeMap, SetHome, DelHome,
                GoHome, ShowHomes, CommitHome
  <1>2. ASSUME TeleportStep(t) PROVE Only(t)
    BY <1>2 DEF TeleportStep, Back, SetLast, CommitLast, GoToPlace, GoToPlayer, Cross
  <1>3. ASSUME NEW j \in Job, Call(t, j) PROVE Only(t)
    BY <1>3 DEF Call
  <1> QED
    BY <1>1, <1>2, <1>3

(* A step that neither finds, makes nor writes a map.                      *)
LEMMA MapsStay ==
  ASSUME Typed, MapInv, NEW t \in Thread, Only(t),
         UNCHANGED <<extra, heap, maps, raced, meant>>,
         pc'[t] \notin {"store", "make", "use"}, list'[t] \in {list[t], None}
  PROVE  MapInv'
  <1>1. \A u \in Thread : pc'[u] \in {"store", "make", "use"} =>
          u # t /\ pc'[u] = pc[u] /\ job'[u] = job[u] /\ list'[u] = list[u]
    BY DEF Only
  <1>2. Mapped'
    BY <1>1 DEF MapInv, Mapped, Is
  <1>3. OwnMaps'
    <2>1. \A u \in Thread : list'[u] \in None..maps'
      <3>1. None \in None..maps
        BY Constants DEF Typed, HeapTyped
      <3> QED
        BY <3>1 DEF MapInv, OwnMaps, Only
    <2> QED
      BY <1>1, <2>1 DEF MapInv, OwnMaps, Holds, Decoded, Who
  <1>4. OneMap'
    <2> SUFFICES ASSUME NEW u \in Thread, pc'[u] # "idle", Who(u)' \notin raced
                 PROVE  /\ pc'[u] = "make" => extra[Who(u)'] = None
                        /\ pc'[u] = "store" => /\ extra[Who(u)'] = Text
                                               /\ heap[list'[u]] = meant[Who(u)']
                        /\ pc'[u] = "use" /\ list'[u] # None =>
                             list'[u] = extra[Who(u)']
                        /\ \A v \in Thread :
                             Making(u)' /\ Making(v)' /\ Who(u)' = Who(v)' => u = v
      BY DEF OneMap
    <2>1. CASE pc'[u] \in {"store", "make", "use"}
      BY <1>1, <2>1 DEF MapInv, OneMap, Making, Who
    <2>2. CASE pc'[u] \notin {"store", "make", "use"}
      BY <2>2 DEF Making
    <2> QED
      BY <2>1, <2>2
  <1> QED
    BY <1>2, <1>3, <1>4 DEF MapInv

(* A player's own map is changed only by that player's commands.           *)
LEMMA WriteMaps ==
  ASSUME Typed, MapInv, NEW t \in Thread, Only(t), NEW x \in Place0,
         pc[t] = "use", ~Is(t, {"home", "homelist"}), Write(t, x),
         UNCHANGED <<extra, maps, raced>>, job'[t] = job[t], list'[t] = list[t],
         pc'[t] \in {"use", "commit"}
  PROVE  MapInv'
  <1>1. list[t] \in Maps /\ pc[t] # "idle" /\ Who(t) \in Player /\ Holds(t)
    BY MapInHand, JobAtWork DEF MapInv, Mapped, Typed, Holds
  <1>2. \A u \in Thread : pc'[u] \in {"store", "make", "use"} => pc'[u] = pc[u]
    BY DEF Only
  <1>3. \A u \in Thread : job'[u] = job[u] /\ list'[u] = list[u]
    BY DEF Only
  <1>4. Mapped' /\ OwnMaps'
    BY <1>2, <1>3 DEF MapInv, Mapped, OwnMaps, Holds, Decoded, Who, Is
  <1>5. OneMap'
    <2> SUFFICES ASSUME NEW u \in Thread, pc'[u] # "idle", Who(u) \notin raced
                 PROVE  /\ pc'[u] = "make" => extra[Who(u)] = None
                        /\ pc'[u] = "store" => /\ extra[Who(u)] = Text
                                               /\ heap'[list[u]] = meant'[Who(u)]
                        /\ pc'[u] = "use" /\ list[u] # None =>
                             list[u] = extra[Who(u)]
                        /\ \A v \in Thread :
                             Making(u)' /\ Making(v)' /\ Who(u) = Who(v) => u = v
      BY <1>3 DEF OneMap, Who
    <2>1. ASSUME pc'[u] = "store"
          PROVE  heap'[list[u]] = heap[list[u]] /\ meant'[Who(u)] = meant[Who(u)]
      <3>1. pc[u] = "store" /\ extra[Who(u)] = Text /\ Holds(u)
        BY <1>2, <2>1 DEF MapInv, OneMap, Mapped, Holds
      <3>2. Who(u) # Who(t)
        <4>1. Who(t) \notin raced => extra[Who(t)] = list[t]
          BY <1>1 DEF MapInv, OneMap, Holds
        <4> QED
          BY <1>1, <3>1, <4>1, AboutLists
      <3>3. list[u] # list[t]
        BY <1>1, <3>1, <3>2 DEF MapInv, OwnMaps
      <3>4. Who(u) \in Player
        BY <3>1, JobAtWork DEF Typed
      <3> QED
        BY <3>2, <3>3, <3>4 DEF Write
    <2>2. pc[u] # "idle"
      BY DEF Only
    <2> QED
      BY <1>2, <2>1, <2>2 DEF MapInv, OneMap, Making
  <1> QED
    BY <1>4, <1>5 DEF MapInv

(* A list is decoded into a map of its own, from what the player was told. *)
LEMMA ListMaps ==
  ASSUME Typed, MapInv, Empty, Told, NEW t \in Thread, Only(t), List(t)
  PROVE  MapInv'
  <1> DEFINE p == Who(t)
  <1>1. /\ p \in Player /\ pc[t] = "list" /\ pc[t] # "idle" /\ job' = job
        /\ extra' = extra /\ meant' = meant /\ saved' = saved /\ raced \subseteq raced'
    BY JobAtWork DEF List, At, Typed, record
  <1>2. \A u \in Thread : Who(u)' = Who(u)
    BY <1>1 DEF Who
  <1>3. /\ \A u \in Thread \ {t} : pc'[u] = pc[u] /\ list'[u] = list[u]
        /\ t \in Thread
    BY DEF Only
  <1>4. maps \in 0..maps' /\ \A l \in None..maps : l \in None..maps' /\ heap'[l] = heap[l]
    <2>1. CASE UNCHANGED lists
      BY <2>1, Constants DEF lists, Typed, HeapTyped
    <2>2. CASE NewMap(saved[p].homes)
      <3>1. \A l \in None..maps : l # maps' /\ l \in None..maps'
        BY <2>2, NewIsNew DEF Typed, HeapTyped
      <3>2. heap' = [heap EXCEPT ![maps'] = saved[p].homes] /\ maps \in 0..maps'
        BY <2>2 DEF NewMap, Typed, HeapTyped
      <3> QED
        BY <3>1, <3>2 DEF Typed, HeapTyped
    <2> QED
      BY <2>1, <2>2 DEF List
  <1>5. \A u \in Thread \ {t} :
          pc[u] # "idle" /\ Who(u) = p /\ Making(u) /\ ~Decoded(p) => p \in raced'
    <2>1. CASE Decoded(p)
      BY <2>1
    <2>2. ASSUME ~Decoded(p), NEW u \in Thread \ {t}, Who(u) = p, Making(u)
          PROVE  p \in raced'
      BY <2>2, <1>1 DEF List, Decoded
    <2> QED
      BY <2>1, <2>2
  <1>6. list[t] = None
    BY <1>1 DEF Empty
  <1>7. \A u \in Thread \ {t} :
          /\ Holds(u)' => Holds(u)
          /\ list'[u] \in None..maps'
    BY <1>3, <1>4 DEF Holds, MapInv, OwnMaps
  <1>8. \A q \in Player : extra'[q] \in (None..maps') \cup {Text}
    BY <1>1, <1>4 DEF MapInv, OwnMaps
  <1>9. ASSUME NEW u \in Thread, u # t, pc'[u] # "idle", Who(u)' \notin raced'
        PROVE  /\ pc'[u] = "make" => extra'[Who(u)'] = None
               /\ pc'[u] = "store" => /\ extra'[Who(u)'] = Text
                                      /\ heap'[list'[u]] = meant'[Who(u)']
               /\ pc'[u] = "use" /\ list'[u] # None => list'[u] = extra'[Who(u)']
               /\ \A v \in Thread \ {t} :
                    Making(u)' /\ Making(v)' /\ Who(u)' = Who(v)' => u = v
    <2>1. pc[u] # "idle" /\ Who(u) \notin raced /\ list[u] \in None..maps
      BY <1>1, <1>2, <1>3, <1>9 DEF MapInv, OwnMaps
    <2>2. /\ pc[u] = "make" => extra[Who(u)] = None
          /\ pc[u] = "store" => extra[Who(u)] = Text /\ heap[list[u]] = meant[Who(u)]
          /\ pc[u] = "use" /\ list[u] # None => list[u] = extra[Who(u)]
          /\ \A v \in Thread : Making(u) /\ Making(v) /\ Who(u) = Who(v) => u = v
      BY <2>1 DEF MapInv, OneMap
    <2>3. heap'[list'[u]] = heap[list[u]] /\ pc'[u] = pc[u] /\ list'[u] = list[u]
      BY <1>3, <1>4, <1>9, <2>1
    <2>4. \A v \in Thread \ {t} : Making(v)' <=> Making(v)
      BY <1>3 DEF Making
    <2> QED
      BY <1>1, <1>2, <1>9, <2>2, <2>3, <2>4
  <1>10. CASE extra[p] = None
    <2>1. /\ pc'[t] = IF Is(t, {"home", "homelist"}) THEN "use" ELSE "make"
          /\ list' = list /\ UNCHANGED lists
      BY <1>10, <1>1, AboutLists DEF List, Goto, Typed, Control
    <2> QED
      <3>1. Mapped'
        BY <1>1, <1>3, <2>1 DEF MapInv, Mapped, Is
      <3>2. ~Holds(t)' /\ list'[t] \in None..maps'
        BY <1>6, <2>1, Constants DEF Holds, Typed, HeapTyped, lists
      <3>3. OwnMaps'
        BY <1>1, <1>2, <1>3, <1>7, <1>8, <3>2 DEF MapInv, OwnMaps, Decoded
      <3>4. \A v \in Thread \ {t} :
              pc'[v] # "idle" /\ Making(v)' /\ Who(v)' = p => p \in raced'
        BY <1>2, <1>3, <1>5, <1>10 DEF Decoded, Making
      <3>5. OneMap'
        BY <1>1, <1>2, <1>6, <1>9, <1>10, <2>1, <3>4 DEF OneMap, Making
      <3> QED
        BY <3>1, <3>3, <3>5 DEF MapInv
  <1>11. CASE extra[p] = Text
    <2>1. /\ pc'[t] = "store" /\ NewMap(saved[p].homes) /\ list'[t] = maps'
      BY <1>11, <1>1, AboutLists DEF List, Goto, Typed, Control, HeapTyped
    <2> QED
      <3>1. maps' \in Maps /\ \A l \in None..maps : l # maps'
        BY <2>1, NewIsNew DEF Typed, HeapTyped
      <3>2. Mapped'
        BY <1>1, <1>3, <2>1, <3>1, AboutLists DEF MapInv, Mapped, Is
      <3>3. \A q \in Player : extra[q] # maps'
        BY <3>1, AboutLists DEF MapInv, OwnMaps
      <3>4. \A u \in Thread \ {t} : list'[u] # maps'
        BY <1>3, <3>1 DEF MapInv, OwnMaps
      <3>5. list'[t] \in None..maps'
        BY <2>1, NewIsNew DEF Typed, HeapTyped
      <3>6. OwnMaps'
        BY <1>1, <1>2, <1>3, <1>7, <1>8, <2>1, <3>3, <3>4, <3>5
        DEF MapInv, OwnMaps, Decoded, Holds
      <3>7. \A v \in Thread \ {t} :
              pc'[v] # "idle" /\ Making(v)' /\ Who(v)' = p => p \in raced'
        BY <1>2, <1>3, <1>5, <1>11 DEF Decoded, Making
      <3>8. p \notin raced' => heap'[list'[t]] = meant'[p]
        <4>1. p \notin raced' => HomesOf(p) = meant[p]
          BY <1>1 DEF Told
        <4>2. HomesOf(p) = saved[p].homes
          BY <1>11, AboutLists DEF HomesOf
        <4>3. heap'[list'[t]] = saved[p].homes
          BY <2>1, <3>1 DEF NewMap, Typed, HeapTyped
        <4> QED
          BY <1>1, <4>1, <4>2, <4>3
      <3>9. OneMap'
        BY <1>1, <1>2, <1>9, <1>11, <2>1, <3>7, <3>8 DEF OneMap, Making
      <3> QED
        BY <3>2, <3>6, <3>9 DEF MapInv
  <1>12. CASE Decoded(p)
    <2>1. /\ pc'[t] = "use" /\ list'[t] = extra[p] /\ UNCHANGED lists /\ raced' = raced
      BY <1>12, <1>1, AboutLists DEF List, Goto, Typed, Control, HeapTyped, Decoded
    <2> QED
      <3>1. Mapped'
        BY <1>1, <1>3, <1>12, <2>1 DEF MapInv, Mapped, Is, Decoded
      <3>2. list'[t] \in None..maps'
        BY <1>1, <1>8, <1>12, <2>1 DEF Decoded
      <3>3. OwnMaps'
        BY <1>1, <1>2, <1>3, <1>7, <1>8, <1>12, <2>1, <3>2
        DEF MapInv, OwnMaps, Decoded, Holds
      <3>4. OneMap'
        BY <1>1, <1>2, <1>9, <1>12, <2>1 DEF OneMap, Making
      <3> QED
        BY <3>1, <3>3, <3>4 DEF MapInv
  <1> QED
    BY <1>10, <1>11, <1>12 DEF Decoded

(* The only goroutine that decodes the list puts it into the record.       *)
LEMMA StoreMaps ==
  ASSUME Typed, MapInv, NEW t \in Thread, Only(t), StoreMap(t)
  PROVE  MapInv'
  <1> DEFINE p == Who(t)
  <1>1. /\ p \in Player /\ pc[t] = "store" /\ pc'[t] = "use"
        /\ job' = job /\ list' = list /\ meant' = meant /\ raced' = raced
        /\ UNCHANGED lists
    BY JobAtWork DEF StoreMap, At, Goto, Typed, Control, history
  <1>2. extra' = [extra EXCEPT ![p] = list[t]] /\ extra \in [Player -> Lists]
    BY DEF StoreMap, Typed, HeapTyped
  <1>3. /\ \A u \in Thread : Who(u)' = Who(u)
        /\ \A u \in Thread \ {t} : pc'[u] = pc[u]
    BY <1>1 DEF Who, Only
  <1>4. list[t] \in Maps /\ Holds(t)
    BY <1>1, MapInHand DEF MapInv, Mapped, Holds
  <1>5. Mapped'
    BY <1>1, <1>3, <1>4, AboutLists DEF MapInv, Mapped, Is
  <1>6. \A q \in Player : extra[q] = list[t] => q = p
    BY <1>4 DEF MapInv, OwnMaps
  <1>7. OwnMaps'
    <2>1. \A q \in Player : extra'[q] \in (None..maps) \cup {Text}
      BY <1>1, <1>2 DEF MapInv, OwnMaps
    <2>2. \A u \in Thread : Holds(u)' => Holds(u)
      BY <1>1, <1>3, <1>4 DEF Holds
    <2>3. \A q, r \in Player : Decoded(q)' /\ extra'[q] = extra'[r] => q = r
      BY <1>1, <1>2, <1>6 DEF MapInv, OwnMaps, Decoded
    <2>4. \A u \in Thread, q \in Player :
            Holds(u) /\ extra'[q] = list[u] => Who(u) = q
      BY <1>1, <1>2, <1>4 DEF MapInv, OwnMaps
    <2> QED
      BY <1>1, <1>3, <2>1, <2>2, <2>3, <2>4 DEF MapInv, OwnMaps, lists
  <1>8. OneMap'
    <2> SUFFICES ASSUME NEW u \in Thread, pc'[u] # "idle", Who(u) \notin raced
                 PROVE  /\ pc'[u] = "make" => extra'[Who(u)] = None
                        /\ pc'[u] = "store" => /\ extra'[Who(u)] = Text
                                               /\ heap[list[u]] = meant[Who(u)]
                        /\ pc'[u] = "use" /\ list[u] # None =>
                             list[u] = extra'[Who(u)]
                        /\ \A v \in Thread :
                             Making(u)' /\ Making(v)' /\ Who(u) = Who(v) => u = v
      BY <1>1, <1>3 DEF OneMap, lists
    <2>1. CASE u = t
      BY <1>1, <1>2, <2>1 DEF Making
    <2>2. CASE u # t /\ Who(u) = p
      <3>1. pc[u] = pc'[u] /\ extra[p] = Text
        BY <1>1, <1>3, <2>2 DEF MapInv, OneMap
      <3>2. ~Making(u)
        BY <1>1, <2>2, <3>1 DEF MapInv, OneMap, Making
      <3>3. ~(pc[u] = "use" /\ list[u] # None)
        <4>1. list[u] # Text
          BY Constants DEF MapInv, OwnMaps, Typed, HeapTyped
        <4> QED
          BY <2>2, <3>1, <4>1 DEF MapInv, OneMap
      <3> QED
        BY <3>1, <3>2, <3>3 DEF Making
    <2>3. CASE u # t /\ Who(u) # p
      <3>1. pc[u] = pc'[u] /\ extra'[Who(u)] = extra[Who(u)]
        BY <1>2, <1>3, <2>3, JobAtWork DEF Typed
      <3>2. \A v \in Thread : Making(v)' => Making(v)
        BY <1>1, <1>3 DEF Making
      <3> QED
        BY <2>3, <3>1, <3>2 DEF MapInv, OneMap, Making
    <2> QED
      BY <2>1, <2>2, <2>3
  <1> QED
    BY <1>5, <1>7, <1>8 DEF MapInv

(* Where there was no list, the record gets an empty map.                  *)
LEMMA MakeMaps ==
  ASSUME Typed, MapInv, NEW t \in Thread, Only(t), MakeMap(t)
  PROVE  MapInv'
  <1> DEFINE p == Who(t)
  <1>1. /\ p \in Player /\ pc[t] = "make" /\ pc'[t] = "use" /\ NewMap(NoHomes)
        /\ job' = job /\ meant' = meant /\ raced' = raced
    BY JobAtWork DEF MakeMap, At, Goto, Typed, Control, history
  <1>2. /\ extra' = [extra EXCEPT ![p] = maps'] /\ extra \in [Player -> Lists]
        /\ list'[t] = maps'
    BY DEF MakeMap, Typed, HeapTyped
  <1>3. /\ \A u \in Thread : Who(u)' = Who(u)
        /\ \A u \in Thread \ {t} : pc'[u] = pc[u] /\ list'[u] = list[u]
    BY <1>1 DEF Who, Only
  <1>4. /\ maps' \in Maps /\ maps' \in None..maps'
        /\ \A l \in None..maps : l # maps' /\ l \in None..maps'
        /\ heap' = [heap EXCEPT ![maps'] = NoHomes]
    BY <1>1, NewIsNew DEF Typed, HeapTyped
  <1>5. Mapped'
    BY <1>1, <1>2, <1>3, <1>4, AboutLists DEF MapInv, Mapped, Is
  <1>6. /\ \A u \in Thread \ {t} : list[u] \in None..maps /\ list[u] # maps'
        /\ \A q \in Player : extra[q] # maps'
    BY <1>4, AboutLists DEF MapInv, OwnMaps
  <1>7. OwnMaps'
    <2>1. \A q \in Player : extra'[q] \in (None..maps') \cup {Text}
      BY <1>1, <1>2, <1>4 DEF MapInv, OwnMaps
    <2>2. \A u \in Thread \ {t} : Holds(u)' => Holds(u)
      BY <1>3 DEF Holds
    <2>3. \A q, r \in Player : Decoded(q)' /\ extra'[q] = extra'[r] => q = r
      BY <1>1, <1>2, <1>6 DEF MapInv, OwnMaps, Decoded
    <2>4. \A u \in Thread, q \in Player :
            Holds(u)' /\ extra'[q] = list'[u] => Who(u) = q
      BY <1>1, <1>2, <1>3, <1>6, <2>2 DEF MapInv, OwnMaps
    <2>5. \A u, v \in Thread :
            Holds(u)' /\ Holds(v)' /\ list'[u] = list'[v] => Who(u) = Who(v)
      BY <1>2, <1>3, <1>6, <2>2 DEF MapInv, OwnMaps
    <2>6. \A u \in Thread : list'[u] \in None..maps'
      BY <1>2, <1>3, <1>4, <1>6
    <2> QED
      BY <1>3, <2>1, <2>3, <2>4, <2>5, <2>6 DEF OwnMaps
  <1>8. OneMap'
    <2> SUFFICES ASSUME NEW u \in Thread, pc'[u] # "idle", Who(u) \notin raced
                 PROVE  /\ pc'[u] = "make" => extra'[Who(u)] = None
                        /\ pc'[u] = "store" => /\ extra'[Who(u)] = Text
                                               /\ heap'[list'[u]] = meant[Who(u)]
                        /\ pc'[u] = "use" /\ list'[u] # None =>
                             list'[u] = extra'[Who(u)]
                        /\ \A v \in Thread :
                             Making(u)' /\ Making(v)' /\ Who(u) = Who(v) => u = v
      BY <1>1, <1>3 DEF OneMap
    <2>1. CASE u = t
      BY <1>1, <1>2, <2>1 DEF Making
    <2>2. CASE u # t /\ Who(u) = p
      <3>1. pc[u] = pc'[u] /\ extra[p] = None
        BY <1>1, <1>3, <2>2 DEF MapInv, OneMap
      <3>2. ~Making(u)
        BY <1>1, <2>2, <3>1 DEF MapInv, OneMap, Making
      <3>3. ~(pc[u] = "use" /\ list[u] # None)
        BY <2>2, <3>1 DEF MapInv, OneMap
      <3> QED
        BY <1>3, <2>2, <3>1, <3>2, <3>3 DEF Making
    <2>3. CASE u # t /\ Who(u) # p
      <3>1. /\ pc[u] = pc'[u] /\ extra'[Who(u)] = extra[Who(u)]
            /\ list'[u] = list[u] /\ heap'[list[u]] = heap[list[u]]
        BY <1>2, <1>3, <1>4, <1>6, <2>3, JobAtWork DEF Typed, HeapTyped
      <3>2. \A v \in Thread : Making(v)' => Making(v)
        BY <1>1, <1>3 DEF Making
      <3> QED
        BY <2>3, <3>1, <3>2 DEF MapInv, OneMap, Making
    <2> QED
      BY <2>1, <2>2, <2>3
  <1> QED
    BY <1>5, <1>7, <1>8 DEF MapInv

(* After a start nobody holds a map.                                       *)
LEMMA CrashMaps ==
  ASSUME Typed, Crash
  PROVE  MapInv'
  <1>1. /\ \A t \in Thread : pc'[t] = "idle" /\ list'[t] = None
        /\ \A p \in Player : extra'[p] \in {None, Text}
        /\ maps' = 0
    BY DEF Crash, All
  <1>2. None \in None..maps'
    BY <1>1, Constants
  <1>3. Mapped' /\ OneMap'
    BY <1>1 DEF Mapped, OneMap
  <1>4. OwnMaps'
    BY <1>1, <1>2 DEF OwnMaps, Holds, Decoded
  <1> QED
    BY <1>3, <1>4 DEF MapInv

(* Every step of a goroutine leaves the maps in order.                     *)
LEMMA MapStep ==
  ASSUME Typed, MapInv, Empty, Told, NEW t \in Thread, Only(t),
         HomeStep(t) \/ TeleportStep(t) \/ \E j \in Job : Call(t, j)
  PROVE  MapInv'
  <1> DEFINE Still == /\ UNCHANGED <<extra, heap, maps, raced, meant>>
                     /\ pc'[t] \notin {"store", "make", "use"}
                     /\ list'[t] \in {list[t], None}
  <1>1. Still => MapInv'
    BY MapsStay
  <1> HIDE DEF Still
  <1>2. ASSUME \/ Get(t) \/ Position(t) \/ GoHome(t) \/ ShowHomes(t) \/ CommitHome(t)
        PROVE  Still
    BY <1>2 DEF Still, Get, Position, GoHome, ShowHomes, CommitHome, Goto, Done, Typed,
                Control, HeapTyped, record, lists, history
  <1>3. ASSUME TeleportStep(t)
        PROVE  Still
    BY <1>3
    DEF Still, TeleportStep, Back, SetLast, CommitLast, GoToPlace, GoToPlayer, Cross,
                At, Goto, Done, Typed, Control, HeapTyped, record, lists, history
  <1>4. ASSUME NEW j \in Job, Call(t, j)
        PROVE  Still
    BY <1>4 DEF Still, Call, Goto, Typed, Control, HeapTyped, record, lists, history
  <1>5. ASSUME SetHome(t) PROVE MapInv'
    <2>1. /\ pc[t] = "use" /\ ~Is(t, {"home", "homelist"}) /\ Write(t, place[t])
          /\ UNCHANGED <<extra, maps, raced>> /\ job' = job /\ list' = list
          /\ pc'[t] \in {"use", "commit"} /\ place[t] \in Place0
      BY <1>5 DEF SetHome, At, Is, Goto, Typed, Control, Positions, record
    <2> QED
      BY <2>1, WriteMaps
  <1>6. ASSUME DelHome(t) PROVE MapInv'
    <2>1. CASE heap[list[t]][job[t].name] = Nowhere
      <3>1. Still
        BY <1>6, <2>1 DEF Still, DelHome, Done, Goto, Typed, Control, HeapTyped, record
      <3> QED
        BY <1>1, <3>1
    <2>2. CASE heap[list[t]][job[t].name] # Nowhere
      <3>1. /\ pc[t] = "use" /\ ~Is(t, {"home", "homelist"}) /\ Write(t, Nowhere)
            /\ UNCHANGED <<extra, maps, raced>> /\ job' = job /\ list' = list
            /\ pc'[t] \in {"use", "commit"} /\ Nowhere \in Place0
        BY <1>6, <2>2 DEF DelHome, At, Is, Goto, Typed, Control, record, Place0
      <3> QED
        BY <3>1, WriteMaps
    <2> QED
      BY <2>1, <2>2
  <1> QED
    BY <1>1, <1>2, <1>3, <1>4, <1>5, <1>6, ListMaps, StoreMaps, MakeMaps DEF HomeStep

(* A goroutine looks for the list with empty hands.                        *)
LEMMA EmptyStep ==
  ASSUME Typed, Empty, Sleepers, NEW t \in Thread, Only(t),
         HomeStep(t) \/ TeleportStep(t) \/ \E j \in Job : Call(t, j)
  PROVE  Empty'
  <1>1. SUFFICES (pc'[t] \in {"idle", "get", "list"}
                  \/ (pc'[t] = "position" /\ job'[t].kind = "sethome")) => list'[t] = None
    BY DEF Empty, Only, Is
  <1> USE DEF Empty, Sleepers, At, Goto, Is, Who, Done, Typed, Control, HeapTyped
  <1>2. CASE HomeStep(t)
    BY <1>2 DEF HomeStep, Get, Position, List, StoreMap, MakeMap, SetHome, DelHome,
                GoHome, ShowHomes, CommitHome
  <1>3. CASE TeleportStep(t)
    BY <1>3 DEF TeleportStep, Back, SetLast, CommitLast, GoToPlace, GoToPlayer, Cross
  <1>4. ASSUME NEW j \in Job, Call(t, j)
        PROVE  (pc'[t] \in {"idle", "get", "list"}
                \/ (pc'[t] = "position" /\ job'[t].kind = "sethome")) => list'[t] = None
    BY <1>4 DEF Call
  <1> QED
    BY <1>2, <1>3, <1>4

LEMMA SleepersStep ==
  ASSUME Typed, Sleepers, NEW t \in Thread, Only(t),
         HomeStep(t) \/ TeleportStep(t) \/ \E j \in Job : Call(t, j)
  PROVE  Sleepers'
  <1>1. SUFFICES pc'[t] = "sleep" => job'[t].kind = "back"
    BY DEF Sleepers, Only, Is
  <1> USE DEF Sleepers, At, Goto, Is, Who, Done, Typed, Control
  <1>2. CASE HomeStep(t)
    BY <1>2 DEF HomeStep, Get, Position, List, StoreMap, MakeMap, SetHome, DelHome,
                GoHome, ShowHomes, CommitHome
  <1>3. CASE TeleportStep(t)
    BY <1>3 DEF TeleportStep, Back, SetLast, CommitLast, GoToPlace, GoToPlayer, Cross
  <1>4. ASSUME NEW j \in Job, Call(t, j)
        PROVE  pc'[t] = "sleep" => job'[t].kind = "back"
    BY <1>4 DEF Call
  <1> QED
    BY <1>2, <1>3, <1>4

-----------------------------------------------------------------------------
(* What players are told                                                   *)

FileInv == Unlisted /\ Told

(* The list of a player, and after a step.                                 *)
LEMMA WhatHomes ==
  ASSUME NEW p
  PROVE  /\ extra[p] = None => HomesOf(p) = NoHomes
         /\ extra[p] = Text => HomesOf(p) = saved[p].homes
         /\ Decoded(p) => HomesOf(p) = heap[extra[p]]
         /\ extra'[p] = None => HomesOf(p)' = NoHomes
         /\ extra'[p] = Text => HomesOf(p)' = saved'[p].homes
         /\ Decoded(p)' => HomesOf(p)' = heap'[extra'[p]]
  <1>1. None # Text
    BY AboutLists
  <1>2. /\ extra[p] = None => HomesOf(p) = NoHomes
        /\ extra[p] = Text => HomesOf(p) = saved[p].homes
        /\ Decoded(p) => HomesOf(p) = heap[extra[p]]
    BY <1>1 DEF HomesOf, Decoded
  <1>3. /\ extra'[p] = None => HomesOf(p)' = NoHomes
        /\ extra'[p] = Text => HomesOf(p)' = saved'[p].homes
        /\ Decoded(p)' => HomesOf(p)' = heap'[extra'[p]]
    BY <1>1 DEF HomesOf, Decoded
  <1> QED
    BY <1>2, <1>3

(* A step that writes no map and commits nothing.                          *)
LEMMA ToldStays ==
  ASSUME Told, NEW t \in Thread, Only(t), died = "", pc[t] # "commit",
         UNCHANGED <<extra, heap, saved, meant, raced>>
  PROVE  Told'
  <1> SUFFICES ASSUME NEW p \in Player \ raced
               PROVE  /\ HomesOf(p)' = meant[p]
                      /\ saved[p].homes = meant[p] \/ \E u \in Thread : Unsaved(u, p)'
    BY DEF Told
  <1>1. HomesOf(p)' = meant[p]
    BY DEF Told, HomesOf
  <1>2. ASSUME NEW u \in Thread, Unsaved(u, p) PROVE Unsaved(u, p)'
    BY <1>2 DEF Unsaved, Only, Who
  <1> QED
    BY <1>1, <1>2 DEF Told

(* A commit writes down what everybody has been told.                      *)
LEMMA CommitTells ==
  ASSUME Typed, FileInv, Commit, UNCHANGED <<extra, heap, meant, raced>>
  PROVE  FileInv'
  <1>1. ASSUME NEW p \in Player
        PROVE  /\ saved'[p].homes = HomesOf(p) /\ saved'[p].any = (extra[p] # None)
               /\ HomesOf(p)' = HomesOf(p)
    <2>1. saved'[p].homes = HomesOf(p) /\ saved'[p].any = (extra[p] # None)
      BY DEF Commit
    <2> QED
      BY <2>1, AboutLists DEF HomesOf
  <1>2. Unlisted'
    BY <1>1, WhatHomes DEF Unlisted
  <1>3. Told'
    BY <1>1 DEF FileInv, Told
  <1> QED
    BY <1>2, <1>3 DEF FileInv

(* What a command writes into the map of its player is what the player is  *)
(* told, and the command commits it unless the daemon ends.                *)
LEMMA WriteTold ==
  ASSUME Typed, MapInv, Told, NEW t \in Thread, Only(t), died = "", NEW x \in Place0,
         pc[t] = "use", ~Is(t, {"home", "homelist"}), Write(t, x),
         UNCHANGED <<extra, raced, saved>>, job'[t] = job[t],
         pc'[t] = "commit" \/ (pc'[t] = "use" /\ died' # "")
  PROVE  Told'
  <1>1. list[t] \in Maps /\ pc[t] # "idle" /\ Who(t) \in Player /\ Holds(t)
    BY MapInHand, JobAtWork DEF MapInv, Mapped, Typed, Holds
  <1> SUFFICES ASSUME NEW p \in Player \ raced
               PROVE  /\ HomesOf(p)' = meant'[p]
                      /\ saved[p].homes = meant'[p] \/ \E u \in Thread : Unsaved(u, p)'
    BY DEF Told
  <1>2. CASE p = Who(t)
    <2>1. extra[p] = list[t]
      BY <1>1, <1>2 DEF MapInv, OneMap, Holds
    <2>2. heap[list[t]] = meant[p]
      BY <1>1, <2>1, AboutLists DEF Told, HomesOf
    <2>3. HomesOf(p)' = heap'[list[t]]
      BY <1>1, <2>1, AboutLists DEF HomesOf
    <2>4. heap'[list[t]] = meant'[p]
      BY <1>1, <1>2, <2>2 DEF Write, Typed, HeapTyped
    <2>5. Unsaved(t, p)'
      BY <1>2 DEF Unsaved, Who
    <2> QED
      BY <2>3, <2>4, <2>5
  <1>3. CASE p # Who(t)
    <2>1. extra[p] # list[t]
      BY <1>1, <1>3 DEF MapInv, OwnMaps
    <2>2. HomesOf(p)' = HomesOf(p) /\ meant'[p] = meant[p]
      <3>1. Decoded(p) => heap'[extra[p]] = heap[extra[p]]
        BY <2>1, AboutLists DEF Decoded, Write, Typed, HeapTyped
      <3>2. HomesOf(p)' = HomesOf(p)
        BY <3>1, WhatHomes DEF Decoded
      <3> QED
        BY <1>1, <1>3, <3>2 DEF Write, Typed, HeapTyped
    <2>3. ASSUME NEW u \in Thread, Unsaved(u, p) PROVE Unsaved(u, p)'
      BY <1>1, <1>3, <2>3 DEF Unsaved, Only, Who
    <2> QED
      BY <2>2, <2>3 DEF Told
  <1> QED
    BY <1>2, <1>3

(* A goroutine's own map holds what it has decoded, or nothing.            *)
LEMMA MapTold ==
  ASSUME Typed, MapInv, Told, NEW t \in Thread, Only(t), died = "",
         StoreMap(t) \/ MakeMap(t)
  PROVE  Told'
  <1> DEFINE q == Who(t)
  <1>1. /\ pc[t] # "idle" /\ pc[t] # "commit" /\ q \in Player
        /\ UNCHANGED <<saved, meant, raced>>
    BY JobAtWork DEF StoreMap, MakeMap, At, Typed, history
  <1>2. \A p \in Player : extra[p] \notin {None, Text} =>
           extra[p] \in None..maps /\ extra[p] \in Maps
    BY AboutLists DEF MapInv, OwnMaps, Typed, HeapTyped
  <1>3. ASSUME NEW p \in Player \ raced
        PROVE  HomesOf(p)' = meant[p]
    <2>1. HomesOf(p) = meant[p]
      BY DEF Told
    <2>2. CASE StoreMap(t)
      <3>1. /\ pc[t] = "store" /\ heap' = heap
            /\ extra' = [extra EXCEPT ![q] = list[t]] /\ extra \in [Player -> Lists]
        BY <2>2 DEF StoreMap, At, lists, Typed, HeapTyped
      <3>2. list[t] \in Maps
        BY <3>1, MapInHand DEF MapInv, Mapped
      <3>3. CASE p = q
        <4>1. heap[list[t]] = meant[p]
          BY <1>1, <3>1, <3>3 DEF MapInv, OneMap
        <4>2. HomesOf(p)' = heap[list[t]]
          BY <3>1, <3>2, <3>3, AboutLists DEF HomesOf
        <4> QED
          BY <4>1, <4>2
      <3>4. CASE p # q
        BY <1>1, <2>1, <3>1, <3>4 DEF HomesOf
      <3> QED
        BY <3>3, <3>4
    <2>3. CASE MakeMap(t)
      <3>1. /\ pc[t] = "make" /\ NewMap(NoHomes)
            /\ extra' = [extra EXCEPT ![q] = maps'] /\ extra \in [Player -> Lists]
        BY <2>3 DEF MakeMap, At, Typed, HeapTyped
      <3>2. /\ maps' \in Maps /\ \A l \in None..maps : l # maps'
            /\ heap' = [heap EXCEPT ![maps'] = NoHomes] /\ heap \in [Maps -> Homes]
        BY <3>1, NewIsNew DEF Typed, HeapTyped
      <3>3. CASE p = q
        <4>1. extra[p] = None
          BY <1>1, <3>1, <3>3 DEF MapInv, OneMap
        <4>2. HomesOf(p) = NoHomes
          BY <4>1, WhatHomes
        <4>3. HomesOf(p)' = heap'[maps']
          BY <3>1, <3>2, <3>3, AboutLists DEF HomesOf
        <4> QED
          BY <2>1, <3>2, <4>2, <4>3
      <3>4. CASE p # q
        <4>1. extra'[p] = extra[p]
          BY <1>1, <3>1, <3>4
        <4>2. Decoded(p) => heap'[extra[p]] = heap[extra[p]]
          BY <1>2, <3>2 DEF Decoded
        <4> QED
          BY <1>1, <2>1, <4>1, <4>2, WhatHomes DEF Decoded
      <3> QED
        BY <3>3, <3>4
    <2> QED
      BY <2>2, <2>3
  <1>4. ASSUME NEW p \in Player, NEW u \in Thread, Unsaved(u, p) PROVE Unsaved(u, p)'
    BY <1>1, <1>4 DEF Unsaved, Only, Who
  <1> QED
    BY <1>1, <1>3, <1>4 DEF Told

(* Looking for the list changes neither what it is nor what was told.      *)
LEMMA ListTold ==
  ASSUME Typed, MapInv, Told, NEW t \in Thread, Only(t), died = "", List(t)
  PROVE  Told'
  <1>1. /\ pc[t] = "list" /\ UNCHANGED <<extra, saved, meant>>
        /\ raced \subseteq raced'
    BY DEF List, At, record
  <1>2. ASSUME NEW p \in Player, extra[p] \notin {None, Text}
        PROVE  heap'[extra[p]] = heap[extra[p]]
    <2>1. extra[p] \in None..maps /\ extra[p] \in Maps
      BY <1>2, AboutLists DEF MapInv, OwnMaps, Typed, HeapTyped
    <2>2. CASE UNCHANGED lists
      BY <2>2 DEF lists
    <2>3. CASE NewMap(saved[Who(t)].homes)
      BY <2>1, <2>3, NewIsNew DEF Typed, HeapTyped
    <2> QED
      BY <2>2, <2>3 DEF List
  <1>3. ASSUME NEW p \in Player PROVE HomesOf(p)' = HomesOf(p)
    BY <1>1, <1>2, WhatHomes DEF Decoded
  <1>4. ASSUME NEW p \in Player, NEW u \in Thread, Unsaved(u, p) PROVE Unsaved(u, p)'
    BY <1>1, <1>4 DEF Unsaved, Only, Who
  <1> QED
    BY <1>1, <1>3, <1>4 DEF Told

LEMMA FileStep ==
  ASSUME Typed, MapInv, FileInv, NEW t \in Thread, Only(t), died = "",
         HomeStep(t) \/ TeleportStep(t) \/ \E j \in Job : Call(t, j)
  PROVE  FileInv'
  <1>1. CASE CommitHome(t) \/ CommitLast(t)
    BY <1>1, CommitTells DEF CommitHome, CommitLast, record, lists, history
  <1>2. ASSUME ~CommitHome(t), ~CommitLast(t)
        PROVE  Unlisted'
    <2>1. saved' = saved
      BY <1>2 DEF HomeStep, Get, Position, List, StoreMap, MakeMap, SetHome, DelHome,
                  GoHome, ShowHomes, TeleportStep, Back, SetLast, GoToPlace, GoToPlayer,
                  Cross, Call
    <2> QED
      BY <2>1 DEF FileInv, Unlisted
  <1>3. ASSUME \/ Get(t) \/ Position(t) \/ GoHome(t) \/ ShowHomes(t)
               \/ (TeleportStep(t) /\ ~CommitLast(t)) \/ \E j \in Job : Call(t, j)
        PROVE  Told'
    <2>1. pc[t] # "commit" /\ UNCHANGED <<extra, heap, saved, meant, raced>>
      BY <1>3
      DEF Get, Position, GoHome, ShowHomes, TeleportStep, Back, SetLast, GoToPlace,
                  GoToPlayer, Cross, Call, At, record, lists, history
    <2> QED
      BY <2>1, ToldStays DEF FileInv
  <1>4. ASSUME SetHome(t) PROVE Told'
    <2>1. /\ pc[t] = "use" /\ ~Is(t, {"home", "homelist"}) /\ Write(t, place[t])
          /\ UNCHANGED <<extra, raced, saved>> /\ job' = job
          /\ pc'[t] = "commit" \/ (pc'[t] = "use" /\ died' # "")
          /\ place[t] \in Place0
      BY <1>4 DEF SetHome, At, Is, Goto, Typed, Control, Positions, record
    <2> QED
      BY <2>1, WriteTold DEF FileInv
  <1>5. ASSUME DelHome(t) PROVE Told'
    <2>1. CASE heap[list[t]][job[t].name] = Nowhere
      <3>1. pc[t] # "commit" /\ UNCHANGED <<extra, heap, saved, meant, raced>>
        BY <1>5, <2>1 DEF DelHome, At, record
      <3> QED
        BY <3>1, ToldStays DEF FileInv
    <2>2. CASE heap[list[t]][job[t].name] # Nowhere
      <3>1. /\ pc[t] = "use" /\ ~Is(t, {"home", "homelist"}) /\ Write(t, Nowhere)
            /\ UNCHANGED <<extra, raced, saved>> /\ job' = job
            /\ pc'[t] = "commit" \/ (pc'[t] = "use" /\ died' # "")
            /\ Nowhere \in Place0
        BY <1>5, <2>2 DEF DelHome, At, Is, Goto, Typed, Control, record, Place0
      <3> QED
        BY <3>1, WriteTold DEF FileInv
    <2> QED
      BY <2>1, <2>2
  <1> QED
    BY <1>1, <1>2, <1>3, <1>4, <1>5, MapTold, ListTold
    DEF FileInv, HomeStep, TeleportStep

(* A start begins with the homes of the file, which are those the players  *)
(* were told of, apart from the change of a command that it has cut off.   *)
LEMMA CrashTold ==
  ASSUME Typed, FileInv, Crash
  PROVE  FileInv'
  <1>1. /\ saved' = saved /\ raced' = raced
        /\ extra' = [p \in Player |-> IF saved[p].any THEN Text ELSE None]
        /\ meant' = [p \in Player |->
                      IF \E t \in Thread : pc[t] \in {"use", "commit"} /\ Who(t) = p
                      THEN saved[p].homes ELSE meant[p]]
    BY DEF Crash
  <1>2. ASSUME NEW p \in Player \ raced
        PROVE  HomesOf(p)' = meant'[p] /\ saved'[p].homes = meant'[p]
    <2>1. saved[p].homes = meant'[p]
      BY <1>1 DEF FileInv, Told, Unsaved
    <2>2. HomesOf(p)' = saved[p].homes
      BY <1>1, AboutLists DEF HomesOf, FileInv, Unlisted
    <2> QED
      BY <1>1, <2>1, <2>2
  <1> QED
    BY <1>1, <1>2 DEF FileInv, Unlisted, Told

-----------------------------------------------------------------------------
(* Positions                                                               *)

(* Where a goroutine has asked for the position of its player.             *)
AtPosition == {"list", "store", "make", "use", "commit", "sleep", "last", "save", "go"}

(* A position gets lost only with a query that fails.                      *)
LEMMA LocatedStep ==
  ASSUME Typed, Located, NEW t \in Thread, Only(t),
         HomeStep(t) \/ TeleportStep(t) \/ \E j \in Job : Call(t, j)
  PROVE  Located' /\ failed \subseteq failed'
  <1> USE DEF Typed, Control, Positions, Located, AtPosition, At, Goto, Is, Who, Done
  <1>1. failed \subseteq failed' /\ Nowhere \notin Place
    BY PlaceAssumption DEF HomeStep, Get, Position, List, StoreMap, MakeMap, SetHome,
       DelHome, GoHome, ShowHomes, CommitHome, TeleportStep, Back, SetLast, CommitLast,
       GoToPlace, GoToPlayer, Cross, Call, history
  <1>2. ASSUME NEW u \in Thread, pc[u] # "idle", location[Who(u)] # Nowhere
        PROVE  location'[Who(u)] # Nowhere \/ Who(u) \in failed'
    <2>1. Who(u) \in Player
      BY <1>2, JobAtWork
    <2>2. CASE UNCHANGED location
      BY <1>2, <2>2
    <2>3. CASE Get(t) \/ Position(t) \/ SetLast(t) \/ Cross(t)
      BY <1>1, <1>2, <2>1, <2>3 DEF Get, Position, SetLast, Cross
    <2> QED
      BY <2>2, <2>3 DEF HomeStep, List, StoreMap, MakeMap, SetHome, DelHome, GoHome,
         ShowHomes, CommitHome, TeleportStep, Back, CommitLast, GoToPlace, GoToPlayer,
         Call, record
  <1>3. pc'[t] \in AtPosition =>
          \/ pc[t] \in AtPosition /\ job'[t] = job[t]
          \/ job'[t] = job[t] /\ (location'[Who(t)] # Nowhere \/ Who(t) \in failed')
    <2>1. CASE Get(t) \/ Position(t)
      BY <1>1, <2>1, JobAtWork DEF Get, Position
    <2>2. CASE HomeStep(t) /\ ~Get(t) /\ ~Position(t)
      BY <2>2 DEF HomeStep, List, StoreMap, MakeMap, SetHome, DelHome, GoHome,
         ShowHomes, CommitHome
    <2>3. CASE TeleportStep(t)
      BY <2>3 DEF TeleportStep, Back, SetLast, CommitLast, GoToPlace, GoToPlayer, Cross
    <2>4. ASSUME NEW j \in Job, Call(t, j)
          PROVE  pc'[t] \notin AtPosition
      BY <2>4 DEF Call
    <2> QED
      BY <2>1, <2>2, <2>3, <2>4
  <1>4. ASSUME NEW u \in Thread, pc'[u] \in AtPosition
        PROVE  location'[Who(u)'] # Nowhere \/ Who(u)' \in failed'
    <2>1. CASE u # t
      BY <1>1, <1>2, <1>4, <2>1 DEF Only
    <2>2. CASE u = t
      BY <1>1, <1>2, <1>3, <1>4, <2>2
    <2> QED
      BY <2>1, <2>2
  <1> QED
    BY <1>1, <1>4

(* LastLocation gets lost only with a query that has failed.               *)
LEMMA LastStep ==
  ASSUME Typed, Located, NEW t \in Thread,
         HomeStep(t) \/ TeleportStep(t) \/ \E j \in Job : Call(t, j),
         NEW p \in Player, last[p] # Nowhere
  PROVE  last'[p] # Nowhere \/ p \in failed
  <1>1. CASE UNCHANGED last
    BY <1>1
  <1>2. CASE SetLast(t)
    <2>1. /\ pc[t] = "last" /\ last \in [Player -> Place0] /\ Nowhere \notin Place
          /\ location[Who(t)] # Nowhere \/ Who(t) \in failed
      BY <1>2, PlaceAssumption DEF SetLast, At, Typed, Positions, Located
    <2> QED
      BY <1>2, <2>1 DEF SetLast
  <1> QED
    BY <1>1, <1>2
    DEF HomeStep, Get, Position, List, StoreMap, MakeMap, SetHome, DelHome,
       GoHome, ShowHomes, CommitHome, TeleportStep, Back, CommitLast, GoToPlace, GoToPlayer,
       Cross, Call, record

LEMMA FiledStep ==
  ASSUME Typed, Located, Filed, NEW t \in Thread,
         HomeStep(t) \/ TeleportStep(t) \/ \E j \in Job : Call(t, j),
         failed \subseteq failed'
  PROVE  Filed'
  <1> SUFFICES ASSUME NEW p \in Player, last'[p] = Nowhere
               PROVE  saved'[p].last = Nowhere \/ p \in failed'
    BY DEF Filed
  <1>1. CASE last[p] # Nowhere
    BY <1>1, LastStep
  <1>2. CASE last[p] = Nowhere
    <2>1. UNCHANGED saved \/ Commit
      BY DEF HomeStep, Get, Position, List, StoreMap, MakeMap, SetHome, DelHome,
         GoHome, ShowHomes, CommitHome, TeleportStep, Back, SetLast, CommitLast,
         GoToPlace, GoToPlayer, Cross, Call
    <2>2. Commit => saved'[p].last = last[p]
      BY DEF Commit
    <2> QED
      BY <1>2, <2>1, <2>2 DEF Filed
  <1> QED
    BY <1>1, <1>2

(* The position a command goes on with is one it has found.                *)
LEMMA PlacedStep ==
  ASSUME Typed, Located, Sleepers, Placed, NEW t \in Thread, Only(t),
         HomeStep(t) \/ TeleportStep(t) \/ \E j \in Job : Call(t, j)
  PROVE  Placed'
  <1>1. failed \subseteq failed' /\ Nowhere \notin Place
    BY LocatedStep, PlaceAssumption
  <1>2. ASSUME NEW u \in Thread, u # t PROVE PlaceFor(u)'
    <2>1. pc'[u] = pc[u] /\ job'[u] = job[u] /\ place'[u] = place[u]
      BY <1>2 DEF Only
    <2>2. ASSUME pc[u] = "sleep", last[Who(u)] # Nowhere \/ Who(u) \in failed
          PROVE  last'[Who(u)] # Nowhere \/ Who(u) \in failed'
      <3>1. Who(u) \in Player
        BY <2>2, JobAtWork DEF Typed
      <3> QED
        BY <1>1, <2>2, <3>1, LastStep
    <2> QED
      BY <1>1, <2>1, <2>2 DEF Placed, PlaceFor, Is, Who
  <1>3. PlaceFor(t)'
    <2> USE DEF Typed, Control, Positions, PlaceFor, At, Goto, Is, Who, Done
    <2>1. PlaceFor(t) /\ (pc[t] # "idle" => Who(t) \in Player)
      BY JobAtWork DEF Placed
    <2>2. CASE Get(t)
      BY <1>1, <2>1, <2>2 DEF Get
    <2>3. CASE Position(t)
      BY <1>1, <2>1, <2>3 DEF Position
    <2>4. CASE List(t)
      BY <1>1, <2>1, <2>4 DEF List, Located
    <2>5. CASE StoreMap(t) \/ MakeMap(t)
      BY <1>1, <2>1, <2>5 DEF StoreMap, MakeMap
    <2>6. CASE SetHome(t)
      BY <1>1, <2>1, <2>6 DEF SetHome
    <2>7. CASE DelHome(t)
      BY <1>1, <2>1, <2>7 DEF DelHome
    <2>8. CASE GoHome(t)
      BY <1>1, <2>1, <2>8 DEF GoHome
    <2>9. CASE ShowHomes(t) \/ CommitHome(t)
      BY <1>1, <2>1, <2>9 DEF ShowHomes, CommitHome
    <2>10. CASE Back(t)
      BY <1>1, <2>1, <2>10 DEF Back, Sleepers
    <2>11. CASE SetLast(t)
      BY <1>1, <2>1, <2>11 DEF SetLast
    <2>12. CASE CommitLast(t)
      BY <1>1, <2>1, <2>12 DEF CommitLast
    <2>13. CASE GoToPlace(t) \/ GoToPlayer(t)
      BY <1>1, <2>1, <2>13 DEF GoToPlace, GoToPlayer
    <2>14. CASE Cross(t)
      BY <1>1, <2>1, <2>14 DEF Cross
    <2>15. ASSUME NEW j \in Job, Call(t, j) PROVE PlaceFor(t)'
      BY <1>1, <2>1, <2>15 DEF Call
    <2> QED
      BY <2>2, <2>3, <2>4, <2>5, <2>6, <2>7, <2>8, <2>9, <2>10, <2>11, <2>12, <2>13,
         <2>14, <2>15 DEF HomeStep, TeleportStep
  <1> QED
    BY <1>2, <1>3 DEF Placed

(* The daemon ends at a nil position only in one of the places that        *)
(* dereference one, where it has been lost or never was, and at a map only *)
(* where two commands of its player, or one and a commit, meet.            *)
LEMMA PanicStep ==
  ASSUME Typed, MapInv, Located, Placed, Filed, NEW t \in Thread, died = "",
         HomeStep(t) \/ TeleportStep(t) \/ \E j \in Job : Call(t, j)
  PROVE  PanicIsExplained'
  <1> SUFFICES ASSUME died' # "" PROVE PanicIsExplained'
    BY DEF PanicIsExplained
  <1>1. PlaceFor(t)
    BY DEF Placed
  <1>2. CASE SetHome(t) /\ died' = "location"
    <2>1. /\ pc[t] = "use" /\ Is(t, {"sethome", "undo"}) /\ pc'[t] = "commit"
          /\ Nowhere \in {place[t], location[Who(t)]}
          /\ UNCHANGED <<job, place, location, failed>>
      BY <1>2 DEF SetHome, At, Goto, Typed, Control, record
    <2>2. Who(t) \in failed
      BY <1>1, <2>1 DEF Located, PlaceFor, Is
    <2> QED
      BY <1>2, <2>1, <2>2 DEF PanicIsExplained, PositionLost, Who
  <1>3. CASE GoToPlace(t)
    <2>1. /\ pc[t] = "go" /\ Is(t, {"home", "back"}) /\ pc' = pc /\ place[t] = Nowhere
          /\ UNCHANGED <<job, place, location, failed>> /\ died' = "location"
      BY <1>3 DEF GoToPlace, At, record
    <2>2. Who(t) \in failed
      BY <1>1, <2>1 DEF PlaceFor, Is
    <2> QED
      BY <2>1, <2>2 DEF PanicIsExplained, PositionLost, Who
  <1>4. CASE Cross(t)
    <2>1. /\ pc[t] = "cross" /\ last[job[t].target] = Nowhere /\ died' = "target"
          /\ UNCHANGED <<pc, job, last, saved, failed>>
      BY <1>4 DEF Cross, At
    <2>2. job[t].target \in Player
      BY <2>1, JobAtWork DEF Typed
    <2> QED
      BY <2>1, <2>2 DEF PanicIsExplained, TargetWithout, Filed, At
  <1>5. CASE (SetHome(t) \/ DelHome(t)) /\ died' = "map"
    <2>1. /\ pc[t] = "use" /\ ~Is(t, {"home", "homelist"}) /\ Shared(t)
          /\ UNCHANGED <<pc, job>>
      BY <1>5 DEF SetHome, DelHome, At, Is, Done
    <2>2. list[t] # None
      BY <2>1 DEF MapInv, Mapped
    <2>3. PICK u \in Thread \ {t} :
            \/ pc[u] = "use" /\ list[u] = list[t]
            \/ pc[u] \in {"commit", "save"}
      BY <2>1 DEF Shared
    <2>4. pc[u] = "use" /\ list[u] = list[t] => Who(u) = Who(t)
      BY <2>1, <2>2 DEF MapInv, OwnMaps, Holds
    <2> QED
      BY <1>5, <2>1, <2>3, <2>4 DEF PanicIsExplained, MapInUse, At, Who
  <1>6. /\ SetHome(t) => died' \in {"", "location", "map"}
        /\ DelHome(t) => died' \in {"", "map"}
    BY DEF SetHome, DelHome
  <1> QED
    BY <1>2, <1>3, <1>4, <1>5, <1>6 DEF HomeStep, Get, Position, List, StoreMap,
       MakeMap, GoHome, ShowHomes, CommitHome, TeleportStep, Back, SetLast, CommitLast,
       GoToPlayer, Call, history

-----------------------------------------------------------------------------
(* The inductive invariant                                                 *)

IInv == /\ Typed /\ MapInv /\ Empty /\ Sleepers /\ FileInv
        /\ Located /\ Placed /\ Filed /\ PanicIsExplained

LEMMA InitInvariant == Init => IInv
  <1> SUFFICES ASSUME Init PROVE IInv
    OBVIOUS
  <1>1. Typed
    BY InitTyped
  <1>2. /\ \A t \in Thread : pc[t] = "idle" /\ list[t] = None /\ job[t] = NoJob
        /\ maps = 0 /\ died = ""
        /\ \A p \in Player : /\ extra[p] = IF saved[p].any THEN Text ELSE None
                             /\ meant[p] = saved[p].homes
    BY DEF Init, All
  <1>3. None \in None..maps
    <2>1. maps = 0 /\ None = 0
      BY <1>2, Constants
    <2> QED
      BY <2>1
  <1>4. MapInv
    <2>1. \A p \in Player : extra[p] \in {None, Text}
      BY <1>2
    <2> QED
      BY <1>2, <1>3, <2>1 DEF MapInv, Mapped, OwnMaps, OneMap, Holds, Decoded
  <1>5. Unlisted
    <2>1. ASSUME NEW f \in File PROVE f.any \/ f.homes = NoHomes
      BY DEF File
    <2>2. PICK f \in File : saved = [p \in Player |-> f]
      BY DEF Init
    <2> QED
      BY <2>1, <2>2 DEF Unlisted
  <1>6. Told
    <2>1. ASSUME NEW p \in Player PROVE HomesOf(p) = saved[p].homes
      BY <1>2, <1>5, WhatHomes DEF Unlisted
    <2> QED
      BY <1>2, <2>1 DEF Told
  <1>7. Empty /\ Sleepers /\ Located /\ PanicIsExplained
    BY <1>2 DEF Empty, Sleepers, Located, PanicIsExplained
  <1>8. Placed
    BY <1>2 DEF Placed, PlaceFor
  <1>9. Filed
    BY DEF Init, Filed
  <1> QED
    BY <1>1, <1>4, <1>5, <1>6, <1>7, <1>8, <1>9 DEF IInv, FileInv

LEMMA StepInvariant == IInv /\ [Next]_vars => IInv'
  <1> SUFFICES ASSUME IInv, [Next]_vars PROVE IInv'
    OBVIOUS
  <1>1. Typed'
    BY StepTyped DEF IInv, MapInv
  <1>2. ASSUME died = "", NEW t \in Thread,
               HomeStep(t) \/ TeleportStep(t) \/ \E j \in Job : Call(t, j)
        PROVE  IInv'
    <2>1. Only(t)
      BY <1>2, OnlyOne DEF IInv
    <2>2. MapInv' /\ Empty' /\ Sleepers'
      BY <1>2, <2>1, MapStep, EmptyStep, SleepersStep DEF IInv, FileInv
    <2>3. FileInv'
      BY <1>2, <2>1, FileStep DEF IInv
    <2>4. Located' /\ Placed' /\ PanicIsExplained'
      BY <1>2, <2>1, LocatedStep, PlacedStep, PanicStep DEF IInv
    <2>5. Filed'
      BY <1>2, <2>1, LocatedStep, FiledStep DEF IInv
    <2> QED
      BY <1>1, <2>2, <2>3, <2>4, <2>5 DEF IInv
  <1>3. CASE Crash
    <2>1. /\ \A t \in Thread : pc'[t] = "idle" /\ list'[t] = None /\ job'[t] = NoJob
          /\ died' = ""
      BY <1>3 DEF Crash, All
    <2>2. MapInv' /\ FileInv'
      BY <1>3, CrashMaps, CrashTold DEF IInv
    <2>3. Empty' /\ Sleepers' /\ Located' /\ PanicIsExplained'
      BY <2>1 DEF Empty, Sleepers, Located, PanicIsExplained
    <2>4. Placed'
      BY <2>1 DEF Placed, PlaceFor, Is
    <2>5. Filed'
      BY <1>3 DEF Crash, Filed
    <2> QED
      BY <1>1, <2>2, <2>3, <2>4, <2>5 DEF IInv
  <1>4. CASE UNCHANGED vars
    <2> USE <1>4 DEF vars, record, lists, bounds, history, IInv
    <2>1. MapInv'
      BY DEF MapInv, Mapped, OwnMaps, OneMap, Holds, Decoded, Making, Who, Is
    <2>2. FileInv'
      BY DEF FileInv, Unlisted, Told, Unsaved, HomesOf, Who
    <2>3. Empty' /\ Sleepers' /\ Located' /\ Filed' /\ PanicIsExplained'
      BY DEF Empty, Sleepers, Located, Filed, PanicIsExplained, PositionLost,
         TargetWithout, MapInUse, At, Who, Is
    <2>4. Placed'
      BY DEF Placed, PlaceFor, Who, Is
    <2> QED
      BY <1>1, <2>1, <2>2, <2>3, <2>4
  <1> QED
    BY <1>2, <1>3, <1>4 DEF Next

(* The inductive invariant holds in every state.                           *)
THEOREM Invariance == Spec => []IInv
  BY InitInvariant, StepInvariant, PTL DEF Spec

(* The state is well typed: no more maps, commands or starts than bounded, *)
(* and every goroutine at work has a command.                              *)
THEOREM TypeCorrect == Spec => []TypeOK
  <1>1. IInv => TypeOK
    BY TypedIsTypeOK DEF IInv
  <1> QED
    BY <1>1, Invariance, PTL

(* The homes of a player are what the player has been told, in memory and  *)
(* in the file, whatever commands, deaths and ends of the daemon come      *)
(* between, unless two commands of that player made a map at a time.       *)
THEOREM HomesAreAsTold == Spec => []HomesAsTold
  <1>1. IInv => HomesAsTold
    BY DEF IInv, FileInv, Told, Unsaved, HomesAsTold, At
  <1> QED
    BY <1>1, Invariance, PTL

(* A nil position ends the daemon only where a query for the position of   *)
(* the player has failed, or where "tp" goes to a player who has no        *)
(* LastLocation in the file either or for whom a query has failed; a map   *)
(* only where two commands of one player, or one and a commit, meet.       *)
THEOREM PanicsAreExplained == Spec => []PanicIsExplained
  <1>1. IInv => PanicIsExplained
    BY DEF IInv
  <1> QED
    BY <1>1, Invariance, PTL
=============================================================================
