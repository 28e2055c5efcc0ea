---------------------------- MODULE RestartProofs -----------------------------
(***************************************************************************)
(* Proofs about two parts that start and pause with the game and have no   *)
(* state in common: the triggers and the score board, for any number of    *)
(* senders, triggers, clicks, starts and stops, and any MaxTriggerCount,   *)
(* and, in the second half, the monitor, for any number of starts.         *)
(***************************************************************************)
EXTENDS Scoreboard, StatusMonitor, FiniteSetTheorems, TLAPS


(* TypeOK, without the history of clicks and callbacks.                    *)
Typed ==
  /\ bound \in Bounds
  /\ count \in Nat /\ old \in Nat
  /\ scorelist \in BOOLEAN /\ up \in BOOLEAN /\ link \in BOOLEAN /\ board \in BOOLEAN
  /\ clicked \in Seq(Trigger)
  /\ pc \in [Thread -> {"idle", "clean", "remove", "insert", "add", "show",
                        "lookup", "enable", "fire", "next", "board", "append"}]
  /\ mine \in [Thread -> Nat]
  /\ gone \in [Thread -> SUBSET Nat]
  /\ tidy \in {"no", "listed", "yes"}
  /\ enabled \subseteq objective

(* Senders about to register a trigger; there is a number left for each.   *)
Registering == {u \in Sender : pc[u] \in {"clean", "remove", "insert"}}

Room == count + Cardinality(Registering) <= bound.triggers

(* Where the threads can be; a sender past its registration has a number.  *)
(* Nothing is about a trigger that has not been registered yet.            *)
Places ==
  /\ \A t \in Sender : pc[t] \in {"idle", "clean", "remove", "insert", "add", "show"}
  /\ \A t \in Sender : pc[t] \in {"add", "show"} => mine[t] >= 1
  /\ pc[Reader] \in {"idle", "enable", "fire", "clean", "remove"}
  /\ pc[Starter] \in {"idle", "next", "remove", "board", "append"}

Registered ==
  /\ trigger \subseteq 1..count
  /\ objective \subseteq 0..count
  /\ shown \subseteq 1..count
  /\ \A t \in Thread : mine[t] <= count /\ gone[t] \subseteq 0..count

(* What Clean has taken out of the map, and only that, is to be removed    *)
(* from the game.                                                          *)
Removing ==
  \A t \in Thread : /\ pc[t] # "remove" => gone[t] = {}
                    /\ t # Starter => gone[t] \cap trigger = {}

(* A trigger whose message is sent, or about to be.                        *)
Made(b) == b \in shown \/ \E t \in Sender : pc[t] = "show" /\ mine[t] = b

(* Such a trigger works, or will once a line of the log has been dealt     *)
(* with, unless a command or a line about it was lost.                     *)
MadeWork ==
  \A b \in trigger :
    Made(b) => \/ b \in lost
               \/ b \in objective /\ (b \in enabled \/ Handled(b))

(* Whatever was registered is in the map, or was left out for a reason.    *)
Remembered == \A b \in 1..count : b \in trigger \/ Forgotten(b)

(* From the list that Start gets of the objectives until the game stops or *)
(* the link breaks every objective is known to somebody.                   *)
Known ==
  /\ tidy # "no" => Obeyed
  /\ tidy # "no" /\ "outrun" \notin flaws =>
       \A o \in objective : o \in trigger \/ \E t \in Thread : o \in gone[t]

(* The board of deaths is made before it counts as made.                   *)
BoardMade ==
  (scorelist \/ pc[Starter] = "append") /\ flaws \cap {"unmade", "replaced"} = {}
    => board

IInv == /\ Typed
        /\ Room
        /\ Places
        /\ Registered
        /\ Removing
        /\ MadeWork
        /\ Remembered
        /\ Known
        /\ BoardMade

-----------------------------------------------------------------------------
(* There is always a number for the next trigger.                          *)
LEMMA RegisteringFinite ==
  ASSUME Typed
  PROVE  IsFiniteSet(Registering) /\ Cardinality(Registering) \in Nat
  <1>1. IsFiniteSet(Registering)
    BY ThreadAssumption, FS_Subset DEF Registering
  <1> QED
    BY <1>1, FS_CardinalityType

LEMMA RoomStays ==
  ASSUME Typed, Room, Registering' \subseteq Registering, UNCHANGED <<bound, count>>
  PROVE  Room'
  <1>1. IsFiniteSet(Registering) /\ Cardinality(Registering) \in Nat
    BY RegisteringFinite
  <1>2. /\ Cardinality(Registering') \in Nat
        /\ Cardinality(Registering') <= Cardinality(Registering)
    BY <1>1, FS_Subset, FS_CardinalityType
  <1>3. bound.triggers \in Nat
    BY BoundAssumption DEF Typed
  <1> QED
    BY <1>1, <1>2, <1>3 DEF Room, Typed

LEMMA NewerFinite ==
  ASSUME NEW b, NEW n
  PROVE  IsFiniteSet({c \in Trigger : b < c /\ c <= n})
  <1>1. IsFiniteSet(Trigger)
    <2>1. 1 \in Int /\ MaxTriggers \in Int
      BY BoundAssumption
    <2>2. IsFiniteSet(1..MaxTriggers)
      BY <2>1, FS_Interval, Zenon
    <2> QED
      BY <2>2 DEF Trigger
  <1> QED
    BY <1>1, FS_Subset

(* What has been forgotten stays so.                                       *)
LEMMA ForgottenStays ==
  ASSUME NEW b \in Nat, Forgotten(b), count \in Nat, count' \in Nat, count <= count',
         old \in Nat, old' \in Nat, old <= old'
  PROVE  Forgotten(b)'
  <1> DEFINE Newer(n) == {c \in Trigger : b < c /\ c <= n}
  <1>1. CASE b <= old
    BY <1>1 DEF Forgotten
  <1>2. CASE Cardinality(Newer(count)) >= MaxCount
    <2>1. IsFiniteSet(Newer(count'))
      BY NewerFinite
    <2>2. Newer(count) \subseteq Newer(count')
      BY DEF Trigger
    <2>3. /\ Cardinality(Newer(count)) <= Cardinality(Newer(count'))
          /\ Cardinality(Newer(count)) \in Nat /\ Cardinality(Newer(count')) \in Nat
      BY <2>1, <2>2, FS_Subset, FS_CardinalityType
    <2>4. Cardinality(Newer(count')) >= MaxCount
      BY <1>2, <2>3, BoundAssumption
    <2> QED
      BY <2>4 DEF Forgotten
  <1> QED
    BY <1>1, <1>2 DEF Forgotten

(* Clean forgets only what is old or outnumbered.                          *)
LEMMA DeadIsForgotten ==
  ASSUME Typed, Room, Registered,
         NEW b \in Expired \cup Overflow(trigger \ Expired)
  PROVE  Forgotten(b)
  <1>1. CASE b \in Expired
    BY <1>1 DEF Expired, Forgotten
  <1>2. CASE b \in Overflow(trigger \ Expired)
    <2> DEFINE Kept == {c \in trigger \ Expired : c > b}
               Newer == {c \in Trigger : b < c /\ c <= count}
    <2>1. count <= MaxTriggers /\ MaxTriggers \in Nat
      BY RegisteringFinite, BoundAssumption DEF Room, Typed
    <2>2. Kept \subseteq Newer
      <3>1. b \in Nat /\ trigger \subseteq 1..count /\ count \in Nat
        BY <1>2 DEF Registered, Typed, Overflow
      <3>2. 1..count \subseteq Trigger
        BY <2>1, <3>1 DEF Trigger
      <3> SUFFICES ASSUME NEW c \in trigger, c > b
                   PROVE  c \in Newer
        OBVIOUS
      <3> QED
        BY <3>1, <3>2
    <2>3. IsFiniteSet(Newer)
      BY NewerFinite
    <2>4. Cardinality(Kept) <= Cardinality(Newer)
      BY <2>2, <2>3, FS_Subset
    <2>5. Cardinality(Kept) \in Nat /\ Cardinality(Newer) \in Nat
      BY <2>2, <2>3, FS_Subset, FS_CardinalityType
    <2>6. Cardinality(Kept) >= MaxCount
      BY <1>2 DEF Overflow
    <2>7. Cardinality(Newer) >= MaxCount
      BY <2>4, <2>5, <2>6, BoundAssumption
    <2> QED
      BY <2>7 DEF Forgotten
  <1> QED
    BY <1>1, <1>2

-----------------------------------------------------------------------------
LEMMA InitInvariant == Init => IInv
  <1> SUFFICES ASSUME Init PROVE IInv
    OBVIOUS
  <1> USE DEF Init
  <1>1. Typed
    <2>1. clicked \in Seq(Trigger)
      OBVIOUS
    <2>2. /\ pc \in [Thread -> {"idle", "clean", "remove", "insert", "add", "show",
                    "lookup", "enable", "fire", "next", "board", "append"}]
          /\ mine \in [Thread -> Nat]
          /\ gone \in [Thread -> SUBSET Nat]
      OBVIOUS
    <2> QED
      BY <2>1, <2>2 DEF Typed
  <1>2. Room
    <2>1. Registering = {}
      BY DEF Registering, Thread
    <2>2. bound.triggers \in Nat
      BY BoundAssumption
    <2> QED
      BY <2>1, <2>2, FS_EmptySet DEF Room
  <1>3. Places /\ Registered /\ Removing
    BY DEF Places, Registered, Removing, Thread
  <1>4. MadeWork /\ Remembered /\ Known /\ BoardMade
    BY DEF MadeWork, Remembered, Known, Obeyed, BoardMade, Thread
  <1> QED
    BY <1>1, <1>2, <1>3, <1>4 DEF IInv

LEMMA TellrawInv ==
  ASSUME IInv, UNCHANGED bound, NEW t \in Sender, Tellraw(t)
  PROVE  IInv'
  <1> USE ThreadAssumption
      DEF IInv, Tellraw, Thread, At, Goto, map, manager, game, boards, chat,
          begun, history
  <1>1. Typed'
    BY DEF Typed
  <1>2. Room'
    <2>1. Registering' = Registering \cup {t} /\ t \notin Registering
      BY DEF Registering, Typed
    <2>2. IsFiniteSet(Registering) /\ Cardinality(Registering) \in Nat
      BY RegisteringFinite
    <2>3. Cardinality(Registering') = Cardinality(Registering) + 1
      BY <2>1, <2>2, FS_AddElement
    <2>4. count + Cardinality(Registering) < bound.triggers
      BY DEF Registering
    <2>5. bound.triggers \in Nat /\ count \in Nat
      BY BoundAssumption DEF Typed
    <2> QED
      BY <2>2, <2>3, <2>4, <2>5 DEF Room
  <1>3. Places' /\ Registered' /\ Removing'
    <2>1. Places'
      BY <1>1 DEF Typed, Places
    <2>2. Registered'
      BY <1>1 DEF Typed, Places, Registered
    <2>3. Removing'
      BY <1>1 DEF Typed, Places, Registered, Removing
    <2> QED
      BY <2>1, <2>2, <2>3
  <1>4. MadeWork'
    BY DEF Typed, Places, Registered, Removing, MadeWork, Made, Handled
  <1>5. Remembered'
    BY DEF Remembered, Forgotten
  <1>6. Known' /\ BoardMade'
    BY DEF Typed, Places, Removing, Known, Obeyed, BoardMade
  <1> QED
    BY <1>1, <1>2, <1>3, <1>4, <1>5, <1>6

(* Clean removes from the map what is too old or outnumbered.              *)
LEMMA CleanInv ==
  ASSUME IInv, UNCHANGED bound, NEW t \in Sender \cup {Reader}, Clean(t)
  PROVE  IInv'
  <1> USE ThreadAssumption
      DEF IInv, Clean, AfterClean, Thread, At, Goto, map, manager,
          game, boards, chat, begun, history
  <1> DEFINE dead == Expired \cup Overflow(trigger \ Expired)
  <1>0. dead \subseteq trigger /\ dead \subseteq Nat /\ dead \subseteq 0..count
    <2>1. Expired \subseteq trigger /\ \A s : Overflow(s) \subseteq s
      BY DEF Expired, Overflow
    <2>2. trigger \subseteq Nat /\ trigger \subseteq 0..count
      BY DEF Registered, Typed
    <2> QED
      BY <2>1, <2>2
  <1>00. gone' = [gone EXCEPT ![t] = dead] /\ trigger' = trigger \ dead
    OBVIOUS
  <1> HIDE DEF dead
  <1>1. Typed'
    <2>1. gone' \in [Thread -> SUBSET Nat]
      BY <1>0, <1>00 DEF Typed
    <2>2. pc' \in [Thread -> {"idle", "clean", "remove", "insert", "add", "show",
                    "lookup", "enable", "fire", "next", "board", "append"}]
      BY <1>0, <1>00 DEF Typed
    <2> QED
      BY <2>1, <2>2 DEF Typed
  <1>2. Room'
    <2>1. Registering' \subseteq Registering /\ count' = count
      BY DEF Registering, Typed
    <2> QED
      BY <2>1, RoomStays
  <1>3. Places' /\ Registered' /\ Removing'
    <2>1. Places'
      BY DEF Typed, Places
    <2>2. /\ trigger' = trigger \ dead /\ gone'[t] = dead
          /\ \A u \in Thread \ {t} : gone'[u] = gone[u] /\ pc'[u] = pc[u]
      BY DEF dead, Typed
    <2>3. Registered'
      <3>1. trigger' \subseteq 1..count'
        BY <2>2 DEF Registered
      <3>2. \A u \in Thread : mine'[u] <= count' /\ gone'[u] \subseteq 0..count'
        BY <1>0, <2>2 DEF Registered
      <3> QED
        BY <3>1, <3>2 DEF Registered
    <2>4. dead # {} => pc'[t] = "remove"
      BY DEF dead, Typed
    <2>5. Removing'
      BY <2>2, <2>4 DEF Removing
    <2> QED
      BY <2>1, <2>3, <2>5
  <1>4. MadeWork'
    BY DEF Typed, Places, Registered, Removing, MadeWork, Made, Handled
  <1>5. Remembered'
    <2> SUFFICES ASSUME NEW b \in 1..count', b \notin trigger'
                 PROVE  Forgotten(b)'
      BY DEF Remembered
    <2>1. CASE b \in trigger
      <3>1. Forgotten(b)
        BY <2>1, DeadIsForgotten
      <3> QED
        BY <3>1 DEF Forgotten
    <2>2. CASE b \notin trigger
      BY <2>2 DEF Remembered, Forgotten
    <2> QED
      BY <2>1, <2>2
  <1>6. Known' /\ BoardMade'
    BY DEF Typed, Places, Removing, Known, Obeyed, BoardMade
  <1> QED
    BY <1>1, <1>2, <1>3, <1>4, <1>5, <1>6

LEMMA RemoveInv ==
  ASSUME IInv, UNCHANGED bound, NEW t \in Sender \cup {Reader}, Remove(t)
  PROVE  IInv'
  <1> USE ThreadAssumption
      DEF IInv, Obeyed, Remove, RemoveObjectives, AfterClean, Thread, At, Goto, map, manager,
          game, boards, chat, begun, history
  <1>1. Typed'
    BY DEF Typed
  <1>2. Room'
    <2>1. Registering' \subseteq Registering /\ count' = count
      BY DEF Registering, Typed
    <2> QED
      BY <2>1, RoomStays
  <1>3. Places' /\ Registered' /\ Removing'
    <2>1. Places'
      BY <1>1 DEF Typed, Places
    <2>2. Registered'
      BY <1>1 DEF Typed, Places, Registered
    <2>3. Removing'
      BY <1>1 DEF Typed, Places, Registered, Removing
    <2> QED
      BY <2>1, <2>2, <2>3
  <1>4. MadeWork'
    BY DEF Typed, Places, Registered, Removing, MadeWork, Made, Handled
  <1>5. Remembered'
    BY DEF Remembered, Forgotten
  <1>6. Known' /\ BoardMade'
    BY DEF Typed, Places, Removing, Known, Obeyed, BoardMade
  <1> QED
    BY <1>1, <1>2, <1>3, <1>4, <1>5, <1>6

LEMMA InsertInv ==
  ASSUME IInv, UNCHANGED bound, NEW t \in Sender, Insert(t)
  PROVE  IInv'
  <1> USE ThreadAssumption
      DEF IInv, Insert, Thread, At, Goto, map, manager, game, boards, chat,
          begun, history
  <1>1. Typed'
    BY DEF Typed
  <1>2. Room'
    <2>1. Registering' = Registering \ {t} /\ t \in Registering
      BY DEF Registering, Typed
    <2>2. IsFiniteSet(Registering) /\ Cardinality(Registering) \in Nat
      BY RegisteringFinite
    <2>3. Cardinality(Registering') = Cardinality(Registering) - 1
      BY <2>1, <2>2, FS_RemoveElement
    <2>4. bound.triggers \in Nat /\ count \in Nat
      BY BoundAssumption DEF Typed
    <2> QED
      BY <2>2, <2>3, <2>4 DEF Room
  <1>3. Places' /\ Registered' /\ Removing'
    <2>1. Places'
      BY <1>1 DEF Typed, Places
    <2>2. Registered'
      BY <1>1 DEF Typed, Places, Registered
    <2>3. Removing'
      BY <1>1 DEF Typed, Places, Registered, Removing
    <2> QED
      BY <2>1, <2>2, <2>3
  <1>4. MadeWork'
    BY DEF Typed, Places, Registered, Removing, MadeWork, Made, Handled
  <1>5. Remembered'
    <2> SUFFICES ASSUME NEW b \in 1..count', b \notin trigger'
                 PROVE  Forgotten(b)'
      BY DEF Remembered
    <2>1. b \in 1..count /\ b \notin trigger
      BY DEF Typed
    <2>2. Forgotten(b)
      BY <2>1 DEF Remembered
    <2> QED
      BY <2>1, <2>2, ForgottenStays DEF Typed
  <1>6. Known' /\ BoardMade'
    BY DEF Typed, Places, Removing, Known, Obeyed, BoardMade
  <1> QED
    BY <1>1, <1>2, <1>3, <1>4, <1>5, <1>6

LEMMA AddInv ==
  ASSUME IInv, UNCHANGED bound, NEW t \in Sender, Add(t)
  PROVE  IInv'
  <1> USE ThreadAssumption
      DEF IInv, Obeyed, Add, Thread, At, Goto, map, manager, game, boards, chat,
          begun, history
  <1>0. mine[t] \in 0..count
    BY DEF Typed, Registered
  <1>1. Typed'
    BY DEF Typed
  <1>2. Room'
    <2>1. Registering' \subseteq Registering /\ count' = count
      BY DEF Registering, Typed
    <2> QED
      BY <2>1, RoomStays
  <1>3. Places' /\ Registered' /\ Removing'
    <2>1. Places'
      BY <1>1 DEF Typed, Places
    <2>2. Registered'
      BY <1>0 DEF Typed, Registered
    <2>3. Removing'
      BY <1>1 DEF Typed, Places, Registered, Removing
    <2> QED
      BY <2>1, <2>2, <2>3
  <1>4. MadeWork'
    BY DEF Typed, Places, Registered, Removing, MadeWork, Made, Handled
  <1>5. Remembered'
    BY DEF Remembered, Forgotten
  <1>6. Known' /\ BoardMade'
    BY DEF Typed, Places, Removing, Known, Obeyed, BoardMade
  <1> QED
    BY <1>1, <1>2, <1>3, <1>4, <1>5, <1>6

LEMMA ShowInv ==
  ASSUME IInv, UNCHANGED bound, NEW t \in Sender, Show(t)
  PROVE  IInv'
  <1> USE ThreadAssumption
      DEF IInv, Obeyed, Show, Thread, At, Goto, map, manager, game, boards, chat,
          begun, history
  <1>0. mine[t] \in 1..count
    BY DEF Typed, Registered, Places
  <1>1. Typed'
    BY DEF Typed
  <1>2. Room'
    <2>1. Registering' \subseteq Registering /\ count' = count
      BY DEF Registering, Typed
    <2> QED
      BY <2>1, RoomStays
  <1>3. Places' /\ Registered' /\ Removing'
    <2>1. Places'
      BY <1>1 DEF Typed, Places
    <2>2. Registered'
      <3>1. shown' \subseteq 1..count'
        BY <1>0 DEF Registered
      <3>2. \A u \in Thread : mine'[u] <= count' /\ gone'[u] \subseteq 0..count'
        BY DEF Typed, Registered
      <3> QED
        BY <3>1, <3>2 DEF Registered
    <2>3. Removing'
      BY <1>1 DEF Typed, Places, Registered, Removing
    <2> QED
      BY <2>1, <2>2, <2>3
  <1>4. MadeWork'
    BY DEF Typed, Places, Registered, Removing, MadeWork, Made, Handled
  <1>5. Remembered'
    BY DEF Remembered, Forgotten
  <1>6. Known' /\ BoardMade'
    BY DEF Typed, Places, Removing, Known, Obeyed, BoardMade
  <1> QED
    BY <1>1, <1>2, <1>3, <1>4, <1>5, <1>6

LEMMA ClickInv ==
  ASSUME IInv, UNCHANGED bound, NEW b \in Trigger, Click(b)
  PROVE  IInv'
  <1> USE ThreadAssumption
      DEF IInv, Click, Thread, At, Goto, map, manager, game, boards, chat,
          begun, history
  <1>0. clicked' = clicked \/ clicked' = Append(clicked, b)
    OBVIOUS
  <1>1. Typed'
    <2>1. clicked' \in Seq(Trigger)
      BY <1>0 DEF Typed
    <2>2. enabled' \subseteq objective'
      BY DEF Typed
    <2> QED
      BY <2>1, <2>2 DEF Typed
  <1>2. Room'
    <2>1. Registering' \subseteq Registering /\ count' = count
      BY DEF Registering, Typed
    <2> QED
      BY <2>1, RoomStays
  <1>3. Places' /\ Registered' /\ Removing'
    <2>1. Places'
      BY <1>1 DEF Typed, Places
    <2>2. Registered'
      BY <1>1 DEF Typed, Places, Registered
    <2>3. Removing'
      BY <1>1 DEF Typed, Places, Registered, Removing
    <2> QED
      BY <2>1, <2>2, <2>3
  <1>4. MadeWork'
    <2>1. ASSUME NEW c, Handled(c)
          PROVE  Handled(c)'
      BY <1>0, <2>1 DEF Typed, Handled
    <2>2. b \in lost' \/ Handled(b)'
      <3>1. CASE clicked' = Append(clicked, b)
        <4>1. Len(clicked) + 1 \in 1..Len(clicked') /\ clicked'[Len(clicked) + 1] = b
          BY <3>1 DEF Typed
        <4> QED
          BY <4>1 DEF Handled
      <3>2. CASE b \in lost'
        BY <3>2
      <3> QED
        BY <3>1, <3>2
    <2>3. /\ lost \subseteq lost' /\ objective' = objective /\ trigger' = trigger
          /\ enabled' = enabled \ {b}
          /\ \A c : Made(c)' <=> Made(c)
      BY DEF Made
    <2> QED
      BY <2>1, <2>2, <2>3 DEF MadeWork
  <1>5. Remembered'
    BY DEF Remembered, Forgotten
  <1>6. Known' /\ BoardMade'
    BY DEF Typed, Places, Removing, Known, Obeyed, BoardMade
  <1> QED
    BY <1>1, <1>2, <1>3, <1>4, <1>5, <1>6

LEMMA LookupInv ==
  ASSUME IInv, UNCHANGED bound, Lookup
  PROVE  IInv'
  <1> USE ThreadAssumption
      DEF IInv, Lookup, Thread, At, Goto, map, manager, game, boards, chat,
          begun, history
  <1>0. Head(clicked) \in Nat /\ Tail(clicked) \in Seq(Trigger)
    <2>1. Head(clicked) \in Trigger /\ Tail(clicked) \in Seq(Trigger)
      BY DEF Typed
    <2> QED
      BY <2>1 DEF Trigger
  <1>1. Typed'
    <2>1. clicked' \in Seq(Trigger)
      BY <1>0 DEF Typed
    <2>2. mine' \in [Thread -> Nat]
      BY <1>0 DEF Typed
    <2>3. pc' \in [Thread -> {"idle", "clean", "remove", "insert", "add", "show",
                    "lookup", "enable", "fire", "next", "board", "append"}]
      BY <1>0 DEF Typed
    <2> QED
      BY <2>1, <2>2, <2>3 DEF Typed
  <1>2. Room'
    <2>1. Registering' \subseteq Registering /\ count' = count
      BY DEF Registering, Typed
    <2> QED
      BY <2>1, RoomStays
  <1>3. Places' /\ Registered' /\ Removing'
    <2>1. Places'
      BY <1>1 DEF Typed, Places
    <2>2. Registered'
      BY <1>1 DEF Typed, Places, Registered
    <2>3. Removing'
      BY <1>1 DEF Typed, Places, Registered, Removing
    <2> QED
      BY <2>1, <2>2, <2>3
  <1>4. MadeWork'
    <2>1. ASSUME NEW b \in trigger, Handled(b)
          PROVE  Handled(b)'
      <3>1. PICK i \in 1..Len(clicked) : clicked[i] = b
        BY <2>1 DEF Handled
      <3>2. CASE i = 1
        BY <2>1, <3>1, <3>2 DEF Typed, Handled
      <3>3. CASE i # 1
        <4>1. i - 1 \in 1..Len(clicked') /\ clicked'[i - 1] = b
          BY <3>1, <3>3 DEF Typed
        <4> QED
          BY <4>1 DEF Handled
      <3> QED
        BY <3>2, <3>3
    <2> QED
      BY <2>1 DEF Typed, MadeWork, Made
  <1>5. Remembered'
    BY DEF Remembered, Forgotten
  <1>6. Known' /\ BoardMade'
    BY DEF Typed, Places, Removing, Known, Obeyed, BoardMade
  <1> QED
    BY <1>1, <1>2, <1>3, <1>4, <1>5, <1>6

LEMMA EnableInv ==
  ASSUME IInv, UNCHANGED bound, Enable
  PROVE  IInv'
  <1> USE ThreadAssumption
      DEF IInv, Obeyed, Enable, Thread, At, Goto, map, manager, game, boards, chat,
          begun, history
  <1>1. Typed'
    BY DEF Typed
  <1>2. Room'
    <2>1. Registering' \subseteq Registering /\ count' = count
      BY DEF Registering, Typed
    <2> QED
      BY <2>1, RoomStays
  <1>3. Places' /\ Registered' /\ Removing'
    <2>1. Places'
      BY <1>1 DEF Typed, Places
    <2>2. Registered'
      BY <1>1 DEF Typed, Places, Registered
    <2>3. Removing'
      BY <1>1 DEF Typed, Places, Registered, Removing
    <2> QED
      BY <2>1, <2>2, <2>3
  <1>4. MadeWork'
    BY DEF Typed, Places, Registered, Removing, MadeWork, Made, Handled
  <1>5. Remembered'
    BY DEF Remembered, Forgotten
  <1>6. Known' /\ BoardMade'
    BY DEF Typed, Places, Removing, Known, Obeyed, BoardMade
  <1> QED
    BY <1>1, <1>2, <1>3, <1>4, <1>5, <1>6

LEMMA FireInv ==
  ASSUME IInv, UNCHANGED bound, Fire
  PROVE  IInv'
  <1> USE ThreadAssumption
      DEF IInv, Fire, Thread, At, Goto, map, manager, game, boards, chat,
          begun, history
  <1>1. Typed'
    BY DEF Typed
  <1>2. Room'
    <2>1. Registering' \subseteq Registering /\ count' = count
      BY DEF Registering, Typed
    <2> QED
      BY <2>1, RoomStays
  <1>3. Places' /\ Registered' /\ Removing'
    <2>1. Places'
      BY <1>1 DEF Typed, Places
    <2>2. Registered'
      BY <1>1 DEF Typed, Places, Registered
    <2>3. Removing'
      BY <1>1 DEF Typed, Places, Registered, Removing
    <2> QED
      BY <2>1, <2>2, <2>3
  <1>4. MadeWork'
    BY DEF Typed, Places, Registered, Removing, MadeWork, Made, Handled
  <1>5. Remembered'
    BY DEF Remembered, Forgotten
  <1>6. Known' /\ BoardMade'
    BY DEF Typed, Places, Removing, Known, Obeyed, BoardMade
  <1> QED
    BY <1>1, <1>2, <1>3, <1>4, <1>5, <1>6

LEMMA StartInv ==
  ASSUME IInv, UNCHANGED bound, Start
  PROVE  IInv'
  <1> USE ThreadAssumption
      DEF IInv, Start, Thread, At, Goto, map, manager, game, boards, chat,
          begun, history
  <1>1. Typed'
    BY DEF Typed
  <1>2. Room'
    <2>1. Registering' \subseteq Registering /\ count' = count
      BY DEF Registering, Typed
    <2> QED
      BY <2>1, RoomStays
  <1>3. Places' /\ Registered' /\ Removing'
    <2>1. Places'
      BY <1>1 DEF Typed, Places
    <2>2. Registered'
      BY <1>1 DEF Typed, Places, Registered
    <2>3. Removing'
      BY <1>1 DEF Typed, Places, Registered, Removing
    <2> QED
      BY <2>1, <2>2, <2>3
  <1>4. MadeWork'
    BY DEF Typed, Places, Registered, Removing, MadeWork, Made, Handled
  <1>5. Remembered'
    BY DEF Remembered, Forgotten
  <1>6. Known' /\ BoardMade'
    BY DEF Typed, Places, Removing, Known, Obeyed, BoardMade
  <1> QED
    BY <1>1, <1>2, <1>3, <1>4, <1>5, <1>6

LEMMA ListInv ==
  ASSUME IInv, UNCHANGED bound, List
  PROVE  IInv'
  <1> USE ThreadAssumption
      DEF IInv, Obeyed, List, ListObjectives, StartNext, Thread, At, Goto, map, manager,
          game, boards, chat, begun, history
  <1>0. objective \subseteq Nat
    BY DEF Registered
  <1>1. Typed'
    <2>1. gone' \in [Thread -> SUBSET Nat]
      BY <1>0 DEF Typed
    <2>2. pc' \in [Thread -> {"idle", "clean", "remove", "insert", "add", "show",
                    "lookup", "enable", "fire", "next", "board", "append"}]
      BY <1>0 DEF Typed
    <2> QED
      BY <2>1, <2>2 DEF Typed
  <1>2. Room'
    <2>1. Registering' \subseteq Registering /\ count' = count
      BY DEF Registering, Typed
    <2> QED
      BY <2>1, RoomStays
  <1>3. Places' /\ Registered' /\ Removing'
    <2>1. Places'
      BY <1>1 DEF Typed, Places
    <2>2. Registered'
      BY <1>1 DEF Typed, Places, Registered
    <2>3. Removing'
      BY <1>1 DEF Typed, Places, Registered, Removing
    <2> QED
      BY <2>1, <2>2, <2>3
  <1>4. MadeWork'
    BY DEF Typed, Places, Registered, Removing, MadeWork, Made, Handled
  <1>5. Remembered'
    BY DEF Remembered, Forgotten
  <1>6. Known' /\ BoardMade'
    BY DEF Typed, Places, Removing, Known, Obeyed, BoardMade
  <1> QED
    BY <1>1, <1>2, <1>3, <1>4, <1>5, <1>6

LEMMA ClearInv ==
  ASSUME IInv, UNCHANGED bound, Clear
  PROVE  IInv'
  <1> USE ThreadAssumption
      DEF IInv, Obeyed, Clear, RemoveObjectives, Thread, At, Goto, map, manager,
          game, boards, chat, begun, history
  <1>1. Typed'
    BY DEF Typed
  <1>2. Room'
    <2>1. Registering' \subseteq Registering /\ count' = count
      BY DEF Registering, Typed
    <2> QED
      BY <2>1, RoomStays
  <1>3. Places' /\ Registered' /\ Removing'
    <2>1. Places'
      BY <1>1 DEF Typed, Places
    <2>2. Registered'
      BY <1>1 DEF Typed, Places, Registered
    <2>3. Removing'
      BY <1>1 DEF Typed, Places, Registered, Removing
    <2> QED
      BY <2>1, <2>2, <2>3
  <1>4. MadeWork'
    BY DEF Typed, Places, Registered, Removing, MadeWork, Made, Handled
  <1>5. Remembered'
    BY DEF Remembered, Forgotten
  <1>6. Known' /\ BoardMade'
    BY DEF Typed, Places, Removing, Known, Obeyed, BoardMade
  <1> QED
    BY <1>1, <1>2, <1>3, <1>4, <1>5, <1>6

LEMMA EnsureInv ==
  ASSUME IInv, UNCHANGED bound, Ensure
  PROVE  IInv'
  <1> USE ThreadAssumption
      DEF IInv, Ensure, StartNext, Thread, At, Goto, map, manager,
          game, boards, chat, begun, history
  <1>1. Typed'
    BY DEF Typed
  <1>2. Room'
    <2>1. Registering' \subseteq Registering /\ count' = count
      BY DEF Registering, Typed
    <2> QED
      BY <2>1, RoomStays
  <1>3. Places' /\ Registered' /\ Removing'
    <2>1. Places'
      BY <1>1 DEF Typed, Places
    <2>2. Registered'
      BY <1>1 DEF Typed, Places, Registered
    <2>3. Removing'
      BY <1>1 DEF Typed, Places, Registered, Removing
    <2> QED
      BY <2>1, <2>2, <2>3
  <1>4. MadeWork'
    BY DEF Typed, Places, Registered, Removing, MadeWork, Made, Handled
  <1>5. Remembered'
    BY DEF Remembered, Forgotten
  <1>6. Known' /\ BoardMade'
    BY DEF Typed, Places, Removing, Known, Obeyed, BoardMade
  <1> QED
    BY <1>1, <1>2, <1>3, <1>4, <1>5, <1>6

LEMMA AddBoardInv ==
  ASSUME IInv, UNCHANGED bound, AddBoard
  PROVE  IInv'
  <1> USE ThreadAssumption
      DEF IInv, Obeyed, AddBoard, Thread, At, Goto, map, manager, game, boards, chat,
          begun, history
  <1>1. Typed'
    BY DEF Typed
  <1>2. Room'
    <2>1. Registering' \subseteq Registering /\ count' = count
      BY DEF Registering, Typed
    <2> QED
      BY <2>1, RoomStays
  <1>3. Places' /\ Registered' /\ Removing'
    <2>1. Places'
      BY <1>1 DEF Typed, Places
    <2>2. Registered'
      BY <1>1 DEF Typed, Places, Registered
    <2>3. Removing'
      BY <1>1 DEF Typed, Places, Registered, Removing
    <2> QED
      BY <2>1, <2>2, <2>3
  <1>4. MadeWork'
    BY DEF Typed, Places, Registered, Removing, MadeWork, Made, Handled
  <1>5. Remembered'
    BY DEF Remembered, Forgotten
  <1>6. Known' /\ BoardMade'
    BY DEF Typed, Places, Removing, Known, Obeyed, BoardMade
  <1> QED
    BY <1>1, <1>2, <1>3, <1>4, <1>5, <1>6

LEMMA AppendBoardInv ==
  ASSUME IInv, UNCHANGED bound, AppendBoard
  PROVE  IInv'
  <1> USE ThreadAssumption
      DEF IInv, AppendBoard, Thread, At, Goto, map, manager, game, boards, chat,
          begun, history
  <1>1. Typed'
    BY DEF Typed
  <1>2. Room'
    <2>1. Registering' \subseteq Registering /\ count' = count
      BY DEF Registering, Typed
    <2> QED
      BY <2>1, RoomStays
  <1>3. Places' /\ Registered' /\ Removing'
    <2>1. Places'
      BY <1>1 DEF Typed, Places
    <2>2. Registered'
      BY <1>1 DEF Typed, Places, Registered
    <2>3. Removing'
      BY <1>1 DEF Typed, Places, Registered, Removing
    <2> QED
      BY <2>1, <2>2, <2>3
  <1>4. MadeWork'
    BY DEF Typed, Places, Registered, Removing, MadeWork, Made, Handled
  <1>5. Remembered'
    BY DEF Remembered, Forgotten
  <1>6. Known' /\ BoardMade'
    BY DEF Typed, Places, Removing, Known, Obeyed, BoardMade
  <1> QED
    BY <1>1, <1>2, <1>3, <1>4, <1>5, <1>6

LEMMA StartsEndInv ==
  ASSUME IInv, UNCHANGED bound, StartsEnd
  PROVE  IInv'
  <1> USE ThreadAssumption
      DEF IInv, StartsEnd, Thread, At, Goto, map, manager, game, boards, chat,
          begun, history
  <1>1. Typed'
    BY DEF Typed
  <1>2. Room'
    <2>1. Registering' \subseteq Registering /\ count' = count
      BY DEF Registering, Typed
    <2> QED
      BY <2>1, RoomStays
  <1>3. Places' /\ Registered' /\ Removing'
    <2>1. Places'
      BY <1>1 DEF Typed, Places
    <2>2. Registered'
      BY <1>1 DEF Typed, Places, Registered
    <2>3. Removing'
      BY <1>1 DEF Typed, Places, Registered, Removing
    <2> QED
      BY <2>1, <2>2, <2>3
  <1>4. MadeWork'
    BY DEF Typed, Places, Registered, Removing, MadeWork, Made, Handled
  <1>5. Remembered'
    BY DEF Remembered, Forgotten
  <1>6. Known' /\ BoardMade'
    BY DEF Typed, Places, Removing, Known, Obeyed, BoardMade
  <1> QED
    BY <1>1, <1>2, <1>3, <1>4, <1>5, <1>6

LEMMA SyncPlayersInv ==
  ASSUME IInv, UNCHANGED bound, SyncPlayers
  PROVE  IInv'
  <1> USE ThreadAssumption
      DEF IInv, Obeyed, SyncPlayers, Thread, At, Goto, map, manager, game, boards, chat,
          begun, history
  <1>1. Typed'
    BY DEF Typed
  <1>2. Room'
    <2>1. Registering' \subseteq Registering /\ count' = count
      BY DEF Registering, Typed
    <2> QED
      BY <2>1, RoomStays
  <1>3. Places' /\ Registered' /\ Removing'
    <2>1. Places'
      BY <1>1 DEF Typed, Places
    <2>2. Registered'
      BY <1>1 DEF Typed, Places, Registered
    <2>3. Removing'
      BY <1>1 DEF Typed, Places, Registered, Removing
    <2> QED
      BY <2>1, <2>2, <2>3
  <1>4. MadeWork'
    BY DEF Typed, Places, Registered, Removing, MadeWork, Made, Handled
  <1>5. Remembered'
    BY DEF Remembered, Forgotten
  <1>6. Known' /\ BoardMade'
    BY DEF Typed, Places, Removing, Known, Obeyed, BoardMade
  <1> QED
    BY <1>1, <1>2, <1>3, <1>4, <1>5, <1>6

LEMMA SyncScoresInv ==
  ASSUME IInv, UNCHANGED bound, SyncScores
  PROVE  IInv'
  <1> USE ThreadAssumption
      DEF IInv, SyncScores, Thread, At, Goto, map, manager, game, boards, chat,
          begun, history
  <1>1. Typed'
    BY DEF Typed
  <1>2. Room'
    <2>1. Registering' \subseteq Registering /\ count' = count
      BY DEF Registering, Typed
    <2> QED
      BY <2>1, RoomStays
  <1>3. Places' /\ Registered' /\ Removing'
    <2>1. Places'
      BY <1>1 DEF Typed, Places
    <2>2. Registered'
      BY <1>1 DEF Typed, Places, Registered
    <2>3. Removing'
      BY <1>1 DEF Typed, Places, Registered, Removing
    <2> QED
      BY <2>1, <2>2, <2>3
  <1>4. MadeWork'
    BY DEF Typed, Places, Registered, Removing, MadeWork, Made, Handled
  <1>5. Remembered'
    BY DEF Remembered, Forgotten
  <1>6. Known' /\ BoardMade'
    BY DEF Typed, Places, Removing, Known, Obeyed, BoardMade
  <1> QED
    BY <1>1, <1>2, <1>3, <1>4, <1>5, <1>6

LEMMA AgeInv ==
  ASSUME IInv, UNCHANGED bound, Age
  PROVE  IInv'
  <1> USE ThreadAssumption
      DEF IInv, Age, Thread, At, Goto, map, manager, game, boards, chat,
          begun, history
  <1>0. old' \in Nat /\ old <= old'
    BY DEF Typed, Trigger
  <1>1. Typed'
    BY <1>0 DEF Typed
  <1>2. Room'
    <2>1. Registering' \subseteq Registering /\ count' = count
      BY DEF Registering, Typed
    <2> QED
      BY <2>1, RoomStays
  <1>3. Places' /\ Registered' /\ Removing'
    <2>1. Places'
      BY <1>1 DEF Typed, Places
    <2>2. Registered'
      BY <1>1 DEF Typed, Places, Registered
    <2>3. Removing'
      BY <1>1 DEF Typed, Places, Registered, Removing
    <2> QED
      BY <2>1, <2>2, <2>3
  <1>4. MadeWork'
    BY DEF Typed, Places, Registered, Removing, MadeWork, Made, Handled
  <1>5. Remembered'
    <2> SUFFICES ASSUME NEW b \in 1..count', b \notin trigger'
                 PROVE  Forgotten(b)'
      BY DEF Remembered
    <2>1. Forgotten(b)
      BY DEF Remembered
    <2> QED
      BY <1>0, <2>1, ForgottenStays DEF Typed
  <1>6. Known' /\ BoardMade'
    BY DEF Typed, Places, Removing, Known, Obeyed, BoardMade
  <1> QED
    BY <1>1, <1>2, <1>3, <1>4, <1>5, <1>6

LEMMA StopInv ==
  ASSUME IInv, UNCHANGED bound, Stop
  PROVE  IInv'
  <1> USE ThreadAssumption
      DEF IInv, Stop, Thread, At, Goto, map, manager, game, boards, chat,
          begun, history
  <1>1. Typed'
    BY DEF Typed
  <1>2. Room'
    <2>1. Registering' \subseteq Registering /\ count' = count
      BY DEF Registering, Typed
    <2> QED
      BY <2>1, RoomStays
  <1>3. Places' /\ Registered' /\ Removing'
    <2>1. Places'
      BY <1>1 DEF Typed, Places
    <2>2. Registered'
      BY <1>1 DEF Typed, Places, Registered
    <2>3. Removing'
      BY <1>1 DEF Typed, Places, Registered, Removing
    <2> QED
      BY <2>1, <2>2, <2>3
  <1>4. MadeWork'
    BY DEF Typed, Places, Registered, Removing, MadeWork, Made, Handled
  <1>5. Remembered'
    BY DEF Remembered, Forgotten
  <1>6. Known' /\ BoardMade'
    BY DEF Typed, Places, Removing, Known, Obeyed, BoardMade
  <1> QED
    BY <1>1, <1>2, <1>3, <1>4, <1>5, <1>6

LEMMA BootInv ==
  ASSUME IInv, UNCHANGED bound, Boot
  PROVE  IInv'
  <1> USE ThreadAssumption
      DEF IInv, Boot, Thread, At, Goto, map, manager, game, boards, chat,
          begun, history
  <1>1. Typed'
    BY DEF Typed
  <1>2. Room'
    <2>1. Registering' \subseteq Registering /\ count' = count
      BY DEF Registering, Typed
    <2> QED
      BY <2>1, RoomStays
  <1>3. Places' /\ Registered' /\ Removing'
    <2>1. Places'
      BY <1>1 DEF Typed, Places
    <2>2. Registered'
      BY <1>1 DEF Typed, Places, Registered
    <2>3. Removing'
      BY <1>1 DEF Typed, Places, Registered, Removing
    <2> QED
      BY <2>1, <2>2, <2>3
  <1>4. MadeWork'
    BY DEF Typed, Places, Registered, Removing, MadeWork, Made, Handled
  <1>5. Remembered'
    BY DEF Remembered, Forgotten
  <1>6. Known' /\ BoardMade'
    <2>1. Known'
      BY DEF Known, Obeyed
    <2>2. BoardMade'
      BY DEF BoardMade
    <2> QED
      BY <2>1, <2>2
  <1> QED
    BY <1>1, <1>2, <1>3, <1>4, <1>5, <1>6

LEMMA DisconnectInv ==
  ASSUME IInv, UNCHANGED bound, Disconnect
  PROVE  IInv'
  <1> USE ThreadAssumption
      DEF IInv, Disconnect, Thread, At, Goto, map, manager, game, boards, chat,
          begun, history
  <1>1. Typed'
    BY DEF Typed
  <1>2. Room'
    <2>1. Registering' \subseteq Registering /\ count' = count
      BY DEF Registering, Typed
    <2> QED
      BY <2>1, RoomStays
  <1>3. Places' /\ Registered' /\ Removing'
    <2>1. Places'
      BY <1>1 DEF Typed, Places
    <2>2. Registered'
      BY <1>1 DEF Typed, Places, Registered
    <2>3. Removing'
      BY <1>1 DEF Typed, Places, Registered, Removing
    <2> QED
      BY <2>1, <2>2, <2>3
  <1>4. MadeWork'
    BY DEF Typed, Places, Registered, Removing, MadeWork, Made, Handled
  <1>5. Remembered'
    BY DEF Remembered, Forgotten
  <1>6. Known' /\ BoardMade'
    BY DEF Typed, Places, Removing, Known, Obeyed, BoardMade
  <1> QED
    BY <1>1, <1>2, <1>3, <1>4, <1>5, <1>6

LEMMA LoginInv ==
  ASSUME IInv, UNCHANGED bound, Login
  PROVE  IInv'
  <1> USE ThreadAssumption
      DEF IInv, Login, Thread, At, Goto, map, manager, game, boards, chat,
          begun, history
  <1>1. Typed'
    BY DEF Typed
  <1>2. Room'
    <2>1. Registering' \subseteq Registering /\ count' = count
      BY DEF Registering, Typed
    <2> QED
      BY <2>1, RoomStays
  <1>3. Places' /\ Registered' /\ Removing'
    <2>1. Places'
      BY <1>1 DEF Typed, Places
    <2>2. Registered'
      BY <1>1 DEF Typed, Places, Registered
    <2>3. Removing'
      BY <1>1 DEF Typed, Places, Registered, Removing
    <2> QED
      BY <2>1, <2>2, <2>3
  <1>4. MadeWork'
    BY DEF Typed, Places, Registered, Removing, MadeWork, Made, Handled
  <1>5. Remembered'
    BY DEF Remembered, Forgotten
  <1>6. Known' /\ BoardMade'
    BY DEF Typed, Places, Removing, Known, Obeyed, BoardMade
  <1> QED
    BY <1>1, <1>2, <1>3, <1>4, <1>5, <1>6

LEMMA StarveInv ==
  ASSUME IInv, UNCHANGED bound, Starve
  PROVE  IInv'
  <1> USE ThreadAssumption
      DEF IInv, Starve, Thread, At, Goto, map, manager, game, boards, chat,
          begun, history
  <1>1. Typed'
    BY DEF Typed
  <1>2. Room'
    <2>1. Registering' \subseteq Registering /\ count' = count
      BY DEF Registering, Typed
    <2> QED
      BY <2>1, RoomStays
  <1>3. Places' /\ Registered' /\ Removing'
    <2>1. Places'
      BY <1>1 DEF Typed, Places
    <2>2. Registered'
      BY <1>1 DEF Typed, Places, Registered
    <2>3. Removing'
      BY <1>1 DEF Typed, Places, Registered, Removing
    <2> QED
      BY <2>1, <2>2, <2>3
  <1>4. MadeWork'
    BY DEF Typed, Places, Registered, Removing, MadeWork, Made, Handled
  <1>5. Remembered'
    BY DEF Remembered, Forgotten
  <1>6. Known' /\ BoardMade'
    BY DEF Typed, Places, Removing, Known, Obeyed, BoardMade
  <1> QED
    BY <1>1, <1>2, <1>3, <1>4, <1>5, <1>6

LEMMA EndCommandInv ==
  ASSUME IInv, UNCHANGED bound, EndCommand
  PROVE  IInv'
  <1> USE ThreadAssumption
      DEF IInv, EndCommand, Thread, At, Goto, map, manager, game, boards, chat,
          begun, history
  <1>1. Typed'
    BY DEF Typed
  <1>2. Room'
    <2>1. Registering' \subseteq Registering /\ count' = count
      BY DEF Registering, Typed
    <2> QED
      BY <2>1, RoomStays
  <1>3. Places' /\ Registered' /\ Removing'
    <2>1. Places'
      BY <1>1 DEF Typed, Places
    <2>2. Registered'
      BY <1>1 DEF Typed, Places, Registered
    <2>3. Removing'
      BY <1>1 DEF Typed, Places, Registered, Removing
    <2> QED
      BY <2>1, <2>2, <2>3
  <1>4. MadeWork'
    BY DEF Typed, Places, Registered, Removing, MadeWork, Made, Handled
  <1>5. Remembered'
    BY DEF Remembered, Forgotten
  <1>6. Known' /\ BoardMade'
    BY DEF Typed, Places, Removing, Known, Obeyed, BoardMade
  <1> QED
    BY <1>1, <1>2, <1>3, <1>4, <1>5, <1>6

-----------------------------------------------------------------------------
LEMMA StepInvariant == IInv /\ [Next]_vars => IInv'
  <1> SUFFICES ASSUME IInv, [Next]_vars PROVE IInv'
    OBVIOUS
  <1>1. CASE UNCHANGED vars
    <2> USE <1>1 DEF vars, IInv
    <2>1. Typed' /\ Room'
      BY DEF Typed, Room, Registering
    <2>2. Places' /\ Registered' /\ Removing'
      BY DEF Places, Registered, Removing
    <2>3. MadeWork'
      <3>1. \A b : (Made(b)' <=> Made(b)) /\ (Handled(b)' <=> Handled(b))
        BY DEF Made, Handled, At
      <3>2. \A b \in trigger :
              Made(b) => \/ b \in lost
                         \/ b \in objective /\ (b \in enabled \/ Handled(b))
        BY DEF MadeWork
      <3> QED
        BY <3>1, <3>2 DEF MadeWork
    <2>5. Remembered'
      BY DEF Remembered, Forgotten
    <2>4. Known' /\ BoardMade'
      BY DEF Known, Obeyed, BoardMade
    <2> QED
      BY <2>1, <2>2, <2>3, <2>4, <2>5
  <1>2. ASSUME UNCHANGED bound, NEW t \in Sender, Tellraw(t) \/ SenderStep(t)
        PROVE  IInv'
    BY <1>2, TellrawInv, CleanInv, RemoveInv, InsertInv, AddInv, ShowInv
    DEF SenderStep
  <1>3. ASSUME UNCHANGED bound, NEW b \in Trigger, Click(b)
        PROVE  IInv'
    BY <1>3, ClickInv
  <1>4. ASSUME UNCHANGED bound, ReaderStep
        PROVE  IInv'
    BY <1>4, LookupInv, EnableInv, FireInv, CleanInv, RemoveInv DEF ReaderStep
  <1>5. ASSUME UNCHANGED bound, Start \/ StarterStep
        PROVE  IInv'
    BY <1>5, StartInv, ListInv, ClearInv, EnsureInv, AddBoardInv,
       AppendBoardInv, StartsEndInv
    DEF StarterStep
  <1>6. ASSUME UNCHANGED bound, SyncStep
        PROVE  IInv'
    BY <1>6, SyncPlayersInv, SyncScoresInv DEF SyncStep
  <1>7. ASSUME UNCHANGED bound, Age \/ Stop \/ Boot
        PROVE  IInv'
    BY <1>7, AgeInv, StopInv, BootInv
  <1>8. ASSUME UNCHANGED bound, Disconnect \/ Login \/ Starve \/ EndCommand
        PROVE  IInv'
    BY <1>8, DisconnectInv, LoginInv, StarveInv, EndCommandInv
  <1> QED
    BY <1>1, <1>2, <1>3, <1>4, <1>5, <1>6, <1>7, <1>8 DEF Next, Step

LEMMA Invariance == Spec => []IInv
  BY InitInvariant, StepInvariant, PTL DEF Spec

(* A button on the screen works or will work again, unless a command about *)
(* it was in vain or the line of a click lost; it is forgotten only for    *)
(* its age or for newer ones.                                              *)
THEOREM ButtonsAlwaysWork == Spec => []ButtonsWork
  <1>1. ASSUME IInv, NEW b \in shown
        PROVE  IF b \in trigger THEN b \in enabled \/ Handled(b) \/ b \in lost
               ELSE Forgotten(b)
    <2>1. b \in 1..count
      BY <1>1 DEF IInv, Registered
    <2> QED
      BY <1>1, <2>1 DEF IInv, MadeWork, Made, Remembered
  <1>2. IInv => ButtonsWork
    BY <1>1 DEF ButtonsWork
  <1> QED
    BY <1>2, Invariance, PTL

(* After Start has cleared up the game has no trigger the daemon does not  *)
(* know of, until the game ends or the link breaks; and a board that       *)
(* counts as made is there, unless it was made in vain.                    *)
THEOREM GameAlwaysAgrees == Spec => []GameAgrees
  <1>1. IInv => NothingLeaks
    BY DEF IInv, Known, NothingLeaks
  <1>2. IInv => BoardExists
    BY DEF IInv, BoardMade, BoardExists
  <1>3. IInv => GameAgrees
    BY <1>1, <1>2 DEF GameAgrees
  <1> QED
    BY <1>3, Invariance, PTL

-----------------------------------------------------------------------------
(* StatusMonitor.                                                          *)

Watching == {"loop", "select", "work"}

(* Calls of Start come one after the other, and each launches its worker.  *)
Counted ==
  /\ started => runs # 0
  /\ \A w \in Worker : /\ start[w] = "none" <=> w > runs
                       /\ worker[w] = "none" <=> start[w] # "done"

(* A worker that has not made its channel is the last, of a started plugin.*)
Sequential ==
  /\ \A w \in Worker : start[w] \in {"test", "launch"} \/ worker[w] = "new" => w = runs /\ started
  /\ ~Underway => monitorStop = runs

(* The workers that are told to end are those that shall.                  *)
Obsolete(w) == w < runs \/ ~started
ToldToEnd ==
  /\ pausing # 0 => worker[pausing] \in Watching /\ pausing \notin signal
  /\ \A w \in Worker :
       /\ w \in signal => worker[w] \in Watching
       /\ worker[w] = "select" => on[w] = w
       /\ worker[w] \in Watching => (w \in signal \/ w = pausing <=> Obsolete(w))
       /\ worker[w] = "ended" => Obsolete(w)

MonitorIInv ==
  /\ MonitorTypeOK
  /\ Counted
  /\ "early" \notin faults => Sequential
  /\ faults \cap {"early", "overlap"} = {} => ToldToEnd
  /\ TpsIsKnown

LEMMA MonitorInitInv == MonitorInit => MonitorIInv
  <1> SUFFICES ASSUME MonitorInit PROVE MonitorIInv
    OBVIOUS
  <1> USE DEF MonitorInit
  <1>1. MonitorTypeOK
    <2>1. /\ knows \in Test \cup {0} /\ tps \in Test \cup {0} /\ started \in BOOLEAN
          /\ runs \in 0..MonitorStarts
      <3>1. runs = 0 /\ 0 \in 0..MonitorStarts
        BY MonitorAssumption
      <3>2. started \in BOOLEAN
        OBVIOUS
      <3> QED
        BY <3>1, <3>2
    <2>2. /\ start \in [Worker -> {"none", "test", "launch", "done"}]
          /\ worker \in [Worker -> {"none", "new", "loop", "select", "work", "ended"}]
          /\ on \in [Worker -> Worker \cup {0}]
      OBVIOUS
    <2>3. test \in [Worker -> Test]
      BY DEF Test
    <2> QED
      BY <2>1, <2>2, <2>3 DEF MonitorTypeOK
  <1>2. Counted
    BY DEF Counted, Worker
  <1>3. Sequential
    BY DEF Sequential, Underway
  <1>4. ToldToEnd
    BY DEF ToldToEnd, Watching
  <1>5. TpsIsKnown
    BY DEF TpsIsKnown
  <1> QED
    BY <1>1, <1>2, <1>3, <1>4, <1>5 DEF MonitorIInv

LEMMA MonitorTypes ==
  ASSUME MonitorTypeOK, [MonitorNext]_monitorVars
  PROVE  MonitorTypeOK'
  <1> USE MonitorAssumption DEF MonitorTypeOK, Test, Fault, calls, WorkerTo
  <1>1. CASE StartMonitor
    BY <1>1 DEF StartMonitor, Worker
  <1>2. CASE Pause
    BY <1>2 DEF Pause
  <1>3. CASE Send
    BY <1>3 DEF Send
  <1>4. ASSUME NEW w \in Worker, RunTest(w) PROVE MonitorTypeOK'
    <2>1. test[w] \in Test /\ (test[w] # 3 => test[w] + 1 \in Test)
      OBVIOUS
    <2>2. test' \in [Worker -> Test]
      BY <1>4, <2>1 DEF RunTest, Unknown, Answered
    <2>3. start' \in [Worker -> {"none", "test", "launch", "done"}]
      BY <1>4 DEF RunTest, Unknown, Answered
    <2>4. tps' \in Test \cup {0} /\ faults' \subseteq Fault
      BY <1>4, <2>1 DEF RunTest, Unknown, Answered
    <2> QED
      BY <1>4, <2>2, <2>3, <2>4 DEF RunTest
  <1>5. ASSUME NEW w \in Worker, Launch(w) PROVE MonitorTypeOK'
    BY <1>5 DEF Launch
  <1>6. ASSUME NEW w \in Worker, WorkerStep(w) PROVE MonitorTypeOK'
    <2>1. CASE Make(w)
      BY <2>1 DEF Make
    <2>2. CASE Select(w)
      BY <2>2 DEF Select
    <2>3. CASE Tick(w) \/ Measured(w)
      BY <2>3 DEF Tick, Measured
    <2>4. CASE Stopped(w)
      BY <2>4 DEF Stopped
    <2> QED
      BY <1>6, <2>1, <2>2, <2>3, <2>4 DEF WorkerStep
  <1>7. CASE UNCHANGED monitorVars
    BY <1>7 DEF monitorVars
  <1> QED
    BY <1>1, <1>2, <1>3, <1>4, <1>5, <1>6, <1>7 DEF MonitorNext

(* Start: its worker is the next, and all before it are obsolete.          *)
LEMMA StartMonitorInv ==
  ASSUME MonitorIInv, StartMonitor
  PROVE  /\ Counted' /\ ("early" \notin faults' => Sequential')
         /\ (faults' \cap {"early", "overlap"} = {} => ToldToEnd') /\ TpsIsKnown'
  <1> USE DEF MonitorIInv, MonitorTypeOK
  <1>1. /\ runs' \in Worker /\ runs' = runs + 1 /\ runs \in Nat /\ started' = TRUE /\ ~started
        /\ UNCHANGED <<knows, tps, monitorStop, signal, worker, on, pausing, faults>>
        /\ start'[runs'] \in {"test", "launch"}
        /\ \A w \in Worker : w # runs' => start'[w] = start[w]
    BY MonitorAssumption DEF StartMonitor, Worker
  <1>2. \A w \in Worker : w \in Nat
    BY DEF Worker
  <1>3. Counted'
    BY <1>1, <1>2 DEF Counted
  <1>4. ASSUME "early" \notin faults' PROVE Sequential'
    <2>1. \A w \in Worker : start[w] \notin {"test", "launch"} /\ worker[w] # "new"
      BY <1>1, <1>4 DEF Sequential
    <2>2. Underway'
      BY <1>1 DEF Underway
    <2> QED
      BY <1>1, <2>1, <2>2 DEF Sequential
  <1>5. ASSUME faults' \cap {"early", "overlap"} = {} PROVE ToldToEnd'
    <2>1. ToldToEnd
      BY <1>1, <1>5
    <2>2. \A w \in Worker : worker[w] # "none" => w < runs'
      BY <1>1, <1>2 DEF Counted
    <2> QED
      BY <1>1, <2>1, <2>2 DEF ToldToEnd, Obsolete, Watching
  <1>6. TpsIsKnown'
    BY <1>1 DEF TpsIsKnown
  <1> QED
    BY <1>3, <1>4, <1>5, <1>6

(* The tests and the launch: the worker is under way all the time.         *)
LEMMA LaunchInv ==
  ASSUME MonitorIInv, NEW v \in Worker, RunTest(v) \/ Launch(v)
  PROVE  /\ Counted' /\ ("early" \notin faults' => Sequential')
         /\ (faults' \cap {"early", "overlap"} = {} => ToldToEnd') /\ TpsIsKnown'
  <1> USE DEF MonitorIInv, MonitorTypeOK
  <1>1. /\ UNCHANGED <<knows, started, runs, monitorStop, signal, on, pausing>>
        /\ faults' \in {faults, faults \cup {"unanswered"}}
        /\ start[v] \in {"test", "launch"}
        /\ \/ start'[v] \in {"test", "launch"} /\ worker'[v] = worker[v]
           \/ start'[v] = "done" /\ worker'[v] = "new"
        /\ \A w \in Worker : w # v => start'[w] = start[w] /\ worker'[w] = worker[w]
    BY DEF RunTest, Unknown, Answered, Launch, WorkerTo
  <1>2. Counted'
    BY <1>1 DEF Counted
  <1>3. ASSUME "early" \notin faults' PROVE Sequential'
    <2>1. Sequential
      BY <1>1, <1>3
    <2>2. Underway'
      BY <1>1 DEF Underway
    <2> QED
      BY <1>1, <2>1, <2>2 DEF Sequential
  <1>4. ASSUME faults' \cap {"early", "overlap"} = {} PROVE ToldToEnd'
    <2>1. ToldToEnd
      BY <1>1, <1>4
    <2>2. worker[v] = "none" /\ v # pausing /\ v \notin signal
      BY <1>1, <2>1 DEF Counted, ToldToEnd, Watching, Worker
    <2>3. worker'[v] \in {"none", "new"}
      BY <1>1, <2>2
    <2> QED
      BY <1>1, <2>1, <2>2, <2>3 DEF ToldToEnd, Obsolete, Watching
  <1>5. TpsIsKnown'
    BY DEF TpsIsKnown, RunTest, Unknown, Answered, Launch
  <1> QED
    BY <1>2, <1>3, <1>4, <1>5

(* monitorWorker.                                                          *)
LEMMA WorkerStepInv ==
  ASSUME MonitorIInv, NEW v \in Worker, WorkerStep(v)
  PROVE  /\ Counted' /\ ("early" \notin faults' => Sequential')
         /\ (faults' \cap {"early", "overlap"} = {} => ToldToEnd') /\ TpsIsKnown'
  <1> USE DEF MonitorIInv, MonitorTypeOK
  <1>1. /\ UNCHANGED <<knows, tps, started, runs, start, pausing>>
        /\ faults \subseteq faults' /\ ("early" \in faults' => "early" \in faults)
        /\ ("unanswered" \in faults' => "unanswered" \in faults)
        /\ worker[v] \in Watching \cup {"new"} /\ worker'[v] \in Watching \cup {"ended"}
        /\ \A w \in Worker : w # v => worker'[w] = worker[w]
        /\ v \in Nat /\ v # 0
    <2>1. UNCHANGED <<knows, tps, started, runs, start, pausing>>
      BY DEF WorkerStep, Make, Select, Tick, Measured, Stopped, calls
    <2>2. /\ faults \subseteq faults' /\ ("early" \in faults' => "early" \in faults)
          /\ ("unanswered" \in faults' => "unanswered" \in faults)
      BY DEF WorkerStep, Make, Select, Tick, Measured, Stopped
    <2>3. /\ worker[v] \in Watching \cup {"new"}
          /\ \E l \in Watching \cup {"ended"} : worker' = [worker EXCEPT ![v] = l]
      BY DEF WorkerStep, Make, Select, Tick, Measured, Stopped, WorkerTo, Watching
    <2> QED
      BY <2>1, <2>2, <2>3 DEF Worker
  <1>2. Counted'
    BY <1>1 DEF Counted, Watching
  <1>3. ASSUME "early" \notin faults' PROVE Sequential'
    <2>1. Sequential
      BY <1>1, <1>3
    <2>2. \A w \in Worker : start'[w] \in {"test", "launch"} \/ worker'[w] = "new"
                              => w = runs' /\ started'
      BY <1>1, <2>1 DEF Sequential, Watching
    <2>3. CASE Make(v)
      BY <1>1, <2>1, <2>2, <2>3 DEF Make, Sequential
    <2>4. CASE ~Make(v)
      <3>1. monitorStop' = monitorStop /\ worker[v] # "new"
        BY <2>4 DEF WorkerStep, Make, Select, Tick, Measured, Stopped
      <3>2. ~Underway' => ~Underway
        BY <1>1, <3>1 DEF Underway
      <3> QED
        BY <1>1, <2>1, <2>2, <3>1, <3>2 DEF Sequential
    <2> QED
      BY <2>3, <2>4
  <1>4. ASSUME faults' \cap {"early", "overlap"} = {} PROVE ToldToEnd'
    <2>1. ToldToEnd /\ Sequential
      BY <1>1, <1>4
    <2>2. CASE Make(v)
      <3>1. /\ worker[v] = "new" /\ worker'[v] = "loop" /\ UNCHANGED <<signal, on>>
        BY <2>2 DEF Make, WorkerTo
      <3>2. v \notin signal /\ v # pausing /\ ~Obsolete(v)
        BY <1>1, <2>1, <3>1 DEF ToldToEnd, Sequential, Obsolete, Watching
      <3> QED
        BY <1>1, <2>1, <3>1, <3>2 DEF ToldToEnd, Obsolete, Watching
    <2>3. CASE Select(v)
      <3>1. /\ worker[v] = "loop" /\ worker'[v] = "select" /\ UNCHANGED signal
            /\ on' = [on EXCEPT ![v] = v]
        BY <1>4, <2>3 DEF Select, WorkerTo
      <3> QED
        BY <1>1, <2>1, <3>1 DEF ToldToEnd, Obsolete, Watching
    <2>4. CASE Tick(v) \/ Measured(v)
      <3>1. /\ worker[v] \in Watching /\ worker'[v] \in Watching \ {"select"}
            /\ UNCHANGED <<signal, on>>
        BY <2>4 DEF Tick, Measured, WorkerTo, Watching
      <3> QED
        BY <1>1, <2>1, <3>1 DEF ToldToEnd, Obsolete, Watching
    <2>5. CASE Stopped(v)
      <3>1. /\ worker[v] = "select" /\ worker'[v] = "ended" /\ on' = on
            /\ v \in signal /\ signal' = signal \ {v}
        BY <2>1, <2>5 DEF Stopped, WorkerTo, ToldToEnd
      <3>2. Obsolete(v) /\ v # pausing
        BY <1>1, <2>1, <3>1 DEF ToldToEnd, Watching
      <3> QED
        BY <1>1, <2>1, <3>1, <3>2 DEF ToldToEnd, Obsolete, Watching
    <2> QED
      BY <2>2, <2>3, <2>4, <2>5 DEF WorkerStep
  <1>5. TpsIsKnown'
    BY <1>1 DEF TpsIsKnown
  <1> QED
    BY <1>2, <1>3, <1>4, <1>5

(* Pause, which then sends to the channel in the field.                         *)
LEMMA PauseInv ==
  ASSUME MonitorIInv, Pause
  PROVE  /\ Counted' /\ ("early" \notin faults' => Sequential')
         /\ (faults' \cap {"early", "overlap"} = {} => ToldToEnd') /\ TpsIsKnown'
  <1> USE DEF MonitorIInv, MonitorTypeOK
  <1>1. /\ UNCHANGED <<knows, runs, start, test, tps, monitorStop, signal, worker, on>>
        /\ started /\ ~started' /\ pausing = 0 /\ pausing' = monitorStop
        /\ faults \subseteq faults' /\ ("unanswered" \in faults' => "unanswered" \in faults)
        /\ "early" \notin faults' => ~Underway /\ "early" \notin faults
    BY DEF Pause
  <1>2. Counted'
    BY <1>1 DEF Counted
  <1>3. ASSUME "early" \notin faults' PROVE Sequential'
    <2>1. Sequential /\ ~Underway
      BY <1>1, <1>3
    <2> QED
      BY <1>1, <2>1 DEF Sequential, Underway
  <1>4. ASSUME faults' \cap {"early", "overlap"} = {} PROVE ToldToEnd'
    <2>1. ToldToEnd /\ monitorStop = runs /\ ~Underway
      BY <1>1, <1>4 DEF Sequential
    <2>2. runs \in Worker /\ pausing' = runs
      BY <1>1, <2>1 DEF Counted, Worker
    <2>3. worker[runs] \in Watching
      <3>1. start[runs] = "done"
        BY <2>1, <2>2 DEF Counted, Underway, Worker
      <3>2. worker[runs] # "none" /\ worker[runs] # "new"
        BY <2>1, <2>2, <3>1 DEF Counted, Underway
      <3>3. worker[runs] # "ended"
        BY <1>1, <2>1, <2>2 DEF ToldToEnd, Obsolete, Worker
      <3> QED
        BY <2>2, <3>2, <3>3 DEF Watching
    <2>4. runs \notin signal
      BY <1>1, <2>1, <2>2, <2>3 DEF ToldToEnd, Obsolete, Worker
    <2>5. ASSUME NEW w \in Worker, worker[w] \in Watching
          PROVE  w \in signal \/ w = runs
      <3>1. w <= runs
        BY <2>5 DEF Counted, Watching, Worker
      <3>2. w < runs => w \in signal \/ w = pausing
        BY <2>1, <2>5 DEF ToldToEnd, Obsolete
      <3> QED
        BY <1>1, <3>1, <3>2 DEF Worker
    <2> QED
      BY <1>1, <2>1, <2>2, <2>3, <2>4, <2>5 DEF ToldToEnd, Obsolete
  <1>5. TpsIsKnown'
    BY <1>1 DEF TpsIsKnown
  <1> QED
    BY <1>2, <1>3, <1>4, <1>5

LEMMA MonitorNextInv == MonitorIInv /\ [MonitorNext]_monitorVars => MonitorIInv'
  <1> SUFFICES ASSUME MonitorIInv, [MonitorNext]_monitorVars PROVE MonitorIInv'
    OBVIOUS
  <1>1. MonitorTypeOK'
    BY MonitorTypes DEF MonitorIInv
  <1>2. CASE StartMonitor
    BY <1>1, <1>2, StartMonitorInv DEF MonitorIInv
  <1>3. CASE Pause
    BY <1>1, <1>3, PauseInv DEF MonitorIInv
  <1>4. CASE Send
    <2>1. /\ UNCHANGED <<knows, started, runs, start, tps, monitorStop, worker, on, faults>>
          /\ pausing # 0 /\ pausing' = 0 /\ signal' = signal \cup {pausing}
      BY <1>4 DEF Send, calls
    <2>2. Counted' /\ ("early" \notin faults' => Sequential') /\ TpsIsKnown'
      BY <2>1 DEF MonitorIInv, Counted, Sequential, Underway, TpsIsKnown
    <2>3. faults' \cap {"early", "overlap"} = {} => ToldToEnd'
      BY <2>1 DEF MonitorIInv, ToldToEnd, Obsolete, Worker
    <2> QED
      BY <1>1, <2>2, <2>3 DEF MonitorIInv
  <1>5. ASSUME NEW w \in Worker, RunTest(w) \/ Launch(w) PROVE MonitorIInv'
    BY <1>1, <1>5, LaunchInv DEF MonitorIInv
  <1>6. ASSUME NEW w \in Worker, WorkerStep(w) PROVE MonitorIInv'
    BY <1>1, <1>6, WorkerStepInv DEF MonitorIInv
  <1>7. CASE UNCHANGED monitorVars
    BY <1>1, <1>7 DEF monitorVars, MonitorIInv, Counted, Sequential, Underway, ToldToEnd, Obsolete,
       TpsIsKnown
  <1> QED
    BY <1>2, <1>3, <1>4, <1>5, <1>6, <1>7 DEF MonitorNext

LEMMA MonitorInvSound == MonitorIInv => MonitorSound
  <1> SUFFICES ASSUME MonitorIInv PROVE MonitorSound
    OBVIOUS
  <1>1. ASSUME faults \cap {"early", "overlap"} = {}, ~Underway, pausing = 0
        PROVE  Cardinality(Running) = IF started THEN 1 ELSE 0
    <2>1. ToldToEnd /\ Counted /\ MonitorTypeOK
      BY <1>1 DEF MonitorIInv
    <2>2. ASSUME NEW w \in Worker
          PROVE  w \in Running <=> started /\ w = runs
      <3>1. w \in Nat /\ w # 0 /\ runs \in Nat
        BY <2>1 DEF Worker, MonitorTypeOK
      <3>2. w \in Running <=> worker[w] \in Watching /\ w \notin signal
        BY DEF Running, Alive, Watching
      <3>3. worker[w] \in Watching => (w \in signal <=> Obsolete(w)) /\ w <= runs
        BY <1>1, <2>1, <3>1 DEF ToldToEnd, Counted, Watching
      <3>4. started /\ w = runs => worker[w] \in Watching
        <4>1. w = runs => start[w] = "done"
          BY <1>1, <2>1, <3>1 DEF Counted, Underway, MonitorTypeOK
        <4>2. w = runs => worker[w] # "none" /\ worker[w] # "new"
          BY <1>1, <2>1, <4>1 DEF Counted, Underway
        <4>3. started /\ w = runs => worker[w] # "ended"
          BY <2>1, <3>1 DEF ToldToEnd, Obsolete
        <4> QED
          BY <2>1, <4>2, <4>3 DEF MonitorTypeOK, Watching
      <3> QED
        BY <3>1, <3>2, <3>3, <3>4 DEF Obsolete
    <2>3. Running \subseteq Worker
      BY DEF Running, Alive
    <2>4. CASE started
      <3>1. runs \in Worker
        BY <2>1, <2>4 DEF Counted, MonitorTypeOK, Worker
      <3>2. Running = {runs}
        BY <2>2, <2>3, <2>4, <3>1
      <3> QED
        BY <2>4, <3>2, FS_Singleton
    <2>5. CASE ~started
      <3>1. Running = {}
        BY <2>2, <2>3, <2>5
      <3> QED
        BY <2>5, <3>1, FS_EmptySet
    <2> QED
      BY <2>4, <2>5
  <1>2. MonitorFollows
    BY <1>1 DEF MonitorFollows
  <1> QED
    BY <1>2 DEF MonitorSound, MonitorIInv

(* One worker of the monitor (plugins/status.go) runs while the plugin is  *)
(* started and none when it is paused, and the TPS command it remembers is *)
(* one the game knows, but for the named exceptions, after any number of   *)
(* starts.                                                                 *)
THEOREM MonitorIsSound == MonitorSpec => []MonitorSound
  <1>1. MonitorInit => MonitorIInv
    BY MonitorInitInv
  <1>2. MonitorIInv /\ [MonitorNext]_monitorVars => MonitorIInv'
    BY MonitorNextInv
  <1>3. MonitorIInv => MonitorSound
    BY MonitorInvSound
  <1> QED
    BY <1>1, <1>2, <1>3, PTL DEF MonitorSpec
===============================================================================
