------------------------------ MODULE Scoreboard ------------------------------
(***************************************************************************)
(* The triggers behind the buttons of chat messages, and the score board   *)
(* of deaths (core/plugin/scoreboard.go, with the message that shows a     *)
(* button, core/plugin/tellraw.go, and the Start of plugins/back.go).      *)
(*                                                                         *)
(* A trigger is an entry of the map of the daemon and an objective of the  *)
(* game, which outlives the game and the daemon in the world.  The two are *)
(* changed one after the other, by every goroutine that sends a message,   *)
(* by the one that reads the log, and by Start after every start of the    *)
(* game and every reconnection.                                            *)
(*                                                                         *)
(* Triggers are numbered in the order of their registration (their random  *)
(* names are taken to be distinct); 0 is one that an earlier daemon left.  *)
(* A command is one step.  It does nothing while the game is down or the   *)
(* link to the manager out; its answer may be empty all the same, as the   *)
(* game was slow; and it waits for its turn as long as the Worker waits    *)
(* for an answer that is lost (CommandProcessor).                          *)
(***************************************************************************)
EXTENDS Naturals, FiniteSets, Sequences

CONSTANTS Sender,      \* goroutines that send messages with a button
          Reader,      \* the one that reads the log (processTrigger)
          Starter,     \* the one that starts plugins
          MaxCount,    \* MaxTriggerCount (1024)
          MaxTriggers, \* bound: triggers registered
          MaxClicks,   \* bound: clicks on a button
          MaxStarts,   \* bound: starts of the plugins
          MaxStops,    \* bound: stops of the game
          Bounds       \* records of bounds: triggers, clicks, starts, stops,
                       \* and which incidents happen, how often ever

(* The link breaks, the answer of a command is lost.                       *)
Incident == {"disconnect", "starve"}

ASSUME ThreadAssumption == /\ Reader \notin Sender /\ Starter \notin Sender
                           /\ Reader # Starter
                           /\ IsFiniteSet(Sender)
ASSUME BoundAssumption ==
  /\ {MaxTriggers, MaxClicks, MaxStarts, MaxStops} \subseteq Nat
  /\ MaxCount \in Nat \ {0}
  /\ Bounds \subseteq [triggers : 0..MaxTriggers, clicks : 0..MaxClicks,
                      starts : 0..MaxStarts, stops : 0..MaxStops,
                      incidents : SUBSET Incident]

Thread == Sender \cup {Reader, Starter}
Trigger == 1..MaxTriggers
Objective == 0..MaxTriggers
Plugin == {"ScoreboardCore", "BackPlugin"}

VARIABLES bound,     \* which of Bounds holds in this behaviour
          trigger,   \* the map of triggers
          count,     \* triggers registered so far
          old,       \* triggers up to this one are older than an hour
          scorelist, \* whether the board of deaths counts as made
          lock,      \* whether syncScore keeps the lock of all these
          sync,      \* the timer of a synchronisation, and where it is
          objective, \* the trigger objectives of the game
          enabled,   \* those the player may use
          board,     \* whether the game has the board of deaths
          up,        \* whether the game runs
          link,      \* has the daemon a client id of the manager
          starved,   \* does the Worker wait for an answer that is lost
          tidy,      \* how far clearTrigger has come in this run of the game
                     \* and since the link was last out
          shown,     \* triggers whose button the player sees
          clicked,   \* lines of the log about a click, to be read
          pc,        \* where each thread is
          mine,      \* the trigger each thread is about, 0 if none
          gone,      \* objectives each thread is about to remove
          todo,      \* plugins still to start
          starts, stops,
          clicks,    \* history: how often a click on each button was logged
                     \* by the game and its line reached the daemon
          fires,     \* history: how often its callback was run
          lost,      \* history: triggers a command or a log line about which
                     \* was lost
          flaws      \* history: which exceptions have happened

vars == <<bound, trigger, count, old, scorelist, lock, sync, objective, enabled, board,
          up, link, starved, tidy, shown, clicked, pc, mine, gone, todo, starts, stops,
          clicks, fires, lost, flaws>>
map == <<trigger, count, old>>
game == <<objective, enabled, board, up, tidy, stops>>
manager == <<link, starved>>
boards == <<scorelist, lock, sync>>
chat == <<shown, clicked, clicks>>
begun == <<todo, starts>>
history == <<fires, lost, flaws>>

Flaw == {"outrun",  \* a trigger was cleaned up before its objective was made
         "unmade",  \* the board of deaths was to be made while the game was down
                    \* or the link out
         "replaced"} \* the game was started with another world

TypeOK ==
  /\ bound \in Bounds
  /\ trigger \subseteq Trigger /\ count \in Objective /\ old \in Objective
  /\ scorelist \in BOOLEAN /\ lock \in BOOLEAN
  /\ sync \in {"none", "armed", "scores"}
  /\ objective \subseteq Objective /\ enabled \subseteq objective
  /\ board \in BOOLEAN /\ up \in BOOLEAN
  /\ link \in BOOLEAN /\ starved \in BOOLEAN
  /\ tidy \in {"no", "listed", "yes"}
  /\ shown \subseteq Trigger
  /\ clicked \in Seq(Trigger)
  /\ pc \in [Thread -> {"idle", "clean", "remove", "insert", "add", "show",
                        "lookup", "enable", "fire", "next", "board", "append"}]
  /\ mine \in [Thread -> Objective]
  /\ gone \in [Thread -> SUBSET Objective]
  /\ todo \subseteq Plugin
  /\ starts \in 0..MaxStarts /\ stops \in 0..MaxStops
  /\ clicks \in [Trigger -> 0..MaxClicks] /\ fires \in [Trigger -> 0..MaxClicks]
  /\ lost \subseteq Trigger
  /\ flaws \subseteq Flaw

(* The game runs, with what an earlier daemon may have left in its world.  *)
Init ==
  /\ bound \in Bounds
  /\ trigger = {} /\ count = 0 /\ old = 0
  /\ scorelist = FALSE /\ lock = FALSE /\ sync = "none"
  /\ objective \in {{}, {0}} /\ enabled = {}
  /\ board \in BOOLEAN
  /\ up = TRUE /\ link = TRUE /\ starved = FALSE /\ tidy = "no"
  /\ shown = {} /\ clicked = <<>>
  /\ pc = [t \in Thread |-> "idle"]
  /\ mine = [t \in Thread |-> 0]
  /\ gone = [t \in Thread |-> {}]
  /\ todo = {}
  /\ starts = 0 /\ stops = 0
  /\ clicks = [b \in Trigger |-> 0]
  /\ fires = [b \in Trigger |-> 0]
  /\ lost = {} /\ flaws = {}

At(t, l) == pc[t] = l
Goto(t, l) == pc' = [pc EXCEPT ![t] = l]

(* Whether a command has its effect.                                       *)
Obeyed == up /\ link

-----------------------------------------------------------------------------
(* cleanExpiredTrigger, before a registration and after a click            *)

Expired == {b \in trigger : b <= old}

(* Mutant: the newest are removed, not the oldest.                         *)
OverflowNewest(s) == {b \in s : Cardinality({c \in s : c < b}) >= MaxCount}

(* All but the newest.                                                     *)
Overflow(s) == {b \in s : Cardinality({c \in s : c > b}) >= MaxCount}

AfterClean(t) == IF t = Reader THEN "idle" ELSE "insert"

Clean(t) ==
  LET dead == Expired \cup Overflow(trigger \ Expired) IN
  /\ At(t, "clean")
  /\ ~lock
  /\ trigger' = trigger \ dead
  /\ gone' = [gone EXCEPT ![t] = dead]
  /\ Goto(t, IF dead = {} THEN AfterClean(t) ELSE "remove")
  /\ UNCHANGED <<count, old, manager, boards, game, chat, mine, begun, history>>

(* The command, of Clean or of Clear.                                      *)
RemoveObjectives(t) ==
  /\ ~starved
  /\ objective' = IF Obeyed THEN objective \ gone[t] ELSE objective
  /\ enabled' = enabled \cap objective'
  /\ gone' = [gone EXCEPT ![t] = {}]

Remove(t) ==
  /\ At(t, "remove")
  /\ t # Starter
  /\ RemoveObjectives(t)
  /\ Goto(t, AfterClean(t))
  /\ UNCHANGED <<map, manager, boards, board, up, tidy, stops, chat, mine, begun,
                 history>>

-----------------------------------------------------------------------------
(* Tellraw with a button: registerTrigger, and the message                 *)

Tellraw(t) ==
  /\ At(t, "idle")
  /\ count + Cardinality({u \in Sender : pc[u] \in {"clean", "remove", "insert"}})
       < bound.triggers
  /\ Goto(t, "clean")
  /\ UNCHANGED <<map, manager, boards, game, chat, mine, gone, begun, history>>

Insert(t) ==
  /\ At(t, "insert")
  /\ ~lock
  /\ count' = count + 1
  /\ trigger' = trigger \cup {count'}
  /\ mine' = [mine EXCEPT ![t] = count']
  /\ Goto(t, "add")
  /\ UNCHANGED <<old, manager, boards, game, chat, gone, begun, history>>

(* The objective is added, and enabled for who is to see the message.      *)
Add(t) ==
  /\ At(t, "add")
  /\ ~starved
  /\ objective' = IF Obeyed THEN objective \cup {mine[t]} ELSE objective
  /\ enabled' = IF Obeyed THEN enabled \cup {mine[t]} ELSE enabled
  /\ lost' = IF Obeyed THEN lost ELSE lost \cup {mine[t]}
  /\ flaws' = IF Obeyed /\ mine[t] \notin trigger THEN flaws \cup {"outrun"} ELSE flaws
  /\ Goto(t, "show")
  /\ UNCHANGED <<map, manager, boards, board, up, tidy, stops, chat, mine, gone,
                 begun, fires>>

Show(t) ==
  /\ At(t, "show")
  /\ ~starved
  /\ shown' = IF Obeyed THEN shown \cup {mine[t]} ELSE shown
  /\ mine' = [mine EXCEPT ![t] = 0]
  /\ Goto(t, "idle")
  /\ UNCHANGED <<map, manager, boards, game, clicked, clicks, gone, begun, history>>

-----------------------------------------------------------------------------
(* The player clicks.  The game obeys once and then waits for "enable".    *)
(* The line may be lost on its way: a channel is full, the link is out.    *)
Click(b) ==
  /\ up
  /\ b \in shown \cap enabled
  /\ clicks[b] < bound.clicks
  /\ enabled' = enabled \ {b}
  /\ \/ /\ link
        /\ clicks' = [clicks EXCEPT ![b] = @ + 1]
        /\ clicked' = Append(clicked, b)
        /\ UNCHANGED lost
     \/ lost' = lost \cup {b} /\ UNCHANGED <<clicks, clicked>>
  /\ UNCHANGED <<map, manager, boards, objective, board, up, tidy, stops, shown, pc,
                 mine, gone, begun, fires, flaws>>

(* processTrigger: the entry is read, the trigger enabled again and the    *)
(* callback run; an entry that has gone is ignored.                        *)
Lookup ==
  /\ At(Reader, "idle")
  /\ clicked # <<>>
  /\ ~lock
  /\ clicked' = Tail(clicked)
  /\ IF Head(clicked) \in trigger
     THEN /\ mine' = [mine EXCEPT ![Reader] = Head(clicked)]
          /\ Goto(Reader, "enable")
     ELSE /\ Goto(Reader, "clean")
          /\ UNCHANGED mine
  /\ UNCHANGED <<map, manager, boards, game, shown, clicks, gone, begun, history>>

Enable ==
  LET b == mine[Reader] IN
  /\ At(Reader, "enable")
  /\ ~starved
  /\ enabled' = IF Obeyed THEN enabled \cup ({b} \cap objective) ELSE enabled
  /\ lost' = IF Obeyed THEN lost ELSE lost \cup {b}
  /\ Goto(Reader, "fire")
  /\ UNCHANGED <<map, manager, boards, objective, board, up, tidy, stops, chat, mine,
                 gone, begun, fires, flaws>>

Fire ==
  /\ At(Reader, "fire")
  /\ fires' = [fires EXCEPT ![mine[Reader]] = @ + 1]
  /\ mine' = [mine EXCEPT ![Reader] = 0]
  /\ Goto(Reader, "clean")
  /\ UNCHANGED <<map, manager, boards, game, chat, gone, begun, lost, flaws>>

-----------------------------------------------------------------------------
(* The plugins are started, in any order, once the game is ready and after *)
(* a reconnection; it may have ended, or the link be out, again by then.   *)
Start ==
  /\ At(Starter, "idle")
  /\ starts < bound.starts
  /\ starts' = starts + 1
  /\ todo' = Plugin
  /\ Goto(Starter, "next")
  /\ UNCHANGED <<map, manager, boards, game, chat, mine, gone, history>>

StartNext(p, l) ==
  /\ At(Starter, "next")
  /\ p \in todo
  /\ todo' = todo \ {p}
  /\ Goto(Starter, l)

(* clearTrigger: the game lists its triggers, if it runs and is not slow,  *)
(* and all of them are removed, whatever the map says.                     *)
ListObjectives(listed) ==
  /\ gone' = [gone EXCEPT ![Starter] = listed]
  /\ StartNext("ScoreboardCore", IF listed = {} THEN "next" ELSE "remove")

List ==
  /\ ~starved
  /\ \/ /\ Obeyed
        /\ ListObjectives(objective)
        /\ tidy' = IF objective = {} THEN "yes" ELSE IF tidy = "no" THEN "listed" ELSE tidy
     \/ ListObjectives({}) /\ UNCHANGED tidy
  /\ UNCHANGED <<map, manager, boards, objective, enabled, board, up, stops, chat,
                 mine, starts, history>>

(* Mutant: what is listed is not removed.                                  *)
ClearUntidy ==
  /\ At(Starter, "remove")
  /\ ~starved
  /\ gone' = [gone EXCEPT ![Starter] = {}]
  /\ tidy' = IF tidy = "listed" THEN "yes" ELSE tidy
  /\ Goto(Starter, "next")
  /\ UNCHANGED <<map, manager, boards, objective, enabled, board, up, stops, chat,
                 mine, begun, history>>

Clear ==
  /\ At(Starter, "remove")
  /\ RemoveObjectives(Starter)
  /\ tidy' = IF tidy = "listed" THEN "yes" ELSE tidy
  /\ lost' = IF Obeyed THEN lost \cup (gone[Starter] \ {0}) ELSE lost
  /\ Goto(Starter, "next")
  /\ UNCHANGED <<map, manager, boards, board, up, stops, chat, mine, begun, fires,
                 flaws>>

(* EnsureScoreboard of BackPlugin: once made the board is taken to exist.  *)
Ensure ==
  /\ ~lock
  /\ StartNext("BackPlugin", IF scorelist THEN "next" ELSE "board")
  /\ UNCHANGED <<map, manager, boards, game, chat, mine, gone, starts, history>>

AddBoard ==
  /\ At(Starter, "board")
  /\ ~starved
  /\ board' = (board \/ Obeyed)
  /\ flaws' = IF Obeyed THEN flaws ELSE flaws \cup {"unmade"}
  /\ Goto(Starter, "append")
  /\ UNCHANGED <<map, manager, boards, objective, enabled, up, tidy, stops, chat,
                 mine, gone, begun, fires, lost>>

(* requestSync arms the timer of syncScore.                                *)
AppendBoard ==
  /\ At(Starter, "append")
  /\ ~lock
  /\ scorelist' = TRUE
  /\ sync' = "armed"
  /\ Goto(Starter, "next")
  /\ UNCHANGED <<map, manager, lock, game, chat, mine, gone, begun, history>>

StartsEnd ==
  /\ At(Starter, "next")
  /\ todo = {}
  /\ Goto(Starter, "idle")
  /\ UNCHANGED <<map, manager, boards, game, chat, mine, gone, begun, history>>

(* syncScore: if the game lists players, their scores are asked for with   *)
(* the lock kept over the commands.                                        *)
SyncPlayers ==
  /\ sync = "armed"
  /\ ~starved
  /\ \/ sync' = "none" /\ UNCHANGED lock
     \/ Obeyed /\ ~lock /\ sync' = "scores" /\ lock' = TRUE
  /\ UNCHANGED <<map, manager, scorelist, game, chat, pc, mine, gone, begun, history>>

(* Mutant: the lock is not given back.                                     *)
SyncScoresLocked ==
  /\ sync = "scores"
  /\ ~starved
  /\ sync' = "none"
  /\ UNCHANGED <<map, manager, scorelist, lock, game, chat, pc, mine, gone, begun,
                 history>>

SyncScores ==
  /\ sync = "scores"
  /\ ~starved
  /\ sync' = "none"
  /\ lock' = FALSE
  /\ UNCHANGED <<map, manager, scorelist, game, chat, pc, mine, gone, begun, history>>

-----------------------------------------------------------------------------
(* An hour has passed since some of the registrations.                     *)
Age ==
  /\ \E b \in Trigger : old < b /\ b <= count /\ old' = b
  /\ UNCHANGED <<trigger, count, manager, boards, game, chat, pc, mine, gone, begun,
                 history>>

(* The game stops, and with the connections of players their chat ends.    *)
Stop ==
  /\ up
  /\ stops < bound.stops
  /\ stops' = stops + 1
  /\ up' = FALSE
  /\ tidy' = "no"
  /\ shown' = {}
  /\ UNCHANGED <<map, manager, boards, objective, enabled, board, clicked, clicks, pc,
                 mine, gone, begun, history>>

(* It starts again, maybe with another world: an older one, or a new one.  *)
Boot ==
  /\ ~up
  /\ up' = TRUE
  /\ \/ UNCHANGED <<objective, enabled, board, lost, flaws>>
     \/ /\ \E old_objectives \in {{}, 0..count} : objective' = old_objectives
        /\ enabled' = {}
        /\ board' = FALSE
        /\ lost' = lost \cup 1..count
        /\ flaws' = flaws \cup {"replaced"}
  /\ UNCHANGED <<map, manager, boards, tidy, stops, chat, pc, mine, gone, begun,
                 fires>>

(* The link to the manager breaks, and the daemon logs in again.           *)
Disconnect ==
  /\ "disconnect" \in bound.incidents
  /\ link
  /\ link' = FALSE
  /\ tidy' = "no"
  /\ UNCHANGED <<map, starved, boards, objective, enabled, board, up, stops, chat, pc,
                 mine, gone, begun, history>>

Login ==
  /\ ~link
  /\ link' = TRUE
  /\ UNCHANGED <<map, starved, boards, game, chat, pc, mine, gone, begun, history>>

(* The answer of a command never comes; Pause of the processor ends it.    *)
Starve ==
  /\ "starve" \in bound.incidents
  /\ starved' = TRUE
  /\ UNCHANGED <<map, link, boards, game, chat, pc, mine, gone, begun, history>>

EndCommand ==
  /\ starved
  /\ starved' = FALSE
  /\ UNCHANGED <<map, link, boards, game, chat, pc, mine, gone, begun, history>>

-----------------------------------------------------------------------------
SenderStep(t) == Clean(t) \/ Remove(t) \/ Insert(t) \/ Add(t) \/ Show(t)

ReaderStep == Lookup \/ Enable \/ Fire \/ Clean(Reader) \/ Remove(Reader)

StarterStep ==
  \/ List \/ Clear \/ Ensure \/ AddBoard \/ AppendBoard \/ StartsEnd

SyncStep == SyncPlayers \/ SyncScores

Step ==
  \/ \E t \in Sender : Tellraw(t) \/ SenderStep(t)
  \/ \E b \in Trigger : Click(b)
  \/ ReaderStep \/ Start \/ StarterStep \/ SyncStep
  \/ Age \/ Stop \/ Boot
  \/ Disconnect \/ Login \/ Starve \/ EndCommand

Next == Step /\ UNCHANGED bound

Spec == Init /\ [][Next]_vars

(* Goroutines run, and commands are answered while none starves the rest.  *)
Fairness == /\ WF_vars(ReaderStep /\ UNCHANGED bound)
            /\ WF_vars(SyncStep /\ UNCHANGED bound)

FairSpec == Spec /\ Fairness

-----------------------------------------------------------------------------
(* A button the player sees works, or works again as soon as the line of   *)
(* the last click has been dealt with, unless a command about it was in    *)
(* vain, that line was lost, or Start has removed its objective.  It is    *)
(* forgotten only after an hour, or for MaxCount newer ones.               *)
Handled(b) == \/ \E i \in 1..Len(clicked) : clicked[i] = b
              \/ At(Reader, "enable") /\ mine[Reader] = b

Forgotten(b) == b <= old \/ Cardinality({c \in Trigger : b < c /\ c <= count}) >= MaxCount

ButtonsWork ==
  \A b \in shown :
    IF b \in trigger THEN b \in enabled \/ Handled(b) \/ b \in lost
    ELSE Forgotten(b)

(* Once Start has cleared up, the game keeps no trigger but those of the   *)
(* map and those somebody is about to remove, until the game ends or the   *)
(* link breaks, when a removal may be in vain.  The exception is a trigger *)
(* that was cleaned up, as one of too many or too old, before the command  *)
(* that makes its objective was run.                                       *)
NothingLeaks ==
  (tidy = "yes" /\ "outrun" \notin flaws) =>
    objective \subseteq trigger \cup UNION {gone[t] : t \in Thread}

(* The board of deaths is in the game if it counts as made, unless the     *)
(* game was down or the link out when it was to be, or the game has had    *)
(* another world since.                                                    *)
BoardExists == (scorelist /\ flaws \cap {"unmade", "replaced"} = {}) => board

(* What the daemon believes of the objectives of the game is so.           *)
GameAgrees == NothingLeaks /\ BoardExists

(* Every click whose line reaches the daemon is answered by its callback,  *)
(* so that none is outstanding, unless the trigger has gone, or some       *)
(* command waits for its answer for ever, or another one again and again.  *)
ClicksAnswered == []<>(starved \/ \A b \in trigger : fires[b] >= clicks[b])
=============================================================================
