# A TLA+ model of the Minecraft plugin server

The repository is a daemon, in Go, that adds commands and automation to a Minecraft server by
reading its log and typing on its console. Two programs make it up: a **game manager**
(`core/gamemanager`), which owns the server process and speaks gRPC, and a **daemon**
(`main.go`, `core`, `plugins`), which holds the plugins and is a client of the manager. Several
daemons, or a daemon and its REPL, may use one manager at the same time.

The interesting part is concurrency. Neither program has a main loop: RPC handlers, timers,
connection callbacks, message streams, every command of a player and every click on a chat button
run in goroutines of their own, share fields that are guarded by narrow locks or by none, and wait
for each other through channels and mutexes without a timeout. There are no tests in the
repository. This directory models those interactions, checks them with TLC and proves the safety of
every modelled component with TLAPS.

`PROJECT.json` relates every definition to the lines it models, and lists the runs, the mutants
that show each property can fail, the hazards, the findings and the theorems.

## The system

| component | source | state | operations | talks to |
|---|---|---|---|---|
| write lock | `gamemanager.go` 58-147, 333-367 | `mutex`, `lockedClient`, `clientLock`, `time` | RPCs Lock, Unlock, Write; expiry; end of a connection | clients by gRPC |
| game process | `gamemanager.go` 244-306, 418-449 | `minecraftInstance` (state, process, pty), `messageBus` | RPCs Start and Stop, `stopDetect`, SIGTERM timer | the Minecraft process, message streams |
| log forwarding | `gamemanager.go` 149-242, 308-331; `core.go` 100-260 | forward channels, `forwardWorker` flag, streams | read the log, fan it out, resubscribe | command processor, other log processors |
| command processor | `command.go` | `queue`, `responeReceivers`, `cleanSignal`, `commandBuffer`, end timer | `RunCommand`, `Worker`, log processor (pump), `Pause` | write lock, log, error handler |
| plugin manager | `core.go`, `main.go` | map of plugins, `inited` and `started` of each, `minecraftState`, `errorBus` | `RegisterPlugin`, `Init`, `StartMinecraft`, `errorHandler`, `pluginStart`, `pluginPause` | everything in the daemon |
| player data | `playerinfo.go` | map of players, one lock each, one JSON file each | Get, Commit, Load, extra data, positions | command processor |
| triggers | `scoreboard.go` | triggers, their expiry, scores waiting for a sync | register, fire, clear, synchronise | command processor, log |
| rollback | `backup_rollback_*.go` | `rollbackPending`; timer, ticker, lock of a request | Start, confirm, cancel, timeout, Execute | plugin manager, backup |
| backup | `backup.go` | `backupLock`, directories of backups | scheduled and manual backup, retention, lists | rollback |
| status monitor | `status.go` | worker, samples | Start, Pause, sampling | command processor, RPC |
| teleport, home, back | `teleport*.go`, `home.go`, `back.go` | requests, homes, last places | commands of players | player data, command processor |
| support | `simplecommand.go`, `tellraw*.go`, `worldname.go`, `baseplugin.go`, `repl.go` | none to speak of | parsing, formatting, forwarding | |

What makes each correct:

* *Write lock*: one holder; nobody else ends a hold; every hold ends; every waiter is served.
* *Game process*: `state` tells the truth; one game; a Stop stops the game it was meant for; the
  end of a game is noticed.
* *Command processor*: one response per command, its own, in order and whole; nobody waits for ever.
* *Plugin manager*: a plugin is initialised after what it depends on, started after that, started
  again after a reconnection; error handling ends.
* *Rollback*: files are replaced only while nobody uses them; a cancelled rollback does not happen;
  a request does not block the next one for ever.
* *Log forwarding*: each client sees the lines it does not miss in order and without gaps; a new game is
  read; a daemon learns that the game has stopped.
* *Player data*: what was reported as saved is what a restart loads; every command ends.
* *Homes and teleports*: what a player was told is so; no dereference of an unknown position.
* *Backup*: what was reported is whole and kept; a rollback restores a whole world; a list can be read
  to its end; every version of a player's data that is recorded is backed up.
* *Triggers*: a button works until it is forgotten; game and daemon agree on what exists.
* *Status monitor*: one worker while the plugin is started, none while it is paused.

Hard behaviours, that is where tests would hardly reach: assignments that land outside the lock that
guards the same field elsewhere (`gamemanager.go:97`), timers nobody stops (`gamemanager.go:440`),
sends on unbuffered channels with a lock held (`command.go:195`), checks and sets without a lock
(`gamemanager.go:269`, `core.go:67`, `backup_rollback_world.go:52-63`), an RWMutex whose waiting
writer keeps readers out (`core.go:291`, `playerinfo.go:146`), fields that hold a channel and are read
anew each time round a loop, after they may have been replaced (`core.go:173`, `backup.go:527`,
`status.go:413`), a file that is truncated and then written (`playerinfo.go:455`), results that arrive
after their requester has given up.
Section "hazards" of `PROJECT.json` lists them one by one.

## Modules

| module | models | composed with |
|---|---|---|
| `AbstractLock` | what the write lock promises | refined by `WriteLock` |
| `WriteLock` | write lock and the RPCs as far as they use it | `INSTANCE AbstractLock` |
| `GameManagerProofs` | theorems about `WriteLock` and `LogForward` | |
| `CommandProcessor` | `command.go`, the log lines it sees, its view of lock and error handler | |
| `CoreProofs` | theorems about `CommandProcessor` and `PlayerStore` | |
| `PluginManager` | registration, initialisation, start, pause, reconnection; the command processor reduced to "a command waits for an answer" | |
| `PluginManagerProofs` | theorems about `PluginManager` | |
| `GameProcess` | Start, Stop, `stopDetect`, SIGTERM timer, reader of the log, message bus | |
| `GameProcessProofs` | theorems about `GameProcess` | |
| `LogForward` | a line, and the message of a stop, from the game through manager, stream and reconnections to log processors and `errorHandler` | |
| `Rollback` | both kinds of rollback, beside backups | |
| `RollbackProofs` | theorems about `Rollback` | |
| `Backup` | making, listing, cleaning up and restoring backups; player data and its watcher | |
| `BackupProofs` | theorems about `Backup` | |
| `PlayerStore` | records of players, their locks, the file | |
| `Homes` | `home`, `sethome`, `delhome`, `homelist`, `back`, `tp`, deaths, over an atomic `PlayerStore` | |
| `HomesProofs` | theorems about `Homes` | |
| `Scoreboard` | triggers behind buttons, the board of deaths | `MCRestart` |
| `RestartProofs` | theorems about `Scoreboard` and `StatusMonitor` | |
| `StatusMonitor` | Start and Pause of the monitor and its workers | `MCRestart` |
| `MC...` | instances for TLC | |

`GameManagerProofs`, `CoreProofs` and `RestartProofs` (and `MCRestart`) each extend two components that
have no state in common. The second of the two bears the name of its component in `LogSpec`, `storeVars`,
`MonitorTypeOK` and so on, where the first has `Spec`, `vars` and `TypeOK`.

One step of a model is what one goroutine does between two points where another can interfere: a
lock that is taken, a channel operation, an access to a field that the other side uses without a
lock, an RPC. Variables carry the names of the fields they stand for. A variable marked *history*
changes no behaviour, it remembers what a property needs; in the later modules the one called `flaws`
(`faults` in `StatusMonitor`) remembers which of the named exceptions below have happened. A variable `bound`, `bounds` or `daemon` is
chosen in the initial state and never changes: it lets one run look at several small instances. Durations
are abstracted everywhere: an armed timer may fire at any moment.

### WriteLock

`mutex`, `lockedClient`, `time` are the fields of the struct. `clientLock` says that an Unlock stands
between `time.Stop` and `time = nil`, the one place where a step of another goroutine (the
assignment of `time` in `WriteLock.Lock`, which is not guarded) can fall into that critical section;
all other critical sections are single steps. `expiring` counts callbacks that have fired and no
Stop can recall. Each handler goes through the lines of its RPC: `check` (Write looks at the
holder), `lock` (renew or queue), `mutex`, `own`, `arm` (assign the timer), `ctx` (Lock looks whether
its client has gone), `pty`, `unlock`. A client makes one call at a time, as the daemon does, and may
go on using its id after its connection was lost, since gRPC reconnects by itself.

### CommandProcessor

`pc` is the position of the Worker: take a request, `Lock`, install the receiver, `Write`, the
select (`receive`), clear the receiver, answer, `Unlock`. The goroutine that reads the log (`pump`)
first looks the receiver up and then sends, as the code does, so a line can go to a channel that is
abandoned by then. `receiverLock` is in the guards: a Pause that is sending holds it for reading
(`pauser`), a Worker at `install` or `clear` wants it for writing, and a waiting writer keeps the
pump out. Log lines are abstracted to what the code distinguishes: a message of the server, one that
matches the awaited expression, a continuation line without prefix, anything else.

### PluginManager

Three kinds of goroutine walk over the map of plugins: `Main`, one `Starter` for each call of
`StartMinecraft`, and `Handler` for `errorHandler`. `readers` and the writer at `lock` are
`pluginLock`; `inited`, `started`, `running` (`minecraftState`) are written without it. Plugins are
visited in any order, as Go's `range` over a map does. `command` is the command the Worker is at,
`queue` who waits for a command; `streams` are message streams of which a reconnection adds one more.
While the link is out the lock of the manager cannot be had, so a command is answered at once with
nothing (`FailCommand`) and a starter goes on to start plugins. A command that has been written and
whose answer is lost, since game or link ended meanwhile, is waited for until a Pause ends it.
Left out: registering a name twice and an `Init` that returns an error, which nothing in the
repository does.

### GameProcess

Games are numbered in the order in which they are created, and the number names their pipes too. The
handlers of Start and Stop, one detector and at most one reader for each Start, and `timers` (SIGTERM
timers that have not fired) work on `state`, `process`, `pty` and the flag `forwardWorker` line by line.
The bus with its limited capacity is there because a full one blocks Start and `stopDetect`.

### LogForward

A stream is the number of its opening; with it come its forward channel (`forward`), what gRPC has under
way (`wire`) and the goroutine of the daemon that was started for it (`worker`). `current` is the field
`messageBus.client`, which each of these goroutines loads anew before it receives. `bus` is the one
message of a stop, which whichever stream takes first. A break of the connection ends in `dead`
streams that the manager notices late; `errors` is `errBus`. A send with `default` (`Offer`) drops when
full. The goroutines of the reconnection call `StartMinecraft`, which may fail, and then log in again.

### PlayerStore

`at` is the position of a goroutine. It goes through `GetPlayerInfo` (look up, insert, wait for the lock of the record, ask the
game, look the UUID up under `uuidMapLock`) and then may change the record and `Commit` it: read lock
of the record, of the map of players and of the map of UUIDs, marshal each record under its lock,
truncate, write. `lock` counts readers and names writers; a waiting writer keeps new readers out, as
`sync.RWMutex` does. The content of a record is a version, the file is readable or empty. A crash may
come at any point; the next start loads the file.

### Homes

Looking up and committing are one step each here, and what remains is what commands share without a
lock: the position and the last position of a record, and the map of homes, which is text until
the first `GetExtra` decodes it and puts its own map into the record. Maps are numbered (`heap`), so
that two goroutines may hold two. `meant` is what the player was told. A query of a position may
fail and leaves nil (`Nowhere`); a dereference of it ends the daemon (`died`). Each of the three ways
to die is accounted for by a part of `PanicIsExplained` (`PositionLost`, `TargetWithout`, `MapInUse`).

### Backup

Backups are numbered as they are made (`made` is how many), `modified` ranks them by time of
modification, `disk` are those that exist, `holds` is what is in each: nothing, a part, or all of a
world. The list of the code is the directories sorted by that rank (`BackupList`); cleaning up removes
the ones with `Keep` or more modified later (`Beyond`). Makers go by `mkdir`, `TryLock`, copy and clean-up; a rollback picks
an existing backup, locks, wipes the world, copies and starts the game, at any distance in time. `page`
is what one player sees of a list; the buttons are offered as `showList` computes them. Versions of a
player's data are their times of modification: `extra` is the recorded one, `dirs` those that are in a
backup. The worker of each Start waits for the watcher the field `fswatcher` holds at that moment.

### Scoreboard

`trigger` is the map of the daemon, `objective` what the game has, `enabled` what the player may use,
and `shown` the buttons in the chat. A command has its effect if the game is up and the daemon has its
link to the manager (`Obeyed`); otherwise it is answered at once and in vain. An answer may be empty
because the game was slow, and while the Worker waits for an answer that is lost (`starved`), all other
commands wait behind it. The line of a click may be lost on its way: a channel is full, the link is
out. Triggers are numbered in the order of registration; 0
stands for what an earlier daemon has left. `Age` declares some of them older than an hour. `lock` is
kept by `syncScore` over its commands; everybody else releases it within a step.

### StatusMonitor

Call `w` of Start launches worker `w`, which makes channel `w` and stores it in `monitorStop`. `on` is the
channel a worker has read from that field for the select it is in, `signal` the channels that hold a
value. `tps` is the command the tests have found, and an unanswered test counts as success, as an
empty answer does not match "Unknown or incomplete command".

### Rollback

`start`, `pc` and `exec` are the positions of the goroutine that makes a request, of those inside
`Comfirm` or `Abort`, and of `Execute`. `cancel` and `comfirm` are the timer and the ticker; both may
still be nil. A stopped ticker leaves `Execute` waiting for ever, as in the code. Both kinds of
request are one module, since their code is the same but for what `Execute` does after the countdown:
`World` goes by `lock, stop, remove, copy, boot, ready, clear`, `Playerdata` by `kick, copy, pardon,
clear`. The surroundings are those of the components above, reduced to what reaches a rollback: the game
may end, the `link` break, in which case Stop fails and "ban" and "pardon" are in vain, the answer of a
command get lost, which keeps every command of `Execute` waiting (`starved`) and with them the
readiness test of StartMinecraft, and a reconnection runs a StartMinecraft of its own (`restarting`),
which starts even a game that a rollback has stopped. `exposed` remembers the requests whose files an
accident of these has exposed, `cancelled` those reported as cancelled in time.

## Runs

Each passing run takes between a few seconds and four minutes with two workers.

| run | instance | checked |
|---|---|---|
| `write_lock` | 2 clients, 2 handlers, 2 calls | `MutexOwned`, `HoldExpires`, `HeldUntilExpiry`, `ImplementsLock`, `EveryCallReturns`, `LockBecomesFree` |
| `command` | 3 commands (one of each kind), channel capacity 1, 2 unasked log lines, 1 stop or disconnection | `AnswersInOrder`, `SignalMeetsItsCommand`, `LinesInOrder`, `ResponsesSound`, `EveryCommandAnswered` |
| `plugins` | 4 daemons of up to 4 plugins, with a failure, a stop, a disconnection, or both | `TypeOK`, `StartupOrder`, `NobodyMissed`, `ErrorsAreHandled` |
| `game_process` | 2 games, 2 handlers, 3 calls, bus of 1 | `TypeOK`, `StateIsTrue`, `PtyOutlivesGame`, `StopReturns`, `EndNoticed`, `GameIsRead` |
| `game_sigterm` | the same with 1 handler | `OnlyStoppedGamesSignalled` is **violated** |
| `logs` | 3 lines and 2 streams, or 1 line and 3 streams; 1 broken connection, channels of 1 or 2 | `LinesArrive`, `StopReported` |
| `store` | 2 goroutines, 2 players; 3 commands, or 2 and a crash | `SavedStaysSaved`, `EveryCommandEnds` |
| `homes` | 2 goroutines, 2 commands and a crash, or 3 and 3 without | `HomesAsTold`, `PanicIsExplained` |
| `backup` | 4 backups of which 2 are kept, with a rollback or with pages of 2; or 3 changes of player data | `ReportedIsKept`, `WorldRestored`, `PagesShowAll`, `RecordedIsKept`, `OneWorker` |
| `rollback` | 2 requests that collide (2 worlds, or a world and a player) with 1 goroutine that confirms and cancels; 1 request of either kind with 2 such goroutines, countdown 2 and all incidents | `FilesUnused`, `OneAtATime`, `CancelHolds`, `PendingEnds` |
| `rollback_cancel` | 1 request of each kind, countdown 1 | `CancelIsFinal` is **violated** |
| `restart` | 1 to 3 triggers, of which 1 is kept, with clicks, starts, a stop, broken links or lost answers; a monitor that is started twice | `ButtonsWork`, `GameAgrees`, `ClicksAnswered`, `MonitorSound` |

What each shows is in "about" of `PROJECT.json` and in the comment above each property. Several
properties are conjunctions of named parts, which the modules define one by one: `StateIsTrue`,
`StartupOrder`, `ErrorsAreHandled`, `ResponsesSound`, `FilesUnused`, `LinesArrive`, `GameAgrees`,
`MonitorSound`, `PanicIsExplained`. `TypeOK` of
every module documents the ranges of the variables; the runs list it where a bug of the code, such as a
message too many on a bus, would break it.

### Why the bounds are enough

* *Write lock.* Two calls inside the lock at once are what a late assignment of `time` needs; the
  second call may be of the same client (renewal) or of another (waiter); holds, renewals, expiries
  and lost connections all occur. The safety properties hold for any number, by proof.
* *Commands.* The interesting cases are a command, its predecessor's leftovers (lines, signal,
  channel) and its successor, hence three. Capacity 1 makes the channel full at once. One incident is
  what a single Pause needs; it may be a stop of the game or a broken connection, and the game may
  start again.
* *Plugins.* A cycle of dependencies (`info` and `tell` depend on each other and on themselves, as
  every plugin that embeds `BasePlugin` does, `baseplugin.go:43`), a plugin that is registered after
  `StartMinecraft` was launched, two overlapping starters, one plugin that blocks in its Start. The
  instances split what would be too large together: dependencies with a start that fails, a stop,
  a reconnection, and both of these in a daemon whose plugins run no command.
* *Game.* Two games are what an old timer, an old detector or an old Stop needs to hit the wrong one;
  three calls are Start, Stop, Start; two handlers overlap.
* *Rollback.* Two requests collide, two handlers confirm and cancel at once. Countdown 1 is enough
  for the collisions; the instances with 2 also take the branch that counts on. An incident may
  happen any number of times, since each is one bit of state, in every order with the steps of one
  rollback. Two requests amid incidents are left to the proofs: the invariants hold
  for any number of requests, handlers and incidents; `PendingEnds` is checked with two requests
  or with incidents.
* *Log.* A broken connection needs the old and the new stream; a third appears when `StartMinecraft`
  fails and the reconnection is repeated. Capacities of 1 and 2 make channels full after one or two
  messages, while a channel of 16384 would only be full much later. With two breaks and three streams
  a reconnection can fail and a later one succeed; that lines arrive then too is proved.
* *Store.* Both deadlocks and both lost updates need two goroutines; a second player makes the marshalling
  of a foreign record possible. Three commands let a goroutine go on after the accident.
* *Homes.* Two maps of one player need two commands; the third goroutine is another player's, or a
  death between the two. A crash loads homes as text again, which is what makes a second decoding.
* *Backup.* With 2 kept, the third and fourth backup clean up; 4 entries in pages of 2 have a last page
  with one entry, with two, and none. Three versions let a scan, a later event and a change in between
  differ. Two starts let a worker meet its successor.
* *Triggers.* One is kept, so that the second and third overflow, by two senders and after clicks.
  One trigger with two starts, a stop and a link that breaks again and again covers what Start
  clears, what it clears in vain, and a game with another world. Clicks that are repeated, behind
  answers that are lost, are looked at with one and two triggers.
* *Monitor.* Two starts: a worker that ends late meets the channel of its successor. Three starts (with
  a few million states) have been checked and show nothing more.

Deadlock is not checked, except for the write lock: in the other models a bounded environment
comes to its end, and real blocking is stated as liveness.

### Fairness

Weak fairness on each goroutine by itself, because Go's scheduler is preemptive and runs every
goroutine that can run; on timers, because they fire; on ends of connections that are lost, because TCP
or the default keepalive of gRPC reports them sooner or later. Strong fairness on taking a `sync.Mutex`
that others take and release again and again (`AcquireMutex`, `LockBackup`), because that mutex hands
itself to a waiter after one millisecond of starvation. On the outside world: a running game answers
the command `list` and obeys `stop` or SIGTERM, which is what the daemon itself waits for; a message
stream takes messages; a connection that has broken comes back, which the daemon retries for ever.
`Rollback` and `Scoreboard` assume less: a command returns unless the Worker waits for a lost answer,
and nothing makes that wait end, a link come back or a reconnection start the game. Their liveness
says so with `Starving` and `starved`. (`PendingEnds` and `ClicksAnswered` have the form `[]<>P`: requests and
clicks are finitely many in a run, so that "again and again nothing is pending", or outstanding, says that
each of them ends.)
Nothing forces a game to stop, a client to call, a player to confirm or to click, a connection to
break, or a daemon to crash. `Homes`, `Backup` and `StatusMonitor` are checked for safety alone.

### What the violated properties show

* `OnlyStoppedGamesSignalled`. The ten-second timer of Stop is not stopped when the game obeys, and
  reads the process when it fires. Stop, Start within ten seconds: the new game is sent SIGTERM.
* `CancelIsFinal`. A rollback past its countdown is still pending. "cancel" finds it, says that it is
  cancelled, and stops a ticker that has stopped already; the world is replaced all the same.

### Exceptions the passing properties name

They are as much a result as the properties: each names what the code does not exclude, and the
property shows that there is nothing else.

| module | exceptions |
|---|---|
| `CommandProcessor` | `Starved`: the Worker waits for a line that never comes. `PauseDeadlock`: Pause sends on the unbuffered `cleanSignal` with `receiverLock` held for reading, while the Worker, whose end timer has fired, has left the select and wants that lock for writing; both, and with them `errorHandler`, wait for ever. |
| `PluginManager` | `LockCycle`: `Main`, `errorHandler` and a starter wait for each other, the starter for an answer that is lost. `Hung`: such an answer is waited for and no stop or disconnection is left to be handled, whose Pause would end the wait. `panicked`: a plugin is started, by a StartMinecraft that overtakes `Main`, before its Init. |
| `GameProcess` | `raced`: two Starts pass the unlocked check together. `failed`: a Start fails and leaves the state "running". `overtaken`: a Start replaces the pty a Stop is about to close. `unread`: a Start finds the flag of a reader that is about to end. `tooLong`: a line longer than the scanner's buffer ends the reader. |
| `LogForward` | `full`: a channel drops. `swallowed`: a stream whose daemon has gone takes the message of the stop. `early`: the daemon does not listen yet. `deaf`: it receives from a stream that has ended. `failed`: `StartMinecraft` fails after a reconnection. `reopened`: after that, a stream is opened beside one that works or is still read. |
| `PlayerStore` | `stale`: of two commits the older snapshot is written last. `twice`: two lookups make two records of one player. `truncated`: a crash between truncation and write. The deadlocks `Reentry` (a read lock taken twice around a waiting writer) and `Inversion` (record and map of UUIDs in both orders). |
| `Homes` | `raced`: two commands of one player each make a map of homes. `failed`: a query for a position has failed and left nil. `TargetWithout`: "tp" across worlds to a player without a last place. `MapInUse`: two commands of a player, or one and a commit, use a map at a time. |
| `Rollback` | `raced`: two requests pass the check together, or a stale confirmation. `orphaned`: something else has cleared `rollbackPending`. `exposed`: the game could not be stopped, "ban" was in vain over a broken link, or the reconnection started the game, and the files are replaced all the same. A cancellation while a thread is inside `Comfirm` (between `TryLock` and the ticker) does not hold: the countdown begins after it. `Starving`: `Execute` waits behind an answer that is lost, for ever or again and again. `panicked`: a nil timer. |
| `Backup` | `silent`: `Copy` returns nil though files are missing. `untold`: a rollback to a backup that was not complete. `removed`: a backup is cleaned up that a rollback, the world wiped already, is to use. `crash`: between the record of a version and its copy. `overrun`: a Start before the last worker has ended. The single entry of a last page, which is never offered. |
| `Scoreboard` | `outrun`: a trigger is forgotten before its objective is made, which then stays. `unmade`: the board of deaths is requested while the game is down or the link out, and counts as made. `replaced`: the game starts with another world. `lost`: a command about a trigger was in vain, or the line of a click was lost, after which nobody enables it again; or Start, after a mere reconnection, has removed the objectives of buttons that players still see. `starved`: a click waits behind a command that waits for a lost answer. |
| `StatusMonitor` | `early`: a Pause before the worker has made its channel. `overlap`: a worker comes round its loop when its successor has made a channel, and is never told to end. `unanswered`: an empty answer is taken for a known command. |

## Proofs

TLAPS checks these for every value of the constants. The assumptions are those the modules
declare, and TLC evaluates each on an instance: nil is none of the clients, requests, plugins or positions;
capacities and bounds are naturals; every request has one of three kinds and none is the value that says
who else holds `backupLock`; there are finitely many senders; there is room for a record of each
player; a plugin depends on plugins of the core only, as `BasePlugin.Depends` and the core's own `Depends` have it.

For each component `IInv` (`LogIInv`, `StoreIInv`, `MonitorIInv`) is the inductive invariant, one lemma for each action shows that it is kept, and
the theorems follow from it. Where a step leaves alone a part of `IInv` that talks of other goroutines
("somebody will ..."), a frame lemma (`OwnersStay`, `CoreFirstStays`, `RoomStays` ...) says so once.

**GameManagerProofs: WriteLock.** `IInv` is the inductive invariant. `MutexOwned` and `HoldExpires` are not
inductive: an Unlock that has stopped the timer must still find the holder it compared
(`UnlockingHolds`), and a holder without a timer must be one whose call is about to arm it
(`NilTimerIsFresh`), or else a release could clear somebody else's timer. `HeldUntilExpiry` and the
panic need that a client with a sound connection makes one call at a time (`CallsInSequence`), and
the former also that no release other than an expiry is under way (`HeldOrExpired`). From `IInv`
follow `TypeCorrect`, `MutexIsOwned`, `EveryHoldExpires`, `LockIsKept` and `PanicIsRare` (a renewal of a nil timer
needs a lost connection; proved, and listed in no run). `Implementation`
shows step by step that the lock refines `AbstractLock`: the queue is the set of calls at `mutex` or
`own`, the grant is the assignment of `lockedClient`, the release is its reset.

**GameManagerProofs: LogForward.** `LogIInv` follows a line over the five places it passes: the forward
channel, the wire, the hand of the worker, the channel of the log processor, and what that has heard.
The lines in each rise, and those of a later place are below those of an earlier one and none above
the last one read (`Ordered`). That needs `OneWorks`: of all streams of a daemon only the last may
carry lines and only its own worker reads it, though every worker loads `messageBus.client` anew. It
holds since a stream is opened only after the former one has ended and its worker has reported that and
gone (`Reconnects`: the stream in `errBus`, or the one being reconnected, is the last, is dead and is
read by nobody any more), until `StartMinecraft` fails and the reconnection begins again, with a stream open.
For a daemon that has lost neither connection nor line, the lines under way and the next one to be
read are a range without gap (`Unbroken`). From `LogIInv` follows `LinesAlwaysArrive`, for any number of
lines, streams, daemons and breaks and for any capacities. The proof corrected the model: with two breaks
and three streams a new stream can be opened beside one that is dead but still read, so that the old
worker forwards a line of the new stream while it holds one of the old; that case too is `reopened`.

**CoreProofs: CommandProcessor.** `IInv` adds to the properties that the buffer is empty outside of a command
and never starts with a continuation line (`BufferStarts`), and that the end timer of a command that
waits for an expression runs only after a match (`TimerNeedsMatch`). Runs of the pump, of Pause and
of the environment leave all of this alone (`OthersLeaveWorker`), so each lemma about these looks at
`RunCommand` and the Worker only. `LinesInOrder` needs more (`WayInv`): nothing has been sent to the
channel of a request that was never installed (`Untouched`), or a late line of the pump would turn up
after younger ones; every stage a line passes, from the log to the responses, is in order and behind
the next (`InOrder`); and all lines bear numbers the game has given (`AllLogged`), or the next one
logged would not be the last. From these follow `TypeCorrect`, `ResponsesInOrder`,
`SignalsMeetTheirCommand`, `ResponsesAreSound` and `ResponsesQuoteTheLog`.

**CoreProofs: PlayerStore.** `StoreIInv` says, until one of the named exceptions has happened: one goroutine
at a time takes a snapshot and writes (`OneCommit`); who has a record has the one in the map
(`MineIsCurrent`); a record never falls behind what a goroutine has written into it (`WrittenHolds`) nor
what was reported as saved (`ToldHolds`), and so neither does the part of a snapshot that is
marshalled (`SnapshotCovers`), nor the file whenever it is not being written (`FileInv`). A crash
between truncation and write is the exception `truncated`; any other crash loads what `FileInv` promises.
From it follows `SavedChangesStay`, for any number of goroutines, players, records and crashes.

**GameProcessProofs.** That the state tells the truth is not inductive. It follows from an ownership:
from the moment a Start sets the state until a stopDetect sets it back, one Start or one stopDetect is at
work and never two (`OneAtWork`); each of them knows the process and the pty it works for
(`StartKnows`, `DetectorKnows`); and a game that is up belongs to one of them (`GamesOwned`). All of it
holds until two Starts pass the check together, and nothing is claimed after that. `StopKnows` (a Stop
that waits has a game, a timer has a process) holds in any case. From these follow `TypeCorrect`,
`StateTrue` and `PtyOutlives`.

**RollbackProofs.** `Structure` is what the locks give whatever races: the lock of a request is held from
its confirmation to the end of `Execute`, which is therefore started once (`Locked`), and the world is
replaced by the owner of `backupLock` (`Owner`). `PendingKnown` ties an `Execute` at work to the field
`pending` until requests or confirmations overlap; `Kept` says that what Stop and the ban have achieved
lasts until the files are copied, unless a reconnection, whose start of the game puts the request
among the `exposed`, comes between. That a cancelled request stays so is not inductive: it needs that no
thread still carries it to `Comfirm` and none will, because a thread finds it only while it is
pending, a request is pending only after its Start has set it, which happens once (`Begun`), and the
report of a cancellation comes after pending was cleared (`CancelKept`). From them follow
`OneRollback`, `NobodyUsesFiles` and `CancelIsKept`.

**RestartProofs: Scoreboard.** A button works because its trigger is in the map and, from `add` on, the objective
exists and is enabled or about to be (`MadeWork`); a trigger leaves the map only when it is old or
outnumbered, and then stays so (`Remembered`, with `ForgottenStays` about the number of newer ones, a
cardinality that only grows). `Known` and `Removing` account for the objectives that have left the map
and not yet the game, once a Start has listed them and until the game ends or the link breaks. `Room` counts the senders about to take a number. From these follow
`ButtonsAlwaysWork` and `GameAlwaysAgrees`. The counters of clicks and callbacks, which only the
liveness property looks at, are not part of it.

**RestartProofs: StatusMonitor.** `Counted` numbers the calls of Start. Until a Pause comes too early, a
worker without a channel is the last one of a plugin that is started, and otherwise `monitorStop` is the
channel of the last worker (`Sequential`). Until workers overlap as well, each worker waits on its own
channel, and exactly the workers that shall end have a signal in it or are about to be sent one
(`ToldToEnd`). From these follows `MonitorIsSound`, for any number of starts.

**PluginManagerProofs.** The hard part is `Attended`: while the game is known to run, a plugin has been
started, or is not initialised and Main will start it when it is, or errorHandler will launch a starter,
or some starter will come by it (`Will`). It needs to know how far Main is with the registration and
the map (`Counted`, `Visits`, `MainAt`), what is initialised (`InitsSound`, `InitsComplete`: Main, from its loop
over the map until the next registration, has initialised whatever can be), and that the game is found
ready through an initialised command processor only (`ReadyKnows`). The first starter is launched when the
core is initialised (`CoreFirst`). From these follow `TypeCorrect`, `StartsInOrder` and `NobodyIsMissed`.

**BackupProofs.** `IInv` has two parts that leave each other alone (`WorldStays`, `PlayerStays`). For the
backups of the world: each maker has a directory of its own (`OwnBackup`), makers, cleaners and
rollbacks past `TryLock` are the holder of `backupLock` (`Holders`), and each backup that cleaning up is
about to remove is older than `Keep` others that are not (`Outnumbered`), which is why a backup that was
reported stays until `Keep` newer ones are there, whatever is touched, made or wiped between (at the
start of a clean-up `Largest` picks the newest of those to be removed: what is newer than it stays);
and a rollback uses what was reported complete (`ToldOnly`) and is still there (`Restored`). For the
data of players: the goroutines and watchers are those of the Starts so far (`Launched`, `Watchers`,
`OneActive`), and every recorded version is backed up or about to be, unless `flaws` names why not
(`VersionsBacked`, with `NewestIsKept` about the clean-up). From these follow `ReportedAreKept`,
`WorldIsRestored`, `RecordedAreKept` and `OneIsAtWork`.

**HomesProofs.** That a player's homes are what was told is not inductive: it needs that two players
never share a map, in the records or in the hands of their commands (`OwnMaps`), and that, until two
commands of a player make a map at a time, one goroutine at most makes it, from what was told, and all
others use the map of the record (`OneMap`). A change that is not in the file belongs to a command
about to commit it (`Told`); a crash forgets exactly those. A nil position is accounted for by
following where it is read: who has asked for a position has one unless a query has failed since
(`Located`), and so has the place a command carries from one step to the next (`Placed`). A last place
that is nil although no query has failed is nil in the file too (`Filed`): nobody has given that
player one. From these
follow `HomesAreAsTold`, `PanicsAreExplained` and `TypeCorrect`.

Only model-checked: all liveness (fairness and ENABLED are beyond the prover); `PagesShowAll` of
`Backup`, which sorts a set into a sequence: a proof would be an induction over data; and the two
violated properties. Every other invariant and action property of the runs is a theorem.

## Not modelled

* *Without control a model could check*: the platform files (process attributes), the REPL, the
  generated RPC stubs and messages, the formatting of chat messages, world names, what the status
  monitor measures and announces, Status of the game manager, which only reads.
* *Player data*: that the file is opened without O_CREATE and must exist; the list of players and
  the way from a UUID to a name; the content of records beyond positions and homes.
* *Backup*: two backups with the same comment within one second, which share a directory; a copy that is
  torn because the game writes at the same time; the contents of files; that the removal of a world
  fails half-way, whose error the code ignores.
* *Rollback*: that a backup of player data, which takes no lock, may read the files while they are
  replaced (`FilesUnused` speaks of the game); a request whose backup does not exist.
* *Triggers*: the scores that are synchronised, which no plugin reads; `getOneScore`, `getAllScore`,
  `scoreAction` and the number of uses of a trigger, which no plugin sets; two triggers with one random
  name.
* *Status monitor*: a game whose commands change because another mod loader is installed.
* *Plugins*: registering a name twice and an `Init` that fails, neither of which happens here.

## Plan

All components with control of their own have a module, and their safety is proved. What is left is
`Homes` over the locks of `PlayerStore` instead of an atomic store, once a smaller state makes the
composition fit.
