# TLA+ verification of cryptd

cryptd is a text dungeon crawler: a daemon that runs games for clients over a
Unix or TCP socket. Passthrough clients call the rules directly as JSON-RPC
tools; normal clients type text, which an interpreter turns into commands and a
narrator turns back into prose. Beside it are the clients, a graphical display
mode and a generator of scenarios. This directory holds TLA+ models of them, the
TLC runs that check them, and TLAPS proofs of what matters most.

## The system

| Part | State | Operations | Correct when |
|---|---|---|---|
| `internal/engine` | none; works on `model.GameState` | move, items, combat, spells, level-ups, save, load | hit points bounded, turns pass to someone who can act, fights end, items conserved |
| `internal/daemon` dispatcher (`game.go`) | none | one handler per tool; enemies act and levels are checked before it answers | every handler leaves the fight on the hero's turn |
| `internal/game` loop | none | one handler per interpreted command; the same, with narration | the same |
| game goroutine (`game.go`) | engine and state, `commands` channel (capacity 1), `done` | `Send`, `RunLoop`, `Inspect`, `Stop` | no command lost, everybody waiting gets out |
| connection handler (`handler.go`, `play.go`) | its session | `session.init`, `game.new`, tool calls, game loop | a session's game survives; one owner per game |
| server (`daemon.go`) | registries of sessions and games, one mutex; the Unix socket | accept, register, shutdown | shutdown completes; one daemon behind the path |
| RPC renderer (`rpcrenderer.go`) | event channel (capacity 1), `lastID` | reader goroutine, `Render` | requests answered in order, under their IDs |
| `internal/save`, `engine/save.go` | files shared by all games of a user | save, load | a load of a slot left alone returns its last save; never half a save or another scenario's |
| clients (`cmd/crypt`) | menus, waiting flag, the connection | line interface, terminal UI, MCP proxy, `dialOrStart` | an answer goes to its request; nobody waits for ever |
| Lux display (`internal/lux`, `renderer/lux*.go`) | two channels of the client, buffered text, events | `Render`, `waitAck`, `readLoop`, `eventLoop`, `Close` | the screen shows the game, input is what the user did |
| scenario generator (`internal/scengen`) | topology, graph, SQL store, output directory | walk, corridors, directions, visitors, export | the dungeon is the tree, and loads; the old one is not lost |
| interpreter, narrator, parsers, wire format, other renderers, tools | see PROJECT.json | | |

Connections are goroutines; each game is a goroutine that owns its state and
takes one command at a time. They meet in the registries, in the channels and
in `oldGame.Stop()`, which runs in a goroutine of its own. A session outlives its
connections, several connections may present the same session ID, and a dead
hero's game is still there when the client comes back. Outside the daemon, games
of several daemons share one save directory and one socket path; a client pairs
requests and answers by their order alone, while the daemon sometimes sends a line
nobody asked for; the Lux display has three goroutines and three bounded channels.
These are the places where tests hardly reach; PROJECT.json lists them as hazards,
with the line and the property that watches each.

## Modules

* **Rules** – `internal/engine` as operators on four values: hero, pack, dungeon,
  combat. Each Go method is a guard (its early returns) and an operator giving the
  new value. Dice are sets of results, items a multiset of types, a turn order a
  bijection between positions and combatants (0 is the hero). What the code
  obtains from scenario files and class tables is CONSTANT, with the assumptions
  `WorldAssumption`, `EnemyAssumption`, `ItemAssumption`, `SpellAssumption`,
  `ClassAssumption`. They are what `scenario.Validate` checks (references
  from rooms to rooms and enemies), what a file and the class tables are (finitely many
  rooms and items, thresholds that rise), and what nothing checks but every shipped
  scenario keeps: items in rooms are defined, weights, defences and spell costs are not
  negative, and an enemy has hit points. Weights are `float64` in the code and
  multiples of one unit, so naturals, here.
* **Play** – one game: the state of Rules, the save slots, and the commands of both
  drivers. A handler that ends in the enemies' turns or the level-up loop takes
  several steps (`pc`, `driver`, `iter` are the loop it is in); no other command is
  accepted until it returns, exactly as in the game goroutine. `hero.wonXP` is a
  history variable. Rejected commands change nothing and are not steps.
* **Sessions** – the daemon's goroutines. `conn[c]` is the handler of connection
  c (program counter, session, and the local variables of the request), `game[g]`
  the goroutine and channel of game g. A step is what happens between two points
  where another goroutine can interfere: a section under `Server.mu`, a send, a
  receive, a `close`. Send, RunLoop and Inspect share one pair of selects
  (`SendCommand`/`SendPanics`/`GiveUp`, then `TakeReply`/`GiveUp`). Engine panics,
  client hang-ups, notifications (requests without ID) and shutdown can come at
  any time.
* **RPCRenderer** – one run of the game loop over a connection: client, reader
  goroutine, event channel, `lastID`, loop, final response.
* **SlotStore** – what save slots promise: registers whose saves and loads take time.
  A load of a sound slot (its last save ran alone and to its end) returns the last save if
  no save overlaps the load; the last, the new one or nothing if one does; anything that
  passes for a state of its own scenario if more do, or if the slot was not sound.
* **Saves** – the files. `os.WriteFile` is an open that truncates and then a write of
  the whole document (or of its beginning, when the disk is full or the process
  dies); `os.ReadFile` opens the file, makes room for its size and one piece more, and
  reads until nothing is left, with a larger buffer whenever it is full. A document is a
  sequence of pieces; nothing in a piece tells whose it is, and `json.Unmarshal` accepts
  whatever is the document of some state, a mixture of two saves too. All that is
  assumed of documents is that none begins another, since an object ends with its
  closing brace. One read(2) or write(2) is atomic, as it is on a local file system.
  Saves implements SlotStore: `Store` maps the last save that ended well to the
  register (`last`, `sound`, `seen` and `saves` are history variables).
* **Host** – composes Saves with the life of the daemons (start, clear the path,
  listen, chmod, SIGTERM, exit, crash) and with clients in `dialOrStart`. A daemon's
  games act while it serves or drains and die with it.
* **Client** – `cmd/crypt` on one connection as terminal UI, line interface or MCP
  proxy, and the daemon's end of that connection (what Sessions and RPCRenderer
  answer, seen from outside). `calls` are goroutines in `send`, `msgs` the bubbletea
  messages on their way, taken in any order.
* **Lux** – `serve --lux`: loop, renderer, the display's event goroutine, the client's
  reader goroutine, the socket; the Lux server and its user are external. A scene is
  room, fight and the number of the call that drew it.
* **Scengen** – `crypt-admin generate` and `export`, from the directory tree through
  `insertHubs` (one action per directory it splits, in any order of Go's map),
  `assignDirections` (one action per neighbour of the room at the head of the queue),
  `Graph.Validate`, the store and the visitors to the swap of the output directory, and
  again after errors and crashes. A slice of raw edges is a set of edges that carry
  their places. `Dungeon`, `Host` and `Ahead` are the reference definition of what a
  tree becomes, independent of any order: its rooms, what each hangs on, and the order
  among the children of a room.
* **MCPlay**, **MCSessions**, **MCHost**, **MCScengen** – small worlds for TLC (Client,
  Lux and RPCRenderer are run directly).
* **Inductions** – lemmas about the naturals, induction and sums that the proofs share.
* **PlayProofs**, **HostProofs** (Saves and Host), **RPCRendererProofs**,
  **SessionsProofs**, **ClientProofs**, **LuxProofs**, **ScengenProofs** – theorems.

Operators whose comment begins with "Mutant" are deliberately wrong variants of the
definition below them. Nothing uses them; replacing the definition by its mutant
must make TLC report the property PROJECT.json names.

## Runs

| Run | Question | Bounds |
|---|---|---|
| `play_daemon` | passthrough play: safety and termination of every handler | one wolf (cautious) and one rat, 4 hit points, 3 magic points, a potion, mail, two spells, 8 experience |
| `play_loop` | every victory of the text loop is paid in levels, also after a death | as above, with a sword instead of the mail |
| `play_store` | both drivers on one game, save and load in the middle of anything: carry limit, no item lost or doubled | one slot, one wolf, a potion and a mail that together exceed the carry limit |
| `loop_stuck` | (violation) can a living hero always do something? | two rats, one potion |
| `sessions_shared` | registry and channel discipline | two connections, one session, two games |
| `sessions_live` | calls return and shutdown completes, also for games that are dropped, refused or panic, in both modes | two connections, one game |
| `renderer_pipelined` | order, IDs, reader's end | four requests, two lines in flight, resumed |
| `client_play` | answers go to their requests, one command at a time, waits end | three interfaces, three acts of the player, a pool of one point |
| `lux_display` | screen and game agree, acks belong, no input invented, closing returns | two rooms, channels of 2, 1 and 1, three interactions |
| `host_crash` | what slots hold and loads return after and beside crashes, full disks and rivals; the socket is found again | two daemons with a game each, one client, one slot, four states in two scenarios, documents of 2 and 3 pieces that share pieces |
| `scengen_trees` | which trees work, directions as planned, the old output kept | 117 shapes of up to 11, 10 and 10 subdirectories and chains of depth 4; content for graphs of up to 8 rooms, one spawn |
| `hubs_overflow` | (violation) does every chain of corridors fit? | up to 11 subdirectories |

The worlds are scaled so that death, revival, a flight at 30%, a kill worth two
levels, a pack at its limit and a lone survivor all happen within a few commands; two
enemies are enough for a round to be interrupted between them. Two connections and
two games are what every race found here needs: one that replaces a game and
one that still uses it. A document longer and one shorter than the one before are
what it takes for a rest of the old save to survive an overwrite. In `host_crash` the
beginning of one document and the rest of another are the document of a third state, and
the smallest buffer of a read (`MinRoom`, 512 bytes in Go) is shorter than a document, so
both ways to a mixture are there: two writers of one file, and a read in several parts.
One cut between the differences of two documents is what either takes, so two pieces
are as good as thousands of bytes. Capacities of 1 and
2 fill with three interactions; the code's 16 and 64 differ in how many are needed.
Three acts let a second key press overtake the answer to the first, with one to
spare. 4, 5, 9 and 10 subdirectories are where `insertHubs` changes its behaviour.

`MaxXP`, `MaxGames`, `MaxRequests`, `MaxInFlight`, `MaxActs`, `MaxSaid`, `MaxSpawns` and
`MaxRooms` are the only bounds in guards; once `MaxGames` games exist, `game.new` still
drops the old game and then fails, the way it does when no ID can be generated.
`CHECK_DEADLOCK FALSE` stands where the system may stop: after shutdown, after the
loop is over, when the client or the process has exited, when every daemon has run
once, when the generator has failed, and in `loop_stuck` and `play_loop`, where a dead
hero has no command left.

**Fairness.** Play: the running handler keeps running (`WF(HandlerStep)`); it is
straight-line Go code. Sessions: each handler, game goroutine and `go Stop()` keeps
running while it can (`WF`), and a send that becomes possible again and again
happens (`SF(SendCommand)`), because the Go runtime serves goroutines blocked on
a channel in order of arrival; without it TLC finds a handler starved by another
connection's calls. RPCRenderer: reader, loop and handler keep running. Client:
goroutines in `send` run, the event loop takes messages, the daemon answers. Lux:
the loop (whose wait for an ack has a timer), the reader and the event goroutine run.
Players, users, the Lux server and whoever stops a daemon owe nothing anywhere.

## What the newer runs show

* **Saves.** A load of a slot whose last save ran alone and to its end returns that
  save, or that save, the new one or an error if one save overlaps the load; and no load
  returns half a save or another scenario's state (`ImplementsStore`). That one
  overlapping save cannot be mixed with the old one is due to the size that `ReadFile`
  asks for first: the file as it was fits in one read (mutant `LookSmall`). With two saves
  beside the load, or after overlapping or cut-off saves, a load may return a mixture
  (see below). Nor is the slot promised: `SlotHoldsLastSave` holds as
  long as the last save of the slot ran alone and was not cut off. An orderly shutdown
  cuts off a save too, because it does not wait for the game goroutines, and there is no
  old copy to fall back on.
* **Socket.** A daemon that runs alone gets its socket whatever a crash has left
  (`ServesAlone`). A second daemon takes the path from a running one, and the first
  unlinks it from the second when it stops.
* **Lux.** The recorded first error ends the game, and that is what makes the protocol
  sound: acks carry no numbers, and a loop that went on after a timeout would take a late ack for
  the next call's (`AcksBelong`, mutant `TimeoutForgiven`). `EventsFaithful` allows
  dropped interactions, never invented or repeated ones.
* **Clients.** Answers and requests stay paired although the client has only their
  order (`AnswersPaired`), because the unsolicited line of a resumed game is read at the
  start. `WaitEnds` names the three ways in which the code waits for ever.
* **Generator.** `NineFit` is exact: generation fails for want of directions if and
  only if some directory holds more than nine others. The iteration order of Go's map
  cannot be seen in the result (`DirectionsAsPlanned`).

## Disagreements between code and documentation

Two runs expect a violation; the findings in PROJECT.json quote the text.

* `loop_stuck` – the loop leaves a round when the hero dies; revived by a potion
  after a reconnect, the hero is alive in a fight where nobody can act.
* `hubs_overflow` – a corridor in the middle of a chain gets one child more than the
  test's "no parent has >maxChildrenPerNode children" allows; ten subdirectories
  make the generator fail.

Others were met while modelling; the models follow the code, and the properties are
stated so that they delimit them.

* No level-up check when the last enemy flees in passthrough mode
  (`daemon/game.go:854`; `docs/gameplay.tex:230`): `VictoryLevels` is about the loop.
* A failed `game.new` leaves the session bound to a dropped game (`handler.go:294`;
  `session.go:13`), and two simultaneous ones leave a game nobody owns (`handler.go:328`;
  `docs/architecture.tex:440`).
* A response can carry the previous or the next request's ID (`rpcrenderer.go:137`, against
  the comment above it); `AnswersAlmostMatch` says it is never off by more than one.
* `Game.Send` (`game.go:178`, "Safe to call from any goroutine") can hit a channel that
  another connection's `game.new` has just closed: action `SendPanics`, whose
  consequences the session runs check.
* A second `session.init` without a mode takes a session out of passthrough, though
  `handler.go:131` says it "stays in passthrough for its lifetime".
* The Lux reader drains a full channel "to prevent readLoop deadlock"
  (`lux/client.go:217`), but blocks in the drain if the consumer was faster; `CloseReturns`
  excepts a run in which a channel has been full (`overran`).
* `WriteYAMLDir` "renames atomically on success to avoid leaving partial output on
  failure" (`scengen/export.go:68`): a failure or crash between `RemoveAll` and `Rename` leaves
  partial or no output, and the deferred clean-up deletes the finished copy as well.
  `OldKeptUntilNewIsWhole` is what does hold.
* "LoadGame reads a saved game state from a named slot" (`engine/save.go:77`): if two
  games save to one slot at once, both truncate the file, one is written whole and the
  other over it but cut off, the beginning of the second and the rest of the first can be
  well-formed JSON of the right version and scenario, and a load installs a state nobody
  saved. In `host_crash` that is `richC` written whole, `poorT` cut off after its first
  piece, and `richT` loaded. The reason for writing in place, "single-player has no
  concurrent writers" (`DESIGN.md:928`), is not true of a daemon with several sessions.
  `SlotStore` allows it, and says when it cannot happen.
* The terminal UI never shows a game resumed from the lobby (`tui/app.go:189` waits for a
  line that nobody reads), and its opening message may be overtaken; "new" typed
  during a game makes the line interface hang; a list call that reaches the
  mutex after the game has begun is never answered.
* A graph read back by `export` has lost the mark of its corridors (`store.go:158`), so
  enemies may stand in them; `CorridorsEmpty` excepts it.

## Proofs

Every module with behaviour has a proof module. The theorems hold for every value of
the constants the assumptions allow: every scenario, class and set of slots, any
number of connections, sessions, games, daemons, requests and interactions, any
capacity of the channels, any set of directory trees. Each rests on an inductive
invariant, because none of the properties is inductive alone; TLC checked each
invariant on the run's instance before it was proved.

**Play** (`PlayProofs`). `Inv` gives type correctness, bounded vitals, soundness of
combat, expiry of the stance, that a dead hero stays in combat, that no cap on the
enemies' turns binds and, for the dispatcher alone, that a fight rests on the hero's turn:

* `Sound` – type correctness, vitals, combat soundness and stance of the current game;
* `SavesInv` – the same for every saved game, because loading installs it;
* `HandlerInv` – which `pc`, `driver` and `iter` go together;
* `CapInv` – iterations made plus the distance in the turn order to the hero (`Rank`)
  stay within the cap. `advanceTurn` only skips positions, so each enemy's turn
  shortens the distance by at least one;
* `KillerInv` – when the hero is dead, some enemy that will not flee is alive: the one
  that struck. Its hit points do not change before the hero acts again, which a
  dead hero cannot, so the fight cannot end. A potion may revive the hero, but
  then the hypothesis is gone.

Two more invariants stand on `Inv`. `LevelsInv` gives `VictoryLevels` where the
dispatcher is not among the drivers; the theorem has that hypothesis because the
dispatcher skips the check (see above). It needs thresholds that rise with the level,
as the table in `engine/leveling.go` does: the loop stops at the first level it cannot
pay. `GoodsInv` gives `CarryLimit` and `ItemsConserved`, for the current game and all
saves; what it takes is how a sum over a finite set changes with one of its
terms. Those sums, and the induction over the naturals they need, are in `Inductions`:
from the well-foundedness of the naturals it derives that a set with 0 and every successor
is `Nat`, which can be used with a set where the library's induction theorems ask
for an operator.

**Saves and Host** (`HostProofs`). `SavesInv` has `SoundInv`: a sound slot holds its last
save, or its one writer has emptied it. And `ReaderInv` for each load under way that at
most one save overlaps. With none, the file still is what it was and what was read is a
beginning of it (`Calm`). With one, what was read is a beginning of the new document, or
begins with all of the old one (`OneSave`): the buffer has room for the file as it was
when the load looked, so one read takes the old document whole or it has already
gone; and if more of a longer new one is read behind it, that makes no document,
because none begins another (`PrefixFree`). No such invariant can hold beyond one save, and none is claimed. They give `SlotHoldsLastSave`, and the step simulation that makes Saves an implementation
of SlotStore. `ServesAlone` follows from what a daemon without rivals knows of the path.

**RPCRenderer** (`RPCRendererProofs`). `RendererInv`: the lines in the stream are the
requests after the last one scanned, in order, with junk between them; the request in
the channel is the one after the loop's; `lastID` is the loop's, one behind while the
reader has still to set it, or one ahead.

**Sessions** (`SessionsProofs`). `SessionsInv`: a game belongs to the handler that
created it until `new_game` has succeeded (`Owned`), a game that will be stopped has not
been (`StopsOpen`), and whoever has a command in a channel or in execution waits for
just that (`Awaited`). It gives all six safety invariants of the runs.

**Client** (`ClientProofs`). `ClientInv`: one call is between its write and its read
(`MutexInv`), an answer is the first line and its call is there to read it (`LineInv`), and
while the announcement of a resumed game lies unread no call is made that could take
it for its answer (`StrayInv`).

**Lux** (`LuxProofs`). `LuxInv` follows the one call that may be outstanding: before Lux
has seen it there is no ack anywhere, afterwards at most one, in the channel, in the
reader's hands or on the socket, and unless it reports an error the screen shows what the
call drew. `EventsInv` gives `EventsFaithful`: the interactions on their way are in order
and the user's own, older than anything still to come and later than everything the
event goroutine has heard; and as long as no channel overran, there is a number p such
that what was heard is exactly what the first p interactions mean (`After`, the
recursive reference definition, by induction) and the others are pending.

**Scengen** (`ScengenProofs`). `SwapInv` relates the stage to the two directories.
`CorridorInv` needs, beyond the property, that a graph from the store is never given
directions again: without it the marks of the corridors are not known to be right. The
other invariants follow a tree through the generator, for every finite tree:

* `RawIs` – the raw graph of a tree of which some directories have still to be split.
  Every room hangs by one edge where `Host` has it, or on its parent while that is not
  split, and the places of the edges from a room are in the order of the rooms they
  lead to. `Walked`: lexical order puts siblings in that order. `SplitOne`: a child's
  place among its siblings is its position in the directory, so it lands in the right batch,
  whatever has been split before. This gives `TreeKept`.
* `Planned` – the edges with a direction: a part of the dungeon followed from the start,
  no direction of a room used twice, the children of a room in order and each in the first
  direction that was free. `OneMore`: a room not met yet has no exits, so only the
  directions of the near end matter.
* `Search` – adds the queue: a room that has left it has no child that was not met. When
  the queue is empty every room has been met (`SearchEnds`: a counterexample with the
  shortest path and the smallest corridor hangs on a room that was). And what was met is
  reached within as many steps as there are edges, which is the bound in `Reached`.
* `Complete` – the finished graph, in memory or in the store. It passes `Graph.Validate`
  and the keys of the table (`CompleteValid`: edges at a room and directions are one to
  one). `FinishedFits` and `StuckIsWide` count: a directory with ten others has a corridor
  with six children and a way back, and six exits that are all taken lead, but for the
  way back, to five other children. `PlannedDoors`: as many onward directions precede a
  child's as children precede it. With the bounds of the tiers (`TierFacts`) this
  gives `NineFit`, `NeverInvalid` and `DirectionsAsPlanned`.

The recursive function `Ball` is shown to exist (`BallFacts`) by naming it without
recursion, as the ends of walks of a given length.

The proofs changed the models in a few places. Assumptions that had been silent became
explicit: a missing file is not a file (`SavesAssumption`), no session is the name of none
(`SessionsAssumption`), a scenario file lists finitely many rooms and items
(`WorldAssumption`, `ItemAssumption`), and the thresholds. Two CASE expressions had guards
that overlapped (`HandshakeDone` in Client, `LuxDraws` in Lux): TLC takes the first that
is true, TLA+ any, so they meant more than the code. Scengen's raw edges were a sequence
that folds and `SelectSeq` cut up, which the provers cannot expand; as a set with places,
and with one action per neighbour instead of a fold over all of them, the same control
can be reasoned about. `DirectionsAsPlanned` became stronger on the way: it now says what
the nodes and edges are, from the tree alone.

Only model-checked:

* all liveness (`HandlerReturns`, `RequestsReturn`, `ShutdownCompletes`, `ReaderEnds`,
  `ScannedIsAnswered`, `WaitEnds`, `CloseReturns`): fairness and ENABLED are out of the
  prover's reach;
* `LivingHeroCanAct` and `HubsFit`, which do not hold.

## Not modelled

* Narration, interpretation and their language models: every command is possible.
* Dice notation, the wire format, names, the adventure log, timestamps.
* Parsing of single scenario files; what `Validate` guarantees is assumed in Rules and
  checked of what the generator writes in Scengen. What `Validate` accepts and Rules
  assumes away: enemies without hit points, undefined items in rooms, negative weights,
  defences and costs.
* Malformed frames from Lux, which end the display's reader with an error like the end of
  the connection does; in Client, a second connection on the session between the answer to
  `session.init` and the loop; in Sessions, the gaps between the short read locks after
  `session.init` (`handler.go:64-76`). No property is about them.
* The terminal and autoplay renderers: a reader and a channel of one without IDs, which
  is RPCRenderer without what makes it hard.
* What the clients draw, which menu entry is selected, window sizes.
* Flags, prompts, the scripted test mode, and the PID file, which nothing reads.
* The metadata `list_sessions` shows (a copy taken at `game.new`).
* Evaluation and test tools.

## Plan

Modelling is as far as the code has state to model, and every safety invariant and every
action property of the passing runs is proved. Liveness stays with TLC. When the code
changes, the places to look at first are the batch sizes of `insertHubs` (`Batch`, on
which `NineFit` depends to the unit) and anything that lets the order of Go's map reach
the order of edges from one room (`RawIs`).
