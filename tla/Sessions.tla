------------------------------ MODULE Sessions ------------------------------
(***************************************************************************)
(* The daemon's concurrency (internal/daemon): connection handlers, the    *)
(* registries of sessions and games, one goroutine per game, the           *)
(* asynchronous Stop of a replaced game, and shutdown.                     *)
(*                                                                         *)
(* A step of a handler is what it does between two points where another    *)
(* goroutine can interfere: a section under Server.mu, a send to a game's  *)
(* commands channel, a receive of the reply.  What a command does to the   *)
(* game's state is module Play's subject; here a game only has a state or  *)
(* not.  A client's requests are the ones it sends before its stream ends  *)
(* (hangup).                                                               *)
(* Requests that change nothing here (list_scenarios, list_sessions, and   *)
(* every refused request) are not steps.                                   *)
(***************************************************************************)
EXTENDS Integers, Sequences, FiniteSets

CONSTANTS
  Conns,          \* connections
  SessionIDs,     \* session IDs clients present or get generated
  MaxGames,       \* bound: games ever created
  HasNormalMode,  \* is an interpreter and a narrator configured?
  None

GameIDs == 1..MaxGames
Commands == {"new_game", "tool", "meta", "look", "run_loop"}
Bindings == [gameID : GameIDs \cup {None}, passthrough : BOOLEAN]

ASSUME SessionsAssumption ==
  /\ MaxGames \in Nat /\ HasNormalMode \in BOOLEAN
  /\ None \notin SessionIDs /\ None \notin GameIDs /\ None \notin Bindings
  /\ None \notin Conns /\ None \notin Commands /\ None \notin {"ok", "err"}

VARIABLES
  conn,       \* connection -> its handler, see Reads
  hangup,     \* connections whose client is gone or that shutdown closed
  sessions,   \* session ID -> None or [gameID, passthrough]
  games,      \* s.games: the registered game IDs
  game,       \* game ID -> its goroutine and channel, see NewGame
  stops,      \* goroutines of "go oldGame.Stop()" that have not closed yet
  shutdown,   \* the server's context is cancelled
  crashed     \* an unrecovered panic has ended the daemon

server == <<hangup, stops, shutdown, crashed>>
vars == <<conn, hangup, sessions, games, game, stops, shutdown, crashed>>

\* A handler reading its next request: the session it has initialised, and
\* nothing in the variables of a request (the game g, the command it calls
\* it with, whether game.new runs in normal mode, the reply channel).
Reads(s) == [pc |-> "read", sess |-> s, game |-> None, cmd |-> None,
             play |-> FALSE, reply |-> None]
Closed == [Reads(None) EXCEPT !.pc = "closed"]

NoCommand == [conn |-> None, cmd |-> None]
Unborn == [at |-> "unborn", queue |-> <<>>, now |-> NoCommand,
           closed |-> FALSE, state |-> FALSE]
NewGame == [Unborn EXCEPT !.at = "select"]

Init ==
  /\ conn = [c \in Conns |-> Closed]
  /\ hangup = {} /\ sessions = [s \in SessionIDs |-> None]
  /\ games = {} /\ game = [g \in GameIDs |-> Unborn]
  /\ stops = {} /\ shutdown = FALSE /\ crashed = FALSE

Session(c) == sessions[conn[c].sess]
Created == {g \in GameIDs : game[g].at # "unborn"}

\* Where a handler goes next.
Goto(c, label) == conn' = [conn EXCEPT ![c].pc = label]
ReadNext(c) == conn' = [conn EXCEPT ![c] = Reads(conn[c].sess)]
Close(c) == conn' = [conn EXCEPT ![c] = Closed]

\* Send, RunLoop and Inspect: hand command k to game g and wait.
Call(c, g, k) ==
  conn' = [conn EXCEPT ![c].game = g, ![c].cmd = k, ![c].reply = None, ![c].pc = "sending"]

-----------------------------------------------------------------------------
(* Connections come and go.                                                *)

Connect(c) ==
  /\ conn[c].pc = "closed" /\ ~shutdown
  /\ conn' = [conn EXCEPT ![c] = Reads(None)]
  /\ hangup' = hangup \ {c}
  /\ UNCHANGED <<sessions, games, game, stops, shutdown, crashed>>

Hangup(c) ==
  /\ conn[c].pc # "closed" /\ c \notin hangup
  /\ hangup' = hangup \cup {c}
  /\ UNCHANGED <<conn, sessions, games, game, stops, shutdown, crashed>>

ReadEOF(c) ==
  /\ conn[c].pc = "read" /\ c \in hangup
  /\ Close(c)
  /\ UNCHANGED <<sessions, games, game, server>>

Reading(c) == conn[c].pc = "read" /\ c \notin hangup

-----------------------------------------------------------------------------
(* session.init: find or create the session, set its mode, then resume its *)
(* game in normal mode.                                                    *)

SessionInit(c, s, passthrough) ==
  /\ Reading(c)
  /\ sessions' = [sessions EXCEPT ![s] =
       [gameID |-> IF sessions[s] = None THEN None ELSE sessions[s].gameID,
        passthrough |-> passthrough \/ ~HasNormalMode]]
  /\ conn' = [conn EXCEPT ![c].sess = s, ![c].pc = "inited"]
  /\ UNCHANGED <<games, game, server>>

\* A request without an ID gets neither an answer nor the game loop.  The
\* session is read in several short sections; here they are one.
InitAnswered(c) ==
  /\ conn[c].pc = "inited"
  /\ \/ ReadNext(c)
     \/ ~Session(c).passthrough /\ Session(c).gameID # None /\ Goto(c, "enterloop")
  /\ UNCHANGED <<sessions, games, game, server>>

\* runGameLoop and resumeGameLoop; without a game the handler returns.
EnterLoop(c) ==
  /\ conn[c].pc = "enterloop"
  /\ IF Session(c).gameID \in games
     THEN Call(c, Session(c).gameID, "run_loop") ELSE Close(c)
  /\ UNCHANGED <<sessions, games, game, server>>

-----------------------------------------------------------------------------
(* game.new in either mode: unregister and stop the session's old game,    *)
(* create and register a new one, initialise it, bind the session to it,   *)
(* snapshot its metadata, in normal mode also look; then answer.           *)

\* Mutant: the old game is stopped but stays registered.
StopOldGameOnly(c) ==
  /\ Reading(c) /\ conn[c].sess # None
  /\ stops' = stops \cup (games \cap {Session(c).gameID})
  /\ conn' = [conn EXCEPT ![c].play = ~Session(c).passthrough, ![c].pc = "create"]
  /\ UNCHANGED <<sessions, games, game, hangup, shutdown, crashed>>

DropOldGame(c) ==
  /\ Reading(c) /\ conn[c].sess # None
  /\ LET old == Session(c).gameID
     IN  IF old \in games
         THEN games' = games \ {old} /\ stops' = stops \cup {old}
         ELSE UNCHANGED <<games, stops>>
  /\ conn' = [conn EXCEPT ![c].play = ~Session(c).passthrough, ![c].pc = "create"]
  /\ UNCHANGED <<sessions, game, hangup, shutdown, crashed>>

\* No ID can be generated.
CreateFails(c) ==
  /\ conn[c].pc = "create"
  /\ ReadNext(c)
  /\ UNCHANGED <<sessions, games, game, server>>

CreateAndStartGame(c) ==
  /\ conn[c].pc = "create" /\ Cardinality(Created) < MaxGames
  /\ LET g == Cardinality(Created) + 1
     IN  /\ game' = [game EXCEPT ![g] = NewGame]
         /\ games' = games \cup {g}
         /\ Call(c, g, "new_game")
  /\ UNCHANGED <<sessions, server>>

BindGame(c) ==
  /\ conn[c].pc = "bind"
  /\ sessions' = [sessions EXCEPT ![conn[c].sess].gameID = conn[c].game]
  /\ Call(c, conn[c].game, "meta")
  /\ UNCHANGED <<games, game, server>>

\* Mutant: the failed game is stopped but stays registered.
KeepFailedGame(c) ==
  /\ conn[c].pc = "failed"
  /\ Goto(c, "stop")
  /\ UNCHANGED <<sessions, games, game, server>>

\* The new game refused the parameters: unregister it ...
RemoveGame(c) ==
  /\ conn[c].pc = "failed"
  /\ games' = games \ {conn[c].game}
  /\ Goto(c, "stop")
  /\ UNCHANGED <<sessions, game, server>>

\* ... and stop it, which closes its channel (closing it twice would panic,
\* and be recovered) and waits for its goroutine.
StopGame(c) ==
  /\ conn[c].pc = "stop"
  /\ IF game[conn[c].game].closed
     THEN ReadNext(c) /\ UNCHANGED game
     ELSE /\ game' = [game EXCEPT ![conn[c].game].closed = TRUE]
          /\ Goto(c, "stopping")
  /\ UNCHANGED <<sessions, games, server>>

GameStopped(c) ==
  /\ conn[c].pc = "stopping" /\ game[conn[c].game].at = "done"
  /\ ReadNext(c)
  /\ UNCHANGED <<sessions, games, game, server>>

\* The mode that counts now is the session's current one.
NewGameAnswered(c) ==
  /\ conn[c].pc = "created"
  /\ \/ ReadNext(c)
     \/ ~Session(c).passthrough /\ Goto(c, "enterloop")
  /\ UNCHANGED <<sessions, games, game, server>>

-----------------------------------------------------------------------------
(* A tool call in passthrough mode; it is refused if the session has no    *)
(* game or its game is not registered.                                     *)

GameCommand(c) ==
  /\ Reading(c) /\ conn[c].sess # None
  /\ Session(c).passthrough /\ Session(c).gameID \in games
  /\ Call(c, Session(c).gameID, "tool")
  /\ UNCHANGED <<sessions, games, game, server>>

-----------------------------------------------------------------------------
(* The two selects of Send, RunLoop and Inspect.                           *)

\* Mutant: the session is bound even if new_game failed.
AfterCallBinds(c, ok) ==
  LET k == conn[c].cmd
  IN  \/ k = "new_game" /\ Goto(c, "bind")
      \/ k \in {"tool", "look"} /\ ReadNext(c)
      \/ k = "meta" /\ Goto(c, "created")
      \/ k = "run_loop" /\ Close(c)

\* What the handler does after its command succeeded, or failed.
AfterCall(c, ok) ==
  LET k == conn[c].cmd
  IN  \/ k = "new_game" /\ Goto(c, IF ok THEN "bind" ELSE "failed")
      \/ k = "tool" /\ ReadNext(c)
      \/ k = "meta" /\ conn[c].play /\ Call(c, conn[c].game, "look")
      \/ k = "meta" /\ ~conn[c].play /\ Goto(c, "created")
      \/ k = "look" /\ ok /\ Goto(c, "created")
      \/ k = "look" /\ ~ok /\ ReadNext(c)
      \/ k = "run_loop" /\ Close(c)

\* Mutant: the channel holds two commands.
SendCommandDeep(c) ==
  LET g == conn[c].game
  IN  /\ conn[c].pc = "sending"
      /\ ~game[g].closed /\ Len(game[g].queue) < 2
      /\ game' = [game EXCEPT ![g].queue = Append(@, [conn |-> c, cmd |-> conn[c].cmd])]
      /\ Goto(c, "waiting")
      /\ UNCHANGED <<sessions, games, server>>

SendCommand(c) ==
  LET g == conn[c].game
  IN  /\ conn[c].pc = "sending"
      /\ ~game[g].closed /\ game[g].queue = <<>>
      /\ game' = [game EXCEPT ![g].queue = <<[conn |-> c, cmd |-> conn[c].cmd]>>]
      /\ Goto(c, "waiting")
      /\ UNCHANGED <<sessions, games, server>>

\* A send on a closed channel panics.  safeHandleRequest turns that into an
\* error response; in RunLoop it ends the connection.
SendPanics(c) ==
  /\ conn[c].pc = "sending" /\ game[conn[c].game].closed
  /\ IF conn[c].cmd = "run_loop" THEN Close(c) ELSE ReadNext(c)
  /\ UNCHANGED <<sessions, games, game, server>>

\* Mutants: the call also returns when its own client is gone; it does not
\* watch the game's done channel.
GiveUpOnHangup(c) ==
  /\ conn[c].pc \in {"sending", "waiting"}
  /\ shutdown \/ c \in hangup \/ game[conn[c].game].at = "done"
  /\ AfterCall(c, FALSE)
  /\ UNCHANGED <<sessions, games, game, server>>

GiveUpOnShutdownOnly(c) ==
  /\ conn[c].pc \in {"sending", "waiting"} /\ shutdown
  /\ AfterCall(c, FALSE)
  /\ UNCHANGED <<sessions, games, game, server>>

\* The context is cancelled or the game goroutine is gone.
GiveUp(c) ==
  /\ conn[c].pc \in {"sending", "waiting"}
  /\ shutdown \/ game[conn[c].game].at = "done"
  /\ AfterCall(c, FALSE)
  /\ UNCHANGED <<sessions, games, game, server>>

TakeReply(c) ==
  /\ conn[c].pc = "waiting" /\ conn[c].reply # None
  /\ AfterCall(c, conn[c].reply = "ok")
  /\ UNCHANGED <<sessions, games, game, server>>

-----------------------------------------------------------------------------
(* The game goroutine.                                                     *)

NextCommand(g) ==
  /\ game[g].at = "select" /\ game[g].queue # <<>>
  /\ LET k == Head(game[g].queue)
     IN  game' = [game EXCEPT ![g].queue = <<>>, ![g].now = k,
                  ![g].at = IF k.cmd = "run_loop" /\ game[g].state
                            THEN "loop" ELSE "busy"]
  /\ UNCHANGED <<conn, sessions, games, server>>

\* Does connection c wait for game g to answer command k?
Awaits(c, g, k) == conn[c].pc = "waiting" /\ conn[c].game = g /\ conn[c].cmd = k

\* A reply goes into the channel made for the call: it reaches the handler
\* only if that still waits for it.
Answer(g, result) ==
  LET k == game[g].now
  IN  conn' = IF Awaits(k.conn, g, k.cmd)
              THEN [conn EXCEPT ![k.conn].reply = result] ELSE conn

\* Mutant: a failing command is not answered.
ExecuteSilently(g) ==
  /\ game[g].at = "busy"
  /\ \E ok \in BOOLEAN :
       /\ IF ok THEN Answer(g, "ok") ELSE UNCHANGED conn
       /\ game' = [game EXCEPT ![g].at = "select", ![g].now = NoCommand,
                    ![g].state = @ \/ (ok /\ game[g].now.cmd = "new_game")]
  /\ UNCHANGED <<sessions, games, server>>

\* new_game may refuse its parameters, a tool may fail; inspecting cannot.
\* Every command but new_game and inspect needs a state.
Execute(g) ==
  /\ game[g].at = "busy"
  /\ \E ok \in BOOLEAN :
       /\ ok => game[g].now.cmd \in {"new_game", "meta", "look"} \/ game[g].state
       /\ ~ok => game[g].now.cmd \notin {"meta", "look"}
       /\ Answer(g, IF ok THEN "ok" ELSE "err")
       /\ game' = [game EXCEPT ![g].at = "select", ![g].now = NoCommand,
                    ![g].state = @ \/ (ok /\ game[g].now.cmd = "new_game")]
  /\ UNCHANGED <<sessions, games, server>>

LoopReturns(g) ==
  /\ Answer(g, "ok")
  /\ game' = [game EXCEPT ![g].at = "select", ![g].now = NoCommand]
  /\ UNCHANGED <<sessions, games, server>>

\* The game loop ends when the player quits or dies ...
LoopQuits(g) == game[g].at = "loop" /\ LoopReturns(g)

\* ... and must end when the connection or the context is gone.
LoopEnds(g) ==
  /\ game[g].at = "loop"
  /\ shutdown \/ game[g].now.conn \in hangup
  /\ LoopReturns(g)

\* The engine panics: recovered, but the goroutine is gone.
GamePanics(g) ==
  /\ game[g].at \in {"busy", "loop"}
  /\ game' = [game EXCEPT ![g].at = "done", ![g].now = NoCommand]
  /\ UNCHANGED <<conn, sessions, games, server>>

\* Mutant: the goroutine watches only its channel.
GameExitsWhenClosed(g) ==
  /\ game[g].at = "select" /\ game[g].closed /\ game[g].queue = <<>>
  /\ game' = [game EXCEPT ![g].at = "done"]
  /\ UNCHANGED <<conn, sessions, games, server>>

GameExits(g) ==
  /\ game[g].at = "select"
  /\ shutdown \/ (game[g].closed /\ game[g].queue = <<>>)
  /\ game' = [game EXCEPT ![g].at = "done"]
  /\ UNCHANGED <<conn, sessions, games, server>>

\* go oldGame.Stop(): closing twice would panic with nobody to recover.
AsyncStop(g) ==
  /\ g \in stops
  /\ stops' = stops \ {g}
  /\ game' = [game EXCEPT ![g].closed = TRUE]
  /\ crashed' = (crashed \/ game[g].closed)
  /\ UNCHANGED <<conn, hangup, sessions, games, shutdown>>

\* Serve's shutdown cancels the context and closes every connection.
Shutdown ==
  /\ ~shutdown /\ shutdown' = TRUE
  /\ hangup' = Conns
  /\ UNCHANGED <<conn, sessions, games, game, stops, crashed>>

-----------------------------------------------------------------------------
Request(c) ==
  \/ \E s \in SessionIDs, passthrough \in BOOLEAN : SessionInit(c, s, passthrough)
  \/ DropOldGame(c) \/ GameCommand(c)

HandlerStep(c) ==
  \/ ReadEOF(c) \/ InitAnswered(c) \/ EnterLoop(c)
  \/ CreateFails(c) \/ CreateAndStartGame(c) \/ BindGame(c) \/ NewGameAnswered(c)
  \/ RemoveGame(c) \/ StopGame(c) \/ GameStopped(c)
  \/ SendCommand(c) \/ SendPanics(c) \/ GiveUp(c) \/ TakeReply(c)

GameStep(g) == NextCommand(g) \/ Execute(g) \/ LoopEnds(g) \/ GameExits(g)

Next ==
  \/ \E c \in Conns : Connect(c) \/ Hangup(c) \/ Request(c) \/ HandlerStep(c)
  \/ \E g \in GameIDs : GameStep(g) \/ LoopQuits(g) \/ GamePanics(g) \/ AsyncStop(g)
  \/ Shutdown

Spec == Init /\ [][Next]_vars

\* Goroutines that can run do; clients and players owe nothing.  Goroutines
\* blocked on a full channel get in first come, first served (the runtime
\* keeps them in a queue), so a send that is possible again and again happens.
FairSpec ==
  /\ Spec
  /\ \A c \in Conns : WF_vars(HandlerStep(c)) /\ SF_vars(SendCommand(c))
  /\ \A g \in GameIDs : WF_vars(GameStep(g)) /\ WF_vars(AsyncStop(g))

-----------------------------------------------------------------------------
(* Properties.                                                             *)

Labels == {"closed", "read", "inited", "enterloop", "create", "bind", "failed",
           "stop", "stopping", "created", "sending", "waiting"}
Handlers ==
  [pc : Labels, sess : SessionIDs \cup {None}, game : GameIDs \cup {None},
   cmd : Commands \cup {None}, play : BOOLEAN, reply : {None, "ok", "err"}]
Queued == [conn : Conns, cmd : Commands]
Games ==
  [at : {"unborn", "select", "busy", "loop", "done"},
   queue : {<<>>} \cup {<<k>> : k \in Queued}, now : Queued \cup {NoCommand},
   closed : BOOLEAN, state : BOOLEAN]

\* Every variable has the shape the code gives it; at most one command waits
\* in a game's channel.
TypeOK ==
  /\ conn \in [Conns -> Handlers]
  /\ hangup \subseteq Conns
  /\ sessions \in [SessionIDs -> {None} \cup Bindings]
  /\ games \subseteq Created /\ game \in [GameIDs -> Games]
  /\ stops \subseteq Created /\ shutdown \in BOOLEAN /\ crashed \in BOOLEAN

\* However many connections replace a session's game at the same time, no
\* game is stopped twice: the second close would panic in a goroutine that
\* nobody recovers and take the daemon down.
NeverCrashes == ~crashed

\* A registered game still accepts commands: whoever stops a game has taken
\* it out of the registry first, so gameForSession never returns a game whose
\* channel is already closed.
RegisteredGamesOpen ==
  \A g \in games : ~game[g].closed /\ g \notin stops

\* A session is only ever bound to a game that accepted new_game, so the game
\* goroutine never has to refuse a tool call or a loop for want of a state.
BoundGamesHaveState ==
  \A s \in SessionIDs :
    sessions[s] # None /\ sessions[s].gameID # None => game[sessions[s].gameID].state

\* While a game loop runs, it is the only user of its connection's scanner
\* and writer: the handler of that connection waits for this very loop.
LoopOwnsConnection ==
  \A g \in GameIDs :
    game[g].at = "loop" /\ ~shutdown =>
      LET c == game[g].now.conn
      IN  Awaits(c, g, "run_loop") /\ conn[c].reply = None

\* A command is not lost between the handler and the game goroutine, even
\* when the game is being stopped: as long as a handler waits, its command is
\* queued, being executed or answered, or the handler can give up.
NoCommandLost ==
  \A c \in Conns :
    conn[c].pc = "waiting" =>
      LET g == conn[c].game
          k == [conn |-> c, cmd |-> conn[c].cmd]
      IN  \/ game[g].queue = <<k>> \/ game[g].now = k \/ conn[c].reply # None
          \/ game[g].at = "done" \/ shutdown

\* Shutdown completes: every handler and every game goroutine ends, whatever
\* it was waiting for.
ShutdownCompletes ==
  shutdown ~> /\ \A c \in Conns : conn[c].pc = "closed"
              /\ \A g \in GameIDs : game[g].at \in {"unborn", "done"}

\* A handler gets back to reading unless some player keeps a game loop busy:
\* no call waits on a stopped, panicked or never started game.
RequestsReturn ==
  \A c \in Conns :
    conn[c].pc \notin {"closed", "read"} ~>
      (conn[c].pc \in {"closed", "read"} \/ \E g \in GameIDs : game[g].at = "loop")

=============================================================================
