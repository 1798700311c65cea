------------------------------- MODULE Client -------------------------------
(***************************************************************************)
(* The crypt client on one connection, as the terminal UI ("tui"), as the  *)
(* plain line interface ("cli") or as the proxy between an MCP server and  *)
(* the daemon ("mcp"), and the daemon's end of the connection.             *)
(*                                                                         *)
(* All three share one idea: send writes a request and takes the next   *)
(* line as its answer, whatever that line is.  The daemon however writes a *)
(* line nobody asked for when a session with a game is initialised, and    *)
(* one more when a game ends.  The terminal UI runs every send in a        *)
(* goroutine (a tea.Cmd), one at a time under a mutex, and learns of the   *)
(* result through a message that may be overtaken by others.               *)
(*                                                                         *)
(* Which item of a menu is selected, names, classes, texts and the layout  *)
(* are left out; the six attributes of the creation wizard are their sum.  *)
(***************************************************************************)
EXTENDS Naturals, Sequences, SequencesExt

CONSTANTS
  Fronts,       \* the interfaces to explore: subset of {"tui", "cli", "mcp"}
  PointBuyPool, \* points the wizard must spend (8 in the code)
  MaxActs       \* bound: things the player sets going

ASSUME ClientAssumption ==
  Fronts \subseteq {"tui", "cli", "mcp"} /\ PointBuyPool \in Nat /\ MaxActs \in Nat

VARIABLES
  \* how crypt was started, and where the program is
  front, opts, pc,
  \* the calls: goroutines in send, and the results not yet looked at
  calls, msgs, reqID,
  \* terminal UI: App, Lobby, GameCreation, InputBar
  screen, waiting, lastResp, dead, err, focused, text,
  scenarios, sessions, browsing, step, points,
  \* the connection, and the daemon's handler of it
  toSrv, toCli, closed, handler,
  \* histories: commands set going; a call took another one's answer; a game
  \* was resumed from the lobby; a message overtook the one App.Init
  \* has put on its way (of kind opening); a request was sent that the game loop ignores
  acts, mispaired, opening, resumed, overtaken, ignored

appVars == <<screen, waiting, lastResp, dead, err, focused, text>>
menuVars == <<scenarios, sessions, browsing, step, points>>
connVars == <<toSrv, toCli, closed, handler>>
callVars == <<calls, msgs, reqID, mispaired>>
noteVars == <<acts, resumed, opening, overtaken, ignored>>
vars == <<front, opts, pc, appVars, menuVars, connVars, callVars, noteVars>>

Lists == {"list_scenarios", "list_sessions"}
Call(m) == [method |-> m, sent |-> FALSE, id |-> 0]
Msg(k) == [kind |-> k, has |-> FALSE, fight |-> FALSE, end |-> "no"]
Line(k, re) == [kind |-> k, re |-> re, has |-> FALSE, fight |-> FALSE, end |-> "no"]
Running == pc # "exited"

Init ==
  /\ front \in Fronts
  /\ opts \in [session : BOOLEAN, scenario : BOOLEAN]
  /\ front = "mcp" => opts = [session |-> FALSE, scenario |-> FALSE]
  /\ pc = "handshake" /\ calls = {Call("session.init")} /\ msgs = <<>> /\ reqID = 0
  /\ screen = "none" /\ waiting = FALSE /\ lastResp = "none" /\ dead = FALSE
  /\ err = FALSE /\ focused = TRUE /\ text = FALSE
  /\ scenarios = "loading" /\ sessions = "loading" /\ browsing = FALSE
  /\ step = 0 /\ points = 0
  /\ toSrv = <<>> /\ toCli = <<>> /\ closed = FALSE /\ handler = "serve"
  /\ acts = 0 /\ mispaired = FALSE /\ resumed = FALSE /\ overtaken = FALSE
  /\ opening = "none" /\ ignored = FALSE

-----------------------------------------------------------------------------
(* send                                                                    *)

\* What the caller makes of the line it read.
Result(c, line) ==
  IF line.kind = "error"
  THEN Msg(CASE c.method = "list_scenarios" -> "ScenarioErr"
             [] c.method = "list_sessions"  -> "SessionErr"
             [] OTHER -> "ServerErr")
  ELSE [Msg(CASE c.method = "list_scenarios" -> "Scenarios"
              [] c.method = "list_sessions"  -> "Sessions"
              [] c.method = "session.init"   -> "SessionInitDone"
              [] c.method = "game.new"       -> "GameStart"
              [] c.method = "tool"           -> "ToolResult"
              [] OTHER -> "ServerResponse")
        EXCEPT !.has = line.has, !.fight = line.fight, !.end = line.end]

\* The mutex: no other call is between its write and its read.
MutexFree == \A c \in calls : ~c.sent

Write(c) ==
  /\ c \in calls /\ ~c.sent /\ MutexFree
  /\ reqID' = reqID + 1
  /\ \/ /\ calls' = (calls \ {c}) \union {[c EXCEPT !.sent = TRUE, !.id = reqID + 1]}
        /\ toSrv' = IF closed THEN toSrv
                    ELSE Append(toSrv, [method |-> c.method, id |-> reqID + 1])
        /\ UNCHANGED msgs
     \/ /\ closed     \* the write fails
        /\ calls' = calls \ {c} /\ msgs' = Append(msgs, Msg("ConnLost"))
        /\ UNCHANGED toSrv
  /\ ignored' = (ignored \/ (c.method # "game.play" /\ handler = "loop"))
  /\ UNCHANGED <<toCli, closed, handler, mispaired, acts, resumed, opening, overtaken>>

\* Scan: the next line, or the end of the connection.
Read(c) ==
  /\ c \in calls /\ c.sent
  /\ calls' = calls \ {c}
  /\ IF toCli # <<>>
     THEN /\ msgs' = Append(msgs, Result(c, Head(toCli)))
          /\ toCli' = Tail(toCli)
          /\ mispaired' = (mispaired \/
               (c.method \notin Lists /\ Head(toCli).re # c.id /\ Head(toCli).end = "no"))
     ELSE closed /\ msgs' = Append(msgs, Msg("ConnLost")) /\ UNCHANGED <<toCli, mispaired>>
  /\ UNCHANGED <<reqID, toSrv, closed, handler, noteVars>>

Send ==
  /\ Running /\ \E c \in calls : Write(c) \/ Read(c)
  /\ UNCHANGED <<front, opts, pc, appVars, menuVars>>

-----------------------------------------------------------------------------
(* The handshake of both clients.                                          *)

\* session.init has been answered: a game to resume is announced with one
\* more line, which is read before anything else.
HandshakeDone ==
  /\ pc = "handshake" /\ msgs # <<>>
  /\ pc' = CASE Head(msgs).kind # "SessionInitDone" -> "exited"
             [] Head(msgs).kind = "SessionInitDone" /\ Head(msgs).has -> "resume"
             [] OTHER -> "begin"
  /\ msgs' = <<>>
  /\ UNCHANGED <<front, opts, appVars, menuVars, connVars, calls, reqID, mispaired, noteVars>>

\* Mutant: the line that announces the resumed game is left in the stream.
ResumeUnread ==
  /\ pc = "resume"
  /\ pc' = "begin" /\ lastResp' = "calm"
  /\ UNCHANGED <<front, opts, screen, waiting, dead, err, focused, text, menuVars,
                 connVars, callVars, noteVars>>
ResumeRead ==
  /\ pc = "resume"
  /\ \/ /\ toCli # <<>> /\ toCli' = Tail(toCli)
        /\ pc' = "begin"
        /\ lastResp' = IF Head(toCli).fight THEN "fight" ELSE "calm"
     \/ toCli = <<>> /\ closed /\ pc' = "exited" /\ UNCHANGED <<toCli, lastResp>>
  /\ UNCHANGED <<front, opts, screen, waiting, dead, err, focused, text, menuVars,
                 toSrv, closed, handler, callVars, noteVars>>

\* The terminal UI opens in the lobby or in the game; App.Init sends for the
\* lists or starts the game, with a loading notice on its way at the same
\* time.
BeginTUI ==
  /\ pc = "begin" /\ front = "tui" /\ pc' = "run"
  /\ \/ /\ lastResp # "none"
        /\ screen' = "game" /\ calls' = {}
        /\ msgs' = <<[Msg("GameStart") EXCEPT !.fight = (lastResp = "fight")]>>
        /\ opening' = "GameStart"
     \/ /\ lastResp = "none" /\ opts.scenario
        /\ screen' = "game" /\ calls' = {Call("game.new")} /\ msgs' = <<Msg("Loading")>>
        /\ opening' = "Loading"
     \/ /\ lastResp = "none" /\ ~opts.scenario
        /\ screen' = "lobby" /\ calls' = {Call(m) : m \in Lists} /\ msgs' = <<>>
        /\ UNCHANGED opening
  /\ lastResp' = "none"
  /\ UNCHANGED <<front, opts, waiting, dead, err, focused, text, menuVars, connVars,
                 reqID, mispaired, acts, resumed, overtaken, ignored>>

\* The line interface starts the game it was given, or prompts.
BeginCLI ==
  /\ pc = "begin" /\ front = "cli"
  /\ IF opts.scenario /\ lastResp = "none"
     THEN pc' = "call" /\ calls' = {Call("game.new")}
     ELSE pc' = "prompt" /\ UNCHANGED calls
  /\ UNCHANGED <<front, opts, appVars, menuVars, connVars, msgs, reqID, mispaired, noteVars>>

-----------------------------------------------------------------------------
(* The line interface: one synchronous call at a time.                     *)

\* quit leaves at once; new and everything else are sent to the daemon.
HandleLine ==
  /\ pc = "prompt"
  /\ \/ pc' = "exited" /\ UNCHANGED <<calls, acts>>
     \/ /\ acts < MaxActs /\ acts' = acts + 1
        /\ pc' = "call"
        /\ \E m \in {"game.new", "game.play"} : calls' = {Call(m)}
  /\ UNCHANGED <<front, opts, appVars, menuVars, connVars, msgs, reqID, mispaired,
                 resumed, opening, overtaken, ignored>>

\* A lost connection and a game's end leave, an error is only shown.
LineAnswered ==
  /\ pc = "call" /\ msgs # <<>>
  /\ pc' = IF Head(msgs).kind = "ConnLost"
              \/ (Head(msgs).kind = "ServerResponse" /\ Head(msgs).end # "no")
           THEN "exited" ELSE "prompt"
  /\ msgs' = <<>>
  /\ UNCHANGED <<front, opts, appVars, menuVars, connVars, calls, reqID, mispaired, noteVars>>

-----------------------------------------------------------------------------
(* The MCP proxy, in passthrough mode: the MCP server may call several     *)
(* tools at once, each a call to the daemon under the same mutex.          *)

BeginMCP ==
  /\ pc = "begin" /\ front = "mcp" /\ pc' = "tools"
  /\ UNCHANGED <<front, opts, appVars, menuVars, connVars, callVars, noteVars>>

ToolCall ==
  /\ pc = "tools" /\ acts < MaxActs /\ acts' = acts + 1
  /\ calls' = calls \union {[Call("tool") EXCEPT !.id = acts']}
  /\ UNCHANGED <<front, opts, pc, appVars, menuVars, connVars, msgs, reqID, mispaired,
                 resumed, opening, overtaken, ignored>>

\* Result or error, the handler hands it on.
ToolAnswered ==
  /\ pc = "tools" /\ msgs # <<>> /\ msgs' = Tail(msgs)
  /\ UNCHANGED <<front, opts, pc, appVars, menuVars, connVars, calls, reqID, mispaired,
                 noteVars>>

-----------------------------------------------------------------------------
(* The terminal UI: Update takes the messages in any order.                *)

\* The lobby keeps the lists and follows the two ways out; it ignores a
\* lost connection.
UpdateLobby(m) ==
  /\ screen = "lobby"
  /\ scenarios' = CASE m.kind = "Scenarios" -> "listed" [] m.kind = "ScenarioErr" -> "failed"
                    [] OTHER -> scenarios
  /\ sessions' = CASE m.kind = "Sessions" -> "listed" [] m.kind = "SessionErr" -> "failed"
                   [] OTHER -> sessions
  /\ screen' = CASE m.kind = "StartCreation" -> "creation" [] m.kind = "ResumeSession" -> "game"
                 [] OTHER -> screen
  /\ IF m.kind = "StartCreation" THEN step' = 0 /\ points' = 0 ELSE UNCHANGED <<step, points>>
  /\ waiting' = (waiting \/ m.kind = "ResumeSession")
  /\ resumed' = (resumed \/ m.kind = "ResumeSession")
  /\ calls' = IF m.kind = "ResumeSession" THEN calls \union {Call("session.init")} ELSE calls
  /\ UNCHANGED <<lastResp, dead, err, focused, text, browsing>>

\* The wizard's result starts the game; every other message is ignored.
UpdateCreation(m) ==
  /\ screen = "creation"
  /\ IF m.kind = "CreationDone"
     THEN screen' = "game" /\ waiting' = TRUE /\ calls' = calls \union {Call("game.new")}
     ELSE UNCHANGED <<screen, waiting, calls>>
  /\ UNCHANGED <<lastResp, dead, err, focused, text, menuVars, resumed>>

Fought == lastResp = "fight"
Shown(m) == lastResp' = IF m.fight THEN "fight" ELSE "calm"

GotSession(m) ==
  /\ m.kind = "SessionInitDone"
  /\ waiting' = (waiting /\ m.has)
  /\ UNCHANGED <<lastResp, dead, err, focused, calls, pc>>
\* Mutant: the answer to game.new does not end the wait.
GotStartWaiting(m) ==
  /\ m.kind = "GameStart"
  /\ Shown(m)
  /\ focused' = (focused /\ ~m.fight)
  /\ UNCHANGED <<waiting, dead, err, calls, pc>>
GotStart(m) ==
  /\ m.kind = "GameStart"
  /\ waiting' = FALSE /\ Shown(m)
  /\ focused' = (focused /\ ~m.fight)
  /\ UNCHANGED <<dead, err, calls, pc>>
GotResponse(m) ==
  /\ m.kind = "ServerResponse"
  /\ waiting' = FALSE /\ Shown(m)
  /\ dead' = (dead \/ m.end = "dead")
  /\ pc' = IF m.end = "quit" THEN "exited" ELSE pc
  /\ focused' = CASE m.end = "dead" -> FALSE
                  [] m.end = "no" /\ Fought # m.fight -> ~m.fight
                  [] OTHER -> focused
  /\ UNCHANGED <<err, calls>>
\* Before the first response an error is fatal.
GotError(m) ==
  /\ m.kind = "ServerErr"
  /\ waiting' = FALSE
  /\ err' = (err \/ lastResp = "none") /\ focused' = (focused /\ lastResp # "none")
  /\ UNCHANGED <<lastResp, dead, calls, pc>>
\* The client goes on waiting, with an error on the screen.
GotLost(m) ==
  /\ m.kind = "ConnLost"
  /\ err' = TRUE /\ focused' = FALSE
  /\ UNCHANGED <<waiting, lastResp, dead, calls, pc>>
GotLoading(m) ==
  /\ m.kind = "Loading"
  /\ waiting' = TRUE
  /\ UNCHANGED <<lastResp, dead, err, focused, calls, pc>>
\* Mutant: a command is sent although another one is being answered.
GotSendCmdEager(m) ==
  /\ m.kind = "SendCmd"
  /\ IF dead THEN UNCHANGED <<waiting, calls>>
     ELSE waiting' = TRUE /\ calls' = calls \union {[Call("game.play") EXCEPT !.id = Len(msgs)]}
  /\ UNCHANGED <<lastResp, dead, err, focused, pc>>
GotSendCmd(m) ==
  /\ m.kind = "SendCmd"
  /\ IF dead \/ waiting THEN UNCHANGED <<waiting, calls>>
     ELSE waiting' = TRUE /\ calls' = calls \union {Call("game.play")}
  /\ UNCHANGED <<lastResp, dead, err, focused, pc>>
\* Late messages of the lobby and the wizard fall through.
GotOther(m) ==
  /\ m.kind \in {"Scenarios", "ScenarioErr", "Sessions", "SessionErr", "StartCreation",
                 "ResumeSession", "CreationDone"}
  /\ UNCHANGED <<waiting, lastResp, dead, err, focused, calls, pc>>

UpdateGame(m) ==
  /\ screen = "game"
  /\ \/ GotSession(m) \/ GotStart(m) \/ GotResponse(m) \/ GotError(m) \/ GotLost(m)
     \/ GotLoading(m) \/ GotSendCmd(m) \/ GotOther(m)
  /\ UNCHANGED <<screen, text, menuVars, resumed>>

Update ==
  /\ pc = "run"
  /\ \E i \in DOMAIN msgs :
     /\ msgs' = RemoveAt(msgs, i)
     /\ overtaken' = (overtaken \/ opening \notin {"none", msgs[i].kind})
     /\ opening' = IF msgs[i].kind = opening THEN "none" ELSE opening
     /\ \/ (UpdateLobby(msgs[i]) \/ UpdateCreation(msgs[i])) /\ UNCHANGED pc
        \/ UpdateGame(msgs[i])
  /\ UNCHANGED <<front, opts, connVars, reqID, mispaired, acts, ignored>>

-----------------------------------------------------------------------------
(* The terminal UI's keys.  A key that decides something only puts a       *)
(* message on its way.                                                     *)

Decide(k) ==
  /\ acts < MaxActs /\ acts' = acts + 1
  /\ msgs' = Append(msgs, Msg(k))

KeyLobby ==
  /\ screen = "lobby"
  /\ \/ ~browsing /\ scenarios = "listed" /\ Decide("StartCreation") /\ UNCHANGED browsing
     \/ browsing /\ Decide("ResumeSession") /\ UNCHANGED browsing
     \/ /\ browsing' = (~browsing /\ sessions = "listed") /\ browsing' # browsing
        /\ UNCHANGED <<acts, msgs>>
  /\ UNCHANGED <<appVars, scenarios, sessions, step, points>>

\* Enter goes on (from the last step only with every point spent), Escape
\* goes back, from the first step to the lobby; points are added up to the
\* pool and taken back.
KeyCreation ==
  /\ screen = "creation"
  /\ \/ step < 3 /\ step' = step + 1 /\ UNCHANGED <<points, screen, acts, msgs>>
     \/ step > 0 /\ step' = step - 1 /\ UNCHANGED <<points, screen, acts, msgs>>
     \/ step = 0 /\ screen' = "lobby" /\ UNCHANGED <<points, step, acts, msgs>>
     \/ /\ step = 3 /\ points' \in {points + 1, points - 1} \cap 0..PointBuyPool
        /\ UNCHANGED <<step, screen, acts, msgs>>
     \/ /\ step = 3 /\ points = PointBuyPool /\ Decide("CreationDone")
        /\ UNCHANGED <<points, step, screen>>
  /\ UNCHANGED <<waiting, lastResp, dead, err, focused, text, scenarios, sessions, browsing>>

\* In a fight the unfocused bar leaves room for hotkeys.
KeyGame ==
  /\ screen = "game" /\ ~dead
  /\ \/ /\ Fought /\ ~focused /\ ~waiting     \* a, d, f, u
        /\ Decide("SendCmd") /\ UNCHANGED <<focused, text>>
     \/ /\ Fought /\ ~focused /\ ~waiting     \* tab, i
        /\ focused' = TRUE /\ UNCHANGED <<text, acts, msgs>>
     \/ /\ Fought /\ focused                  \* esc
        /\ focused' = FALSE /\ UNCHANGED <<text, acts, msgs>>
     \/ /\ ~waiting /\ focused /\ ~text       \* typing
        /\ text' = TRUE /\ UNCHANGED <<focused, acts, msgs>>
     \/ /\ ~waiting /\ text                   \* enter
        /\ text' = FALSE /\ Decide("SendCmd") /\ UNCHANGED focused
  /\ UNCHANGED <<screen, waiting, lastResp, dead, err, menuVars>>

Key ==
  /\ pc = "run" /\ (KeyLobby \/ KeyCreation \/ KeyGame)
  /\ UNCHANGED <<front, opts, pc, connVars, calls, reqID, mispaired, resumed, opening,
                 overtaken, ignored>>

\* Ctrl+C everywhere, Quit in the lobby, any key after death; the end of the
\* MCP server's input.
Leave ==
  /\ pc \in {"run", "tools"} /\ pc' = "exited"
  /\ UNCHANGED <<front, opts, appVars, menuVars, connVars, callVars, noteVars>>

-----------------------------------------------------------------------------
(* The daemon's end: the handler's request loop and the game loop.         *)

Reply(l) == toCli' = Append(toCli, l)
Finals == {[Line("play", 0) EXCEPT !.end = e] : e \in {"quit", "dead"}}

\* session.init of a session with a game enters the game loop, whose first
\* render nobody asked for; if the game is gone the connection is closed.
\* No other connection changes the session between the answer and the loop.
ServeInit(r) ==
  /\ r.method = "session.init" /\ handler = "serve"
  /\ \E has \in IF reqID = 1 /\ ~opts.session THEN {FALSE} ELSE BOOLEAN :
     LET answer == [Line("init", r.id) EXCEPT !.has = has] IN
     \/ ~has /\ Reply(answer) /\ UNCHANGED <<handler, closed>>
     \/ /\ has /\ handler' = "loop" /\ UNCHANGED closed
        /\ \E f \in BOOLEAN :
             toCli' = toCli \o <<answer, [Line("play", 0) EXCEPT !.fight = f]>>
     \/ has /\ Reply(answer) /\ handler' = "gone" /\ closed' = TRUE
ServeList(r) ==
  /\ r.method \in Lists /\ handler = "serve"
  /\ \E k \in {"list", "error"} : Reply(Line(k, r.id))
  /\ UNCHANGED <<handler, closed>>
\* An accepted game.new is answered with the first room and followed by the
\* loop, which does not repeat it.
ServeNew(r) ==
  /\ r.method = "game.new" /\ handler = "serve"
  /\ \/ Reply(Line("error", r.id)) /\ UNCHANGED handler
     \/ Reply(Line("play", r.id)) /\ handler' = "loop"
  /\ UNCHANGED closed
\* A tool call, on a session in passthrough mode.
ServeTool(r) ==
  /\ r.method = "tool" /\ handler = "serve"
  /\ \E k \in {"tool", "error"} : Reply(Line(k, r.id))
  /\ UNCHANGED <<handler, closed>>
\* Outside the loop game.play is an unknown method.
ServePlay(r) ==
  /\ r.method = "game.play" /\ handler = "serve"
  /\ Reply(Line("error", r.id)) /\ UNCHANGED <<handler, closed>>
\* The loop renders every command; quitting and dying end it after the
\* render, with one more line and the end of the connection.
LoopPlay(r) ==
  /\ r.method = "game.play" /\ handler = "loop"
  /\ \/ /\ \E f \in BOOLEAN : Reply([Line("play", r.id) EXCEPT !.fight = f])
        /\ UNCHANGED <<handler, closed>>
     \/ /\ \E l \in Finals : toCli' = toCli \o <<Line("play", r.id), l>>
        /\ handler' = "gone" /\ closed' = TRUE
\* The loop's reader ignores every other method.
LoopIgnores(r) ==
  /\ r.method # "game.play" /\ handler = "loop"
  /\ UNCHANGED <<toCli, handler, closed>>

Serve ==
  /\ toSrv # <<>> /\ toSrv' = Tail(toSrv)
  /\ LET r == Head(toSrv) IN
       ServeInit(r) \/ ServeList(r) \/ ServeNew(r) \/ ServeTool(r) \/ ServePlay(r)
       \/ LoopPlay(r) \/ LoopIgnores(r)
  /\ UNCHANGED <<front, opts, pc, appVars, menuVars, callVars, noteVars>>

\* The daemon stops: a running loop still writes its last line.
ServerStops ==
  /\ ~closed /\ closed' = TRUE /\ handler' = "gone" /\ toSrv' = <<>>
  /\ \/ handler = "loop" /\ Reply([Line("play", 0) EXCEPT !.end = "quit"])
     \/ UNCHANGED toCli
  /\ UNCHANGED <<front, opts, pc, appVars, menuVars, callVars, noteVars>>

Progress == \/ HandshakeDone \/ ResumeRead \/ BeginTUI \/ BeginCLI \/ BeginMCP
            \/ LineAnswered \/ ToolAnswered \/ Update
Next == Send \/ Progress \/ HandleLine \/ ToolCall \/ Key \/ Leave \/ Serve \/ ServerStops

Spec == Init /\ [][Next]_vars
\* The runtime runs every goroutine, the UI takes every message, and the
\* daemon answers; the player and the end of the daemon may not come.
FairSpec == Spec /\ WF_vars(Send) /\ WF_vars(Progress) /\ WF_vars(Serve)

-----------------------------------------------------------------------------
(* Properties                                                              *)

\* The line that session.init, game.new, game.play or a tool call takes is the
\* answer to that very request, or the notice that the game is over: the line a
\* resumed game announces itself with never shifts the conversation by one
\* (send, the handshakes and the mutex around write and read).
AnswersPaired == ~mispaired

\* However keys, messages and answers overtake each other, the terminal UI
\* never has two commands under way and waits while it has one (SendCmdMsg,
\* combat hotkeys, Enter pressed twice), unless a message overtook the
\* one that opens the game given at the start.
OneCommandAtATime ==
  front = "tui" /\ screen = "game" /\ ~overtaken =>
    LET busy == {c \in calls : c.method \notin Lists}
    IN \A c, d \in busy : c = d /\ (waiting \/ opening # "none")

\* Is an answer awaited?
Waits == waiting \/ pc = "call" \/ (front = "mcp" /\ calls # {})

\* A client that waits for an answer gets it or shows an error, with three
\* exceptions that are in the code: a game resumed from the lobby (nobody
\* reads the line it announces itself with), an opening message overtaken
\* by a later one, and a request other than game.play sent into a running
\* game, which the daemon's loop ignores: a "new" typed during a game, or a
\* list call that reached the mutex only after the game had begun.
WaitEnds ==
  Waits ~>
    (\/ ~Waits
     \/ err \/ pc = "exited" \/ resumed \/ overtaken \/ ignored)
=============================================================================
