--------------------------- MODULE SessionsProofs ---------------------------
(***************************************************************************)
(* Proofs about Sessions, for any number of connections, sessions and      *)
(* games.                                                                  *)
(***************************************************************************)
EXTENDS Sessions, FiniteSetTheorems, TLAPS

-----------------------------------------------------------------------------
(* The inductive invariant.                                                *)

\* Games are numbered as they are created; an ID not given yet is untouched.
Numbered ==
  /\ \E n \in 0..MaxGames : Created = 1..n
  /\ \A g \in GameIDs : game[g].at = "unborn" => game[g] = Unborn

\* What a handler's variables hold where it stands.
HandlerOK(h) ==
  /\ h.sess # None => sessions[h.sess] # None
  /\ h.pc \notin {"closed", "read"} => h.sess # None
  /\ h.game # None => h.game \in Created
  /\ h.pc \in {"closed", "read", "inited", "create"} => h.game = None /\ h.cmd = None
  /\ h.pc \in {"sending", "waiting", "bind", "failed", "stop", "stopping", "created"} =>
       h.game # None /\ h.cmd # None
  /\ h.pc \in {"bind", "failed", "stop", "stopping"} => h.cmd = "new_game"
  /\ h.cmd = "new_game" => h.pc \in {"sending", "waiting", "bind", "failed", "stop", "stopping"}
  /\ h.pc = "sending" => h.reply = None
  /\ h.pc = "bind" => h.reply = "ok"
  /\ h.cmd = "new_game" /\ h.reply = "ok" => game[h.game].state

HandlersOK == \A c \in Conns : HandlerOK(conn[c])

\* A game goroutine executes a command or waits for one.
GamesOK ==
  \A g \in GameIDs :
    /\ game[g].at \in {"unborn", "select", "done"} => game[g].now = NoCommand
    /\ game[g].at \in {"busy", "loop"} => game[g].now \in Queued
    /\ game[g].at = "loop" => game[g].now.cmd = "run_loop"

\* A game that will be stopped has not been stopped yet.
StopsOpen == \A g \in stops : ~game[g].closed

\* Until new_game has succeeded, the game belongs to the handler that created
\* it: no session leads to it, no other handler uses or stops it.
Owned ==
  \A c \in Conns : conn[c].cmd = "new_game" =>
    /\ conn[c].game \notin stops
    /\ \A s \in SessionIDs : sessions[s] # None => sessions[s].gameID # conn[c].game
    /\ \A d \in Conns : d # c => conn[d].game # conn[c].game
    /\ conn[c].pc \in {"stop", "stopping"} => conn[c].game \notin games
    /\ conn[c].pc # "stopping" => ~game[conn[c].game].closed

\* Until shutdown, whoever has a command in the channel or in execution of a
\* live goroutine waits for just that, and has no reply yet.
Awaited ==
  \A g \in GameIDs : ~shutdown /\ game[g].at # "done" =>
    /\ \A k \in Queued :
         game[g].queue = <<k>> \/ (game[g].now = k /\ game[g].at \in {"busy", "loop"}) =>
           Awaits(k.conn, g, k.cmd) /\ conn[k.conn].reply = None
    /\ \A k \in Queued :
         game[g].queue = <<k>> /\ game[g].at \in {"busy", "loop"} => k.conn # game[g].now.conn

SessionsInv ==
  /\ TypeOK /\ Numbered /\ HandlersOK /\ GamesOK
  /\ RegisteredGamesOpen /\ StopsOpen /\ NeverCrashes
  /\ Owned /\ BoundGamesHaveState /\ Awaited /\ NoCommandLost

-----------------------------------------------------------------------------
(* Handlers.                                                               *)

\* A handler moves on by itself, to variables that fit, and stops waiting only
\* if it has its reply or may give up.  It comes by a game only through a
\* session, and stays the owner of a game it created.
LEMMA HandlerMoves ==
  ASSUME SessionsInv, NEW c \in Conns, NEW h \in Handlers,
         conn' = [conn EXCEPT ![c] = h],
         UNCHANGED <<sessions, games, game, stops, shutdown, crashed>>, hangup' \subseteq Conns,
         HandlerOK(h), h.pc # "waiting",
         \/ h.game = None \/ h.game = conn[c].game
         \/ \E s \in SessionIDs : sessions[s] # None /\ sessions[s].gameID = h.game,
         h.cmd = "new_game" =>
           /\ conn[c].cmd = "new_game" /\ h.game = conn[c].game
           /\ h.pc \in {"stop", "stopping"} => conn[c].pc = h.pc
           /\ conn[c].pc = "stopping" => h.pc = "stopping",
         conn[c].pc = "waiting" =>
           conn[c].reply # None \/ shutdown \/ game[conn[c].game].at = "done"
  PROVE  SessionsInv'
<1> USE DEF SessionsInv
<1>1. conn'[c] = h /\ \A d \in Conns : d # c => conn'[d] = conn[d] BY DEF TypeOK
<1>2. Created' = Created BY DEF Created
<1>3. TypeOK' BY <1>2 DEF TypeOK
<1>4. Numbered' BY <1>2 DEF Numbered
<1>5. HandlersOK' BY <1>1, <1>2 DEF HandlersOK, HandlerOK
<1>6. GamesOK' /\ RegisteredGamesOpen' /\ StopsOpen' /\ NeverCrashes' /\ BoundGamesHaveState'
  BY DEF GamesOK, RegisteredGamesOpen, StopsOpen, NeverCrashes, BoundGamesHaveState
<1>7. Owned'
  <2> SUFFICES ASSUME NEW d \in Conns, conn'[d].cmd = "new_game"
               PROVE  /\ conn'[d].game \notin stops
                      /\ \A s \in SessionIDs : sessions[s] # None => sessions[s].gameID # conn'[d].game
                      /\ \A e \in Conns : e # d => conn'[e].game # conn'[d].game
                      /\ conn'[d].pc \in {"stop", "stopping"} => conn'[d].game \notin games
                      /\ conn'[d].pc # "stopping" => ~game[conn'[d].game].closed
    BY DEF Owned
  <2>1. CASE d = c BY <1>1, <2>1 DEF Owned
  <2>2. CASE d # c
    <3>1. conn'[d] = conn[d] /\ conn[d].game # None BY <1>1, <2>2 DEF HandlersOK, HandlerOK
    <3>2. h.game # conn[d].game BY <2>2, <3>1 DEF Owned
    <3> QED BY <1>1, <2>2, <3>1, <3>2 DEF Owned
  <2> QED BY <2>1, <2>2
<1>8. Awaited'
  <2> SUFFICES ASSUME NEW g \in GameIDs, ~shutdown, game[g].at # "done", NEW k \in Queued
               PROVE  /\ game[g].queue = <<k>> \/ (game[g].now = k /\ game[g].at \in {"busy", "loop"}) =>
                           Awaits(k.conn, g, k.cmd)' /\ conn'[k.conn].reply = None
                      /\ game[g].queue = <<k>> /\ game[g].at \in {"busy", "loop"} =>
                           k.conn # game[g].now.conn
    BY DEF Awaited
  <2>1. k.conn \in Conns BY DEF Queued
  <2>2. CASE k.conn = c BY <2>2 DEF Awaited, Awaits
  <2>3. CASE k.conn # c
    <3>1. conn'[k.conn] = conn[k.conn] BY <1>1, <2>1, <2>3
    <3>2. Awaits(k.conn, g, k.cmd)' <=> Awaits(k.conn, g, k.cmd) BY <3>1 DEF Awaits
    <3> QED BY <3>1, <3>2 DEF Awaited
  <2> QED BY <2>2, <2>3
<1>9. NoCommandLost'
  <2> SUFFICES ASSUME NEW d \in Conns, conn'[d].pc = "waiting"
               PROVE  LET g == conn'[d].game
                          k == [conn |-> d, cmd |-> conn'[d].cmd]
                      IN  \/ game[g].queue = <<k>> \/ game[g].now = k \/ conn'[d].reply # None
                          \/ game[g].at = "done" \/ shutdown
    BY DEF NoCommandLost
  <2>1. d # c /\ conn'[d] = conn[d] BY <1>1
  <2> QED BY <2>1 DEF NoCommandLost
<1> QED BY <1>3, <1>4, <1>5, <1>6, <1>7, <1>8, <1>9

\* Reading the next request, and closing, are places a handler can always be.
LEMMA RestingOK ==
  ASSUME SessionsInv, NEW c \in Conns
  PROVE  /\ Reads(conn[c].sess) \in Handlers /\ HandlerOK(Reads(conn[c].sess))
         /\ Reads(None) \in Handlers /\ HandlerOK(Reads(None))
         /\ Closed \in Handlers /\ HandlerOK(Closed)
<1>1. conn[c].sess \in SessionIDs \cup {None} /\ HandlerOK(conn[c])
  BY DEF SessionsInv, TypeOK, Handlers, HandlersOK
<1>2. ASSUME NEW s \in {conn[c].sess, None} PROVE Reads(s) \in Handlers /\ HandlerOK(Reads(s))
  BY <1>1, SessionsAssumption DEF Handlers, Labels, HandlerOK, Reads, Commands
<1>3. Closed \in Handlers /\ HandlerOK(Closed)
  BY SessionsAssumption DEF Handlers, Labels, HandlerOK, Reads, Closed, Commands
<1> QED BY <1>2, <1>3

\* A handler rests.
LEMMA HandlerRests ==
  ASSUME SessionsInv, NEW c \in Conns,
         ReadNext(c) \/ Close(c) \/ conn' = [conn EXCEPT ![c] = Reads(None)],
         UNCHANGED <<sessions, games, game, stops, shutdown, crashed>>, hangup' \subseteq Conns,
         conn[c].pc = "waiting" =>
           conn[c].reply # None \/ shutdown \/ game[conn[c].game].at = "done"
  PROVE  SessionsInv'
<1>1. PICK h \in {Reads(conn[c].sess), Closed, Reads(None)} : conn' = [conn EXCEPT ![c] = h]
  BY DEF ReadNext, Close
<1>2. h \in Handlers /\ HandlerOK(h) BY RestingOK
<1>3. h.pc # "waiting" /\ h.game = None /\ h.cmd # "new_game"
  BY SessionsAssumption DEF Reads, Closed, Commands
<1> QED BY <1>1, <1>2, <1>3, HandlerMoves

\* A handler goes on to another place with the variables it has.
LEMMA HandlerGoes ==
  ASSUME SessionsInv, NEW c \in Conns, NEW label \in Labels, Goto(c, label),
         UNCHANGED <<sessions, games, game, server>>,
         HandlerOK([conn[c] EXCEPT !.pc = label]),
         label \notin {"waiting", "stop", "stopping"}, conn[c].pc # "stopping",
         conn[c].pc = "waiting" =>
           conn[c].reply # None \/ shutdown \/ game[conn[c].game].at = "done"
  PROVE  SessionsInv'
<1> DEFINE h == [conn[c] EXCEPT !.pc = label]
<1>1. conn' = [conn EXCEPT ![c] = h] BY DEF Goto
<1>2. h \in Handlers /\ h.pc = label /\ h.game = conn[c].game /\ h.cmd = conn[c].cmd
  BY DEF SessionsInv, TypeOK, Handlers
<1>3. hangup' \subseteq Conns /\ UNCHANGED <<sessions, games, game, stops, shutdown, crashed>>
  BY DEF server, SessionsInv, TypeOK
<1> HIDE DEF h
<1>4. HandlerOK(h) BY DEF h
<1> QED BY <1>1, <1>2, <1>3, <1>4, HandlerMoves

\* A handler calls a game it may call: the one of its session, or the one it
\* has called before.
LEMMA HandlerCalls ==
  ASSUME SessionsInv, NEW c \in Conns, NEW g \in Created, NEW k \in Commands, k # "new_game",
         Call(c, g, k), UNCHANGED <<sessions, games, game, server>>,
         conn[c].sess # None,
         g = conn[c].game \/ \E s \in SessionIDs : sessions[s] # None /\ sessions[s].gameID = g,
         conn[c].pc = "waiting" =>
           conn[c].reply # None \/ shutdown \/ game[conn[c].game].at = "done"
  PROVE  SessionsInv'
<1> DEFINE h == [conn[c] EXCEPT !.game = g, !.cmd = k, !.reply = None, !.pc = "sending"]
<1>1. conn' = [conn EXCEPT ![c] = h] BY DEF Call
<1>2. /\ h \in Handlers /\ h.pc = "sending" /\ h.game = g /\ h.cmd = k /\ h.reply = None
      /\ h.sess = conn[c].sess
  BY DEF SessionsInv, TypeOK, Handlers, Labels, Created
<1>3. hangup' \subseteq Conns /\ UNCHANGED <<sessions, games, game, stops, shutdown, crashed>>
  BY DEF server, SessionsInv, TypeOK
<1>4. g # None /\ k # None BY SessionsAssumption DEF Created
<1> HIDE DEF h
<1>5. HandlerOK(h) BY <1>2, <1>4 DEF HandlerOK, SessionsInv, HandlersOK
<1> QED BY <1>1, <1>2, <1>3, <1>5, HandlerMoves

\* What a handler does when its call is over.
LEMMA AfterCallKeeps ==
  ASSUME SessionsInv, NEW c \in Conns, NEW ok \in BOOLEAN, AfterCall(c, ok),
         conn[c].pc \in {"sending", "waiting"}, ok => conn[c].reply = "ok",
         UNCHANGED <<sessions, games, game, server>>,
         conn[c].pc = "waiting" =>
           conn[c].reply # None \/ shutdown \/ game[conn[c].game].at = "done"
  PROVE  SessionsInv'
<1>1. /\ HandlerOK(conn[c]) /\ conn[c].sess # None /\ conn[c].game \in Created
      /\ conn[c].cmd \in Commands
  BY DEF SessionsInv, HandlersOK, HandlerOK, TypeOK, Handlers
<1>2. hangup' \subseteq Conns /\ UNCHANGED <<stops, shutdown, crashed>>
  BY DEF server, SessionsInv, TypeOK
<1>3. CASE ReadNext(c) \/ Close(c) BY <1>2, <1>3, HandlerRests
<1>4. CASE conn[c].cmd = "new_game" /\ Goto(c, IF ok THEN "bind" ELSE "failed")
  <2> DEFINE l == IF ok THEN "bind" ELSE "failed"
  <2>1. l \in Labels /\ l \in {"bind", "failed"} /\ (l = "bind" => conn[c].reply = "ok") BY DEF Labels
  <2> HIDE DEF l
  <2>2. HandlerOK([conn[c] EXCEPT !.pc = l])
    BY <1>1, <1>4, <2>1 DEF HandlerOK, SessionsInv, TypeOK, Handlers
  <2> QED BY <1>4, <2>1, <2>2, HandlerGoes DEF l
<1>5. CASE conn[c].cmd = "meta" /\ Call(c, conn[c].game, "look")
  BY <1>1, <1>5, HandlerCalls DEF Commands
<1>6. CASE conn[c].cmd \in {"meta", "look"} /\ Goto(c, "created")
  <2>1. HandlerOK([conn[c] EXCEPT !.pc = "created"])
    BY <1>1, <1>6 DEF HandlerOK, SessionsInv, TypeOK, Handlers
  <2> QED BY <1>6, <2>1, HandlerGoes DEF Labels
<1> QED BY <1>3, <1>4, <1>5, <1>6 DEF AfterCall

\* The steps in which a handler only moves.
LEMMA MovesKeep ==
  ASSUME SessionsInv, NEW c \in Conns,
         \/ Connect(c) \/ ReadEOF(c) \/ InitAnswered(c) \/ EnterLoop(c) \/ CreateFails(c)
         \/ GameStopped(c) \/ NewGameAnswered(c) \/ GameCommand(c) \/ SendPanics(c)
         \/ GiveUp(c) \/ TakeReply(c)
  PROVE  SessionsInv'
<1> USE DEF SessionsInv
<1>1. HandlerOK(conn[c]) /\ hangup \subseteq Conns BY DEF HandlersOK, TypeOK
<1>2. CASE Connect(c)
  <2>1. hangup' \subseteq Conns /\ conn[c].pc # "waiting" BY <1>1, <1>2 DEF Connect
  <2> QED BY <1>2, <2>1, HandlerRests DEF Connect
<1>3. CASE ReadEOF(c) \/ CreateFails(c) \/ GameStopped(c)
  <2>1. ReadNext(c) \/ Close(c) BY <1>3 DEF ReadEOF, CreateFails, GameStopped
  <2>2. /\ hangup' \subseteq Conns /\ conn[c].pc # "waiting"
        /\ UNCHANGED <<sessions, games, game, stops, shutdown, crashed>>
    BY <1>1, <1>3 DEF ReadEOF, CreateFails, GameStopped, server
  <2> QED BY <2>1, <2>2, HandlerRests
<1>4. CASE InitAnswered(c) \/ NewGameAnswered(c)
  <2>1. /\ conn[c].pc \in {"inited", "created"} /\ UNCHANGED <<sessions, games, game, server>>
        /\ ReadNext(c) \/ Goto(c, "enterloop")
    BY <1>4 DEF InitAnswered, NewGameAnswered
  <2>2. HandlerOK([conn[c] EXCEPT !.pc = "enterloop"])
    BY <1>1, <2>1 DEF HandlerOK, TypeOK, Handlers
  <2>3. CASE ReadNext(c) BY <1>1, <2>1, <2>3, HandlerRests DEF server
  <2>4. CASE Goto(c, "enterloop") BY <2>1, <2>2, <2>4, HandlerGoes DEF Labels
  <2> QED BY <2>1, <2>3, <2>4
<1>5. CASE EnterLoop(c) \/ GameCommand(c)
  <2>1. /\ conn[c].pc \in {"enterloop", "read"} /\ UNCHANGED <<sessions, games, game, server>>
        /\ \/ Close(c)
           \/ /\ conn[c].sess # None /\ Session(c).gameID \in games
              /\ Call(c, Session(c).gameID, "run_loop") \/ Call(c, Session(c).gameID, "tool")
    BY <1>1, <1>5 DEF EnterLoop, GameCommand, Reading, HandlerOK
  <2>2. CASE Close(c) BY <1>1, <2>1, <2>2, HandlerRests DEF server
  <2>3. CASE ~Close(c)
    <3>1. /\ conn[c].sess \in SessionIDs /\ sessions[conn[c].sess] # None
          /\ Session(c).gameID \in Created
      BY <1>1, <2>1, <2>3 DEF TypeOK, Handlers, HandlerOK
    <3>2. "run_loop" \in Commands \ {"new_game"} /\ "tool" \in Commands \ {"new_game"} BY DEF Commands
    <3>3. \E s \in SessionIDs : sessions[s] # None /\ sessions[s].gameID = Session(c).gameID
      BY <3>1 DEF Session
    <3> QED BY <2>1, <2>3, <3>1, <3>2, <3>3, HandlerCalls
  <2> QED BY <2>2, <2>3
<1>6. CASE SendPanics(c)
  <2>1. /\ conn[c].pc # "waiting" /\ UNCHANGED <<sessions, games, game, server>>
        /\ ReadNext(c) \/ Close(c)
    BY <1>6 DEF SendPanics
  <2> QED BY <1>1, <2>1, HandlerRests DEF server
<1>7. CASE GiveUp(c) BY <1>7, AfterCallKeeps DEF GiveUp
<1>8. CASE TakeReply(c)
  <2>1. (conn[c].reply = "ok") \in BOOLEAN OBVIOUS
  <2> QED BY <1>8, <2>1, AfterCallKeeps DEF TakeReply
<1> QED BY <1>2, <1>3, <1>4, <1>5, <1>6, <1>7, <1>8

-----------------------------------------------------------------------------
(* Sessions and registries.                                                *)

\* Steps that touch no command in a channel, in execution or waited for.
LEMMA CommandsStay ==
  ASSUME SessionsInv, shutdown' = shutdown,
         \A d \in Conns : /\ conn'[d].pc = "waiting" <=> conn[d].pc = "waiting"
                          /\ conn[d].pc = "waiting" => conn'[d] = conn[d],
         \A g \in GameIDs : /\ game'[g].queue = game[g].queue /\ game'[g].now = game[g].now
                            /\ \/ game'[g].at = game[g].at
                               \/ game[g].at = "unborn" /\ game'[g].at = "select"
  PROVE  Awaited' /\ NoCommandLost'
<1> USE DEF SessionsInv
<1>1. Awaited'
  <2> SUFFICES ASSUME NEW g \in GameIDs, ~shutdown, game'[g].at # "done", NEW k \in Queued
               PROVE  /\ game'[g].queue = <<k>> \/ (game'[g].now = k /\ game'[g].at \in {"busy", "loop"}) =>
                           Awaits(k.conn, g, k.cmd)' /\ conn'[k.conn].reply = None
                      /\ game'[g].queue = <<k>> /\ game'[g].at \in {"busy", "loop"} =>
                           k.conn # game'[g].now.conn
    BY DEF Awaited
  <2>1. k.conn \in Conns BY DEF Queued
  <2>2. Awaits(k.conn, g, k.cmd) =>
          Awaits(k.conn, g, k.cmd)' /\ conn'[k.conn].reply = conn[k.conn].reply
    BY <2>1 DEF Awaits
  <2>3. game[g].at # "done" /\ (game'[g].at \in {"busy", "loop"} => game[g].at = game'[g].at) OBVIOUS
  <2> QED BY <2>2, <2>3 DEF Awaited
<1>2. NoCommandLost'
  <2> SUFFICES ASSUME NEW d \in Conns, conn'[d].pc = "waiting"
               PROVE  LET g == conn'[d].game
                          k == [conn |-> d, cmd |-> conn'[d].cmd]
                      IN  \/ game'[g].queue = <<k>> \/ game'[g].now = k \/ conn'[d].reply # None
                          \/ game'[g].at = "done" \/ shutdown
    BY DEF NoCommandLost
  <2>1. conn'[d] = conn[d] /\ conn[d].game \in GameIDs
    BY DEF HandlersOK, HandlerOK, Created
  <2> QED BY <2>1 DEF NoCommandLost
<1> QED BY <1>1, <1>2

\* session.init binds no game and unbinds none.
LEMMA SessionInitKeeps ==
  ASSUME SessionsInv, NEW c \in Conns, NEW s \in SessionIDs, NEW passthrough \in BOOLEAN,
         SessionInit(c, s, passthrough)
  PROVE  SessionsInv'
<1> USE DEF SessionsInv
<1> DEFINE b == [gameID |-> IF sessions[s] = None THEN None ELSE sessions[s].gameID,
                 passthrough |-> passthrough \/ ~HasNormalMode]
           h == [conn[c] EXCEPT !.sess = s, !.pc = "inited"]
<1>1. /\ conn[c].pc = "read" /\ sessions' = [sessions EXCEPT ![s] = b] /\ conn' = [conn EXCEPT ![c] = h]
      /\ UNCHANGED <<games, game, hangup, stops, shutdown, crashed>>
  BY DEF SessionInit, Reading, server
<1>2. b \in Bindings /\ b # None
  <2>1. (IF sessions[s] = None THEN None ELSE sessions[s].gameID) \in GameIDs \cup {None}
    BY DEF TypeOK, Bindings
  <2>2. (passthrough \/ ~HasNormalMode) \in BOOLEAN OBVIOUS
  <2>3. b \in Bindings BY <2>1, <2>2 DEF Bindings
  <2> QED BY <2>3, SessionsAssumption
<1>3. /\ h \in Handlers /\ h.pc = "inited" /\ h.sess = s
      /\ h.game = conn[c].game /\ h.cmd = conn[c].cmd /\ h.reply = conn[c].reply
  BY DEF TypeOK, Handlers, Labels
<1>4. b.gameID = IF sessions[s] = None THEN None ELSE sessions[s].gameID OBVIOUS
<1> HIDE DEF b, h
<1>5. /\ sessions'[s] = b /\ \A t \in SessionIDs : t # s => sessions'[t] = sessions[t]
      /\ conn'[c] = h /\ \A d \in Conns : d # c => conn'[d] = conn[d]
  BY <1>1 DEF TypeOK
<1>6. Created' = Created BY <1>1 DEF Created
<1>7. TypeOK' BY <1>1, <1>2, <1>3, <1>6 DEF TypeOK
<1>8. Numbered' /\ GamesOK' /\ RegisteredGamesOpen' /\ StopsOpen' /\ NeverCrashes'
  BY <1>1, <1>6 DEF Numbered, GamesOK, RegisteredGamesOpen, StopsOpen, NeverCrashes
<1>9. conn[c].game = None /\ conn[c].cmd = None BY <1>1 DEF HandlersOK, HandlerOK
<1>10. HandlersOK'
  <2> SUFFICES ASSUME NEW d \in Conns PROVE HandlerOK(conn[d])' BY DEF HandlersOK
  <2>1. CASE d = c
    BY <1>1, <1>2, <1>3, <1>5, <1>6, <1>9, <2>1, SessionsAssumption DEF HandlerOK, Commands
  <2>2. CASE d # c
    <3>1. conn'[d] = conn[d] /\ HandlerOK(conn[d]) /\ conn[d].sess \in SessionIDs \cup {None}
      BY <1>5, <2>2 DEF HandlersOK, TypeOK, Handlers
    <3>2. conn[d].sess # None => sessions'[conn[d].sess] # None BY <1>2, <1>5, <3>1 DEF HandlerOK
    <3> QED BY <1>1, <1>6, <3>1, <3>2 DEF HandlerOK
  <2> QED BY <2>1, <2>2
<1>11. \A t \in SessionIDs : sessions'[t] # None /\ sessions'[t].gameID # None =>
         sessions[t] # None /\ sessions[t].gameID = sessions'[t].gameID
  BY <1>4, <1>5
<1>12. BoundGamesHaveState' BY <1>1, <1>11 DEF BoundGamesHaveState
<1>13. Owned'
  <2> SUFFICES ASSUME NEW d \in Conns, conn'[d].cmd = "new_game"
               PROVE  /\ conn'[d].game \notin stops
                      /\ \A t \in SessionIDs : sessions'[t] # None => sessions'[t].gameID # conn'[d].game
                      /\ \A e \in Conns : e # d => conn'[e].game # conn'[d].game
                      /\ conn'[d].pc \in {"stop", "stopping"} => conn'[d].game \notin games
                      /\ conn'[d].pc # "stopping" => ~game[conn'[d].game].closed
    BY <1>1 DEF Owned
  <2>1. d # c /\ conn'[d] = conn[d] /\ conn[d].game # None
    BY <1>3, <1>5, <1>9, SessionsAssumption DEF HandlersOK, HandlerOK, Commands
  <2>2. \A e \in Conns : conn'[e].game = conn[e].game BY <1>3, <1>5
  <2> QED BY <1>11, <2>1, <2>2 DEF Owned
<1>14. Awaited' /\ NoCommandLost' BY <1>1, <1>3, <1>5, CommandsStay
<1> QED BY <1>7, <1>8, <1>10, <1>12, <1>13, <1>14

\* game.new takes the old game out of the registry before it stops it.
LEMMA DropKeeps ==
  ASSUME SessionsInv, NEW c \in Conns, DropOldGame(c)
  PROVE  SessionsInv'
<1> USE DEF SessionsInv
<1> DEFINE old == Session(c).gameID
           h == [conn[c] EXCEPT !.play = ~Session(c).passthrough, !.pc = "create"]
<1>1. /\ conn[c].pc = "read" /\ conn[c].sess # None /\ conn' = [conn EXCEPT ![c] = h]
      /\ UNCHANGED <<sessions, game, hangup, shutdown, crashed>>
      /\ \/ old \in games /\ games' = games \ {old} /\ stops' = stops \cup {old}
         \/ games' = games /\ stops' = stops
  BY DEF DropOldGame, Reading
<1>2. HandlerOK(conn[c]) /\ conn[c].sess \in SessionIDs /\ Session(c) \in Bindings
  BY <1>1 DEF HandlersOK, HandlerOK, TypeOK, Handlers, Session
<1>3. /\ h \in Handlers /\ h.pc = "create" /\ h.sess = conn[c].sess
      /\ h.game = conn[c].game /\ h.cmd = conn[c].cmd /\ h.reply = conn[c].reply
  BY <1>2 DEF TypeOK, Handlers, Labels, Bindings
<1> HIDE DEF h
<1>4. conn'[c] = h /\ \A d \in Conns : d # c => conn'[d] = conn[d] BY <1>1 DEF TypeOK
<1>5. Created' = Created BY <1>1 DEF Created
<1>6. TypeOK' BY <1>1, <1>3, <1>5 DEF TypeOK
<1>7. Numbered' /\ GamesOK' /\ NeverCrashes' /\ BoundGamesHaveState'
  BY <1>1, <1>5 DEF Numbered, GamesOK, NeverCrashes, BoundGamesHaveState
<1>8. RegisteredGamesOpen' /\ StopsOpen' BY <1>1 DEF RegisteredGamesOpen, StopsOpen
<1>9. conn[c].game = None /\ conn[c].cmd = None BY <1>1, <1>2 DEF HandlerOK
<1>10. HandlersOK'
  BY <1>1, <1>2, <1>3, <1>4, <1>5, <1>9, SessionsAssumption DEF HandlersOK, HandlerOK, Commands
<1>11. Owned'
  <2> SUFFICES ASSUME NEW d \in Conns, conn'[d].cmd = "new_game"
               PROVE  /\ conn'[d].game \notin stops'
                      /\ \A t \in SessionIDs : sessions[t] # None => sessions[t].gameID # conn'[d].game
                      /\ \A e \in Conns : e # d => conn'[e].game # conn'[d].game
                      /\ conn'[d].pc \in {"stop", "stopping"} => conn'[d].game \notin games'
                      /\ conn'[d].pc # "stopping" => ~game[conn'[d].game].closed
    BY <1>1 DEF Owned
  <2>1. d # c /\ conn'[d] = conn[d] /\ conn[d].game # None
    BY <1>3, <1>4, <1>9, SessionsAssumption DEF HandlersOK, HandlerOK, Commands
  <2>2. \A e \in Conns : conn'[e].game = conn[e].game BY <1>3, <1>4
  <2>3. old # conn[d].game
    BY <1>1, <1>2, <2>1 DEF Owned, Session, HandlerOK
  <2> QED BY <1>1, <2>1, <2>2, <2>3 DEF Owned
<1>12. Awaited' /\ NoCommandLost' BY <1>1, <1>3, <1>4, CommandsStay
<1> QED BY <1>6, <1>7, <1>8, <1>10, <1>11, <1>12

\* createAndStartGame gives the game an ID nobody has seen.
LEMMA CreateKeeps ==
  ASSUME SessionsInv, NEW c \in Conns, CreateAndStartGame(c)
  PROVE  SessionsInv'
<1> USE DEF SessionsInv
<1>1. PICK n \in 0..MaxGames : Created = 1..n BY DEF Numbered
<1>2. Cardinality(Created) = n
  <2>1. n \in Nat /\ n \in Int /\ 1 \in Int BY SessionsAssumption
  <2>2. Cardinality(1..n) = IF 1 > n THEN 0 ELSE n - 1 + 1 BY <2>1, FS_Interval
  <2> QED BY <1>1, <2>1, <2>2
<1>3. PICK g : g = n + 1 OBVIOUS
<1> DEFINE h == [conn[c] EXCEPT !.game = g, !.cmd = "new_game", !.reply = None, !.pc = "sending"]
<1>4. /\ conn[c].pc = "create" /\ n < MaxGames /\ conn' = [conn EXCEPT ![c] = h]
      /\ game' = [game EXCEPT ![g] = NewGame] /\ games' = games \cup {g}
      /\ UNCHANGED <<sessions, hangup, stops, shutdown, crashed>>
  BY <1>2, <1>3 DEF CreateAndStartGame, Call, server
<1>5. g \in GameIDs /\ g \notin Created /\ Created \cup {g} = 1..(n + 1) /\ n + 1 \in 0..MaxGames /\ g # None
  BY <1>1, <1>3, <1>4, SessionsAssumption DEF GameIDs
<1>6. game[g] = Unborn BY <1>5 DEF Numbered, Created
<1>7. /\ h \in Handlers /\ h.pc = "sending" /\ h.sess = conn[c].sess
      /\ h.game = g /\ h.cmd = "new_game" /\ h.reply = None
  BY <1>5 DEF TypeOK, Handlers, Labels, Commands
<1> HIDE DEF h
<1>8. /\ conn'[c] = h /\ \A d \in Conns : d # c => conn'[d] = conn[d]
      /\ game'[g] = NewGame /\ \A i \in GameIDs : i # g => game'[i] = game[i]
  BY <1>4, <1>5 DEF TypeOK
<1>9. NewGame \in Games /\ NewGame.at = "select" /\ NewGame.queue = <<>> /\ NewGame.now = NoCommand
      /\ NewGame.closed = FALSE /\ NewGame.state = FALSE
  BY DEF NewGame, Unborn, Games
<1>10. Created' = Created \cup {g} BY <1>5, <1>8, <1>9 DEF Created
<1>11. TypeOK' BY <1>4, <1>5, <1>7, <1>9, <1>10 DEF TypeOK
<1>12. Numbered' BY <1>5, <1>8, <1>9, <1>10 DEF Numbered
<1>13. \A i \in GameIDs : game[i].state => i # g BY <1>6 DEF Unborn
<1>14. HandlersOK'
  <2> SUFFICES ASSUME NEW d \in Conns PROVE HandlerOK(conn[d])' BY DEF HandlersOK
  <2>1. CASE d = c
    <3>1. HandlerOK(conn[c]) BY DEF HandlersOK
    <3>2. conn[c].sess # None /\ sessions[conn[c].sess] # None BY <1>4, <3>1 DEF HandlerOK
    <3>3. /\ conn'[c].pc = "sending" /\ conn'[c].sess = conn[c].sess /\ conn'[c].game \in Created'
          /\ conn'[c].game # None /\ conn'[c].cmd = "new_game" /\ conn'[c].reply = None
      BY <1>5, <1>7, <1>8, <1>10
    <3>4. "new_game" # None /\ None # "ok" /\ sessions' = sessions
      BY <1>4, SessionsAssumption DEF Commands
    <3> QED BY <2>1, <3>2, <3>3, <3>4 DEF HandlerOK
  <2>2. CASE d # c
    <3>1. conn'[d] = conn[d] /\ HandlerOK(conn[d]) BY <1>8, <2>2 DEF HandlersOK
    <3>2. conn[d].game # None => conn[d].game \in Created /\ game'[conn[d].game] = game[conn[d].game]
      BY <1>5, <1>8, <3>1 DEF HandlerOK, Created
    <3>3. conn[d].cmd = "new_game" => conn[d].game # None BY <3>1 DEF HandlerOK
    <3> QED BY <1>4, <1>10, <3>1, <3>2, <3>3 DEF HandlerOK
  <2> QED BY <2>1, <2>2
<1>15. GamesOK' BY <1>8, <1>9 DEF GamesOK
<1>16. RegisteredGamesOpen' /\ StopsOpen' /\ NeverCrashes'
  BY <1>4, <1>5, <1>8, <1>9 DEF RegisteredGamesOpen, StopsOpen, NeverCrashes, TypeOK, Created
<1>17. \A s \in SessionIDs : sessions[s] # None => sessions[s].gameID # g
  BY <1>5, <1>6 DEF BoundGamesHaveState, Unborn
<1>18. BoundGamesHaveState'
  <2> SUFFICES ASSUME NEW s \in SessionIDs, sessions[s] # None, sessions[s].gameID # None
               PROVE  game'[sessions[s].gameID].state
    BY <1>4 DEF BoundGamesHaveState
  <2>1. sessions[s].gameID \in GameIDs BY DEF TypeOK, Bindings
  <2> QED BY <1>8, <1>17, <2>1 DEF BoundGamesHaveState
<1>19. Owned'
  <2> SUFFICES ASSUME NEW d \in Conns, conn'[d].cmd = "new_game"
               PROVE  /\ conn'[d].game \notin stops
                      /\ \A t \in SessionIDs : sessions[t] # None => sessions[t].gameID # conn'[d].game
                      /\ \A e \in Conns : e # d => conn'[e].game # conn'[d].game
                      /\ conn'[d].pc \in {"stop", "stopping"} => conn'[d].game \notin games'
                      /\ conn'[d].pc # "stopping" => ~game'[conn'[d].game].closed
    BY <1>4 DEF Owned
  <2>1. \A e \in Conns : conn[e].game # g BY <1>5 DEF HandlersOK, HandlerOK
  <2>2. CASE d = c
    BY <1>5, <1>7, <1>8, <1>9, <1>17, <2>1, <2>2 DEF TypeOK
  <2>3. CASE d # c
    <3>1. conn'[d] = conn[d] /\ conn[d].game \in GameIDs /\ conn[d].game # g
      BY <1>8, <2>1, <2>3 DEF HandlersOK, HandlerOK, Created
    <3>2. game'[conn[d].game] = game[conn[d].game] BY <1>8, <3>1
    <3>3. \A e \in Conns : e # d => conn'[e].game # conn[d].game
      BY <1>7, <1>8, <2>3, <3>1 DEF Owned
    <3> QED BY <1>4, <3>1, <3>2, <3>3 DEF Owned
  <2> QED BY <2>2, <2>3
<1>20. Awaited' /\ NoCommandLost'
  <2>1. \A i \in GameIDs : /\ game'[i].queue = game[i].queue /\ game'[i].now = game[i].now
                           /\ \/ game'[i].at = game[i].at
                              \/ game[i].at = "unborn" /\ game'[i].at = "select"
    BY <1>6, <1>8, <1>9 DEF Unborn
  <2> QED BY <1>4, <1>7, <1>8, <2>1, CommandsStay
<1> QED BY <1>11, <1>12, <1>14, <1>15, <1>16, <1>18, <1>19, <1>20

\* A session is bound to a game that has accepted new_game; from then on the
\* game is not its creator's alone.
LEMMA BindKeeps ==
  ASSUME SessionsInv, NEW c \in Conns, BindGame(c)
  PROVE  SessionsInv'
<1> USE DEF SessionsInv
<1>1. PICK g \in GameIDs : g = conn[c].game /\ game[g].state
  BY DEF BindGame, HandlersOK, HandlerOK, Created
<1>2. PICK s \in SessionIDs : s = conn[c].sess /\ sessions[s] # None
  BY DEF BindGame, HandlersOK, HandlerOK, TypeOK, Handlers
<1> DEFINE b == [sessions[s] EXCEPT !.gameID = g]
           h == [conn[c] EXCEPT !.game = g, !.cmd = "meta", !.reply = None, !.pc = "sending"]
<1>3. /\ conn[c].pc = "bind" /\ sessions' = [sessions EXCEPT ![s] = b]
      /\ conn' = [conn EXCEPT ![c] = h]
      /\ UNCHANGED <<games, game, hangup, stops, shutdown, crashed>>
  BY <1>1, <1>2 DEF BindGame, Call, server
<1>4. b \in Bindings /\ b.gameID = g BY <1>2 DEF TypeOK, Bindings
<1>5. /\ h \in Handlers /\ h.pc = "sending" /\ h.sess = s
      /\ h.game = conn[c].game /\ h.cmd = "meta" /\ h.reply = None
  BY <1>1, <1>2 DEF TypeOK, Handlers, Labels, Commands
<1> HIDE DEF b, h
<1>6. b # None BY <1>4, SessionsAssumption
<1>7. /\ sessions'[s] = b /\ \A t \in SessionIDs : t # s => sessions'[t] = sessions[t]
      /\ conn'[c] = h /\ \A d \in Conns : d # c => conn'[d] = conn[d]
  BY <1>3 DEF TypeOK
<1>8. Created' = Created BY <1>3 DEF Created
<1>9. TypeOK' BY <1>3, <1>4, <1>5, <1>8 DEF TypeOK
<1>10. Numbered' /\ GamesOK' /\ RegisteredGamesOpen' /\ StopsOpen' /\ NeverCrashes'
  BY <1>3, <1>8 DEF Numbered, GamesOK, RegisteredGamesOpen, StopsOpen, NeverCrashes
<1>11. HandlersOK'
  <2> SUFFICES ASSUME NEW d \in Conns PROVE HandlerOK(conn[d])' BY DEF HandlersOK
  <2>1. CASE d = c
    <3>1. HandlerOK(conn[c]) BY DEF HandlersOK
    <3>2. /\ conn'[c].pc = "sending" /\ conn'[c].sess = s /\ sessions'[s] # None
          /\ conn'[c].game = g /\ conn'[c].cmd = "meta" /\ conn'[c].reply = None
      BY <1>1, <1>5, <1>6, <1>7
    <3>3. g # None /\ g \in Created' /\ "meta" # None /\ s # None
      BY <1>1, <1>2, <1>8, <3>1, SessionsAssumption DEF HandlerOK, Commands
    <3> QED BY <2>1, <3>2, <3>3 DEF HandlerOK
  <2>2. CASE d # c
    <3>1. conn'[d] = conn[d] /\ HandlerOK(conn[d]) /\ conn[d].sess \in SessionIDs \cup {None}
      BY <1>7, <2>2 DEF HandlersOK, TypeOK, Handlers
    <3>2. conn[d].sess # None => sessions'[conn[d].sess] # None BY <1>6, <1>7, <3>1 DEF HandlerOK
    <3> QED BY <1>3, <1>8, <3>1, <3>2 DEF HandlerOK
  <2> QED BY <2>1, <2>2
<1>12. BoundGamesHaveState' BY <1>1, <1>3, <1>4, <1>7 DEF BoundGamesHaveState
<1>13. Owned'
  <2> SUFFICES ASSUME NEW d \in Conns, conn'[d].cmd = "new_game"
               PROVE  /\ conn'[d].game \notin stops
                      /\ \A t \in SessionIDs : sessions'[t] # None => sessions'[t].gameID # conn'[d].game
                      /\ \A e \in Conns : e # d => conn'[e].game # conn'[d].game
                      /\ conn'[d].pc \in {"stop", "stopping"} => conn'[d].game \notin games
                      /\ conn'[d].pc # "stopping" => ~game[conn'[d].game].closed
    BY <1>3 DEF Owned
  <2>1. d # c /\ conn'[d] = conn[d] BY <1>5, <1>7
  <2>2. \A e \in Conns : conn'[e].game = conn[e].game BY <1>5, <1>7
  <2>3. g # conn[d].game BY <1>1, <2>1 DEF Owned
  <2>4. \A t \in SessionIDs : sessions'[t] # None => sessions'[t].gameID # conn[d].game
    BY <1>4, <1>7, <2>1, <2>3 DEF Owned
  <2> QED BY <2>1, <2>2, <2>4 DEF Owned
<1>14. Awaited' /\ NoCommandLost' BY <1>3, <1>5, <1>7, CommandsStay
<1> QED BY <1>9, <1>10, <1>11, <1>12, <1>13, <1>14

\* A game that refused new_game leaves the registry.
LEMMA RemoveKeeps ==
  ASSUME SessionsInv, NEW c \in Conns, RemoveGame(c)
  PROVE  SessionsInv'
<1> USE DEF SessionsInv
<1> DEFINE h == [conn[c] EXCEPT !.pc = "stop"]
<1>1. /\ conn[c].pc = "failed" /\ games' = games \ {conn[c].game} /\ conn' = [conn EXCEPT ![c] = h]
      /\ UNCHANGED <<sessions, game, hangup, stops, shutdown, crashed>>
  BY DEF RemoveGame, Goto, server
<1>2. /\ h \in Handlers /\ h.pc = "stop" /\ h.sess = conn[c].sess
      /\ h.game = conn[c].game /\ h.cmd = conn[c].cmd /\ h.reply = conn[c].reply
  BY DEF TypeOK, Handlers, Labels
<1> HIDE DEF h
<1>3. conn'[c] = h /\ \A d \in Conns : d # c => conn'[d] = conn[d] BY <1>1 DEF TypeOK
<1>4. Created' = Created BY <1>1 DEF Created
<1>5. TypeOK' BY <1>1, <1>2, <1>4 DEF TypeOK
<1>6. Numbered' /\ GamesOK' /\ RegisteredGamesOpen' /\ StopsOpen' /\ NeverCrashes' /\ BoundGamesHaveState'
  BY <1>1, <1>4
  DEF Numbered, GamesOK, RegisteredGamesOpen, StopsOpen, NeverCrashes, BoundGamesHaveState
<1>7. HandlersOK' BY <1>1, <1>2, <1>3, <1>4 DEF HandlersOK, HandlerOK
<1>8. Owned'
  <2>1. \A e \in Conns : conn'[e].game = conn[e].game /\ conn'[e].cmd = conn[e].cmd BY <1>2, <1>3
  <2>2. games' \subseteq games /\ conn[c].game \notin games' BY <1>1
  <2> QED BY <1>1, <1>2, <1>3, <2>1, <2>2 DEF Owned
<1>9. Awaited' /\ NoCommandLost' BY <1>1, <1>2, <1>3, CommandsStay
<1> QED BY <1>5, <1>6, <1>7, <1>8, <1>9

\* The channel of a game is closed, by its owner or by the one goroutine that
\* was started to stop it.
LEMMA CloseChannelKeeps ==
  ASSUME SessionsInv, NEW g \in Created, g \notin games, ~game[g].closed,
         game' = [game EXCEPT ![g].closed = TRUE],
         UNCHANGED <<sessions, games, hangup, shutdown, crashed>>, stops' = stops \ {g},
         NEW c,
         \/ conn' = conn /\ g \in stops
         \/ c \in Conns /\ conn[c].pc = "stop" /\ conn[c].game = g /\ Goto(c, "stopping")
  PROVE  SessionsInv'
<1> USE DEF SessionsInv
<1>1. g \in GameIDs BY DEF Created
<1>2. /\ game' \in [GameIDs -> Games] /\ game'[g].closed
      /\ \A i \in GameIDs : i # g => game'[i] = game[i]
      /\ \A i \in GameIDs : /\ game'[i].at = game[i].at /\ game'[i].queue = game[i].queue
                            /\ game'[i].now = game[i].now /\ game'[i].state = game[i].state
  BY <1>1 DEF TypeOK, Games
<1>3. Created' = Created BY <1>2 DEF Created
<1>4. conn' \in [Conns -> Handlers] BY DEF Goto, TypeOK, Handlers, Labels
<1>5. \A d \in Conns :
        /\ conn'[d].sess = conn[d].sess /\ conn'[d].game = conn[d].game
        /\ conn'[d].cmd = conn[d].cmd /\ conn'[d].reply = conn[d].reply
        /\ \/ conn'[d] = conn[d]
           \/ d = c /\ conn[d].pc = "stop" /\ conn[d].game = g /\ conn'[d].pc = "stopping"
  BY DEF Goto, TypeOK, Handlers
<1>6. TypeOK' BY <1>2, <1>3, <1>4 DEF TypeOK
<1>7. Numbered'
  <2>1. \A i \in GameIDs : game'[i].at = "unborn" => i # g BY <1>2 DEF Created
  <2> QED BY <1>2, <1>3, <2>1 DEF Numbered
<1>8. GamesOK' /\ NeverCrashes' BY <1>2 DEF GamesOK, NeverCrashes
<1>9. RegisteredGamesOpen' /\ StopsOpen'
  BY <1>2, <1>3 DEF RegisteredGamesOpen, StopsOpen, TypeOK, Created
<1>10. BoundGamesHaveState'
  <2> SUFFICES ASSUME NEW s \in SessionIDs, sessions[s] # None, sessions[s].gameID # None
               PROVE  game'[sessions[s].gameID].state
    BY DEF BoundGamesHaveState
  <2>1. sessions[s].gameID \in GameIDs BY DEF TypeOK, Bindings
  <2> QED BY <1>2, <2>1 DEF BoundGamesHaveState
<1>11. HandlersOK'
  <2> SUFFICES ASSUME NEW d \in Conns PROVE HandlerOK(conn[d])' BY DEF HandlersOK
  <2>1. HandlerOK(conn[d]) BY DEF HandlersOK
  <2>2. conn[d].cmd = "new_game" => conn[d].game \in GameIDs BY <2>1 DEF HandlerOK, Created
  <2> QED BY <1>2, <1>3, <1>5, <2>1, <2>2 DEF HandlerOK
<1>12. Owned'
  <2> SUFFICES ASSUME NEW d \in Conns, conn[d].cmd = "new_game"
               PROVE  /\ conn'[d].game \notin stops'
                      /\ \A t \in SessionIDs : sessions[t] # None => sessions[t].gameID # conn'[d].game
                      /\ \A e \in Conns : e # d => conn'[e].game # conn'[d].game
                      /\ conn'[d].pc \in {"stop", "stopping"} => conn'[d].game \notin games
                      /\ conn'[d].pc # "stopping" => ~game'[conn'[d].game].closed
    BY <1>5 DEF Owned
  <2>1. conn[d].game \in GameIDs BY DEF HandlersOK, HandlerOK, Created
  <2>2. \A e \in Conns : e # d => conn'[e].game # conn'[d].game BY <1>5 DEF Owned
  <2>3. conn'[d].pc \in {"stop", "stopping"} => conn'[d].game \notin games BY <1>5 DEF Owned
  <2>4. conn'[d].pc # "stopping" => ~game'[conn'[d].game].closed
    <3> SUFFICES ASSUME conn'[d].pc # "stopping" PROVE ~game'[conn[d].game].closed BY <1>5
    <3>1. conn'[d] = conn[d] /\ ~game[conn[d].game].closed BY <1>5 DEF Owned
    <3>2. conn[d].game # g
      <4>1. CASE g \in stops BY <4>1 DEF Owned
      <4>2. CASE c \in Conns /\ conn[c].pc = "stop" /\ conn[c].game = g /\ Goto(c, "stopping")
        <5>1. conn'[c].pc = "stopping" BY <4>2 DEF Goto, TypeOK, Handlers
        <5>2. conn[c].cmd = "new_game" BY <4>2 DEF HandlersOK, HandlerOK
        <5> QED BY <4>2, <5>1, <5>2 DEF Owned
      <4> QED BY <4>1, <4>2
    <3> QED BY <1>2, <2>1, <3>1, <3>2
  <2> QED BY <1>5, <2>2, <2>3, <2>4 DEF Owned
<1>13. Awaited' /\ NoCommandLost'
  <2>1. \A d \in Conns : /\ conn'[d].pc = "waiting" <=> conn[d].pc = "waiting"
                         /\ conn[d].pc = "waiting" => conn'[d] = conn[d]
    BY <1>5
  <2> QED BY <1>2, <2>1, CommandsStay
<1> QED BY <1>6, <1>7, <1>8, <1>9, <1>10, <1>11, <1>12, <1>13

\* Stop by the owner: the game is not registered, and nobody else stops it.
LEMMA StopKeeps ==
  ASSUME SessionsInv, NEW c \in Conns, StopGame(c)
  PROVE  SessionsInv'
<1> USE DEF SessionsInv
<1>1. conn[c].pc = "stop" /\ conn[c].cmd = "new_game" /\ conn[c].game \in Created
  BY DEF StopGame, HandlersOK, HandlerOK
<1>2. /\ conn[c].game \notin games /\ conn[c].game \notin stops /\ ~game[conn[c].game].closed
  BY <1>1 DEF Owned
<1>3. PICK g \in Created : g = conn[c].game BY <1>1
<1>4. /\ game' = [game EXCEPT ![g].closed = TRUE] /\ Goto(c, "stopping")
      /\ UNCHANGED <<sessions, games, hangup, stops, shutdown, crashed>>
  BY <1>2, <1>3 DEF StopGame, server
<1>5. stops' = stops \ {g} BY <1>2, <1>3, <1>4
<1> QED BY <1>1, <1>2, <1>3, <1>4, <1>5, CloseChannelKeeps

\* go oldGame.Stop(): the channel it closes is open, so nothing panics.
LEMMA AsyncStopKeeps ==
  ASSUME SessionsInv, NEW g \in GameIDs, AsyncStop(g)
  PROVE  SessionsInv'
<1> USE DEF SessionsInv
<1>1. g \in Created /\ g \notin games /\ ~game[g].closed
  BY DEF AsyncStop, TypeOK, RegisteredGamesOpen, StopsOpen
<1>2. /\ game' = [game EXCEPT ![g].closed = TRUE] /\ conn' = conn /\ g \in stops
      /\ stops' = stops \ {g} /\ UNCHANGED <<sessions, games, hangup, shutdown>>
      /\ crashed' = (crashed \/ game[g].closed)
  BY DEF AsyncStop
<1>3. crashed' = crashed BY <1>1, <1>2 DEF TypeOK
<1> QED BY <1>1, <1>2, <1>3, CloseChannelKeeps

-----------------------------------------------------------------------------
(* The game goroutines and their channels.                                 *)

\* The part of the invariant that is not about commands.
Frame ==
  /\ TypeOK /\ Numbered /\ HandlersOK /\ GamesOK
  /\ RegisteredGamesOpen /\ StopsOpen /\ NeverCrashes
  /\ Owned /\ BoundGamesHaveState

\* A game goroutine that has been started moves on, or a command enters its
\* channel; handlers that wait may get a reply.
LEMMA GameMoves ==
  ASSUME SessionsInv, NEW g \in GameIDs, NEW r \in Games, game' = [game EXCEPT ![g] = r],
         game[g].at # "unborn", r.at # "unborn",
         r.closed = game[g].closed, game[g].state => r.state,
         r.at \in {"select", "done"} => r.now = NoCommand,
         r.at \in {"busy", "loop"} => r.now \in Queued,
         r.at = "loop" => r.now.cmd = "run_loop",
         UNCHANGED <<sessions, games, server>>,
         conn' \in [Conns -> Handlers],
         \A d \in Conns :
           /\ conn'[d].sess = conn[d].sess /\ conn'[d].game = conn[d].game
           /\ conn'[d].cmd = conn[d].cmd
           /\ conn'[d].pc = conn[d].pc \/ (conn[d].pc = "sending" /\ conn'[d].pc = "waiting")
           /\ \/ conn'[d].reply = conn[d].reply
              \/ /\ conn[d].pc = "waiting"
                 /\ conn[d].cmd = "new_game" /\ conn'[d].reply = "ok" => game'[conn[d].game].state
  PROVE  Frame'
<1> USE DEF SessionsInv
<1>1. /\ game'[g] = r /\ \A i \in GameIDs : i # g => game'[i] = game[i]
      /\ game' \in [GameIDs -> Games]
  BY DEF TypeOK
<1>2. Created' = Created BY <1>1 DEF Created
<1>3. UNCHANGED <<hangup, stops, shutdown, crashed>> BY DEF server
<1>4. TypeOK' BY <1>1, <1>2, <1>3 DEF TypeOK
<1>5. Numbered' BY <1>1, <1>2 DEF Numbered
<1>6. \A i \in GameIDs : game[i].state => game'[i].state BY <1>1
<1>7. \A i \in GameIDs : game'[i].closed = game[i].closed BY <1>1
<1>8. HandlersOK'
  <2> SUFFICES ASSUME NEW d \in Conns PROVE HandlerOK(conn[d])' BY DEF HandlersOK
  <2>1. HandlerOK(conn[d]) BY DEF HandlersOK
  <2>2. conn[d].cmd = "new_game" => conn[d].game \in GameIDs BY <2>1 DEF HandlerOK, Created
  <2>3. conn'[d].cmd = "new_game" /\ conn'[d].reply = "ok" => game'[conn'[d].game].state
    BY <1>6, <2>1, <2>2 DEF HandlerOK
  <2>4. (conn'[d].pc = "sending" => conn'[d].reply = None) /\ (conn'[d].pc = "bind" => conn'[d].reply = "ok")
    BY <2>1 DEF HandlerOK
  <2> QED BY <1>2, <2>1, <2>3, <2>4 DEF HandlerOK
<1>9. GamesOK' BY <1>1 DEF GamesOK
<1>10. RegisteredGamesOpen' /\ StopsOpen' /\ NeverCrashes'
  BY <1>3, <1>7 DEF RegisteredGamesOpen, StopsOpen, NeverCrashes, TypeOK, Created
<1>11. BoundGamesHaveState'
  <2> SUFFICES ASSUME NEW s \in SessionIDs, sessions[s] # None, sessions[s].gameID # None
               PROVE  game'[sessions[s].gameID].state
    BY DEF BoundGamesHaveState
  <2>1. sessions[s].gameID \in GameIDs BY DEF TypeOK, Bindings
  <2> QED BY <1>6, <2>1 DEF BoundGamesHaveState
<1>12. Owned'
  <2> SUFFICES ASSUME NEW d \in Conns, conn[d].cmd = "new_game"
               PROVE  /\ conn[d].game \notin stops
                      /\ \A t \in SessionIDs : sessions[t] # None => sessions[t].gameID # conn[d].game
                      /\ \A e \in Conns : e # d => conn[e].game # conn[d].game
                      /\ conn'[d].pc \in {"stop", "stopping"} => conn[d].game \notin games
                      /\ conn'[d].pc # "stopping" => ~game'[conn[d].game].closed
    BY <1>3 DEF Owned
  <2>1. conn[d].game \in GameIDs BY DEF HandlersOK, HandlerOK, Created
  <2> QED BY <1>7, <2>1 DEF Owned
<1> QED BY <1>4, <1>5, <1>8, <1>9, <1>10, <1>11, <1>12 DEF Frame

\* A command enters an empty channel; the handler that sent it waits.
LEMMA SendKeeps ==
  ASSUME SessionsInv, NEW c \in Conns, SendCommand(c)
  PROVE  SessionsInv'
<1> USE DEF SessionsInv
<1>1. PICK g \in GameIDs : g = conn[c].game /\ g \in Created
  BY DEF SendCommand, HandlersOK, HandlerOK, Created
<1>2. conn[c].pc = "sending" /\ conn[c].cmd \in Commands /\ conn[c].reply = None
  BY DEF SendCommand, HandlersOK, HandlerOK, TypeOK, Handlers
<1>3. PICK k \in Queued : k = [conn |-> c, cmd |-> conn[c].cmd] BY <1>2 DEF Queued
<1> DEFINE r == [game[g] EXCEPT !.queue = <<k>>]
           h == [conn[c] EXCEPT !.pc = "waiting"]
<1>4. /\ game[g].queue = <<>> /\ game' = [game EXCEPT ![g] = r] /\ conn' = [conn EXCEPT ![c] = h]
      /\ UNCHANGED <<sessions, games, server>>
  BY <1>1, <1>3 DEF SendCommand, Goto
<1>5. /\ r \in Games /\ r.at = game[g].at /\ r.now = game[g].now /\ r.closed = game[g].closed
      /\ r.state = game[g].state /\ r.queue = <<k>>
  BY <1>3 DEF TypeOK, Games
<1>6. /\ h \in Handlers /\ h.pc = "waiting" /\ h.sess = conn[c].sess /\ h.game = conn[c].game
      /\ h.cmd = conn[c].cmd /\ h.reply = None
  BY <1>2 DEF TypeOK, Handlers, Labels
<1> HIDE DEF r, h
<1>7. /\ conn'[c] = h /\ \A d \in Conns : d # c => conn'[d] = conn[d]
      /\ conn' \in [Conns -> Handlers]
      /\ game'[g] = r /\ \A i \in GameIDs : i # g => game'[i] = game[i]
  BY <1>4, <1>6 DEF TypeOK
<1>8. Frame'
  <2>1. game[g].at # "unborn" BY <1>1 DEF Created
  <2>2. \A d \in Conns :
           /\ conn'[d].sess = conn[d].sess /\ conn'[d].game = conn[d].game
           /\ conn'[d].cmd = conn[d].cmd
           /\ conn'[d].pc = conn[d].pc \/ (conn[d].pc = "sending" /\ conn'[d].pc = "waiting")
           /\ \/ conn'[d].reply = conn[d].reply
              \/ /\ conn[d].pc = "waiting"
                 /\ conn[d].cmd = "new_game" /\ conn'[d].reply = "ok" => game'[conn[d].game].state
    BY <1>2, <1>6, <1>7
  <2>3. /\ r.at \in {"select", "done"} => r.now = NoCommand
        /\ r.at \in {"busy", "loop"} => r.now \in Queued
        /\ r.at = "loop" => r.now.cmd = "run_loop"
    BY <1>5 DEF GamesOK
  <2>4. /\ r \in Games /\ r.at # "unborn" /\ r.closed = game[g].closed
        /\ game[g].state => r.state
    BY <1>5, <2>1
  <2> HIDE DEF SessionsInv
  <2>5. game' = [game EXCEPT ![g] = r] /\ UNCHANGED <<sessions, games, server>> BY <1>4
  <2>6. conn' \in [Conns -> Handlers] BY <1>7
  <2> QED BY <2>1, <2>2, <2>3, <2>4, <2>5, <2>6, GameMoves
<1>9. UNCHANGED shutdown BY <1>4 DEF server
<1>10. ASSUME NEW i \in GameIDs, NEW j \in Queued, ~shutdown, game[i].at # "done",
              game[i].queue = <<j>> \/ (game[i].now = j /\ game[i].at \in {"busy", "loop"})
       PROVE  /\ j.conn \in Conns /\ j.conn # c
              /\ Awaits(j.conn, i, j.cmd)' /\ conn'[j.conn].reply = None
  <2>1. j.conn \in Conns /\ Awaits(j.conn, i, j.cmd) /\ conn[j.conn].reply = None
    BY <1>10 DEF Awaited, Queued
  <2>2. j.conn # c BY <1>2, <2>1 DEF Awaits
  <2> QED BY <1>7, <2>1, <2>2 DEF Awaits
<1>11. Awaited'
  <2> SUFFICES ASSUME NEW i \in GameIDs, ~shutdown, game'[i].at # "done", NEW j \in Queued
               PROVE  /\ game'[i].queue = <<j>> \/ (game'[i].now = j /\ game'[i].at \in {"busy", "loop"}) =>
                           Awaits(j.conn, i, j.cmd)' /\ conn'[j.conn].reply = None
                      /\ game'[i].queue = <<j>> /\ game'[i].at \in {"busy", "loop"} =>
                           j.conn # game'[i].now.conn
    BY <1>9 DEF Awaited
  <2>1. CASE i # g
    <3>1. game'[i] = game[i] BY <1>7, <2>1
    <3> QED BY <1>10, <3>1 DEF Awaited
  <2>2. CASE i = g
    <3>1. game'[g] = r /\ game[g].at # "done" BY <1>5, <1>7, <2>2
    <3>2. ASSUME game'[g].queue = <<j>> PROVE j = k /\ Awaits(j.conn, g, j.cmd)' /\ conn'[j.conn].reply = None
      <4>1. j = k BY <1>5, <3>1, <3>2
      <4> QED BY <1>1, <1>3, <1>6, <1>7, <4>1 DEF Awaits
    <3>3. game[g].at \in {"busy", "loop"} => game[g].now \in Queued BY DEF GamesOK
    <3>4. game[g].at \in {"busy", "loop"} => game[g].now.conn # c
      BY <1>10, <2>2, <3>1, <3>3
    <3> QED BY <1>3, <1>5, <1>10, <2>2, <3>1, <3>2, <3>4
  <2> QED BY <2>1, <2>2
<1>12. NoCommandLost'
  <2> SUFFICES ASSUME NEW d \in Conns, conn'[d].pc = "waiting"
               PROVE  LET i == conn'[d].game
                          j == [conn |-> d, cmd |-> conn'[d].cmd]
                      IN  \/ game'[i].queue = <<j>> \/ game'[i].now = j \/ conn'[d].reply # None
                          \/ game'[i].at = "done" \/ shutdown
    BY <1>9 DEF NoCommandLost
  <2>1. CASE d = c BY <1>1, <1>3, <1>5, <1>6, <1>7, <2>1
  <2>2. CASE d # c
    <3>1. conn'[d] = conn[d] BY <1>7, <2>2
    <3>2. conn[d].game \in GameIDs BY <3>1 DEF HandlersOK, HandlerOK, Created
    <3> DEFINE i == conn[d].game
               j == [conn |-> d, cmd |-> conn[d].cmd]
    <3>3. \/ game[i].queue = <<j>> \/ game[i].now = j \/ conn[d].reply # None
          \/ game[i].at = "done" \/ shutdown
      BY <3>1 DEF NoCommandLost
    <3> HIDE DEF j
    <3>4. CASE i = g
      <4>1. game[i].queue = <<>> BY <1>4, <3>4
      <4>2. game[i].queue # <<j>> BY <4>1
      <4>3. game'[i].now = game[i].now /\ game'[i].at = game[i].at BY <1>5, <1>7, <3>4
      <4>4. game'[i].now = j \/ conn[d].reply # None \/ game'[i].at = "done" \/ shutdown
        BY <3>3, <4>2, <4>3
      <4> QED BY <3>1, <4>4 DEF j
    <3>5. CASE i # g
      <4>1. game'[i] = game[i] BY <1>7, <3>2, <3>5
      <4> QED BY <3>1, <3>3, <4>1 DEF j
    <3> QED BY <3>4, <3>5
  <2> QED BY <2>1, <2>2
<1> QED BY <1>8, <1>11, <1>12 DEF Frame

\* Handlers do not notice what a game goroutine does for itself.
LEMMA GameMovesAlone ==
  ASSUME SessionsInv, NEW g \in GameIDs, NEW r \in Games, game' = [game EXCEPT ![g] = r],
         game[g].at # "unborn", r.at # "unborn",
         r.closed = game[g].closed, r.state = game[g].state,
         r.at \in {"select", "done"} => r.now = NoCommand,
         r.at \in {"busy", "loop"} => r.now \in Queued,
         r.at = "loop" => r.now.cmd = "run_loop",
         UNCHANGED <<conn, sessions, games, server>>
  PROVE  Frame'
<1>1. conn' \in [Conns -> Handlers] BY DEF SessionsInv, TypeOK
<1>2. \A d \in Conns : conn'[d] = conn[d] OBVIOUS
<1> QED BY <1>1, <1>2, GameMoves

\* The goroutine takes a command out of its channel.
LEMMA NextCommandKeeps ==
  ASSUME SessionsInv, NEW g \in GameIDs, NextCommand(g)
  PROVE  SessionsInv'
<1> USE DEF SessionsInv
<1>1. PICK k \in Queued : game[g].queue = <<k>> BY DEF NextCommand, TypeOK, Games
<1>2. Head(game[g].queue) = k /\ k.cmd \in Commands BY <1>1 DEF Queued
<1> DEFINE at == IF k.cmd = "run_loop" /\ game[g].state THEN "loop" ELSE "busy"
           r == [game[g] EXCEPT !.queue = <<>>, !.now = k, !.at = at]
<1>3. /\ game[g].at = "select" /\ game' = [game EXCEPT ![g] = r]
      /\ UNCHANGED <<conn, sessions, games, server>>
  BY <1>2 DEF NextCommand
<1>4. at \in {"busy", "loop"} /\ (at = "loop" => k.cmd = "run_loop") OBVIOUS
<1> HIDE DEF at
<1>5. /\ r \in Games /\ r.at = at /\ r.now = k /\ r.queue = <<>> /\ r.closed = game[g].closed
      /\ r.state = game[g].state
  BY <1>4 DEF TypeOK, Games
<1> HIDE DEF r
<1>6. game'[g] = r /\ \A i \in GameIDs : i # g => game'[i] = game[i] BY <1>3 DEF TypeOK
<1>7. Frame'
  <2> HIDE DEF SessionsInv
  <2>1. game[g].at # "unborn" /\ r.at # "unborn" BY <1>3, <1>4, <1>5
  <2> QED BY <1>3, <1>4, <1>5, <2>1, GameMovesAlone
<1>8. shutdown' = shutdown BY <1>3 DEF server
<1>9. \A i \in GameIDs, j \in Queued : Awaits(j.conn, i, j.cmd)' <=> Awaits(j.conn, i, j.cmd)
  BY <1>3 DEF Awaits
<1>10. Awaited'
  <2> SUFFICES ASSUME NEW i \in GameIDs, ~shutdown, game'[i].at # "done", NEW j \in Queued
               PROVE  /\ game'[i].queue = <<j>> \/ (game'[i].now = j /\ game'[i].at \in {"busy", "loop"}) =>
                           Awaits(j.conn, i, j.cmd)' /\ conn'[j.conn].reply = None
                      /\ game'[i].queue = <<j>> /\ game'[i].at \in {"busy", "loop"} =>
                           j.conn # game'[i].now.conn
    BY <1>8 DEF Awaited
  <2>1. CASE i # g BY <1>3, <1>6, <1>9, <2>1 DEF Awaited
  <2>2. CASE i = g
    <3>1. Awaits(k.conn, g, k.cmd) /\ conn[k.conn].reply = None BY <1>1, <1>3 DEF Awaited
    <3>2. game'[g].queue # <<j>> /\ game'[g].now = k
      <4>1. Len(<<j>>) = 1 /\ Len(<<>>) = 0 OBVIOUS
      <4>2. game'[g].queue = <<>> /\ game'[g].now = k BY <1>5, <1>6
      <4> QED BY <4>1, <4>2
    <3> QED BY <1>3, <1>9, <2>2, <3>1, <3>2
  <2> QED BY <2>1, <2>2
<1>11. NoCommandLost'
  <2> SUFFICES ASSUME NEW d \in Conns, conn[d].pc = "waiting"
               PROVE  LET i == conn[d].game
                          j == [conn |-> d, cmd |-> conn[d].cmd]
                      IN  \/ game'[i].queue = <<j>> \/ game'[i].now = j \/ conn[d].reply # None
                          \/ game'[i].at = "done" \/ shutdown
    BY <1>3, <1>8 DEF NoCommandLost
  <2> DEFINE j == [conn |-> d, cmd |-> conn[d].cmd]
  <2>1. conn[d].game \in GameIDs BY DEF HandlersOK, HandlerOK, Created
  <2>2. CASE conn[d].game # g BY <1>6, <2>1, <2>2 DEF NoCommandLost
  <2>3. CASE conn[d].game = g
    <3>1. game[g].now = NoCommand BY <1>3 DEF GamesOK
    <3>2. j # NoCommand BY SessionsAssumption DEF NoCommand
    <3> HIDE DEF j
    <3>3. game[g].queue = <<j>> => k = j BY <1>1
    <3>4. \/ game[g].queue = <<j>> \/ game[g].now = j \/ conn[d].reply # None
          \/ game[g].at = "done" \/ shutdown
      BY <2>3 DEF NoCommandLost, j
    <3>5. game'[g].now = k BY <1>5, <1>6
    <3> QED BY <1>3, <2>3, <3>1, <3>2, <3>3, <3>4, <3>5 DEF j
  <2> QED BY <2>2, <2>3
<1> QED BY <1>7, <1>10, <1>11 DEF Frame

\* The goroutine ends: its handlers can give up.
LEMMA GameEndsKeeps ==
  ASSUME SessionsInv, NEW g \in GameIDs, GamePanics(g) \/ GameExits(g)
  PROVE  SessionsInv'
<1> USE DEF SessionsInv
<1> DEFINE r == [game[g] EXCEPT !.at = "done", !.now = NoCommand]
<1>1. /\ game[g].at \in {"busy", "loop", "select"} /\ UNCHANGED <<conn, sessions, games, server>>
      /\ game' = [game EXCEPT ![g] = r]
  BY DEF GamePanics, GameExits, TypeOK, Games, GamesOK
<1>2. /\ r \in Games /\ r.at = "done" /\ r.now = NoCommand /\ r.closed = game[g].closed
      /\ r.state = game[g].state
  BY DEF TypeOK, Games
<1> HIDE DEF r
<1>3. game'[g] = r /\ \A i \in GameIDs : i # g => game'[i] = game[i] BY <1>1 DEF TypeOK
<1>4. Frame'
  <2> HIDE DEF SessionsInv
  <2>1. game[g].at # "unborn" /\ r.at # "unborn" BY <1>1, <1>2
  <2> QED BY <1>1, <1>2, <2>1, GameMovesAlone
<1>5. shutdown' = shutdown BY <1>1 DEF server
<1>6. \A i \in GameIDs, j \in Queued : Awaits(j.conn, i, j.cmd)' <=> Awaits(j.conn, i, j.cmd)
  BY <1>1 DEF Awaits
<1>7. Awaited' BY <1>1, <1>2, <1>3, <1>5, <1>6 DEF Awaited
<1>8. NoCommandLost'
  <2>1. \A d \in Conns : conn[d].pc = "waiting" => conn[d].game \in GameIDs
    BY DEF HandlersOK, HandlerOK, Created
  <2> QED BY <1>1, <1>2, <1>3, <1>5, <2>1 DEF NoCommandLost
<1> QED BY <1>4, <1>7, <1>8 DEF Frame

\* A command is done and its reply goes to the handler that still waits.
LEMMA ReplyKeeps ==
  ASSUME SessionsInv, NEW g \in GameIDs, game[g].at \in {"busy", "loop"},
         NEW result \in {"ok", "err"}, Answer(g, result), NEW st \in BOOLEAN,
         game[g].state => st, game[g].now.cmd = "new_game" /\ result = "ok" => st,
         game' = [game EXCEPT ![g].at = "select", ![g].now = NoCommand, ![g].state = st],
         UNCHANGED <<sessions, games, server>>
  PROVE  SessionsInv'
<1> USE DEF SessionsInv
<1> DEFINE r == [game[g] EXCEPT !.at = "select", !.now = NoCommand, !.state = st]
<1>1. game' = [game EXCEPT ![g] = r] /\ game[g].now \in Queued BY DEF TypeOK, GamesOK
<1>2. /\ r \in Games /\ r.at = "select" /\ r.now = NoCommand /\ r.closed = game[g].closed
      /\ r.state = st /\ r.queue = game[g].queue
  BY DEF TypeOK, Games
<1> HIDE DEF r
<1>3. game'[g] = r /\ \A i \in GameIDs : i # g => game'[i] = game[i] BY <1>1 DEF TypeOK
<1>4. PICK k \in Queued : k = game[g].now BY <1>1
<1>5. k.conn \in Conns /\ result # None BY SessionsAssumption DEF Queued
<1>6. /\ conn' \in [Conns -> Handlers]
      /\ \A d \in Conns :
           /\ conn'[d].sess = conn[d].sess /\ conn'[d].game = conn[d].game
           /\ conn'[d].cmd = conn[d].cmd /\ conn'[d].pc = conn[d].pc
           /\ d = k.conn /\ Awaits(k.conn, g, k.cmd) => conn'[d].reply = result
           /\ ~(d = k.conn /\ Awaits(k.conn, g, k.cmd)) => conn'[d].reply = conn[d].reply
  <2>1. CASE Awaits(k.conn, g, k.cmd)
    <3>1. conn' = [conn EXCEPT ![k.conn].reply = result] BY <1>4, <2>1 DEF Answer
    <3> QED BY <1>5, <2>1, <3>1 DEF TypeOK, Handlers
  <2>2. CASE ~Awaits(k.conn, g, k.cmd)
    <3>1. conn' = conn BY <1>4, <2>2 DEF Answer
    <3> QED BY <2>2, <3>1 DEF TypeOK
  <2> QED BY <2>1, <2>2
<1>7. \A d \in Conns :
         \/ conn'[d].reply = conn[d].reply
         \/ /\ conn[d].pc = "waiting"
            /\ conn[d].cmd = "new_game" /\ conn'[d].reply = "ok" => game'[conn[d].game].state
  <2> SUFFICES ASSUME NEW d \in Conns, conn'[d].reply # conn[d].reply
               PROVE  /\ conn[d].pc = "waiting"
                      /\ conn[d].cmd = "new_game" /\ conn'[d].reply = "ok" => game'[conn[d].game].state
    OBVIOUS
  <2>1. d = k.conn /\ Awaits(k.conn, g, k.cmd) /\ conn'[d].reply = result BY <1>6
  <2>2. conn[d].pc = "waiting" /\ conn[d].game = g /\ conn[d].cmd = k.cmd BY <2>1 DEF Awaits
  <2>3. game'[g].state = st BY <1>2, <1>3
  <2> QED BY <1>4, <2>1, <2>2, <2>3
<1>8. Frame'
  <2> HIDE DEF SessionsInv
  <2>1. game[g].at # "unborn" /\ r.at # "unborn" BY <1>2
  <2> QED BY <1>1, <1>2, <1>6, <1>7, <2>1, GameMoves
<1>9. shutdown' = shutdown BY DEF server
<1>10. Awaited'
  <2> SUFFICES ASSUME NEW i \in GameIDs, ~shutdown, game'[i].at # "done", NEW j \in Queued
               PROVE  /\ game'[i].queue = <<j>> \/ (game'[i].now = j /\ game'[i].at \in {"busy", "loop"}) =>
                           Awaits(j.conn, i, j.cmd)' /\ conn'[j.conn].reply = None
                      /\ game'[i].queue = <<j>> /\ game'[i].at \in {"busy", "loop"} =>
                           j.conn # game'[i].now.conn
    BY <1>9 DEF Awaited
  <2>1. j.conn \in Conns BY DEF Queued
  <2>2. Awaits(j.conn, i, j.cmd)' <=> Awaits(j.conn, i, j.cmd) BY <1>6, <2>1 DEF Awaits
  <2>3. CASE i # g
    <3>1. game'[i] = game[i] BY <1>3, <2>3
    <3>2. ASSUME Awaits(j.conn, i, j.cmd) PROVE conn'[j.conn].reply = conn[j.conn].reply
      BY <1>6, <2>1, <2>3, <3>2 DEF Awaits
    <3> QED BY <2>2, <3>1, <3>2 DEF Awaited
  <2>4. CASE i = g
    <3>1. game'[g].queue = game[g].queue /\ game'[g].at = "select" BY <1>2, <1>3
    <3>2. ASSUME game[g].queue = <<j>>
          PROVE  Awaits(j.conn, g, j.cmd) /\ conn[j.conn].reply = None /\ j.conn # k.conn
      BY <1>4, <3>2 DEF Awaited
    <3> QED BY <1>6, <2>1, <2>2, <2>4, <3>1, <3>2
  <2> QED BY <2>3, <2>4
<1>11. NoCommandLost'
  <2> SUFFICES ASSUME NEW d \in Conns, conn[d].pc = "waiting"
               PROVE  LET i == conn[d].game
                          j == [conn |-> d, cmd |-> conn[d].cmd]
                      IN  \/ game'[i].queue = <<j>> \/ game'[i].now = j \/ conn'[d].reply # None
                          \/ game'[i].at = "done" \/ shutdown
    BY <1>6, <1>9 DEF NoCommandLost
  <2> DEFINE j == [conn |-> d, cmd |-> conn[d].cmd]
  <2>1. conn[d].game \in GameIDs BY DEF HandlersOK, HandlerOK, Created
  <2>2. conn[d].reply # None => conn'[d].reply # None BY <1>5, <1>6
  <2>3. CASE conn[d].game # g BY <1>3, <2>1, <2>2, <2>3 DEF NoCommandLost
  <2>4. CASE conn[d].game = g
    <3>1. j.conn = d /\ j.cmd = conn[d].cmd OBVIOUS
    <3>2. \/ game[g].queue = <<j>> \/ game[g].now = j \/ conn[d].reply # None
          \/ game[g].at = "done" \/ shutdown
      BY <2>4 DEF NoCommandLost
    <3> HIDE DEF j
    <3>3. game[g].now = j => conn'[d].reply # None
      <4> SUFFICES ASSUME game[g].now = j PROVE conn'[d].reply # None OBVIOUS
      <4>1. k = j BY <1>4
      <4>2. Awaits(k.conn, g, k.cmd) /\ k.conn = d BY <2>4, <3>1, <4>1 DEF Awaits
      <4> QED BY <1>5, <1>6, <4>2
    <3> QED BY <1>2, <1>3, <2>2, <2>4, <3>2, <3>3 DEF j
  <2> QED BY <2>3, <2>4
<1> QED BY <1>8, <1>10, <1>11 DEF Frame

\* A client that goes away, and shutdown.
LEMMA OutsideKeeps ==
  ASSUME SessionsInv, Shutdown \/ \E c \in Conns : Hangup(c)
  PROVE  SessionsInv'
<1> USE DEF SessionsInv
<1>1. /\ UNCHANGED <<conn, sessions, games, game, stops, crashed>> /\ hangup' \subseteq Conns
      /\ shutdown' \in BOOLEAN /\ (shutdown => shutdown')
  BY DEF Shutdown, Hangup, TypeOK
<1>2. Created' = Created BY <1>1 DEF Created
<1>3. TypeOK' /\ Numbered' /\ HandlersOK' /\ GamesOK'
  BY <1>1, <1>2 DEF TypeOK, Numbered, HandlersOK, HandlerOK, GamesOK
<1>4. RegisteredGamesOpen' /\ StopsOpen' /\ NeverCrashes' /\ Owned' /\ BoundGamesHaveState'
  BY <1>1 DEF RegisteredGamesOpen, StopsOpen, NeverCrashes, Owned, BoundGamesHaveState
<1>5. Awaited' /\ NoCommandLost' BY <1>1 DEF Awaited, Awaits, NoCommandLost
<1> QED BY <1>3, <1>4, <1>5

-----------------------------------------------------------------------------
(* The theorems.                                                           *)

\* The invariant holds when the daemon starts.
LEMMA SessionsInit == Init => SessionsInv
<1> SUFFICES ASSUME Init PROVE SessionsInv OBVIOUS
<1> USE DEF Init
<1>1. Unborn \in Games /\ Unborn.at = "unborn" /\ Unborn.now = NoCommand /\ Unborn.queue = <<>>
  BY DEF Unborn, Games
<1>2. /\ Closed \in Handlers /\ Closed.pc = "closed" /\ Closed.game = None /\ Closed.cmd = None
      /\ Closed.sess = None
  BY DEF Closed, Reads, Handlers, Labels
<1>3. Created = {} BY <1>1 DEF Created
<1>4. TypeOK BY <1>1, <1>2, <1>3 DEF TypeOK
<1>5. Numbered
  <2>1. 0 \in 0..MaxGames /\ 1..0 = {} BY SessionsAssumption
  <2> QED BY <1>1, <1>3, <2>1 DEF Numbered
<1>6. HandlersOK BY <1>2, SessionsAssumption DEF HandlersOK, HandlerOK, Commands
<1>7. GamesOK BY <1>1 DEF GamesOK
<1>8. RegisteredGamesOpen /\ StopsOpen /\ NeverCrashes /\ BoundGamesHaveState
  BY DEF RegisteredGamesOpen, StopsOpen, NeverCrashes, BoundGamesHaveState
<1>9. Owned BY <1>2, SessionsAssumption DEF Owned, Commands
<1>10. Awaited
  <2>1. \A k \in Queued : <<k>> # <<>>
    <3> TAKE k \in Queued
    <3>1. Len(<<k>>) = 1 /\ Len(<<>>) = 0 OBVIOUS
    <3> QED BY <3>1
  <2> QED BY <1>1, <2>1 DEF Awaited
<1>11. NoCommandLost BY <1>2 DEF NoCommandLost
<1> QED BY <1>4, <1>5, <1>6, <1>7, <1>8, <1>9, <1>10, <1>11 DEF SessionsInv

\* Every step of the daemon keeps the invariant.
LEMMA SessionsStep == SessionsInv /\ [Next]_vars => SessionsInv'
<1> SUFFICES ASSUME SessionsInv, [Next]_vars PROVE SessionsInv' OBVIOUS
<1>1. CASE UNCHANGED vars
  <2>1. Created' = Created BY <1>1 DEF vars, Created
  <2>2. TypeOK' /\ Numbered' /\ HandlersOK' /\ GamesOK'
    BY <1>1, <2>1 DEF vars, SessionsInv, TypeOK, Numbered, HandlersOK, HandlerOK, GamesOK
  <2>3. RegisteredGamesOpen' /\ StopsOpen' /\ NeverCrashes' /\ Owned' /\ BoundGamesHaveState'
    BY <1>1
    DEF vars, SessionsInv, RegisteredGamesOpen, StopsOpen, NeverCrashes, Owned, BoundGamesHaveState
  <2>4. Awaited' /\ NoCommandLost' BY <1>1 DEF vars, SessionsInv, Awaited, Awaits, NoCommandLost
  <2> QED BY <2>2, <2>3, <2>4 DEF SessionsInv
<1>2. ASSUME NEW c \in Conns, Connect(c) \/ Request(c) \/ HandlerStep(c) PROVE SessionsInv'
  BY <1>2, MovesKeep, SessionInitKeeps, DropKeeps, CreateKeeps, BindKeeps, RemoveKeeps, StopKeeps,
     SendKeeps DEF Request, HandlerStep
<1>3. ASSUME NEW g \in GameIDs, Execute(g) PROVE SessionsInv'
  <2>1. PICK ok \in BOOLEAN :
          /\ Answer(g, IF ok THEN "ok" ELSE "err")
          /\ game' = [game EXCEPT ![g].at = "select", ![g].now = NoCommand,
                       ![g].state = @ \/ (ok /\ game[g].now.cmd = "new_game")]
    BY <1>3 DEF Execute
  <2>2. game[g].at = "busy" /\ UNCHANGED <<sessions, games, server>> BY <1>3 DEF Execute
  <2>3. PICK st \in BOOLEAN : st = (game[g].state \/ (ok /\ game[g].now.cmd = "new_game")) OBVIOUS
  <2>4. game' = [game EXCEPT ![g].at = "select", ![g].now = NoCommand, ![g].state = st]
    BY <2>1, <2>3 DEF SessionsInv, TypeOK
  <2>5. PICK result \in {"ok", "err"} : Answer(g, result) /\ (result = "ok" => ok) BY <2>1
  <2>6. (game[g].state => st) /\ (game[g].now.cmd = "new_game" /\ result = "ok" => st)
    BY <2>3, <2>5
  <2> QED BY <2>2, <2>4, <2>5, <2>6, ReplyKeeps
<1>4. ASSUME NEW g \in GameIDs, LoopEnds(g) \/ LoopQuits(g) PROVE SessionsInv'
  <2>1. /\ game[g].at = "loop" /\ Answer(g, "ok") /\ UNCHANGED <<sessions, games, server>>
        /\ game' = [game EXCEPT ![g].at = "select", ![g].now = NoCommand]
    BY <1>4 DEF LoopEnds, LoopQuits, LoopReturns
  <2>2. PICK st \in BOOLEAN : st = game[g].state BY DEF SessionsInv, TypeOK, Games
  <2>3. game' = [game EXCEPT ![g].at = "select", ![g].now = NoCommand, ![g].state = st]
    BY <2>1, <2>2 DEF SessionsInv, TypeOK, Games
  <2>4. game[g].now.cmd # "new_game" BY <2>1 DEF SessionsInv, GamesOK
  <2> QED BY <2>1, <2>2, <2>3, <2>4, ReplyKeeps
<1> QED BY <1>1, <1>2, <1>3, <1>4, NextCommandKeeps, GameEndsKeeps, AsyncStopKeeps, OutsideKeeps
        DEF Next, GameStep

\* The invariant that relates handlers, sessions, registries, channels and
\* goroutines holds throughout.
THEOREM SessionsSafe == Spec => []SessionsInv
BY SessionsInit, SessionsStep, PTL DEF Spec

\* The daemon's state keeps its shape: at most one command waits in a game's
\* channel, only created games are registered or stopped.
THEOREM SessionsTypes == Spec => []TypeOK
BY SessionsSafe, PTL DEF SessionsInv

\* For any number of connections that replace, stop and abandon games at the
\* same time, no game's channel is closed twice by "go oldGame.Stop()": the
\* daemon never panics there (handleGameNew, Game.Stop).
THEOREM DaemonSurvives == Spec => []NeverCrashes
BY SessionsSafe, PTL DEF SessionsInv

\* gameForSession only ever returns a game whose channel is open and whose
\* stop has not been started.
THEOREM RegistryOpen == Spec => []RegisteredGamesOpen
BY SessionsSafe, PTL DEF SessionsInv

\* A session leads only to games that have accepted new_game.
THEOREM BoundReady == Spec => []BoundGamesHaveState
BY SessionsSafe, PTL DEF SessionsInv

\* A running game loop is the only user of its connection.
THEOREM LoopsOwn == Spec => []LoopOwnsConnection
<1>1. SessionsInv => LoopOwnsConnection
  <2> SUFFICES ASSUME SessionsInv, NEW g \in GameIDs, game[g].at = "loop", ~shutdown
               PROVE  LET c == game[g].now.conn
                      IN  Awaits(c, g, "run_loop") /\ conn[c].reply = None
    BY DEF LoopOwnsConnection
  <2>1. game[g].now \in Queued /\ game[g].now.cmd = "run_loop" BY DEF SessionsInv, GamesOK
  <2>2. Awaits(game[g].now.conn, g, game[g].now.cmd) /\ conn[game[g].now.conn].reply = None
    BY <2>1 DEF SessionsInv, Awaited
  <2> QED BY <2>1, <2>2
<1> QED BY <1>1, SessionsSafe, PTL

\* No command gets lost between a handler and a game goroutine.
THEOREM CommandsKept == Spec => []NoCommandLost
BY SessionsSafe, PTL DEF SessionsInv
=============================================================================
