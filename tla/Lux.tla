-------------------------------- MODULE Lux --------------------------------
(***************************************************************************)
(* The Lux display mode of cryptd (serve --lux): the game loop, its Lux    *)
(* renderer, the Display with its event goroutine, the Lux client with its *)
(* reader goroutine, the socket, and the Lux server and its user (which    *)
(* are external: one ack for every scene or update, interactions at will,  *)
(* death at any time).                                                     *)
(*                                                                         *)
(* A scene is a room, a combat flag and the number of the call that drew   *)
(* it last; the elements it is made of are left out.  An interaction is a  *)
(* text change, a click on Send or a click on another button, numbered by  *)
(* the order in which the user made it.                                    *)
(***************************************************************************)
EXTENDS Naturals, Sequences, SequencesExt

CONSTANTS
  Rooms,      \* rooms of the scenario
  StartRoom,  \* the room the game starts in
  NoRoom,     \* the renderer's last room before the first scene
  AckCap,     \* capacity of Client.acks (16 in the code)
  InterCap,   \* capacity of Client.interactions (64)
  EventCap,   \* capacity of Display.events (64)
  MaxSaid     \* bound: interactions the user makes

ASSUME LuxAssumption ==
  /\ StartRoom \in Rooms /\ NoRoom \notin Rooms
  /\ {AckCap, InterCap, EventCap} \subseteq Nat \ {0}
  /\ MaxSaid \in Nat

VARIABLES
  \* the game loop (main goroutine) and the renderer
  pc,        \* where the loop is
  game,      \* room and combat flag of the game state
  last,      \* the command being rendered ends the loop (quit, hero died)
  calls,     \* number of show and update calls made
  lastRoom, inCombat,   \* renderer.Lux
  writeErr,  \* Display.writeErr is set
  \* the client
  conn,      \* Client.conn is not nil
  acks, interactions,   \* the reader's channels
  reader,    \* reader goroutine: "read", "route", "drain", "push", "exit"
  batch,     \* messages of the last Read not yet routed
  readerErr,
  overran,   \* history: some message found its channel full
  \* the display's event goroutine
  display,   \* "select", "emit", "exit"
  pendingText, \* number of the buffered text change, 0 when empty
  held,      \* the event being sent
  events,    \* Display.events
  done,      \* Display.done is closed
  consumed,  \* history: the events the loop has taken
  \* the socket and the Lux server
  toLux, fromLux, luxUp, screen, said

loopVars == <<pc, game, last, calls, lastRoom, inCombat, consumed>>
clientVars == <<conn, acks, interactions, reader, batch, readerErr, overran>>
displayVars == <<display, pendingText, held, events, done>>
luxVars == <<toLux, fromLux, luxUp, screen, said>>
vars == <<loopVars, writeErr, clientVars, displayVars, luxVars>>

Games == [room : Rooms, fight : BOOLEAN]
Kinds == {"text", "empty", "send", "button"}
Running == pc \notin {"exited", "failed"}

Init ==
  /\ pc = "connect" /\ game = [room |-> StartRoom, fight |-> FALSE]
  /\ last = FALSE /\ calls = 0
  /\ lastRoom = NoRoom /\ inCombat = FALSE /\ writeErr = FALSE
  /\ conn = FALSE /\ acks = <<>> /\ interactions = <<>>
  /\ reader = "read" /\ batch = <<>> /\ readerErr = FALSE /\ overran = FALSE
  /\ display = "select" /\ pendingText = 0 /\ held = <<>>
  /\ events = <<>> /\ done = FALSE /\ consumed = <<>>
  /\ toLux = <<>> /\ fromLux = <<>> /\ luxUp = TRUE /\ said = <<>>
  /\ screen = [room |-> NoRoom, fight |-> FALSE, n |-> 0]

-----------------------------------------------------------------------------
(* The game loop.  An error of Render or of Connect ends the process with  *)
(* os.Exit(1): the deferred cleanup does not run.                          *)

\* createLuxRenderer: dial, handshake, start the two goroutines; or fail.
Connect ==
  /\ pc = "connect"
  /\ \/ luxUp /\ pc' = "render" /\ conn' = TRUE
     \/ pc' = "failed" /\ conn' = FALSE
  /\ UNCHANGED <<game, last, calls, lastRoom, inCombat, consumed, writeErr, acks,
                 interactions, reader, batch, readerErr, overran, displayVars, luxVars>>

\* Mutant: only a new room calls for a new scene.
NeedsSceneRoomOnly == game.room # lastRoom
\* A new room or the start or end of a fight needs a whole new scene.
NeedsScene == game.room # lastRoom \/ game.fight # inCombat

\* Render up to the wait for the ack.  The renderer remembers the scene
\* before it is sent; a failed write is recorded and returned at once.
Render ==
  /\ pc = "render"
  /\ lastRoom' = IF NeedsScene THEN game.room ELSE lastRoom
  /\ inCombat' = IF NeedsScene THEN game.fight ELSE inCombat
  /\ calls' = calls + 1
  /\ IF luxUp
     THEN /\ toLux' = Append(toLux, [show |-> NeedsScene, n |-> calls + 1,
                                     room |-> game.room, fight |-> game.fight])
          /\ pc' = "ack" /\ UNCHANGED writeErr
     ELSE writeErr' = TRUE /\ pc' = "failed" /\ UNCHANGED toLux
  /\ UNCHANGED <<game, last, consumed, clientVars, displayVars, fromLux, luxUp, screen, said>>

\* Render returns: displayErr looks at the first error ever recorded, which
\* the event goroutine may have set.
Returned == pc' = IF writeErr' THEN "failed" ELSE IF last THEN "close" ELSE "wait"

WaitAck ==
  /\ pc = "ack" /\ acks # <<>>
  /\ acks' = Tail(acks)
  /\ writeErr' = (writeErr \/ Head(acks).error)
  /\ Returned
  /\ UNCHANGED <<game, last, calls, lastRoom, inCombat, consumed, conn, interactions,
                 reader, batch, readerErr, overran, displayVars, luxVars>>

\* waitAck sees the end of the reader: an error either way.
WaitAckReaderDone ==
  /\ pc = "ack" /\ reader = "exit"
  /\ writeErr' = TRUE /\ Returned
  /\ UNCHANGED <<game, last, calls, lastRoom, inCombat, consumed, clientVars, displayVars, luxVars>>

\* Mutant: a timeout is not recorded, the game goes on without the ack.
TimeoutForgiven ==
  /\ pc = "ack"
  /\ UNCHANGED writeErr /\ Returned
  /\ UNCHANGED <<game, last, calls, lastRoom, inCombat, consumed, clientVars, displayVars, luxVars>>
\* recvTimeout passes, whether or not the ack is on its way.
WaitAckTimeout ==
  /\ pc = "ack"
  /\ writeErr' = TRUE /\ Returned
  /\ UNCHANGED <<game, last, calls, lastRoom, inCombat, consumed, clientVars, displayVars, luxVars>>

\* The loop takes an event and dispatches the command; loading a game may
\* lead to any room and fight, quitting and dying end the loop after the
\* render.
TakeEvent ==
  /\ pc = "wait" /\ events # <<>>
  /\ events' = Tail(events) /\ consumed' = Append(consumed, Head(events))
  /\ game' \in Games /\ last' \in BOOLEAN
  /\ pc' = "render"
  /\ UNCHANGED <<calls, lastRoom, inCombat, writeErr, clientVars, display, pendingText,
                 held, done, luxVars>>

\* The event channel is closed: the loop returns without an error.
EventsClosed ==
  /\ pc = "wait" /\ events = <<>> /\ display = "exit"
  /\ pc' = "close"
  /\ UNCHANGED <<game, last, calls, lastRoom, inCombat, consumed, writeErr, clientVars,
                 displayVars, luxVars>>

\* Mutant: the connection stays open when the display is closed.
CloseKeepsConn ==
  /\ pc = "close"
  /\ done' = TRUE
  /\ pc' = "join"
  /\ UNCHANGED <<game, last, calls, lastRoom, inCombat, consumed, writeErr, clientVars,
                 display, pendingText, held, events, luxVars>>
\* The deferred cleanup: close done, drop and close the connection ...
Close ==
  /\ pc = "close"
  /\ done' = TRUE /\ conn' = FALSE
  /\ pc' = "join"
  /\ UNCHANGED <<game, last, calls, lastRoom, inCombat, consumed, writeErr, acks,
                 interactions, reader, batch, readerErr, overran, display, pendingText,
                 held, events, luxVars>>

\* ... and wait for the reader; the second Close finds no connection.
Join ==
  /\ pc = "join" /\ reader = "exit"
  /\ pc' = "exited"
  /\ UNCHANGED <<game, last, calls, lastRoom, inCombat, consumed, writeErr, clientVars,
                 displayVars, luxVars>>

-----------------------------------------------------------------------------
(* The reader goroutine.                                                   *)

\* One Read returns any number of the frames that have arrived.
Read ==
  /\ Running /\ reader = "read" /\ conn
  /\ \E k \in 1..Len(fromLux) :
       /\ batch' = SubSeq(fromLux, 1, k)
       /\ fromLux' = SubSeq(fromLux, k + 1, Len(fromLux))
  /\ reader' = "route"
  /\ UNCHANGED <<loopVars, writeErr, conn, acks, interactions, readerErr, overran,
                 displayVars, toLux, luxUp, screen, said>>

\* The connection is gone: nil at the top of the loop (no error), closed
\* under the Read, or ended by the server.  Lux sends well-formed frames.
ReadFails ==
  /\ Running /\ pc # "connect" /\ reader = "read"
  /\ ~conn \/ (~luxUp /\ fromLux = <<>>)
  /\ reader' = "exit" /\ readerErr' \in BOOLEAN /\ (conn => readerErr')
  /\ UNCHANGED <<loopVars, writeErr, conn, acks, interactions, batch, overran,
                 displayVars, luxVars>>

IsAck(m) == "error" \in DOMAIN m
Room(m) == IF IsAck(m) THEN Len(acks) < AckCap ELSE Len(interactions) < InterCap
Routed(m) ==
  /\ acks' = IF IsAck(m) THEN Append(acks, m) ELSE acks
  /\ interactions' = IF IsAck(m) THEN interactions ELSE Append(interactions, m)
  /\ batch' = Tail(batch)
  /\ reader' = IF Len(batch) = 1 THEN "read" ELSE "route"

\* select with default: send if there is room, otherwise go and make some.
Route ==
  /\ Running /\ reader = "route"
  /\ IF Room(Head(batch))
     THEN Routed(Head(batch)) /\ UNCHANGED overran
     ELSE /\ reader' = "drain" /\ overran' = TRUE
          /\ UNCHANGED <<acks, interactions, batch>>
  /\ UNCHANGED <<loopVars, writeErr, conn, readerErr, displayVars, luxVars>>

\* Receive the oldest message: blocks if a consumer has been faster.
Drain ==
  /\ Running /\ reader = "drain"
  /\ IF IsAck(Head(batch))
     THEN acks # <<>> /\ acks' = Tail(acks) /\ UNCHANGED interactions
     ELSE interactions # <<>> /\ interactions' = Tail(interactions) /\ UNCHANGED acks
  /\ reader' = "push"
  /\ UNCHANGED <<loopVars, writeErr, conn, batch, readerErr, overran, displayVars, luxVars>>

Push ==
  /\ Running /\ reader = "push" /\ Room(Head(batch))
  /\ Routed(Head(batch))
  /\ UNCHANGED <<loopVars, writeErr, conn, readerErr, overran, displayVars, luxVars>>

-----------------------------------------------------------------------------
(* The display's event goroutine.                                          *)

DisplayDone ==
  /\ Running /\ display \in {"select", "emit"} /\ done
  /\ display' = "exit"
  /\ UNCHANGED <<loopVars, writeErr, clientVars, pendingText, held, events, done, luxVars>>

DisplayReaderDone ==
  /\ Running /\ display = "select" /\ reader = "exit"
  /\ display' = "exit" /\ writeErr' = (writeErr \/ readerErr)
  /\ UNCHANGED <<loopVars, clientVars, pendingText, held, events, done, luxVars>>

\* Mutant: the buffered text is not cleared when it is sent.
InteractionResent ==
  /\ Running /\ display = "select" /\ interactions # <<>>
  /\ LET m == Head(interactions) IN
     /\ interactions' = Tail(interactions)
     /\ pendingText' = CASE m.kind = "text" -> m.n [] m.kind = "empty" -> 0
                         [] OTHER -> pendingText
     /\ IF m.kind = "button" \/ (m.kind = "send" /\ pendingText # 0)
        THEN /\ held' = <<[n |-> m.n, text |-> IF m.kind = "send" THEN pendingText ELSE 0]>>
             /\ display' = "emit"
        ELSE UNCHANGED <<held, display>>
  /\ UNCHANGED <<loopVars, writeErr, conn, acks, reader, batch, readerErr, overran,
                 events, done, luxVars>>
\* A text change is buffered (an empty one too), Send submits what is
\* buffered, if anything, and another button is an event of its own.
Interaction ==
  /\ Running /\ display = "select" /\ interactions # <<>>
  /\ LET m == Head(interactions) IN
     /\ interactions' = Tail(interactions)
     /\ pendingText' = CASE m.kind = "text" -> m.n [] m.kind = "button" -> pendingText
                         [] OTHER -> 0
     /\ IF m.kind = "button" \/ (m.kind = "send" /\ pendingText # 0)
        THEN /\ held' = <<[n |-> m.n, text |-> IF m.kind = "send" THEN pendingText ELSE 0]>>
             /\ display' = "emit"
        ELSE UNCHANGED <<held, display>>
  /\ UNCHANGED <<loopVars, writeErr, conn, acks, reader, batch, readerErr, overran,
                 events, done, luxVars>>

Emit ==
  /\ Running /\ display = "emit" /\ Len(events) < EventCap
  /\ events' = events \o held /\ held' = <<>>
  /\ display' = "select"
  /\ UNCHANGED <<loopVars, writeErr, clientVars, pendingText, done, luxVars>>

-----------------------------------------------------------------------------
(* The Lux server and its user, as long as the process lives.             *)

\* Lux draws a scene or patches the one it shows and acknowledges it, or
\* acknowledges it with an error and draws nothing.
LuxDraws ==
  /\ Running /\ luxUp /\ toLux # <<>>
  /\ LET m == Head(toLux) IN \E error \in BOOLEAN :
     /\ fromLux' = Append(fromLux, [n |-> m.n, error |-> error])
     /\ screen' = CASE ~error /\ m.show  -> [room |-> m.room, fight |-> m.fight, n |-> m.n]
                    [] ~error /\ ~m.show -> [screen EXCEPT !.n = m.n]
                    [] OTHER -> screen
  /\ toLux' = Tail(toLux)
  /\ UNCHANGED <<loopVars, writeErr, clientVars, displayVars, luxUp, said>>

\* The user touches a scene that is shown.
UserActs ==
  /\ Running /\ luxUp /\ screen.n # 0 /\ Len(said) < MaxSaid
  /\ \E k \in Kinds :
     /\ said' = Append(said, k)
     /\ fromLux' = Append(fromLux, [kind |-> k, n |-> Len(said) + 1])
  /\ UNCHANGED <<loopVars, writeErr, clientVars, displayVars, toLux, luxUp, screen>>

LuxDies ==
  /\ Running /\ luxUp /\ luxUp' = FALSE
  /\ UNCHANGED <<loopVars, writeErr, clientVars, displayVars, toLux, fromLux, screen, said>>

Loop == Connect \/ Render \/ WaitAck \/ WaitAckReaderDone \/ WaitAckTimeout
        \/ TakeEvent \/ EventsClosed \/ Close \/ Join
Reader == Read \/ ReadFails \/ Route \/ Drain \/ Push
Events == DisplayDone \/ DisplayReaderDone \/ Interaction \/ Emit
Next == Loop \/ Reader \/ Events \/ LuxDraws \/ UserActs \/ LuxDies

Spec == Init /\ [][Next]_vars
\* Every goroutine runs on; the select's timer makes WaitAckTimeout fair.
FairSpec == Spec /\ WF_vars(Loop) /\ WF_vars(Reader) /\ WF_vars(Events)

-----------------------------------------------------------------------------
(* Properties                                                              *)

\* Whenever the loop waits for the player, the screen shows the room and the
\* fight the game is in, and the very last call is on it: an update never
\* patches a scene of another room or fight, and no call is taken for done
\* because of another one's ack (Render and waitAck).
ScreenCurrent ==
  pc = "wait" => screen = [room |-> game.room, fight |-> game.fight, n |-> calls]

\* Every ack in the channel, in the reader's hands or on the socket answers
\* the call that is waiting, and there is at most one: no call ever takes the
\* late ack of an earlier one that timed out (waitAck, setWriteErr).
AcksBelong ==
  LET arrived == acks \o batch \o fromLux
      late == {i \in DOMAIN arrived : IsAck(arrived[i])}
  IN Running => \A i, j \in late : i = j /\ pc = "ack" /\ arrived[i].n = calls

\* What the interactions the user made mean, in the order they were made:
\* the reference definition of the events they stand for.  After(s)[i] are
\* the events and the text in the field after the first i interactions.
MeantStep(acc, kind, i) ==
  CASE kind = "text"   -> [acc EXCEPT !.text = i]
    [] kind = "empty"  -> [acc EXCEPT !.text = 0]
    [] kind = "button" -> [acc EXCEPT !.out = Append(@, [n |-> i, text |-> 0])]
    [] OTHER -> IF acc.text = 0 THEN acc
                ELSE [out |-> Append(acc.out, [n |-> i, text |-> acc.text]), text |-> 0]
After(s) ==
  LET after[i \in 0..Len(s)] ==
        IF i = 0 THEN [out |-> <<>>, text |-> 0] ELSE MeantStep(after[i - 1], s[i], i)
  IN after
Meant == After(said)[Len(said)].out

\* Through socket, reader, two channels and the event goroutine the loop gets
\* exactly the commands the user meant, each once and in order, as long as no
\* channel overran; after that it still gets them in order and none twice.
EventsFaithful ==
  LET line == consumed \o events \o held
  IN /\ ~overran => IsPrefix(line, Meant)
     /\ \A i, j \in DOMAIN line : i < j =>
          /\ line[i].n < line[j].n
          /\ line[i].text # 0 /\ line[j].text # 0 => line[i].text < line[j].text

\* When the loop has ended, closing the display comes to an end and the
\* process with it, unless a channel overran: only then can the reader be
\* left waiting for a message to drop that the consumer took first.
CloseReturns == (pc = "close") ~> (pc = "exited" \/ overran)
=============================================================================
