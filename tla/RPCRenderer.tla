---------------------------- MODULE RPCRenderer ----------------------------
(***************************************************************************)
(* One run of the game loop over a connection (the run_loop command of     *)
(* internal/daemon/game.go): the client, the reader goroutine of           *)
(* RPCRenderer, the loop of internal/game that renders through it, and the *)
(* final response.  Reader and loop share a channel that holds one event   *)
(* and the variable lastID.                                                *)
(*                                                                         *)
(* Request number n has ID n; 0 is the null ID.  What a command does to    *)
(* the game is module Play's subject.                                      *)
(***************************************************************************)
EXTENDS Integers, Sequences

CONSTANTS
  MaxRequests,   \* bound: requests of the client
  MaxInFlight,   \* bound: lines in the client's stream not yet scanned
  Resumed        \* does the loop render the initial room (resumeGameLoop)?

ASSUME RendererAssumption ==
  /\ MaxRequests \in Nat /\ MaxInFlight \in Nat
  /\ Resumed \in BOOLEAN

VARIABLES
  inbox,      \* lines written by the client and not scanned yet
  sent,       \* requests written by the client
  stream,     \* "open", "ended" by the client or "severed" by the daemon
  reader,     \* the reader goroutine: [at, req]
  events,     \* the channel, capacity 1
  lastID,
  loop,       \* the game loop: [at, req]
  answers,    \* history: responses written, [id, to, final]
  cancelled   \* loopCtx: cancelled by loopCancel or by the server's shutdown

client == <<inbox, sent>>
vars == <<inbox, sent, stream, reader, events, lastID, loop, answers, cancelled>>

Nothing == [kind |-> "none", id |-> 0]

Init ==
  /\ inbox = <<>> /\ sent = 0 /\ stream = "open"
  /\ reader = [at |-> "scan", req |-> Nothing]
  /\ events = <<>> /\ lastID = 0
  /\ loop = [at |-> "start", req |-> Nothing]
  /\ answers = <<>> /\ cancelled = FALSE

-----------------------------------------------------------------------------
(* The client.  A junk line is one the reader skips: malformed, of another *)
(* method, or with an empty text.                                          *)

ClientSends(kind) ==
  /\ stream = "open" /\ Len(inbox) < MaxInFlight /\ sent < MaxRequests
  /\ inbox' = Append(inbox, [kind |-> kind, id |-> sent + 1])
  /\ sent' = sent + 1
  /\ UNCHANGED <<stream, reader, events, lastID, loop, answers, cancelled>>

ClientSendsJunk ==
  /\ stream = "open" /\ Len(inbox) < MaxInFlight
  /\ inbox' = Append(inbox, [kind |-> "junk", id |-> 0])
  /\ UNCHANGED <<sent, stream, reader, events, lastID, loop, answers, cancelled>>

ClientCloses ==
  /\ stream = "open" /\ stream' = "ended"
  /\ UNCHANGED <<client, reader, events, lastID, loop, answers, cancelled>>

-----------------------------------------------------------------------------
(* The reader goroutine (readLoop).                                        *)

Scan ==
  /\ reader.at = "scan" /\ inbox # <<>>
  /\ inbox' = Tail(inbox)
  /\ reader' = IF Head(inbox).kind = "junk" THEN reader
               ELSE [at |-> "deliver", req |-> Head(inbox)]
  /\ UNCHANGED <<sent, stream, events, lastID, loop, answers, cancelled>>

\* End of the stream, or a read error, which is delivered as an event.
ScanEnds ==
  /\ reader.at = "scan"
  /\ stream = "severed" \/ (stream = "ended" /\ inbox = <<>>)
  /\ reader' \in {[reader EXCEPT !.at = "done"],
                  [at |-> "deliver", req |-> [kind |-> "error", id |-> 0]]}
  /\ UNCHANGED <<client, stream, events, lastID, loop, answers, cancelled>>

\* Mutant: an event that finds the channel full is dropped.
DeliverOrDrop ==
  /\ reader.at = "deliver"
  /\ events' = IF events = <<>> THEN <<reader.req>> ELSE events
  /\ reader' = [reader EXCEPT !.at = IF reader.req.kind = "error" THEN "done" ELSE "setid"]
  /\ UNCHANGED <<client, stream, lastID, loop, answers, cancelled>>

\* Mutant: a deeper channel.
DeliverDeep ==
  /\ reader.at = "deliver" /\ Len(events) < 2
  /\ events' = Append(events, reader.req)
  /\ reader' = [reader EXCEPT !.at = IF reader.req.kind = "error" THEN "done" ELSE "setid"]
  /\ UNCHANGED <<client, stream, lastID, loop, answers, cancelled>>

Deliver ==
  /\ reader.at = "deliver" /\ events = <<>>
  /\ events' = <<reader.req>>
  /\ reader' = [reader EXCEPT !.at = IF reader.req.kind = "error" THEN "done" ELSE "setid"]
  /\ UNCHANGED <<client, stream, lastID, loop, answers, cancelled>>

DeliverCancelled ==
  /\ reader.at = "deliver" /\ cancelled
  /\ reader' = [reader EXCEPT !.at = "done"]
  /\ UNCHANGED <<client, stream, events, lastID, loop, answers, cancelled>>

SetLastID ==
  /\ reader.at = "setid"
  /\ lastID' = reader.req.id
  /\ reader' = [reader EXCEPT !.at = IF reader.req.kind = "quit" THEN "done" ELSE "scan"]
  /\ UNCHANGED <<client, stream, events, loop, answers, cancelled>>

-----------------------------------------------------------------------------
(* The game loop (Loop.Run) and the rest of the run_loop command.          *)

\* Writing a response; it may fail once the stream is not open any more.
Write(final) ==
  \/ answers' = Append(answers, [id |-> lastID, to |-> loop.req.id, final |-> final])
  \/ stream # "open" /\ UNCHANGED answers

RenderInitial ==
  /\ loop.at = "start"
  /\ IF Resumed THEN Write(FALSE) ELSE UNCHANGED answers
  /\ loop' = [loop EXCEPT !.at =
       IF Resumed /\ answers' = answers THEN "final" ELSE "select"]
  /\ UNCHANGED <<client, stream, reader, events, lastID, cancelled>>

TakeEvent ==
  /\ loop.at = "select" /\ events # <<>>
  /\ events' = Tail(events)
  /\ loop' = IF Head(events).kind = "error" THEN [loop EXCEPT !.at = "final"]
             ELSE [at |-> "handle", req |-> Head(events)]
  /\ UNCHANGED <<client, stream, reader, lastID, answers, cancelled>>

\* The channel is closed, or the context is cancelled.
NoMoreEvents ==
  /\ loop.at = "select"
  /\ cancelled \/ (events = <<>> /\ reader.at = "done")
  /\ loop' = [loop EXCEPT !.at = "final"]
  /\ UNCHANGED <<client, stream, reader, events, lastID, answers, cancelled>>

\* Handle the event and render; quit and the hero's death end the loop, and
\* so does a write that fails.
Render ==
  /\ loop.at = "handle"
  /\ Write(FALSE)
  /\ \E over \in BOOLEAN :
       /\ (loop.req.kind = "quit" \/ answers' = answers) => over
       /\ loop' = [loop EXCEPT !.at = IF over THEN "final" ELSE "select"]
  /\ UNCHANGED <<client, stream, reader, events, lastID, cancelled>>

\* Interpreter and narrator fail only when the context is cancelled.
HandleFails ==
  /\ loop.at \in {"start", "handle"} /\ cancelled
  /\ loop' = [loop EXCEPT !.at = "final"]
  /\ UNCHANGED <<client, stream, reader, events, lastID, answers, cancelled>>

\* Mutant: the reader is left to itself.
FinalWithoutCancel ==
  /\ loop.at = "final"
  /\ Write(TRUE)
  /\ loop' = [loop EXCEPT !.at = "over"]
  /\ UNCHANGED <<client, stream, reader, events, lastID, cancelled>>

\* loopCancel, then the final response.
Final ==
  /\ loop.at = "final"
  /\ cancelled' = TRUE
  /\ Write(TRUE)
  /\ loop' = [loop EXCEPT !.at = "over"]
  /\ UNCHANGED <<client, stream, reader, events, lastID>>

\* A panic in the engine ends the game goroutine; loopCancel is not deferred.
Panic ==
  /\ loop.at = "handle"
  /\ loop' = [loop EXCEPT !.at = "panicked"]
  /\ UNCHANGED <<client, stream, reader, events, lastID, answers, cancelled>>

\* handleConnection returns and closes the connection.
CloseConnection ==
  /\ loop.at \in {"over", "panicked"} /\ stream # "severed"
  /\ stream' = "severed"
  /\ UNCHANGED <<client, reader, events, lastID, loop, answers, cancelled>>

Shutdown ==
  /\ ~cancelled
  /\ cancelled' = TRUE /\ stream' = "severed"
  /\ UNCHANGED <<client, reader, events, lastID, loop, answers>>

-----------------------------------------------------------------------------
Client == (\E kind \in {"play", "quit"} : ClientSends(kind)) \/ ClientSendsJunk \/ ClientCloses

ReaderStep == Scan \/ ScanEnds \/ Deliver \/ DeliverCancelled \/ SetLastID

LoopStep ==
  RenderInitial \/ TakeEvent \/ NoMoreEvents \/ Render \/ HandleFails \/ Final

Next == Client \/ ReaderStep \/ LoopStep \/ Panic \/ CloseConnection \/ Shutdown

Spec == Init /\ [][Next]_vars

\* Both goroutines and the connection's handler keep running; the client
\* owes nothing.
FairSpec ==
  Spec /\ WF_vars(ReaderStep) /\ WF_vars(LoopStep) /\ WF_vars(CloseConnection)

-----------------------------------------------------------------------------
(* Properties.                                                             *)

IDs == 0..MaxRequests
Requests == [kind : {"none", "play", "quit", "error"}, id : IDs]

\* Every variable has the shape the code gives it; at most one event waits.
TypeOK ==
  /\ inbox \in Seq([kind : {"play", "quit", "junk"}, id : IDs]) /\ sent \in IDs
  /\ stream \in {"open", "ended", "severed"}
  /\ reader \in [at : {"scan", "deliver", "setid", "done"}, req : Requests]
  /\ events \in Seq(Requests) /\ Len(events) <= 1 /\ lastID \in IDs
  /\ loop \in [at : {"start", "select", "handle", "final", "over", "panicked"},
               req : Requests]
  /\ answers \in Seq([id : IDs, to : IDs, final : BOOLEAN])
  /\ cancelled \in BOOLEAN

\* What the race on lastID can do: a response carries the ID of the request
\* it answers, of the one before, or of the one after: never of one further
\* away, however many requests the client has sent ahead.
AnswersAlmostMatch ==
  \A n \in 1..Len(answers) :
    answers[n].id \in (answers[n].to - 1)..(answers[n].to + 1)

\* Requests are answered in the order they were sent, each once, none left
\* out, however they pile up in front of the reader: the nth response of the
\* loop is to request n (after the initial one of a resumed loop, to none).
AnsweredInOrder ==
  \A n \in 1..Len(answers) :
    ~answers[n].final => answers[n].to = (IF Resumed THEN n - 1 ELSE n)

\* When the loop is over, or at shutdown, the reader goroutine ends, even if
\* it was waiting to deliver an event nobody will take.
ReaderEnds == (loop.at = "over" \/ cancelled) ~> (reader.at = "done")

\* A request the reader has scanned is answered or the loop ends.
ScannedIsAnswered ==
  \A r \in 1..MaxRequests :
    reader.req.id = r ~>
      \/ \E n \in 1..Len(answers) : answers[n].to = r
      \/ loop.at \in {"over", "panicked"}

=============================================================================
