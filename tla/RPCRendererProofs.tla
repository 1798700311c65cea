------------------------- MODULE RPCRendererProofs --------------------------
(***************************************************************************)
(* Proofs about RPCRenderer, for any number of requests, any number of them *)
(* in flight, and fresh and resumed loops alike.                           *)
(***************************************************************************)
EXTENDS RPCRenderer, SequenceTheorems, TLAPS

-----------------------------------------------------------------------------
(* The inductive invariant.                                                *)

\* The requests the client has in its stream are k + 1, k + 2, ... up to the
\* last one sent, in this order, with junk between them.
Pending(k) ==
  /\ k <= sent
  /\ \A i \in 1..Len(inbox) : inbox[i].kind = "junk" <=> inbox[i].id = 0
  /\ \A i \in 1..Len(inbox) : inbox[i].id # 0 => k < inbox[i].id /\ inbox[i].id <= sent
  /\ \A i, j \in 1..Len(inbox) :
       i < j /\ inbox[i].id # 0 /\ inbox[j].id # 0 => inbox[i].id < inbox[j].id
  /\ \A n \in 1..sent : k < n => \E i \in 1..Len(inbox) : inbox[i].id = n

\* A reader that still works on requests has scanned all up to its own, and
\* sets lastID to that one only after it has delivered it.
ReaderOrder ==
  /\ reader.at = "scan" => reader.req.kind # "error" /\ reader.req.id = lastID
  /\ reader.at = "deliver" /\ reader.req.kind # "error" => reader.req.id = lastID + 1
  /\ reader.at = "setid" => reader.req.kind # "error" /\ reader.req.id = lastID + 1
  /\ reader.at # "done" /\ reader.req.kind # "error" => Pending(reader.req.id)

\* The request in the channel is the one after the request in the loop, and
\* lastID is that of the loop's request, one behind it while the reader has
\* still to set it, or one ahead when the next request is in the channel.
ChannelOrder ==
  /\ events = <<>> => lastID = IF reader.at = "setid" THEN loop.req.id - 1 ELSE loop.req.id
  /\ events # <<>> =>
       IF events[1].kind = "error" THEN reader.at = "done" /\ lastID = loop.req.id
       ELSE /\ events[1].id = loop.req.id + 1
            /\ lastID = IF reader.at = "setid" THEN loop.req.id ELSE loop.req.id + 1

\* The loop has answered every request it has taken, but the one it handles.
LoopOrder ==
  LET first == IF Resumed THEN 1 ELSE 0 IN
  /\ loop.at = "start" => Len(answers) = 0 /\ loop.req.id = 0
  /\ loop.at = "select" => Len(answers) = loop.req.id + first
  /\ loop.at = "handle" => Len(answers) + 1 = loop.req.id + first

RendererInv ==
  /\ TypeOK /\ ReaderOrder /\ ChannelOrder /\ LoopOrder
  /\ AnswersAlmostMatch /\ AnsweredInOrder

-----------------------------------------------------------------------------
(* Types.                                                                  *)

Lines == [kind : {"play", "quit", "junk"}, id : IDs]
Answer == [id : IDs, to : IDs, final : BOOLEAN]

\* A response carries lastID and is about the loop's request.
LEMMA WriteType ==
  ASSUME TypeOK, NEW final \in BOOLEAN, Write(final)
  PROVE  answers' \in Seq(Answer)
<1> DEFINE a == [id |-> lastID, to |-> loop.req.id, final |-> final]
<1>1. a \in Answer BY DEF TypeOK, Answer, Requests
<1>2. answers \in Seq(Answer) BY DEF TypeOK, Answer
<1> HIDE DEF a
<1>3. Append(answers, a) \in Seq(Answer) BY <1>1, <1>2, AppendProperties
<1> QED BY <1>2, <1>3 DEF Write, a

\* Every step of the client, the reader and the loop keeps the types.
LEMMA TypeStep == TypeOK /\ [Next]_vars => TypeOK'
<1> SUFFICES ASSUME TypeOK, [Next]_vars PROVE TypeOK' OBVIOUS
<1> USE RendererAssumption
<1>1. CASE UNCHANGED vars BY <1>1 DEF TypeOK, vars
<1>2. ASSUME NEW kind \in {"play", "quit"}, ClientSends(kind) PROVE TypeOK'
  <2>1. [kind |-> kind, id |-> sent + 1] \in Lines /\ sent + 1 \in IDs
    BY <1>2 DEF ClientSends, TypeOK, Lines, IDs
  <2> QED BY <1>2, <2>1 DEF ClientSends, TypeOK, Lines
<1>3. CASE ClientSendsJunk
  <2>1. [kind |-> "junk", id |-> 0] \in Lines BY DEF Lines, IDs
  <2> QED BY <1>3, <2>1 DEF ClientSendsJunk, TypeOK, Lines
<1>4. CASE ClientCloses BY <1>4 DEF ClientCloses, client, TypeOK
<1>5. CASE Scan
  <2>1. inbox \in Seq(Lines) /\ inbox # <<>> BY <1>5 DEF Scan, TypeOK, Lines
  <2>2. inbox' \in Seq(Lines) /\ Head(inbox) \in Lines BY <1>5, <2>1, HeadTailProperties DEF Scan
  <2>3. reader' \in [at : {"scan", "deliver", "setid", "done"}, req : Requests]
    BY <1>5, <2>2 DEF Scan, TypeOK, Lines, Requests
  <2> QED BY <1>5, <2>2, <2>3 DEF Scan, TypeOK, Lines
<1>6. CASE ScanEnds
  <2>1. [kind |-> "error", id |-> 0] \in Requests BY DEF Requests, IDs
  <2> QED BY <1>6, <2>1 DEF ScanEnds, client, TypeOK
<1>7. CASE Deliver
  <2>1. <<reader.req>> \in Seq(Requests) /\ Len(<<reader.req>>) = 1 BY DEF TypeOK
  <2> QED BY <1>7, <2>1 DEF Deliver, client, TypeOK
<1>8. CASE DeliverCancelled BY <1>8 DEF DeliverCancelled, client, TypeOK
<1>9. CASE SetLastID BY <1>9 DEF SetLastID, client, TypeOK, Requests
<1>10. CASE RenderInitial
  <2>1. answers' \in Seq(Answer) BY <1>10, WriteType DEF RenderInitial, TypeOK, Answer
  <2> QED BY <1>10, <2>1 DEF RenderInitial, client, TypeOK, Answer
<1>11. CASE TakeEvent
  <2>1. Head(events) \in Requests /\ events' \in Seq(Requests) /\ Len(events') <= 1
    BY <1>11 DEF TakeEvent, TypeOK
  <2> QED BY <1>11, <2>1 DEF TakeEvent, client, TypeOK
<1>12. CASE NoMoreEvents BY <1>12 DEF NoMoreEvents, client, TypeOK
<1>13. CASE Render
  <2>1. answers' \in Seq(Answer) BY <1>13, WriteType DEF Render
  <2> QED BY <1>13, <2>1 DEF Render, client, TypeOK, Answer
<1>14. CASE HandleFails BY <1>14 DEF HandleFails, client, TypeOK
<1>15. CASE Final
  <2>1. answers' \in Seq(Answer) BY <1>15, WriteType DEF Final
  <2> QED BY <1>15, <2>1 DEF Final, client, TypeOK, Answer
<1>16. CASE Panic BY <1>16 DEF Panic, client, TypeOK
<1>17. CASE CloseConnection BY <1>17 DEF CloseConnection, client, TypeOK
<1>18. CASE Shutdown BY <1>18 DEF Shutdown, client, TypeOK
<1> QED
  BY <1>1, <1>2, <1>3, <1>4, <1>5, <1>6, <1>7, <1>8, <1>9, <1>10, <1>11, <1>12, <1>13,
     <1>14, <1>15, <1>16, <1>17, <1>18 DEF Next, Client, ReaderStep, LoopStep

-----------------------------------------------------------------------------
(* The order of the requests.                                              *)

\* A new request is the last one of the stream.
LEMMA PendingSend ==
  ASSUME TypeOK, NEW k \in IDs, Pending(k), NEW kind \in {"play", "quit"}, ClientSends(kind)
  PROVE  Pending(k)'
<1> DEFINE e == [kind |-> kind, id |-> sent + 1]
           n == Len(inbox)
<1>1. inbox \in Seq(Lines) /\ e \in Lines /\ sent \in Nat /\ sent' = sent + 1 /\ k \in Nat
  BY RendererAssumption DEF ClientSends, TypeOK, Lines, IDs
<1>2. inbox' = Append(inbox, e) BY DEF ClientSends
<1>3. /\ Len(inbox') = n + 1 /\ inbox'[n + 1] = e /\ n \in Nat
      /\ \A i \in 1..n : inbox'[i] = inbox[i]
  BY <1>1, <1>2, AppendProperties
<1>4. e.id = sent + 1 /\ e.kind # "junk" OBVIOUS
<1> HIDE DEF e
<1>5. \A i \in 1..Len(inbox') : i = n + 1 \/ i \in 1..n BY <1>3
<1>6. \A i \in 1..Len(inbox') : inbox'[i].kind = "junk" <=> inbox'[i].id = 0
  <2> TAKE i \in 1..Len(inbox')
  <2>1. CASE i \in 1..n BY <1>3, <2>1 DEF Pending
  <2>2. CASE i = n + 1
    <3>1. inbox'[i] = e BY <1>3, <2>2
    <3>2. e.id # 0 BY <1>1, <1>4
    <3> QED BY <1>4, <3>1, <3>2
  <2> QED BY <1>5, <2>1, <2>2
<1>7. \A i \in 1..Len(inbox') : inbox'[i].id # 0 => k < inbox'[i].id /\ inbox'[i].id <= sent'
  <2> TAKE i \in 1..Len(inbox')
  <2>1. CASE i \in 1..n
    <3>1. inbox[i] \in Lines BY <1>1, <2>1
    <3>2. inbox[i].id \in Nat BY <3>1, RendererAssumption DEF Lines, IDs
    <3> QED BY <1>1, <1>3, <2>1, <3>2 DEF Pending
  <2>2. CASE i = n + 1 BY <1>1, <1>3, <1>4, <2>2 DEF Pending
  <2> QED BY <1>5, <2>1, <2>2
<1>8. \A i, j \in 1..Len(inbox') :
        i < j /\ inbox'[i].id # 0 /\ inbox'[j].id # 0 => inbox'[i].id < inbox'[j].id
  <2> SUFFICES ASSUME NEW i \in 1..Len(inbox'), NEW j \in 1..Len(inbox'), i < j,
                      inbox'[i].id # 0, inbox'[j].id # 0
               PROVE  inbox'[i].id < inbox'[j].id
    OBVIOUS
  <2>1. i \in 1..n BY <1>3
  <2>2. inbox[i] \in Lines BY <1>1, <2>1
  <2>3. inbox[i].id \in Nat /\ inbox'[i] = inbox[i] BY <1>3, <2>1, <2>2, RendererAssumption DEF Lines, IDs
  <2>4. CASE j \in 1..n BY <1>3, <2>1, <2>4 DEF Pending
  <2>5. CASE j = n + 1
    <3>1. inbox[i].id <= sent BY <2>1, <2>3 DEF Pending
    <3> QED BY <1>1, <1>3, <1>4, <2>3, <2>5, <3>1
  <2> QED BY <1>5, <2>4, <2>5
<1>9. \A m \in 1..sent' : k < m => \E i \in 1..Len(inbox') : inbox'[i].id = m
  <2> SUFFICES ASSUME NEW m \in 1..sent', k < m PROVE \E i \in 1..Len(inbox') : inbox'[i].id = m
    OBVIOUS
  <2>1. CASE m = sent + 1 BY <1>3, <1>4, <2>1
  <2>2. CASE m # sent + 1
    <3>1. m \in 1..sent BY <1>1, <2>2
    <3>2. PICK i \in 1..n : inbox[i].id = m BY <3>1 DEF Pending
    <3> QED BY <1>3, <3>2
  <2> QED BY <2>1, <2>2
<1>10. k <= sent /\ k <= sent' BY <1>1 DEF Pending
<1> QED BY <1>6, <1>7, <1>8, <1>9, <1>10 DEF Pending

\* Junk does not disturb the order.
LEMMA PendingJunk ==
  ASSUME TypeOK, NEW k \in IDs, Pending(k), ClientSendsJunk
  PROVE  Pending(k)'
<1> DEFINE e == [kind |-> "junk", id |-> 0]
           n == Len(inbox)
<1>1. inbox \in Seq(Lines) /\ e \in Lines /\ sent' = sent /\ inbox' = Append(inbox, e)
  BY RendererAssumption DEF ClientSendsJunk, TypeOK, Lines, IDs
<1>2. /\ Len(inbox') = n + 1 /\ inbox'[n + 1] = e /\ n \in Nat
      /\ \A i \in 1..n : inbox'[i] = inbox[i]
  BY <1>1, AppendProperties
<1>3. e.id = 0 /\ e.kind = "junk" OBVIOUS
<1> HIDE DEF e
<1>4. \A i \in 1..Len(inbox') : i = n + 1 \/ i \in 1..n BY <1>2
<1>5. \A i \in 1..Len(inbox') : inbox'[i].id # 0 => i \in 1..n BY <1>2, <1>3, <1>4
<1>6. \A i \in 1..Len(inbox') : inbox'[i].kind = "junk" <=> inbox'[i].id = 0
  BY <1>2, <1>3, <1>4 DEF Pending
<1>7. \A i \in 1..n : i \in 1..Len(inbox') BY <1>2
<1> QED BY <1>1, <1>2, <1>5, <1>6, <1>7 DEF Pending

\* The first line scanned is junk or the next request.
LEMMA PendingScan ==
  ASSUME TypeOK, NEW k \in IDs, Pending(k), inbox # <<>>, inbox' = Tail(inbox), sent' = sent
  PROVE  /\ Head(inbox).kind = "junk" => Pending(k)'
         /\ Head(inbox).kind # "junk" => Head(inbox).id = k + 1 /\ k + 1 \in IDs /\ Pending(k + 1)'
<1> DEFINE n == Len(inbox)
<1>1. inbox \in Seq(Lines) /\ n \in Nat \ {0} /\ sent \in Nat /\ k \in Nat
  BY EmptySeq, RendererAssumption DEF TypeOK, Lines, IDs
<1>2. Head(inbox) = inbox[1] BY <1>1
<1>3. Len(inbox') = n - 1 /\ \A i \in 1..Len(inbox') : inbox'[i] = inbox[i + 1]
  BY <1>1, HeadTailProperties
<1>4. \A i \in 1..n : inbox[i].id \in Nat
  <2> TAKE i \in 1..n
  <2>1. inbox[i] \in Lines BY <1>1
  <2> QED BY <2>1, RendererAssumption DEF Lines, IDs
<1>5. \A i \in 1..Len(inbox') : i + 1 \in 1..n /\ 1 < i + 1 BY <1>1, <1>3
<1>6. \A i \in 2..n : i - 1 \in 1..Len(inbox') /\ inbox'[i - 1] = inbox[i] BY <1>1, <1>3
<1>7. ASSUME NEW h \in Nat, k <= h, h <= sent, \A i \in 2..n : inbox[i].id # 0 => h < inbox[i].id,
             inbox[1].id <= h
      PROVE  Pending(h)'
  <2>1. \A i \in 1..Len(inbox') : inbox'[i].kind = "junk" <=> inbox'[i].id = 0
    BY <1>3, <1>5 DEF Pending
  <2>2. \A i \in 1..Len(inbox') : inbox'[i].id # 0 => h < inbox'[i].id /\ inbox'[i].id <= sent'
    <3> TAKE i \in 1..Len(inbox')
    <3>1. i + 1 \in 2..n BY <1>1, <1>3
    <3> QED BY <1>3, <1>5, <1>7, <3>1 DEF Pending
  <2>3. \A i, j \in 1..Len(inbox') :
          i < j /\ inbox'[i].id # 0 /\ inbox'[j].id # 0 => inbox'[i].id < inbox'[j].id
    <3> TAKE i, j \in 1..Len(inbox')
    <3>1. i < j => i + 1 < j + 1 BY <1>1, <1>3
    <3> QED BY <1>3, <1>5, <3>1 DEF Pending
  <2>4. \A m \in 1..sent' : h < m => \E i \in 1..Len(inbox') : inbox'[i].id = m
    <3> SUFFICES ASSUME NEW m \in 1..sent, h < m PROVE \E i \in 1..Len(inbox') : inbox'[i].id = m
      OBVIOUS
    <3>1. k < m BY <1>1, <1>7
    <3>2. PICK i \in 1..n : inbox[i].id = m BY <3>1 DEF Pending
    <3>3. i # 1 BY <1>1, <1>7, <3>2
    <3>4. i \in 2..n BY <1>1, <3>3
    <3> QED BY <1>6, <3>2, <3>4
  <2> QED BY <1>7, <2>1, <2>2, <2>3, <2>4 DEF Pending
<1>8. ASSUME Head(inbox).kind = "junk" PROVE Pending(k)'
  <2>1. inbox[1].id = 0 BY <1>1, <1>2, <1>8 DEF Pending
  <2>2. \A i \in 2..n : inbox[i].id # 0 => k < inbox[i].id BY <1>1 DEF Pending
  <2>3. k <= sent /\ k <= k /\ inbox[1].id <= k BY <1>1, <2>1 DEF Pending
  <2> QED BY <1>1, <1>7, <2>2, <2>3
<1>9. ASSUME Head(inbox).kind # "junk"
      PROVE  Head(inbox).id = k + 1 /\ k + 1 \in IDs /\ Pending(k + 1)'
  <2>1. inbox[1].id # 0 /\ k < inbox[1].id /\ inbox[1].id <= sent
    BY <1>1, <1>2, <1>9 DEF Pending
  <2>2. k + 1 \in 1..sent BY <1>1, <1>4, <2>1
  <2>3. PICK i \in 1..n : inbox[i].id = k + 1 BY <1>1, <2>2 DEF Pending
  <2>4. inbox[1].id <= k + 1
    <3>1. CASE i = 1 BY <1>1, <2>3, <3>1
    <3>2. CASE i # 1
      <4>1. 1 < i /\ 1 \in 1..n /\ inbox[i].id # 0 BY <1>1, <2>3, <3>2
      <4>2. inbox[1].id < inbox[i].id BY <2>1, <4>1 DEF Pending
      <4> QED BY <1>1, <1>4, <2>3, <4>1, <4>2
    <3> QED BY <3>1, <3>2
  <2>5. inbox[1].id = k + 1 BY <1>1, <1>4, <2>1, <2>4
  <2>6. \A j \in 2..n : inbox[j].id # 0 => k + 1 < inbox[j].id
    BY <1>1, <2>1, <2>5 DEF Pending
  <2>7. k + 1 \in IDs BY <1>1, <2>2, RendererAssumption DEF TypeOK, IDs
  <2>8. Pending(k + 1)'
    <3> DEFINE h == k + 1
    <3>1. h \in Nat /\ k <= h /\ h <= sent /\ inbox[1].id <= h BY <1>1, <2>2, <2>5
    <3>2. \A j \in 2..n : inbox[j].id # 0 => h < inbox[j].id BY <2>6
    <3> HIDE DEF h
    <3>3. Pending(h)' BY <1>7, <3>1, <3>2
    <3> QED BY <3>3 DEF h
  <2> QED BY <1>2, <2>5, <2>7, <2>8
<1> QED BY <1>8, <1>9

\* Scanning, delivering and setting lastID keep the requests in order.
LEMMA ReaderOrderStep ==
  ASSUME TypeOK, ReaderOrder, [Next]_vars
  PROVE  ReaderOrder'
<1> DEFINE k == reader.req.id
<1>1. k \in IDs /\ lastID \in Nat /\ IDs \subseteq Nat BY RendererAssumption DEF TypeOK, Requests, IDs
<1>2. CASE UNCHANGED <<inbox, sent, reader, lastID>>
  BY <1>2 DEF ReaderOrder, Pending
<1>3. ASSUME NEW kind \in {"play", "quit"}, ClientSends(kind) PROVE ReaderOrder'
  <2>1. UNCHANGED <<reader, lastID>> BY <1>3 DEF ClientSends
  <2>2. Pending(k) => \A h \in IDs : h = k => Pending(h)' BY <1>1, <1>3, PendingSend
  <2> QED BY <1>1, <2>1, <2>2 DEF ReaderOrder, Pending
<1>4. CASE ClientSendsJunk
  <2>1. UNCHANGED <<reader, lastID>> BY <1>4 DEF ClientSendsJunk
  <2>2. Pending(k) => \A h \in IDs : h = k => Pending(h)' BY <1>1, <1>4, PendingJunk
  <2> QED BY <1>1, <2>1, <2>2 DEF ReaderOrder, Pending
<1>5. CASE Scan
  <2>1. /\ reader.at = "scan" /\ inbox # <<>> /\ inbox' = Tail(inbox)
        /\ sent' = sent /\ lastID' = lastID
    BY <1>5 DEF Scan
  <2>2. PICK h \in IDs : h = k /\ Pending(h) /\ h = lastID BY <1>1, <2>1 DEF ReaderOrder
  <2>3. CASE Head(inbox).kind = "junk"
    <3>1. reader' = reader BY <1>5, <2>3 DEF Scan
    <3>2. Pending(h)' BY <2>1, <2>2, <2>3, PendingScan
    <3> QED BY <2>1, <2>2, <3>1, <3>2 DEF ReaderOrder, Pending
  <2>4. CASE Head(inbox).kind # "junk"
    <3>1. reader' = [at |-> "deliver", req |-> Head(inbox)] BY <1>5, <2>4 DEF Scan
    <3>2. Head(inbox).id = h + 1 /\ Pending(h + 1)' BY <2>1, <2>2, <2>4, PendingScan
    <3>3. reader'.at = "deliver" /\ reader'.req.id = h + 1 BY <3>1, <3>2
    <3> QED BY <2>1, <2>2, <3>2, <3>3 DEF ReaderOrder, Pending
  <2> QED BY <2>3, <2>4
<1>6. CASE ScanEnds
  <2>1. \/ reader'.at = "done"
        \/ reader'.at = "deliver" /\ reader'.req.kind = "error"
    BY <1>6 DEF ScanEnds, TypeOK
  <2> QED BY <2>1 DEF ReaderOrder
<1>7. CASE Deliver
  <2>1. /\ reader.at = "deliver" /\ reader'.req = reader.req /\ UNCHANGED <<inbox, sent, lastID>>
        /\ reader'.at = IF reader.req.kind = "error" THEN "done" ELSE "setid"
    BY <1>7 DEF Deliver, TypeOK, client
  <2> QED BY <2>1 DEF ReaderOrder, Pending
<1>8. CASE DeliverCancelled
  <2>1. reader'.at = "done" BY <1>8 DEF DeliverCancelled, TypeOK
  <2> QED BY <2>1 DEF ReaderOrder
<1>9. CASE SetLastID
  <2>1. /\ reader.at = "setid" /\ lastID' = reader.req.id /\ UNCHANGED <<inbox, sent>>
        /\ reader'.req = reader.req /\ reader'.at \in {"done", "scan"}
    BY <1>9 DEF SetLastID, TypeOK, client
  <2> QED BY <2>1 DEF ReaderOrder, Pending
<1>10. CASE LoopStep \/ Panic \/ CloseConnection \/ Shutdown \/ ClientCloses
  <2>1. UNCHANGED <<inbox, sent, reader, lastID>>
    BY <1>10 DEF LoopStep, RenderInitial, TakeEvent, NoMoreEvents, Render, HandleFails, Final,
                Panic, CloseConnection, Shutdown, ClientCloses, client
  <2> QED BY <1>2, <2>1
<1> QED BY <1>2, <1>3, <1>4, <1>5, <1>6, <1>7, <1>8, <1>9, <1>10 DEF Next, Client, ReaderStep, vars

\* The channel between reader and loop never gets out of step with lastID.
LEMMA ChannelOrderStep ==
  ASSUME TypeOK, ReaderOrder, ChannelOrder, [Next]_vars
  PROVE  ChannelOrder'
<1>1. lastID \in Nat /\ loop.req.id \in Nat /\ reader.req.id \in Nat
  BY RendererAssumption DEF TypeOK, Requests, IDs
<1>2. CASE UNCHANGED <<reader, events, lastID>> /\ loop'.req = loop.req
  BY <1>2 DEF ChannelOrder
<1>3. CASE Client \/ RenderInitial \/ NoMoreEvents \/ Render \/ HandleFails \/ Final \/ Panic
           \/ CloseConnection \/ Shutdown
  <2>1. UNCHANGED <<reader, events, lastID>> /\ loop'.req = loop.req
    BY <1>3 DEF Client, ClientSends, ClientSendsJunk, ClientCloses, RenderInitial, NoMoreEvents,
                Render, HandleFails, Final, Panic, CloseConnection, Shutdown, TypeOK, client
  <2> QED BY <1>2, <2>1
<1>4. CASE Scan \/ ScanEnds \/ DeliverCancelled
  <2>1. /\ UNCHANGED <<events, lastID, loop>> /\ reader.at \in {"scan", "deliver"}
        /\ reader'.at \in {"scan", "deliver", "done"}
    BY <1>4 DEF Scan, ScanEnds, DeliverCancelled, TypeOK, client
  <2> QED BY <2>1 DEF ChannelOrder
<1>5. CASE Deliver
  <2>1. /\ reader.at = "deliver" /\ events = <<>> /\ events' = <<reader.req>>
        /\ reader'.at = (IF reader.req.kind = "error" THEN "done" ELSE "setid")
        /\ UNCHANGED <<lastID, loop>>
    BY <1>5 DEF Deliver, TypeOK, client
  <2>2. events'[1] = reader.req /\ events' # <<>> BY <2>1
  <2> QED BY <1>1, <2>1, <2>2 DEF ChannelOrder, ReaderOrder
<1>6. CASE SetLastID
  <2>1. /\ reader.at = "setid" /\ lastID' = reader.req.id /\ UNCHANGED <<events, loop>>
        /\ reader'.at # "setid"
    BY <1>6 DEF SetLastID, TypeOK, client
  <2> QED BY <1>1, <2>1 DEF ChannelOrder, ReaderOrder
<1>7. CASE TakeEvent
  <2>1. /\ events # <<>> /\ UNCHANGED <<reader, lastID>> /\ events' = Tail(events)
        /\ loop'.req = IF Head(events).kind = "error" THEN loop.req ELSE Head(events)
    BY <1>7 DEF TakeEvent, TypeOK, client
  <2>2. Len(events) = 1 /\ Head(events) = events[1] /\ events' = <<>>
    <3>1. events \in Seq(Requests) /\ Len(events) \in Nat /\ Len(events) <= 1 BY DEF TypeOK
    <3>2. Len(events) # 0 BY <2>1, <3>1, EmptySeq
    <3>3. \A l \in Nat : l <= 1 /\ l # 0 => l = 1 OBVIOUS
    <3>4. Len(events) = 1 BY <3>1, <3>2, <3>3, Zenon
    <3>5. Len(events) = 1 /\ Head(events) = events[1] BY <2>1, <3>1, <3>4
    <3>6. Tail(events) \in Seq(Requests) /\ Len(Tail(events)) = 0
      BY <2>1, <3>1, <3>5, HeadTailProperties
    <3>7. Tail(events) = <<>> BY <3>6, EmptySeq
    <3> QED BY <2>1, <3>5, <3>7
  <2> QED BY <1>1, <2>1, <2>2 DEF ChannelOrder
<1> QED BY <1>2, <1>3, <1>4, <1>5, <1>6, <1>7 DEF Next, ReaderStep, LoopStep, vars

-----------------------------------------------------------------------------
(* The responses.                                                          *)

\* A response is appended, or the stream is not open and nothing is written.
LEMMA WriteAppends ==
  ASSUME TypeOK, NEW final \in BOOLEAN, Write(final)
  PROVE  \/ answers' = answers
         \/ /\ Len(answers') = Len(answers) + 1 /\ answers' # answers
            /\ \A n \in 1..Len(answers) : answers'[n] = answers[n]
            /\ answers'[Len(answers) + 1] = [id |-> lastID, to |-> loop.req.id, final |-> final]
<1> DEFINE a == [id |-> lastID, to |-> loop.req.id, final |-> final]
<1>1. a \in Answer /\ answers \in Seq(Answer) /\ Len(answers) \in Nat
  BY DEF TypeOK, Answer, Requests
<1> HIDE DEF a
<1>2. /\ Len(Append(answers, a)) = Len(answers) + 1
      /\ \A n \in 1..Len(answers) : Append(answers, a)[n] = answers[n]
      /\ Append(answers, a)[Len(answers) + 1] = a
  BY <1>1, AppendProperties
<1>3. Append(answers, a) # answers BY <1>1, <1>2
<1> QED BY <1>2, <1>3 DEF Write, a

\* A new response breaks neither promise: its ID is at most one off, and if it
\* is not final its place in the stream is that of its request.
LEMMA ResponseKeeps ==
  ASSUME TypeOK, AnswersAlmostMatch, AnsweredInOrder, ChannelOrder,
         NEW final \in BOOLEAN, Write(final),
         ~final => loop.req.id = (IF Resumed THEN Len(answers) ELSE Len(answers) + 1)
  PROVE  AnswersAlmostMatch' /\ AnsweredInOrder'
<1>1. lastID \in Nat /\ loop.req.id \in Nat /\ Len(answers) \in Nat
  BY RendererAssumption DEF TypeOK, Requests, IDs
<1>2. CASE answers' = answers BY <1>2 DEF AnswersAlmostMatch, AnsweredInOrder
<1>3. CASE answers' # answers
  <2> DEFINE l == Len(answers)
             a == [id |-> lastID, to |-> loop.req.id, final |-> final]
  <2>1. /\ Len(answers') = l + 1 /\ \A n \in 1..l : answers'[n] = answers[n]
        /\ answers'[l + 1] = a
    BY <1>3, WriteAppends
  <2>2. a.id = lastID /\ a.to = loop.req.id /\ a.final = final OBVIOUS
  <2>3. lastID \in (loop.req.id - 1)..(loop.req.id + 1) BY <1>1 DEF ChannelOrder
  <2>4. ~final => loop.req.id = IF Resumed THEN (l + 1) - 1 ELSE l + 1 BY <1>1
  <2> HIDE DEF a
  <2>5. \A n \in 1..Len(answers') : n \in 1..l \/ n = l + 1 BY <1>1, <2>1
  <2>6. AnswersAlmostMatch'
    <3> SUFFICES ASSUME NEW n \in 1..Len(answers')
                 PROVE  answers'[n].id \in (answers'[n].to - 1)..(answers'[n].to + 1)
      BY DEF AnswersAlmostMatch
    <3>1. CASE n \in 1..l BY <2>1, <3>1 DEF AnswersAlmostMatch
    <3>2. CASE n = l + 1 BY <2>1, <2>2, <2>3, <3>2
    <3> QED BY <2>5, <3>1, <3>2
  <2>7. AnsweredInOrder'
    <3> SUFFICES ASSUME NEW n \in 1..Len(answers'), ~answers'[n].final
                 PROVE  answers'[n].to = IF Resumed THEN n - 1 ELSE n
      BY DEF AnsweredInOrder
    <3>1. CASE n \in 1..l BY <2>1, <3>1 DEF AnsweredInOrder
    <3>2. CASE n = l + 1 BY <2>1, <2>2, <2>4, <3>2
    <3> QED BY <2>5, <3>1, <3>2
  <2> QED BY <2>6, <2>7
<1> QED BY <1>2, <1>3

\* The loop answers what it takes from the channel, once.
LEMMA LoopOrderStep ==
  ASSUME RendererInv, [Next]_vars
  PROVE  LoopOrder' /\ AnswersAlmostMatch' /\ AnsweredInOrder'
<1> USE DEF RendererInv
<1>1. lastID \in Nat /\ loop.req.id \in Nat /\ Len(answers) \in Nat /\ Resumed \in BOOLEAN
  BY RendererAssumption DEF TypeOK, Requests, IDs
<1>2. CASE UNCHANGED <<loop, answers>>
  BY <1>2 DEF LoopOrder, AnswersAlmostMatch, AnsweredInOrder
<1>3. CASE Client \/ ReaderStep \/ CloseConnection \/ Shutdown
  <2>1. UNCHANGED <<loop, answers>>
    BY <1>3 DEF Client, ClientSends, ClientSendsJunk, ClientCloses, ReaderStep, Scan, ScanEnds,
                Deliver, DeliverCancelled, SetLastID, CloseConnection, Shutdown
  <2> QED BY <1>2, <2>1
<1>4. CASE NoMoreEvents \/ HandleFails \/ Panic
  <2>1. answers' = answers /\ loop'.at \in {"final", "panicked"}
    BY <1>4 DEF NoMoreEvents, HandleFails, Panic, TypeOK
  <2> QED BY <2>1 DEF LoopOrder, AnswersAlmostMatch, AnsweredInOrder
<1>5. CASE RenderInitial
  <2>1. loop.at = "start" /\ Len(answers) = 0 /\ loop.req.id = 0 /\ loop'.req = loop.req
        /\ loop'.at = IF Resumed /\ answers' = answers THEN "final" ELSE "select"
    BY <1>5 DEF RenderInitial, LoopOrder, TypeOK
  <2>2. CASE Resumed
    <3>1. Write(FALSE) BY <1>5, <2>2 DEF RenderInitial
    <3>2. AnswersAlmostMatch' /\ AnsweredInOrder' BY <2>1, <2>2, <3>1, ResponseKeeps
    <3>3. answers' # answers => Len(answers') = Len(answers) + 1 BY <3>1, WriteAppends
    <3>4. CASE answers' = answers
      <4>1. loop'.at = "final" BY <2>1, <2>2, <3>4
      <4> QED BY <3>2, <4>1 DEF LoopOrder
    <3>5. CASE answers' # answers
      <4>1. loop'.at = "select" /\ Len(answers') = 1 /\ loop'.req.id = 0
        BY <2>1, <3>3, <3>5
      <4> QED BY <2>2, <3>2, <4>1 DEF LoopOrder
    <3> QED BY <3>4, <3>5
  <2>3. CASE ~Resumed
    <3>1. answers' = answers BY <1>5, <2>3 DEF RenderInitial
    <3>2. loop'.at = "select" /\ Len(answers') = 0 /\ loop'.req.id = 0 BY <2>1, <2>3, <3>1
    <3>3. LoopOrder' BY <2>3, <3>2 DEF LoopOrder
    <3> QED BY <3>1, <3>3 DEF AnswersAlmostMatch, AnsweredInOrder
  <2> QED BY <2>2, <2>3
<1>6. CASE TakeEvent
  <2>1. /\ answers' = answers /\ loop.at = "select" /\ events # <<>> /\ Head(events) = events[1]
        /\ \/ events[1].kind = "error" /\ loop'.at = "final"
           \/ events[1].kind # "error" /\ loop'.at = "handle" /\ loop'.req = events[1]
    BY <1>6 DEF TakeEvent, TypeOK
  <2>2. LoopOrder'
    <3>1. CASE events[1].kind = "error" BY <2>1, <3>1 DEF LoopOrder
    <3>2. CASE events[1].kind # "error"
      <4>1. loop'.req.id = loop.req.id + 1 BY <2>1, <3>2 DEF ChannelOrder
      <4> QED BY <1>1, <2>1, <3>2, <4>1 DEF LoopOrder
    <3> QED BY <3>1, <3>2
  <2> QED BY <2>1, <2>2 DEF AnswersAlmostMatch, AnsweredInOrder
<1>7. CASE Render
  <2>1. loop.at = "handle" /\ Write(FALSE) /\ loop'.req = loop.req
        /\ (loop'.at = "final" \/ (loop'.at = "select" /\ answers' # answers))
    BY <1>7 DEF Render, TypeOK
  <2>2. loop.req.id = (IF Resumed THEN Len(answers) ELSE Len(answers) + 1)
    BY <1>1, <2>1 DEF LoopOrder
  <2>3. AnswersAlmostMatch' /\ AnsweredInOrder' BY <2>1, <2>2, ResponseKeeps
  <2>4. answers' # answers => Len(answers') = Len(answers) + 1 BY <2>1, WriteAppends
  <2> QED BY <1>1, <2>1, <2>2, <2>3, <2>4 DEF LoopOrder
<1>8. CASE Final
  <2>1. Write(TRUE) /\ loop'.at = "over" BY <1>8 DEF Final, TypeOK
  <2>2. AnswersAlmostMatch' /\ AnsweredInOrder' BY <2>1, ResponseKeeps
  <2> QED BY <2>1, <2>2 DEF LoopOrder
<1> QED BY <1>2, <1>3, <1>4, <1>5, <1>6, <1>7, <1>8 DEF Next, LoopStep, vars

-----------------------------------------------------------------------------
(* The theorems.                                                           *)

\* The invariant holds when the game loop and its reader start.
LEMMA RendererInit == Init => RendererInv
<1> SUFFICES ASSUME Init PROVE RendererInv OBVIOUS
<1> USE RendererAssumption DEF Init
<1>1. TypeOK
  <2>1. Nothing \in Requests BY DEF Nothing, Requests, IDs
  <2>2. 0 \in IDs BY DEF IDs
  <2>3. /\ inbox \in Seq([kind : {"play", "quit", "junk"}, id : IDs])
        /\ events \in Seq(Requests) /\ Len(events) = 0
        /\ answers \in Seq([id : IDs, to : IDs, final : BOOLEAN])
    BY EmptySeq
  <2>4. /\ reader \in [at : {"scan", "deliver", "setid", "done"}, req : Requests]
        /\ loop \in [at : {"start", "select", "handle", "final", "over", "panicked"}, req : Requests]
    BY <2>1
  <2>5. sent \in IDs /\ lastID \in IDs /\ stream = "open" /\ cancelled = FALSE /\ Len(events) <= 1
    BY <2>2, <2>3
  <2> HIDE DEF Init
  <2> QED BY <2>3, <2>4, <2>5 DEF TypeOK
<1>2. Pending(0) BY DEF Pending
<1>3. ReaderOrder /\ ChannelOrder /\ LoopOrder
  BY <1>2 DEF ReaderOrder, ChannelOrder, LoopOrder, Nothing, Pending
<1>4. AnswersAlmostMatch /\ AnsweredInOrder BY DEF AnswersAlmostMatch, AnsweredInOrder
<1> QED BY <1>1, <1>3, <1>4 DEF RendererInv

\* The invariant that relates the stream, the reader, the channel, lastID, the
\* loop and the responses holds throughout.
THEOREM RendererSafe == Spec => []RendererInv
<1>1. RendererInv /\ [Next]_vars => RendererInv'
  BY TypeStep, ReaderOrderStep, ChannelOrderStep, LoopOrderStep DEF RendererInv
<1> QED BY <1>1, RendererInit, PTL DEF Spec

\* RPCRenderer and the loop keep the shape of their state; the channel of
\* capacity one never holds more.
THEOREM RendererTypes == Spec => []TypeOK
BY RendererSafe, PTL DEF RendererInv

\* However many requests the client sends ahead: the unsynchronised lastID is
\* never more than one request away from the one that is answered.
THEOREM AnswersClose == Spec => []AnswersAlmostMatch
BY RendererSafe, PTL DEF RendererInv

\* However many requests the client sends ahead: the loop answers them in
\* order, each once, none left out.
THEOREM InOrder == Spec => []AnsweredInOrder
BY RendererSafe, PTL DEF RendererInv
=============================================================================
