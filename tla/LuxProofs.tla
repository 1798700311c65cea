----------------------------- MODULE LuxProofs ------------------------------
(***************************************************************************)
(* Proofs about Lux, for any scenario, any capacity of the channels and    *)
(* any number of interactions.                                             *)
(***************************************************************************)
EXTENDS Lux, Inductions, SequenceTheorems, TLAPS

-----------------------------------------------------------------------------
(* The inductive invariant.                                                *)

Acks == [n : Nat, error : BOOLEAN]
Inters == [kind : Kinds, n : Nat]
Messages == Acks \cup Inters
Drawings == [show : BOOLEAN, n : Nat, room : Rooms, fight : BOOLEAN]
Screens == [room : Rooms \cup {NoRoom}, fight : BOOLEAN, n : Nat]

LuxType ==
  /\ game \in Games /\ calls \in Nat
  /\ lastRoom \in Rooms \cup {NoRoom} /\ inCombat \in BOOLEAN /\ writeErr \in BOOLEAN
  /\ acks \in Seq(Acks) /\ interactions \in Seq(Inters)
  /\ batch \in Seq(Messages) /\ fromLux \in Seq(Messages)
  /\ toLux \in Seq(Drawings) /\ screen \in Screens

NoAck(s) == \A i \in 1..Len(s) : ~IsAck(s[i])
OneAck(s) == \A i, j \in 1..Len(s) : IsAck(s[i]) /\ IsAck(s[j]) => i = j

\* The screen shows the game as the last call drew it.
Drawn == screen = [room |-> game.room, fight |-> game.fight, n |-> calls]

\* The reader has messages in hand exactly while it routes them.
ReaderInv == batch = <<>> <=> reader \in {"read", "exit"}

\* What the renderer remembers of the scene is what the screen shows, or,
\* while a call is under way, what it is going to show.
DrawInv ==
  /\ pc \in {"connect", "render", "wait"} => screen.room = lastRoom /\ screen.fight = inCombat
  /\ pc = "ack" => lastRoom = game.room /\ inCombat = game.fight
  /\ pc = "wait" => Drawn

\* A call that Lux has not seen yet is the one that waits, its update is of
\* the scene that is shown, and no ack is anywhere.
AskInv ==
  toLux # <<>> =>
    /\ pc = "ack" /\ Len(toLux) = 1 /\ toLux[1].n = calls
    /\ toLux[1].room = game.room /\ toLux[1].fight = game.fight
    /\ toLux[1].show \/ (screen.room = game.room /\ screen.fight = game.fight)
    /\ NoAck(acks) /\ NoAck(batch) /\ NoAck(fromLux)

\* An ack answers the call that waits, and unless it reports an error the
\* screen shows what that call drew.
Answers(m) == pc = "ack" /\ toLux = <<>> /\ m.n = calls /\ (m.error \/ Drawn)
Carried(s) == OneAck(s) /\ \A i \in 1..Len(s) : IsAck(s[i]) => Answers(s[i])

\* There is one ack at most, in the channel, in the reader's hands or on the
\* socket.
AckInv ==
  /\ Carried(acks) /\ Carried(batch) /\ Carried(fromLux)
  /\ NoAck(acks) \/ NoAck(batch)
  /\ NoAck(acks) \/ NoAck(fromLux)
  /\ NoAck(batch) \/ NoAck(fromLux)

CallInv == DrawInv /\ AskInv /\ AckInv
LuxInv == LuxType /\ ReaderInv /\ (Running => CallInv)

-----------------------------------------------------------------------------
(* Acks and interactions in sequences.                                     *)

\* Acks are told from interactions by their fields (readLoop's type switch).
LEMMA AckOrInteraction ==
  /\ \A m \in Acks : IsAck(m)
  /\ \A m \in Inters : ~IsAck(m)
  /\ \A m \in Messages : IsAck(m) => m \in Acks
  /\ \A m \in Messages : ~IsAck(m) => m \in Inters
<1>1. \A m \in Acks : IsAck(m) BY DEF Acks, IsAck
<1>2. \A m \in Inters : ~IsAck(m) BY DEF Inters, IsAck
<1> QED BY <1>1, <1>2 DEF Messages

\* What is left when the first message is taken (Tail in WaitAck, Routed,
\* Drain and Interaction).
LEMMA AcksOfTail ==
  ASSUME NEW S, NEW s \in Seq(S), s # <<>>
  PROVE  /\ NoAck(s) => NoAck(Tail(s))
         /\ OneAck(s) => OneAck(Tail(s))
         /\ OneAck(s) /\ IsAck(Head(s)) => NoAck(Tail(s))
         /\ \A i \in 1..Len(Tail(s)) : \E j \in 1..Len(s) : Tail(s)[i] = s[j]
<1>1. /\ Len(s) \in Nat /\ Len(s) # 0 /\ Len(Tail(s)) = Len(s) - 1
      /\ \A i \in 1..Len(Tail(s)) : Tail(s)[i] = s[i + 1]
      /\ Head(s) = s[1]
  BY HeadTailProperties, EmptySeq, LenProperties
<1>2. \A i \in 1..Len(Tail(s)) : i + 1 \in 1..Len(s) /\ i + 1 # 1 BY <1>1
<1>3. 1 \in 1..Len(s) BY <1>1
<1>4. \A i, j \in 1..Len(Tail(s)) : i + 1 = j + 1 => i = j BY <1>1
<1> QED BY <1>1, <1>2, <1>3, <1>4 DEF NoAck, OneAck

\* What a sequence is after a message has been appended to it.
LEMMA AcksOfAppend ==
  ASSUME NEW S, NEW s \in Seq(S), NEW m \in S
  PROVE  /\ NoAck(s) /\ ~IsAck(m) => NoAck(Append(s, m))
         /\ OneAck(s) /\ ~IsAck(m) => OneAck(Append(s, m))
         /\ NoAck(s) => OneAck(Append(s, m))
         /\ \A i \in 1..Len(Append(s, m)) :
              Append(s, m)[i] = m \/ \E j \in 1..Len(s) : Append(s, m)[i] = s[j]
<1>1. /\ Len(s) \in Nat /\ Len(Append(s, m)) = Len(s) + 1
      /\ \A i \in 1..Len(s) : Append(s, m)[i] = s[i]
      /\ Append(s, m)[Len(s) + 1] = m
  BY AppendProperties, LenProperties
<1>2. \A i \in 1..Len(Append(s, m)) : i \in 1..Len(s) \/ i = Len(s) + 1 BY <1>1
<1> QED BY <1>1, <1>2 DEF NoAck, OneAck

\* A Read takes the first messages of the socket and leaves the others.
LEMMA Split ==
  ASSUME NEW S, NEW s \in Seq(S), NEW k \in 1..Len(s)
  PROVE  /\ SubSeq(s, 1, k) \in Seq(S) /\ Len(SubSeq(s, 1, k)) = k
         /\ \A i \in 1..k : SubSeq(s, 1, k)[i] = s[i]
         /\ SubSeq(s, k + 1, Len(s)) \in Seq(S) /\ Len(SubSeq(s, k + 1, Len(s))) = Len(s) - k
         /\ \A i \in 1..(Len(s) - k) : SubSeq(s, k + 1, Len(s))[i] = s[k + i]
<1> DEFINE a == SubSeq(s, 1, k)
           b == SubSeq(s, k + 1, Len(s))
<1>1. Len(s) \in Nat /\ k \in Nat /\ k >= 1 /\ k <= Len(s) BY LenProperties
<1>2. \A i \in 1..Len(s) : s[i] \in S BY ElementOfSeq
<1>3. a \in Seq(S) /\ Len(a) = k /\ \A i \in 1..k : a[i] = s[i]
  <2>1. \A i \in 1..k : s[i] \in S BY <1>1, <1>2
  <2>2. /\ a \in Seq(S) /\ Len(a) = IF 1 <= k THEN k - 1 + 1 ELSE 0
        /\ \A i \in 1..(k - 1 + 1) : a[i] = s[1 + i - 1]
    BY <2>1, <1>1, SubSeqProperties
  <2> QED BY <2>2, <1>1
<1>4. b \in Seq(S) /\ Len(b) = Len(s) - k /\ \A i \in 1..(Len(s) - k) : b[i] = s[k + i]
  <2>1. \A i \in (k + 1)..Len(s) : s[i] \in S BY <1>1, <1>2
  <2>2. /\ b \in Seq(S) /\ Len(b) = IF k + 1 <= Len(s) THEN Len(s) - (k + 1) + 1 ELSE 0
        /\ \A i \in 1..(Len(s) - (k + 1) + 1) : b[i] = s[(k + 1) + i - 1]
    <3>1. k + 1 \in Int /\ Len(s) \in Int BY <1>1
    <3> QED BY <2>1, <3>1, SubSeqProperties
  <2>3. Len(s) - (k + 1) + 1 = Len(s) - k /\ (k + 1 <= Len(s) \/ Len(s) - k = 0) BY <1>1
  <2>4. Len(b) = Len(s) - k BY <2>2, <2>3, <1>1
  <2>5. \A i \in 1..(Len(s) - k) : (k + 1) + i - 1 = k + i BY <1>1
  <2> QED BY <2>2, <2>3, <2>4, <2>5
<1> QED BY <1>3, <1>4

\* a holds the first k entries of s, b the others.
Parts(s, k, a, b) ==
  /\ Len(a) = k /\ \A i \in 1..k : a[i] = s[i]
  /\ Len(b) = Len(s) - k /\ \A i \in 1..(Len(s) - k) : b[i] = s[k + i]

\* An ack of the whole is in one of the two parts, once.
LEMMA AcksOfSplit ==
  ASSUME NEW S, NEW s \in Seq(S), NEW k \in 1..Len(s), NEW a \in Seq(S), NEW b \in Seq(S),
         Parts(s, k, a, b)
  PROVE  /\ a # <<>>
         /\ NoAck(s) => NoAck(a) /\ NoAck(b)
         /\ OneAck(s) => OneAck(a) /\ OneAck(b) /\ (NoAck(a) \/ NoAck(b))
         /\ \A i \in 1..Len(a) : \E j \in 1..Len(s) : a[i] = s[j]
         /\ \A i \in 1..Len(b) : \E j \in 1..Len(s) : b[i] = s[j]
<1>1. Len(s) \in Nat /\ k \in Nat /\ k >= 1 /\ k <= Len(s) BY LenProperties
<1>2. a \in Seq(S) /\ Len(a) = k /\ \A i \in 1..k : a[i] = s[i] BY DEF Parts
<1>3. b \in Seq(S) /\ Len(b) = Len(s) - k /\ \A i \in 1..(Len(s) - k) : b[i] = s[k + i]
  BY DEF Parts
<1>4. \A i \in 1..Len(a) : i \in 1..Len(s) BY <1>1, <1>2
<1>5. \A i \in 1..Len(b) : k + i \in 1..Len(s) /\ \A j \in 1..Len(a) : k + i # j
  BY <1>1, <1>2, <1>3
<1>6. \A i, j \in 1..Len(b) : k + i = k + j => i = j BY <1>1, <1>3
<1>7. a # <<>>
  <2>1. Len(a) # 0 BY <1>1, <1>2
  <2> QED BY <2>1
<1>8. NoAck(s) => NoAck(a) /\ NoAck(b) BY <1>2, <1>3, <1>4, <1>5 DEF NoAck
<1>9. OneAck(s) => OneAck(a) BY <1>2, <1>4 DEF OneAck
<1>10. OneAck(s) => OneAck(b) BY <1>3, <1>5, <1>6 DEF OneAck
<1>11. OneAck(s) => NoAck(a) \/ NoAck(b) BY <1>2, <1>3, <1>4, <1>5 DEF OneAck, NoAck
<1> QED BY <1>2, <1>3, <1>4, <1>5, <1>7, <1>8, <1>9, <1>10, <1>11

-----------------------------------------------------------------------------
(* The steps of the loop.                                                  *)

\* Everything the invariant speaks of but where the reader is.
inVars == <<pc, game, calls, lastRoom, inCombat, acks, batch, fromLux, toLux, screen>>

\* A step that leaves these alone leaves the invariant of the calls alone
\* (the event goroutine, the end of Lux, the end of the reader).
LEMMA CallFrame ==
  ASSUME UNCHANGED inVars, Running', Running => CallInv
  PROVE  CallInv'
<1> QED BY DEF inVars, Running, CallInv, DrawInv, AskInv, AckInv, Carried, Answers, Drawn

\* The parts of the loop that move only pc keep what is carried where it is,
\* because outside a call nothing is carried.
LEMMA QuietOutsideCalls ==
  ASSUME CallInv, pc # "ack"
  PROVE  toLux = <<>> /\ NoAck(acks) /\ NoAck(batch) /\ NoAck(fromLux)
<1> QED BY DEF CallInv, AskInv, AckInv, Carried, Answers, NoAck

\* When nothing is under way, the invariant of the calls is that of the
\* screen.
LEMMA QuietSuffices ==
  ASSUME (toLux = <<>> /\ NoAck(acks) /\ NoAck(batch) /\ NoAck(fromLux))', DrawInv'
  PROVE  CallInv'
<1> QED BY DEF CallInv, AskInv, AckInv, Carried, Answers, NoAck, OneAck

\* Connect and the parts of the loop outside Render and its wait for the ack
\* keep the invariant.
LEMMA LoopKeeps ==
  ASSUME LuxInv, Connect \/ TakeEvent \/ EventsClosed \/ Close \/ Join
  PROVE  LuxInv'
<1> USE DEF Connect, TakeEvent, EventsClosed, Close, Join, loopVars, clientVars,
            displayVars, luxVars
<1>1. LuxType' BY DEF LuxInv, LuxType
<1>2. ReaderInv' BY DEF LuxInv, ReaderInv
<1>3. ASSUME Running' PROVE CallInv'
  <2>1. pc # "ack" /\ CallInv BY DEF LuxInv, Running
  <2>2. toLux = <<>> /\ NoAck(acks) /\ NoAck(batch) /\ NoAck(fromLux)
    BY <2>1, QuietOutsideCalls
  <2>3. (toLux = <<>> /\ NoAck(acks) /\ NoAck(batch) /\ NoAck(fromLux))'
    BY <2>2 DEF NoAck
  <2>4. DrawInv' BY <2>1, <1>3 DEF Running, CallInv, DrawInv
  <2> QED BY <2>3, <2>4, QuietSuffices
<1> QED BY <1>1, <1>2, <1>3 DEF LuxInv

\* Render writes the call with the scene, or with an update of the scene that
\* is shown.
LEMMA RenderKeeps == ASSUME LuxInv, Render PROVE LuxInv'
<1> USE DEF Render, clientVars, displayVars
<1>1. pc = "render" /\ Running /\ CallInv BY DEF LuxInv, Running
<1>2. toLux = <<>> /\ NoAck(acks) /\ NoAck(batch) /\ NoAck(fromLux)
  BY <1>1, QuietOutsideCalls
<1> DEFINE m == [show |-> NeedsScene, n |-> calls + 1, room |-> game.room,
                 fight |-> game.fight]
<1>3. m \in Drawings BY DEF LuxInv, LuxType, Drawings, Games, NeedsScene
<1>4. LuxType'
  <2>1. toLux' \in Seq(Drawings)
    <3> HIDE DEF m
    <3>1. toLux \in Seq(Drawings) BY DEF LuxInv, LuxType
    <3>2. Append(toLux, m) \in Seq(Drawings) BY <1>3, <3>1, AppendProperties
    <3> QED BY <3>1, <3>2 DEF m
  <2>2. lastRoom' \in Rooms \cup {NoRoom} /\ inCombat' \in BOOLEAN
    BY DEF LuxInv, LuxType, Games
  <2>3. calls' \in Nat BY DEF LuxInv, LuxType
  <2>4. writeErr' \in BOOLEAN
    <3>1. writeErr' = writeErr \/ writeErr' = TRUE OBVIOUS
    <3> QED BY <3>1 DEF LuxInv, LuxType
  <2>5. UNCHANGED <<game, acks, interactions, batch, fromLux, screen>> OBVIOUS
  <2> HIDE DEF Render
  <2> QED BY <2>1, <2>2, <2>3, <2>4, <2>5 DEF LuxInv, LuxType
<1>5. ReaderInv' BY DEF LuxInv, ReaderInv
<1>6. ASSUME Running' PROVE CallInv'
  <2>1. luxUp /\ pc' = "ack" /\ toLux' = <<m>>
    <3>1. luxUp /\ pc' = "ack" /\ toLux' = Append(toLux, m) BY <1>6 DEF Running
    <3> QED BY <3>1, <1>2
  <2>2. (NoAck(acks) /\ NoAck(batch) /\ NoAck(fromLux))' BY <1>2 DEF NoAck
  <2>3. lastRoom' = game.room /\ inCombat' = game.fight
    BY DEF NeedsScene, LuxInv, LuxType
  <2>4. DrawInv' BY <2>1, <2>3 DEF DrawInv
  <2>5. m.show \/ (screen.room = game.room /\ screen.fight = game.fight)
    BY <1>1 DEF NeedsScene, CallInv, DrawInv
  <2>6. /\ toLux'[1] = m /\ Len(toLux') = 1 /\ m.n = calls' /\ m.room = game'.room
        /\ m.fight = game'.fight /\ screen' = screen /\ game' = game
    BY <2>1
  <2>7. AskInv'
    <3> HIDE DEF m, Render
    <3> QED BY <2>1, <2>2, <2>5, <2>6 DEF AskInv
  <2>8. AckInv' BY <2>2 DEF AckInv, Carried, NoAck, OneAck
  <2> QED BY <2>4, <2>7, <2>8 DEF CallInv
<1> QED BY <1>4, <1>5, <1>6 DEF LuxInv

\* The ack that is taken is the one of the call: if it reports no error, the
\* screen is as the call drew it, and nothing else is on its way.
LEMMA WaitAckKeeps == ASSUME LuxInv, WaitAck PROVE LuxInv'
<1> USE DEF WaitAck, displayVars, luxVars
<1>1. pc = "ack" /\ CallInv /\ acks # <<>> /\ acks \in Seq(Acks)
  BY DEF LuxInv, Running, LuxType
<1>2. Head(acks) \in Acks /\ Head(acks) = acks[1] /\ 1 \in 1..Len(acks)
  BY <1>1, HeadTailProperties, EmptySeq, LenProperties
<1>3. IsAck(Head(acks)) BY <1>2, AckOrInteraction
<1>4. Answers(Head(acks)) BY <1>1, <1>2, <1>3 DEF CallInv, AckInv, Carried
<1>5. NoAck(batch) /\ NoAck(fromLux) BY <1>1, <1>2, <1>3 DEF CallInv, AckInv, NoAck
<1>6. NoAck(Tail(acks)) /\ Tail(acks) \in Seq(Acks)
  BY <1>1, <1>3, AcksOfTail, HeadTailProperties DEF CallInv, AckInv, Carried
<1>7. LuxType'
  <2>1. writeErr' \in BOOLEAN BY <1>2 DEF LuxInv, LuxType, Acks
  <2> QED BY <2>1, <1>6 DEF LuxInv, LuxType
<1>8. ReaderInv' BY DEF LuxInv, ReaderInv
<1>9. ASSUME Running' PROVE CallInv'
  <2>1. ~writeErr' BY <1>9 DEF Returned, Running
  <2>2. Drawn /\ toLux = <<>> BY <2>1, <1>4 DEF Answers
  <2>3. (toLux = <<>> /\ NoAck(acks) /\ NoAck(batch) /\ NoAck(fromLux))'
    BY <1>5, <1>6, <2>2 DEF NoAck
  <2>4. lastRoom = game.room /\ inCombat = game.fight BY <1>1 DEF CallInv, DrawInv
  <2>5. pc' \in {"close", "wait"} BY <2>1 DEF Returned
  <2>6. DrawInv'
    <3>1. screen.room = lastRoom /\ screen.fight = inCombat BY <2>2, <2>4 DEF Drawn
    <3> QED BY <2>2, <3>1, <2>5 DEF DrawInv, Drawn
  <2> QED BY <2>3, <2>6, QuietSuffices
<1> QED BY <1>7, <1>8, <1>9 DEF LuxInv

\* A wait that ends without an ack ends the game: the error is recorded.
LEMMA WaitFailsKeeps == ASSUME LuxInv, WaitAckReaderDone \/ WaitAckTimeout PROVE LuxInv'
<1> USE DEF WaitAckReaderDone, WaitAckTimeout, Returned, loopVars, clientVars, displayVars,
            luxVars
<1>1. LuxType' BY DEF LuxInv, LuxType
<1>2. ReaderInv' BY DEF LuxInv, ReaderInv
<1>3. ~Running' BY DEF Running
<1> QED BY <1>1, <1>2, <1>3 DEF LuxInv

-----------------------------------------------------------------------------
(* The steps of the reader.                                                *)

\* The reader moves messages; loop, renderer and screen stay as they are.
readerFrame == <<pc, game, calls, lastRoom, inCombat, toLux, screen>>

\* What the reader has done is sound if every ack it carries was carried
\* before, there is still one at most, and none if there was none.
LEMMA ReaderSuffices ==
  ASSUME CallInv, UNCHANGED readerFrame,
         \A i \in 1..Len(acks') : IsAck(acks'[i]) => Answers(acks'[i]),
         \A i \in 1..Len(batch') : IsAck(batch'[i]) => Answers(batch'[i]),
         \A i \in 1..Len(fromLux') : IsAck(fromLux'[i]) => Answers(fromLux'[i]),
         OneAck(acks'), OneAck(batch'), OneAck(fromLux'),
         NoAck(acks') \/ NoAck(batch'), NoAck(acks') \/ NoAck(fromLux'),
         NoAck(batch') \/ NoAck(fromLux')
  PROVE  CallInv'
<1>1. DrawInv' BY DEF readerFrame, CallInv, DrawInv, Drawn
<1>2. \A m : Answers(m) => toLux = <<>> BY DEF Answers
<1>3. ASSUME NEW m, Answers(m)
      PROVE (pc = "ack" /\ toLux = <<>>)' /\ m.n = calls' /\ (m.error \/ Drawn')
  BY <1>3 DEF readerFrame, Answers, Drawn
<1>4. AckInv' BY <1>3 DEF AckInv, Carried, Answers, NoAck, OneAck
<1>5. ASSUME toLux # <<>> PROVE NoAck(acks') /\ NoAck(batch') /\ NoAck(fromLux')
  BY <1>2, <1>5 DEF NoAck
<1>6. AskInv' BY <1>5 DEF readerFrame, CallInv, AskInv, NoAck
<1> QED BY <1>1, <1>4, <1>6 DEF CallInv

\* A Read takes the first messages of the socket; there were none in hand.
LEMMA ReadKeeps == ASSUME LuxInv, Read PROVE LuxInv'
<1> USE DEF Read, loopVars, displayVars
<1>1. CallInv /\ batch = <<>> /\ fromLux \in Seq(Messages)
  BY DEF LuxInv, ReaderInv, LuxType
<1>2. PICK k \in 1..Len(fromLux) :
        batch' = SubSeq(fromLux, 1, k) /\ fromLux' = SubSeq(fromLux, k + 1, Len(fromLux))
  OBVIOUS
<1>3. /\ batch' \in Seq(Messages) /\ fromLux' \in Seq(Messages) /\ batch' # <<>>
      /\ NoAck(fromLux) => NoAck(batch') /\ NoAck(fromLux')
      /\ OneAck(fromLux) => OneAck(batch') /\ OneAck(fromLux')
                            /\ (NoAck(batch') \/ NoAck(fromLux'))
      /\ \A i \in 1..Len(batch') : \E j \in 1..Len(fromLux) : batch'[i] = fromLux[j]
      /\ \A i \in 1..Len(fromLux') : \E j \in 1..Len(fromLux) : fromLux'[i] = fromLux[j]
  <2> HIDE DEF Read
  <2>1. k \in 1..Len(fromLux) BY <1>2
  <2>2. /\ batch' \in Seq(Messages) /\ Len(batch') = k
        /\ \A i \in 1..k : batch'[i] = fromLux[i]
        /\ fromLux' \in Seq(Messages) /\ Len(fromLux') = Len(fromLux) - k
        /\ \A i \in 1..(Len(fromLux) - k) : fromLux'[i] = fromLux[k + i]
    BY <1>1, <1>2, <2>1, Split
  <2>3. Parts(fromLux, k, batch', fromLux') BY <2>2 DEF Parts
  <2>4. /\ fromLux \in Seq(Messages) /\ batch' \in Seq(Messages)
        /\ fromLux' \in Seq(Messages)
    BY <1>1, <2>2
  <2>5. /\ batch' # <<>>
        /\ NoAck(fromLux) => NoAck(batch') /\ NoAck(fromLux')
        /\ OneAck(fromLux) => OneAck(batch') /\ OneAck(fromLux')
                              /\ (NoAck(batch') \/ NoAck(fromLux'))
        /\ \A i \in 1..Len(batch') : \E j \in 1..Len(fromLux) : batch'[i] = fromLux[j]
        /\ \A i \in 1..Len(fromLux') : \E j \in 1..Len(fromLux) : fromLux'[i] = fromLux[j]
    BY <2>1, <2>3, <2>4, AcksOfSplit
  <2> QED BY <2>4, <2>5
<1>4. acks' = acks /\ UNCHANGED readerFrame BY DEF readerFrame
<1>5. LuxType' BY <1>3 DEF LuxInv, LuxType
<1>6. ReaderInv' BY <1>3 DEF ReaderInv
<1>7. CallInv'
  <2> HIDE DEF Read
  <2>1. /\ OneAck(fromLux) /\ \A i \in 1..Len(fromLux) : IsAck(fromLux[i]) => Answers(fromLux[i])
        /\ OneAck(acks) /\ \A i \in 1..Len(acks) : IsAck(acks[i]) => Answers(acks[i])
        /\ NoAck(acks) \/ NoAck(fromLux)
    BY <1>1 DEF CallInv, AckInv, Carried
  <2>2. \A i \in 1..Len(batch') : IsAck(batch'[i]) => Answers(batch'[i]) BY <1>3, <2>1
  <2>3. \A i \in 1..Len(fromLux') : IsAck(fromLux'[i]) => Answers(fromLux'[i]) BY <1>3, <2>1
  <2>4. \A i \in 1..Len(acks') : IsAck(acks'[i]) => Answers(acks'[i]) BY <1>4, <2>1
  <2>5. /\ OneAck(acks') /\ OneAck(batch') /\ OneAck(fromLux')
        /\ NoAck(acks') \/ NoAck(batch')
        /\ NoAck(acks') \/ NoAck(fromLux')
        /\ NoAck(batch') \/ NoAck(fromLux')
    BY <1>3, <1>4, <2>1
  <2> QED BY <1>1, <1>4, <2>2, <2>3, <2>4, <2>5, ReaderSuffices
<1> QED BY <1>5, <1>6, <1>7 DEF LuxInv

\* The first message in hand goes to its channel, whose oldest may have been
\* dropped before.
LEMMA RoutedKeeps ==
  ASSUME LuxInv, Running, reader \in {"route", "push"}, Routed(Head(batch)),
         UNCHANGED <<readerFrame, writeErr, fromLux>>
  PROVE  LuxInv'
<1> DEFINE m == Head(batch)
<1>1. CallInv /\ batch # <<>> /\ batch \in Seq(Messages) /\ acks \in Seq(Acks)
      /\ interactions \in Seq(Inters)
  BY DEF LuxInv, ReaderInv, LuxType
<1>2. /\ m \in Messages /\ m = batch[1] /\ 1 \in 1..Len(batch)
      /\ Tail(batch) \in Seq(Messages) /\ Len(Tail(batch)) = Len(batch) - 1
      /\ Len(batch) \in Nat
  BY <1>1, HeadTailProperties, EmptySeq, LenProperties
<1>3. /\ NoAck(batch) => NoAck(Tail(batch))
      /\ OneAck(batch) => OneAck(Tail(batch))
      /\ OneAck(batch) /\ IsAck(m) => NoAck(Tail(batch))
      /\ \A i \in 1..Len(Tail(batch)) : \E j \in 1..Len(batch) : Tail(batch)[i] = batch[j]
  BY <1>1, AcksOfTail
<1>4. /\ OneAck(batch) /\ OneAck(acks) /\ OneAck(fromLux)
      /\ \A i \in 1..Len(batch) : IsAck(batch[i]) => Answers(batch[i])
      /\ \A i \in 1..Len(acks) : IsAck(acks[i]) => Answers(acks[i])
      /\ \A i \in 1..Len(fromLux) : IsAck(fromLux[i]) => Answers(fromLux[i])
      /\ NoAck(acks) \/ NoAck(batch)
      /\ NoAck(acks) \/ NoAck(fromLux)
      /\ NoAck(batch) \/ NoAck(fromLux)
  BY <1>1 DEF CallInv, AckInv, Carried
<1>5. /\ acks' = IF IsAck(m) THEN Append(acks, m) ELSE acks
      /\ interactions' = IF IsAck(m) THEN interactions ELSE Append(interactions, m)
      /\ batch' = Tail(batch)
      /\ reader' = IF Len(batch) = 1 THEN "read" ELSE "route"
  BY DEF Routed
<1> HIDE DEF m
<1>6. LuxType'
  <2>1. acks' \in Seq(Acks)
    <3>1. IsAck(m) => m \in Acks BY <1>2, AckOrInteraction
    <3>2. IsAck(m) => Append(acks, m) \in Seq(Acks) BY <1>1, <3>1, AppendProperties
    <3> QED BY <1>1, <1>5, <3>2
  <2>2. interactions' \in Seq(Inters)
    <3>1. ~IsAck(m) => m \in Inters BY <1>2, AckOrInteraction
    <3>2. ~IsAck(m) => Append(interactions, m) \in Seq(Inters) BY <1>1, <3>1, AppendProperties
    <3> QED BY <1>1, <1>5, <3>2
  <2> QED BY <1>2, <1>5, <2>1, <2>2 DEF LuxInv, LuxType, readerFrame
<1>7. ReaderInv'
  <2>1. Tail(batch) = <<>> <=> Len(batch) = 1
    <3>1. Tail(batch) = <<>> <=> Len(Tail(batch)) = 0 BY <1>2, EmptySeq
    <3>2. Len(batch) - 1 = 0 <=> Len(batch) = 1 BY <1>2
    <3> QED BY <3>1, <3>2, <1>2
  <2> QED BY <1>5, <2>1 DEF ReaderInv
<1>8. CallInv'
  <2>1. CASE IsAck(m)
    <3>1. ~NoAck(batch) /\ Answers(m) BY <2>1, <1>2, <1>4 DEF NoAck
    <3>2. m \in Acks BY <2>1, <1>2, AckOrInteraction
    <3>3. NoAck(acks) /\ NoAck(fromLux) /\ NoAck(batch') BY <3>1, <2>1, <1>3, <1>4, <1>5
    <3>4. /\ OneAck(acks')
          /\ \A i \in 1..Len(acks') : acks'[i] = m \/ \E j \in 1..Len(acks) : acks'[i] = acks[j]
      BY <2>1, <1>1, <1>5, <3>2, <3>3, AcksOfAppend
    <3>5. \A i \in 1..Len(acks') : IsAck(acks'[i]) => Answers(acks'[i]) BY <3>1, <3>4, <1>4
    <3>6. \A i \in 1..Len(batch') : IsAck(batch'[i]) => Answers(batch'[i]) BY <3>3 DEF NoAck
    <3>7. \A i \in 1..Len(fromLux') : IsAck(fromLux'[i]) => Answers(fromLux'[i])
      BY <3>3 DEF NoAck
    <3>8. OneAck(batch') /\ OneAck(fromLux') /\ NoAck(fromLux') BY <3>3, <1>4 DEF NoAck, OneAck
    <3> QED BY <1>1, <3>3, <3>4, <3>5, <3>6, <3>7, <3>8, ReaderSuffices
  <2>2. CASE ~IsAck(m)
    <3>1. acks' = acks /\ fromLux' = fromLux /\ batch' = Tail(batch) BY <2>2, <1>5
    <3>2. OneAck(acks') /\ OneAck(batch') /\ OneAck(fromLux') BY <3>1, <1>3, <1>4
    <3>3. /\ NoAck(acks') \/ NoAck(batch')
          /\ NoAck(acks') \/ NoAck(fromLux')
          /\ NoAck(batch') \/ NoAck(fromLux')
      BY <3>1, <1>3, <1>4
    <3>4. \A i \in 1..Len(batch') : IsAck(batch'[i]) => Answers(batch'[i]) BY <3>1, <1>3, <1>4
    <3>5. \A i \in 1..Len(acks') : IsAck(acks'[i]) => Answers(acks'[i]) BY <3>1, <1>4
    <3>6. \A i \in 1..Len(fromLux') : IsAck(fromLux'[i]) => Answers(fromLux'[i]) BY <3>1, <1>4
    <3> QED BY <1>1, <3>2, <3>3, <3>4, <3>5, <3>6, ReaderSuffices
  <2> QED BY <2>1, <2>2
<1> QED BY <1>6, <1>7, <1>8 DEF LuxInv

\* A full channel loses its oldest message.
LEMMA DrainKeeps == ASSUME LuxInv, Drain PROVE LuxInv'
<1> USE DEF Drain, loopVars, displayVars, luxVars
<1>1. CallInv /\ acks \in Seq(Acks) /\ interactions \in Seq(Inters) BY DEF LuxInv, LuxType
<1>2. UNCHANGED <<readerFrame, batch, fromLux>> BY DEF readerFrame
<1>3. acks' = acks \/ (acks # <<>> /\ acks' = Tail(acks)) OBVIOUS
<1>4. interactions' = interactions \/ (interactions # <<>> /\ interactions' = Tail(interactions))
  OBVIOUS
<1>5. LuxType'
  <2>1. acks' \in Seq(Acks) BY <1>1, <1>3, HeadTailProperties
  <2>2. interactions' \in Seq(Inters) BY <1>1, <1>4, HeadTailProperties
  <2> HIDE DEF Drain
  <2>3. writeErr' = writeErr BY DEF Drain
  <2> QED BY <1>2, <2>1, <2>2, <2>3 DEF LuxInv, LuxType, readerFrame
<1>6. ReaderInv' BY DEF LuxInv, ReaderInv
<1>7. CallInv'
  <2> HIDE DEF Drain
  <2>1. /\ OneAck(batch) /\ OneAck(acks) /\ OneAck(fromLux)
        /\ \A i \in 1..Len(batch) : IsAck(batch[i]) => Answers(batch[i])
        /\ \A i \in 1..Len(acks) : IsAck(acks[i]) => Answers(acks[i])
        /\ \A i \in 1..Len(fromLux) : IsAck(fromLux[i]) => Answers(fromLux[i])
        /\ NoAck(acks) \/ NoAck(batch)
        /\ NoAck(acks) \/ NoAck(fromLux)
        /\ NoAck(batch) \/ NoAck(fromLux)
    BY <1>1 DEF CallInv, AckInv, Carried
  <2>2. /\ NoAck(acks) => NoAck(acks')
        /\ OneAck(acks')
        /\ \A i \in 1..Len(acks') : \E j \in 1..Len(acks) : acks'[i] = acks[j]
    <3>1. CASE acks' = acks BY <3>1, <2>1
    <3>2. CASE acks # <<>> /\ acks' = Tail(acks) BY <3>2, <1>1, <2>1, AcksOfTail
    <3> QED BY <1>3, <3>1, <3>2
  <2>3. \A i \in 1..Len(acks') : IsAck(acks'[i]) => Answers(acks'[i]) BY <2>1, <2>2
  <2> QED BY <1>1, <1>2, <2>1, <2>2, <2>3, ReaderSuffices
<1> QED BY <1>5, <1>6, <1>7 DEF LuxInv

\* The reader's other steps.
LEMMA RouteKeeps == ASSUME LuxInv, Route \/ Push PROVE LuxInv'
<1> USE DEF Route, Push, loopVars, displayVars, luxVars
<1>1. CASE Routed(Head(batch))
  <2>1. Running /\ reader \in {"route", "push"} OBVIOUS
  <2>2. UNCHANGED <<readerFrame, writeErr, fromLux>> BY DEF readerFrame
  <2> QED BY <1>1, <2>1, <2>2, RoutedKeeps
<1>2. CASE Route /\ reader' = "drain" /\ UNCHANGED <<acks, interactions, batch>>
  <2>1. LuxType' BY <1>2 DEF LuxInv, LuxType
  <2>2. ReaderInv' BY <1>2 DEF LuxInv, ReaderInv
  <2>3. Running' /\ CallInv' BY <1>2, CallFrame DEF inVars, LuxInv, Running
  <2> QED BY <2>1, <2>2, <2>3 DEF LuxInv
<1> QED BY <1>1, <1>2

\* The end of the reader, the event goroutine and the end of Lux change
\* nothing the calls depend on.
LEMMA OthersKeep ==
  ASSUME LuxInv, ReadFails \/ Events \/ LuxDies
  PROVE  LuxInv'
<1> USE DEF ReadFails, Events, DisplayDone, DisplayReaderDone, Interaction, Emit, LuxDies,
            loopVars, clientVars, displayVars, luxVars
<1>1. Running /\ CallInv /\ interactions \in Seq(Inters) BY DEF LuxInv, LuxType
<1>2. UNCHANGED inVars BY DEF inVars
<1>3. interactions' = interactions \/ (interactions # <<>> /\ interactions' = Tail(interactions))
  OBVIOUS
<1>4. interactions' \in Seq(Inters) BY <1>1, <1>3, HeadTailProperties
<1>5. reader' = reader \/ (reader = "read" /\ reader' = "exit") OBVIOUS
<1>6. writeErr' = writeErr \/ writeErr' = (writeErr \/ readerErr) OBVIOUS
<1> HIDE DEF ReadFails, Events, LuxDies
<1>7. LuxType' BY <1>2, <1>4, <1>6 DEF LuxInv, LuxType, inVars
<1>8. ReaderInv' BY <1>2, <1>5 DEF LuxInv, ReaderInv, inVars
<1>9. CallInv' BY <1>1, <1>2, CallFrame DEF inVars, Running
<1> QED BY <1>7, <1>8, <1>9 DEF LuxInv

-----------------------------------------------------------------------------
(* The steps of Lux and its user.                                          *)

\* Lux sees the call that waits, and answers it with the only ack there is.
LEMMA LuxDrawsKeeps == ASSUME LuxInv, LuxDraws PROVE LuxInv'
<1> USE DEF LuxDraws, loopVars, clientVars, displayVars
<1> DEFINE m == Head(toLux)
<1>1. Running /\ CallInv /\ toLux # <<>> /\ toLux \in Seq(Drawings) /\ fromLux \in Seq(Messages)
  BY DEF LuxInv, LuxType
<1>2. /\ pc = "ack" /\ Len(toLux) = 1 /\ toLux[1].n = calls
      /\ toLux[1].room = game.room /\ toLux[1].fight = game.fight
      /\ toLux[1].show \/ (screen.room = game.room /\ screen.fight = game.fight)
      /\ NoAck(acks) /\ NoAck(batch) /\ NoAck(fromLux)
  BY <1>1 DEF CallInv, AskInv
<1>3. m \in Drawings /\ m = toLux[1] /\ toLux' = <<>>
  <2>1. /\ Head(toLux) \in Drawings /\ Tail(toLux) \in Seq(Drawings)
        /\ Len(Tail(toLux)) = 0 /\ Head(toLux) = toLux[1]
    BY <1>1, <1>2, HeadTailProperties
  <2> QED BY <2>1, EmptySeq
<1>4. PICK error \in BOOLEAN :
        /\ fromLux' = Append(fromLux, [n |-> m.n, error |-> error])
        /\ screen' = CASE ~error /\ m.show  -> [room |-> m.room, fight |-> m.fight, n |-> m.n]
                       [] ~error /\ ~m.show -> [screen EXCEPT !.n = m.n]
                       [] OTHER -> screen
  OBVIOUS
<1> DEFINE a == [n |-> m.n, error |-> error]
<1>5. a \in Acks /\ a \in Messages /\ m.n \in Nat BY <1>3 DEF Acks, Messages, Drawings
<1>6. screen \in Screens BY DEF LuxInv, LuxType
<1>7. /\ error => screen' = screen
      /\ ~error /\ m.show => screen' = [room |-> m.room, fight |-> m.fight, n |-> m.n]
      /\ ~error /\ ~m.show => screen' = [screen EXCEPT !.n = m.n]
  <2> HIDE DEF LuxDraws
  <2>1. m.show \in BOOLEAN BY <1>3 DEF Drawings
  <2> HIDE DEF m
  <2> QED BY <1>4, <2>1
<1>8. screen' \in Screens BY <1>3, <1>5, <1>6, <1>7 DEF Screens, Drawings
<1>9. error \/ screen' = [room |-> game.room, fight |-> game.fight, n |-> calls]
  <2>1. CASE ~error /\ m.show BY <2>1, <1>2, <1>3, <1>7
  <2>2. CASE ~error /\ ~m.show
    <3>1. screen' = [screen EXCEPT !.n = m.n] BY <2>2, <1>7
    <3>2. screen = [room |-> screen.room, fight |-> screen.fight, n |-> screen.n]
      BY <1>6 DEF Screens
    <3>3. screen.room = game.room /\ screen.fight = game.fight /\ m.n = calls
      BY <2>2, <1>2, <1>3
    <3> QED BY <3>1, <3>2, <3>3
  <2> QED BY <2>1, <2>2
<1>10. /\ UNCHANGED <<pc, game, calls, lastRoom, inCombat, writeErr, acks, interactions,
                      batch, reader>>
       /\ fromLux' = Append(fromLux, a)
  BY <1>4
<1>11. a.n = calls /\ a.error = error /\ IsAck(a) BY <1>2, <1>3, <1>5, AckOrInteraction
<1> HIDE DEF m, a, LuxDraws
<1>12. /\ OneAck(fromLux') /\ fromLux' \in Seq(Messages)
       /\ \A i \in 1..Len(fromLux') :
            fromLux'[i] = a \/ \E j \in 1..Len(fromLux) : fromLux'[i] = fromLux[j]
  BY <1>1, <1>2, <1>5, <1>10, AcksOfAppend, AppendProperties
<1>13. LuxType'
  <2>1. toLux' \in Seq(Drawings) BY <1>3
  <2> QED BY <1>8, <1>10, <1>12, <2>1 DEF LuxInv, LuxType
<1>14. ReaderInv' BY <1>10 DEF LuxInv, ReaderInv
<1>15. CallInv'
  <2>1. DrawInv' BY <1>1, <1>2, <1>10 DEF CallInv, DrawInv
  <2>2. AskInv' BY <1>3 DEF AskInv
  <2>3. \A i \in 1..Len(fromLux') : IsAck(fromLux'[i]) => fromLux'[i] = a
    BY <1>2, <1>12 DEF NoAck
  <2>4. (pc = "ack" /\ toLux = <<>>)' /\ a.n = calls' /\ (a.error \/ Drawn')
    BY <1>2, <1>3, <1>9, <1>10, <1>11 DEF Drawn
  <2>5. NoAck(acks') /\ NoAck(batch') BY <1>2, <1>10
  <2>6. \A i \in 1..Len(fromLux') : IsAck(fromLux'[i]) =>
          (pc = "ack" /\ toLux = <<>>)' /\ fromLux'[i].n = calls' /\ (fromLux'[i].error \/ Drawn')
    BY <2>3, <2>4
  <2>7. AckInv' BY <2>5, <2>6, <1>12 DEF AckInv, Carried, Answers, NoAck, OneAck
  <2> QED BY <2>1, <2>2, <2>7 DEF CallInv
<1> QED BY <1>13, <1>14, <1>15 DEF LuxInv

\* An interaction is not an ack.
LEMMA UserActsKeeps == ASSUME LuxInv, UserActs, said \in Seq(Kinds) PROVE LuxInv'
<1> USE DEF UserActs, loopVars, clientVars, displayVars
<1>1. PICK k \in Kinds : fromLux' = Append(fromLux, [kind |-> k, n |-> Len(said) + 1])
  OBVIOUS
<1> DEFINE m == [kind |-> k, n |-> Len(said) + 1]
<1>2. m \in Inters /\ m \in Messages /\ ~IsAck(m)
  <2>1. Len(said) + 1 \in Nat BY LenProperties
  <2>2. m \in Inters BY <2>1 DEF Inters
  <2> QED BY <2>2, AckOrInteraction DEF Messages
<1>3. CallInv /\ fromLux \in Seq(Messages) BY DEF LuxInv, LuxType
<1>4. /\ UNCHANGED <<readerFrame, acks, batch, interactions, reader, writeErr>>
      /\ fromLux' = Append(fromLux, m)
  BY <1>1 DEF readerFrame
<1> HIDE DEF m, UserActs
<1>5. /\ fromLux' \in Seq(Messages)
      /\ NoAck(fromLux) => NoAck(fromLux')
      /\ OneAck(fromLux) => OneAck(fromLux')
      /\ \A i \in 1..Len(fromLux') :
           fromLux'[i] = m \/ \E j \in 1..Len(fromLux) : fromLux'[i] = fromLux[j]
  BY <1>2, <1>3, <1>4, AcksOfAppend, AppendProperties
<1>6. LuxType' BY <1>4, <1>5 DEF LuxInv, LuxType, readerFrame
<1>7. ReaderInv' BY <1>4 DEF LuxInv, ReaderInv
<1>8. CallInv'
  <2>1. /\ OneAck(batch) /\ OneAck(acks) /\ OneAck(fromLux)
        /\ \A i \in 1..Len(batch) : IsAck(batch[i]) => Answers(batch[i])
        /\ \A i \in 1..Len(acks) : IsAck(acks[i]) => Answers(acks[i])
        /\ \A i \in 1..Len(fromLux) : IsAck(fromLux[i]) => Answers(fromLux[i])
        /\ NoAck(acks) \/ NoAck(batch)
        /\ NoAck(acks) \/ NoAck(fromLux)
        /\ NoAck(batch) \/ NoAck(fromLux)
    BY <1>3 DEF CallInv, AckInv, Carried
  <2>2. acks' = acks /\ batch' = batch BY <1>4
  <2>3. \A i \in 1..Len(fromLux') : IsAck(fromLux'[i]) => Answers(fromLux'[i])
    BY <1>2, <1>5, <2>1
  <2>4. OneAck(fromLux') /\ (NoAck(acks') \/ NoAck(fromLux')) /\ (NoAck(batch') \/ NoAck(fromLux'))
    BY <1>5, <2>1, <2>2
  <2> QED BY <1>3, <1>4, <2>1, <2>2, <2>3, <2>4, ReaderSuffices
<1> QED BY <1>6, <1>7, <1>8 DEF LuxInv

-----------------------------------------------------------------------------
(* The theorems.                                                           *)

\* What the user has said so far is a sequence of interactions.
LEMMA SaidType == Spec => [](said \in Seq(Kinds))
<1>1. Init => said \in Seq(Kinds) BY DEF Init
<1>2. said \in Seq(Kinds) /\ [Next]_vars => (said \in Seq(Kinds))'
  <2> SUFFICES ASSUME said \in Seq(Kinds), [Next]_vars PROVE said' \in Seq(Kinds) OBVIOUS
  <2>1. CASE UserActs
    <3>1. PICK k \in Kinds : said' = Append(said, k) BY <2>1 DEF UserActs
    <3> QED BY <3>1, AppendProperties
  <2>2. CASE ~UserActs
    <3>1. said' = said
      BY <2>2 DEF Next, Loop, Reader, Events, Connect, Render, WaitAck, WaitAckReaderDone,
                  WaitAckTimeout, TakeEvent, EventsClosed, Close, Join, Read, ReadFails, Route,
                  Drain, Push, DisplayDone, DisplayReaderDone, Interaction, Emit, LuxDraws,
                  LuxDies, vars, luxVars
    <3> QED BY <3>1
  <2> QED BY <2>1, <2>2
<1> QED BY <1>1, <1>2, PTL DEF Spec

\* The invariant holds when cryptd starts.
LEMMA LuxInit == Init => LuxInv
<1> SUFFICES ASSUME Init PROVE LuxInv OBVIOUS
<1>1. LuxType
  <2>1. game \in Games /\ screen \in Screens BY LuxAssumption DEF Init, Games, Screens
  <2>2. /\ calls \in Nat /\ lastRoom \in Rooms \cup {NoRoom}
        /\ inCombat \in BOOLEAN /\ writeErr \in BOOLEAN
    BY DEF Init
  <2>3. acks = <<>> /\ interactions = <<>> /\ batch = <<>> /\ fromLux = <<>> /\ toLux = <<>>
    BY DEF Init
  <2> QED BY <2>1, <2>2, <2>3, EmptySeq DEF LuxType
<1>2. ReaderInv BY DEF Init, ReaderInv
<1>3. CallInv
  <2>1. Len(acks) = 0 /\ Len(batch) = 0 /\ Len(fromLux) = 0 BY DEF Init
  <2>2. AckInv BY <2>1 DEF AckInv, Carried, NoAck, OneAck
  <2> QED BY <2>2 DEF Init, CallInv, DrawInv, AskInv
<1> QED BY <1>1, <1>2, <1>3 DEF LuxInv

\* Every step keeps the invariant.
LEMMA LuxStep == LuxInv /\ said \in Seq(Kinds) /\ [Next]_vars => LuxInv'
<1> SUFFICES ASSUME LuxInv, said \in Seq(Kinds), [Next]_vars PROVE LuxInv' OBVIOUS
<1>1. CASE Connect \/ TakeEvent \/ EventsClosed \/ Close \/ Join BY <1>1, LoopKeeps
<1>2. CASE Render BY <1>2, RenderKeeps
<1>3. CASE WaitAck BY <1>3, WaitAckKeeps
<1>4. CASE WaitAckReaderDone \/ WaitAckTimeout BY <1>4, WaitFailsKeeps
<1>5. CASE Read BY <1>5, ReadKeeps
<1>6. CASE Route \/ Push BY <1>6, RouteKeeps
<1>7. CASE Drain BY <1>7, DrainKeeps
<1>8. CASE ReadFails \/ Events \/ LuxDies BY <1>8, OthersKeep
<1>9. CASE LuxDraws BY <1>9, LuxDrawsKeeps
<1>10. CASE UserActs BY <1>10, UserActsKeeps
<1>11. CASE UNCHANGED vars
  BY <1>11 DEF vars, loopVars, clientVars, displayVars, luxVars, LuxInv, LuxType, ReaderInv,
               Running, CallInv, DrawInv, AskInv, AckInv, Carried, Answers, Drawn
<1> HIDE DEF LuxInv
<1> QED BY <1>1, <1>2, <1>3, <1>4, <1>5, <1>6, <1>7, <1>8, <1>9, <1>10, <1>11
        DEF Next, Loop, Reader

\* Lux display mode never loses the invariant, whatever loop, reader, event
\* goroutine, Lux and the user do.
THEOREM LuxSafe == Spec => []LuxInv
<1> QED BY LuxInit, LuxStep, SaidType, PTL DEF Spec

\* Whenever the loop waits for the player, the screen shows the room and the
\* fight the game is in, drawn by the last call (Render and waitAck).
THEOREM ScreenIsCurrent == Spec => []ScreenCurrent
<1>1. LuxInv => ScreenCurrent
  BY DEF LuxInv, Running, CallInv, DrawInv, Drawn, ScreenCurrent
<1> QED BY <1>1, LuxSafe, PTL

\* No ack is ever left over for a later call, for any capacity of the
\* channels: the one ack there can be answers the call that waits (waitAck,
\* setWriteErr).
THEOREM AcksAlwaysBelong == Spec => []AcksBelong
<1>1. LuxInv => AcksBelong
  <2> SUFFICES ASSUME LuxInv, Running,
                      NEW i \in DOMAIN (acks \o batch \o fromLux),
                      NEW j \in DOMAIN (acks \o batch \o fromLux),
                      IsAck((acks \o batch \o fromLux)[i]),
                      IsAck((acks \o batch \o fromLux)[j])
               PROVE  i = j /\ pc = "ack" /\ (acks \o batch \o fromLux)[i].n = calls
    BY DEF AcksBelong
  <2> DEFINE front == acks \o batch
             all == front \o fromLux
  <2>1. acks \in Seq(Messages) /\ batch \in Seq(Messages) /\ fromLux \in Seq(Messages)
    BY SeqMonotonic DEF LuxInv, LuxType, Messages
  <2>2. /\ front \in Seq(Messages) /\ Len(front) = Len(acks) + Len(batch)
        /\ \A k \in 1..(Len(acks) + Len(batch)) :
             front[k] = IF k <= Len(acks) THEN acks[k] ELSE batch[k - Len(acks)]
    BY <2>1, ConcatProperties
  <2> HIDE DEF front
  <2>3. /\ all \in Seq(Messages) /\ Len(all) = Len(front) + Len(fromLux)
        /\ \A k \in 1..(Len(front) + Len(fromLux)) :
             all[k] = IF k <= Len(front) THEN front[k] ELSE fromLux[k - Len(front)]
    <3>1. front \in Seq(Messages) BY <2>2
    <3> QED BY <2>1, <3>1, ConcatProperties
  <2>4. Len(acks) \in Nat /\ Len(batch) \in Nat /\ Len(fromLux) \in Nat
    BY <2>1, LenProperties
  <2>5. i \in 1..Len(all) /\ j \in 1..Len(all) /\ IsAck(all[i]) /\ IsAck(all[j])
    BY <2>3, LenProperties DEF front
  <2> HIDE DEF all
  <2> DEFINE a == Len(acks)
             b == Len(acks) + Len(batch)
  <2>6. ASSUME NEW k \in 1..Len(all), IsAck(all[k])
        PROVE  \/ k \in 1..a /\ all[k] = acks[k] /\ ~NoAck(acks)
               \/ k > a /\ k - a \in 1..Len(batch) /\ all[k] = batch[k - a] /\ ~NoAck(batch)
               \/ k > b /\ k - b \in 1..Len(fromLux) /\ all[k] = fromLux[k - b] /\ ~NoAck(fromLux)
    <3>1. CASE k <= a BY <3>1, <2>2, <2>3, <2>4, <2>6 DEF NoAck
    <3>2. CASE k > a /\ k <= b BY <3>2, <2>2, <2>3, <2>4, <2>6 DEF NoAck
    <3>3. CASE k > b BY <3>3, <2>2, <2>3, <2>4, <2>6 DEF NoAck
    <3> QED BY <3>1, <3>2, <3>3, <2>4
  <2>7. CallInv BY DEF LuxInv
  <2>8. /\ \A k \in 1..Len(acks) : IsAck(acks[k]) => Answers(acks[k])
        /\ \A k \in 1..Len(batch) : IsAck(batch[k]) => Answers(batch[k])
        /\ \A k \in 1..Len(fromLux) : IsAck(fromLux[k]) => Answers(fromLux[k])
        /\ OneAck(acks) /\ OneAck(batch) /\ OneAck(fromLux)
        /\ NoAck(acks) \/ NoAck(batch)
        /\ NoAck(acks) \/ NoAck(fromLux)
        /\ NoAck(batch) \/ NoAck(fromLux)
    BY <2>7 DEF CallInv, AckInv, Carried
  <2>9. Answers(all[i]) BY <2>5, <2>6, <2>8
  <2>10. i = j
    <3>1. i \in Int /\ j \in Int /\ a \in Nat /\ b \in Nat BY <2>4, <2>5
    <3>2. CASE ~NoAck(acks)
      <4>1. i \in 1..a /\ j \in 1..a /\ all[i] = acks[i] /\ all[j] = acks[j]
        BY <3>2, <2>5, <2>6, <2>8
      <4> QED BY <4>1, <2>5, <2>8 DEF OneAck
    <3>3. CASE ~NoAck(batch)
      <4>1. /\ i - a \in 1..Len(batch) /\ all[i] = batch[i - a]
            /\ j - a \in 1..Len(batch) /\ all[j] = batch[j - a]
        BY <3>3, <2>5, <2>6, <2>8
      <4>2. i - a = j - a BY <4>1, <2>5, <2>8 DEF OneAck
      <4> QED BY <4>2, <3>1
    <3>4. CASE ~NoAck(fromLux)
      <4>1. /\ i - b \in 1..Len(fromLux) /\ all[i] = fromLux[i - b]
            /\ j - b \in 1..Len(fromLux) /\ all[j] = fromLux[j - b]
        BY <3>4, <2>5, <2>6, <2>8
      <4>2. i - b = j - b BY <4>1, <2>5, <2>8 DEF OneAck
      <4> QED BY <4>2, <3>1
    <3> QED BY <3>2, <3>3, <3>4, <2>5, <2>6
  <2> QED BY <2>9, <2>10 DEF Answers, all, front
<1> QED BY <1>1, LuxSafe, PTL

-----------------------------------------------------------------------------
(* What a sequence of interactions means.  After is a recursive function,  *)
(* so what it computes is shown by induction over the interactions.        *)

\* An event with the number of its interaction and of the text it submits;
\* the events so far with the text in the field; and none of either.
EventRecs == [n : Nat, text : Nat]
Accs == [out : Seq(EventRecs), text : Nat]
Nothing == [out |-> <<>>, text |-> 0]

\* One interaction appends an event or nothing (MeantStep case by case).
LEMMA MeantStepCases ==
  ASSUME NEW acc \in Accs, NEW kind \in Kinds, NEW i \in Nat
  PROVE  /\ kind = "text" => MeantStep(acc, kind, i) = [out |-> acc.out, text |-> i]
         /\ kind = "empty" => MeantStep(acc, kind, i) = [out |-> acc.out, text |-> 0]
         /\ kind = "button" => MeantStep(acc, kind, i)
              = [out |-> Append(acc.out, [n |-> i, text |-> 0]), text |-> acc.text]
         /\ kind = "send" /\ acc.text = 0 => MeantStep(acc, kind, i) = acc
         /\ kind = "send" /\ acc.text # 0 => MeantStep(acc, kind, i)
              = [out |-> Append(acc.out, [n |-> i, text |-> acc.text]), text |-> 0]
<1>1. acc = [out |-> acc.out, text |-> acc.text] BY DEF Accs
<1>2. kind = "text" => MeantStep(acc, kind, i) = [out |-> acc.out, text |-> i]
  BY <1>1 DEF MeantStep, Accs
<1>3. kind = "empty" => MeantStep(acc, kind, i) = [out |-> acc.out, text |-> 0]
  BY <1>1 DEF MeantStep, Accs
<1>4. kind = "button" => MeantStep(acc, kind, i)
        = [out |-> Append(acc.out, [n |-> i, text |-> 0]), text |-> acc.text]
  BY <1>1 DEF MeantStep, Accs
<1>5. kind = "send" /\ acc.text = 0 => MeantStep(acc, kind, i) = acc
  BY DEF MeantStep
<1>6. kind = "send" /\ acc.text # 0 => MeantStep(acc, kind, i)
        = [out |-> Append(acc.out, [n |-> i, text |-> acc.text]), text |-> 0]
  BY DEF MeantStep
<1> QED BY <1>2, <1>3, <1>4, <1>5, <1>6

\* a begins b.
Begins(a, b) == Len(a) <= Len(b) /\ \A i \in 1..Len(a) : a[i] = b[i]

\* Begins is transitive.
LEMMA BeginsTransitive ==
  ASSUME NEW a, NEW b, NEW c, Len(a) \in Nat, Len(b) \in Nat, Len(c) \in Nat,
         Begins(a, b), Begins(b, c)
  PROVE  Begins(a, c)
<1>1. \A i \in 1..Len(a) : i \in 1..Len(b) BY DEF Begins
<1> QED BY <1>1 DEF Begins

\* The events meant only ever get more.
LEMMA MeantStepGrows ==
  ASSUME NEW acc \in Accs, NEW kind \in Kinds, NEW i \in Nat
  PROVE  /\ MeantStep(acc, kind, i) \in Accs
         /\ Begins(acc.out, MeantStep(acc, kind, i).out)
<1> DEFINE new == MeantStep(acc, kind, i)
<1>1. acc.out \in Seq(EventRecs) /\ acc.text \in Nat /\ Len(acc.out) \in Nat
  BY LenProperties DEF Accs
<1>2. Begins(acc.out, acc.out) BY <1>1 DEF Begins
<1>3. ASSUME NEW t \in Nat
      PROVE  /\ Append(acc.out, [n |-> i, text |-> t]) \in Seq(EventRecs)
             /\ Begins(acc.out, Append(acc.out, [n |-> i, text |-> t]))
  <2> DEFINE e == [n |-> i, text |-> t]
  <2>1. e \in EventRecs BY DEF EventRecs
  <2> HIDE DEF e
  <2>2. /\ Append(acc.out, e) \in Seq(EventRecs) /\ Len(Append(acc.out, e)) = Len(acc.out) + 1
        /\ \A j \in 1..Len(acc.out) : Append(acc.out, e)[j] = acc.out[j]
    BY <1>1, <2>1, AppendProperties
  <2>3. Begins(acc.out, Append(acc.out, e)) BY <1>1, <2>2 DEF Begins
  <2> QED BY <2>2, <2>3 DEF e
<1>4. /\ Append(acc.out, [n |-> i, text |-> 0]) \in Seq(EventRecs)
      /\ Begins(acc.out, Append(acc.out, [n |-> i, text |-> 0]))
  BY <1>3
<1>5. /\ Append(acc.out, [n |-> i, text |-> acc.text]) \in Seq(EventRecs)
      /\ Begins(acc.out, Append(acc.out, [n |-> i, text |-> acc.text]))
  BY <1>1, <1>3
<1>6. CASE kind = "text"
  <2>1. new = [out |-> acc.out, text |-> i] BY <1>6, MeantStepCases
  <2> QED BY <2>1, <1>1, <1>2 DEF Accs
<1>7. CASE kind = "empty"
  <2>1. new = [out |-> acc.out, text |-> 0] BY <1>7, MeantStepCases
  <2> QED BY <2>1, <1>1, <1>2 DEF Accs
<1>8. CASE kind = "button"
  <2>1. new = [out |-> Append(acc.out, [n |-> i, text |-> 0]), text |-> acc.text]
    BY <1>8, MeantStepCases
  <2> HIDE DEF new
  <2>2. new \in Accs /\ new.out = Append(acc.out, [n |-> i, text |-> 0])
    BY <2>1, <1>1, <1>4 DEF Accs
  <2> QED BY <2>2, <1>4 DEF new
<1>9. CASE kind = "send" /\ acc.text = 0
  <2>1. new = acc BY <1>9, MeantStepCases
  <2> QED BY <2>1, <1>2
<1>10. CASE kind = "send" /\ acc.text # 0
  <2>1. new = [out |-> Append(acc.out, [n |-> i, text |-> acc.text]), text |-> 0]
    BY <1>10, MeantStepCases
  <2> HIDE DEF new
  <2>2. new \in Accs /\ new.out = Append(acc.out, [n |-> i, text |-> acc.text])
    BY <2>1, <1>1, <1>5 DEF Accs
  <2> QED BY <2>2, <1>5 DEF new
<1> QED BY <1>6, <1>7, <1>8, <1>9, <1>10 DEF Kinds

\* a is the table of what the interactions s mean, up to the k-th.
IsAfter(a, s, k) ==
  a[0] = Nothing /\ \A i \in 1..k : a[i] = MeantStep(a[i - 1], s[i], i)

\* The recursion that defines After has a solution.
LEMMA AfterDefined ==
  ASSUME NEW s \in Seq(Kinds)
  PROVE  IsAfter(After(s), s, Len(s))
<1>1. Len(s) \in Nat BY LenProperties
<1> DEFINE Step(g, i) == IF i = 0 THEN Nothing ELSE MeantStep(g[i - 1], s[i], i)
           T == {n \in Nat : \E g : g = [i \in 0..n |-> Step(g, i)]}
<1>2. 0 \in T
  <2> DEFINE g == [i \in 0..0 |-> Nothing]
  <2>1. g = [i \in 0..0 |-> Step(g, i)] OBVIOUS
  <2> QED BY <2>1
<1>3. ASSUME NEW n \in T PROVE n + 1 \in T
  <2>1. n \in Nat OBVIOUS
  <2>2. PICK g : g = [i \in 0..n |-> Step(g, i)] OBVIOUS
  <2> DEFINE h == [i \in 0..(n + 1) |->
                     IF i <= n THEN g[i] ELSE MeantStep(g[n], s[n + 1], n + 1)]
  <2>3. \A i \in 0..(n + 1) : h[i] = Step(h, i)
    <3> TAKE i \in 0..(n + 1)
    <3>1. CASE i = 0 BY <3>1, <2>1, <2>2
    <3>2. CASE i # 0 /\ i <= n
      <4>1. i \in 0..n /\ i - 1 \in 0..(n + 1) /\ i - 1 <= n BY <3>2, <2>1
      <4>2. h[i] = g[i] /\ h[i - 1] = g[i - 1] BY <3>2, <4>1
      <4>3. g[i] = Step(g, i) BY <4>1, <2>2
      <4> HIDE DEF h
      <4> QED BY <3>2, <4>2, <4>3
    <3>3. CASE i = n + 1
      <4>1. i - 1 = n /\ n \in 0..(n + 1) /\ i # 0 /\ ~(i <= n) BY <3>3, <2>1
      <4>2. h[n] = g[n] BY <4>1, <2>1
      <4>3. h[i] = MeantStep(g[n], s[n + 1], n + 1) BY <3>3, <4>1
      <4> HIDE DEF h
      <4> QED BY <3>3, <4>1, <4>2, <4>3
    <3> QED BY <3>1, <3>2, <3>3, <2>1
  <2>4. h = [i \in 0..(n + 1) |-> Step(h, i)]
    <3>1. h = [i \in 0..(n + 1) |-> h[i]] OBVIOUS
    <3> HIDE DEF h, Step
    <3> QED BY <2>3, <3>1
  <2> HIDE DEF h
  <2>5. n + 1 \in Nat BY <2>1
  <2> QED BY <2>4, <2>5
<1>4. Len(s) \in T
  <2>1. T \in SUBSET Nat OBVIOUS
  <2> HIDE DEF T
  <2> QED BY <1>1, <1>2, <1>3, <2>1, SetInduction
<1>5. PICK g : g = [i \in 0..Len(s) |-> Step(g, i)] BY <1>4
<1> DEFINE f == After(s)
<1>6. f = CHOOSE a : a = [i \in 0..Len(s) |-> Step(a, i)]
  BY Zenon DEF After, Nothing
<1> HIDE DEF f, Step
<1>7. f = [i \in 0..Len(s) |-> Step(f, i)] BY <1>5, <1>6, Zenon
<1>8. f[0] = Nothing
  <2>1. 0 \in 0..Len(s) BY <1>1
  <2> QED BY <1>7, <2>1 DEF Step
<1>9. ASSUME NEW i \in 1..Len(s) PROVE f[i] = MeantStep(f[i - 1], s[i], i)
  <2>1. i \in 0..Len(s) /\ i # 0 BY <1>1
  <2>2. f[i] = Step(f, i) BY <2>1, <1>7
  <2> QED BY <2>1, <2>2 DEF Step
<1> QED BY <1>8, <1>9 DEF f, IsAfter

\* Its values are events and a text.
LEMMA AfterType ==
  ASSUME NEW s \in Seq(Kinds)
  PROVE  \A i \in 0..Len(s) : After(s)[i] \in Accs
<1> DEFINE f == After(s)
           T == {n \in Nat : n <= Len(s) => f[n] \in Accs}
<1>1. Len(s) \in Nat /\ IsAfter(f, s, Len(s)) BY LenProperties, AfterDefined
<1> HIDE DEF f
<1>2. 0 \in T
  <2>1. Nothing \in Accs BY EmptySeq DEF Nothing, Accs
  <2> QED BY <2>1, <1>1 DEF IsAfter
<1>3. ASSUME NEW n \in T PROVE n + 1 \in T
  <2>1. n \in Nat /\ n + 1 \in Nat OBVIOUS
  <2>2. CASE n + 1 <= Len(s)
    <3>1. n <= Len(s) /\ n + 1 \in 1..Len(s) /\ (n + 1) - 1 = n BY <2>1, <2>2, <1>1
    <3>2. f[n] \in Accs BY <3>1
    <3>3. s[n + 1] \in Kinds BY <3>1, ElementOfSeq
    <3>4. f[n + 1] = MeantStep(f[n], s[n + 1], n + 1) BY <3>1, <1>1 DEF IsAfter
    <3>5. f[n + 1] \in Accs BY <3>2, <3>3, <3>4, <2>1, MeantStepGrows
    <3> QED BY <3>5, <2>1
  <2> QED BY <2>1, <2>2
<1>4. \A n \in Nat : n \in T
  <2>1. T \in SUBSET Nat OBVIOUS
  <2> HIDE DEF T
  <2> QED BY <1>2, <1>3, <2>1, SetInduction
<1> QED BY <1>1, <1>4 DEF f

\* What the first interactions mean does not depend on the next one.
LEMMA AfterAppend ==
  ASSUME NEW s \in Seq(Kinds), NEW k \in Kinds
  PROVE  \A i \in 0..Len(s) : After(Append(s, k))[i] = After(s)[i]
<1> DEFINE r == Append(s, k)
           f == After(s)
           g == After(r)
           T == {n \in Nat : n <= Len(s) => g[n] = f[n]}
<1>1. /\ Len(s) \in Nat /\ r \in Seq(Kinds) /\ Len(r) = Len(s) + 1
      /\ \A i \in 1..Len(s) : r[i] = s[i]
  BY LenProperties, AppendProperties
<1> HIDE DEF r
<1>2. IsAfter(f, s, Len(s)) /\ IsAfter(g, r, Len(r)) BY <1>1, AfterDefined
<1> HIDE DEF f, g
<1>3. 0 \in T BY <1>2 DEF IsAfter
<1>4. ASSUME NEW n \in T PROVE n + 1 \in T
  <2>1. n \in Nat /\ n + 1 \in Nat OBVIOUS
  <2>2. CASE n + 1 <= Len(s)
    <3>1. n <= Len(s) /\ n + 1 \in 1..Len(s) /\ n + 1 \in 1..Len(r) /\ (n + 1) - 1 = n
      BY <2>1, <2>2, <1>1
    <3>2. g[n] = f[n] BY <3>1
    <3>3. g[n + 1] = MeantStep(g[n], r[n + 1], n + 1) BY <3>1, <1>2 DEF IsAfter
    <3>4. f[n + 1] = MeantStep(f[n], s[n + 1], n + 1) BY <3>1, <1>2 DEF IsAfter
    <3>5. g[n + 1] = f[n + 1] BY <3>1, <3>2, <3>3, <3>4, <1>1
    <3> QED BY <3>5, <2>1
  <2> QED BY <2>1, <2>2
<1>5. \A n \in Nat : n \in T
  <2>1. T \in SUBSET Nat OBVIOUS
  <2> HIDE DEF T
  <2> QED BY <1>3, <1>4, <2>1, SetInduction
<1> QED BY <1>1, <1>5 DEF f, g, r

\* Later interactions only add to the events that were meant before.
LEMMA AfterGrows ==
  ASSUME NEW s \in Seq(Kinds), NEW i \in 0..Len(s)
  PROVE  Begins(After(s)[i].out, After(s)[Len(s)].out)
<1> DEFINE f == After(s)
           T == {n \in Nat : i <= n /\ n <= Len(s) => Begins(f[i].out, f[n].out)}
<1>1. /\ Len(s) \in Nat /\ i \in Nat /\ i <= Len(s) /\ IsAfter(f, s, Len(s))
      /\ \A n \in 0..Len(s) : f[n] \in Accs
  BY LenProperties, AfterDefined, AfterType
<1> HIDE DEF f
<1>2. \A n \in 0..Len(s) : Len(f[n].out) \in Nat
  <2>1. \A n \in 0..Len(s) : f[n].out \in Seq(EventRecs) BY <1>1 DEF Accs
  <2> QED BY <2>1, LenProperties
<1>3. Begins(f[i].out, f[i].out) BY <1>1, <1>2 DEF Begins
<1>4. 0 \in T BY <1>1, <1>3
<1>5. ASSUME NEW n \in T PROVE n + 1 \in T
  <2>1. n \in Nat /\ n + 1 \in Nat OBVIOUS
  <2>2. CASE i = n + 1 BY <2>1, <2>2, <1>3
  <2>3. CASE i <= n /\ n + 1 <= Len(s)
    <3>1. /\ n <= Len(s) /\ n \in 0..Len(s) /\ n + 1 \in 0..Len(s) /\ n + 1 \in 1..Len(s)
          /\ (n + 1) - 1 = n
      BY <2>1, <2>3, <1>1
    <3>2. Begins(f[i].out, f[n].out) BY <3>1, <2>3
    <3>3. s[n + 1] \in Kinds /\ f[n] \in Accs BY <3>1, <1>1, ElementOfSeq
    <3>4. f[n + 1] = MeantStep(f[n], s[n + 1], n + 1) BY <3>1, <1>1 DEF IsAfter
    <3>5. Begins(f[n].out, f[n + 1].out) BY <3>3, <3>4, <2>1, MeantStepGrows
    <3>6. Len(f[i].out) \in Nat /\ Len(f[n].out) \in Nat /\ Len(f[n + 1].out) \in Nat
      BY <3>1, <1>1, <1>2
    <3>7. Begins(f[i].out, f[n + 1].out) BY <3>2, <3>5, <3>6, BeginsTransitive
    <3> QED BY <3>7, <2>1
  <2> QED BY <2>1, <2>2, <2>3, <1>1
<1>6. \A n \in Nat : n \in T
  <2>1. T \in SUBSET Nat OBVIOUS
  <2> HIDE DEF T
  <2> QED BY <1>4, <1>5, <2>1, SetInduction
<1> QED BY <1>1, <1>6 DEF f

\* Begins is what IsPrefix says with SubSeq.
LEMMA PrefixOfBegins ==
  ASSUME NEW S, NEW a \in Seq(S), NEW b \in Seq(S), Begins(a, b)
  PROVE  IsPrefix(a, b)
<1>1. Len(a) \in Nat /\ Len(b) \in Nat /\ Len(a) <= Len(b) BY LenProperties DEF Begins
<1>2. SubSeq(a, 1, Len(a)) = a BY SubSeqFull
<1>3. \A i \in 1..Len(a) : b[i] \in S
  <2>1. \A i \in 1..Len(a) : i \in 1..Len(b) BY <1>1
  <2> QED BY <2>1, ElementOfSeq
<1> DEFINE c == SubSeq(b, 1, Len(a))
<1>4. /\ c \in Seq(S) /\ Len(c) = IF 1 <= Len(a) THEN Len(a) - 1 + 1 ELSE 0
      /\ \A i \in 1..(Len(a) - 1 + 1) : c[i] = b[1 + i - 1]
  <2>1. 1 \in Int /\ Len(a) \in Int BY <1>1
  <2> QED BY <2>1, <1>3, SubSeqProperties
<1> HIDE DEF c
<1>5. Len(c) = Len(a) /\ \A i \in 1..Len(a) : c[i] = b[i] BY <1>1, <1>4
<1>6. \A i \in 1..Len(a) : c[i] = a[i] BY <1>5 DEF Begins
<1>7. c = a
  <2>1. \A i \in 1..Len(c) : c[i] = a[i] BY <1>5, <1>6
  <2> QED BY <1>4, <1>5, <2>1, SeqEqual
<1> QED BY <1>1, <1>2, <1>7 DEF IsPrefix, c

-----------------------------------------------------------------------------
(* Interactions on their way, by their numbers.                            *)

\* The numbers of the interactions in s.
Numbers(s) == {x \in Nat : \E i \in 1..Len(s) : ~IsAck(s[i]) /\ s[i].n = x}
\* The interactions in s stand in the order in which they were made, and are
\* those the user made.
Ordered(s) ==
  \A i, j \in 1..Len(s) : i < j /\ ~IsAck(s[i]) /\ ~IsAck(s[j]) => s[i].n < s[j].n
Made(m, t) == IsAck(m) \/ (m.n \in 1..Len(t) /\ m.kind = t[m.n])
Faithful(s, t) == \A i \in 1..Len(s) : Made(s[i], t)
Below(A, B) == \A x \in A, y \in B : x < y

\* Every message has a number.
LEMMA NumberOfMessage == \A m \in Messages : m.n \in Nat
BY DEF Messages, Acks, Inters

\* The numbers that are left when the first message is taken.
LEMMA NumbersOfTail ==
  ASSUME NEW s \in Seq(Messages), s # <<>>, NEW t, Ordered(s), Faithful(s, t)
  PROVE  /\ Ordered(Tail(s)) /\ Faithful(Tail(s), t) /\ Made(Head(s), t)
         /\ IsAck(Head(s)) => Numbers(s) = Numbers(Tail(s))
         /\ ~IsAck(Head(s)) => /\ Numbers(s) = {Head(s).n} \cup Numbers(Tail(s))
                               /\ \A x \in Numbers(Tail(s)) : Head(s).n < x
<1> DEFINE r == Tail(s)
           h == Head(s)
<1>1. /\ Len(s) \in Nat /\ Len(s) # 0 /\ Len(r) = Len(s) - 1
      /\ \A i \in 1..Len(r) : r[i] = s[i + 1]
      /\ h = s[1] /\ r \in Seq(Messages) /\ h \in Messages
  BY HeadTailProperties, EmptySeq, LenProperties
<1> HIDE DEF r, h
<1>2. Len(r) \in Nat /\ \A i \in 1..Len(r) : i + 1 \in 1..Len(s) /\ 1 < i + 1 BY <1>1
<1>3. 1 \in 1..Len(s) BY <1>1
<1>4. \A i \in 1..Len(s) : i = 1 \/ (i - 1 \in 1..Len(r) /\ r[i - 1] = s[i])
  BY <1>1, <1>2
<1>5. \A i, j \in 1..Len(r) : i < j => i + 1 < j + 1 BY <1>1
<1>6. Ordered(r) BY <1>1, <1>2, <1>5 DEF Ordered
<1>7. Faithful(r, t) /\ Made(h, t) BY <1>1, <1>2, <1>3 DEF Faithful
<1>8. h.n \in Nat BY <1>1, NumberOfMessage
<1>9. Numbers(r) \subseteq Numbers(s) BY <1>1, <1>2 DEF Numbers
<1>10. ~IsAck(h) => h.n \in Numbers(s) BY <1>1, <1>3, <1>8 DEF Numbers
<1>11. \A x \in Numbers(s) : x \in Numbers(r) \/ (~IsAck(h) /\ x = h.n)
  BY <1>1, <1>4 DEF Numbers
<1>12. ~IsAck(h) => \A x \in Numbers(r) : h.n < x
  <2> SUFFICES ASSUME ~IsAck(h), NEW x \in Numbers(r) PROVE h.n < x OBVIOUS
  <2>1. PICK i \in 1..Len(r) : ~IsAck(r[i]) /\ r[i].n = x BY DEF Numbers
  <2>2. i + 1 \in 1..Len(s) /\ 1 < i + 1 /\ r[i] = s[i + 1] BY <1>1, <1>2
  <2> QED BY <2>1, <2>2, <1>1, <1>3 DEF Ordered
<1>13. IsAck(h) => Numbers(s) = Numbers(r) BY <1>9, <1>11
<1>14. ~IsAck(h) => Numbers(s) = {h.n} \cup Numbers(r) BY <1>9, <1>10, <1>11
<1> QED BY <1>6, <1>7, <1>12, <1>13, <1>14 DEF r, h

\* The numbers after a message has been appended.
LEMMA NumbersOfAppend ==
  ASSUME NEW s \in Seq(Messages), NEW m \in Messages, NEW t,
         Ordered(s), Faithful(s, t), Made(m, t),
         ~IsAck(m) => \A x \in Numbers(s) : x < m.n
  PROVE  /\ Ordered(Append(s, m)) /\ Faithful(Append(s, m), t)
         /\ IsAck(m) => Numbers(Append(s, m)) = Numbers(s)
         /\ ~IsAck(m) => Numbers(Append(s, m)) = Numbers(s) \cup {m.n}
<1> DEFINE r == Append(s, m)
<1>1. /\ Len(s) \in Nat /\ Len(r) = Len(s) + 1
      /\ \A i \in 1..Len(s) : r[i] = s[i]
      /\ r[Len(s) + 1] = m
  BY AppendProperties, LenProperties
<1> HIDE DEF r
<1>2. \A i \in 1..Len(r) : i \in 1..Len(s) \/ i = Len(s) + 1 BY <1>1
<1>3. /\ \A i \in 1..Len(s) : i \in 1..Len(r) /\ ~(Len(s) + 1 < i)
      /\ Len(s) + 1 \in 1..Len(r) /\ ~(Len(s) + 1 < Len(s) + 1)
  BY <1>1
<1>4. \A i \in 1..Len(s) : s[i] \in Messages /\ s[i].n \in Nat
  BY ElementOfSeq, NumberOfMessage
<1>5. m.n \in Nat BY NumberOfMessage
<1>6. Faithful(r, t) BY <1>1, <1>2 DEF Faithful
<1>7. ~IsAck(m) => \A i \in 1..Len(s) : ~IsAck(s[i]) => s[i].n < m.n
  BY <1>4 DEF Numbers
<1>8. Ordered(r)
  <2> SUFFICES ASSUME NEW i \in 1..Len(r), NEW j \in 1..Len(r), i < j,
                      ~IsAck(r[i]), ~IsAck(r[j])
               PROVE  r[i].n < r[j].n
    BY DEF Ordered
  <2>1. i \in 1..Len(s) BY <1>1, <1>2, <1>3
  <2>2. CASE j \in 1..Len(s) BY <2>1, <2>2, <1>1 DEF Ordered
  <2>3. CASE j = Len(s) + 1 BY <2>1, <2>3, <1>1, <1>7
  <2> QED BY <2>2, <2>3, <1>2
<1>9. Numbers(s) \subseteq Numbers(r) BY <1>1, <1>3 DEF Numbers
<1>10. ~IsAck(m) => m.n \in Numbers(r) BY <1>1, <1>3, <1>5 DEF Numbers
<1>11. \A x \in Numbers(r) : x \in Numbers(s) \/ (~IsAck(m) /\ x = m.n)
  BY <1>1, <1>2 DEF Numbers
<1>12. IsAck(m) => Numbers(r) = Numbers(s) BY <1>9, <1>11
<1>13. ~IsAck(m) => Numbers(r) = Numbers(s) \cup {m.n} BY <1>9, <1>10, <1>11
<1> QED BY <1>6, <1>8, <1>12, <1>13 DEF r

\* The numbers of the two parts of a sequence.
LEMMA NumbersOfSplit ==
  ASSUME NEW s \in Seq(Messages), NEW k \in 1..Len(s),
         NEW a \in Seq(Messages), NEW b \in Seq(Messages), Parts(s, k, a, b),
         NEW t, Ordered(s), Faithful(s, t)
  PROVE  /\ Ordered(a) /\ Faithful(a, t) /\ Ordered(b) /\ Faithful(b, t)
         /\ Numbers(s) = Numbers(a) \cup Numbers(b) /\ Below(Numbers(a), Numbers(b))
<1>1. Len(s) \in Nat /\ k \in Nat /\ k >= 1 /\ k <= Len(s) BY LenProperties
<1>2. Len(a) = k /\ \A i \in 1..Len(a) : a[i] = s[i] BY DEF Parts
<1>3. Len(b) = Len(s) - k /\ \A i \in 1..Len(b) : b[i] = s[k + i] BY DEF Parts
<1>4. \A i \in 1..Len(a) : i \in 1..Len(s) BY <1>1, <1>2
<1>5. \A i \in 1..Len(b) : k + i \in 1..Len(s) /\ \A j \in 1..Len(a) : j < k + i
  BY <1>1, <1>2, <1>3
<1>6. \A i, j \in 1..Len(b) : i < j => k + i < k + j BY <1>1, <1>3
<1>7. \A i \in 1..Len(s) : \/ i \in 1..Len(a) /\ s[i] = a[i]
                           \/ i - k \in 1..Len(b) /\ s[i] = b[i - k]
  BY <1>1, <1>2, <1>3
<1>8. Ordered(a) BY <1>2, <1>4 DEF Ordered
<1>9. Ordered(b) BY <1>3, <1>5, <1>6 DEF Ordered
<1>10. Faithful(a, t) /\ Faithful(b, t) BY <1>2, <1>3, <1>4, <1>5 DEF Faithful
<1>11. Numbers(a) \subseteq Numbers(s) BY <1>2, <1>4 DEF Numbers
<1>12. Numbers(b) \subseteq Numbers(s) BY <1>3, <1>5 DEF Numbers
<1>13. \A x \in Numbers(s) : x \in Numbers(a) \cup Numbers(b) BY <1>7 DEF Numbers
<1>14. Below(Numbers(a), Numbers(b))
  <2> SUFFICES ASSUME NEW x \in Numbers(a), NEW y \in Numbers(b) PROVE x < y BY DEF Below
  <2>1. PICK i \in 1..Len(a) : ~IsAck(a[i]) /\ a[i].n = x BY DEF Numbers
  <2>2. PICK j \in 1..Len(b) : ~IsAck(b[j]) /\ b[j].n = y BY DEF Numbers
  <2>3. i \in 1..Len(s) /\ k + j \in 1..Len(s) /\ i < k + j BY <1>4, <1>5
  <2> QED BY <2>1, <2>2, <2>3, <1>2, <1>3 DEF Ordered
<1> QED BY <1>8, <1>9, <1>10, <1>11, <1>12, <1>13, <1>14

\* What was made stays made when the user goes on.
LEMMA FaithfulGrows ==
  ASSUME NEW s \in Seq(Messages), NEW t \in Seq(Kinds), NEW k \in Kinds, Faithful(s, t)
  PROVE  Faithful(s, Append(t, k))
<1>1. /\ Len(t) \in Nat /\ Len(Append(t, k)) = Len(t) + 1
      /\ \A i \in 1..Len(t) : Append(t, k)[i] = t[i]
  BY AppendProperties, LenProperties
<1>2. \A i \in 1..Len(t) : i \in 1..Len(Append(t, k)) BY <1>1
<1> QED BY <1>1, <1>2 DEF Faithful, Made

-----------------------------------------------------------------------------
(* The invariant of the events.                                            *)

\* What the event goroutine has made of the interactions so far: the events
\* the loop has taken, those in the channel and the one being sent, and the
\* text that is buffered.
Heard == [out |-> consumed \o events \o held, text |-> pendingText]
\* The interactions that have not reached it.
Pending == Numbers(interactions) \cup Numbers(batch) \cup Numbers(fromLux)

\* Events stand in the order of their interactions and texts.
Rising(line) ==
  \A i, j \in 1..Len(line) : i < j =>
    /\ line[i].n < line[j].n
    /\ line[i].text # 0 /\ line[j].text # 0 => line[i].text < line[j].text
\* Interaction x is later than everything heard.
Clear(acc, x) ==
  acc.text < x /\ \A i \in 1..Len(acc.out) : acc.out[i].n < x /\ acc.out[i].text < x
\* The events are in order, the buffered text is later than every one that
\* was sent, and everything is older than what is pending or still to come.
InLine(acc, pend, k) ==
  /\ Rising(acc.out)
  /\ acc.text # 0 => \A i \in 1..Len(acc.out) : acc.out[i].text < acc.text
  /\ \A x \in pend \cup {k + 1} : Clear(acc, x)
\* The first p interactions have been heard, exactly, and the others are
\* pending.
Exact(acc, pend, s) ==
  \E p \in 0..Len(s) : After(s)[p] = acc /\ pend = (p + 1)..Len(s)

\* Channel, reader and socket hold interactions the user made, in order, the
\* older ones in front; the reader drains only a channel that was full.
FlowInv ==
  /\ Ordered(interactions) /\ Ordered(batch) /\ Ordered(fromLux)
  /\ Faithful(interactions, said) /\ Faithful(batch, said) /\ Faithful(fromLux, said)
  /\ Below(Numbers(interactions), Numbers(batch))
  /\ Below(Numbers(interactions), Numbers(fromLux))
  /\ Below(Numbers(batch), Numbers(fromLux))
  /\ reader = "drain" => overran
\* The event goroutine holds an event only while it sends it.
LineType ==
  /\ consumed \in Seq(EventRecs) /\ events \in Seq(EventRecs) /\ held \in Seq(EventRecs)
  /\ pendingText \in Nat
  /\ display = "select" => held = <<>>
\* What has been heard is in order, and exact unless a channel overran.
HeardInv ==
  /\ InLine(Heard, Pending, Len(said))
  /\ ~overran => Exact(Heard, Pending, said)
EventsInv == said \in Seq(Kinds) /\ FlowInv /\ LineType /\ HeardInv

\* A new event or text is later than everything before it and older than
\* the interactions that follow.
LEMMA StepInLine ==
  ASSUME NEW acc \in Accs, NEW kind \in Kinds, NEW k \in Nat, NEW x \in 1..k,
         NEW rest \in SUBSET Nat, \A y \in rest : x < y, InLine(acc, {x} \cup rest, k)
  PROVE  InLine(MeantStep(acc, kind, x), rest, k)
<1> DEFINE new == MeantStep(acc, kind, x)
           line == acc.out
           text == acc.text
<1>1. /\ line \in Seq(EventRecs) /\ text \in Nat /\ Len(line) \in Nat /\ x \in Nat
      /\ \A i \in 1..Len(line) : line[i] \in EventRecs
  BY LenProperties, ElementOfSeq DEF Accs
<1>2. \A i \in 1..Len(line) : line[i].n \in Nat /\ line[i].text \in Nat
  BY <1>1 DEF EventRecs
<1>3. /\ Rising(line)
      /\ text # 0 => \A i \in 1..Len(line) : line[i].text < text
      /\ \A y \in {x} \cup rest \cup {k + 1} : Clear(acc, y)
  BY DEF InLine
<1> HIDE DEF line, text
<1>4. \A y \in rest \cup {k + 1} :
        y \in Nat /\ x < y /\ text < y /\ \A i \in 1..Len(line) : line[i].n < y /\ line[i].text < y
  BY <1>3, <1>1 DEF Clear, line, text
<1>5. text < x /\ \A i \in 1..Len(line) : line[i].n < x /\ line[i].text < x
  BY <1>3 DEF Clear, line, text
<1>6. ASSUME NEW t \in Nat, t < x \/ t = x,
             t # 0 => \A i \in 1..Len(line) : line[i].text < t
      PROVE  InLine([out |-> line, text |-> t], rest, k)
  <2> DEFINE a == [out |-> line, text |-> t]
  <2>1. a.out = line /\ a.text = t OBVIOUS
  <2> HIDE DEF a
  <2>2. \A y \in rest \cup {k + 1} : t < y BY <1>4, <1>6, <1>1
  <2>3. \A y \in rest \cup {k + 1} : Clear(a, y) BY <2>1, <2>2, <1>4 DEF Clear
  <2>4. InLine(a, rest, k) BY <2>1, <2>3, <1>3, <1>6 DEF InLine
  <2> QED BY <2>4 DEF a
<1>7. ASSUME NEW u \in Nat, NEW t \in Nat, u < x, t < x,
             u # 0 => \A i \in 1..Len(line) : line[i].text < u,
             t # 0 => (u < t /\ \A i \in 1..Len(line) : line[i].text < t)
      PROVE  InLine([out |-> Append(line, [n |-> x, text |-> u]), text |-> t], rest, k)
  <2> DEFINE e == [n |-> x, text |-> u]
             l == Append(line, e)
             a == [out |-> l, text |-> t]
  <2>1. e \in EventRecs /\ e.n = x /\ e.text = u BY <1>1 DEF EventRecs
  <2>2. a.out = l /\ a.text = t OBVIOUS
  <2> HIDE DEF e, a
  <2>3. /\ Len(l) = Len(line) + 1 /\ l[Len(line) + 1] = e
        /\ \A i \in 1..Len(line) : l[i] = line[i]
    BY <2>1, <1>1, AppendProperties
  <2> HIDE DEF l
  <2>4. \A i \in 1..Len(l) : i \in 1..Len(line) \/ i = Len(line) + 1 BY <2>3, <1>1
  <2>5. \A i \in 1..Len(l) : l[i] = e \/ \E j \in 1..Len(line) : l[i] = line[j]
    BY <2>3, <2>4
  <2>6. \A y \in rest \cup {k + 1} : t < y /\ u < y BY <1>4, <1>7, <1>1
  <2>7. \A y \in rest \cup {k + 1} : Clear(a, y) BY <2>1, <2>2, <2>5, <2>6, <1>4 DEF Clear
  <2>8. Rising(l)
    <3> SUFFICES ASSUME NEW i \in 1..Len(l), NEW j \in 1..Len(l), i < j
                 PROVE  /\ l[i].n < l[j].n
                        /\ l[i].text # 0 /\ l[j].text # 0 => l[i].text < l[j].text
      BY DEF Rising
    <3>1. i \in 1..Len(line) BY <2>3, <1>1
    <3>2. CASE j \in 1..Len(line) BY <3>1, <3>2, <2>3, <1>3 DEF Rising
    <3>3. CASE j = Len(line) + 1 BY <3>1, <3>3, <2>1, <2>3, <1>5, <1>7
    <3> QED BY <3>2, <3>3, <2>4
  <2>9. t # 0 => \A i \in 1..Len(l) : l[i].text < t BY <2>1, <2>5, <1>7
  <2>10. InLine(a, rest, k) BY <2>2, <2>7, <2>8, <2>9 DEF InLine
  <2> QED BY <2>10 DEF a, l, e
<1>8. CASE kind = "text"
  <2>1. new = [out |-> line, text |-> x] BY <1>8, <1>1, MeantStepCases DEF line
  <2>2. InLine([out |-> line, text |-> x], rest, k) BY <1>1, <1>5, <1>6
  <2> QED BY <2>1, <2>2
<1>9. CASE kind = "empty"
  <2>1. new = [out |-> line, text |-> 0] BY <1>9, <1>1, MeantStepCases DEF line
  <2>2. 0 \in Nat /\ 0 < x BY <1>1
  <2>3. InLine([out |-> line, text |-> 0], rest, k) BY <2>2, <1>6
  <2> QED BY <2>1, <2>3
<1>10. CASE kind = "button"
  <2>1. new = [out |-> Append(line, [n |-> x, text |-> 0]), text |-> text]
    BY <1>10, <1>1, MeantStepCases DEF line, text
  <2>2. 0 \in Nat /\ 0 < x /\ (text # 0 => 0 < text) BY <1>1
  <2>3. InLine([out |-> Append(line, [n |-> x, text |-> 0]), text |-> text], rest, k)
    BY <2>2, <1>1, <1>3, <1>5, <1>7
  <2> QED BY <2>1, <2>3
<1>11. CASE kind = "send" /\ text = 0
  <2>1. new = acc /\ acc = [out |-> line, text |-> text]
    BY <1>11, <1>1, MeantStepCases DEF line, text, Accs
  <2>2. InLine([out |-> line, text |-> text], rest, k) BY <1>1, <1>3, <1>5, <1>6
  <2> QED BY <2>1, <2>2
<1>12. CASE kind = "send" /\ text # 0
  <2>1. new = [out |-> Append(line, [n |-> x, text |-> text]), text |-> 0]
    BY <1>12, <1>1, MeantStepCases DEF line, text
  <2>2. 0 \in Nat /\ 0 < x BY <1>1
  <2>3. InLine([out |-> Append(line, [n |-> x, text |-> text]), text |-> 0], rest, k)
    BY <2>2, <1>1, <1>3, <1>5, <1>7
  <2> QED BY <2>1, <2>3
<1> QED BY <1>8, <1>9, <1>10, <1>11, <1>12 DEF Kinds

\* The next interaction to be heard is the next one that was made.
LEMMA StepExact ==
  ASSUME NEW s \in Seq(Kinds), NEW acc, NEW x \in 1..Len(s), NEW rest \in SUBSET Nat,
         \A y \in rest : x < y, Exact(acc, {x} \cup rest, s)
  PROVE  Exact(MeantStep(acc, s[x], x), rest, s)
<1>1. Len(s) \in Nat /\ IsAfter(After(s), s, Len(s)) BY LenProperties, AfterDefined
<1>2. PICK p \in 0..Len(s) : After(s)[p] = acc /\ {x} \cup rest = (p + 1)..Len(s)
  BY DEF Exact
<1>3. p \in Nat /\ x \in Nat /\ x <= Len(s) BY <1>1
<1>4. x = p + 1
  <2>1. x \in (p + 1)..Len(s) BY <1>2
  <2>2. p + 1 \in (p + 1)..Len(s) BY <2>1, <1>1, <1>3
  <2>3. p + 1 \in {x} \cup rest BY <2>2, <1>2
  <2>4. p + 1 = x \/ x < p + 1 BY <2>3
  <2> QED BY <2>1, <2>4, <1>1, <1>3
<1>5. rest = (x + 1)..Len(s)
  <2>1. x \notin rest BY <1>3
  <2>2. \A y \in rest : y \in (p + 1)..Len(s) /\ y # x BY <2>1, <1>2
  <2>3. \A y \in rest : y \in (x + 1)..Len(s) BY <2>2, <1>1, <1>3, <1>4
  <2>4. \A y \in (x + 1)..Len(s) : y \in (p + 1)..Len(s) /\ y # x BY <1>1, <1>3, <1>4
  <2>5. \A y \in (x + 1)..Len(s) : y \in rest BY <2>4, <1>2
  <2> QED BY <2>3, <2>5
<1>6. After(s)[x] = MeantStep(acc, s[x], x)
  <2>1. x - 1 = p BY <1>3, <1>4
  <2> QED BY <2>1, <1>1, <1>2 DEF IsAfter
<1>7. x \in 0..Len(s) BY <1>1, <1>3
<1> QED BY <1>5, <1>6, <1>7 DEF Exact

\* An interaction more is pending.
LEMMA SaidMore ==
  ASSUME NEW s \in Seq(Kinds), NEW kind \in Kinds, NEW acc \in Accs, NEW pend \in SUBSET Nat
  PROVE  /\ InLine(acc, pend, Len(s)) => InLine(acc, pend \cup {Len(s) + 1}, Len(Append(s, kind)))
         /\ Exact(acc, pend, s) => Exact(acc, pend \cup {Len(s) + 1}, Append(s, kind))
<1> DEFINE r == Append(s, kind)
           k == Len(s)
<1>1. k \in Nat /\ Len(r) = k + 1 BY LenProperties, AppendProperties
<1>2. ASSUME InLine(acc, pend, k) PROVE InLine(acc, pend \cup {k + 1}, Len(r))
  <2>1. \A x \in pend \cup {k + 1} : Clear(acc, x) BY <1>2 DEF InLine
  <2>2. Clear(acc, k + 1) BY <2>1
  <2>3. /\ acc.text \in Nat /\ acc.out \in Seq(EventRecs)
        /\ \A i \in 1..Len(acc.out) : acc.out[i] \in EventRecs
    BY ElementOfSeq DEF Accs
  <2>4. \A i \in 1..Len(acc.out) : acc.out[i].n \in Nat /\ acc.out[i].text \in Nat
    BY <2>3 DEF EventRecs
  <2>5. Clear(acc, Len(r) + 1) BY <2>2, <2>3, <2>4, <1>1 DEF Clear
  <2>6. \A x \in (pend \cup {k + 1}) \cup {Len(r) + 1} : Clear(acc, x) BY <2>1, <2>5
  <2> QED BY <2>6, <1>2 DEF InLine
<1>3. ASSUME Exact(acc, pend, s) PROVE Exact(acc, pend \cup {k + 1}, r)
  <2>1. PICK p \in 0..k : After(s)[p] = acc /\ pend = (p + 1)..k BY <1>3 DEF Exact
  <2>2. After(r)[p] = acc BY <2>1, AfterAppend
  <2>3. p \in 0..Len(r) BY <1>1
  <2>4. pend \cup {k + 1} = (p + 1)..Len(r)
    <3>1. \A y \in (p + 1)..Len(r) : y \in (p + 1)..k \/ y = k + 1 BY <1>1
    <3>2. \A y \in (p + 1)..k : y \in (p + 1)..Len(r) BY <1>1
    <3>3. k + 1 \in (p + 1)..Len(r) BY <1>1
    <3> QED BY <3>1, <3>2, <3>3, <2>1
  <2> QED BY <2>2, <2>3, <2>4 DEF Exact
<1> QED BY <1>2, <1>3

-----------------------------------------------------------------------------
(* The steps that only move interactions and events.                       *)

\* The state of the line is events and a text.
LEMMA HeardType == LineType => Heard \in Accs
<1> SUFFICES ASSUME LineType PROVE Heard \in Accs OBVIOUS
<1>1. consumed \o events \in Seq(EventRecs) BY ConcatProperties DEF LineType
<1>2. (consumed \o events) \o held \in Seq(EventRecs) BY <1>1, ConcatProperties DEF LineType
<1> QED BY <1>2 DEF LineType, Heard, Accs

\* A step that changes neither what was heard nor what is pending.
LEMMA HeardFrame ==
  ASSUME EventsInv, said' = said, Heard' = Heard, Pending' = Pending, overran => overran'
  PROVE  HeardInv'
BY DEF EventsInv, HeardInv

\* What the flow and the line are about.
flowVars == <<interactions, batch, fromLux, said>>
lineVars == <<consumed, events, held, pendingText>>

\* A step that leaves the interactions alone.
LEMMA FlowFrame ==
  ASSUME EventsInv, UNCHANGED flowVars, overran => overran', reader' = "drain" => overran'
  PROVE  said' \in Seq(Kinds) /\ FlowInv' /\ Pending' = Pending
BY DEF EventsInv, FlowInv, Pending, flowVars

\* A step that leaves the events alone.
LEMMA LineFrame ==
  ASSUME EventsInv, UNCHANGED lineVars, display' = "select" => display = "select"
  PROVE  LineType' /\ Heard' = Heard
BY DEF EventsInv, LineType, Heard, lineVars

\* Steps that touch neither.
LEMMA QuietEvents ==
  ASSUME EventsInv,
         \/ Connect \/ Render \/ WaitAck \/ WaitAckReaderDone \/ WaitAckTimeout
         \/ EventsClosed \/ Close \/ Join \/ ReadFails \/ DisplayDone \/ DisplayReaderDone
         \/ LuxDies \/ UNCHANGED vars
  PROVE  EventsInv'
<1>1. /\ UNCHANGED flowVars /\ UNCHANGED lineVars /\ overran' = overran
      /\ reader' = reader \/ reader' = "exit"
      /\ display' = display \/ display' = "exit"
  BY DEF Connect, Render, WaitAck, WaitAckReaderDone, WaitAckTimeout, EventsClosed, Close, Join,
         ReadFails, DisplayDone, DisplayReaderDone, LuxDies, vars, loopVars, clientVars,
         displayVars, luxVars, flowVars, lineVars
<1>2. reader' = "drain" => overran' BY <1>1 DEF EventsInv, FlowInv
<1>3. said' \in Seq(Kinds) /\ FlowInv' /\ Pending' = Pending BY <1>1, <1>2, FlowFrame
<1>4. LineType' /\ Heard' = Heard BY <1>1, LineFrame
<1>5. HeardInv' BY <1>1, <1>3, <1>4, HeardFrame DEF flowVars
<1> QED BY <1>3, <1>4, <1>5 DEF EventsInv

\* An event moves on: from the goroutine to the channel or from there to the
\* loop.  The line as a whole stays the same.
LEMMA EventMoves == ASSUME EventsInv, TakeEvent \/ Emit PROVE EventsInv'
<1>1. LineType BY DEF EventsInv
<1>2. CASE TakeEvent
  <2>1. /\ events # <<>> /\ events' = Tail(events) /\ consumed' = Append(consumed, Head(events))
        /\ UNCHANGED <<held, pendingText, display, overran, reader>> /\ UNCHANGED flowVars
    BY <1>2 DEF TakeEvent, clientVars, luxVars, flowVars
  <2> DEFINE h == Head(events)
             t == Tail(events)
  <2>2. consumed \in Seq(EventRecs) /\ events \in Seq(EventRecs) /\ held \in Seq(EventRecs)
    BY <1>1 DEF LineType
  <2>3. h \in EventRecs /\ t \in Seq(EventRecs) /\ events = <<h>> \o t
    <3>1. h \in EventRecs /\ t \in Seq(EventRecs) BY <2>1, <2>2, HeadTailProperties
    <3>2. Len(events) \in Nat \ {0} BY <2>1, <2>2, EmptySeq
    <3>3. 1 \in 1..Len(events) /\ Len(events) \in 1..Len(events) BY <3>2
    <3>4. SubSeq(events, 1, Len(events)) = <<events[1]>> \o SubSeq(events, 1 + 1, Len(events))
      BY <2>2, <3>3, SubSeqRecursiveFirst
    <3>5. SubSeq(events, 1, Len(events)) = events /\ t = SubSeq(events, 2, Len(events))
      BY <2>1, <2>2, SubSeqFull, TailIsSubSeq
    <3>6. h = events[1] BY <2>1, <2>2
    <3> QED BY <3>1, <3>4, <3>5, <3>6
  <2>4. Append(consumed, h) \in Seq(EventRecs) BY <2>2, <2>3, AppendProperties
  <2> HIDE DEF h, t
  <2>5. <<h>> \in Seq(EventRecs) BY <2>3
  <2>6. Append(consumed, h) \o t = consumed \o events
    <3>1. Append(consumed, h) = consumed \o <<h>> BY <2>2, <2>3, AppendIsConcat
    <3>2. (consumed \o <<h>>) \o t = consumed \o (<<h>> \o t)
      BY <2>2, <2>3, <2>5, ConcatAssociative
    <3> QED BY <3>1, <3>2, <2>3
  <2>7. LineType' BY <1>1, <2>1, <2>3, <2>4 DEF LineType, h, t
  <2>8. consumed' \o events' = consumed \o events BY <2>1, <2>6 DEF h, t
  <2>9. Heard' = Heard BY <2>1, <2>8 DEF Heard
  <2>10. reader' = "drain" => overran' BY <2>1 DEF EventsInv, FlowInv
  <2>11. said' \in Seq(Kinds) /\ FlowInv' /\ Pending' = Pending BY <2>1, <2>10, FlowFrame
  <2>12. HeardInv' BY <2>1, <2>9, <2>11, HeardFrame DEF flowVars
  <2> QED BY <2>7, <2>11, <2>12 DEF EventsInv
<1>3. CASE Emit
  <2>1. /\ events' = events \o held /\ held' = <<>>
        /\ UNCHANGED <<consumed, pendingText, overran, reader>> /\ UNCHANGED flowVars
    BY <1>3 DEF Emit, clientVars, luxVars, loopVars, flowVars
  <2>2. /\ consumed \in Seq(EventRecs) /\ events \in Seq(EventRecs) /\ held \in Seq(EventRecs)
        /\ pendingText \in Nat
    BY <1>1 DEF LineType
  <2>3. events \o held \in Seq(EventRecs) /\ <<>> \in Seq(EventRecs)
    BY <2>2, ConcatProperties, EmptySeq
  <2>4. consumed \o (events \o held) = (consumed \o events) \o held
    BY <2>2, ConcatAssociative
  <2>5. (consumed \o (events \o held)) \o <<>> = consumed \o (events \o held)
    <3>1. consumed \o (events \o held) \in Seq(EventRecs) BY <2>2, <2>3, ConcatProperties
    <3> QED BY <3>1, ConcatEmptySeq
  <2>6. LineType' BY <2>1, <2>2, <2>3 DEF LineType
  <2>7. (consumed' \o events') \o held' = (consumed \o events) \o held
    BY <2>1, <2>4, <2>5
  <2>8. Heard' = Heard BY <2>1, <2>7 DEF Heard
  <2>9. reader' = "drain" => overran' BY <2>1 DEF EventsInv, FlowInv
  <2>10. said' \in Seq(Kinds) /\ FlowInv' /\ Pending' = Pending BY <2>1, <2>9, FlowFrame
  <2>11. HeardInv' BY <2>1, <2>8, <2>10, HeardFrame DEF flowVars
  <2> QED BY <2>6, <2>10, <2>11 DEF EventsInv
<1> QED BY <1>2, <1>3

\* A Read moves interactions from the socket into the reader's hands.
LEMMA ReadEvents == ASSUME LuxInv, EventsInv, Read PROVE EventsInv'
<1>1. /\ batch = <<>> /\ fromLux \in Seq(Messages)
      /\ UNCHANGED <<interactions, said, overran, display>> /\ UNCHANGED lineVars
      /\ reader' = "route"
  BY DEF LuxInv, ReaderInv, LuxType, Read, loopVars, displayVars, lineVars
<1>2. PICK k \in 1..Len(fromLux) :
        batch' = SubSeq(fromLux, 1, k) /\ fromLux' = SubSeq(fromLux, k + 1, Len(fromLux))
  BY DEF Read
<1>3. /\ batch' \in Seq(Messages) /\ fromLux' \in Seq(Messages)
      /\ Parts(fromLux, k, batch', fromLux')
  BY <1>1, <1>2, Split DEF Parts
<1>4. FlowInv BY DEF EventsInv
<1>5. Ordered(fromLux) /\ Faithful(fromLux, said) BY <1>4 DEF FlowInv
<1>6. /\ Ordered(batch') /\ Faithful(batch', said)
      /\ Ordered(fromLux') /\ Faithful(fromLux', said)
      /\ Numbers(fromLux) = Numbers(batch') \cup Numbers(fromLux')
      /\ Below(Numbers(batch'), Numbers(fromLux'))
  BY <1>1, <1>3, <1>5, NumbersOfSplit
<1>7. Numbers(batch) = {}
  <2>1. Len(batch) = 0 BY <1>1
  <2> QED BY <2>1 DEF Numbers
<1>8. Pending' = Pending BY <1>1, <1>6, <1>7 DEF Pending
<1>9. /\ Below(Numbers(interactions), Numbers(batch'))
      /\ Below(Numbers(interactions), Numbers(fromLux'))
  BY <1>4, <1>6 DEF FlowInv, Below
<1>10. FlowInv' BY <1>1, <1>4, <1>6, <1>9 DEF FlowInv
<1>11. LineType' /\ Heard' = Heard BY <1>1, LineFrame
<1>12. HeardInv' BY <1>1, <1>8, <1>11, HeardFrame
<1> QED BY <1>1, <1>10, <1>11, <1>12 DEF EventsInv

\* The reader passes a message on: an interaction goes to the end of the
\* channel, and its number is pending as before.
LEMMA RoutedEvents ==
  ASSUME LuxInv, EventsInv, batch # <<>>, Routed(Head(batch)),
         UNCHANGED <<fromLux, said, overran, display>>, UNCHANGED lineVars
  PROVE  EventsInv'
<1> DEFINE m == Head(batch)
           A == Numbers(interactions)
           B == Numbers(batch)
           C == Numbers(fromLux)
           T == Numbers(Tail(batch))
<1>1. batch \in Seq(Messages) /\ interactions \in Seq(Messages)
  BY SeqMonotonic DEF LuxInv, LuxType, Messages
<1>2. m \in Messages BY <1>1, HeadTailProperties
<1>3. /\ Ordered(interactions) /\ Ordered(batch) /\ Ordered(fromLux)
      /\ Faithful(interactions, said) /\ Faithful(batch, said) /\ Faithful(fromLux, said)
      /\ Below(A, B) /\ Below(A, C) /\ Below(B, C)
  BY DEF EventsInv, FlowInv
<1>4. /\ batch' = Tail(batch) /\ reader' # "drain"
      /\ IsAck(m) => interactions' = interactions
      /\ ~IsAck(m) => interactions' = Append(interactions, m)
  BY DEF Routed
<1>5. /\ Ordered(Tail(batch)) /\ Faithful(Tail(batch), said) /\ Made(m, said)
      /\ IsAck(m) => B = T
      /\ ~IsAck(m) => B = {m.n} \cup T /\ \A x \in T : m.n < x
  BY <1>1, <1>3, NumbersOfTail
<1> HIDE DEF m
<1>6. CASE IsAck(m)
  <2>1. interactions' = interactions /\ batch' = Tail(batch) /\ T = B BY <1>4, <1>5, <1>6
  <2>2. FlowInv' BY <2>1, <1>3, <1>4, <1>5 DEF FlowInv
  <2>3. Pending' = Pending BY <2>1 DEF Pending
  <2>4. LineType' /\ Heard' = Heard BY LineFrame
  <2>5. HeardInv' BY <2>3, <2>4, HeardFrame
  <2> QED BY <2>2, <2>4, <2>5 DEF EventsInv
<1>7. CASE ~IsAck(m)
  <2> DEFINE D == Numbers(Append(interactions, m))
  <2>1. B = {m.n} \cup T /\ \A x \in T : m.n < x BY <1>5, <1>7
  <2>2. \A x \in A : x < m.n BY <2>1, <1>3 DEF Below
  <2> HIDE DEF B, T
  <2>3. /\ Ordered(Append(interactions, m)) /\ Faithful(Append(interactions, m), said)
        /\ D = A \cup {m.n}
    BY <2>2, <1>1, <1>2, <1>3, <1>5, <1>7, NumbersOfAppend
  <2>4. interactions' = Append(interactions, m) /\ batch' = Tail(batch) BY <1>4, <1>7
  <2> HIDE DEF A, C, D
  <2>5. Below(D, T) /\ Below(D, C) /\ Below(T, C) BY <2>1, <2>3, <1>3 DEF Below
  <2>6. D \cup T \cup C = A \cup B \cup C BY <2>1, <2>3
  <2>7. FlowInv' BY <2>3, <2>4, <2>5, <1>3, <1>4, <1>5 DEF FlowInv, D, T, C
  <2>8. Pending' = Pending BY <2>4, <2>6 DEF Pending, A, B, C, D, T
  <2>9. LineType' /\ Heard' = Heard BY LineFrame
  <2>10. HeardInv' BY <2>8, <2>9, HeardFrame
  <2> QED BY <2>7, <2>9, <2>10 DEF EventsInv
<1> QED BY <1>6, <1>7

\* Fewer interactions are pending.
LEMMA FewerInLine ==
  ASSUME NEW acc, NEW p, NEW q, NEW k, q \subseteq p, InLine(acc, p, k)
  PROVE  InLine(acc, q, k)
BY DEF InLine

\* The reader: passes a message on, or finds a channel full and drops its
\* oldest message.
LEMMA RouteEvents == ASSUME LuxInv, EventsInv, Route \/ Push \/ Drain PROVE EventsInv'
<1>1. /\ UNCHANGED <<fromLux, said, display>> /\ UNCHANGED lineVars
  BY DEF Route, Push, Drain, loopVars, luxVars, displayVars, lineVars
<1>2. CASE (Route \/ Push) /\ Routed(Head(batch)) /\ overran' = overran
  <2>1. reader \in {"route", "push"} BY <1>2 DEF Route, Push
  <2>2. batch # <<>> BY <2>1 DEF LuxInv, ReaderInv
  <2> QED BY <1>1, <1>2, <2>2, RoutedEvents
<1>3. CASE Route /\ overran' = TRUE /\ UNCHANGED <<interactions, batch>>
  <2>1. UNCHANGED flowVars BY <1>1, <1>3 DEF flowVars
  <2>2. said' \in Seq(Kinds) /\ FlowInv' /\ Pending' = Pending BY <2>1, <1>3, FlowFrame
  <2>3. LineType' /\ Heard' = Heard BY <1>1, LineFrame
  <2>4. HeardInv' BY <1>1, <1>3, <2>2, <2>3, HeardFrame
  <2> QED BY <2>2, <2>3, <2>4 DEF EventsInv
<1>4. CASE Drain
  <2>1. /\ overran' = overran /\ batch' = batch /\ reader' = "push" /\ reader = "drain"
        /\ \/ interactions' = interactions
           \/ interactions # <<>> /\ interactions' = Tail(interactions)
    BY <1>4 DEF Drain
  <2>2. /\ Ordered(interactions) /\ Ordered(batch) /\ Ordered(fromLux)
        /\ Faithful(interactions, said) /\ Faithful(batch, said) /\ Faithful(fromLux, said)
        /\ Below(Numbers(interactions), Numbers(batch))
        /\ Below(Numbers(interactions), Numbers(fromLux))
        /\ Below(Numbers(batch), Numbers(fromLux))
        /\ overran
    BY <2>1 DEF EventsInv, FlowInv
  <2>3. interactions \in Seq(Messages) BY SeqMonotonic DEF LuxInv, LuxType, Messages
  <2>4. /\ Ordered(interactions') /\ Faithful(interactions', said)
        /\ Numbers(interactions') \subseteq Numbers(interactions)
    <3>1. CASE interactions' = interactions BY <3>1, <2>2
    <3>2. CASE interactions # <<>> /\ interactions' = Tail(interactions)
      <4>1. /\ Ordered(Tail(interactions)) /\ Faithful(Tail(interactions), said)
            /\ IsAck(Head(interactions)) => Numbers(interactions) = Numbers(Tail(interactions))
            /\ ~IsAck(Head(interactions)) =>
                 Numbers(interactions) = {Head(interactions).n} \cup Numbers(Tail(interactions))
        BY <3>2, <2>2, <2>3, NumbersOfTail
      <4> QED BY <4>1, <3>2
    <3> QED BY <3>1, <3>2, <2>1
  <2>5. /\ Below(Numbers(interactions'), Numbers(batch))
        /\ Below(Numbers(interactions'), Numbers(fromLux))
    BY <2>2, <2>4 DEF Below
  <2>6. FlowInv' BY <1>1, <2>1, <2>2, <2>4, <2>5 DEF FlowInv
  <2>7. Pending' \subseteq Pending BY <1>1, <2>1, <2>4 DEF Pending
  <2>8. LineType' /\ Heard' = Heard BY <1>1, LineFrame
  <2>9. InLine(Heard, Pending, Len(said)) BY DEF EventsInv, HeardInv
  <2>10. InLine(Heard, Pending', Len(said)) BY <2>7, <2>9, FewerInLine
  <2>11. HeardInv' BY <1>1, <2>1, <2>2, <2>8, <2>10 DEF HeardInv
  <2> QED BY <1>1, <2>6, <2>8, <2>11 DEF EventsInv
<1> QED BY <1>2, <1>3, <1>4 DEF Route, Push

-----------------------------------------------------------------------------
(* The steps that make and that hear interactions, and the theorem.        *)

\* The event goroutine does with an interaction what the reference says.
LEMMA InteractionMeans ==
  ASSUME LuxInv, LineType, Interaction
  PROVE  /\ LineType'
         /\ Heard' = MeantStep(Heard, Head(interactions).kind, Head(interactions).n)
<1> DEFINE m == Head(interactions)
           line == consumed \o events
<1>1. /\ interactions # <<>> /\ display = "select" /\ UNCHANGED <<consumed, events>>
  BY DEF Interaction, loopVars
<1>2. m \in Inters
  <2>1. interactions \in Seq(Inters) BY DEF LuxInv, LuxType
  <2> QED BY <1>1, <2>1, HeadTailProperties
<1>3. m.kind \in Kinds /\ m.n \in Nat BY <1>2 DEF Inters
<1>4. /\ m.kind = "text" => pendingText' = m.n
      /\ m.kind = "button" => pendingText' = pendingText
      /\ m.kind \in {"empty", "send"} => pendingText' = 0
  BY DEF Interaction
<1>5. /\ m.kind = "button" => held' = <<[n |-> m.n, text |-> 0]>> /\ display' = "emit"
      /\ m.kind = "send" /\ pendingText # 0 =>
           held' = <<[n |-> m.n, text |-> pendingText]>> /\ display' = "emit"
      /\ m.kind \in {"text", "empty"} \/ (m.kind = "send" /\ pendingText = 0) =>
           held' = held
  BY DEF Interaction
<1> HIDE DEF m
<1>6. /\ consumed \in Seq(EventRecs) /\ events \in Seq(EventRecs) /\ held = <<>>
      /\ pendingText \in Nat
  BY <1>1 DEF LineType
<1>7. line \in Seq(EventRecs) BY <1>6, ConcatProperties
<1>8. line \o <<>> = line BY <1>7, ConcatEmptySeq
<1>9. Heard = [out |-> line, text |-> pendingText] BY <1>6, <1>8 DEF Heard
<1>10. Heard' = [out |-> line \o held', text |-> pendingText'] BY <1>1 DEF Heard
<1> HIDE DEF line
<1>11. ASSUME NEW t \in Nat
       PROVE  /\ <<[n |-> m.n, text |-> t]>> \in Seq(EventRecs)
              /\ line \o <<[n |-> m.n, text |-> t]>> = Append(line, [n |-> m.n, text |-> t])
  <2> DEFINE e == [n |-> m.n, text |-> t]
  <2>1. e \in EventRecs BY <1>3 DEF EventRecs
  <2> HIDE DEF e
  <2>2. <<e>> \in Seq(EventRecs) BY <2>1
  <2>3. Append(line, e) = line \o <<e>> BY <2>1, <1>7, AppendIsConcat
  <2> QED BY <2>2, <2>3 DEF e
<1>12. Heard \in Accs /\ Heard.out = line /\ Heard.text = pendingText
  BY <1>6, <1>7, <1>9 DEF Accs
<1>13. LineType'
  <2>1. pendingText' \in Nat BY <1>3, <1>4, <1>6 DEF Kinds
  <2>2. <<>> \in Seq(EventRecs) BY EmptySeq
  <2>3. /\ <<[n |-> m.n, text |-> 0]>> \in Seq(EventRecs)
        /\ <<[n |-> m.n, text |-> pendingText]>> \in Seq(EventRecs)
    BY <1>6, <1>11
  <2>4. held' \in Seq(EventRecs) BY <1>3, <1>5, <1>6, <2>2, <2>3 DEF Kinds
  <2>5. display' = "select" => held' = <<>> BY <1>3, <1>5, <1>6 DEF Kinds
  <2> QED BY <1>1, <1>6, <2>1, <2>4, <2>5 DEF LineType
<1> DEFINE new == MeantStep(Heard, m.kind, m.n)
<1>14. Heard' = new
  <2>1. CASE m.kind = "text"
    <3>1. new = [out |-> line, text |-> m.n] BY <2>1, <1>3, <1>12, MeantStepCases
    <3> QED BY <2>1, <3>1, <1>4, <1>5, <1>6, <1>8, <1>10
  <2>2. CASE m.kind = "empty"
    <3>1. new = [out |-> line, text |-> 0] BY <2>2, <1>3, <1>12, MeantStepCases
    <3> QED BY <2>2, <3>1, <1>4, <1>5, <1>6, <1>8, <1>10
  <2>3. CASE m.kind = "button"
    <3>1. new = [out |-> Append(line, [n |-> m.n, text |-> 0]), text |-> pendingText]
      BY <2>3, <1>3, <1>12, MeantStepCases
    <3>2. line \o held' = Append(line, [n |-> m.n, text |-> 0]) BY <2>3, <1>5, <1>11
    <3>3. pendingText' = pendingText BY <2>3, <1>4
    <3> QED BY <3>1, <3>2, <3>3, <1>10
  <2>4. CASE m.kind = "send" /\ pendingText = 0
    <3>1. new = Heard BY <2>4, <1>3, <1>12, MeantStepCases
    <3>2. pendingText' = pendingText /\ held' = <<>> BY <2>4, <1>4, <1>5, <1>6
    <3> QED BY <3>1, <3>2, <1>8, <1>9, <1>10
  <2>5. CASE m.kind = "send" /\ pendingText # 0
    <3>1. new = [out |-> Append(line, [n |-> m.n, text |-> pendingText]), text |-> 0]
      BY <2>5, <1>3, <1>12, MeantStepCases
    <3>2. line \o held' = Append(line, [n |-> m.n, text |-> pendingText])
      BY <2>5, <1>5, <1>6, <1>11
    <3>3. pendingText' = 0 BY <2>5, <1>4
    <3> QED BY <3>1, <3>2, <3>3, <1>10
  <2> QED BY <2>1, <2>2, <2>3, <2>4, <2>5, <1>3 DEF Kinds
<1> QED BY <1>13, <1>14 DEF m

\* An interaction is heard: the oldest of those that are pending.
LEMMA InteractionEvents == ASSUME LuxInv, EventsInv, Interaction PROVE EventsInv'
<1> DEFINE m == Head(interactions)
           A == Numbers(interactions)
           B == Numbers(batch)
           C == Numbers(fromLux)
           T == Numbers(Tail(interactions))
           rest == T \cup B \cup C
<1>1. /\ interactions # <<>> /\ interactions' = Tail(interactions)
      /\ UNCHANGED <<batch, fromLux, said, overran, reader>>
  BY DEF Interaction, luxVars
<1>2. interactions \in Seq(Inters) /\ interactions \in Seq(Messages)
  BY SeqMonotonic DEF LuxInv, LuxType, Messages
<1>3. m \in Inters BY <1>1, <1>2, HeadTailProperties
<1>4. ~IsAck(m) /\ m.kind \in Kinds BY <1>3, AckOrInteraction DEF Inters
<1>5. /\ Ordered(interactions) /\ Ordered(batch) /\ Ordered(fromLux)
      /\ Faithful(interactions, said) /\ Faithful(batch, said) /\ Faithful(fromLux, said)
      /\ Below(A, B) /\ Below(A, C) /\ Below(B, C)
      /\ reader = "drain" => overran
  BY DEF EventsInv, FlowInv
<1>6. /\ Ordered(Tail(interactions)) /\ Faithful(Tail(interactions), said)
      /\ Made(m, said) /\ A = {m.n} \cup T /\ \A x \in T : m.n < x
  BY <1>1, <1>2, <1>4, <1>5, NumbersOfTail
<1>7. m.n \in 1..Len(said) /\ m.kind = said[m.n] BY <1>4, <1>6 DEF Made
<1>8. A \cup B \cup C \in SUBSET Nat /\ rest \in SUBSET Nat BY DEF Numbers
<1>9. /\ LineType' /\ Heard' = MeantStep(Heard, m.kind, m.n)
  BY InteractionMeans DEF EventsInv
<1>10. Heard \in Accs /\ said \in Seq(Kinds) /\ Len(said) \in Nat
  BY HeardType, LenProperties DEF EventsInv
<1> HIDE DEF m
<1>11. Pending = A \cup B \cup C /\ Pending' = rest BY <1>1 DEF Pending
<1> HIDE DEF A, B, C, T
<1>12. /\ A \cup B \cup C = {m.n} \cup rest
       /\ \A x \in rest : m.n < x
       /\ Below(T, B) /\ Below(T, C)
  BY <1>5, <1>6 DEF Below
<1> HIDE DEF rest
<1>13. FlowInv'
  BY <1>1, <1>5, <1>6, <1>12 DEF FlowInv, A, B, C, T
<1>14. InLine(Heard, {m.n} \cup rest, Len(said))
  BY <1>11, <1>12 DEF EventsInv, HeardInv
<1>15. InLine(Heard', rest, Len(said))
  BY <1>4, <1>7, <1>8, <1>9, <1>10, <1>12, <1>14, StepInLine
<1>16. ~overran => Exact(Heard', rest, said)
  <2> SUFFICES ASSUME ~overran PROVE Exact(Heard', rest, said) OBVIOUS
  <2>1. Exact(Heard, {m.n} \cup rest, said) BY <1>11, <1>12 DEF EventsInv, HeardInv
  <2>2. Exact(MeantStep(Heard, said[m.n], m.n), rest, said)
    BY <2>1, <1>7, <1>8, <1>10, <1>12, StepExact
  <2> QED BY <2>2, <1>7, <1>9
<1>17. HeardInv' BY <1>1, <1>11, <1>15, <1>16 DEF HeardInv
<1> QED BY <1>1, <1>9, <1>10, <1>13, <1>17 DEF EventsInv

\* An ack joins the interactions on the socket.
LEMMA LuxDrawsEvents == ASSUME LuxInv, EventsInv, LuxDraws PROVE EventsInv'
<1> DEFINE m == Head(toLux)
<1>1. /\ UNCHANGED <<interactions, batch, said, overran, reader, display>> /\ UNCHANGED lineVars
  BY DEF LuxDraws, loopVars, clientVars, displayVars, lineVars
<1>2. PICK error \in BOOLEAN : fromLux' = Append(fromLux, [n |-> m.n, error |-> error])
  BY DEF LuxDraws
<1> DEFINE a == [n |-> m.n, error |-> error]
<1>3. a \in Messages /\ IsAck(a)
  <2>1. toLux # <<>> /\ toLux \in Seq(Drawings) BY DEF LuxDraws, LuxInv, LuxType
  <2>2. m \in Drawings BY <2>1, HeadTailProperties
  <2>3. m.n \in Nat BY <2>2 DEF Drawings
  <2>4. a \in Acks BY <2>3 DEF Acks
  <2> QED BY <2>4, AckOrInteraction DEF Messages
<1>4. fromLux' = Append(fromLux, a) BY <1>2
<1> HIDE DEF a
<1>5. fromLux \in Seq(Messages) /\ FlowInv BY DEF LuxInv, LuxType, EventsInv
<1>6. Ordered(fromLux) /\ Faithful(fromLux, said) /\ Made(a, said)
  BY <1>3, <1>5 DEF FlowInv, Made
<1>7. /\ Ordered(fromLux') /\ Faithful(fromLux', said) /\ Numbers(fromLux') = Numbers(fromLux)
  BY <1>3, <1>4, <1>5, <1>6, NumbersOfAppend
<1>8. Pending' = Pending BY <1>1, <1>7 DEF Pending
<1>9. FlowInv' BY <1>1, <1>5, <1>7 DEF FlowInv
<1>10. LineType' /\ Heard' = Heard BY <1>1, LineFrame
<1>11. HeardInv' BY <1>1, <1>8, <1>10, HeardFrame
<1> QED BY <1>1, <1>9, <1>10, <1>11 DEF EventsInv

\* The user makes an interaction more: it is the last one on the socket.
LEMMA UserActsEvents == ASSUME LuxInv, EventsInv, UserActs PROVE EventsInv'
<1>1. /\ UNCHANGED <<interactions, batch, overran, reader, display>> /\ UNCHANGED lineVars
  BY DEF UserActs, loopVars, clientVars, displayVars, lineVars
<1>2. PICK k \in Kinds : /\ said' = Append(said, k)
                         /\ fromLux' = Append(fromLux, [kind |-> k, n |-> Len(said) + 1])
  BY DEF UserActs
<1> DEFINE m == [kind |-> k, n |-> Len(said) + 1]
<1>3. said \in Seq(Kinds) /\ Len(said) \in Nat /\ FlowInv /\ LineType
  BY LenProperties DEF EventsInv
<1>4. m \in Inters /\ m.n = Len(said) + 1 /\ m.kind = k BY <1>3 DEF Inters
<1>5. m \in Messages /\ ~IsAck(m) BY <1>4, AckOrInteraction DEF Messages
<1>6. fromLux' = Append(fromLux, m) BY <1>2
<1> HIDE DEF m
<1>7. /\ interactions \in Seq(Messages) /\ batch \in Seq(Messages) /\ fromLux \in Seq(Messages)
  BY SeqMonotonic DEF LuxInv, LuxType, Messages
<1>8. /\ said' \in Seq(Kinds) /\ Len(said') = Len(said) + 1 /\ said'[Len(said) + 1] = k
  BY <1>2, <1>3, AppendProperties
<1>9. /\ Faithful(interactions, said) /\ Faithful(batch, said) /\ Faithful(fromLux, said)
      /\ Ordered(interactions) /\ Ordered(batch) /\ Ordered(fromLux)
      /\ Below(Numbers(interactions), Numbers(batch))
      /\ Below(Numbers(interactions), Numbers(fromLux))
      /\ Below(Numbers(batch), Numbers(fromLux))
      /\ reader = "drain" => overran
  BY <1>3 DEF FlowInv
<1>10. /\ Faithful(interactions, said') /\ Faithful(batch, said') /\ Faithful(fromLux, said')
  BY <1>2, <1>3, <1>7, <1>9, FaithfulGrows
<1>11. ASSUME NEW s \in Seq(Messages), Faithful(s, said)
       PROVE  \A x \in Numbers(s) : x < m.n
  BY <1>3, <1>4, <1>11 DEF Numbers, Faithful, Made
<1>12. Made(m, said') BY <1>3, <1>4, <1>8 DEF Made
<1>13. /\ Ordered(fromLux') /\ Faithful(fromLux', said')
       /\ Numbers(fromLux') = Numbers(fromLux) \cup {m.n}
  <2>1. \A x \in Numbers(fromLux) : x < m.n BY <1>7, <1>9, <1>11
  <2> QED BY <2>1, <1>5, <1>6, <1>7, <1>9, <1>10, <1>12, NumbersOfAppend
<1>14. Below(Numbers(interactions), Numbers(fromLux')) /\ Below(Numbers(batch), Numbers(fromLux'))
  <2>1. /\ \A x \in Numbers(interactions) : x < m.n
        /\ \A x \in Numbers(batch) : x < m.n
    BY <1>7, <1>9, <1>11
  <2> QED BY <2>1, <1>9, <1>13 DEF Below
<1>15. FlowInv' BY <1>1, <1>9, <1>10, <1>13, <1>14 DEF FlowInv
<1>16. Pending' = Pending \cup {Len(said) + 1} /\ Pending \in SUBSET Nat
  BY <1>1, <1>4, <1>13 DEF Pending, Numbers
<1>17. LineType' /\ Heard' = Heard BY <1>1, LineFrame
<1>18. Heard \in Accs BY <1>3, HeardType
<1>19. /\ InLine(Heard, Pending, Len(said)) =>
            InLine(Heard, Pending \cup {Len(said) + 1}, Len(said'))
       /\ Exact(Heard, Pending, said) => Exact(Heard, Pending \cup {Len(said) + 1}, said')
  BY <1>2, <1>3, <1>16, <1>18, SaidMore
<1>20. HeardInv' BY <1>1, <1>16, <1>17, <1>19 DEF EventsInv, HeardInv
<1> QED BY <1>8, <1>15, <1>17, <1>20 DEF EventsInv

\* The invariant holds when cryptd starts.
LEMMA EventsInit == Init => EventsInv
<1> SUFFICES ASSUME Init PROVE EventsInv OBVIOUS
<1>1. /\ said = <<>> /\ interactions = <<>> /\ batch = <<>> /\ fromLux = <<>>
      /\ consumed = <<>> /\ events = <<>> /\ held = <<>> /\ pendingText = 0 /\ reader = "read"
  BY DEF Init
<1>2. said \in Seq(Kinds) /\ <<>> \in Seq(EventRecs) /\ Len(said) = 0 BY <1>1, EmptySeq
<1>3. Len(interactions) = 0 /\ Len(batch) = 0 /\ Len(fromLux) = 0 BY <1>1
<1>4. Numbers(interactions) = {} /\ Numbers(batch) = {} /\ Numbers(fromLux) = {}
  BY <1>3 DEF Numbers
<1>5. FlowInv BY <1>1, <1>3, <1>4 DEF FlowInv, Ordered, Faithful, Below
<1>6. LineType BY <1>1, <1>2 DEF LineType
<1>7. Heard = Nothing
  <2>1. (consumed \o events) \o held = <<>> BY <1>1, <1>2, ConcatEmptySeq
  <2> QED BY <2>1, <1>1 DEF Heard, Nothing
<1>8. Pending = {} BY <1>4 DEF Pending
<1>9. InLine(Heard, Pending, Len(said))
  <2>1. Nothing.text = 0 /\ Len(Nothing.out) = 0 BY EmptySeq DEF Nothing
  <2>2. Clear(Nothing, 1) BY <2>1 DEF Clear
  <2> QED BY <2>1, <2>2, <1>2, <1>7, <1>8 DEF InLine, Rising
<1>10. Exact(Heard, Pending, said)
  <2>1. After(said)[0] = Nothing BY <1>2, AfterDefined DEF IsAfter
  <2>2. 0 \in 0..Len(said) /\ (0 + 1)..Len(said) = {} BY <1>2
  <2> QED BY <2>1, <2>2, <1>7, <1>8 DEF Exact
<1> QED BY <1>2, <1>5, <1>6, <1>9, <1>10 DEF EventsInv, HeardInv

\* Every step keeps the invariant of the events.
LEMMA EventsStep == LuxInv /\ EventsInv /\ [Next]_vars => EventsInv'
<1> SUFFICES ASSUME LuxInv, EventsInv, [Next]_vars PROVE EventsInv' OBVIOUS
<1>1. CASE \/ Connect \/ Render \/ WaitAck \/ WaitAckReaderDone \/ WaitAckTimeout
           \/ EventsClosed \/ Close \/ Join \/ ReadFails \/ DisplayDone \/ DisplayReaderDone
           \/ LuxDies \/ UNCHANGED vars
  BY <1>1, QuietEvents
<1>2. CASE TakeEvent \/ Emit BY <1>2, EventMoves
<1>3. CASE Read BY <1>3, ReadEvents
<1>4. CASE Route \/ Push \/ Drain BY <1>4, RouteEvents
<1>5. CASE Interaction BY <1>5, InteractionEvents
<1>6. CASE LuxDraws BY <1>6, LuxDrawsEvents
<1>7. CASE UserActs BY <1>7, UserActsEvents
<1> QED BY <1>1, <1>2, <1>3, <1>4, <1>5, <1>6, <1>7 DEF Next, Loop, Reader, Events

\* For any capacity of the channels and any number of interactions, the loop
\* gets exactly the commands the user meant, each once and in order, as long as no
\* channel overran, and afterwards still in order and none twice (readLoop,
\* eventLoop).
THEOREM EventsAlwaysFaithful == Spec => []EventsFaithful
<1>1. EventsInv => EventsFaithful
  <2> SUFFICES ASSUME EventsInv PROVE EventsFaithful OBVIOUS
  <2> DEFINE line == consumed \o events \o held
  <2>1. Heard.out = line BY DEF Heard
  <2>2. said \in Seq(Kinds) /\ Len(said) \in Nat /\ Heard \in Accs
    BY HeardType, LenProperties DEF EventsInv
  <2>3. line \in Seq(EventRecs) /\ DOMAIN line = 1..Len(line)
    BY <2>1, <2>2, LenProperties DEF Accs
  <2> HIDE DEF line
  <2>4. Rising(line) BY <2>1 DEF EventsInv, HeardInv, InLine
  <2>5. ~overran => IsPrefix(line, Meant)
    <3> SUFFICES ASSUME ~overran PROVE IsPrefix(line, Meant) OBVIOUS
    <3>1. PICK p \in 0..Len(said) : After(said)[p] = Heard
      BY DEF EventsInv, HeardInv, Exact
    <3>2. Begins(After(said)[p].out, After(said)[Len(said)].out) BY <2>2, AfterGrows
    <3>3. Begins(line, Meant) BY <2>1, <3>1, <3>2 DEF Meant
    <3>4. Meant \in Seq(EventRecs)
      <4>1. Len(said) \in 0..Len(said) BY <2>2
      <4>2. After(said)[Len(said)] \in Accs BY <2>2, <4>1, AfterType
      <4> QED BY <4>2 DEF Meant, Accs
    <3> QED BY <2>3, <3>3, <3>4, PrefixOfBegins
  <2> QED BY <2>3, <2>4, <2>5 DEF EventsFaithful, Rising, line
<1> QED BY <1>1, EventsInit, EventsStep, LuxSafe, PTL DEF Spec
=============================================================================
