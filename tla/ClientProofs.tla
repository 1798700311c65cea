---------------------------- MODULE ClientProofs ----------------------------
(***************************************************************************)
(* Proofs about Client, for all three interfaces, any number of acts of    *)
(* the player and any pool of points.                                      *)
(***************************************************************************)
EXTENDS Client, SequenceTheorems, TLAPS

-----------------------------------------------------------------------------
(* The inductive invariant.                                                *)

Methods == {"session.init", "game.new", "game.play", "tool"} \cup Lists
LobbyKinds == {"Scenarios", "ScenarioErr", "Sessions", "SessionErr", "StartCreation",
               "ResumeSession", "CreationDone", "ConnLost"}
Kinds == LobbyKinds \cup {"SessionInitDone", "GameStart", "ServerResponse", "ToolResult",
                          "ServerErr", "Loading", "SendCmd"}
Ends == {"no", "quit", "dead"}
CallRecs == [method : Methods, sent : BOOLEAN, id : Nat]
MsgRecs == [kind : Kinds, has : BOOLEAN, fight : BOOLEAN, end : Ends]
LineRecs == [kind : {"error", "init", "play", "list", "tool"}, re : Nat, has : BOOLEAN,
             fight : BOOLEAN, end : Ends]
Requests == [method : Methods, id : Nat]

ClientType ==
  /\ calls \subseteq CallRecs /\ msgs \in Seq(MsgRecs) /\ reqID \in Nat /\ acts \in Nat
  /\ toSrv \in Seq(Requests) /\ toCli \in Seq(LineRecs)
  /\ handler \in {"serve", "loop", "gone"} /\ opening \in {"none", "Loading", "GameStart"}
  /\ screen \in {"none", "lobby", "creation", "game"}

\* Where the program is: screens belong to the running terminal UI, and a
\* synchronous call is under way alone, or its answer has come.
PlaceInv ==
  /\ screen # "none" => front = "tui" /\ pc \in {"run", "exited"}
  /\ pc = "run" => screen # "none"
  /\ pc \in {"handshake", "call"} =>
       \/ msgs = <<>> /\ \E c \in calls : calls = {c} /\ (pc = "handshake" <=> c.method = "session.init")
       \/ Len(msgs) = 1 /\ calls = {}
  /\ pc \in {"resume", "begin", "prompt"} => calls = {} /\ msgs = <<>>

\* Before the game's screen only lists are asked for.
LobbyInv ==
  screen \in {"lobby", "creation"} =>
    /\ \A c \in calls : c.method \in Lists
    /\ \A i \in 1..Len(msgs) : msgs[i].kind \in LobbyKinds

\* A message that leaves a client that waits waiting.
Quiet(m) ==
  /\ m.kind \notin {"GameStart", "ServerResponse", "ServerErr"}
  /\ m.kind = "SessionInitDone" => m.has

\* A session.init under way is the only call that is no list call, and
\* nothing ends the wait for it.
ResumeInv ==
  \A c \in calls : c.method = "session.init" =>
    /\ \A d \in calls : d.method \in Lists \/ d = c
    /\ \/ pc = "handshake"
       \/ /\ pc = "run" /\ screen = "game" /\ waiting
          /\ \A i \in 1..Len(msgs) : Quiet(msgs[i]) /\ msgs[i].kind # "SessionInitDone"

\* Request i belongs to a call that waits for its answer.
Owned(i) ==
  /\ i = Len(toSrv) /\ toSrv[i].id = reqID
  /\ \E c \in calls : c.sent /\ c.method = toSrv[i].method

\* One call at a time is between its write and its read.  Its request is the
\* last one; others are list requests that the game loop will ignore.
MutexInv ==
  /\ \A c, d \in calls : c.sent /\ d.sent => c = d
  /\ \A c \in calls : c.sent => c.id = reqID /\ reqID # 0
  /\ closed => toSrv = <<>>
  /\ \A i \in 1..Len(toSrv) : Owned(i) \/ (toSrv[i].method \in Lists /\ handler # "serve")

\* An answer is the first line and its call is there to read it; the notice
\* of a game's end is followed by the end of the connection.
LineInv ==
  \A i \in 1..Len(toCli) :
    /\ toCli[i].re # 0 =>
         i = 1 /\ toSrv = <<>> /\ toCli[i].re = reqID /\ \E c \in calls : c.sent
    /\ toCli[i].end # "no" => closed /\ handler = "gone"

\* The line a resumed game announces itself with.
Stray(l) == l.re = 0 /\ l.end = "no"

\* While it lies unread, no call is made that could take it for its answer.
StrayInv ==
  \A i \in 1..Len(toCli) : Stray(toCli[i]) =>
    /\ handler # "serve"
    /\ pc \in {"handshake", "resume", "run"}
    /\ \A c \in calls : c.method \in Lists \/ (c.method = "session.init" /\ c.sent)
    /\ (\E c \in calls : c.method = "session.init") =>
          i = 2 /\ toCli[1].re # 0 /\ toCli[1].has /\ toCli[1].kind # "error"
    /\ (\A c \in calls : c.method # "session.init") => i = 1
    /\ pc = "handshake" /\ calls = {} => msgs[1].kind = "SessionInitDone" /\ msgs[1].has
    /\ pc = "run" => screen = "game" /\ waiting /\ \A j \in 1..Len(msgs) : Quiet(msgs[j])

TalkInv == ResumeInv /\ MutexInv /\ LineInv /\ StrayInv
ClientInv == ClientType /\ PlaceInv /\ LobbyInv /\ AnswersPaired /\ (Running => TalkInv)

-----------------------------------------------------------------------------
(* Records and sequences.                                                  *)

\* The records the model builds are of their types.
LEMMA Records ==
  /\ \A m \in Methods : Call(m) \in CallRecs /\ Call(m).method = m /\ ~Call(m).sent
  /\ \A k \in Kinds : Msg(k) \in MsgRecs /\ Msg(k).kind = k
  /\ \A k \in {"error", "init", "play", "list", "tool"}, n \in Nat :
       /\ Line(k, n) \in LineRecs /\ Line(k, n).kind = k /\ Line(k, n).re = n
       /\ Line(k, n).end = "no" /\ ~Line(k, n).has
<1>1. \A m \in Methods : Call(m) \in CallRecs /\ Call(m).method = m /\ ~Call(m).sent
  BY DEF Call, CallRecs
<1>2. \A k \in Kinds : Msg(k) \in MsgRecs /\ Msg(k).kind = k
  BY DEF Msg, MsgRecs, Ends
<1>3. \A k \in {"error", "init", "play", "list", "tool"}, n \in Nat :
       /\ Line(k, n) \in LineRecs /\ Line(k, n).kind = k /\ Line(k, n).re = n
       /\ Line(k, n).end = "no" /\ ~Line(k, n).has
  BY DEF Line, LineRecs, Ends
<1> QED BY <1>1, <1>2, <1>3

\* A call that has written its request.
LEMMA SentCall ==
  ASSUME NEW c \in CallRecs, NEW n \in Nat
  PROVE  LET d == [c EXCEPT !.sent = TRUE, !.id = n + 1]
         IN  d \in CallRecs /\ d.method = c.method /\ d.sent /\ d.id = n + 1
<1> DEFINE e == [c EXCEPT !.sent = TRUE]
           d == [e EXCEPT !.id = n + 1]
<1>1. e \in CallRecs /\ e.method = c.method /\ e.sent BY DEF CallRecs
<1> HIDE DEF e
<1>2. n + 1 \in Nat OBVIOUS
<1>3. d \in CallRecs /\ d.method = e.method /\ d.sent = e.sent /\ d.id = n + 1
  BY <1>1, <1>2 DEF CallRecs
<1>4. [c EXCEPT !.sent = TRUE, !.id = n + 1] = d BY DEF e
<1> HIDE DEF d
<1> QED BY <1>1, <1>3, <1>4

\* A message or line is added behind the others.
LEMMA Added ==
  ASSUME NEW S, NEW s \in Seq(S), NEW m \in S
  PROVE  /\ Len(Append(s, m)) = Len(s) + 1
         /\ \A i \in 1..Len(Append(s, m)) :
              \/ i \in 1..Len(s) /\ Append(s, m)[i] = s[i]
              \/ i = Len(s) + 1 /\ Append(s, m)[i] = m
<1>1. /\ Len(s) \in Nat /\ Len(Append(s, m)) = Len(s) + 1
      /\ \A i \in 1..Len(s) : Append(s, m)[i] = s[i]
      /\ Append(s, m)[Len(s) + 1] = m
  BY AppendProperties, LenProperties
<1>2. \A i \in 1..(Len(s) + 1) : i \in 1..Len(s) \/ i = Len(s) + 1 BY <1>1
<1> QED BY <1>1, <1>2

\* The first message or line is taken.
LEMMA Taken ==
  ASSUME NEW S, NEW s \in Seq(S), s # <<>>
  PROVE  /\ Head(s) = s[1] /\ Head(s) \in S /\ 1 \in 1..Len(s)
         /\ Len(Tail(s)) = Len(s) - 1
         /\ \A i \in 1..Len(Tail(s)) :
              i \in Nat /\ i # 0 /\ i + 1 \in 1..Len(s) /\ Tail(s)[i] = s[i + 1]
<1>1. /\ Head(s) = s[1] /\ Head(s) \in S /\ Len(Tail(s)) = Len(s) - 1
      /\ \A i \in 1..Len(Tail(s)) : Tail(s)[i] = s[i + 1]
  BY HeadTailProperties
<1>2. Len(s) \in Nat /\ Len(s) # 0 BY LenProperties, EmptySeq
<1>3. \A i \in 1..(Len(s) - 1) : i \in Nat /\ i # 0 /\ i + 1 \in 1..Len(s) BY <1>2
<1> QED BY <1>1, <1>2, <1>3

\* What the event loop leaves of the messages when it takes one of them.
LEMMA Remaining ==
  ASSUME NEW S, NEW s \in Seq(S), NEW i \in 1..Len(s), NEW r, r = RemoveAt(s, i)
  PROVE  /\ r \in Seq(S) /\ Len(r) = Len(s) - 1
         /\ \A j \in 1..Len(r) : r[j] = IF j < i THEN s[j] ELSE s[j + 1]
<1> DEFINE a == SubSeq(s, 1, i - 1)
           b == SubSeq(s, i + 1, Len(s))
<1>1. Len(s) \in Nat /\ i \in Nat /\ i >= 1 /\ i <= Len(s) BY LenProperties
<1>2. \A j \in 1..Len(s) : s[j] \in S BY ElementOfSeq
<1>3. a \in Seq(S) /\ Len(a) = i - 1 /\ \A j \in 1..(i - 1) : a[j] = s[j]
  <2>1. \A j \in 1..(i - 1) : s[j] \in S BY <1>1, <1>2
  <2>2. i - 1 \in Int BY <1>1
  <2>3. /\ a \in Seq(S) /\ Len(a) = IF 1 <= i - 1 THEN (i - 1) - 1 + 1 ELSE 0
        /\ \A j \in 1..((i - 1) - 1 + 1) : a[j] = s[1 + j - 1]
    BY <2>1, <2>2, SubSeqProperties
  <2>4. (i - 1) - 1 + 1 = i - 1 /\ (1 <= i - 1 \/ i - 1 = 0) BY <1>1
  <2>5. \A j \in 1..(i - 1) : 1 + j - 1 = j BY <1>1
  <2> QED BY <2>3, <2>4, <2>5
<1>4. b \in Seq(S) /\ Len(b) = Len(s) - i /\ \A j \in 1..(Len(s) - i) : b[j] = s[i + j]
  <2>1. \A j \in (i + 1)..Len(s) : s[j] \in S BY <1>1, <1>2
  <2>2. i + 1 \in Int /\ Len(s) \in Int BY <1>1
  <2>3. /\ b \in Seq(S) /\ Len(b) = IF i + 1 <= Len(s) THEN Len(s) - (i + 1) + 1 ELSE 0
        /\ \A j \in 1..(Len(s) - (i + 1) + 1) : b[j] = s[(i + 1) + j - 1]
    BY <2>1, <2>2, SubSeqProperties
  <2>4. Len(s) - (i + 1) + 1 = Len(s) - i /\ (i + 1 <= Len(s) \/ Len(s) - i = 0) BY <1>1
  <2>5. \A j \in 1..(Len(s) - i) : (i + 1) + j - 1 = i + j BY <1>1
  <2>6. Len(b) = Len(s) - i BY <2>3, <2>4
  <2> QED BY <2>3, <2>4, <2>5, <2>6
<1>5. r = a \o b BY DEF RemoveAt
<1> HIDE DEF a, b
<1>6. /\ r \in Seq(S) /\ Len(r) = Len(a) + Len(b)
      /\ \A j \in 1..(Len(a) + Len(b)) : r[j] = IF j <= Len(a) THEN a[j] ELSE b[j - Len(a)]
  <2>1. a \in Seq(S) /\ b \in Seq(S) BY <1>3, <1>4
  <2> QED BY <2>1, <1>5, ConcatProperties
<1>7. Len(a) + Len(b) = Len(s) - 1 BY <1>1, <1>3, <1>4
<1>8. ASSUME NEW j \in 1..Len(r) PROVE r[j] = IF j < i THEN s[j] ELSE s[j + 1]
  <2>1. j \in Int /\ j >= 1 /\ j <= Len(s) - 1 BY <1>1, <1>6, <1>7
  <2>2. CASE j < i
    <3>1. j \in 1..(i - 1) /\ j <= Len(a) BY <2>1, <2>2, <1>1, <1>3
    <3> QED BY <3>1, <2>2, <1>3, <1>6
  <2>3. CASE ~(j < i)
    <3>1. j - (i - 1) \in 1..(Len(s) - i) /\ ~(j <= Len(a)) /\ i + (j - (i - 1)) = j + 1
      BY <2>1, <2>3, <1>1, <1>3
    <3>2. r[j] = b[j - (i - 1)] BY <3>1, <1>3, <1>6
    <3> QED BY <3>1, <3>2, <2>3, <1>4
  <2> QED BY <2>2, <2>3
<1> QED BY <1>6, <1>7, <1>8

\* Two entries of r were two entries of s, neither of them the i-th.
Apart(r, s, i) ==
  \A j, l \in 1..Len(r) : j # l =>
    \E k, m \in 1..Len(s) : k # m /\ k # i /\ m # i /\ r[j] = s[k] /\ r[l] = s[m]

\* Every message left was there before, at another place than the taken one.
LEMMA Left ==
  ASSUME NEW S, NEW s \in Seq(S), NEW i \in 1..Len(s), NEW r, r = RemoveAt(s, i)
  PROVE  /\ r \in Seq(S)
         /\ \A j \in 1..Len(r) : \E k \in 1..Len(s) : k # i /\ r[j] = s[k]
         /\ Apart(r, s, i)
<1>1. Len(s) \in Nat /\ i \in Nat /\ i >= 1 /\ i <= Len(s) BY LenProperties
<1>2. /\ r \in Seq(S) /\ Len(r) = Len(s) - 1
      /\ \A j \in 1..Len(r) : r[j] = IF j < i THEN s[j] ELSE s[j + 1]
  BY Remaining
<1> DEFINE p(j) == IF j < i THEN j ELSE j + 1
<1>3. \A j \in 1..Len(r) : p(j) \in 1..Len(s) /\ p(j) # i /\ r[j] = s[p(j)] BY <1>1, <1>2
<1>4. \A j, l \in 1..Len(r) : j # l => p(j) # p(l) BY <1>1, <1>2
<1> HIDE DEF p
<1>5. \A j \in 1..Len(r) : \E k \in 1..Len(s) : k # i /\ r[j] = s[k] BY <1>3
<1>6. ASSUME NEW j \in 1..Len(r), NEW l \in 1..Len(r), j # l
      PROVE  \E k, m \in 1..Len(s) : k # m /\ k # i /\ m # i /\ r[j] = s[k] /\ r[l] = s[m]
  <2>1. p(j) # p(l) BY <1>4, <1>6
  <2>2. p(j) \in 1..Len(s) /\ p(j) # i /\ r[j] = s[p(j)] BY <1>3
  <2>3. p(l) \in 1..Len(s) /\ p(l) # i /\ r[l] = s[p(l)] BY <1>3
  <2> QED BY <2>1, <2>2, <2>3
<1>7. Apart(r, s, i) BY <1>6 DEF Apart
<1> QED BY <1>2, <1>5, <1>7

\* What send makes of the line it reads.
LEMMA Results ==
  ASSUME NEW c \in CallRecs, NEW l \in LineRecs
  PROVE  /\ Result(c, l) \in MsgRecs
         /\ c.method \in Lists => Result(c, l).kind \in LobbyKinds
         /\ c.method = "session.init" /\ l.kind # "error" =>
              Result(c, l).kind = "SessionInitDone" /\ Result(c, l).has = l.has
         /\ Result(c, l).kind = "SessionInitDone" => c.method = "session.init"
<1>1. CASE l.kind = "error"
  <2> DEFINE k == CASE c.method = "list_scenarios" -> "ScenarioErr"
                    [] c.method = "list_sessions"  -> "SessionErr"
                    [] OTHER -> "ServerErr"
  <2>1. /\ k \in {"ScenarioErr", "SessionErr", "ServerErr"}
        /\ c.method \in Lists => k \in {"ScenarioErr", "SessionErr"}
    BY DEF Lists
  <2>2. Result(c, l) = Msg(k) BY <1>1 DEF Result
  <2> HIDE DEF k
  <2>3. Msg(k) \in MsgRecs /\ Msg(k).kind = k BY <2>1, Records DEF Kinds, LobbyKinds
  <2> QED BY <1>1, <2>1, <2>2, <2>3 DEF LobbyKinds
<1>2. CASE l.kind # "error"
  <2> DEFINE k == CASE c.method = "list_scenarios" -> "Scenarios"
                    [] c.method = "list_sessions"  -> "Sessions"
                    [] c.method = "session.init"   -> "SessionInitDone"
                    [] c.method = "game.new"       -> "GameStart"
                    [] c.method = "tool"           -> "ToolResult"
                    [] OTHER -> "ServerResponse"
             m == [kind |-> k, has |-> l.has, fight |-> l.fight, end |-> l.end]
  <2>1. /\ k \in Kinds /\ (c.method \in Lists => k \in {"Scenarios", "Sessions"})
        /\ k = "SessionInitDone" <=> c.method = "session.init"
    <3>1. c.method \in Methods BY DEF CallRecs
    <3>2. CASE c.method = "list_scenarios" BY <3>2 DEF Lists, Kinds, LobbyKinds
    <3>3. CASE c.method = "list_sessions" BY <3>3 DEF Lists, Kinds, LobbyKinds
    <3>4. CASE c.method = "session.init" BY <3>4 DEF Lists, Kinds
    <3>5. CASE c.method = "game.new" BY <3>5 DEF Lists, Kinds
    <3>6. CASE c.method = "tool" BY <3>6 DEF Lists, Kinds
    <3>7. CASE c.method = "game.play" BY <3>7 DEF Lists, Kinds
    <3> QED BY <3>1, <3>2, <3>3, <3>4, <3>5, <3>6, <3>7 DEF Methods, Lists
  <2>2. Result(c, l) = [Msg(k) EXCEPT !.has = l.has, !.fight = l.fight, !.end = l.end]
    BY <1>2 DEF Result
  <2> HIDE DEF k
  <2>3. Result(c, l) = m BY <2>2 DEF Msg
  <2>4. l.has \in BOOLEAN /\ l.fight \in BOOLEAN /\ l.end \in Ends BY DEF LineRecs
  <2>5. m \in MsgRecs /\ m.kind = k /\ m.has = l.has BY <2>1, <2>4 DEF MsgRecs
  <2> QED BY <2>1, <2>3, <2>5 DEF LobbyKinds
<1> QED BY <1>1, <1>2

-----------------------------------------------------------------------------
(* Types.                                                                  *)

\* The connection's daemon end appends lines to what the client has to read.
LEMMA ServeType ==
  ASSUME ClientType, Serve
  PROVE  toCli' \in Seq(LineRecs) /\ handler' \in {"serve", "loop", "gone"}
<1> DEFINE r == Head(toSrv)
<1>1. r \in Requests /\ toCli \in Seq(LineRecs) BY HeadTailProperties DEF ClientType, Serve
<1>2. r.id \in Nat BY <1>1 DEF Requests
<1>3. ServeInit(r) \/ ServeList(r) \/ ServeNew(r) \/ ServeTool(r) \/ ServePlay(r)
      \/ LoopPlay(r) \/ LoopIgnores(r)
  BY DEF Serve
<1> HIDE DEF r
<1>4. \A l \in LineRecs : Append(toCli, l) \in Seq(LineRecs) BY <1>1, AppendProperties
<1>5. \A l, m \in LineRecs : toCli \o <<l, m>> \in Seq(LineRecs)
  <2> TAKE l \in LineRecs, m \in LineRecs
  <2>1. <<l, m>> \in Seq(LineRecs) OBVIOUS
  <2> QED BY <1>1, <2>1, ConcatProperties
<1>6. CASE ServeInit(r)
  <2>1. PICK has \in BOOLEAN :
          LET answer == [Line("init", r.id) EXCEPT !.has = has] IN
          \/ ~has /\ Reply(answer) /\ UNCHANGED <<handler, closed>>
          \/ /\ has /\ handler' = "loop" /\ UNCHANGED closed
             /\ \E f \in BOOLEAN :
                  toCli' = toCli \o <<answer, [Line("play", 0) EXCEPT !.fight = f]>>
          \/ has /\ Reply(answer) /\ handler' = "gone" /\ closed' = TRUE
    BY <1>6 DEF ServeInit
  <2> DEFINE answer == [Line("init", r.id) EXCEPT !.has = has]
  <2>2. answer \in LineRecs BY <1>2 DEF Line, LineRecs, Ends
  <2>3. \A f \in BOOLEAN : [Line("play", 0) EXCEPT !.fight = f] \in LineRecs
    BY DEF Line, LineRecs, Ends
  <2> HIDE DEF answer
  <2>4. /\ \/ toCli' = Append(toCli, answer)
           \/ \E f \in BOOLEAN : toCli' = toCli \o <<answer, [Line("play", 0) EXCEPT !.fight = f]>>
        /\ handler' = handler \/ handler' \in {"loop", "gone"}
    BY <2>1 DEF Reply, answer
  <2> QED BY <1>4, <1>5, <2>2, <2>3, <2>4 DEF ClientType
<1>7. CASE ServeList(r) \/ ServeTool(r) \/ ServePlay(r) \/ ServeNew(r)
  <2>1. \A k \in {"list", "tool", "error", "play"} : Line(k, r.id) \in LineRecs
    BY <1>2, Records
  <2> QED BY <1>4, <1>7, <2>1 DEF ServeList, ServeTool, ServePlay, ServeNew, Reply, ClientType
<1>8. CASE LoopPlay(r)
  <2>1. \A f \in BOOLEAN : [Line("play", r.id) EXCEPT !.fight = f] \in LineRecs
    BY <1>2 DEF Line, LineRecs, Ends
  <2>2. \A l \in Finals : l \in LineRecs
    <3>1. \A e \in {"quit", "dead"} : [Line("play", 0) EXCEPT !.end = e] \in LineRecs
      BY DEF Line, LineRecs, Ends
    <3> QED BY <3>1 DEF Finals
  <2>3. Line("play", r.id) \in LineRecs BY <1>2, Records
  <2> QED BY <1>4, <1>5, <1>8, <2>1, <2>2, <2>3 DEF LoopPlay, Reply, ClientType
<1>9. CASE LoopIgnores(r) BY <1>9 DEF LoopIgnores, ClientType
<1> QED BY <1>3, <1>6, <1>7, <1>8, <1>9

\* A step of the client keeps the calls and messages of their types.
LEMMA SendType == ASSUME ClientType, Send PROVE ClientType'
<1>1. PICK c \in calls : Write(c) \/ Read(c) BY DEF Send
<1>2. c \in CallRecs /\ msgs \in Seq(MsgRecs) /\ toSrv \in Seq(Requests)
      /\ toCli \in Seq(LineRecs) /\ calls \subseteq CallRecs /\ reqID \in Nat
  BY DEF ClientType
<1>3. \A m \in MsgRecs : Append(msgs, m) \in Seq(MsgRecs) BY <1>2, AppendProperties
<1>4. Msg("ConnLost") \in MsgRecs BY Records DEF Kinds, LobbyKinds
<1>5. CASE Write(c)
  <2>1. [c EXCEPT !.sent = TRUE, !.id = reqID + 1] \in CallRecs
    BY <1>2, SentCall
  <2>2. [method |-> c.method, id |-> reqID + 1] \in Requests BY <1>2 DEF CallRecs, Requests
  <2>3. Append(toSrv, [method |-> c.method, id |-> reqID + 1]) \in Seq(Requests)
    BY <1>2, <2>2, AppendProperties
  <2>4. toSrv' \in Seq(Requests) BY <1>2, <1>5, <2>3 DEF Write
  <2>5. calls' \subseteq CallRecs BY <1>2, <1>5, <2>1 DEF Write
  <2>6. msgs' \in Seq(MsgRecs) BY <1>2, <1>3, <1>4, <1>5 DEF Write
  <2>7. reqID' \in Nat BY <1>2, <1>5 DEF Write
  <2> QED BY <1>5, <2>4, <2>5, <2>6, <2>7 DEF Write, Send, ClientType, appVars
<1>6. CASE Read(c)
  <2>1. calls' \subseteq CallRecs BY <1>2, <1>6 DEF Read
  <2>2. msgs' \in Seq(MsgRecs) /\ toCli' \in Seq(LineRecs)
    <3>1. CASE toCli # <<>>
      <4>1. Head(toCli) \in LineRecs /\ Tail(toCli) \in Seq(LineRecs)
        BY <1>2, <3>1, HeadTailProperties
      <4>2. Result(c, Head(toCli)) \in MsgRecs BY <1>2, <4>1, Results
      <4>3. msgs' = Append(msgs, Result(c, Head(toCli))) /\ toCli' = Tail(toCli)
        BY <1>6, <3>1 DEF Read
      <4> QED BY <1>3, <4>1, <4>2, <4>3
    <3>2. CASE toCli = <<>>
      <4>1. msgs' = Append(msgs, Msg("ConnLost")) /\ toCli' = toCli BY <1>6, <3>2 DEF Read
      <4> QED BY <1>2, <1>3, <1>4, <4>1
    <3> QED BY <3>1, <3>2
  <2> QED BY <1>6, <2>1, <2>2 DEF Read, Send, ClientType, appVars, noteVars
<1> QED BY <1>1, <1>5, <1>6

\* A key that decides something puts one message on its way.
LEMMA DecideType ==
  ASSUME ClientType, NEW k \in Kinds, Decide(k)
  PROVE  msgs' = Append(msgs, Msg(k)) /\ msgs' \in Seq(MsgRecs) /\ acts' \in Nat
<1>1. Msg(k) \in MsgRecs BY Records
<1> QED BY <1>1, AppendProperties DEF Decide, ClientType

\* What Update does to the calls, for each screen.
LEMMA UpdateCalls ==
  ASSUME NEW m, UpdateLobby(m) \/ UpdateCreation(m) \/ UpdateGame(m)
  PROVE  \E k \in {"session.init", "game.new", "game.play"} :
           calls' = calls \/ calls' = calls \cup {Call(k)}
<1> QED BY DEF UpdateLobby, UpdateCreation, UpdateGame, GotSession, GotStart, GotResponse,
               GotError, GotLost, GotLoading, GotSendCmd, GotOther

\* Every step of client and daemon keeps the types.
LEMMA TypeStep == ClientType /\ [Next]_vars => ClientType'
<1> SUFFICES ASSUME ClientType, [Next]_vars PROVE ClientType' OBVIOUS
<1> USE DEF appVars, menuVars, connVars, callVars, noteVars
<1>1. CASE UNCHANGED vars BY <1>1 DEF ClientType, vars
<1>2. CASE Send BY <1>2, SendType
<1>3. <<>> \in Seq(MsgRecs) OBVIOUS
<1>4. CASE HandshakeDone \/ LineAnswered BY <1>3, <1>4 DEF HandshakeDone, LineAnswered, ClientType
<1>5. CASE ResumeRead
  <2>1. toCli' \in Seq(LineRecs) BY <1>5, HeadTailProperties DEF ResumeRead, ClientType
  <2> QED BY <1>5, <2>1 DEF ResumeRead, ClientType
<1>6. \A m \in Methods : Call(m) \in CallRecs BY Records
<1>7. Lists \subseteq Methods /\ {"session.init", "game.new", "game.play", "tool"} \subseteq Methods
  BY DEF Methods
<1>8. CASE BeginTUI
  <2>1. msgs' \in Seq(MsgRecs)
    <3>1. [Msg("GameStart") EXCEPT !.fight = (lastResp = "fight")] \in MsgRecs
      BY DEF Msg, MsgRecs, Kinds, Ends
    <3>2. Msg("Loading") \in MsgRecs BY Records DEF Kinds
    <3>3. <<[Msg("GameStart") EXCEPT !.fight = (lastResp = "fight")]>> \in Seq(MsgRecs)
      BY <3>1
    <3>4. <<Msg("Loading")>> \in Seq(MsgRecs) BY <3>2
    <3> QED BY <1>3, <1>8, <3>3, <3>4 DEF BeginTUI
  <2>2. calls' \subseteq CallRecs BY <1>6, <1>7, <1>8 DEF BeginTUI
  <2>3. screen' \in {"game", "lobby"} /\ opening' \in {"GameStart", "Loading", opening}
    BY <1>8 DEF BeginTUI
  <2> QED BY <1>8, <2>1, <2>2, <2>3 DEF BeginTUI, ClientType
<1>9. CASE BeginCLI \/ HandleLine
  <2>1. calls' \subseteq CallRecs /\ acts' \in Nat
    BY <1>6, <1>7, <1>9 DEF BeginCLI, HandleLine, ClientType
  <2> QED BY <1>9, <2>1 DEF BeginCLI, HandleLine, ClientType
<1>10. CASE BeginMCP \/ Leave BY <1>10 DEF BeginMCP, Leave, ClientType
<1>11. CASE ToolCall
  <2>1. acts' \in Nat BY <1>11 DEF ToolCall, ClientType
  <2>2. [Call("tool") EXCEPT !.id = acts'] \in CallRecs BY <2>1 DEF Call, CallRecs, Methods
  <2>3. calls' \subseteq CallRecs BY <1>11, <2>2 DEF ToolCall, ClientType
  <2> QED BY <1>11, <2>1, <2>3 DEF ToolCall, ClientType
<1>12. CASE ToolAnswered
  <2>1. msgs' \in Seq(MsgRecs) BY <1>12, HeadTailProperties DEF ToolAnswered, ClientType
  <2> QED BY <1>12, <2>1 DEF ToolAnswered, ClientType
<1>13. CASE Update
  <2>1. PICK i \in DOMAIN msgs :
          /\ msgs' = RemoveAt(msgs, i)
          /\ opening' = IF msgs[i].kind = opening THEN "none" ELSE opening
          /\ \/ (UpdateLobby(msgs[i]) \/ UpdateCreation(msgs[i])) /\ UNCHANGED pc
             \/ UpdateGame(msgs[i])
    BY <1>13 DEF Update
  <2>2. msgs \in Seq(MsgRecs) /\ i \in 1..Len(msgs) BY <2>1, LenProperties DEF ClientType
  <2>3. msgs' \in Seq(MsgRecs) BY <2>1, <2>2, Left
  <2>4. calls' \subseteq CallRecs
    <3>1. \E k \in {"session.init", "game.new", "game.play"} :
            calls' = calls \/ calls' = calls \cup {Call(k)}
      BY <2>1, UpdateCalls
    <3> QED BY <1>6, <1>7, <3>1 DEF ClientType
  <2>5. screen' \in {"none", "lobby", "creation", "game"}
    BY <2>1 DEF ClientType, UpdateLobby, UpdateCreation, UpdateGame
  <2>6. opening' \in {"none", "Loading", "GameStart"} BY <2>1 DEF ClientType
  <2> QED BY <1>13, <2>3, <2>4, <2>5, <2>6 DEF Update, ClientType
<1>14. CASE Key
  <2>1. msgs' \in Seq(MsgRecs) /\ acts' \in Nat
    <3>1. {"StartCreation", "ResumeSession", "CreationDone", "SendCmd"} \subseteq Kinds
      BY DEF Kinds, LobbyKinds
    <3>2. UNCHANGED <<acts, msgs>> \/ \E k \in Kinds : Decide(k)
      BY <1>14, <3>1 DEF Key, KeyLobby, KeyCreation, KeyGame
    <3> QED BY <3>2, DecideType DEF ClientType
  <2>2. screen' \in {screen, "lobby"} BY <1>14 DEF Key, KeyLobby, KeyCreation, KeyGame
  <2> QED BY <1>14, <2>1, <2>2 DEF Key, ClientType
<1>15. CASE Serve
  <2>1. toSrv' \in Seq(Requests) BY <1>15, HeadTailProperties DEF Serve, ClientType
  <2> QED BY <1>15, <2>1, ServeType DEF Serve, ClientType
<1>16. CASE ServerStops
  <2> DEFINE l == [Line("play", 0) EXCEPT !.end = "quit"]
  <2>1. l \in LineRecs BY DEF Line, LineRecs, Ends
  <2>2. toCli' \in Seq(LineRecs)
    <3>1. toCli' = toCli \/ toCli' = Append(toCli, l) BY <1>16 DEF ServerStops, Reply
    <3>2. toCli \in Seq(LineRecs) BY DEF ClientType
    <3> HIDE DEF l
    <3> QED BY <2>1, <3>1, <3>2
  <2>3. toSrv' \in Seq(Requests) BY <1>16 DEF ServerStops
  <2> QED BY <1>16, <2>2, <2>3 DEF ServerStops, ClientType
<1> QED BY <1>1, <1>2, <1>4, <1>5, <1>8, <1>9, <1>10, <1>11, <1>12, <1>13, <1>14, <1>15, <1>16
        DEF Next, Progress

-----------------------------------------------------------------------------
(* send                                                                    *)

\* Writing a request keeps the conversation in order: only a call that may
\* speak while the announcement of a game lies unread gets the mutex.
LEMMA WriteKeeps ==
  ASSUME ClientInv, ClientType', NEW c \in calls, Running, Write(c),
         UNCHANGED <<front, opts, pc, appVars, menuVars>>
  PROVE  ClientInv'
<1> DEFINE d == [c EXCEPT !.sent = TRUE, !.id = reqID + 1]
           lost == Msg("ConnLost")
           r == [method |-> c.method, id |-> reqID + 1]
<1>1. /\ ClientType /\ PlaceInv /\ LobbyInv /\ ResumeInv /\ MutexInv /\ LineInv /\ StrayInv
      /\ ~mispaired
  BY DEF ClientInv, TalkInv, AnswersPaired
<1>2. /\ c \in CallRecs /\ calls \subseteq CallRecs /\ reqID \in Nat /\ msgs \in Seq(MsgRecs)
      /\ toSrv \in Seq(Requests) /\ toCli \in Seq(LineRecs)
  BY <1>1 DEF ClientType
<1>3. d \in CallRecs /\ d.method = c.method /\ d.sent /\ d.id = reqID + 1 BY <1>2, SentCall
<1>4. lost \in MsgRecs /\ lost.kind = "ConnLost" BY Records DEF Kinds, LobbyKinds
<1>5. r \in Requests /\ r.method = c.method /\ r.id = reqID + 1 BY <1>2 DEF Requests, CallRecs
<1>6. /\ ~c.sent /\ reqID' = reqID + 1 /\ \A e \in calls : ~e.sent
      /\ UNCHANGED <<toCli, closed, handler, mispaired, pc, screen, waiting, front>>
      /\ \/ /\ calls' = (calls \ {c}) \cup {d}
            /\ toSrv' = IF closed THEN toSrv ELSE Append(toSrv, r)
            /\ msgs' = msgs
         \/ closed /\ calls' = calls \ {c} /\ msgs' = Append(msgs, lost) /\ toSrv' = toSrv
  BY DEF Write, MutexFree, appVars
<1> HIDE DEF d, lost, r, Write
<1>7. /\ \A i \in 1..Len(msgs') :
           (i \in 1..Len(msgs) /\ msgs'[i] = msgs[i]) \/ msgs'[i] = lost
      /\ Len(msgs') = Len(msgs) \/ (calls' = calls \ {c} /\ Len(msgs') = Len(msgs) + 1)
  <2>1. CASE msgs' = msgs BY <2>1
  <2>2. CASE calls' = calls \ {c} /\ msgs' = Append(msgs, lost)
    <3>1. /\ Len(Append(msgs, lost)) = Len(msgs) + 1
          /\ \A i \in 1..Len(Append(msgs, lost)) :
               \/ i \in 1..Len(msgs) /\ Append(msgs, lost)[i] = msgs[i]
               \/ i = Len(msgs) + 1 /\ Append(msgs, lost)[i] = lost
      BY <1>2, <1>4, Added
    <3> QED BY <2>2, <3>1
  <2> QED BY <1>6, <2>1, <2>2
<1>8. \A e \in calls' : (e \in calls /\ e # c) \/ e = d BY <1>6
<1>9. PlaceInv'
  <2>1. pc \notin {"resume", "begin", "prompt"} BY <1>1 DEF PlaceInv
  <2>2. ASSUME pc \in {"handshake", "call"}
        PROVE  \/ msgs' = <<>> /\ \E e \in calls' :
                    calls' = {e} /\ (pc = "handshake" <=> e.method = "session.init")
               \/ Len(msgs') = 1 /\ calls' = {}
    <3>1. msgs = <<>> /\ calls = {c} /\ (pc = "handshake" <=> c.method = "session.init")
      BY <2>2, <1>1 DEF PlaceInv
    <3>2. CASE calls' = (calls \ {c}) \cup {d} /\ msgs' = msgs BY <3>1, <3>2, <1>3
    <3>3. CASE calls' = calls \ {c} /\ msgs' = Append(msgs, lost)
      <4>1. Len(msgs') = 1 BY <3>1, <3>3
      <4> QED BY <3>1, <3>3, <4>1
    <3> QED BY <3>2, <3>3, <1>6
  <2> QED BY <2>1, <2>2, <1>1, <1>6 DEF PlaceInv
<1>10. LobbyInv' BY <1>1, <1>3, <1>4, <1>6, <1>7, <1>8 DEF LobbyInv, LobbyKinds
<1>11. Quiet(lost) /\ lost.kind # "SessionInitDone" BY <1>4 DEF Quiet
<1>12. ResumeInv'
  <2> SUFFICES ASSUME NEW e \in calls', e.method = "session.init"
               PROVE  /\ \A x \in calls' : x.method \in Lists \/ x = e
                      /\ \/ pc' = "handshake"
                         \/ /\ (pc = "run" /\ screen = "game" /\ waiting)'
                            /\ \A i \in 1..Len(msgs') :
                                 Quiet(msgs'[i]) /\ msgs'[i].kind # "SessionInitDone"
    BY DEF ResumeInv
  <2>1. PICK f \in calls : f.method = "session.init" /\ (e = f \/ (e = d /\ f = c))
    BY <1>3, <1>8
  <2>2. /\ \A x \in calls : x.method \in Lists \/ x = f
        /\ \/ pc = "handshake"
           \/ /\ pc = "run" /\ screen = "game" /\ waiting
              /\ \A i \in 1..Len(msgs) : Quiet(msgs[i]) /\ msgs[i].kind # "SessionInitDone"
    BY <2>1, <1>1 DEF ResumeInv
  <2>3. \A x \in calls' : x.method \in Lists \/ x = e
    BY <2>1, <2>2, <1>3, <1>8 DEF Lists
  <2> QED BY <2>2, <2>3, <1>6, <1>7, <1>11
<1>13. MutexInv'
  <2>1. \A e \in calls' : e.sent => e = d BY <1>6, <1>8
  <2>2. d.id = reqID' /\ reqID' # 0 BY <1>2, <1>3, <1>6
  <2>3. closed' => toSrv' = <<>> BY <1>1, <1>6 DEF MutexInv
  <2>4. \A i \in 1..Len(toSrv) : toSrv[i].method \in Lists /\ handler # "serve"
    BY <1>1, <1>6 DEF MutexInv, Owned
  <2>5. \A i \in 1..Len(toSrv') :
          Owned(i)' \/ (toSrv'[i].method \in Lists /\ handler' # "serve")
    <3>1. CASE toSrv' = toSrv BY <3>1, <2>4, <1>6
    <3>2. CASE toSrv' = Append(toSrv, r) /\ calls' = (calls \ {c}) \cup {d}
      <4>1. /\ Len(toSrv') = Len(toSrv) + 1
            /\ \A i \in 1..Len(toSrv') :
                 \/ i \in 1..Len(toSrv) /\ toSrv'[i] = toSrv[i]
                 \/ i = Len(toSrv) + 1 /\ toSrv'[i] = r
        BY <3>2, <1>2, <1>5, Added
      <4>2. d \in calls' BY <3>2
      <4> QED BY <4>1, <4>2, <2>4, <1>3, <1>5, <1>6 DEF Owned
    <3> QED BY <3>1, <3>2, <1>6
  <2> QED BY <2>1, <2>2, <2>3, <2>5 DEF MutexInv
<1>14. LineInv' BY <1>1, <1>6 DEF LineInv
<1>15. StrayInv'
  <2> SUFFICES ASSUME NEW i \in 1..Len(toCli), Stray(toCli[i])
               PROVE  /\ handler # "serve"
                      /\ pc \in {"handshake", "resume", "run"}
                      /\ \A e \in calls' : e.method \in Lists \/ (e.method = "session.init" /\ e.sent)
                      /\ (\E e \in calls' : e.method = "session.init") =>
                            i = 2 /\ toCli[1].re # 0 /\ toCli[1].has /\ toCli[1].kind # "error"
                      /\ (\A e \in calls' : e.method # "session.init") => i = 1
                      /\ pc = "handshake" /\ calls' = {} =>
                            msgs'[1].kind = "SessionInitDone" /\ msgs'[1].has
                      /\ pc = "run" => screen = "game" /\ waiting
                                       /\ \A j \in 1..Len(msgs') : Quiet(msgs'[j])
    BY <1>6 DEF StrayInv
  <2>1. /\ handler # "serve"
        /\ pc \in {"handshake", "resume", "run"}
        /\ \A e \in calls : e.method \in Lists \/ (e.method = "session.init" /\ e.sent)
        /\ (\E e \in calls : e.method = "session.init") =>
              i = 2 /\ toCli[1].re # 0 /\ toCli[1].has /\ toCli[1].kind # "error"
        /\ (\A e \in calls : e.method # "session.init") => i = 1
        /\ pc = "run" => screen = "game" /\ waiting /\ \A j \in 1..Len(msgs) : Quiet(msgs[j])
    BY <1>1 DEF StrayInv
  <2>2. \A e \in calls : e.method \in Lists /\ e.method # "session.init"
    BY <2>1, <1>6 DEF Lists
  <2>3. \A e \in calls' : e.method \in Lists /\ e.method # "session.init"
    BY <2>2, <1>3, <1>8
  <2>4. pc # "handshake" BY <2>2, <1>1 DEF PlaceInv
  <2>5. i = 1 BY <2>1, <2>2
  <2> QED BY <2>1, <2>3, <2>4, <2>5, <1>7, <1>11
<1> QED BY <1>1, <1>6, <1>9, <1>10, <1>12, <1>13, <1>14, <1>15
        DEF ClientInv, TalkInv, AnswersPaired

\* A call that finds the connection closed and empty is over.
LEMMA ReadEndKeeps ==
  ASSUME ClientInv, ClientType', NEW c \in calls, Running, Read(c), toCli = <<>>,
         UNCHANGED <<front, opts, pc, appVars, menuVars>>
  PROVE  ClientInv'
<1> DEFINE lost == Msg("ConnLost")
<1>1. /\ ClientType /\ PlaceInv /\ LobbyInv /\ ResumeInv /\ MutexInv /\ ~mispaired
  BY DEF ClientInv, TalkInv, AnswersPaired
<1>2. msgs \in Seq(MsgRecs) BY <1>1 DEF ClientType
<1>3. lost \in MsgRecs /\ lost.kind = "ConnLost" BY Records DEF Kinds, LobbyKinds
<1>4. /\ c.sent /\ closed /\ calls' = calls \ {c} /\ msgs' = Append(msgs, lost)
      /\ UNCHANGED <<toCli, toSrv, reqID, closed, handler, mispaired, pc, screen, waiting, front>>
  BY DEF Read, appVars
<1> HIDE DEF lost, Read
<1>5. /\ Len(msgs') = Len(msgs) + 1
      /\ \A i \in 1..Len(msgs') : (i \in 1..Len(msgs) /\ msgs'[i] = msgs[i]) \/ msgs'[i] = lost
  BY <1>2, <1>3, <1>4, Added
<1>6. Quiet(lost) /\ lost.kind # "SessionInitDone" BY <1>3 DEF Quiet
<1>7. PlaceInv'
  <2>1. pc \notin {"resume", "begin", "prompt"} BY <1>1 DEF PlaceInv
  <2>2. ASSUME pc \in {"handshake", "call"} PROVE Len(msgs') = 1 /\ calls' = {}
    <3>1. msgs = <<>> /\ calls = {c} BY <2>2, <1>1 DEF PlaceInv
    <3>2. Len(msgs') = 1 BY <3>1, <1>5
    <3> QED BY <3>1, <3>2, <1>4
  <2> QED BY <2>1, <2>2, <1>1, <1>4 DEF PlaceInv
<1>8. LobbyInv' BY <1>1, <1>3, <1>4, <1>5 DEF LobbyInv, LobbyKinds
<1>9. ResumeInv' BY <1>1, <1>4, <1>5, <1>6 DEF ResumeInv
<1>10. MutexInv'
  <2>1. toSrv' = <<>> /\ Len(toSrv') = 0 BY <1>1, <1>4 DEF MutexInv
  <2> QED BY <2>1, <1>1, <1>4 DEF MutexInv
<1>11. Len(toCli') = 0 BY <1>4
<1> QED BY <1>1, <1>4, <1>7, <1>8, <1>9, <1>10, <1>11
        DEF ClientInv, TalkInv, AnswersPaired, LineInv, StrayInv

\* The line a call reads is its answer or the notice of the game's end, unless
\* it is a list call that takes the announcement of a resumed game.
LEMMA ReadLineKeeps ==
  ASSUME ClientInv, ClientType', NEW c \in calls, Running, Read(c), toCli # <<>>,
         UNCHANGED <<front, opts, pc, appVars, menuVars>>
  PROVE  ClientInv'
<1> DEFINE l == Head(toCli)
           m == Result(c, l)
<1>1. /\ ClientType /\ PlaceInv /\ LobbyInv /\ ResumeInv /\ MutexInv /\ LineInv /\ StrayInv
      /\ ~mispaired
  BY DEF ClientInv, TalkInv, AnswersPaired
<1>2. /\ c \in CallRecs /\ msgs \in Seq(MsgRecs) /\ toCli \in Seq(LineRecs)
  BY <1>1 DEF ClientType
<1>3. /\ l = toCli[1] /\ l \in LineRecs /\ 1 \in 1..Len(toCli)
      /\ \A i \in 1..Len(Tail(toCli)) :
           i \in Nat /\ i # 0 /\ i + 1 \in 1..Len(toCli) /\ Tail(toCli)[i] = toCli[i + 1]
  BY <1>2, Taken
<1>4. /\ c.sent /\ calls' = calls \ {c} /\ msgs' = Append(msgs, m) /\ toCli' = Tail(toCli)
      /\ mispaired' = (mispaired \/ (c.method \notin Lists /\ l.re # c.id /\ l.end = "no"))
      /\ UNCHANGED <<toSrv, reqID, closed, handler, pc, screen, waiting, front>>
  BY DEF Read, appVars
<1> HIDE DEF l, Read
<1>5. /\ m \in MsgRecs
      /\ c.method \in Lists => m.kind \in LobbyKinds
      /\ c.method = "session.init" /\ l.kind # "error" =>
              m.kind = "SessionInitDone" /\ m.has = l.has
  BY <1>2, <1>3, Results
<1> HIDE DEF m
<1>6. /\ Len(msgs') = Len(msgs) + 1
      /\ \A i \in 1..Len(msgs') : (i \in 1..Len(msgs) /\ msgs'[i] = msgs[i])
                                  \/ (i = Len(msgs) + 1 /\ msgs'[i] = m)
  BY <1>2, <1>4, <1>5, Added
<1>7. m.kind \in LobbyKinds => Quiet(m) /\ m.kind # "SessionInitDone" BY DEF Quiet, LobbyKinds
<1>8. ~Stray(l) \/ (c.method \in Lists /\ handler # "serve")
  <2> SUFFICES ASSUME Stray(l) PROVE c.method \in Lists /\ handler # "serve" OBVIOUS
  <2>1. /\ handler # "serve"
        /\ c.method \in Lists \/ c.method = "session.init"
        /\ c.method = "session.init" => 1 = 2
    BY <1>1, <1>3 DEF StrayInv
  <2> QED BY <2>1
<1>9. l.re # 0 => l.re = c.id /\ toSrv = <<>> BY <1>1, <1>3, <1>4 DEF LineInv, MutexInv
<1>10. ~mispaired' BY <1>1, <1>4, <1>8, <1>9 DEF Stray
<1>11. PlaceInv'
  <2>1. pc \notin {"resume", "begin", "prompt"} BY <1>1 DEF PlaceInv
  <2>2. ASSUME pc \in {"handshake", "call"} PROVE Len(msgs') = 1 /\ calls' = {}
    <3>1. msgs = <<>> /\ calls = {c} BY <2>2, <1>1 DEF PlaceInv
    <3>2. Len(msgs') = 1 BY <3>1, <1>6
    <3> QED BY <3>1, <3>2, <1>4
  <2> QED BY <2>1, <2>2, <1>1, <1>4 DEF PlaceInv
<1>12. LobbyInv' BY <1>1, <1>4, <1>5, <1>6 DEF LobbyInv
<1>13. ResumeInv'
  <2> SUFFICES ASSUME NEW e \in calls', e.method = "session.init"
               PROVE  /\ \A x \in calls' : x.method \in Lists \/ x = e
                      /\ \/ pc' = "handshake"
                         \/ /\ (pc = "run" /\ screen = "game" /\ waiting)'
                            /\ \A i \in 1..Len(msgs') :
                                 Quiet(msgs'[i]) /\ msgs'[i].kind # "SessionInitDone"
    BY DEF ResumeInv
  <2>1. e \in calls /\ e # c /\ \A x \in calls' : x \in calls BY <1>4
  <2>2. /\ \A x \in calls : x.method \in Lists \/ x = e
        /\ \/ pc = "handshake"
           \/ /\ pc = "run" /\ screen = "game" /\ waiting
              /\ \A i \in 1..Len(msgs) : Quiet(msgs[i]) /\ msgs[i].kind # "SessionInitDone"
    BY <2>1, <1>1 DEF ResumeInv
  <2>3. Quiet(m) /\ m.kind # "SessionInitDone" BY <2>1, <2>2, <1>5, <1>7
  <2> QED BY <2>1, <2>2, <2>3, <1>4, <1>6
<1>14. MutexInv'
  <2>1. \A e \in calls' : ~e.sent BY <1>1, <1>4 DEF MutexInv
  <2>2. closed' => toSrv' = <<>> BY <1>1, <1>4 DEF MutexInv
  <2>3. ASSUME NEW i \in 1..Len(toSrv)
        PROVE  toSrv[i].method \in Lists /\ handler # "serve"
    <3>1. toSrv # <<>> /\ ~closed
      <4>1. Len(toSrv) # 0 BY <1>1, LenProperties DEF ClientType
      <4> QED BY <4>1, <1>1 DEF MutexInv
    <3>2. l.re = 0 /\ l.end = "no" BY <3>1, <1>1, <1>3, <1>9 DEF LineInv
    <3>3. c.method \in Lists /\ handler # "serve" BY <3>2, <1>8 DEF Stray
    <3>4. Owned(i) => toSrv[i].method = c.method BY <1>1, <1>4 DEF Owned, MutexInv
    <3> QED BY <3>3, <3>4, <1>1 DEF MutexInv
  <2> QED BY <2>1, <2>2, <2>3, <1>4 DEF MutexInv
<1>15. LineInv'
  <2> SUFFICES ASSUME NEW i \in 1..Len(toCli')
               PROVE  toCli'[i].re = 0 /\ (toCli'[i].end # "no" => closed' /\ handler' = "gone")
    BY DEF LineInv
  <2>1. i \in Nat /\ i # 0 /\ i + 1 \in 1..Len(toCli) /\ toCli'[i] = toCli[i + 1]
    BY <1>3, <1>4
  <2>2. i + 1 # 1 BY <2>1
  <2> QED BY <2>1, <2>2, <1>1, <1>4 DEF LineInv
<1>16. StrayInv'
  <2> SUFFICES ASSUME NEW i \in 1..Len(toCli'), Stray(toCli'[i])
               PROVE  /\ handler # "serve"
                      /\ pc \in {"handshake", "resume", "run"}
                      /\ \A e \in calls' : e.method \in Lists /\ e.method # "session.init"
                      /\ i = 1
                      /\ pc = "handshake" =>
                            msgs'[1].kind = "SessionInitDone" /\ msgs'[1].has
                      /\ pc = "run" => screen = "game" /\ waiting
                                       /\ \A j \in 1..Len(msgs') : Quiet(msgs'[j])
    BY <1>4 DEF StrayInv
  <2>1. i \in Nat /\ i # 0 /\ i + 1 \in 1..Len(toCli) /\ toCli'[i] = toCli[i + 1]
    BY <1>3, <1>4
  <2>2. /\ handler # "serve"
        /\ pc \in {"handshake", "resume", "run"}
        /\ \A e \in calls : e.method \in Lists \/ (e.method = "session.init" /\ e.sent)
        /\ (\E e \in calls : e.method = "session.init") =>
              i + 1 = 2 /\ toCli[1].re # 0 /\ toCli[1].has /\ toCli[1].kind # "error"
        /\ (\A e \in calls : e.method # "session.init") => i + 1 = 1
        /\ pc = "run" => screen = "game" /\ waiting /\ \A j \in 1..Len(msgs) : Quiet(msgs[j])
    BY <2>1, <1>1 DEF StrayInv
  <2>3. i + 1 # 1 BY <2>1
  <2>4. i + 1 = 2 /\ l.has /\ l.kind # "error" BY <2>2, <2>3, <1>3
  <2>5. i = 1 BY <2>1, <2>4
  <2>6. c.method = "session.init"
    <3>1. PICK e \in calls : e.method = "session.init" BY <2>2, <2>3
    <3>2. e.sent BY <3>1, <2>2 DEF Lists
    <3> QED BY <3>1, <3>2, <1>1, <1>4 DEF MutexInv
  <2>7. m.kind = "SessionInitDone" /\ m.has /\ Quiet(m) BY <2>4, <2>6, <1>5 DEF Quiet
  <2>8. \A e \in calls' : e.method \in Lists /\ e.method # "session.init"
    BY <2>6, <1>1, <1>4 DEF ResumeInv, Lists
  <2>9. pc = "handshake" => msgs'[1] = m
    <3> HAVE pc = "handshake"
    <3>1. Len(msgs) = 0
      <4>1. msgs = <<>> BY <1>1, <1>4 DEF PlaceInv
      <4> QED BY <4>1
    <3>2. 1 \in 1..Len(msgs') /\ 1 \notin 1..Len(msgs) BY <3>1, <1>6
    <3> QED BY <3>2, <1>6
  <2> QED BY <2>2, <2>5, <2>7, <2>8, <2>9, <1>6
<1> QED BY <1>1, <1>4, <1>10, <1>11, <1>12, <1>13, <1>14, <1>15, <1>16
        DEF ClientInv, TalkInv, AnswersPaired

-----------------------------------------------------------------------------
(* Handshake, line interface and proxy.                                    *)

\* A program that waits for nothing and has nothing announced to it keeps the
\* conversation in order whatever it is about to ask, for nothing it asks is
\* session.init.
LEMMA FreshCalls ==
  ASSUME ClientInv, Running, pc \notin {"handshake", "resume", "run"},
         \A c \in calls' : (c \in calls \/ ~c.sent) /\ c.method # "session.init",
         \A c \in calls : c.sent => c \in calls',
         UNCHANGED connVars, reqID' = reqID
  PROVE  TalkInv'
<1>1. MutexInv /\ LineInv /\ StrayInv BY DEF ClientInv, TalkInv
<1>2. UNCHANGED <<toSrv, toCli, closed, handler>> BY DEF connVars
<1>3. ResumeInv' BY DEF ResumeInv
<1>4. MutexInv' BY <1>1, <1>2 DEF MutexInv, Owned
<1>5. LineInv' BY <1>1, <1>2 DEF LineInv
<1>6. StrayInv' BY <1>1, <1>2 DEF StrayInv
<1> QED BY <1>3, <1>4, <1>5, <1>6 DEF TalkInv

\* The answer to session.init decides whether an announcement is to be read.
LEMMA HandshakeKeeps == ASSUME ClientInv, ClientType', HandshakeDone PROVE ClientInv'
<1>1. /\ ClientType /\ PlaceInv /\ LobbyInv /\ Running /\ MutexInv /\ LineInv /\ StrayInv
      /\ ~mispaired
  BY DEF ClientInv, TalkInv, AnswersPaired, HandshakeDone, Running
<1>2. pc = "handshake" /\ msgs # <<>> /\ msgs' = <<>> BY DEF HandshakeDone
<1>3. calls = {} BY <1>1, <1>2 DEF PlaceInv
<1>4. UNCHANGED <<calls, reqID, toSrv, toCli, closed, handler, mispaired, screen, front>>
  BY DEF HandshakeDone, appVars, connVars
<1>5. /\ pc' \in {"exited", "resume", "begin"}
      /\ Head(msgs).kind = "SessionInitDone" /\ Head(msgs).has => pc' = "resume"
  <2>1. CASE Head(msgs).kind # "SessionInitDone" BY <2>1 DEF HandshakeDone
  <2>2. CASE Head(msgs).kind = "SessionInitDone" /\ Head(msgs).has BY <2>2 DEF HandshakeDone
  <2>3. CASE Head(msgs).kind = "SessionInitDone" /\ ~Head(msgs).has BY <2>3 DEF HandshakeDone
  <2> QED BY <2>1, <2>2, <2>3
<1>6. PlaceInv' BY <1>1, <1>2, <1>3, <1>4, <1>5 DEF PlaceInv
<1>7. LobbyInv' BY <1>1, <1>2, <1>4 DEF LobbyInv, PlaceInv
<1>8. ASSUME Running' PROVE TalkInv'
  <2>1. ResumeInv' BY <1>3, <1>4 DEF ResumeInv
  <2>2. MutexInv' BY <1>1, <1>4 DEF MutexInv, Owned
  <2>3. LineInv' BY <1>1, <1>4 DEF LineInv
  <2>4. ASSUME NEW i \in 1..Len(toCli), Stray(toCli[i])
        PROVE  i = 1 /\ handler # "serve" /\ pc' = "resume"
    <3>1. i = 1 /\ handler # "serve" /\ msgs[1].kind = "SessionInitDone" /\ msgs[1].has
      BY <2>4, <1>1, <1>2, <1>3 DEF StrayInv
    <3>2. Head(msgs) = msgs[1] BY <1>2, <1>1, HeadTailProperties DEF ClientType
    <3> QED BY <3>1, <3>2, <1>5
  <2>5. StrayInv' BY <2>4, <1>3, <1>4 DEF StrayInv
  <2> QED BY <2>1, <2>2, <2>3, <2>5 DEF TalkInv
<1> QED BY <1>1, <1>4, <1>6, <1>7, <1>8 DEF ClientInv, AnswersPaired

\* Reading the announcement leaves nothing unasked for but the game's end.
LEMMA ResumeReadKeeps == ASSUME ClientInv, ClientType', ResumeRead PROVE ClientInv'
<1>1. /\ ClientType /\ PlaceInv /\ LobbyInv /\ Running /\ MutexInv /\ LineInv /\ StrayInv
      /\ ~mispaired
  BY DEF ClientInv, TalkInv, AnswersPaired, ResumeRead, Running
<1>2. pc = "resume" /\ calls = {} /\ msgs = <<>> BY <1>1 DEF ResumeRead, PlaceInv
<1>3. UNCHANGED <<calls, msgs, reqID, toSrv, closed, handler, mispaired, screen, front>>
  BY DEF ResumeRead, callVars
<1>4. \/ toCli # <<>> /\ toCli' = Tail(toCli) /\ pc' = "begin"
      \/ pc' = "exited"
  BY DEF ResumeRead
<1>5. PlaceInv' BY <1>1, <1>2, <1>3, <1>4 DEF PlaceInv
<1>6. LobbyInv' BY <1>1, <1>2, <1>3 DEF LobbyInv, PlaceInv
<1>7. ASSUME Running' PROVE TalkInv'
  <2>1. toCli # <<>> /\ toCli' = Tail(toCli) BY <1>4, <1>7 DEF Running
  <2>2. toCli \in Seq(LineRecs) BY <1>1 DEF ClientType
  <2>3. \A i \in 1..Len(toCli') :
          i \in Nat /\ i # 0 /\ i + 1 \in 1..Len(toCli) /\ toCli'[i] = toCli[i + 1]
    BY <2>1, <2>2, Taken
  <2>4. \A i \in 1..Len(toCli) : toCli[i].re # 0 => FALSE BY <1>1, <1>2 DEF LineInv
  <2>5. \A i \in 1..Len(toCli) : Stray(toCli[i]) => i = 1 BY <1>1, <1>2 DEF StrayInv
  <2>6. \A i \in Nat : i # 0 => i + 1 # 1 OBVIOUS
  <2>7. \A i \in 1..Len(toCli') : ~Stray(toCli'[i]) BY <2>3, <2>5, <2>6
  <2>8. LineInv' BY <2>3, <2>4, <1>1, <1>3 DEF LineInv
  <2>9. ResumeInv' BY <1>2, <1>3 DEF ResumeInv
  <2>10. MutexInv' BY <1>1, <1>3 DEF MutexInv, Owned
  <2> QED BY <2>7, <2>8, <2>9, <2>10 DEF TalkInv, StrayInv
<1> QED BY <1>1, <1>3, <1>5, <1>6, <1>7 DEF ClientInv, AnswersPaired

\* The terminal UI begins with lists, with a game to start or to show.
LEMMA BeginTUIKeeps == ASSUME ClientInv, ClientType', BeginTUI PROVE ClientInv'
<1>1. PlaceInv /\ Running /\ ~mispaired BY DEF ClientInv, AnswersPaired, BeginTUI, Running
<1>2. calls = {} BY <1>1 DEF BeginTUI, PlaceInv
<1>3. /\ pc = "begin" /\ pc' = "run" /\ front' = "tui" /\ mispaired' = mispaired
      /\ UNCHANGED connVars /\ reqID' = reqID
      /\ \/ screen' = "game" /\ (calls' = {} \/ calls' = {Call("game.new")})
         \/ screen' = "lobby" /\ calls' = {Call(m) : m \in Lists} /\ msgs' = <<>>
  BY DEF BeginTUI
<1>4. \A c \in calls' : ~c.sent /\ c.method # "session.init"
  <2>1. \A m \in Lists \cup {"game.new"} : ~Call(m).sent /\ Call(m).method = m
    BY DEF Call
  <2> QED BY <1>3, <2>1 DEF Lists
<1>5. TalkInv' BY <1>1, <1>2, <1>3, <1>4, FreshCalls
<1>6. PlaceInv' BY <1>3 DEF PlaceInv
<1>7. LobbyInv'
  <2>1. \A m \in Lists : Call(m).method \in Lists BY DEF Call
  <2>2. Len(<<>>) = 0 OBVIOUS
  <2> QED BY <1>3, <2>1, <2>2 DEF LobbyInv
<1> QED BY <1>1, <1>3, <1>5, <1>6, <1>7 DEF ClientInv, AnswersPaired

\* The line interface and the proxy: a new call is made when there is none,
\* or waits for the mutex.
LEMMA LineKeeps ==
  ASSUME ClientInv, ClientType',
         BeginCLI \/ HandleLine \/ LineAnswered \/ BeginMCP \/ ToolCall \/ ToolAnswered
  PROVE  ClientInv'
<1> USE DEF appVars, connVars, callVars, noteVars
<1>1. PlaceInv /\ LobbyInv /\ ~mispaired BY DEF ClientInv, AnswersPaired
<1>2. /\ pc \in {"begin", "prompt", "call", "tools"}
      /\ UNCHANGED <<front, screen, mispaired, reqID, connVars>>
  BY DEF BeginCLI, HandleLine, LineAnswered, BeginMCP, ToolCall, ToolAnswered
<1>3. screen = "none" /\ Running BY <1>1, <1>2 DEF PlaceInv, Running
<1>4. LobbyInv' BY <1>2, <1>3 DEF LobbyInv
<1>5. \A m \in {"game.new", "game.play"} : ~Call(m).sent /\ Call(m).method = m
  BY Records DEF Methods
<1>6. \/ calls' = calls
      \/ calls = {} /\ \E m \in {"game.new", "game.play"} : calls' = {Call(m)}
      \/ pc = "tools" /\ calls' = calls \cup {[Call("tool") EXCEPT !.id = acts']}
  BY <1>1 DEF BeginCLI, HandleLine, LineAnswered, BeginMCP, ToolCall, ToolAnswered, PlaceInv
<1>7. /\ ~[Call("tool") EXCEPT !.id = acts'].sent
      /\ [Call("tool") EXCEPT !.id = acts'].method = "tool"
  BY DEF Call
<1>8. \A c \in calls : c.method # "session.init"
  BY <1>2, <1>3 DEF ClientInv, TalkInv, ResumeInv
<1>9. /\ \A c \in calls' : (c \in calls \/ ~c.sent) /\ c.method # "session.init"
      /\ \A c \in calls : c.sent => c \in calls'
  BY <1>5, <1>6, <1>7, <1>8
<1>10. TalkInv'
  <2> HIDE DEF connVars
  <2> QED BY <1>2, <1>3, <1>9, FreshCalls
<1>11. PlaceInv'
  <2>1. CASE BeginCLI
    <3>1. calls = {} /\ msgs = <<>> /\ msgs' = msgs BY <2>1, <1>1 DEF BeginCLI, PlaceInv
    <3>2. (pc' = "call" /\ calls' = {Call("game.new")}) \/ (pc' = "prompt" /\ calls' = calls)
      BY <2>1 DEF BeginCLI
    <3> QED BY <3>1, <3>2, <1>2, <1>3, <1>5 DEF PlaceInv
  <2>2. CASE HandleLine
    <3>1. calls = {} /\ msgs = <<>> /\ msgs' = msgs BY <2>2, <1>1 DEF HandleLine, PlaceInv
    <3>2. pc' = "exited" \/ (pc' = "call" /\ \E m \in {"game.new", "game.play"} : calls' = {Call(m)})
      BY <2>2 DEF HandleLine
    <3> QED BY <3>1, <3>2, <1>2, <1>3, <1>5 DEF PlaceInv
  <2>3. CASE LineAnswered
    <3>1. calls = {} /\ calls' = {} /\ msgs' = <<>> BY <2>3, <1>1 DEF LineAnswered, PlaceInv
    <3>2. pc' \in {"exited", "prompt"} BY <2>3 DEF LineAnswered
    <3> QED BY <3>1, <3>2, <1>2, <1>3 DEF PlaceInv
  <2>4. CASE BeginMCP \/ ToolCall \/ ToolAnswered
    <3>1. pc' = "tools" BY <2>4 DEF BeginMCP, ToolCall, ToolAnswered
    <3> QED BY <3>1, <1>2, <1>3 DEF PlaceInv
  <2> QED BY <2>1, <2>2, <2>3, <2>4
<1> QED BY <1>1, <1>2, <1>4, <1>10, <1>11 DEF ClientInv, AnswersPaired

-----------------------------------------------------------------------------
(* The terminal UI.                                                        *)

\* Without an announcement and without a session.init, the conversation does
\* not depend on what the UI shows; a new call joins the others.
LEMMA FreeTalk ==
  ASSUME ClientInv, Running,
         \A i \in 1..Len(toCli) : ~Stray(toCli[i]),
         \A c \in calls : c.method # "session.init",
         \A c \in calls' : (c \in calls \/ ~c.sent) /\ c.method # "session.init",
         calls \subseteq calls', UNCHANGED <<connVars, reqID>>
  PROVE  TalkInv'
<1>1. MutexInv /\ LineInv BY DEF ClientInv, TalkInv
<1>2. UNCHANGED <<toSrv, toCli, closed, handler>> BY DEF connVars
<1>3. ResumeInv' BY DEF ResumeInv
<1>4. MutexInv' BY <1>1, <1>2 DEF MutexInv, Owned
<1>5. LineInv' BY <1>1, <1>2 DEF LineInv
<1>6. StrayInv' BY <1>2 DEF StrayInv
<1> QED BY <1>3, <1>4, <1>5, <1>6 DEF TalkInv

\* A step that makes no call, keeps the UI waiting in the game and lets only
\* quiet messages in keeps the conversation in order.
LEMMA QuietTalk ==
  ASSUME ClientInv, pc = "run", pc' = "run", screen = "game" => screen' = "game" /\ (waiting => waiting'),
         \A j \in 1..Len(msgs') : \/ \E k \in 1..Len(msgs) : msgs'[j] = msgs[k]
                                  \/ Quiet(msgs'[j]) /\ msgs'[j].kind # "SessionInitDone",
         UNCHANGED <<connVars, reqID, calls>>
  PROVE  TalkInv'
<1>1. ResumeInv /\ MutexInv /\ LineInv /\ StrayInv BY DEF ClientInv, TalkInv, Running
<1>2. UNCHANGED <<toSrv, toCli, closed, handler>> BY DEF connVars
<1>3. ResumeInv'
  <2> SUFFICES ASSUME NEW c \in calls, c.method = "session.init"
               PROVE  /\ \A d \in calls : d.method \in Lists \/ d = c
                      /\ screen' = "game" /\ waiting'
                      /\ \A i \in 1..Len(msgs') :
                           Quiet(msgs'[i]) /\ msgs'[i].kind # "SessionInitDone"
    BY DEF ResumeInv
  <2>1. /\ \A d \in calls : d.method \in Lists \/ d = c
        /\ screen = "game" /\ waiting
        /\ \A i \in 1..Len(msgs) : Quiet(msgs[i]) /\ msgs[i].kind # "SessionInitDone"
    BY <1>1 DEF ResumeInv
  <2> QED BY <2>1
<1>4. MutexInv' BY <1>1, <1>2 DEF MutexInv, Owned
<1>5. LineInv' BY <1>1, <1>2 DEF LineInv
<1>6. StrayInv'
  <2> SUFFICES ASSUME NEW i \in 1..Len(toCli), Stray(toCli[i])
               PROVE  /\ handler # "serve"
                      /\ \A c \in calls : c.method \in Lists \/ (c.method = "session.init" /\ c.sent)
                      /\ (\E c \in calls : c.method = "session.init") =>
                            i = 2 /\ toCli[1].re # 0 /\ toCli[1].has /\ toCli[1].kind # "error"
                      /\ (\A c \in calls : c.method # "session.init") => i = 1
                      /\ screen' = "game" /\ waiting' /\ \A j \in 1..Len(msgs') : Quiet(msgs'[j])
    BY <1>2 DEF StrayInv
  <2>1. /\ handler # "serve"
        /\ \A c \in calls : c.method \in Lists \/ (c.method = "session.init" /\ c.sent)
        /\ (\E c \in calls : c.method = "session.init") =>
              i = 2 /\ toCli[1].re # 0 /\ toCli[1].has /\ toCli[1].kind # "error"
        /\ (\A c \in calls : c.method # "session.init") => i = 1
        /\ screen = "game" /\ waiting /\ \A j \in 1..Len(msgs) : Quiet(msgs[j])
    BY <1>1 DEF StrayInv
  <2> QED BY <2>1
<1> QED BY <1>3, <1>4, <1>5, <1>6 DEF TalkInv

\* Keys only put quiet messages on their way.
LEMMA KeyKeeps == ASSUME ClientInv, ClientType', Key PROVE ClientInv'
<1> DEFINE Keys == {"StartCreation", "ResumeSession", "CreationDone", "SendCmd"}
<1>1. ClientType /\ PlaceInv /\ LobbyInv /\ ~mispaired BY DEF ClientInv, AnswersPaired
<1>2. /\ pc = "run" /\ pc' = "run" /\ calls' = calls /\ mispaired' = mispaired
      /\ UNCHANGED <<front, connVars, reqID>>
  BY DEF Key
<1>3. /\ waiting' = waiting
      /\ screen' = screen \/ (screen = "creation" /\ screen' = "lobby")
      /\ screen \in {"lobby", "creation", "game"}
  BY DEF Key, KeyLobby, KeyCreation, KeyGame, appVars
<1>4. msgs' = msgs \/ \E k \in Keys : Decide(k) /\ (k = "SendCmd" => screen = "game")
  BY DEF Key, KeyLobby, KeyCreation, KeyGame
<1>5. ASSUME NEW j \in 1..Len(msgs')
      PROVE  \/ \E k \in 1..Len(msgs) : msgs'[j] = msgs[k]
             \/ /\ msgs'[j].kind \in Keys
                /\ msgs'[j].kind = "SendCmd" => screen = "game"
  <2>1. CASE msgs' = msgs BY <2>1
  <2>2. CASE msgs' # msgs
    <3>1. PICK k \in Keys : Decide(k) /\ (k = "SendCmd" => screen = "game") BY <1>4, <2>2
    <3>2. Msg(k) \in MsgRecs /\ Msg(k).kind = k BY Records DEF Kinds, LobbyKinds
    <3>3. msgs' = Append(msgs, Msg(k)) /\ msgs \in Seq(MsgRecs)
      BY <3>1, <1>1 DEF Decide, ClientType
    <3> QED BY <3>1, <3>2, <3>3, Added
  <2> QED BY <2>1, <2>2
<1>6. \A m : m.kind \in Keys => Quiet(m) /\ m.kind # "SessionInitDone" BY DEF Quiet
<1>7. TalkInv' BY <1>2, <1>3, <1>5, <1>6, QuietTalk
<1>8. PlaceInv' BY <1>1, <1>2, <1>3 DEF PlaceInv
<1>9. LobbyInv' BY <1>1, <1>2, <1>3, <1>5 DEF LobbyInv, LobbyKinds
<1> QED BY <1>1, <1>2, <1>7, <1>8, <1>9 DEF ClientInv, AnswersPaired

\* A UI that is not in the game, does not wait, or is about to stop waiting
\* has no session.init under way and no announcement unread.
LEMMA Unannounced ==
  ASSUME ClientInv, pc = "run",
         screen # "game" \/ ~waiting \/ \E j \in 1..Len(msgs) : ~Quiet(msgs[j])
  PROVE  /\ \A i \in 1..Len(toCli) : ~Stray(toCli[i])
         /\ \A c \in calls : c.method # "session.init"
<1>1. ResumeInv /\ StrayInv BY DEF ClientInv, TalkInv, Running
<1>2. \A i \in 1..Len(toCli) : ~Stray(toCli[i]) BY <1>1 DEF StrayInv
<1>3. \A c \in calls : c.method # "session.init" BY <1>1 DEF ResumeInv
<1> QED BY <1>2, <1>3

\* The lobby's Update.
LEMMA LobbyKeeps ==
  ASSUME ClientInv, pc = "run", pc' = "run", NEW m, UpdateLobby(m),
         \A j \in 1..Len(msgs') : \E k \in 1..Len(msgs) : msgs'[j] = msgs[k],
         UNCHANGED <<connVars, reqID>>
  PROVE  TalkInv' /\ LobbyInv' /\ screen' \in {"lobby", "creation", "game"}
<1>1. /\ \A i \in 1..Len(toCli) : ~Stray(toCli[i])
      /\ \A c \in calls : c.method # "session.init"
  BY Unannounced DEF UpdateLobby
<1>2. LobbyInv /\ MutexInv /\ LineInv BY DEF ClientInv, TalkInv, Running
<1>3. /\ \A c \in calls : c.method \in Lists
      /\ \A i \in 1..Len(msgs) : msgs[i].kind \in LobbyKinds
  BY <1>2 DEF LobbyInv, UpdateLobby
<1>4. \A i \in 1..Len(msgs') : msgs'[i].kind \in LobbyKinds BY <1>3
<1>5. CASE m.kind # "ResumeSession"
  <2>1. calls' = calls /\ screen' \in {"lobby", "creation"} BY <1>5 DEF UpdateLobby
  <2>2. TalkInv' BY <2>1, <1>1, FreeTalk DEF Running
  <2> QED BY <2>1, <2>2, <1>3, <1>4 DEF LobbyInv
<1>6. CASE m.kind = "ResumeSession"
  <2> DEFINE n == Call("session.init")
  <2>1. calls' = calls \cup {n} /\ screen' = "game" /\ waiting' BY <1>6 DEF UpdateLobby
  <2>2. n.method = "session.init" /\ ~n.sent BY Records DEF Methods
  <2> HIDE DEF n
  <2>3. UNCHANGED <<toSrv, toCli, closed, handler>> BY DEF connVars
  <2>4. \A i \in 1..Len(msgs') : Quiet(msgs'[i]) /\ msgs'[i].kind # "SessionInitDone"
    BY <1>4 DEF Quiet, LobbyKinds
  <2>5. ResumeInv' BY <2>1, <2>2, <2>4, <1>3 DEF ResumeInv, Lists
  <2>6. MutexInv' BY <2>1, <2>2, <2>3, <1>2 DEF MutexInv, Owned
  <2>7. LineInv' BY <2>1, <2>3, <1>2 DEF LineInv
  <2>8. StrayInv' BY <2>3, <1>1 DEF StrayInv
  <2> QED BY <2>1, <2>5, <2>6, <2>7, <2>8 DEF TalkInv, LobbyInv
<1> QED BY <1>5, <1>6

\* The wizard's Update.
LEMMA CreationKeeps ==
  ASSUME ClientInv, pc = "run", pc' = "run", NEW m, UpdateCreation(m),
         \A j \in 1..Len(msgs') : \E k \in 1..Len(msgs) : msgs'[j] = msgs[k],
         UNCHANGED <<connVars, reqID>>
  PROVE  TalkInv' /\ LobbyInv' /\ screen' \in {"creation", "game"}
<1>1. /\ \A i \in 1..Len(toCli) : ~Stray(toCli[i])
      /\ \A c \in calls : c.method # "session.init"
  BY Unannounced DEF UpdateCreation
<1>2. \/ calls' = calls /\ screen' = "creation" /\ screen = "creation"
      \/ calls' = calls \cup {Call("game.new")} /\ screen' = "game"
  BY DEF UpdateCreation
<1>3. Call("game.new").method = "game.new" /\ ~Call("game.new").sent BY Records DEF Methods
<1>4. /\ \A c \in calls' : (c \in calls \/ ~c.sent) /\ c.method # "session.init"
      /\ calls \subseteq calls'
  BY <1>1, <1>2, <1>3
<1>5. TalkInv' BY <1>1, <1>4, FreeTalk DEF Running
<1>6. LobbyInv' BY <1>2 DEF LobbyInv, ClientInv
<1> QED BY <1>2, <1>5, <1>6

\* The game's Update: what ends the wait came for a command, not for a
\* session.init, and no command is sent during the wait.
LEMMA GameKeeps ==
  ASSUME ClientInv, pc = "run", NEW i \in 1..Len(msgs), UpdateGame(msgs[i]),
         \A j \in 1..Len(msgs') : \E k \in 1..Len(msgs) : msgs'[j] = msgs[k],
         UNCHANGED <<connVars, reqID>>
  PROVE  (Running' => TalkInv') /\ screen' = "game" /\ pc' \in {"run", "exited"}
<1> DEFINE m == msgs[i]
<1>1. screen = "game" /\ screen' = "game" BY DEF UpdateGame
<1>2. \/ GotSession(m) \/ GotStart(m) \/ GotResponse(m) \/ GotError(m) \/ GotLost(m)
      \/ GotLoading(m) \/ GotSendCmd(m) \/ GotOther(m)
  BY DEF UpdateGame
<1>3. ASSUME ~Quiet(m), calls' = calls PROVE TalkInv'
  <2>1. /\ \A j \in 1..Len(toCli) : ~Stray(toCli[j])
        /\ \A c \in calls : c.method # "session.init"
    BY <1>3, Unannounced
  <2> QED BY <1>3, <2>1, FreeTalk DEF Running
<1>4. ASSUME waiting => waiting', calls' = calls, pc' = "run" PROVE TalkInv'
  BY <1>1, <1>4, QuietTalk
<1>5. CASE GotSession(m)
  <2>1. calls' = calls /\ pc' = pc BY <1>5 DEF GotSession
  <2>2. CASE m.has
    <3>1. waiting => waiting' BY <1>5, <2>2 DEF GotSession
    <3> QED BY <2>1, <3>1, <1>1, <1>4
  <2>3. CASE ~m.has
    <3>1. ~Quiet(m) BY <1>5, <2>3 DEF GotSession, Quiet
    <3> QED BY <2>1, <3>1, <1>1, <1>3
  <2> QED BY <2>2, <2>3
<1>6. CASE GotStart(m) \/ GotResponse(m) \/ GotError(m)
  <2>1. calls' = calls /\ pc' \in {pc, "exited"} BY <1>6 DEF GotStart, GotResponse, GotError
  <2>2. ~Quiet(m) BY <1>6 DEF GotStart, GotResponse, GotError, Quiet
  <2> QED BY <2>1, <2>2, <1>1, <1>3
<1>7. CASE GotLost(m) \/ GotLoading(m) \/ GotOther(m)
  <2>1. calls' = calls /\ pc' = pc BY <1>7 DEF GotLost, GotLoading, GotOther
  <2>2. waiting => waiting' BY <1>7 DEF GotLost, GotLoading, GotOther
  <2> QED BY <2>1, <2>2, <1>1, <1>4
<1>8. CASE GotSendCmd(m)
  <2>1. pc' = pc BY <1>8 DEF GotSendCmd
  <2>2. CASE dead \/ waiting
    <3>1. calls' = calls /\ (waiting => waiting') BY <1>8, <2>2 DEF GotSendCmd
    <3> QED BY <2>1, <3>1, <1>1, <1>4
  <2>3. CASE ~(dead \/ waiting)
    <3>1. calls' = calls \cup {Call("game.play")} BY <1>8, <2>3 DEF GotSendCmd
    <3>2. Call("game.play").method = "game.play" /\ ~Call("game.play").sent
      BY Records DEF Methods
    <3>3. /\ \A j \in 1..Len(toCli) : ~Stray(toCli[j])
          /\ \A c \in calls : c.method # "session.init"
      BY <2>3, Unannounced
    <3>4. /\ \A c \in calls' : (c \in calls \/ ~c.sent) /\ c.method # "session.init"
          /\ calls \subseteq calls'
      BY <3>1, <3>2, <3>3
    <3> QED BY <2>1, <3>3, <3>4, <1>1, FreeTalk DEF Running
  <2> QED BY <2>2, <2>3
<1> HIDE DEF m
<1> QED BY <1>2, <1>5, <1>6, <1>7, <1>8

\* The event loop takes one message.
LEMMA UpdateKeeps == ASSUME ClientInv, ClientType', Update PROVE ClientInv'
<1>1. ClientType /\ PlaceInv /\ ~mispaired BY DEF ClientInv, AnswersPaired
<1>2. PICK i \in DOMAIN msgs :
        /\ msgs' = RemoveAt(msgs, i)
        /\ \/ (UpdateLobby(msgs[i]) \/ UpdateCreation(msgs[i])) /\ UNCHANGED pc
           \/ UpdateGame(msgs[i])
  BY DEF Update
<1>3. pc = "run" /\ mispaired' = mispaired /\ UNCHANGED <<front, connVars, reqID>> BY DEF Update
<1>4. msgs \in Seq(MsgRecs) /\ i \in 1..Len(msgs) BY <1>1, <1>2 DEF ClientType
<1>5. \A j \in 1..Len(msgs') : \E k \in 1..Len(msgs) : msgs'[j] = msgs[k]
  <2>1. msgs' = RemoveAt(msgs, i) BY <1>2
  <2> QED BY <2>1, <1>4, Left
<1>6. /\ Running' => TalkInv'
      /\ LobbyInv' /\ pc' \in {"run", "exited"} /\ screen' \in {"lobby", "creation", "game"}
  <2>1. CASE UpdateLobby(msgs[i]) /\ UNCHANGED pc BY <2>1, <1>3, <1>5, LobbyKeeps
  <2>2. CASE UpdateCreation(msgs[i]) /\ UNCHANGED pc BY <2>2, <1>3, <1>5, CreationKeeps
  <2>3. CASE UpdateGame(msgs[i])
    <3>1. (Running' => TalkInv') /\ screen' = "game" /\ pc' \in {"run", "exited"}
      BY <2>3, <1>3, <1>4, <1>5, GameKeeps
    <3> QED BY <3>1 DEF LobbyInv
  <2> QED BY <1>2, <2>1, <2>2, <2>3
<1>7. PlaceInv' BY <1>1, <1>3, <1>6 DEF PlaceInv
<1> QED BY <1>1, <1>3, <1>6, <1>7 DEF ClientInv, AnswersPaired

-----------------------------------------------------------------------------
(* The daemon's end.                                                       *)

\* The three things that can become of a request r: the game loop ignores it,
\* it gets its answer, or its answer and one more line.
Ignored(r) ==
  handler = "loop" /\ r.method # "game.play" /\ UNCHANGED <<toCli, handler, closed>>
Answer(r, l) == l.re = r.id /\ l.end = "no" /\ (r.method = "game.play" \/ handler = "serve")
Answered(r) ==
  \E l \in LineRecs :
    /\ Answer(r, l) /\ toCli' = Append(toCli, l)
    /\ \/ UNCHANGED closed
       \/ handler' = "gone" /\ closed' = TRUE
Announced(r) ==
  \E l, k \in LineRecs :
    /\ Answer(r, l) /\ toCli' = toCli \o <<l, k>> /\ k.re = 0
    /\ \/ /\ r.method = "session.init" /\ handler' = "loop" /\ UNCHANGED closed
          /\ l.has /\ l.kind = "init" /\ k.end = "no"
       \/ k.end # "no" /\ handler' = "gone" /\ closed' = TRUE

\* The handlers of the daemon do one of the three.
LEMMA Served ==
  ASSUME NEW r \in Requests, 
         ServeInit(r) \/ ServeList(r) \/ ServeNew(r) \/ ServeTool(r) \/ ServePlay(r)
         \/ LoopPlay(r) \/ LoopIgnores(r)
  PROVE  Ignored(r) \/ Answered(r) \/ Announced(r)
<1>1. r.id \in Nat BY DEF Requests
<1>2. CASE ServeInit(r)
  <2>1. PICK has \in BOOLEAN :
          LET answer == [Line("init", r.id) EXCEPT !.has = has] IN
          \/ ~has /\ Reply(answer) /\ UNCHANGED <<handler, closed>>
          \/ /\ has /\ handler' = "loop" /\ UNCHANGED closed
             /\ \E f \in BOOLEAN :
                  toCli' = toCli \o <<answer, [Line("play", 0) EXCEPT !.fight = f]>>
          \/ has /\ Reply(answer) /\ handler' = "gone" /\ closed' = TRUE
    BY <1>2 DEF ServeInit
  <2> DEFINE l == [Line("init", r.id) EXCEPT !.has = has]
             k(f) == [Line("play", 0) EXCEPT !.fight = f]
  <2>2. l \in LineRecs /\ l.re = r.id /\ l.end = "no" /\ l.kind = "init" /\ l.has = has
    BY <1>1 DEF Line, LineRecs, Ends
  <2>3. \A f \in BOOLEAN : k(f) \in LineRecs /\ k(f).re = 0 /\ k(f).end = "no"
    BY DEF Line, LineRecs, Ends
  <2>4. \/ /\ toCli' = Append(toCli, l)
           /\ UNCHANGED closed \/ (handler' = "gone" /\ closed' = TRUE)
        \/ /\ has /\ handler' = "loop" /\ UNCHANGED closed
           /\ \E f \in BOOLEAN : toCli' = toCli \o <<l, k(f)>>
    BY <2>1 DEF Reply
  <2>5. Answer(r, l) /\ r.method = "session.init" BY <1>2, <2>2 DEF ServeInit, Answer
  <2> HIDE DEF l, k
  <2>6. CASE toCli' = Append(toCli, l) /\ (UNCHANGED closed \/ (handler' = "gone" /\ closed' = TRUE))
    BY <2>2, <2>5, <2>6 DEF Answered
  <2>7. CASE /\ has /\ handler' = "loop" /\ UNCHANGED closed
             /\ \E f \in BOOLEAN : toCli' = toCli \o <<l, k(f)>>
    BY <2>2, <2>3, <2>5, <2>7 DEF Announced
  <2> QED BY <2>4, <2>6, <2>7
<1>3. CASE ServeList(r) \/ ServeTool(r) \/ ServePlay(r) \/ ServeNew(r)
  <2>1. \A x \in {"list", "tool", "error", "play"} :
          Line(x, r.id) \in LineRecs /\ Line(x, r.id).re = r.id /\ Line(x, r.id).end = "no"
    BY <1>1, Records
  <2>2. PICK x \in {"list", "tool", "error", "play"} :
          toCli' = Append(toCli, Line(x, r.id)) /\ handler = "serve" /\ UNCHANGED closed
    BY <1>3 DEF ServeList, ServeTool, ServePlay, ServeNew, Reply
  <2> QED BY <2>1, <2>2 DEF Answered, Answer
<1>4. CASE LoopPlay(r)
  <2> DEFINE l(f) == [Line("play", r.id) EXCEPT !.fight = f]
             k(e) == [Line("play", 0) EXCEPT !.end = e]
             n == Line("play", r.id)
  <2>1. \A f \in BOOLEAN : l(f) \in LineRecs /\ l(f).re = r.id /\ l(f).end = "no"
    BY <1>1 DEF Line, LineRecs, Ends
  <2>2. \A e \in {"quit", "dead"} : k(e) \in LineRecs /\ k(e).re = 0 /\ k(e).end # "no"
    BY DEF Line, LineRecs, Ends
  <2>3. n \in LineRecs /\ n.re = r.id /\ n.end = "no" BY <1>1, Records
  <2>4. \/ (\E f \in BOOLEAN : toCli' = Append(toCli, l(f))) /\ UNCHANGED closed
        \/ /\ \E e \in {"quit", "dead"} : toCli' = toCli \o <<n, k(e)>>
           /\ handler' = "gone" /\ closed' = TRUE
    BY <1>4 DEF LoopPlay, Finals, Reply
  <2>5. r.method = "game.play" BY <1>4 DEF LoopPlay
  <2> HIDE DEF l, k, n
  <2>6. CASE (\E f \in BOOLEAN : toCli' = Append(toCli, l(f))) /\ UNCHANGED closed
    BY <2>1, <2>5, <2>6 DEF Answered, Answer
  <2>7. CASE /\ \E e \in {"quit", "dead"} : toCli' = toCli \o <<n, k(e)>>
             /\ handler' = "gone" /\ closed' = TRUE
    BY <2>2, <2>3, <2>5, <2>7 DEF Announced, Answer
  <2> QED BY <2>4, <2>6, <2>7
<1>5. CASE LoopIgnores(r) BY <1>5 DEF LoopIgnores, Ignored
<1> QED BY <1>2, <1>3, <1>4, <1>5

\* A request that is answered is the last one, its call waits for it, and no
\* line lies before the answer.
LEMMA AnswersAlone ==
  ASSUME ClientInv, Running, toSrv # <<>>, NEW l, Answer(Head(toSrv), l)
  PROVE  /\ toCli = <<>> /\ Len(toSrv) = 1 /\ l.re = reqID /\ reqID # 0
         /\ \E c \in calls : c.sent /\ c.method = Head(toSrv).method
<1>1. ClientType /\ MutexInv /\ LineInv /\ StrayInv BY DEF ClientInv, TalkInv
<1>2. toSrv \in Seq(Requests) BY <1>1 DEF ClientType
<1>3. Head(toSrv) = toSrv[1] /\ 1 \in 1..Len(toSrv) BY <1>2, Taken
<1>4. Owned(1)
  <2>1. ~(toSrv[1].method \in Lists /\ handler # "serve") BY <1>3 DEF Answer, Lists
  <2> QED BY <2>1, <1>1, <1>3 DEF MutexInv
<1>5. PICK c \in calls : c.sent /\ c.method = toSrv[1].method BY <1>4 DEF Owned
<1>6. Len(toSrv) = 1 /\ l.re = reqID BY <1>3, <1>4 DEF Owned, Answer
<1>7. reqID # 0 BY <1>1, <1>5 DEF MutexInv
<1>8. ASSUME NEW i \in 1..Len(toCli) PROVE FALSE
  <2>1. toCli[i].re = 0 /\ toCli[i].end = "no" BY <1>1 DEF LineInv, MutexInv
  <2>2. Stray(toCli[i]) BY <2>1 DEF Stray
  <2>3. /\ handler # "serve"
        /\ c.method \in Lists \/ c.method = "session.init"
    BY <2>2, <1>1 DEF StrayInv
  <2> QED BY <2>3, <1>3, <1>5 DEF Answer, Lists
<1>9. toCli = <<>>
  <2>1. toCli \in Seq(LineRecs) BY <1>1 DEF ClientType
  <2>2. Len(toCli) \in Nat BY <2>1, LenProperties
  <2>3. Len(toCli) = 0 BY <2>2, <1>8
  <2> QED BY <2>1, <2>3, EmptySeq
<1> QED BY <1>3, <1>5, <1>6, <1>7, <1>9

\* The daemon serves one request.
LEMMA ServeKeeps == ASSUME ClientInv, ClientType', Serve PROVE ClientInv'
<1>1. ClientType /\ PlaceInv /\ LobbyInv /\ ~mispaired BY DEF ClientInv, AnswersPaired
<1>2. /\ toSrv # <<>> /\ toSrv' = Tail(toSrv)
      /\ UNCHANGED <<front, pc, screen, waiting, calls, msgs, reqID, mispaired>>
  BY DEF Serve, appVars, callVars
<1>3. toSrv \in Seq(Requests) /\ toCli \in Seq(LineRecs) BY <1>1 DEF ClientType
<1> DEFINE r == Head(toSrv)
<1>4. /\ r = toSrv[1] /\ r \in Requests
      /\ \A i \in 1..Len(toSrv') :
           i \in Nat /\ i # 0 /\ i + 1 \in 1..Len(toSrv) /\ toSrv'[i] = toSrv[i + 1]
      /\ Len(toSrv') = Len(toSrv) - 1
  BY <1>2, <1>3, Taken
<1>5. Ignored(r) \/ Answered(r) \/ Announced(r)
  <2>1. ServeInit(r) \/ ServeList(r) \/ ServeNew(r) \/ ServeTool(r) \/ ServePlay(r)
        \/ LoopPlay(r) \/ LoopIgnores(r)
    BY DEF Serve
  <2> HIDE DEF r
  <2> QED BY <2>1, <1>4, Served
<1>6. PlaceInv' BY <1>1, <1>2 DEF PlaceInv
<1>7. LobbyInv' BY <1>1, <1>2 DEF LobbyInv
<1>8. ASSUME Running PROVE TalkInv'
  <2>1. ResumeInv /\ MutexInv /\ LineInv /\ StrayInv BY <1>8 DEF ClientInv, TalkInv
  <2>2. ResumeInv' BY <1>2, <2>1 DEF ResumeInv
  <2>3. CASE Ignored(r)
    <3>1. UNCHANGED <<toCli, closed, handler>> /\ handler = "loop" BY <2>3 DEF Ignored
    <3>2. ~closed BY <2>1, <1>2 DEF MutexInv
    <3>3. \A i \in 1..Len(toSrv') : Owned(i)' \/ (toSrv'[i].method \in Lists /\ handler' # "serve")
      <4> TAKE i \in 1..Len(toSrv')
      <4>1. i + 1 \in 1..Len(toSrv) /\ toSrv'[i] = toSrv[i + 1] /\ i \in Nat BY <1>4
      <4>2. CASE Owned(i + 1)
        <5>1. i + 1 = Len(toSrv) /\ toSrv[i + 1].id = reqID
              /\ \E c \in calls : c.sent /\ c.method = toSrv[i + 1].method
          BY <4>2 DEF Owned
        <5>2. i = Len(toSrv') BY <4>1, <5>1, <1>4
        <5> QED BY <4>1, <5>1, <5>2, <1>2 DEF Owned
      <4>3. CASE toSrv[i + 1].method \in Lists /\ handler # "serve" BY <4>1, <4>3, <3>1
      <4> QED BY <4>1, <4>2, <4>3, <2>1 DEF MutexInv
    <3>4. MutexInv' BY <2>1, <1>2, <3>1, <3>2, <3>3 DEF MutexInv
    <3>5. LineInv' BY <2>1, <1>2, <3>1 DEF LineInv
    <3>6. StrayInv' BY <2>1, <1>2, <3>1 DEF StrayInv
    <3> QED BY <2>2, <3>4, <3>5, <3>6 DEF TalkInv
  <2>4. ASSUME NEW l \in LineRecs, Answer(r, l) PROVE
          /\ toCli = <<>> /\ toSrv' = <<>> /\ l.re = reqID /\ reqID # 0 /\ l.end = "no" /\ MutexInv'
          /\ \E c \in calls : c.sent /\ c.method = r.method
    <3>1. /\ toCli = <<>> /\ Len(toSrv) = 1 /\ l.re = reqID /\ reqID # 0
          /\ \E c \in calls : c.sent /\ c.method = r.method
      BY <1>2, <1>8, <2>4, AnswersAlone
    <3>2. toSrv' = <<>>
      <4>1. Len(toSrv') = 0 /\ toSrv' \in Seq(Requests) BY <1>4, <3>1 DEF ClientType
      <4> QED BY <4>1, EmptySeq
    <3>3. MutexInv'
      <4>1. Len(<<>>) = 0 OBVIOUS
      <4> QED BY <4>1, <3>2, <2>1, <1>2 DEF MutexInv
    <3> QED BY <3>1, <3>2, <3>3, <2>4 DEF Answer
  <2>5. CASE Answered(r)
    <3>1. PICK l \in LineRecs : Answer(r, l) /\ toCli' = Append(toCli, l) BY <2>5 DEF Answered
    <3>2. /\ toCli = <<>> /\ toSrv' = <<>> /\ l.re = reqID /\ reqID # 0 /\ l.end = "no" /\ MutexInv'
          /\ \E c \in calls : c.sent
      BY <3>1, <2>4
    <3>3. toCli' = <<l>> BY <3>1, <3>2
    <3>4. Len(toCli') = 1 /\ toCli'[1] = l BY <3>3
    <3>5. \A i \in 1..Len(toCli') : i = 1 BY <3>4
    <3>6. LineInv' BY <3>2, <3>4, <3>5, <1>2 DEF LineInv
    <3>7. StrayInv' BY <3>2, <3>4, <3>5 DEF StrayInv, Stray
    <3> QED BY <2>2, <3>2, <3>6, <3>7 DEF TalkInv
  <2>6. CASE Announced(r)
    <3>1. PICK l, k \in LineRecs :
            /\ Answer(r, l) /\ toCli' = toCli \o <<l, k>> /\ k.re = 0
            /\ \/ /\ r.method = "session.init" /\ handler' = "loop" /\ UNCHANGED closed
                  /\ l.has /\ l.kind = "init" /\ k.end = "no"
               \/ k.end # "no" /\ handler' = "gone" /\ closed' = TRUE
      BY <2>6 DEF Announced
    <3>2. /\ toCli = <<>> /\ toSrv' = <<>> /\ l.re = reqID /\ reqID # 0 /\ l.end = "no" /\ MutexInv'
          /\ \E c \in calls : c.sent /\ c.method = r.method
      BY <3>1, <2>4
    <3>3. toCli' = <<l, k>> BY <3>1, <3>2
    <3>4. Len(toCli') = 2 /\ toCli'[1] = l /\ toCli'[2] = k BY <3>3
    <3>5. \A i \in 1..Len(toCli') : i = 1 \/ i = 2 BY <3>4
    <3>6. CASE k.end # "no" /\ handler' = "gone" /\ closed' = TRUE
      <4>1. LineInv' BY <3>1, <3>2, <3>4, <3>5, <3>6, <1>2 DEF LineInv
      <4>2. StrayInv' BY <3>2, <3>4, <3>5, <3>6 DEF StrayInv, Stray
      <4> QED BY <2>2, <3>2, <4>1, <4>2 DEF TalkInv
    <3>7. CASE /\ r.method = "session.init" /\ handler' = "loop" /\ UNCHANGED closed
               /\ l.has /\ l.kind = "init" /\ k.end = "no"
      <4>1. LineInv' BY <3>1, <3>2, <3>4, <3>5, <3>7, <1>2 DEF LineInv
      <4>2. PICK c \in calls : c.sent /\ c.method = "session.init" BY <3>2, <3>7
      <4>3. /\ \A d \in calls : d.method \in Lists \/ d = c
            /\ \/ pc = "handshake"
               \/ /\ pc = "run" /\ screen = "game" /\ waiting
                  /\ \A i \in 1..Len(msgs) : Quiet(msgs[i])
        BY <4>2, <2>1 DEF ResumeInv
      <4>4. StrayInv' BY <3>2, <3>4, <3>5, <3>7, <4>2, <4>3, <1>2 DEF StrayInv, Stray
      <4> QED BY <2>2, <3>2, <4>1, <4>4 DEF TalkInv
    <3> QED BY <3>1, <3>6, <3>7
  <2> HIDE DEF r
  <2> QED BY <1>5, <2>3, <2>5, <2>6
<1> QED BY <1>1, <1>2, <1>6, <1>7, <1>8 DEF ClientInv, AnswersPaired, Running

\* The daemon stops: its last line ends the conversation.
LEMMA StopKeeps == ASSUME ClientInv, ClientType', ServerStops PROVE ClientInv'
<1>1. ClientType /\ PlaceInv /\ LobbyInv /\ ~mispaired BY DEF ClientInv, AnswersPaired
<1>2. /\ closed' = TRUE /\ handler' = "gone" /\ toSrv' = <<>>
      /\ UNCHANGED <<front, pc, screen, waiting, calls, msgs, reqID, mispaired>>
  BY DEF ServerStops, appVars, callVars
<1>3. \A i \in 1..Len(toCli') :
        \/ i \in 1..Len(toCli) /\ toCli'[i] = toCli[i]
        \/ toCli'[i].re = 0 /\ toCli'[i].end # "no"
  <2>1. CASE toCli' = toCli BY <2>1
  <2>2. CASE toCli' # toCli
    <3> DEFINE l == [Line("play", 0) EXCEPT !.end = "quit"]
    <3>1. l \in LineRecs /\ l.re = 0 /\ l.end = "quit" BY DEF Line, LineRecs, Ends
    <3>2. toCli' = Append(toCli, l) /\ toCli \in Seq(LineRecs)
      BY <2>2, <1>1 DEF ServerStops, Reply, ClientType
    <3> HIDE DEF l
    <3> QED BY <3>1, <3>2, Added
  <2> QED BY <2>1, <2>2
<1>4. PlaceInv' BY <1>1, <1>2 DEF PlaceInv
<1>5. LobbyInv' BY <1>1, <1>2 DEF LobbyInv
<1>6. ASSUME Running PROVE TalkInv'
  <2>1. ResumeInv /\ MutexInv /\ LineInv /\ StrayInv BY <1>6 DEF ClientInv, TalkInv
  <2>2. ResumeInv' BY <1>2, <2>1 DEF ResumeInv
  <2>3. Len(<<>>) = 0 OBVIOUS
  <2>4. MutexInv' BY <1>2, <2>1, <2>3 DEF MutexInv
  <2>5. LineInv' BY <1>2, <1>3, <2>1 DEF LineInv
  <2>6. ASSUME NEW i \in 1..Len(toCli'), Stray(toCli'[i])
        PROVE  i \in 1..Len(toCli) /\ Stray(toCli[i]) /\ (i = 2 => toCli'[1] = toCli[1])
    <3>1. i \in 1..Len(toCli) /\ toCli'[i] = toCli[i] BY <1>3, <2>6 DEF Stray
    <3>2. Len(toCli) \in Nat /\ Len(toCli') \in Nat BY <1>1, LenProperties DEF ClientType
    <3>3. ASSUME i = 2 PROVE toCli'[1] = toCli[1]
      <4>1. 1 \in 1..Len(toCli) /\ 1 \in 1..Len(toCli') BY <3>1, <3>2, <3>3
      <4>2. CASE toCli' = toCli BY <4>2
      <4>3. CASE toCli' # toCli
        <5>1. toCli \in Seq(LineRecs) /\ [Line("play", 0) EXCEPT !.end = "quit"] \in LineRecs
          BY <1>1 DEF ClientType, Line, LineRecs, Ends
        <5>2. toCli' = Append(toCli, [Line("play", 0) EXCEPT !.end = "quit"])
          BY <4>3 DEF ServerStops, Reply
        <5> QED BY <5>1, <5>2, <4>1, AppendProperties
      <4> QED BY <4>2, <4>3
    <3> QED BY <3>1, <3>3, <2>6
  <2>7. StrayInv'
    <3> SUFFICES ASSUME NEW i \in 1..Len(toCli'), Stray(toCli'[i])
                 PROVE  /\ pc \in {"handshake", "resume", "run"}
                        /\ \A c \in calls : c.method \in Lists \/ (c.method = "session.init" /\ c.sent)
                        /\ (\E c \in calls : c.method = "session.init") =>
                              i = 2 /\ toCli'[1].re # 0 /\ toCli'[1].has /\ toCli'[1].kind # "error"
                        /\ (\A c \in calls : c.method # "session.init") => i = 1
                        /\ pc = "handshake" /\ calls = {} =>
                              msgs[1].kind = "SessionInitDone" /\ msgs[1].has
                        /\ pc = "run" =>
                              screen = "game" /\ waiting /\ \A j \in 1..Len(msgs) : Quiet(msgs[j])
      BY <1>2 DEF StrayInv
    <3>1. i \in 1..Len(toCli) /\ Stray(toCli[i]) /\ (i = 2 => toCli'[1] = toCli[1]) BY <2>6
    <3> QED BY <3>1, <2>1 DEF StrayInv
  <2> QED BY <2>2, <2>4, <2>5, <2>7 DEF TalkInv
<1> QED BY <1>1, <1>2, <1>4, <1>5, <1>6 DEF ClientInv, AnswersPaired, Running

-----------------------------------------------------------------------------
(* The theorems.                                                           *)

\* The client begins with the handshake's call alone.
LEMMA ClientInit == Init => ClientInv
<1> SUFFICES ASSUME Init PROVE ClientInv OBVIOUS
<1> DEFINE c == Call("session.init")
<1>1. c \in CallRecs /\ c.method = "session.init" /\ ~c.sent BY Records DEF Methods
<1>2. /\ calls = {c} /\ msgs = <<>> /\ reqID = 0 /\ pc = "handshake" /\ screen = "none"
      /\ toSrv = <<>> /\ toCli = <<>> /\ closed = FALSE /\ handler = "serve" /\ acts = 0
      /\ mispaired = FALSE /\ opening = "none"
  BY DEF Init
<1> HIDE DEF c
<1>3. Len(<<>>) = 0 OBVIOUS
<1>4. ClientType
  <2>1. <<>> \in Seq(MsgRecs) /\ <<>> \in Seq(Requests) /\ <<>> \in Seq(LineRecs) OBVIOUS
  <2> QED BY <1>1, <1>2, <2>1 DEF ClientType
<1>5. PlaceInv BY <1>1, <1>2 DEF PlaceInv
<1>6. LobbyInv /\ AnswersPaired BY <1>2 DEF LobbyInv, AnswersPaired
<1>7. ResumeInv BY <1>1, <1>2, <1>3 DEF ResumeInv
<1>8. MutexInv BY <1>1, <1>2, <1>3 DEF MutexInv
<1>9. LineInv /\ StrayInv BY <1>2, <1>3 DEF LineInv, StrayInv
<1> QED BY <1>4, <1>5, <1>6, <1>7, <1>8, <1>9 DEF ClientInv, TalkInv

\* Every step of client and daemon keeps the invariant.
LEMMA ClientStep == ClientInv /\ [Next]_vars => ClientInv'
<1> SUFFICES ASSUME ClientInv, [Next]_vars PROVE ClientInv' OBVIOUS
<1>1. ClientType' BY TypeStep DEF ClientInv
<1>2. CASE Send
  <2>1. PICK c \in calls : Write(c) \/ Read(c) BY <1>2 DEF Send
  <2>2. Running /\ UNCHANGED <<front, opts, pc, appVars, menuVars>> BY <1>2 DEF Send
  <2> QED BY <1>1, <2>1, <2>2, WriteKeeps, ReadEndKeeps, ReadLineKeeps
<1>3. CASE HandshakeDone BY <1>1, <1>3, HandshakeKeeps
<1>4. CASE ResumeRead BY <1>1, <1>4, ResumeReadKeeps
<1>5. CASE BeginTUI BY <1>1, <1>5, BeginTUIKeeps
<1>6. CASE BeginCLI \/ HandleLine \/ LineAnswered \/ BeginMCP \/ ToolCall \/ ToolAnswered
  BY <1>1, <1>6, LineKeeps
<1>7. CASE Update BY <1>1, <1>7, UpdateKeeps
<1>8. CASE Key BY <1>1, <1>8, KeyKeeps
<1>9. CASE Leave
  <2>1. pc \in {"run", "tools"} /\ pc' = "exited" /\ UNCHANGED <<front, screen, calls, msgs, mispaired>>
    BY <1>9 DEF Leave, appVars, callVars
  <2>2. PlaceInv /\ LobbyInv /\ AnswersPaired BY DEF ClientInv
  <2>3. PlaceInv' BY <2>1, <2>2 DEF PlaceInv
  <2>4. LobbyInv' /\ AnswersPaired' BY <2>1, <2>2 DEF LobbyInv, AnswersPaired
  <2> QED BY <1>1, <2>1, <2>3, <2>4 DEF ClientInv, Running
<1>10. CASE Serve BY <1>1, <1>10, ServeKeeps
<1>11. CASE ServerStops BY <1>1, <1>11, StopKeeps
<1>12. CASE UNCHANGED vars
  <2>1. UNCHANGED <<front, pc, screen, waiting, calls, msgs, reqID, mispaired, toSrv, toCli,
                    closed, handler>>
    BY <1>12 DEF vars, appVars, callVars, connVars
  <2>2. PlaceInv' /\ LobbyInv' /\ AnswersPaired'
    BY <2>1 DEF ClientInv, PlaceInv, LobbyInv, AnswersPaired
  <2>3. ASSUME Running PROVE TalkInv'
    <3>1. ResumeInv /\ MutexInv /\ LineInv /\ StrayInv BY <2>3 DEF ClientInv, TalkInv
    <3>2. ResumeInv' BY <2>1, <3>1 DEF ResumeInv
    <3>3. MutexInv' BY <2>1, <3>1 DEF MutexInv, Owned
    <3>4. LineInv' BY <2>1, <3>1 DEF LineInv
    <3>5. StrayInv' BY <2>1, <3>1 DEF StrayInv
    <3> QED BY <3>2, <3>3, <3>4, <3>5 DEF TalkInv
  <2> QED BY <1>1, <2>1, <2>2, <2>3 DEF ClientInv, Running
<1> QED BY <1>2, <1>3, <1>4, <1>5, <1>6, <1>7, <1>8, <1>9, <1>10, <1>11, <1>12
        DEF Next, Progress

\* The conversation between client and daemon is always in order: one call
\* between write and read, an answer read by its call, and an announcement
\* that no command can take for its answer (send, the handshakes, App.Update,
\* the daemon's handler and game loop).
THEOREM ClientSafe == Spec => []ClientInv
<1> QED BY ClientInit, ClientStep, PTL DEF Spec

\* A call of session.init, game.new, game.play or a tool never takes the
\* answer of another one.
THEOREM AlwaysPaired == Spec => []AnswersPaired
<1>1. ClientInv => AnswersPaired BY DEF ClientInv
<1> QED BY <1>1, ClientSafe, PTL

-----------------------------------------------------------------------------
(* One command at a time.                                                  *)

Command(c) == c.method \notin Lists
Awaited(m) == m.kind \in {"GameStart", "ServerResponse", "ServerErr", "SessionInitDone"}

\* In the game there is one command, or one message with its result, or
\* neither; with either the UI waits, or the message that will make it wait
\* is still the next to be taken.
CommandInv ==
  screen = "game" /\ ~overtaken =>
    /\ \A c, d \in calls : Command(c) /\ Command(d) => c = d
    /\ \A i, j \in 1..Len(msgs) : Awaited(msgs[i]) /\ Awaited(msgs[j]) => i = j
    /\ \A c \in calls, i \in 1..Len(msgs) : ~(Command(c) /\ Awaited(msgs[i]))
    /\ \A c \in calls : Command(c) => waiting \/ opening # "none"
    /\ \A i \in 1..Len(msgs) : Awaited(msgs[i]) => waiting \/ opening # "none"

\* Commands and results may become fewer, as long as the UI goes on waiting.
LEMMA Fewer ==
  ASSUME CommandInv, screen = "game", ~overtaken' => ~overtaken,
         \A c \in calls' : Command(c) => c \in calls,
         \A j \in 1..Len(msgs') : Awaited(msgs'[j]) =>
           \E k \in 1..Len(msgs) : msgs'[j] = msgs[k],
         \A j, l \in 1..Len(msgs') : j # l /\ Awaited(msgs'[j]) /\ Awaited(msgs'[l]) =>
           \E k, m \in 1..Len(msgs) : k # m /\ msgs'[j] = msgs[k] /\ msgs'[l] = msgs[m],
         (waiting \/ opening # "none") => (waiting' \/ opening' # "none") \/ overtaken'
  PROVE  CommandInv'
<1> SUFFICES ASSUME ~overtaken'
             PROVE  /\ \A c, d \in calls' : Command(c) /\ Command(d) => c = d
                    /\ \A i, j \in 1..Len(msgs') : Awaited(msgs'[i]) /\ Awaited(msgs'[j]) => i = j
                    /\ \A c \in calls', i \in 1..Len(msgs') : ~(Command(c) /\ Awaited(msgs'[i]))
                    /\ \A c \in calls' : Command(c) => waiting' \/ opening' # "none"
                    /\ \A i \in 1..Len(msgs') : Awaited(msgs'[i]) => waiting' \/ opening' # "none"
  BY DEF CommandInv, Awaited, Command
<1>1. /\ \A c, d \in calls : Command(c) /\ Command(d) => c = d
      /\ \A i, j \in 1..Len(msgs) : Awaited(msgs[i]) /\ Awaited(msgs[j]) => i = j
      /\ \A c \in calls, i \in 1..Len(msgs) : ~(Command(c) /\ Awaited(msgs[i]))
      /\ \A c \in calls : Command(c) => waiting \/ opening # "none"
      /\ \A i \in 1..Len(msgs) : Awaited(msgs[i]) => waiting \/ opening # "none"
  BY DEF CommandInv
<1>2. \A c, d \in calls' : Command(c) /\ Command(d) => c = d BY <1>1
<1>3. \A i, j \in 1..Len(msgs') : Awaited(msgs'[i]) /\ Awaited(msgs'[j]) => i = j BY <1>1
<1>4. \A c \in calls', i \in 1..Len(msgs') : ~(Command(c) /\ Awaited(msgs'[i])) BY <1>1
<1>5. \A c \in calls' : Command(c) => waiting' \/ opening' # "none" BY <1>1
<1>6. \A i \in 1..Len(msgs') : Awaited(msgs'[i]) => waiting' \/ opening' # "none" BY <1>1
<1> QED BY <1>2, <1>3, <1>4, <1>5, <1>6

\* A message that is no result is put behind the others.
LEMMA MoreMessages ==
  ASSUME ClientType, NEW m \in MsgRecs, ~Awaited(m), msgs' = Append(msgs, m)
  PROVE  /\ \A j \in 1..Len(msgs') : Awaited(msgs'[j]) =>
              \E k \in 1..Len(msgs) : msgs'[j] = msgs[k]
         /\ \A j, l \in 1..Len(msgs') : j # l /\ Awaited(msgs'[j]) /\ Awaited(msgs'[l]) =>
              \E k, n \in 1..Len(msgs) : k # n /\ msgs'[j] = msgs[k] /\ msgs'[l] = msgs[n]
<1>1. \A i \in 1..Len(msgs') : \/ i \in 1..Len(msgs) /\ msgs'[i] = msgs[i]
                               \/ msgs'[i] = m
  BY Added DEF ClientType
<1> QED BY <1>1

\* Sending and reading: a command becomes its result.
LEMMA SendCommands == ASSUME ClientInv, CommandInv, Send PROVE CommandInv'
<1>1. PICK c \in calls : Write(c) \/ Read(c) BY DEF Send
<1>2. ClientType /\ c \in CallRecs /\ msgs \in Seq(MsgRecs) /\ reqID \in Nat
  BY DEF ClientInv, ClientType
<1>3. UNCHANGED <<screen, waiting, opening, overtaken>>
  BY <1>1 DEF Send, Write, Read, appVars, noteVars
<1> SUFFICES ASSUME screen = "game", ~overtaken PROVE CommandInv' BY <1>3 DEF CommandInv
<1> DEFINE lost == Msg("ConnLost")
<1>4. lost \in MsgRecs /\ ~Awaited(lost) BY Records DEF Kinds, LobbyKinds, Awaited
<1>5. CASE calls' = calls \ {c} /\ msgs' = Append(msgs, lost)
  <2> HIDE DEF lost
  <2>1. /\ \A j \in 1..Len(msgs') : Awaited(msgs'[j]) =>
             \E k \in 1..Len(msgs) : msgs'[j] = msgs[k]
        /\ \A j, l \in 1..Len(msgs') : j # l /\ Awaited(msgs'[j]) /\ Awaited(msgs'[l]) =>
             \E k, n \in 1..Len(msgs) : k # n /\ msgs'[j] = msgs[k] /\ msgs'[l] = msgs[n]
    BY <1>2, <1>4, <1>5, MoreMessages
  <2>2. \A d \in calls' : Command(d) => d \in calls BY <1>5
  <2> QED BY <2>1, <2>2, <1>3, Fewer
<1>6. CASE Write(c) /\ msgs' = msgs
  <2> DEFINE d == [c EXCEPT !.sent = TRUE, !.id = reqID + 1]
  <2>1. d.method = c.method BY <1>2, SentCall
  <2>2. calls' = (calls \ {c}) \cup {d} \/ msgs' = Append(msgs, lost) BY <1>6 DEF Write
  <2>3. msgs # Append(msgs, lost)
    <3> HIDE DEF lost
    <3>1. Len(Append(msgs, lost)) = Len(msgs) + 1 /\ Len(msgs) \in Nat
      BY <1>2, <1>4, AppendProperties, LenProperties
    <3> QED BY <3>1
  <2> HIDE DEF d, lost
  <2>4. calls' = (calls \ {c}) \cup {d} BY <2>2, <2>3, <1>6
  <2> QED BY <2>1, <2>4, <1>3, <1>6 DEF CommandInv, Command
<1>7. CASE Read(c) /\ toCli # <<>>
  <2> DEFINE m == Result(c, Head(toCli))
  <2>1. Head(toCli) \in LineRecs BY <1>2, <1>7, HeadTailProperties DEF ClientType
  <2>2. m \in MsgRecs /\ (c.method \in Lists => m.kind \in LobbyKinds) BY <1>2, <2>1, Results
  <2>3. calls' = calls \ {c} /\ msgs' = Append(msgs, m) BY <1>7 DEF Read
  <2> HIDE DEF m
  <2>4. CASE ~Awaited(m)
    <3>1. /\ \A j \in 1..Len(msgs') : Awaited(msgs'[j]) =>
               \E k \in 1..Len(msgs) : msgs'[j] = msgs[k]
          /\ \A j, l \in 1..Len(msgs') : j # l /\ Awaited(msgs'[j]) /\ Awaited(msgs'[l]) =>
               \E k, n \in 1..Len(msgs) : k # n /\ msgs'[j] = msgs[k] /\ msgs'[l] = msgs[n]
      BY <1>2, <2>2, <2>3, <2>4, MoreMessages
    <3>2. \A d \in calls' : Command(d) => d \in calls BY <2>3
    <3> QED BY <3>1, <3>2, <1>3, Fewer
  <2>5. CASE Awaited(m)
    <3>1. Command(c) BY <2>2, <2>5 DEF Awaited, LobbyKinds, Command
    <3>2. /\ \A d \in calls : Command(d) => c = d
          /\ \A i \in 1..Len(msgs) : ~Awaited(msgs[i])
          /\ waiting \/ opening # "none"
      BY <3>1 DEF CommandInv
    <3>3. \A d \in calls' : ~Command(d) BY <3>2, <2>3
    <3>4. \A i \in 1..Len(msgs') : Awaited(msgs'[i]) => i = Len(msgs) + 1
      BY <2>2, <2>3, <1>2, <3>2, Added
    <3> QED BY <3>2, <3>3, <3>4, <1>3 DEF CommandInv
  <2> QED BY <2>4, <2>5
<1>8. Write(c) => msgs' = msgs \/ (calls' = calls \ {c} /\ msgs' = Append(msgs, lost)) BY DEF Write
<1>9. Read(c) /\ toCli = <<>> => calls' = calls \ {c} /\ msgs' = Append(msgs, lost) BY DEF Read
<1> QED BY <1>1, <1>5, <1>6, <1>7, <1>8, <1>9

\* Taking a message: a result is the only one and no command is under way; a
\* command is sent only when there is neither.
LEMMA UpdateCommands == ASSUME ClientInv, CommandInv, Update PROVE CommandInv'
<1>1. ClientType /\ LobbyInv /\ msgs \in Seq(MsgRecs) BY DEF ClientInv, ClientType
<1>2. PICK i \in 1..Len(msgs) :
        /\ msgs' = RemoveAt(msgs, i)
        /\ overtaken' = (overtaken \/ opening \notin {"none", msgs[i].kind})
        /\ opening' = IF msgs[i].kind = opening THEN "none" ELSE opening
        /\ UpdateLobby(msgs[i]) \/ UpdateCreation(msgs[i]) \/ UpdateGame(msgs[i])
  BY <1>1 DEF Update
<1> DEFINE m == msgs[i]
<1>3. /\ \A j \in 1..Len(msgs') : \E k \in 1..Len(msgs) : k # i /\ msgs'[j] = msgs[k]
      /\ \A j, l \in 1..Len(msgs') : j # l =>
           \E k, n \in 1..Len(msgs) :
             k # n /\ k # i /\ n # i /\ msgs'[j] = msgs[k] /\ msgs'[l] = msgs[n]
  <2>1. msgs \in Seq(MsgRecs) /\ msgs' = RemoveAt(msgs, i) BY <1>1, <1>2
  <2>2. \A j \in 1..Len(msgs') : \E k \in 1..Len(msgs) : k # i /\ msgs'[j] = msgs[k]
    BY <2>1, Left, SMTT(20)
  <2>3. \A j, l \in 1..Len(msgs') : j # l =>
           \E k, n \in 1..Len(msgs) :
             k # n /\ k # i /\ n # i /\ msgs'[j] = msgs[k] /\ msgs'[l] = msgs[n]
    <3>1. Apart(msgs', msgs, i) BY <2>1, Left
    <3> QED BY <3>1 DEF Apart
  <2> QED BY <2>2, <2>3
<1>4. CASE UpdateLobby(m) \/ UpdateCreation(m)
  <2>1. /\ \A c \in calls : ~Command(c)
        /\ \A j \in 1..Len(msgs) : msgs[j].kind \in LobbyKinds
    BY <1>1, <1>4 DEF LobbyInv, UpdateLobby, UpdateCreation, Command
  <2>2. \A j \in 1..Len(msgs') : ~Awaited(msgs'[j]) BY <2>1, <1>3 DEF Awaited, LobbyKinds
  <2>3. \/ screen' # "game"
        \/ waiting' /\ \E k \in {"session.init", "game.new"} : calls' = calls \cup {Call(k)}
    <3>1. CASE UpdateLobby(m)
      <4>1. CASE m.kind = "ResumeSession"
        <5>1. waiting' /\ calls' = calls \cup {Call("session.init")} BY <3>1, <4>1 DEF UpdateLobby
        <5> QED BY <5>1
      <4>2. CASE m.kind # "ResumeSession" BY <3>1, <4>2 DEF UpdateLobby
      <4> QED BY <4>1, <4>2
    <3>2. CASE UpdateCreation(m) BY <3>2 DEF UpdateCreation
    <3> QED BY <1>4, <3>1, <3>2
  <2> QED BY <2>1, <2>2, <2>3 DEF CommandInv
<1>5. CASE UpdateGame(m)
  <2>1. screen = "game" /\ screen' = "game" BY <1>5 DEF UpdateGame
  <2> SUFFICES ASSUME ~overtaken' PROVE CommandInv' BY DEF CommandInv
  <2>2. ~overtaken /\ (opening = "none" \/ m.kind = opening) BY <1>2
  <2>3. CASE Awaited(m)
    <3>1. /\ \A c \in calls : ~Command(c)
          /\ \A j \in 1..Len(msgs) : Awaited(msgs[j]) => i = j
      BY <2>1, <2>2, <2>3 DEF CommandInv
    <3>2. calls' = calls
      BY <1>5, <2>3 DEF UpdateGame, Awaited, GotSession, GotStart, GotResponse, GotError, GotLost,
                        GotLoading, GotSendCmd, GotOther
    <3>3. \A j \in 1..Len(msgs') : ~Awaited(msgs'[j]) BY <3>1, <1>3
    <3> QED BY <3>1, <3>2, <3>3 DEF CommandInv
  <2>4. CASE GotSendCmd(m) /\ ~(dead \/ waiting)
    <3>1. waiting' /\ calls' = calls \cup {Call("game.play")} /\ m.kind = "SendCmd"
      BY <2>4 DEF GotSendCmd
    <3>2. opening = "none" BY <3>1, <2>2, <1>1 DEF ClientType
    <3>3. /\ \A c \in calls : ~Command(c)
          /\ \A j \in 1..Len(msgs) : ~Awaited(msgs[j])
      BY <3>2, <2>1, <2>2, <2>4 DEF CommandInv
    <3>4. \A j \in 1..Len(msgs') : ~Awaited(msgs'[j]) BY <3>3, <1>3
    <3> QED BY <3>1, <3>3, <3>4 DEF CommandInv
  <2>5. CASE ~Awaited(m) /\ ~(GotSendCmd(m) /\ ~(dead \/ waiting))
    <3>1. GotLost(m) \/ GotLoading(m) \/ GotSendCmd(m) \/ GotOther(m)
      BY <1>5, <2>5 DEF UpdateGame, Awaited, GotSession, GotStart, GotResponse, GotError
    <3>2. calls' = calls /\ (waiting => waiting') /\ (m.kind = "Loading" => waiting')
      BY <3>1, <2>5 DEF GotLost, GotLoading, GotSendCmd, GotOther
    <3>3. (waiting \/ opening # "none") => (waiting' \/ opening' # "none")
      <4>1. CASE opening = "none" BY <4>1, <3>2
      <4>2. CASE m.kind = opening /\ opening # "none"
        <5>1. m.kind = "Loading" BY <4>2, <2>5, <1>1 DEF ClientType, Awaited
        <5> QED BY <5>1, <3>2
      <4> QED BY <4>1, <4>2, <2>2
    <3>4. \A c \in calls' : Command(c) => c \in calls BY <3>2
    <3>5. \A j \in 1..Len(msgs') : Awaited(msgs'[j]) =>
            \E k \in 1..Len(msgs) : msgs'[j] = msgs[k]
      BY <1>3
    <3>6. \A j, l \in 1..Len(msgs') : j # l /\ Awaited(msgs'[j]) /\ Awaited(msgs'[l]) =>
            \E k, n \in 1..Len(msgs) : k # n /\ msgs'[j] = msgs[k] /\ msgs'[l] = msgs[n]
      BY <1>3
    <3> QED BY <2>1, <2>2, <3>3, <3>4, <3>5, <3>6, Fewer
  <2> QED BY <2>3, <2>4, <2>5
<1> HIDE DEF m
<1> QED BY <1>2, <1>4, <1>5 DEF m

\* Keys send no command themselves.
LEMMA KeyCommands == ASSUME ClientInv, CommandInv, Key PROVE CommandInv'
<1>1. ClientType /\ UNCHANGED <<calls, opening, overtaken, waiting>>
  BY DEF ClientInv, Key, KeyLobby, KeyCreation, KeyGame, appVars
<1>2. screen' = "game" => screen = "game"
  BY DEF Key, KeyLobby, KeyCreation, KeyGame, appVars
<1> SUFFICES ASSUME screen = "game" PROVE CommandInv' BY <1>2 DEF CommandInv
<1>3. msgs' = msgs \/ Decide("SendCmd") BY DEF Key, KeyLobby, KeyCreation, KeyGame
<1>4. CASE msgs' = msgs BY <1>1, <1>4 DEF CommandInv
<1>5. CASE Decide("SendCmd")
  <2> DEFINE n == Msg("SendCmd")
  <2>1. n \in MsgRecs /\ ~Awaited(n) BY Records DEF Kinds, Awaited
  <2>2. msgs' = Append(msgs, n) BY <1>5 DEF Decide
  <2> HIDE DEF n
  <2>3. /\ \A j \in 1..Len(msgs') : Awaited(msgs'[j]) =>
             \E k \in 1..Len(msgs) : msgs'[j] = msgs[k]
        /\ \A j, l \in 1..Len(msgs') : j # l /\ Awaited(msgs'[j]) /\ Awaited(msgs'[l]) =>
             \E k, q \in 1..Len(msgs) : k # q /\ msgs'[j] = msgs[k] /\ msgs'[l] = msgs[q]
    BY <1>1, <2>1, <2>2, MoreMessages
  <2> QED BY <2>3, <1>1, Fewer
<1> QED BY <1>3, <1>4, <1>5

\* The UI opens with at most one command or result.
LEMMA BeginCommands == ASSUME BeginTUI PROVE CommandInv'
<1>1. CASE lastResp # "none"
  <2> DEFINE n == [Msg("GameStart") EXCEPT !.fight = (lastResp = "fight")]
  <2>1. calls' = {} /\ msgs' = <<n>> /\ opening' = "GameStart" BY <1>1 DEF BeginTUI
  <2> HIDE DEF n
  <2>2. Len(msgs') = 1 BY <2>1
  <2>3. \A i \in 1..Len(msgs') : i = 1 BY <2>2
  <2> QED BY <2>1, <2>3 DEF CommandInv
<1>2. CASE lastResp = "none" /\ opts.scenario
  <2> DEFINE n == Msg("Loading")
  <2>1. calls' = {Call("game.new")} /\ msgs' = <<n>> /\ opening' = "Loading" BY <1>2 DEF BeginTUI
  <2>2. ~Awaited(n) BY Records DEF Kinds, Awaited
  <2> HIDE DEF n
  <2>3. Len(msgs') = 1 /\ msgs'[1] = n BY <2>1
  <2>4. \A i \in 1..Len(msgs') : ~Awaited(msgs'[i]) BY <2>2, <2>3
  <2> QED BY <2>1, <2>4 DEF CommandInv
<1>3. CASE lastResp = "none" /\ ~opts.scenario BY <1>3 DEF BeginTUI, CommandInv
<1> QED BY <1>1, <1>2, <1>3

\* The terminal UI never has two commands under way, and waits while it has
\* one (App.Update, SendCmdMsg, InputBar and the combat hotkeys).
THEOREM OneCommand == Spec => []OneCommandAtATime
<1>1. Init => CommandInv BY DEF Init, CommandInv
<1>2. ClientInv /\ CommandInv /\ [Next]_vars => CommandInv'
  <2> SUFFICES ASSUME ClientInv, CommandInv, [Next]_vars PROVE CommandInv' OBVIOUS
  <2>1. CASE Send BY <2>1, SendCommands
  <2>2. CASE Update BY <2>2, UpdateCommands
  <2>3. CASE Key BY <2>3, KeyCommands
  <2>4. CASE BeginTUI BY <2>4, BeginCommands
  <2>5. CASE HandshakeDone \/ ResumeRead \/ BeginCLI \/ BeginMCP \/ LineAnswered \/ ToolAnswered
             \/ HandleLine \/ ToolCall
    <3>1. screen' = screen /\ pc \notin {"run", "exited"}
      BY <2>5 DEF HandshakeDone, ResumeRead, BeginCLI, BeginMCP, LineAnswered, ToolAnswered,
                  HandleLine, ToolCall, appVars
    <3>2. screen = "none" BY <3>1 DEF ClientInv, PlaceInv
    <3> QED BY <3>1, <3>2 DEF CommandInv
  <2>6. CASE Leave \/ Serve \/ ServerStops \/ UNCHANGED vars
    <3>1. UNCHANGED <<screen, waiting, calls, msgs, opening, overtaken>>
      BY <2>6 DEF Leave, Serve, ServerStops, vars, appVars, callVars, noteVars
    <3> QED BY <3>1, <2>6 DEF CommandInv
  <2> QED BY <2>1, <2>2, <2>3, <2>4, <2>5, <2>6 DEF Next, Progress
<1>3. CommandInv => OneCommandAtATime BY DEF CommandInv, OneCommandAtATime, Command
<1> QED BY <1>1, <1>2, <1>3, ClientSafe, PTL DEF Spec
=============================================================================
