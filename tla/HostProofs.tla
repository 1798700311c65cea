----------------------------- MODULE HostProofs -----------------------------
(***************************************************************************)
(* Proofs about Saves and Host, for any number of games, slots, states,    *)
(* documents, daemons and clients.                                         *)
(***************************************************************************)
EXTENDS Host, SequenceTheorems, TLAPS

-----------------------------------------------------------------------------
(* The inductive invariant of the save files.                              *)

Content == Seq(Pieces)
Busy == [do : {"read", "write"}, slot : Slots]

SavesType ==
  /\ file \in [Slots -> Content \cup {Absent}]
  /\ game \in [Games -> States] /\ \A g \in Games : game[g] \in Own(g)
  /\ op \in [Games -> {Idle} \cup Busy]
  /\ buf \in [Games -> Content] /\ room \in [Games -> Nat]
  /\ last \in [Slots -> States \cup {Absent}]
  /\ sound \in [Slots -> BOOLEAN]
  /\ seen \in [Games -> SUBSET (States \cup {Absent})]
  /\ saves \in [Games -> {0, 1, 2}]

\* Nobody removes a file.
FilesStay == \A g \in Games : op[g] # Idle => file[op[g].slot] # Absent

\* The file of slot s is the document of its last save.
Holds(s) ==
  \/ last[s] = Absent /\ file[s] = Absent
  \/ last[s] \in States /\ file[s] = Doc[last[s]]

\* A sound slot is at rest with its last save, or its only writer has just
\* emptied it.
SoundInv ==
  \A s \in Slots : sound[s] =>
    \/ Writers(s) = {} /\ Holds(s)
    \/ \E g \in Games : Writers(s) = {g} /\ file[s] = <<>>

\* The sequence b is the beginning of c.
Begins(b, c) == Len(b) <= Len(c) /\ \A i \in 1..Len(b) : b[i] = c[i]

\* A load beside no save has the file it found, or has not read it yet; its
\* first read takes all of it.
Calm(g) ==
  LET s == op[g].slot IN
  /\ sound[s] /\ Writers(s) = {}
  /\ \E v \in States : /\ seen[g] = {v} /\ file[s] = Doc[v]
                       /\ buf[g] \in {<<>>, Doc[v]} /\ room[g] > Len(Doc[v])

\* The one save beside a load is that of state w; it has not written yet, or
\* the file is what it has written.
Saved(s, w) ==
  \/ \E h \in Games : Writers(s) = {h} /\ game[h] = w /\ file[s] = <<>>
  \/ Writers(s) = {} /\ Begins(file[s], Doc[w])

\* A load beside one save has read nothing but of that save's document, or had
\* read all of the old one before.
OneSave(g) ==
  \E w \in States \cap seen[g] :
    /\ Saved(op[g].slot, w)
    /\ \/ Begins(buf[g], Doc[w])
       \/ \E v \in States \cap seen[g] : Begins(Doc[v], buf[g])

ReaderOK(g) ==
  op[g].do = "read" =>
    room[g] > Len(buf[g]) /\ (saves[g] = 0 => Calm(g)) /\ (saves[g] = 1 => OneSave(g))
ReaderInv == \A g \in Games : ReaderOK(g)

SavesInv == SavesType /\ FilesStay /\ SoundInv /\ ReaderInv

-----------------------------------------------------------------------------
(* Documents and what a write makes of a file.                             *)

\* A document is a sequence of pieces and is not empty.
LEMMA DocType ==
  ASSUME NEW v \in States
  PROVE  Doc[v] \in Content /\ Doc[v] # <<>> /\ Len(Doc[v]) \in Nat \ {0}
<1>1. Doc[v] \in Seq(Pieces) /\ Doc[v] # <<>> BY SavesAssumption
<1>2. Len(Doc[v]) \in Nat /\ Len(Doc[v]) # 0 BY <1>1, EmptySeq
<1> QED BY <1>1, <1>2 DEF Content

\* No document begins another.
LEMMA PrefixFree ==
  ASSUME NEW v \in States, NEW w \in States, Begins(Doc[v], Doc[w])
  PROVE  v = w
<1> DEFINE d == Doc[v]
           e == Doc[w]
<1>1. d \in Seq(Pieces) /\ e \in Seq(Pieces) BY SavesAssumption
<1>2. Len(d) <= Len(e) /\ \A i \in 1..Len(d) : d[i] = e[i] BY DEF Begins
<1> HIDE DEF d, e
<1>3. SubSeq(d, 1, Len(d)) = SubSeq(e, 1, Len(d))
  <2>1. Len(d) \in Nat /\ Len(e) \in Nat BY <1>1
  <2>2. SubSeq(d, 1, Len(d)) = [i \in 1..Len(d) |-> d[i]] BY <1>1, <2>1
  <2>3. SubSeq(e, 1, Len(d)) = [i \in 1..Len(d) |-> e[i]] BY <1>1, <1>2, <2>1
  <2> QED BY <1>2, <2>2, <2>3
<1>4. IsPrefix(d, e) BY <1>2, <1>3 DEF IsPrefix
<1> QED BY <1>4, SavesAssumption DEF d, e

\* Unmarshal accepts the document of a state as that state, and nothing else.
LEMMA Decoded ==
  ASSUME NEW c
  PROVE  /\ \A v \in States : c = Doc[v] => Decode(c) = v
         /\ Decode(c) \in States => c = Doc[Decode(c)]
<1>1. ASSUME NEW v \in States, c = Doc[v] PROVE Decode(c) = v
  <2>1. Decode(c) = CHOOSE w \in States : c = Doc[w] BY <1>1 DEF Decode
  <2>2. Decode(c) \in States /\ c = Doc[Decode(c)] BY <1>1, <2>1
  <2>3. Begins(Doc[v], Doc[Decode(c)])
    <3>1. Doc[v] = Doc[Decode(c)] /\ Len(Doc[v]) \in Nat BY <1>1, <2>2, DocType
    <3> QED BY <3>1 DEF Begins
  <2> QED BY <2>2, <2>3, PrefixFree
<1>2. ASSUME Decode(c) \in States PROVE c = Doc[Decode(c)]
  <2>1. CASE \E v \in States : c = Doc[v] BY <1>1, <2>1
  <2>2. CASE ~\E v \in States : c = Doc[v]
    <3>1. Decode(c) = Lost BY <2>2 DEF Decode
    <3> QED BY <1>2, <3>1, SavesAssumption
  <2> QED BY <2>1, <2>2
<1> QED BY <1>1, <1>2

\* The first k pieces of a document.
LEMMA Beginning ==
  ASSUME NEW d \in Content, NEW k \in 0..Len(d)
  PROVE  /\ SubSeq(d, 1, k) \in Content /\ Len(SubSeq(d, 1, k)) = k
         /\ \A i \in 1..k : SubSeq(d, 1, k)[i] = d[i]
<1>1. d \in Seq(Pieces) /\ Len(d) \in Nat /\ k \in Nat /\ k <= Len(d) BY DEF Content
<1>2. SubSeq(d, 1, k) = [i \in 1..k |-> d[i]] BY <1>1
<1>3. \A i \in 1..k : d[i] \in Pieces BY <1>1
<1> QED BY <1>1, <1>2, <1>3 DEF Content

\* What Overwrite makes of a file, and of an empty one.
LEMMA Overwritten ==
  ASSUME NEW c \in Content, NEW d \in Content
  PROVE  Overwrite(c, d) \in Content /\ (c = <<>> => Overwrite(c, d) = d)
<1> DEFINE m == IF Len(c) > Len(d) THEN Len(c) ELSE Len(d)
<1>1. /\ c \in Seq(Pieces) /\ d \in Seq(Pieces)
      /\ Len(c) \in Nat /\ Len(d) \in Nat /\ m \in Nat
  BY DEF Content
<1>2. Overwrite(c, d) = [i \in 1..m |-> IF i <= Len(d) THEN d[i] ELSE c[i]] BY DEF Overwrite
<1>3. \A i \in 1..m : (IF i <= Len(d) THEN d[i] ELSE c[i]) \in Pieces BY <1>1
<1>4. Overwrite(c, d) \in Content BY <1>1, <1>2, <1>3 DEF Content
<1>5. ASSUME c = <<>> PROVE Overwrite(c, d) = d
  <2>1. m = Len(d) BY <1>1, <1>5
  <2>2. Len(Overwrite(c, d)) = Len(d) BY <1>1, <1>2, <2>1
  <2>3. \A i \in 1..Len(d) : Overwrite(c, d)[i] = d[i] BY <1>1, <1>2, <2>1
  <2> QED BY <1>1, <1>4, <2>2, <2>3, SeqEqual DEF Content
<1> QED BY <1>4, <1>5

\* The empty sequence.
LEMMA Nothing == <<>> \in Content /\ \A c \in Content : Begins(<<>>, c)
BY DEF Content, Begins

\* What has been read and what is read on.
LEMMA ReadOn ==
  ASSUME NEW c \in Content, NEW b \in Content, Len(c) > Len(b), NEW n \in Nat,
         n <= Len(c), n >= Len(b)
  PROVE  LET r == b \o SubSeq(c, Len(b) + 1, n) IN
         /\ r \in Content /\ Len(r) = n
         /\ \A i \in 1..Len(b) : r[i] = b[i]
         /\ \A i \in Len(b) + 1..n : r[i] = c[i]
<1> DEFINE t == SubSeq(c, Len(b) + 1, n)
<1>1. b \in Seq(Pieces) /\ c \in Seq(Pieces) /\ Len(b) \in Nat /\ Len(c) \in Nat BY DEF Content
<1>2. t = [i \in 1..n - Len(b) |-> c[Len(b) + i]] BY <1>1
<1>3. \A i \in 1..n - Len(b) : c[Len(b) + i] \in Pieces BY <1>1
<1>4. t \in Seq(Pieces) /\ Len(t) = n - Len(b) /\ \A i \in 1..n - Len(b) : t[i] = c[Len(b) + i]
  BY <1>1, <1>2, <1>3
<1> HIDE DEF t
<1>5. /\ b \o t \in Seq(Pieces) /\ Len(b \o t) = n
      /\ \A i \in 1..Len(b) : (b \o t)[i] = b[i]
      /\ \A i \in Len(b) + 1..n : (b \o t)[i] = t[i - Len(b)]
  BY <1>1, <1>4
<1>6. \A i \in Len(b) + 1..n : t[i - Len(b)] = c[i] BY <1>1, <1>4
<1> QED BY <1>5, <1>6 DEF t, Content

-----------------------------------------------------------------------------
(* Every step keeps the invariant.                                         *)

\* What the invariant says of a goroutine that is saving or loading.
LEMMA BusySlot ==
  ASSUME SavesInv, NEW g \in Games, op[g].do # "idle"
  PROVE  /\ op[g].slot \in Slots /\ op[g] = [do |-> op[g].do, slot |-> op[g].slot]
         /\ op[g] # Idle /\ op[g].do \in {"read", "write"}
         /\ file[op[g].slot] \in Content /\ game[g] \in States /\ buf[g] \in Content
BY DEF SavesInv, SavesType, FilesStay, Busy, Idle

\* The directory and the games as a daemon finds them.
LEMMA SavesInit == Init => SavesInv
<1> SUFFICES ASSUME Init PROVE SavesInv OBVIOUS
<1> USE DEF Init
<1>1. \A s \in Slots : last[s] # Absent => last[s] \in States /\ Doc[last[s]] \in Content
  BY DocType
<1>2. file \in [Slots -> Content \cup {Absent}] BY <1>1
<1>3. \A g \in Games : op[g] = Idle OBVIOUS
<1>4. SavesType BY <1>2, Nothing, SavesAssumption DEF SavesType
<1>5. FilesStay /\ ReaderInv BY <1>3 DEF FilesStay, ReaderInv, ReaderOK, Idle
<1>6. \A s \in Slots : Writers(s) = {} BY <1>3 DEF Writers, Idle
<1>7. \A s \in Slots : Holds(s) BY <1>1 DEF Holds
<1> QED BY <1>4, <1>5, <1>6, <1>7 DEF SavesInv, SoundInv

\* Slots that no step touches stay sound.
LEMMA SoundElsewhere ==
  ASSUME SavesInv, NEW s \in Slots, Writers(s)' = Writers(s),
         file'[s] = file[s], last'[s] = last[s], sound'[s] = sound[s], sound'[s]
  PROVE  \/ Writers(s)' = {} /\ Holds(s)'
         \/ \E g \in Games : Writers(s)' = {g} /\ file'[s] = <<>>
BY DEF SavesInv, SoundInv, Holds

\* A load whose slot and whose goroutine a step leaves alone.
LEMMA ReaderKept ==
  ASSUME SavesInv, NEW g \in Games, op'[g] = op[g],
         buf'[g] = buf[g], room'[g] = room[g], seen'[g] = seen[g], saves'[g] = saves[g],
         op[g].do = "read" =>
           LET s == op[g].slot IN
           /\ file'[s] = file[s] /\ sound'[s] = sound[s] /\ Writers(s)' = Writers(s)
           /\ \A h \in Writers(s) : game'[h] = game[h]
  PROVE  ReaderOK(g)'
<1> SUFFICES ASSUME op[g].do = "read"
             PROVE  /\ room'[g] > Len(buf'[g])
                    /\ (saves'[g] = 0 => Calm(g)') /\ (saves'[g] = 1 => OneSave(g)')
  BY DEF ReaderOK
<1> DEFINE s == op[g].slot
<1>1. room[g] > Len(buf[g]) /\ (saves[g] = 0 => Calm(g)) /\ (saves[g] = 1 => OneSave(g))
  BY DEF SavesInv, ReaderInv, ReaderOK
<1>2. /\ file'[s] = file[s] /\ sound'[s] = sound[s] /\ Writers(s)' = Writers(s)
      /\ \A h \in Writers(s) : game'[h] = game[h] /\ op'[g].slot = s
  OBVIOUS
<1>3. op'[g].slot = s OBVIOUS
<1>4. saves[g] = 0 => Calm(g)' BY <1>1, <1>2, <1>3 DEF Calm
<1>5. ASSUME saves[g] = 1 PROVE OneSave(g)'
  <2>1. PICK w \in States \cap seen[g] :
          /\ Saved(s, w)
          /\ Begins(buf[g], Doc[w]) \/ \E v \in States \cap seen[g] : Begins(Doc[v], buf[g])
    BY <1>1, <1>5 DEF OneSave
  <2>2. Saved(s, w)' BY <1>2, <2>1 DEF Saved, Begins
  <2>3. w \in States \cap seen'[g]
        /\ (Begins(buf'[g], Doc[w]) \/ \E v \in States \cap seen'[g] : Begins(Doc[v], buf'[g]))
    BY <2>1
  <2> QED BY <1>3, <2>2, <2>3 DEF OneSave, Begins
<1> QED BY <1>1, <1>4, <1>5

\* A save that opens, and so empties, its file keeps the invariant
\* (os.WriteFile).
LEMMA OpenKeeps == ASSUME SavesInv, NEW g \in Games, Open(g) PROVE SavesInv'
<1>1. PICK s \in Slots : /\ file' = [file EXCEPT ![s] = <<>>]
                         /\ op' = [op EXCEPT ![g] = [do |-> "write", slot |-> s]]
                         /\ SaveBegins(g, s)
  BY DEF Open
<1>2. op[g] = Idle /\ UNCHANGED <<game, buf, room>> BY DEF Open
<1>3. /\ last' = last /\ sound' = [sound EXCEPT ![s] = (Writers(s) = {})]
      /\ \A h \in Games : h \in Readers(s) =>
           seen'[h] = seen[h] \cup {game[g]} /\ saves'[h] = IF saves[h] = 0 THEN 1 ELSE 2
      /\ \A h \in Games : h \notin Readers(s) => seen'[h] = seen[h] /\ saves'[h] = saves[h]
  BY <1>1 DEF SaveBegins
<1>4. /\ file'[s] = <<>> /\ \A t \in Slots : t # s => file'[t] = file[t]
      /\ op'[g] = [do |-> "write", slot |-> s] /\ \A h \in Games : h # g => op'[h] = op[h]
      /\ \A t \in Slots : t # s => sound'[t] = sound[t]
      /\ (sound'[s] => Writers(s) = {})
      /\ game[g] \in States
  BY <1>1, <1>3 DEF SavesInv, SavesType
<1>5. SavesType'
  <2>1. file' \in [Slots -> Content \cup {Absent}] BY <1>1, Nothing DEF SavesInv, SavesType
  <2>2. op' \in [Games -> {Idle} \cup Busy] BY <1>1 DEF SavesInv, SavesType, Busy
  <2>3. sound' \in [Slots -> BOOLEAN] BY <1>3 DEF SavesInv, SavesType
  <2>4. seen' \in [Games -> SUBSET (States \cup {Absent})]
    BY <1>1, <1>4 DEF SavesInv, SavesType, SaveBegins
  <2>5. saves' \in [Games -> {0, 1, 2}] BY <1>1 DEF SavesInv, SavesType, SaveBegins
  <2> QED BY <1>2, <1>3, <2>1, <2>2, <2>3, <2>4, <2>5 DEF SavesInv, SavesType, Own
<1>6. FilesStay'
  <2>1. <<>> # Absent BY Nothing, SavesAssumption DEF Content
  <2>2. \A h \in Games : h # g /\ op'[h] # Idle => op[h].slot \in Slots /\ file[op[h].slot] # Absent
    BY <1>4 DEF SavesInv, SavesType, FilesStay, Busy
  <2>3. \A h \in Games : op'[h] # Idle => file'[op'[h].slot] # Absent BY <1>4, <2>1, <2>2
  <2> QED BY <2>3 DEF FilesStay
<1>7. \A t \in Slots : t # s => Writers(t)' = Writers(t) BY <1>2, <1>4 DEF Writers, Idle
<1>8. Writers(s) = {} => Writers(s)' = {g} BY <1>4 DEF Writers
<1>9. SoundInv'
  <2> SUFFICES ASSUME NEW t \in Slots, sound'[t]
               PROVE  \/ Writers(t)' = {} /\ Holds(t)'
                      \/ \E h \in Games : Writers(t)' = {h} /\ file'[t] = <<>>
    BY DEF SoundInv
  <2>1. CASE t = s BY <1>4, <1>8, <2>1
  <2>2. CASE t # s BY <1>3, <1>4, <1>7, <2>2, SoundElsewhere
  <2> QED BY <2>1, <2>2
<1>10. ReaderInv'
  <2> SUFFICES ASSUME NEW h \in Games PROVE ReaderOK(h)' BY DEF ReaderInv
  <2>1. CASE op'[h].do # "read" BY <2>1 DEF ReaderOK
  <2>2. CASE op'[h].do = "read" /\ op'[h].slot # s
    <3>1. h # g /\ op'[h] = op[h] /\ op[h].do = "read" /\ op[h].slot # s BY <1>4, <2>2
    <3>2. op[h].slot \in Slots BY <3>1, BusySlot
    <3>3. h \notin Readers(s) BY <3>1 DEF Readers
    <3> QED BY <1>2, <1>3, <1>4, <1>7, <3>1, <3>2, <3>3, ReaderKept
  <2>3. CASE op'[h].do = "read" /\ op'[h].slot = s
    <3>1. h # g /\ op'[h] = op[h] /\ op[h].do = "read" /\ op[h].slot = s BY <1>4, <2>3
    <3>2. h \in Readers(s) BY <3>1, BusySlot DEF Readers
    <3>3. seen'[h] = seen[h] \cup {game[g]} /\ saves'[h] # 0 BY <1>3, <3>2
    <3>4. ASSUME saves'[h] = 1 PROVE OneSave(h)'
      <4>1. saves[h] = 0 BY <1>3, <3>2, <3>4
      <4>2. Calm(h) BY <3>1, <4>1 DEF SavesInv, ReaderInv, ReaderOK
      <4>3. PICK v \in States : seen[h] = {v} /\ buf[h] \in {<<>>, Doc[v]} /\ Writers(s) = {}
        BY <3>1, <4>2 DEF Calm
      <4>4. Writers(s)' = {g} /\ game'[g] = game[g] /\ file'[s] = <<>>
        BY <1>2, <1>4, <1>8, <4>3
      <4>5. Saved(s, game[g])' BY <1>2, <4>4 DEF Saved
      <4>6. game[g] \in States \cap seen'[h] /\ v \in States \cap seen'[h] BY <1>4, <3>3, <4>3
      <4>7. Begins(buf'[h], Doc[game[g]]) \/ Begins(Doc[v], buf'[h])
        <5>1. CASE buf[h] = <<>> BY <1>2, <1>4, <5>1, DocType, Nothing
        <5>2. CASE buf[h] = Doc[v]
          <6>1. Len(Doc[v]) \in Nat BY DocType
          <6> QED BY <1>2, <5>2, <6>1 DEF Begins
        <5> QED BY <4>3, <5>1, <5>2
      <4> QED BY <1>2, <3>1, <4>5, <4>6, <4>7 DEF OneSave, Begins
    <3>5. room'[h] > Len(buf'[h]) BY <1>2, <3>1 DEF SavesInv, ReaderInv, ReaderOK
    <3> QED BY <3>3, <3>4, <3>5 DEF ReaderOK
  <2> QED BY <2>1, <2>2, <2>3
<1> QED BY <1>5, <1>6, <1>9, <1>10 DEF SavesInv

\* What reaches the file when the save of game g ends, well or not.
LEMMA PutKeeps ==
  ASSUME SavesInv, NEW g \in Games, op[g].do = "write", NEW k \in 0..Len(Doc[game[g]]), Put(g, k),
         NEW s, s = op[g].slot
  PROVE  LET d == SubSeq(Doc[game[g]], 1, k)
         IN  /\ s \in Slots /\ game[g] \in States
             /\ file' \in [Slots -> Content \cup {Absent}]
             /\ file[s] = <<>> => file'[s] = d
             /\ \A t \in Slots : t # s => file'[t] = file[t]
             /\ op' \in [Games -> {Idle} \cup Busy] /\ op'[g] = Idle
             /\ \A h \in Games : h # g => op'[h] = op[h]
             /\ g \in Writers(s) /\ Writers(s)' = Writers(s) \ {g}
             /\ \A t \in Slots : t # s => Writers(t)' = Writers(t)
             /\ FilesStay'
<1> DEFINE d == SubSeq(Doc[game[g]], 1, k)
           n == Overwrite(file[s], d)
<1>1. /\ s \in Slots /\ file[s] \in Content /\ game[g] \in States
      /\ op[g] = [do |-> "write", slot |-> s]
  BY BusySlot
<1>2. Doc[game[g]] \in Content BY <1>1, DocType
<1>3. d \in Content BY <1>2, Beginning
<1>4. n \in Content /\ (file[s] = <<>> => n = d) BY <1>1, <1>3, Overwritten
<1>5. file' = [file EXCEPT ![s] = n] /\ op' = [op EXCEPT ![g] = Idle] BY DEF Put
<1> HIDE DEF d, n
<1>6. /\ file' \in [Slots -> Content \cup {Absent}] /\ file'[s] = n
      /\ \A t \in Slots : t # s => file'[t] = file[t]
  BY <1>1, <1>4, <1>5 DEF SavesInv, SavesType
<1>7. /\ op' \in [Games -> {Idle} \cup Busy] /\ op'[g] = Idle
      /\ \A h \in Games : h # g => op'[h] = op[h]
  BY <1>5 DEF SavesInv, SavesType
<1>8. g \in Writers(s) /\ Writers(s)' = Writers(s) \ {g}
  <2>1. g \in Writers(s) BY <1>1 DEF Writers
  <2>2. op'[g].do # "write" BY <1>7 DEF Idle
  <2>3. g \notin Writers(s)' BY <2>2 DEF Writers
  <2>4. \A h \in Games : h # g => (h \in Writers(s)' <=> h \in Writers(s)) BY <1>7 DEF Writers
  <2>5. Writers(s)' \subseteq Games /\ Writers(s) \subseteq Games BY DEF Writers
  <2> QED BY <2>1, <2>3, <2>4, <2>5
<1>9. \A t \in Slots : t # s => Writers(t)' = Writers(t) BY <1>1, <1>7 DEF Writers, Idle
<1>10. FilesStay'
  <2>1. n # Absent BY <1>4, SavesAssumption DEF Content
  <2>2. \A h \in Games : h # g /\ op'[h] # Idle => op[h].slot \in Slots /\ file[op[h].slot] # Absent
    BY <1>7 DEF SavesInv, SavesType, FilesStay, Busy
  <2>3. \A h \in Games : op'[h] # Idle => file'[op'[h].slot] # Absent BY <1>6, <1>7, <2>1, <2>2
  <2> QED BY <2>3 DEF FilesStay
<1> QED BY <1>1, <1>4, <1>6, <1>7, <1>8, <1>9, <1>10 DEF d

\* The loads beside a save that ends.
LEMMA PutReaders ==
  ASSUME SavesInv, NEW g \in Games, op[g].do = "write", NEW k \in 0..Len(Doc[game[g]]), Put(g, k),
         NEW s, s = op[g].slot, \A t \in Slots : t # s => sound'[t] = sound[t]
  PROVE  ReaderInv'
<1> DEFINE d == SubSeq(Doc[game[g]], 1, k)
<1>1. /\ s \in Slots /\ game[g] \in States
      /\ file[s] = <<>> => file'[s] = d
      /\ \A t \in Slots : t # s => file'[t] = file[t]
      /\ op'[g] = Idle /\ \A h \in Games : h # g => op'[h] = op[h]
      /\ g \in Writers(s) /\ Writers(s)' = Writers(s) \ {g}
      /\ \A t \in Slots : t # s => Writers(t)' = Writers(t)
  BY PutKeeps
<1>2. UNCHANGED <<game, buf, room, seen, saves>> BY DEF Put
<1>3. Begins(d, Doc[game[g]])
  <2>1. Doc[game[g]] \in Content /\ Len(Doc[game[g]]) \in Nat BY <1>1, DocType
  <2>2. Len(d) = k /\ \A i \in 1..k : d[i] = Doc[game[g]][i] BY <2>1, Beginning
  <2> QED BY <2>1, <2>2 DEF Begins
<1> SUFFICES ASSUME NEW h \in Games PROVE ReaderOK(h)' BY DEF ReaderInv
<1> HIDE DEF d
<1>4. CASE op'[h].do # "read" BY <1>4 DEF ReaderOK
<1>5. CASE op'[h].do = "read" /\ op'[h].slot # s
  <2>1. h # g /\ op'[h] = op[h] /\ op[h].do = "read" /\ op[h].slot # s BY <1>1, <1>5 DEF Idle
  <2>2. op[h].slot \in Slots BY <2>1, BusySlot
  <2> QED BY <1>1, <1>2, <2>1, <2>2, ReaderKept
<1>6. CASE op'[h].do = "read" /\ op'[h].slot = s
  <2>1. h # g /\ op'[h] = op[h] /\ op[h].do = "read" /\ op[h].slot = s BY <1>1, <1>6 DEF Idle
  <2>2. room[h] > Len(buf[h]) /\ (saves[h] = 0 => Calm(h)) /\ (saves[h] = 1 => OneSave(h))
    BY <2>1 DEF SavesInv, ReaderInv, ReaderOK
  <2>3. saves'[h] # 0 BY <1>1, <1>2, <2>1, <2>2 DEF Calm
  <2>4. ASSUME saves'[h] = 1 PROVE OneSave(h)'
    <3>1. PICK w \in States \cap seen[h] :
            /\ Saved(s, w)
            /\ Begins(buf[h], Doc[w]) \/ \E v \in States \cap seen[h] : Begins(Doc[v], buf[h])
      BY <1>2, <2>1, <2>2, <2>4 DEF OneSave
    <3>2. Writers(s) = {g} /\ game[g] = w /\ file[s] = <<>> BY <1>1, <3>1 DEF Saved
    <3>3. Writers(s)' = {} /\ file'[s] = d BY <1>1, <3>2
    <3>4. Saved(s, w)' BY <1>3, <3>2, <3>3 DEF Saved, Begins
    <3> QED BY <1>2, <2>1, <3>1, <3>4 DEF OneSave, Begins
  <2> QED BY <1>2, <2>2, <2>3, <2>4 DEF ReaderOK
<1> QED BY <1>4, <1>5, <1>6

\* A save that ends well makes a sound slot whole again.
LEMMA WriteKeeps == ASSUME SavesInv, NEW g \in Games, Write(g) PROVE SavesInv'
<1> DEFINE k == Len(Doc[game[g]])
<1>0. PICK s : s = op[g].slot OBVIOUS
<1>1. /\ op[g].do = "write" /\ Put(g, k) /\ sound' = sound
      /\ last' = [last EXCEPT ![s] = game[g]]
  BY <1>0 DEF Write
<1>2. game[g] \in States BY <1>1, BusySlot
<1>3. Doc[game[g]] \in Content /\ k \in 0..k BY <1>2, DocType
<1>4. SubSeq(Doc[game[g]], 1, k) = Doc[game[g]]
  <2>1. SubSeq(Doc[game[g]], 1, k) \in Content /\ Len(SubSeq(Doc[game[g]], 1, k)) = k
        /\ \A i \in 1..k : SubSeq(Doc[game[g]], 1, k)[i] = Doc[game[g]][i]
    BY <1>3, Beginning
  <2> QED BY <1>3, <2>1, SeqEqual DEF Content
<1>5. /\ s \in Slots
      /\ file' \in [Slots -> Content \cup {Absent}]
      /\ file[s] = <<>> => file'[s] = Doc[game[g]]
      /\ \A t \in Slots : t # s => file'[t] = file[t]
      /\ op' \in [Games -> {Idle} \cup Busy]
      /\ g \in Writers(s) /\ Writers(s)' = Writers(s) \ {g}
      /\ \A t \in Slots : t # s => Writers(t)' = Writers(t)
      /\ FilesStay'
  BY <1>0, <1>1, <1>3, <1>4, PutKeeps
<1>6. UNCHANGED <<game, buf, room, seen, saves>> BY <1>1 DEF Put
<1>7. ReaderInv' BY <1>0, <1>1, <1>3, PutReaders
<1> HIDE DEF k
<1>8. SavesType' BY <1>1, <1>2, <1>5, <1>6 DEF SavesInv, SavesType, Own
<1>9. SoundInv'
  <2> SUFFICES ASSUME NEW t \in Slots, sound'[t]
               PROVE  \/ Writers(t)' = {} /\ Holds(t)'
                      \/ \E h \in Games : Writers(t)' = {h} /\ file'[t] = <<>>
    BY DEF SoundInv
  <2>1. CASE t = s
    <3>1. Writers(s) = {g} /\ file[s] = <<>> BY <1>1, <1>5, <2>1 DEF SavesInv, SoundInv
    <3>2. last'[s] = game[g] BY <1>1, <1>5 DEF SavesInv, SavesType
    <3> QED BY <1>2, <1>5, <2>1, <3>1, <3>2 DEF Holds
  <2>2. CASE t # s
    <3>1. last'[t] = last[t] BY <1>1, <2>2 DEF SavesInv, SavesType
    <3> QED BY <1>1, <1>5, <2>2, <3>1, SoundElsewhere
  <2> QED BY <2>1, <2>2
<1> QED BY <1>5, <1>7, <1>8, <1>9 DEF SavesInv

\* A save that fails or is cut off leaves a slot that is not sound.
LEMMA CutKeeps == ASSUME SavesInv, NEW g \in Games, Cut(g) PROVE SavesInv'
<1>0. PICK s : s = op[g].slot OBVIOUS
<1>1. /\ op[g].do = "write" /\ last' = last /\ sound' = [sound EXCEPT ![s] = FALSE]
      /\ \E k \in 0..Len(Doc[game[g]]) - 1 : Put(g, k)
  BY <1>0 DEF Cut
<1>2. game[g] \in States BY <1>1, BusySlot
<1>3. PICK k \in 0..Len(Doc[game[g]]) : Put(g, k) BY <1>1, <1>2, DocType
<1>4. /\ s \in Slots
      /\ file' \in [Slots -> Content \cup {Absent}]
      /\ \A t \in Slots : t # s => file'[t] = file[t]
      /\ op' \in [Games -> {Idle} \cup Busy]
      /\ \A t \in Slots : t # s => Writers(t)' = Writers(t)
      /\ FilesStay'
  BY <1>0, <1>1, <1>3, PutKeeps
<1>5. UNCHANGED <<game, buf, room, seen, saves>> BY <1>3 DEF Put
<1>6. /\ sound' \in [Slots -> BOOLEAN] /\ ~sound'[s]
      /\ \A t \in Slots : t # s => sound'[t] = sound[t]
  BY <1>1, <1>4 DEF SavesInv, SavesType
<1>7. ReaderInv' BY <1>0, <1>1, <1>3, <1>6, PutReaders
<1>8. SavesType' BY <1>1, <1>4, <1>5, <1>6 DEF SavesInv, SavesType, Own
<1>9. SoundInv' BY <1>1, <1>4, <1>6, SoundElsewhere DEF SoundInv
<1> QED BY <1>4, <1>7, <1>8, <1>9 DEF SavesInv

\* A step of one game that writes no file and starts no save.
LEMMA SoundStays ==
  ASSUME SavesInv, NEW g \in Games, UNCHANGED <<file, last, sound>>,
         \A h \in Games : h # g => op'[h] = op[h],
         op[g].do # "write", op'[g].do # "write"
  PROVE  SoundInv' /\ \A s \in Slots : Writers(s)' = Writers(s)
<1>1. \A s \in Slots : Writers(s)' = Writers(s) BY DEF Writers
<1> QED BY <1>1 DEF SavesInv, SoundInv, Holds

\* The loads of the other games, in such a step.
LEMMA OthersKept ==
  ASSUME SavesInv, NEW g \in Games, UNCHANGED <<file, sound>>,
         \A s \in Slots : Writers(s)' = Writers(s),
         \A s \in Slots : \A h \in Writers(s) : game'[h] = game[h],
         NEW h \in Games, op'[h] = op[h], buf'[h] = buf[h], room'[h] = room[h],
         seen'[h] = seen[h], saves'[h] = saves[h]
  PROVE  ReaderOK(h)'
<1>1. op[h].do = "read" => op[h].slot \in Slots BY BusySlot
<1> QED BY <1>1, ReaderKept

\* A load that finds a file keeps the invariant (os.ReadFile).
LEMMA LookKeeps == ASSUME SavesInv, NEW g \in Games, Look(g) PROVE SavesInv'
<1>1. PICK s \in Slots :
        /\ file[s] # Absent /\ buf' = [buf EXCEPT ![g] = <<>>]
        /\ room' = [room EXCEPT ![g] = IF Len(file[s]) + 1 > MinRoom THEN Len(file[s]) + 1 ELSE MinRoom]
        /\ op' = [op EXCEPT ![g] = [do |-> "read", slot |-> s]]
        /\ LoadBegins(g, s)
  BY DEF Look
<1>2. op[g] = Idle /\ UNCHANGED <<file, game, last, sound>> BY DEF Look, LoadBegins
<1>3. file[s] \in Content /\ Len(file[s]) \in Nat BY <1>1 DEF SavesInv, SavesType, Content
<1>4. /\ op'[g] = [do |-> "read", slot |-> s] /\ buf'[g] = <<>>
      /\ room'[g] \in Nat /\ room'[g] > Len(file[s])
      /\ \A h \in Games : h # g => op'[h] = op[h] /\ buf'[h] = buf[h] /\ room'[h] = room[h]
  BY <1>1, <1>3, SavesAssumption DEF SavesInv, SavesType
<1>5. /\ \A h \in Games : h # g => seen'[h] = seen[h] /\ saves'[h] = saves[h]
      /\ ~sound[s] => seen'[g] = {} /\ saves'[g] = 2
      /\ sound[s] /\ Writers(s) = {} => seen'[g] = {last[s]} /\ saves'[g] = 0
      /\ sound[s] /\ Writers(s) # {} => seen'[g] = {game[h] : h \in Writers(s)} /\ saves'[g] = 1
  BY <1>1 DEF SavesInv, SavesType, LoadBegins
<1>6. Writers(s) \subseteq Games BY DEF Writers
<1>7. SavesType'
  <2>1. seen'[g] \in SUBSET (States \cup {Absent}) BY <1>5, <1>6 DEF SavesInv, SavesType
  <2>2. saves'[g] \in {0, 1, 2} BY <1>5 DEF SavesInv, SavesType
  <2>3. seen' \in [Games -> SUBSET (States \cup {Absent})]
    BY <1>1, <2>1 DEF SavesInv, SavesType, LoadBegins
  <2>4. saves' \in [Games -> {0, 1, 2}] BY <1>1, <2>2 DEF SavesInv, SavesType, LoadBegins
  <2>5. op' \in [Games -> {Idle} \cup Busy] BY <1>1 DEF SavesInv, SavesType, Busy
  <2>6. buf' \in [Games -> Content] BY <1>1, Nothing DEF SavesInv, SavesType
  <2>7. room' \in [Games -> Nat] BY <1>1, <1>4 DEF SavesInv, SavesType
  <2> QED BY <1>2, <2>3, <2>4, <2>5, <2>6, <2>7 DEF SavesInv, SavesType, Own
<1>8. FilesStay' BY <1>1, <1>2, <1>4 DEF SavesInv, FilesStay
<1>9. SoundInv' /\ \A t \in Slots : Writers(t)' = Writers(t)
  BY <1>2, <1>4, SoundStays DEF Idle
<1>10. ReaderInv'
  <2> SUFFICES ASSUME NEW h \in Games PROVE ReaderOK(h)' BY DEF ReaderInv
  <2>1. CASE h # g BY <1>2, <1>4, <1>5, <1>9, <2>1, OthersKept
  <2>2. CASE h = g
    <3>1. ASSUME saves'[g] = 0 PROVE Calm(g)'
      <4>1. sound[s] /\ Writers(s) = {} /\ seen'[g] = {last[s]} BY <1>5, <3>1 DEF SavesInv, SavesType
      <4>2. Holds(s) BY <4>1 DEF SavesInv, SoundInv
      <4>3. last[s] \in States /\ file[s] = Doc[last[s]] BY <1>1, <4>2 DEF Holds
      <4> QED BY <1>2, <1>4, <1>9, <4>1, <4>3 DEF Calm
    <3>2. ASSUME saves'[g] = 1 PROVE OneSave(g)'
      <4>1. sound[s] /\ Writers(s) # {} /\ seen'[g] = {game[k] : k \in Writers(s)}
        BY <1>5, <3>2 DEF SavesInv, SavesType
      <4>2. PICK k \in Games : Writers(s) = {k} /\ file[s] = <<>>
        BY <4>1 DEF SavesInv, SoundInv
      <4>3. game[k] \in States \cap seen'[g] BY <4>1, <4>2 DEF SavesInv, SavesType
      <4>4. Saved(s, game[k])' BY <1>2, <1>9, <4>2 DEF Saved
      <4>5. Begins(buf'[g], Doc[game[k]]) BY <1>4, <4>3, DocType, Nothing
      <4> QED BY <1>2, <1>4, <4>3, <4>4, <4>5 DEF OneSave, Begins
    <3>3. room'[g] > Len(buf'[g]) BY <1>3, <1>4
    <3> QED BY <2>2, <3>1, <3>2, <3>3 DEF ReaderOK
  <2> QED BY <2>1, <2>2
<1> QED BY <1>7, <1>8, <1>9, <1>10 DEF SavesInv

\* Every further read keeps the invariant: beside one save a load goes on in
\* the document it has begun, or behind a document that is whole.
LEMMA ReadKeeps == ASSUME SavesInv, NEW g \in Games, Read(g) PROVE SavesInv'
<1>1. PICK s, c, b, n, r :
        /\ s = op[g].slot /\ c = file[s] /\ b = buf[g]
        /\ n = (IF Len(c) < room[g] THEN Len(c) ELSE room[g])
        /\ r = b \o SubSeq(c, Len(b) + 1, n)
  OBVIOUS
<1>2. /\ op[g].do = "read" /\ Len(c) > Len(b) /\ buf' = [buf EXCEPT ![g] = r]
      /\ room' = [room EXCEPT ![g] = IF n = room[g] THEN room[g] + 1 ELSE room[g]]
      /\ UNCHANGED <<file, game, op, last, sound, seen, saves>>
  BY <1>1 DEF Read, histVars
<1>3. s \in Slots /\ c \in Content /\ b \in Content /\ Len(c) \in Nat /\ Len(b) \in Nat /\ room[g] \in Nat
  BY <1>1, <1>2, BusySlot DEF SavesInv, SavesType, Content
<1>4. room[g] > Len(b) /\ (saves[g] = 0 => Calm(g)) /\ (saves[g] = 1 => OneSave(g))
  BY <1>1, <1>2 DEF SavesInv, ReaderInv, ReaderOK
<1>5. n \in Nat /\ n <= Len(c) /\ n >= Len(b) /\ n <= room[g] BY <1>1, <1>2, <1>3, <1>4
<1>6. /\ r \in Content /\ Len(r) = n
      /\ \A i \in 1..Len(b) : r[i] = b[i]
      /\ \A i \in Len(b) + 1..n : r[i] = c[i]
  <2>1. LET t == b \o SubSeq(c, Len(b) + 1, n) IN
        /\ t \in Content /\ Len(t) = n
        /\ \A i \in 1..Len(b) : t[i] = b[i]
        /\ \A i \in Len(b) + 1..n : t[i] = c[i]
    BY <1>2, <1>3, <1>5, ReadOn
  <2> QED BY <1>1, <2>1
<1>7. /\ buf'[g] = r /\ room'[g] > Len(r) /\ room'[g] \in Nat /\ room'[g] >= room[g]
      /\ \A h \in Games : h # g => buf'[h] = buf[h] /\ room'[h] = room[h]
  BY <1>2, <1>3, <1>5, <1>6 DEF SavesInv, SavesType
<1>8. SavesType'
  <2>1. buf' \in [Games -> Content] BY <1>2, <1>6 DEF SavesInv, SavesType
  <2>2. room' \in [Games -> Nat] BY <1>2, <1>7 DEF SavesInv, SavesType
  <2> QED BY <1>2, <2>1, <2>2 DEF SavesInv, SavesType, Own
<1>9. FilesStay' BY <1>2 DEF SavesInv, FilesStay
<1>10. SoundInv' /\ \A t \in Slots : Writers(t)' = Writers(t)
  BY <1>2, SoundStays
<1>11. ASSUME saves[g] = 0 PROVE Calm(g)'
  <2>1. PICK v \in States : /\ sound[s] /\ Writers(s) = {} /\ seen[g] = {v} /\ c = Doc[v]
                            /\ b \in {<<>>, Doc[v]} /\ room[g] > Len(Doc[v])
    BY <1>1, <1>4, <1>11 DEF Calm
  <2>2. Len(b) = 0 BY <1>2, <1>3, <2>1
  <2>3. n = Len(c) BY <1>1, <1>3, <2>1
  <2>4. Len(r) = Len(c) /\ \A i \in 1..Len(c) : r[i] = c[i] BY <1>6, <2>2, <2>3
  <2>5. r = Doc[v] BY <1>3, <1>6, <2>1, <2>4, SeqEqual DEF Content
  <2>6. room'[g] > Len(Doc[v]) BY <1>7, <2>5
  <2>7. op'[g].slot = s /\ file'[s] = Doc[v] /\ sound'[s] /\ Writers(s)' = {} /\ seen'[g] = {v}
    BY <1>1, <1>2, <1>3, <1>10, <2>1
  <2> QED BY <1>7, <2>5, <2>6, <2>7 DEF Calm
<1>12. ASSUME saves[g] = 1 PROVE OneSave(g)'
  <2>1. PICK w \in States \cap seen[g] :
          /\ Saved(s, w)
          /\ Begins(b, Doc[w]) \/ \E v \in States \cap seen[g] : Begins(Doc[v], b)
    BY <1>1, <1>4, <1>12 DEF OneSave
  <2>2. Saved(s, w)' BY <1>2, <1>3, <1>10, <2>1 DEF Saved, Begins
  <2>3. op'[g].slot = s /\ seen'[g] = seen[g] BY <1>1, <1>2
  <2>4. CASE Begins(b, Doc[w])
    <3>1. Begins(c, Doc[w])
      <4>1. c # <<>> BY <1>2, <1>3
      <4> QED BY <1>1, <2>1, <4>1 DEF Saved
    <3>2. Len(Doc[w]) \in Nat BY DocType
    <3>3. \A i \in 1..n : r[i] = Doc[w][i]
      <4> TAKE i \in 1..n
      <4>1. CASE i <= Len(b)
        <5>1. i \in 1..Len(b) BY <1>3, <4>1
        <5> QED BY <1>6, <2>4, <5>1 DEF Begins
      <4>2. CASE i > Len(b)
        <5>1. i \in Len(b) + 1..n /\ i \in 1..Len(c) BY <1>3, <1>5, <4>2
        <5> QED BY <1>6, <3>1, <5>1 DEF Begins
      <4> QED BY <1>3, <4>1, <4>2
    <3>4. Begins(r, Doc[w]) BY <1>3, <1>5, <1>6, <3>1, <3>2, <3>3 DEF Begins
    <3> QED BY <1>7, <2>1, <2>2, <2>3, <3>4 DEF OneSave, Begins
  <2>5. CASE \E v \in States \cap seen[g] : Begins(Doc[v], b)
    <3>1. PICK v \in States \cap seen[g] : Begins(Doc[v], b) BY <2>5
    <3>2. Len(Doc[v]) \in Nat BY DocType
    <3>3. \A i \in 1..Len(Doc[v]) : i \in 1..Len(b) BY <1>3, <3>1, <3>2 DEF Begins
    <3>4. Begins(Doc[v], r) BY <1>3, <1>5, <1>6, <3>1, <3>2, <3>3 DEF Begins
    <3> QED BY <1>7, <2>1, <2>2, <2>3, <3>1, <3>4 DEF OneSave, Begins
  <2> QED BY <2>1, <2>4, <2>5
<1>13. ReaderInv'
  <2> SUFFICES ASSUME NEW h \in Games PROVE ReaderOK(h)' BY DEF ReaderInv
  <2>1. CASE h # g
    <3>1. op'[h] = op[h] /\ seen'[h] = seen[h] /\ saves'[h] = saves[h] BY <1>2
    <3> QED BY <1>2, <1>7, <1>10, <2>1, <3>1, OthersKept
  <2>2. CASE h = g BY <1>2, <1>7, <1>11, <1>12, <2>2 DEF ReaderOK
  <2> QED BY <2>1, <2>2
<1> QED BY <1>8, <1>9, <1>10, <1>13 DEF SavesInv

\* A load that ends changes nothing but the game, which stays in its own
\* scenario.
LEMMA ReadEndKeeps == ASSUME SavesInv, NEW g \in Games, ReadEnd(g) PROVE SavesInv'
<1>1. /\ op[g].do = "read" /\ UNCHANGED <<file, last, sound>>
      /\ op' = [op EXCEPT ![g] = Idle] /\ buf' = [buf EXCEPT ![g] = <<>>]
      /\ room' = [room EXCEPT ![g] = MinRoom]
      /\ seen' = [seen EXCEPT ![g] = {}] /\ saves' = [saves EXCEPT ![g] = 0]
  BY DEF ReadEnd, AtEnd
<1>2. PICK v : game' = [game EXCEPT ![g] = v] /\ v \in Own(g)
  <2>1. game' = [game EXCEPT ![g] = IF Decode(buf[g]) \in Own(g) THEN Decode(buf[g]) ELSE game[g]]
    BY DEF ReadEnd
  <2> QED BY <2>1 DEF SavesInv, SavesType
<1>3. /\ op'[g] = Idle
      /\ \A h \in Games : h # g => /\ op'[h] = op[h] /\ buf'[h] = buf[h] /\ room'[h] = room[h]
                                   /\ seen'[h] = seen[h] /\ saves'[h] = saves[h]
                                   /\ game'[h] = game[h]
  BY <1>1, <1>2 DEF SavesInv, SavesType
<1>4. SavesType' BY <1>1, <1>2, Nothing, SavesAssumption DEF SavesInv, SavesType, Own
<1>5. FilesStay' BY <1>1, <1>3 DEF SavesInv, FilesStay
<1>6. SoundInv' /\ \A t \in Slots : Writers(t)' = Writers(t) BY <1>1, <1>3, SoundStays DEF Idle
<1>7. ReaderInv'
  <2> SUFFICES ASSUME NEW h \in Games PROVE ReaderOK(h)' BY DEF ReaderInv
  <2>1. CASE h # g
    <3>1. \A s \in Slots : \A k \in Writers(s) : game'[k] = game[k]
      BY <1>1, <1>3 DEF Writers
    <3> QED BY <1>1, <1>3, <1>6, <2>1, <3>1, OthersKept
  <2>2. CASE h = g BY <1>3, <2>2 DEF ReaderOK, Idle
  <2> QED BY <2>1, <2>2
<1> QED BY <1>4, <1>5, <1>6, <1>7 DEF SavesInv

\* The games are played between saves and loads.
LEMMA PlayKeeps == ASSUME SavesInv, NEW g \in Games, Play(g) PROVE SavesInv'
<1>1. op[g] = Idle /\ UNCHANGED <<file, op, buf, room, last, sound, seen, saves>>
  BY DEF Play, histVars
<1>2. PICK v \in Own(g) : game' = [game EXCEPT ![g] = v] BY DEF Play
<1>3. SavesType' BY <1>1, <1>2 DEF SavesInv, SavesType, Own
<1>4. FilesStay' BY <1>1 DEF SavesInv, FilesStay
<1>5. SoundInv' /\ \A t \in Slots : Writers(t)' = Writers(t) BY <1>1, SoundStays DEF Idle
<1>6. \A s \in Slots : \A k \in Writers(s) : game'[k] = game[k]
  BY <1>1, <1>2 DEF Writers, Idle, SavesInv, SavesType
<1>7. ReaderInv'
  <2> SUFFICES ASSUME NEW h \in Games PROVE ReaderOK(h)' BY DEF ReaderInv
  <2>1. /\ op'[h] = op[h] /\ buf'[h] = buf[h] /\ room'[h] = room[h]
        /\ seen'[h] = seen[h] /\ saves'[h] = saves[h]
    BY <1>1
  <2> QED BY <1>1, <1>5, <1>6, <2>1, OthersKept
<1> QED BY <1>3, <1>4, <1>5, <1>7 DEF SavesInv

\* A step that leaves the files and the games alone.
LEMMA SavesStutter == ASSUME SavesInv, UNCHANGED savesVars PROVE SavesInv'
<1>1. UNCHANGED <<file, game, op, buf, room, last, sound, seen, saves>> BY DEF savesVars, histVars
<1>2. \A s \in Slots : Writers(s)' = Writers(s) BY <1>1 DEF Writers
<1>3. SavesType' /\ FilesStay' BY <1>1 DEF SavesInv, SavesType, FilesStay, Own
<1>4. SoundInv' BY <1>1, <1>2 DEF SavesInv, SoundInv, Holds
<1>5. ReaderInv'
  <2> SUFFICES ASSUME NEW h \in Games PROVE ReaderOK(h)' BY DEF ReaderInv
  <2>1. /\ op'[h] = op[h] /\ buf'[h] = buf[h] /\ room'[h] = room[h]
        /\ seen'[h] = seen[h] /\ saves'[h] = saves[h]
    BY <1>1
  <2> QED BY <1>1, <1>2, <2>1, OthersKept
<1> QED BY <1>3, <1>4, <1>5 DEF SavesInv

\* The step lemma of the save files: saves, loads and failures, in any order,
\* keep the invariant.
LEMMA SavesStep == SavesInv /\ [Next]_savesVars => SavesInv'
<1> SUFFICES ASSUME SavesInv, [Next]_savesVars PROVE SavesInv' OBVIOUS
<1>1. ASSUME NEW g \in Games, Step(g) PROVE SavesInv'
  BY <1>1, PlayKeeps, OpenKeeps, WriteKeeps, CutKeeps, LookKeeps, ReadKeeps, ReadEndKeeps DEF Step
<1> QED BY <1>1, SavesStutter DEF Next

\* The games on a host are games on shared files.
LEMMA HostRuns == HostSpec => Spec
<1>1. HostInit => Init BY DEF HostInit
<1>2. [HostNext]_allVars => [Next]_savesVars
  BY DEF HostNext, GameStep, Next, Step, allVars
<1> QED BY <1>1, <1>2, PTL DEF HostSpec, Spec

\* The invariant says what a slot at rest holds.
LEMMA SlotsAtRest == SavesInv => SlotHoldsLastSave
<1> SUFFICES ASSUME SavesInv, NEW s \in Slots, sound[s], Writers(s) = {}
             PROVE  last[s] = IF file[s] = Absent THEN Absent ELSE Decode(file[s])
  BY DEF SlotHoldsLastSave
<1>1. Holds(s) BY DEF SavesInv, SoundInv
<1>2. CASE file[s] = Absent
  <2>1. \A v \in States : Doc[v] # Absent BY DocType, SavesAssumption DEF Content
  <2> QED BY <1>1, <1>2, <2>1 DEF Holds
<1>3. CASE file[s] # Absent BY <1>1, <1>3, Decoded DEF Holds
<1> QED BY <1>2, <1>3

\* However the daemons come and go: a sound slot at rest holds the last save
\* that ended well (save.Save, WriteFile, the crash of a daemon half-way).
THEOREM SlotsKept == HostSpec => []SlotHoldsLastSave
<1>1. Spec => []SlotHoldsLastSave BY SavesInit, SavesStep, SlotsAtRest, PTL DEF Spec
<1> QED BY <1>1, HostRuns, PTL

-----------------------------------------------------------------------------
(* The files implement the slot store.                                     *)

storeBar == <<last, sound, game, op, seen, saves>>

\* What a load of a sound slot beside at most one save returns was in the slot
\* before or is what the save put there; beside none it returns what is there.
LEMMA LoadFinds ==
  ASSUME SavesInv, NEW g \in Games, AtEnd(g)
  PROVE  /\ saves[g] = 0 => \E v \in States : seen[g] = {v} /\ Decode(buf[g]) = v
         /\ saves[g] = 1 /\ Decode(buf[g]) \in States => Decode(buf[g]) \in seen[g]
<1>1. PICK s, b : s = op[g].slot /\ b = buf[g] OBVIOUS
<1>2. op[g].do = "read" /\ Len(file[s]) <= Len(b) BY <1>1 DEF AtEnd
<1>3. (saves[g] = 0 => Calm(g)) /\ (saves[g] = 1 => OneSave(g))
  BY <1>2 DEF SavesInv, ReaderInv, ReaderOK
<1>4. ASSUME saves[g] = 0 PROVE \E v \in States : seen[g] = {v} /\ Decode(b) = v
  <2>1. PICK v \in States : seen[g] = {v} /\ file[s] = Doc[v] /\ b \in {<<>>, Doc[v]}
    BY <1>1, <1>3, <1>4 DEF Calm
  <2>2. b # <<>> BY <1>2, <2>1, DocType
  <2> QED BY <2>1, <2>2, Decoded
<1>5. ASSUME saves[g] = 1, Decode(b) \in States PROVE Decode(b) \in seen[g]
  <2>1. PICK u \in States : u = Decode(b) /\ b = Doc[u] BY <1>5, Decoded
  <2>2. PICK w \in States \cap seen[g] :
          Begins(b, Doc[w]) \/ \E v \in States \cap seen[g] : Begins(Doc[v], b)
    BY <1>1, <1>3, <1>5 DEF OneSave
  <2>3. CASE Begins(b, Doc[w])
    <3>1. u = w BY <2>1, <2>3, PrefixFree
    <3> QED BY <2>1, <2>2, <3>1
  <2>4. CASE \E v \in States \cap seen[g] : Begins(Doc[v], b)
    <3>1. PICK v \in States \cap seen[g] : Begins(Doc[v], Doc[u]) BY <2>1, <2>4
    <3>2. v = u BY <3>1, PrefixFree
    <3> QED BY <2>1, <3>1, <3>2
  <2> QED BY <2>2, <2>3, <2>4
<1> QED BY <1>1, <1>4, <1>5

\* Every step on the files is a step of the slot store, or none.
LEMMA StoreStep ==
  ASSUME SavesInv, NEW g \in Games, Step(g)
  PROVE  [Store!Next]_storeBar
<1> USE DEF histVars
<1>1. CASE Play(g)
  <2>1. Store!Play(g) BY <1>1 DEF Play, Store!Play, Own, Store!Own, Idle, Store!Idle
  <2> QED BY <2>1 DEF Store!Next
<1>2. CASE Open(g)
  <2>1. PICK s \in Slots : /\ op' = [op EXCEPT ![g] = [do |-> "write", slot |-> s]]
                           /\ SaveBegins(g, s)
    BY <1>2 DEF Open
  <2>2. op[g] = Idle /\ game' = game BY <1>2 DEF Open
  <2>3. Store!BeginSave(g, s)
    BY <2>1, <2>2 DEF SaveBegins, Store!BeginSave, Writers, Store!Writers, Readers, Store!Readers,
                      Idle, Store!Idle
  <2> QED BY <2>3 DEF Store!Next
<1>3. CASE Write(g)
  <2>1. Store!EndSave(g) BY <1>3 DEF Write, Put, Store!EndSave, Idle, Store!Idle
  <2> QED BY <2>1 DEF Store!Next
<1>4. CASE Cut(g)
  <2>1. Store!CutSave(g) BY <1>4 DEF Cut, Put, Store!CutSave, Idle, Store!Idle
  <2> QED BY <2>1 DEF Store!Next
<1>5. CASE Look(g)
  <2>1. PICK s \in Slots : /\ op' = [op EXCEPT ![g] = [do |-> "read", slot |-> s]]
                           /\ LoadBegins(g, s)
    BY <1>5 DEF Look
  <2>2. op[g] = Idle /\ game' = game BY <1>5 DEF Look
  <2>3. Store!BeginLoad(g, s)
    BY <2>1, <2>2 DEF LoadBegins, Store!BeginLoad, Writers, Store!Writers, Idle, Store!Idle
  <2> QED BY <2>3 DEF Store!Next
<1>6. CASE Read(g) BY <1>6 DEF Read, storeBar
<1>7. CASE ReadEnd(g)
  <2>1. PICK v : v = Decode(buf[g]) OBVIOUS
  <2>2. /\ AtEnd(g) /\ op[g].do = "read" /\ UNCHANGED <<last, sound>>
        /\ game' = [game EXCEPT ![g] = IF v \in Own(g) THEN v ELSE game[g]]
        /\ op' = [op EXCEPT ![g] = Idle]
        /\ seen' = [seen EXCEPT ![g] = {}] /\ saves' = [saves EXCEPT ![g] = 0]
    BY <1>7, <2>1 DEF ReadEnd, AtEnd
  <2>3. /\ saves[g] = 0 => seen[g] = {v} /\ v \in States
        /\ saves[g] = 1 /\ v \in States => v \in seen[g]
        /\ saves[g] \in {0, 1, 2}
    BY <2>1, <2>2, LoadFinds DEF SavesInv, SavesType
  <2>4. (\E u \in Store!Found(g) : game' = [game EXCEPT ![g] = u]) \/ Store!Fails(g)
    <3>1. CASE v \in Own(g)
      <4>1. v \in Store!Found(g) BY <2>3, <3>1 DEF Own, Store!Own, Store!Found
      <4> QED BY <2>2, <3>1, <4>1
    <3>2. CASE v \notin Own(g)
      <4>1. game' = game BY <2>2, <3>2 DEF SavesInv, SavesType
      <4>2. saves[g] = 0 => Store!Found(g) = {} BY <2>3, <3>2 DEF Own, Store!Own, Store!Found
      <4> QED BY <4>1, <4>2 DEF Store!Fails
    <3> QED BY <3>1, <3>2
  <2>5. Store!EndLoad(g) BY <2>2, <2>4 DEF Store!EndLoad, Idle, Store!Idle
  <2> QED BY <2>5 DEF Store!Next
<1> QED BY <1>1, <1>2, <1>3, <1>4, <1>5, <1>6, <1>7 DEF Step

\* Whatever saves, loads, full disks, crashes and shutdowns of daemons do to
\* the files, the games see registers: a load of a sound slot returns the last
\* save if no save overlaps it, and the last or the new one, or fails, if one
\* does (save.Save, save.Load, the engine's LoadGame).
THEOREM StoreImplemented == HostSpec => ImplementsStore
<1>1. Init => Store!Init
  BY DEF Init, Store!Init, Own, Store!Own, Idle, Store!Idle
<1>2. SavesInv /\ [Next]_savesVars => [Store!Next]_storeBar
  <2> SUFFICES ASSUME SavesInv, [Next]_savesVars PROVE [Store!Next]_storeBar OBVIOUS
  <2>1. CASE UNCHANGED savesVars BY <2>1 DEF savesVars, histVars, storeBar
  <2>2. CASE Next BY <2>2, StoreStep DEF Next
  <2> QED BY <2>1, <2>2
<1>3. [Store!Next]_storeBar => [Store!Next]_<<last, sound, game, op, seen, saves>> BY DEF storeBar
<1>4. Spec => ImplementsStore
  BY <1>1, <1>2, <1>3, SavesInit, SavesStep, PTL DEF Spec, ImplementsStore, Store!Spec
<1> QED BY <1>4, HostRuns, PTL

-----------------------------------------------------------------------------
(* The daemons and their socket.                                           *)

ProcState ==
  {"off", "started", "cleared", "bound", "listening", "draining", "exited", "failed"}

HostType ==
  /\ proc \in [Daemons -> ProcState]
  /\ sock \in Daemons \cup {NoDaemon}
  /\ rival \in [Daemons -> BOOLEAN]
  /\ client \in [Clients -> [pc : {"dial", "poll", "connected", "failed"},
                             child : Daemons \cup {NoDaemon}]]
  /\ \A c \in Clients : client[c].pc = "poll" => client[c].child \in Daemons

\* Daemons that run at the same time know it.
RivalInv == \A d, e \in Daemons : d # e /\ Up(d) /\ Up(e) => rival[d] /\ rival[e]

\* A daemon without a rival finds the path as it left it.
PathInv ==
  \A d \in Daemons : ~rival[d] =>
    /\ proc[d] # "failed"
    /\ proc[d] = "cleared" => sock = NoDaemon
    /\ proc[d] \in {"bound", "listening"} => sock = d

HostInv == HostType /\ RivalInv /\ PathInv

\* A daemon starts: it and all that run become rivals.
LEMMA StartedKeeps ==
  ASSUME HostInv, NEW d \in Daemons, Started(d), sock' = sock,
         client' \in [Clients -> [pc : {"dial", "poll", "connected", "failed"},
                                  child : Daemons \cup {NoDaemon}]],
         \A c \in Clients : client'[c].pc = "poll" => client'[c].child \in Daemons
  PROVE  HostInv'
<1>1. /\ proc[d] = "off" /\ proc'[d] = "started"
      /\ \A e \in Daemons : e # d => proc'[e] = proc[e]
      /\ proc' \in [Daemons -> ProcState]
  BY DEF HostInv, HostType, Started, Moved, ProcState
<1>2. \A e \in Daemons : rival'[e] <=>
        (rival[e] \/ Up(e) \/ (e = d /\ \E f \in Daemons : Up(f)))
  BY DEF Started
<1>3. HostType'
  <2>1. rival' \in [Daemons -> BOOLEAN] BY DEF Started, HostInv, HostType
  <2> QED BY <1>1, <2>1 DEF HostInv, HostType
<1>4. RivalInv'
  <2> SUFFICES ASSUME NEW e \in Daemons, NEW f \in Daemons, e # f, Up(e)', Up(f)'
               PROVE  rival'[e] /\ rival'[f]
    BY DEF RivalInv
  <2>1. (e = d \/ Up(e)) /\ (f = d \/ Up(f)) BY <1>1 DEF Up
  <2> QED BY <1>2, <2>1
<1>5. PathInv'
  <2> SUFFICES ASSUME NEW e \in Daemons, ~rival'[e]
               PROVE  /\ proc'[e] # "failed"
                      /\ proc'[e] = "cleared" => sock' = NoDaemon
                      /\ proc'[e] \in {"bound", "listening"} => sock' = e
    BY DEF PathInv
  <2>1. ~rival[e] BY <1>2
  <2> QED BY <1>1, <2>1 DEF HostInv, PathInv
<1> QED BY <1>3, <1>4, <1>5 DEF HostInv

\* One process moves on, to a place it can reach alone; nobody starts.
LEMMA MovedKeeps ==
  ASSUME HostInv, NEW d \in Daemons, NEW to \in ProcState, Moved(d, to), rival' = rival,
         Up(d) \/ to = proc[d],
         sock' \in Daemons \cup {NoDaemon},
         sock' # sock => Up(d),
         ~rival[d] => /\ to # "failed"
                      /\ to = "cleared" => sock' = NoDaemon
                      /\ to \in {"bound", "listening"} => sock' = d,
         client' \in [Clients -> [pc : {"dial", "poll", "connected", "failed"},
                                  child : Daemons \cup {NoDaemon}]],
         \A c \in Clients : client'[c].pc = "poll" => client'[c].child \in Daemons
  PROVE  HostInv'
<1>1. /\ proc'[d] = to /\ \A e \in Daemons : e # d => proc'[e] = proc[e]
      /\ proc' \in [Daemons -> ProcState]
  BY DEF HostInv, HostType, Moved
<1>2. HostType' BY <1>1 DEF HostInv, HostType
<1>3. \A e \in Daemons : Up(e)' => Up(e) BY <1>1 DEF Up
<1>4. RivalInv' BY <1>3 DEF HostInv, RivalInv
<1>5. PathInv'
  <2> SUFFICES ASSUME NEW e \in Daemons, ~rival'[e]
               PROVE  /\ proc'[e] # "failed"
                      /\ proc'[e] = "cleared" => sock' = NoDaemon
                      /\ proc'[e] \in {"bound", "listening"} => sock' = e
    BY DEF PathInv
  <2>1. CASE e = d BY <1>1, <2>1
  <2>2. CASE e # d /\ sock' = sock BY <1>1, <2>2 DEF HostInv, PathInv
  <2>3. CASE e # d /\ sock' # sock
    <3>1. ~Up(e) BY <2>3 DEF HostInv, RivalInv
    <3>2. proc'[e] = proc[e] /\ ~rival[e] BY <1>1, <2>3
    <3> QED BY <3>1, <3>2 DEF HostInv, PathInv, Up
  <2> QED BY <2>1, <2>2, <2>3
<1> QED BY <1>2, <1>4, <1>5 DEF HostInv

\* The step lemma of the daemons.
LEMMA HostKeeps == ASSUME HostInv, HostStep PROVE HostInv'
<1> DEFINE ClientOK(cl) ==
      /\ cl \in [Clients -> [pc : {"dial", "poll", "connected", "failed"},
                             child : Daemons \cup {NoDaemon}]]
      /\ \A c \in Clients : cl[c].pc = "poll" => cl[c].child \in Daemons
<1>1. ClientOK(client) BY DEF HostInv, HostType
<1>2. ASSUME NEW d \in Daemons, Start(d) PROVE HostInv'
  <2>1. ClientOK(client') BY <1>1, <1>2 DEF Start
  <2> QED BY <1>2, <2>1, StartedKeeps DEF Start
<1>3. ASSUME NEW d \in Daemons,
             Clear(d) \/ Listen(d) \/ Chmod(d) \/ Signal(d) \/ Exit(d) \/ Crash(d)
      PROVE  HostInv'
  <2>1. rival' = rival /\ client' = client /\ Up(d)
    BY <1>3 DEF Clear, Listen, Chmod, Signal, Exit, Crash, Up
  <2>2. PICK to \in ProcState : Moved(d, to) /\ sock' \in Daemons \cup {NoDaemon}
              /\ (~rival[d] => /\ to # "failed"
                               /\ to = "cleared" => sock' = NoDaemon
                               /\ to \in {"bound", "listening"} => sock' = d)
    <3>1. CASE Clear(d) BY <3>1 DEF Clear, ProcState
    <3>2. CASE Listen(d)
      <4>1. CASE sock = NoDaemon BY <3>2, <4>1 DEF Listen, ProcState
      <4>2. CASE sock # NoDaemon
        BY <3>2, <4>2 DEF Listen, ProcState, HostInv, HostType, PathInv
      <4> QED BY <4>1, <4>2
    <3>3. CASE Chmod(d)
      <4>1. CASE sock = NoDaemon
        BY <3>3, <4>1, HostAssumption DEF Chmod, ProcState, HostInv, HostType, PathInv
      <4>2. CASE sock # NoDaemon
        BY <3>3, <4>2 DEF Chmod, ProcState, HostInv, HostType, PathInv
      <4> QED BY <4>1, <4>2
    <3>4. CASE Signal(d) BY <3>4 DEF Signal, ProcState
    <3>5. CASE Exit(d) BY <3>5 DEF Exit, ProcState
    <3>6. CASE Crash(d) BY <3>6 DEF Crash, ProcState, HostInv, HostType
    <3> QED BY <1>3, <3>1, <3>2, <3>3, <3>4, <3>5, <3>6
  <2>3. ClientOK(client') BY <1>1, <2>1
  <2> QED BY <2>1, <2>2, <2>3, MovedKeeps
<1>4. ASSUME NEW c \in Clients, Dial(c) PROVE HostInv'
  <2>1. CASE Answers(sock)
    <3>1. UNCHANGED <<proc, rival, sock>> /\ client' = [client EXCEPT ![c].pc = "connected"]
      BY <1>4, <2>1 DEF Dial
    <3>2. ClientOK(client') BY <1>1, <3>1
    <3> QED BY <3>1, <3>2 DEF HostInv, HostType, RivalInv, PathInv, Up
  <2>2. CASE ~Answers(sock)
    <3>1. PICK d \in Daemons :
            Started(d) /\ client' = [client EXCEPT ![c] = [pc |-> "poll", child |-> d]]
      BY <1>4, <2>2 DEF Dial
    <3>2. sock' = sock BY <1>4 DEF Dial
    <3>3. ClientOK(client') BY <1>1, <3>1
    <3> QED BY <3>1, <3>2, <3>3, StartedKeeps
  <2> QED BY <2>1, <2>2
<1>5. ASSUME NEW c \in Clients, Poll(c) PROVE HostInv'
  <2>1. UNCHANGED <<proc, rival, sock>> BY <1>5 DEF Poll
  <2>2. ClientOK(client') BY <1>1, <1>5 DEF Poll
  <2> QED BY <2>1, <2>2 DEF HostInv, HostType, RivalInv, PathInv, Up
<1>6. ASSUME NEW c \in Clients, GiveUp(c) PROVE HostInv'
  <2>1. PICK d \in Daemons : d = client[c].child /\ UNCHANGED <<sock, rival>>
               /\ Moved(d, IF Up(d) THEN "exited" ELSE proc[d])
    BY <1>1, <1>6 DEF GiveUp
  <2>2. ClientOK(client') BY <1>1, <1>6 DEF GiveUp
  <2>3. PICK to \in ProcState : Moved(d, to) /\ to = IF Up(d) THEN "exited" ELSE proc[d]
    BY <2>1 DEF ProcState, HostInv, HostType
  <2>4. ~rival[d] => /\ to # "failed"
                     /\ to = "cleared" => sock' = NoDaemon
                     /\ to \in {"bound", "listening"} => sock' = d
    BY <2>1, <2>3 DEF HostInv, PathInv
  <2>5. sock' \in Daemons \cup {NoDaemon} /\ (Up(d) \/ to = proc[d]) /\ sock' = sock
    BY <2>1, <2>3 DEF HostInv, HostType
  <2> QED BY <2>1, <2>2, <2>3, <2>4, <2>5, MovedKeeps
<1> QED BY <1>2, <1>3, <1>4, <1>5, <1>6 DEF HostStep

\* For any number of daemons and clients: a daemon that never had a rival
\* gets its socket and keeps it for as long as it listens (runServe,
\* listenUnix, dialOrStart).
THEOREM SocketKept == HostSpec => []ServesAlone
<1>1. HostInit => HostInv
  BY DEF HostInit, HostInv, HostType, RivalInv, PathInv, ProcState, Up
<1>2. HostInv /\ [HostNext]_allVars => HostInv'
  <2> SUFFICES ASSUME HostInv, [HostNext]_allVars PROVE HostInv' OBVIOUS
  <2>1. CASE UNCHANGED hostVars
    BY <2>1 DEF hostVars, HostInv, HostType, RivalInv, PathInv, Up
  <2> QED BY <2>1, HostKeeps DEF HostNext, allVars
<1>3. HostInv => ServesAlone BY DEF HostInv, PathInv, ServesAlone, Answers
<1> QED BY <1>1, <1>2, <1>3, PTL DEF HostSpec
=============================================================================
