------------------------------- MODULE Saves --------------------------------
(***************************************************************************)
(* Saving and loading: internal/save, the engine's SaveGame and LoadGame,  *)
(* and the files they share.  Every game of every daemon of a user works   *)
(* on the same directory and nothing serialises them.  A file is a         *)
(* sequence of pieces; a state v is written as the document Doc[v], in     *)
(* place, from the beginning of the file.  The documents of two states     *)
(* share most of their pieces and nothing in a piece tells whose it is, so *)
(* what is left of two of them may be the document of a third state.       *)
(***************************************************************************)
EXTENDS Naturals, Sequences, SequencesExt

CONSTANTS
  Games, States, Absent, Lost, Scenario, EngineScenario,
  Slots,   \* slot names the pattern of validateSlot accepts
  Names,   \* what players type as a slot name
  Pieces,  \* what documents consist of
  Doc,     \* the document of each state
  MinRoom  \* pieces that the smallest buffer of ReadFile takes

ASSUME SavesAssumption ==
  /\ Doc \in [States -> Seq(Pieces)] /\ \A v \in States : Doc[v] # <<>>
  \* An object ends with its closing brace: no document begins another.
  /\ \A v, w \in States : IsPrefix(Doc[v], Doc[w]) => v = w
  /\ Absent \notin States /\ Lost \notin States /\ Absent # Lost
  /\ Absent \notin Seq(Pieces)            \* no file is not a file
  /\ "quicksave" \in Slots /\ Absent \notin Slots
  /\ MinRoom \in Nat \ {0}

VARIABLES
  file,   \* Slots -> the pieces in the slot's file, or Absent
  game,   \* Games -> the state each game is in
  op,     \* Games -> what each game's goroutine is doing, and to which slot
  buf,    \* Games -> what ReadFile has read so far
  room,   \* Games -> what the buffer of ReadFile takes
  last,   \* history: the state of the last save of each slot that ended well
  sound,  \* history: the last save of each slot ran alone and was not cut off
  seen,   \* history: Games -> the states a load may have found in its slot
  saves   \* history: Games -> saves beside the load, two standing for more

histVars == <<last, sound, seen, saves>>
savesVars == <<file, game, op, buf, room, histVars>>

Idle == [do |-> "idle", slot |-> Absent]
Own(g) == {v \in States : Scenario[v] = EngineScenario[g]}

\* Unmarshal: one whole document and nothing after it.
Decode(c) ==
  IF \E v \in States : c = Doc[v] THEN CHOOSE v \in States : c = Doc[v] ELSE Lost

\* write(2) at the beginning of a file opened without O_APPEND: what lies
\* beyond the new pieces stays.
Overwrite(c, d) == [i \in 1..(IF Len(c) > Len(d) THEN Len(c) ELSE Len(d)) |->
                      IF i <= Len(d) THEN d[i] ELSE c[i]]

\* The directory may hold saves of earlier games.
Init ==
  /\ last \in [Slots -> States \union {Absent}]
  /\ file = [s \in Slots |-> IF last[s] = Absent THEN Absent ELSE Doc[last[s]]]
  /\ game \in [Games -> States] /\ \A g \in Games : game[g] \in Own(g)
  /\ op = [g \in Games |-> Idle]
  /\ buf = [g \in Games |-> <<>>] /\ room = [g \in Games |-> MinRoom]
  /\ sound = [s \in Slots |-> TRUE]
  /\ seen = [g \in Games |-> {}] /\ saves = [g \in Games |-> 0]

\* The empty name is the quick save, other names must match the pattern.
ValidateSlot(name) == IF name = "" THEN "quicksave" ELSE name

Writers(s) == {g \in Games : op[g] = [do |-> "write", slot |-> s]}
Readers(s) == {g \in Games : op[g] = [do |-> "read", slot |-> s]}

\* The game is played between the two.
Play(g) ==
  /\ op[g] = Idle
  /\ \E v \in Own(g) : game' = [game EXCEPT ![g] = v]
  /\ UNCHANGED <<file, op, buf, room, histVars>>

-----------------------------------------------------------------------------
(* Saving.                                                                 *)

\* History: game g begins to save to slot s, beside the loads under way.
SaveBegins(g, s) ==
  /\ sound' = [sound EXCEPT ![s] = (Writers(s) = {})]
  /\ seen' = [h \in Games |-> IF h \in Readers(s) THEN seen[h] \union {game[g]} ELSE seen[h]]
  /\ saves' = [h \in Games |->
                 IF h \in Readers(s) THEN (IF saves[h] = 0 THEN 1 ELSE 2) ELSE saves[h]]
  /\ UNCHANGED last

\* Mutant: the old file is not truncated when it is opened.
OpenOver(g) ==
  /\ op[g] = Idle
  /\ \E name \in Names :
     LET s == ValidateSlot(name) IN
     /\ s \in Slots
     /\ file' = [file EXCEPT ![s] = IF @ = Absent THEN <<>> ELSE @]
     /\ op' = [op EXCEPT ![g] = [do |-> "write", slot |-> s]]
     /\ SaveBegins(g, s)
  /\ UNCHANGED <<game, buf, room>>
\* SaveGame up to the open of WriteFile, which truncates the file.
Open(g) ==
  /\ op[g] = Idle
  /\ \E name \in Names :
     LET s == ValidateSlot(name) IN
     /\ s \in Slots
     /\ file' = [file EXCEPT ![s] = <<>>]
     /\ op' = [op EXCEPT ![g] = [do |-> "write", slot |-> s]]
     /\ SaveBegins(g, s)
  /\ UNCHANGED <<game, buf, room>>

\* The first k pieces of the document reach the file, and the save is over.
Put(g, k) ==
  /\ file' = [file EXCEPT ![op[g].slot] = Overwrite(@, SubSeq(Doc[game[g]], 1, k))]
  /\ op' = [op EXCEPT ![g] = Idle]
  /\ UNCHANGED <<game, buf, room, seen, saves>>

\* The write, and with it the save, ends well.
Write(g) ==
  /\ op[g].do = "write"
  /\ Put(g, Len(Doc[game[g]]))
  /\ last' = [last EXCEPT ![op[g].slot] = game[g]]
  /\ UNCHANGED sound

\* The write ends half-way: the disk is full and SaveGame returns the error,
\* or the process of the game ends.  A load that ends so leaves nothing behind.
Cut(g) ==
  /\ op[g].do = "write"
  /\ \E k \in 0..Len(Doc[game[g]]) - 1 : Put(g, k)
  /\ sound' = [sound EXCEPT ![op[g].slot] = FALSE]
  /\ UNCHANGED last

-----------------------------------------------------------------------------
(* Loading.                                                                *)

\* History: game g begins to load slot s.  A sound slot holds its last save,
\* or its one writer has emptied it; of any other nothing is known.
LoadBegins(g, s) ==
  /\ seen' = [seen EXCEPT ![g] =
       CASE ~sound[s] -> {}
         [] sound[s] /\ Writers(s) = {} -> {last[s]}
         [] OTHER -> {game[h] : h \in Writers(s)}]
  /\ saves' = [saves EXCEPT ![g] =
       CASE ~sound[s] -> 2 [] sound[s] /\ Writers(s) = {} -> 0 [] OTHER -> 1]
  /\ UNCHANGED <<last, sound>>

\* Mutant: a reader with a buffer of its own, whatever the file's size.
LookSmall(g) ==
  /\ op[g] = Idle
  /\ \E name \in Names :
     LET s == ValidateSlot(name) IN
     /\ s \in Slots /\ file[s] # Absent
     /\ buf' = [buf EXCEPT ![g] = <<>>] /\ room' = [room EXCEPT ![g] = MinRoom]
     /\ op' = [op EXCEPT ![g] = [do |-> "read", slot |-> s]]
     /\ LoadBegins(g, s)
  /\ UNCHANGED <<file, game>>
\* LoadGame: ReadFile opens the file, which must be there, and makes room for
\* it as it is now, and for the end of the file.
Look(g) ==
  /\ op[g] = Idle
  /\ \E name \in Names :
     LET s == ValidateSlot(name) IN
     /\ s \in Slots /\ file[s] # Absent
     /\ buf' = [buf EXCEPT ![g] = <<>>]
     /\ room' = [room EXCEPT ![g] = IF Len(file[s]) + 1 > MinRoom THEN Len(file[s]) + 1 ELSE MinRoom]
     /\ op' = [op EXCEPT ![g] = [do |-> "read", slot |-> s]]
     /\ LoadBegins(g, s)
  /\ UNCHANGED <<file, game>>

\* One read takes what there is and fits; a full buffer is made larger (by
\* more than one piece: that is to read again before anything happens).
Read(g) ==
  /\ op[g].do = "read"
  /\ LET c == file[op[g].slot]
         n == IF Len(c) < room[g] THEN Len(c) ELSE room[g]
     IN /\ Len(c) > Len(buf[g])
        /\ buf' = [buf EXCEPT ![g] = @ \o SubSeq(c, Len(@) + 1, n)]
        /\ room' = [room EXCEPT ![g] = IF n = @ THEN @ + 1 ELSE @]
  /\ UNCHANGED <<file, game, op, histVars>>

\* Nothing is left to read.
AtEnd(g) == op[g].do = "read" /\ Len(file[op[g].slot]) <= Len(buf[g])

\* What has been read is decoded and its scenario compared.
ReadEnd(g) ==
  /\ AtEnd(g)
  /\ LET v == Decode(buf[g])
     IN game' = [game EXCEPT ![g] = IF v \in Own(g) THEN v ELSE @]
  /\ op' = [op EXCEPT ![g] = Idle] /\ buf' = [buf EXCEPT ![g] = <<>>]
  /\ room' = [room EXCEPT ![g] = MinRoom]
  /\ seen' = [seen EXCEPT ![g] = {}] /\ saves' = [saves EXCEPT ![g] = 0]
  /\ UNCHANGED <<file, last, sound>>

Step(g) ==
  Play(g) \/ Open(g) \/ Write(g) \/ Cut(g) \/ Look(g) \/ Read(g) \/ ReadEnd(g)
Next == \E g \in Games : Step(g)
Spec == Init /\ [][Next]_savesVars

-----------------------------------------------------------------------------
(* Properties                                                              *)

\* A slot that no save is writing holds the state of the last save that
\* ended well, whole and readable, unless a save of it has overlapped
\* another or was cut off since; the next save that runs alone mends it
\* (save.Save writes in place and nothing serialises the games).
SlotHoldsLastSave ==
  \A s \in Slots : sound[s] /\ Writers(s) = {} =>
    last[s] = IF file[s] = Absent THEN Absent ELSE Decode(file[s])

Store == INSTANCE SlotStore WITH slot <- last

\* The files are the registers of SlotStore, whatever else goes on: a load of
\* a slot whose last save ran alone and to its end returns that save, if no
\* save overlaps the load, and that save, the new one or nothing, if one
\* does.  Other loads may return a mixture, but none that is a state of
\* another scenario (save.Save, save.Load, LoadGame).
ImplementsStore == Store!Spec
=============================================================================
