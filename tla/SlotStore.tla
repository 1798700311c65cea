----------------------------- MODULE SlotStore ------------------------------
(***************************************************************************)
(* What the save slots promise to the games that share them.  A slot is a  *)
(* register; to save to it and to load from it takes time, and a save may  *)
(* be cut off.  A slot is sound if its last save ran alone and to its end, *)
(* or still runs alone.                                                    *)
(*                                                                         *)
(* A load of a sound slot that no save overlaps returns the last save.  If *)
(* exactly one save overlaps it, the load returns the last save, the new   *)
(* one, or fails and leaves the game alone: the register is regular then.  *)
(* If more saves overlap it, or the slot was not sound, it may return      *)
(* anything that passes for a state of the game's own scenario.            *)
(***************************************************************************)
CONSTANTS
  Games, Slots, States,
  Absent,        \* an empty slot
  Scenario,      \* the scenario of each state
  EngineScenario \* the scenario each game is played in

VARIABLES
  slot,    \* Slots -> the last save that ended well, or Absent
  sound,   \* Slots -> the last save ran alone and was not cut off
  game,    \* Games -> the state each game is in
  op,      \* Games -> what each game is doing, and to which slot
  seen,    \* Games -> the states a load may find
  saves    \* Games -> the saves a load overlaps; two stand for more or for
           \*          a slot that was not sound

Idle == [do |-> "idle", slot |-> Absent]
Own(g) == {v \in States : Scenario[v] = EngineScenario[g]}
Writers(s) == {g \in Games : op[g] = [do |-> "write", slot |-> s]}
Readers(s) == {g \in Games : op[g] = [do |-> "read", slot |-> s]}

Init ==
  /\ slot \in [Slots -> States \union {Absent}]
  /\ sound = [s \in Slots |-> TRUE]
  /\ game \in [Games -> States] /\ \A g \in Games : game[g] \in Own(g)
  /\ op = [g \in Games |-> Idle]
  /\ seen = [g \in Games |-> {}] /\ saves = [g \in Games |-> 0]

\* A game goes on by itself.
Play(g) ==
  /\ op[g] = Idle
  /\ \E v \in Own(g) : game' = [game EXCEPT ![g] = v]
  /\ UNCHANGED <<slot, sound, op, seen, saves>>

BeginSave(g, s) ==
  /\ op[g] = Idle
  /\ op' = [op EXCEPT ![g] = [do |-> "write", slot |-> s]]
  /\ sound' = [sound EXCEPT ![s] = (Writers(s) = {})]
  /\ seen' = [h \in Games |-> IF h \in Readers(s) THEN seen[h] \union {game[g]} ELSE seen[h]]
  /\ saves' = [h \in Games |->
                 IF h \in Readers(s) THEN (IF saves[h] = 0 THEN 1 ELSE 2) ELSE saves[h]]
  /\ UNCHANGED <<slot, game>>

EndSave(g) ==
  /\ op[g].do = "write"
  /\ op' = [op EXCEPT ![g] = Idle]
  /\ slot' = [slot EXCEPT ![op[g].slot] = game[g]]
  /\ UNCHANGED <<sound, game, seen, saves>>

CutSave(g) ==
  /\ op[g].do = "write"
  /\ op' = [op EXCEPT ![g] = Idle]
  /\ sound' = [sound EXCEPT ![op[g].slot] = FALSE]
  /\ UNCHANGED <<slot, game, seen, saves>>

\* A slot that a save is writing is empty until the save has ended.
BeginLoad(g, s) ==
  /\ op[g] = Idle
  /\ op' = [op EXCEPT ![g] = [do |-> "read", slot |-> s]]
  /\ seen' = [seen EXCEPT ![g] =
       CASE ~sound[s] -> {}
         [] sound[s] /\ Writers(s) = {} -> {slot[s]}
         [] OTHER -> {game[h] : h \in Writers(s)}]
  /\ saves' = [saves EXCEPT ![g] =
       CASE ~sound[s] -> 2 [] sound[s] /\ Writers(s) = {} -> 0 [] OTHER -> 1]
  /\ UNCHANGED <<slot, sound, game>>

\* What the load of game g may return.
Found(g) == Own(g) \cap (IF saves[g] = 2 THEN States ELSE seen[g])

\* A load fails, and the game stays as it is, only if a save overlaps it or
\* the slot holds nothing for this game.
Fails(g) == (saves[g] = 0 => Found(g) = {}) /\ UNCHANGED game

EndLoad(g) ==
  /\ op[g].do = "read"
  /\ (\E v \in Found(g) : game' = [game EXCEPT ![g] = v]) \/ Fails(g)
  /\ op' = [op EXCEPT ![g] = Idle]
  /\ seen' = [seen EXCEPT ![g] = {}] /\ saves' = [saves EXCEPT ![g] = 0]
  /\ UNCHANGED <<slot, sound>>

Next ==
  \/ \E g \in Games : Play(g) \/ EndSave(g) \/ CutSave(g) \/ EndLoad(g)
  \/ \E g \in Games, s \in Slots : BeginSave(g, s) \/ BeginLoad(g, s)

Spec == Init /\ [][Next]_<<slot, sound, game, op, seen, saves>>
=============================================================================
