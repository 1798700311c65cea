-------------------------------- MODULE Play --------------------------------
(***************************************************************************)
(* One game as its goroutine runs it: the state of Rules, the commands     *)
(* that reach it, and the save slots.  Commands come from two drivers that *)
(* share a game over the life of a session: the daemon's tool dispatcher   *)
(* (passthrough mode, internal/daemon/game.go) and the text game loop      *)
(* (normal mode, internal/game/loop.go).                                   *)
(*                                                                         *)
(* A command is handled completely before the next one is read.  A handler *)
(* that lets the enemies act or checks for level-ups contains a loop, so   *)
(* it takes several steps here: pc says which loop is running, and no      *)
(* command is accepted until pc is "ready" again.  A rejected command      *)
(* leaves the state as it was and is not a step.  (Narration fails only    *)
(* when the context is cancelled, after which no command follows.)         *)
(*                                                                         *)
(* The hero's death ends a run of the game loop but not the game: the      *)
(* session keeps it, and a client that reconnects resumes the same state   *)
(* (resumeGameLoop), so commands may follow a death.                       *)
(***************************************************************************)
EXTENDS Rules

CONSTANTS
  Drivers,     \* which of the two drivers send commands
  SaveSlots,   \* save slot names
  NoSave, NoDriver,
  MaxXP        \* bound: no kill that takes the experience beyond this

ASSUME PlayAssumption ==
  /\ Drivers \subseteq {"daemon", "loop"}
  /\ NoDriver \notin {"daemon", "loop"}
  /\ MaxXP \in Nat

VARIABLES
  hero, pack, dungeon, combat,   \* model.GameState, see Rules
  saves,                         \* save slot -> saved game or NoSave
  pc,                            \* "ready", "enemies" or "levelup"
  driver,                        \* whose handler is running
  iter                           \* iterations of its processEnemyTurns loop

world == <<hero, pack, dungeon, combat>>
handler == <<pc, driver, iter>>
vars == <<hero, pack, dungeon, combat, saves, pc, driver, iter>>

Snapshot == [hero |-> hero, pack |-> pack, dungeon |-> dungeon, combat |-> combat]

Init ==
  /\ hero = NewCharacter
  /\ pack = NewPack
  /\ dungeon = NewDungeon
  /\ combat = NoCombat
  /\ saves = [s \in SaveSlots |-> NoSave]
  /\ pc = "ready" /\ driver = NoDriver /\ iter = 0

\* Where a handler goes next.
Return == pc' = "ready" /\ driver' = NoDriver /\ iter' = 0
LetEnemiesAct(d) == pc' = "enemies" /\ driver' = d /\ iter' = 0
CheckLevels(d) == pc' = "levelup" /\ driver' = d /\ iter' = 0

-----------------------------------------------------------------------------
(* Engine operations on items: none of them looks at combat or at death.   *)

PickUp(i) ==
  /\ CanPickUp(pack, dungeon, i)
  /\ dungeon' = [dungeon EXCEPT !.floor[dungeon.room][i] = @ - 1]
  /\ pack' = [pack EXCEPT !.inv[i] = @ + 1]
  /\ UNCHANGED <<hero, combat, saves, handler>>

Drop(i) ==
  /\ pack.inv[i] > 0
  /\ pack' = [pack EXCEPT !.inv[i] = @ - 1]
  /\ dungeon' = [dungeon EXCEPT !.floor[dungeon.room][i] = @ + 1]
  /\ UNCHANGED <<hero, combat, saves, handler>>

Equip(i) ==
  /\ CanEquip(pack, i)
  /\ pack' = [pack EXCEPT !.inv[i] = @ - 1, !.worn[ItemType[i]] = i]
  /\ UNCHANGED <<hero, dungeon, combat, saves, handler>>

Unequip(s) ==
  /\ pack.worn[s] # NoItem
  /\ pack' = [pack EXCEPT !.worn[s] = NoItem, !.inv[pack.worn[s]] = @ + 1]
  /\ UNCHANGED <<hero, dungeon, combat, saves, handler>>

\* No turn is spent and the hero need not be alive.
UseItem(i) ==
  /\ CanUse(pack, i)
  /\ \E roll \in ItemDice[i] : hero' = Heal(hero, AtLeastOne(roll))
  /\ pack' = [pack EXCEPT !.inv[i] = @ - 1]
  /\ UNCHANGED <<dungeon, combat, saves, handler>>

-----------------------------------------------------------------------------
(* Moving, and the hero's actions in combat.  d is the driver whose        *)
(* handler makes the call and then lets the enemies act.                   *)

HeroMoves(d, exit) ==
  /\ Traversable(exit)
  /\ dungeon' = [dungeon EXCEPT !.room = exit.to, !.visited = @ \cup {exit.to}]
  /\ IF CanStartCombat(combat, dungeon')
     THEN /\ \E order \in TurnOrders(Len(RoomEnemies[exit.to])) :
                combat' = StartCombat(RoomEnemies[exit.to], order)
          /\ LetEnemiesAct(d)
     ELSE UNCHANGED <<combat, handler>>
  /\ UNCHANGED <<hero, pack, saves>>

\* A blow or a damage spell lands; h is the hero with the spell paid for.
HeroHits(d, h, t, damage) ==
  LET c   == Hit(combat, t, damage)
      xp  == hero.xp + XPAwarded(c, t)
      won == Alive(c) = {}
  IN  /\ xp <= MaxXP
      /\ combat' = AfterHit(c)
      /\ hero' = [h EXCEPT !.xp = xp, !.wonXP = IF won THEN xp ELSE @]
      /\ dungeon' = IF won THEN [dungeon EXCEPT !.cleared = @ \cup {dungeon.room}]
                    ELSE dungeon
      /\ IF won THEN CheckLevels(d) ELSE LetEnemiesAct(d)
      /\ UNCHANGED <<pack, saves>>

HeroAttacks(d, t) ==
  /\ HeroMayAct(hero, combat)
  /\ \E damage \in RollHeroDamage(pack) : HeroHits(d, hero, t, damage)

HeroDefends(d) ==
  /\ HeroMayAct(hero, combat)
  /\ combat' = Defend(combat)
  /\ LetEnemiesAct(d)
  /\ UNCHANGED <<hero, pack, dungeon, saves>>

\* Mutant: after a failed flight the enemies do not act.
HeroFleesForFree(d) ==
  /\ HeroMayAct(hero, combat)
  /\ \E roll \in 1..20 :
       combat' = IF roll <= DEX(hero.level) THEN NoCombat ELSE LoseTurn(combat)
  /\ UNCHANGED <<hero, pack, dungeon, saves, handler>>

\* A flight that succeeds ends the fight without clearing the room.
HeroFlees(d) ==
  /\ HeroMayAct(hero, combat)
  /\ \E roll \in 1..20 :
       IF roll <= DEX(hero.level)
       THEN combat' = NoCombat /\ UNCHANGED handler
       ELSE combat' = LoseTurn(combat) /\ LetEnemiesAct(d)
  /\ UNCHANGED <<hero, pack, dungeon, saves>>

CastDamage(d, s, t) ==
  /\ CanCast(hero, combat, s) /\ SpellEffect[s] = "damage"
  /\ \E roll \in SpellDice[s] : HeroHits(d, PayMP(hero, s), t, AtLeastOne(roll))

CastHeal(d, s) ==
  /\ CanCast(hero, combat, s) /\ SpellEffect[s] = "heal"
  /\ \E roll \in SpellDice[s] : hero' = PayMP(Heal(hero, AtLeastOne(roll)), s)
  /\ IF combat.active
     THEN combat' = LoseTurn(combat) /\ LetEnemiesAct(d)
     ELSE UNCHANGED <<combat, handler>>
  /\ UNCHANGED <<pack, dungeon, saves>>

-----------------------------------------------------------------------------
(* Saving copies the whole state; loading replaces the whole state.        *)

SaveGame(s) ==
  /\ saves' = [saves EXCEPT ![s] = Snapshot]
  /\ UNCHANGED <<world, handler>>

\* Mutant: loading forgets one part of the state.
LoadKeepsPack(s) ==
  /\ saves[s] # NoSave
  /\ hero' = saves[s].hero /\ dungeon' = saves[s].dungeon /\ combat' = saves[s].combat
  /\ UNCHANGED <<pack, saves, handler>>

LoadGame(s) ==
  /\ saves[s] # NoSave
  /\ hero' = saves[s].hero /\ pack' = saves[s].pack
  /\ dungeon' = saves[s].dungeon /\ combat' = saves[s].combat
  /\ UNCHANGED <<saves, handler>>

-----------------------------------------------------------------------------
(* The two loops a handler may end in.                                     *)

\* Mutant: the cap counts the enemies that are alive.
MaxIterAlive(d) == AtLeastOne(Cardinality(Alive(combat)))

\* The cap on the iterations is taken from the turn order at the call.
MaxIter(d) ==
  AtLeastOne(IF d = "daemon" THEN 2 * Cardinality(DOMAIN combat.order)
             ELSE Cardinality(DOMAIN combat.order))

EnemiesPending == iter < MaxIter(driver) /\ combat.active /\ ~IsHeroTurn(combat)

\* One call of the engine's ProcessEnemyTurn and its result.
EnemyActs(turn) ==
  LET won == ~turn.combat.active
  IN  /\ combat' = turn.combat
      /\ hero' = [hero EXCEPT !.hp = @ - turn.damage,
                              !.wonXP = IF won THEN hero.xp ELSE @]
      /\ dungeon' = IF won THEN [dungeon EXCEPT !.cleared = @ \cup {dungeon.room}]
                    ELSE dungeon
      /\ UNCHANGED <<pack, saves>>

\* The dispatcher keeps going until the hero's turn or the end of the fight.
DaemonEnemyTurn(turn) ==
  /\ driver = "daemon"
  /\ EnemyActs(turn)
  /\ iter' = iter + 1 /\ UNCHANGED <<pc, driver>>

\* Mutant: no level-up check after the last enemy has fled.
LoopEnemyTurnNoLevels(turn) ==
  /\ driver = "loop"
  /\ EnemyActs(turn)
  /\ IF turn.action = "attack" /\ hero'.hp <= 0 THEN Return
     ELSE iter' = iter + 1 /\ UNCHANGED <<pc, driver>>

\* The game loop returns at once when the hero dies, and checks for a
\* level-up when the last enemy has fled.
LoopEnemyTurn(turn) ==
  /\ driver = "loop"
  /\ EnemyActs(turn)
  /\ IF turn.action = "attack" /\ hero'.hp <= 0 THEN Return
     ELSE IF ~combat'.active THEN CheckLevels(driver)
     ELSE iter' = iter + 1 /\ UNCHANGED <<pc, driver>>

EnemyTurn ==
  /\ pc = "enemies" /\ EnemiesPending
  /\ \E roll \in RollEnemyDamage(combat.tmpl[combat.order[combat.turn]]) :
       LET turn == ProcessEnemyTurn(pack, combat, roll)
       IN  DaemonEnemyTurn(turn) \/ LoopEnemyTurn(turn)

EnemyTurnsOver ==
  /\ pc = "enemies" /\ ~EnemiesPending
  /\ Return
  /\ UNCHANGED <<world, saves>>

LevelStep ==
  /\ pc = "levelup" /\ CanLevelUp(hero)
  /\ hero' = LevelUp(hero)
  /\ UNCHANGED <<pack, dungeon, combat, saves, handler>>

LevelsChecked ==
  /\ pc = "levelup" /\ ~CanLevelUp(hero)
  /\ Return
  /\ UNCHANGED <<world, saves>>

HandlerStep == EnemyTurn \/ EnemyTurnsOver \/ LevelStep \/ LevelsChecked

-----------------------------------------------------------------------------
(* The daemon's dispatcher: one tool call in passthrough mode.  The item   *)
(* tools and move are refused during combat; use_item, save_game and       *)
(* load_game are not.  new_game reaches a running game as game.new_game.   *)

DispatchItem ==
  /\ ~combat.active
  /\ \/ \E i \in Items : PickUp(i) \/ Drop(i) \/ Equip(i)
     \/ \E s \in Slots : Unequip(s)

DispatchMove ==
  ~combat.active /\ \E exit \in Exits[dungeon.room] : HeroMoves("daemon", exit)

DispatchAttack == \E t \in Alive(combat) : HeroAttacks("daemon", t)
DispatchDefend == HeroDefends("daemon")
DispatchFlee == HeroFlees("daemon")

DispatchCastSpell ==
  \E s \in Spells : \/ CastHeal("daemon", s)
                    \/ \E t \in Alive(combat) : CastDamage("daemon", s, t)

DispatchUseItem == \E i \in Items : UseItem(i)

DispatchSaveLoad == \E s \in SaveSlots : SaveGame(s) \/ LoadGame(s)

DispatchNewGame ==
  /\ hero' = NewCharacter /\ pack' = NewPack
  /\ dungeon' = NewDungeon /\ combat' = NoCombat
  /\ UNCHANGED <<saves, handler>>

Dispatch ==
  /\ "daemon" \in Drivers /\ pc = "ready"
  /\ \/ DispatchItem \/ DispatchMove \/ DispatchAttack \/ DispatchDefend
     \/ DispatchFlee \/ DispatchCastSpell \/ DispatchUseItem
     \/ DispatchSaveLoad \/ DispatchNewGame

-----------------------------------------------------------------------------
(* The game loop: one interpreted line in normal mode.                     *)

LoopItem ==
  /\ ~combat.active   \* combatBlockedActions
  /\ \/ \E i \in Items : PickUp(i) \/ Drop(i) \/ Equip(i)
     \/ \E s \in Slots : Unequip(s)

LoopMove ==
  ~combat.active /\ \E exit \in Exits[dungeon.room] : HeroMoves("loop", exit)

LoopAttack == \E t \in Alive(combat) : HeroAttacks("loop", t)
LoopDefend == HeroDefends("loop")
LoopFlee == HeroFlees("loop")

LoopCast ==
  \E s \in Spells : \/ CastHeal("loop", s)
                    \/ \E t \in Alive(combat) : CastDamage("loop", s, t)

LoopUse == \E i \in Items : UseItem(i)
LoopSaveLoad == \E s \in SaveSlots : SaveGame(s) \/ LoadGame(s)

LoopDispatch ==
  /\ "loop" \in Drivers /\ pc = "ready"
  /\ \/ LoopItem \/ LoopMove \/ LoopAttack \/ LoopDefend
     \/ LoopFlee \/ LoopCast \/ LoopUse \/ LoopSaveLoad

-----------------------------------------------------------------------------
Next == Dispatch \/ LoopDispatch \/ HandlerStep

Spec == Init /\ [][Next]_vars

\* The game goroutine keeps running its handler; players owe nothing.
FairSpec == Spec /\ WF_vars(HandlerStep)

-----------------------------------------------------------------------------
(* Properties.                                                             *)

GameOK(g) ==
  /\ g.hero \in Hero /\ g.pack \in Pack
  /\ g.dungeon \in Dungeon /\ CombatOK(g.combat)

\* Every variable, and every saved game, has the shape the code gives it.
TypeOK ==
  /\ GameOK(Snapshot)
  /\ DOMAIN saves = SaveSlots
  /\ \A s \in SaveSlots : saves[s] = NoSave \/ GameOK(saves[s])
  /\ pc \in {"ready", "enemies", "levelup"}
  /\ driver \in {"daemon", "loop", NoDriver}
  /\ iter \in Nat

\* No sequence of wounds, potions, spells, level-ups and loads takes the
\* hero's hit or magic points beyond their maximum (Heal caps, CheckLevelUp
\* raises both; CastSpell pays only what is there).
VitalsBounded == hero.hp <= hero.maxHP /\ hero.mp <= hero.maxMP

\* Combat goes on exactly as long as someone is left to fight, is never
\* fought in a room already cleared, and it is always the turn of the hero
\* or of an enemy that is still alive: advanceTurn and endCombat leave no
\* dead enemy to act and no fight without an end.
CombatSound ==
  combat.active => /\ Alive(combat) # {}
                   /\ dungeon.room \notin dungeon.cleared
                   /\ combat.turn \in TurnStops(combat)

\* A defensive stance does not outlive the round it was taken for: whenever
\* it is the hero's turn again advanceTurn has dropped it.
StanceExpires == combat.active /\ IsHeroTurn(combat) => ~combat.defending

\* A dead hero is always still in combat: although processEnemyTurns of the
\* dispatcher goes on after the death, the fight cannot end in a victory of
\* a dead hero, who would then walk on (move does not look at hit points).
DeadHeroStaysInCombat == hero.hp <= 0 => combat.active

\* The cap of processEnemyTurns is only a safety net: the enemies have all
\* acted before it is reached, in either driver.
CapNeverBinds ==
  pc = "enemies" /\ combat.active /\ ~IsHeroTurn(combat) => iter < MaxIter(driver)

\* Between two commands of a fight it is the hero's turn, as the comment on
\* processEnemyTurns says.
RestsOnHeroTurn == pc = "ready" /\ combat.active => IsHeroTurn(combat)

\* Whenever a command is awaited, a living hero in combat is able to act.
LivingHeroCanAct == hero.hp > 0 => RestsOnHeroTurn

\* "Level-up checks occur after each combat victory": between two commands
\* the hero has every level the experience held at the last victory buys.
VictoryLevels ==
  pc = "ready" =>
    \A l \in 2..MaxLevel : hero.wonXP >= XPThreshold[l] => hero.level >= l

\* The hero never carries more than the limit, worn items included, however
\* items are shuffled between floor, pack and slots.
CarryLimit == TotalCarryWeight(pack) <= MaxCarryWeight

\* Items are neither duplicated nor lost: over all floors, the pack and the
\* slots, gear is exactly what the scenario seeded, and consumables only
\* ever get fewer.
ItemCount(i) ==
  SumFunction([r \in Rooms |-> dungeon.floor[r][i]]) + pack.inv[i] +
  Cardinality({s \in Slots : pack.worn[s] = i})

ItemsConserved ==
  \A i \in Items :
    LET seeded == SumFunction([r \in Rooms |-> RoomItems[r][i]])
    IN  IF ItemType[i] = "consumable" THEN ItemCount(i) <= seeded
        ELSE ItemCount(i) = seeded

\* Every handler finishes: the enemies' turns and the level-up loop end.
HandlerReturns == (pc # "ready") ~> (pc = "ready")

=============================================================================
