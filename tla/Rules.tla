------------------------------- MODULE Rules -------------------------------
(***************************************************************************)
(* The rules machine of internal/engine as operators on values.  The       *)
(* engine keeps no state of its own: every Go method takes *GameState and  *)
(* either rejects the call or changes the state in place.  Here a method   *)
(* is a guard (its early returns) and an operator giving the new value of  *)
(* the part of the state it changes; module Play puts them together.       *)
(*                                                                         *)
(* A game state is four values:                                            *)
(*   hero     Party[0]: hit and magic points, experience and level         *)
(*   pack     Party[0].Inventory (a multiset: item IDs are types, so two   *)
(*            equal IDs are interchangeable) and Party[0].Equipped         *)
(*   dungeon  current room, visited and cleared rooms, items on the floor  *)
(*   combat   model.CombatState                                            *)
(* Left out: the adventure log, timestamps, names and descriptions, and    *)
(* Combat.Round, none of which any rule reads.                             *)
(***************************************************************************)
EXTENDS Integers, Sequences, FiniteSetsExt, Functions

CONSTANTS
  Rooms, StartRoom,
  Exits,          \* room -> set of connections [to, type]
  RoomEnemies,    \* room -> sequence of enemy templates
  RoomItems,      \* room -> [Items -> Nat], the scenario's seed
  Templates,      \* enemy templates
  EnemyHP,        \* template -> hit points
  EnemyDice,      \* template -> possible results of its attack dice
  Cautious,       \* templates whose AI is "cautious"
  Items, NoItem,  \* item IDs, and the empty string in an equipment slot
  ItemType,       \* item -> a slot name, "consumable" or anything else
  ItemWeight,     \* item -> weight, in the smallest unit the scenario uses
  ItemDice,       \* item -> results of its damage or power dice ({}: none)
  ItemDefense,    \* item -> armour defence
  Spells,         \* spells the hero's class may cast (classCanCast)
  SpellCost, SpellEffect, SpellDice,
  StartHP, StartMP, StartCON, StartDEX,
  ConIsPrimary, DexIsPrimary,   \* does a level-up raise the stat?
  HPPerLevel, MPPerLevel,
  MaxLevel,
  XPThreshold     \* level (2..MaxLevel) -> experience needed

ConnTypes == {"open", "stairway", "locked", "hidden"}
Slots == {"weapon", "armor", "ring", "amulet"}
MaxCarryWeight == 50

(***************************************************************************)
(* What the rules need of a scenario and a character class.  Validate      *)
(* checks the references from rooms to rooms and to enemies, and dice.     *)
(* The rest is the practice of every shipped scenario and is checked       *)
(* nowhere: items in rooms are defined, weights, defences and costs are    *)
(* not negative, templates have hit points (one with 0 starts a fight      *)
(* nobody can win).  Weights are float64 in the code and multiples of one  *)
(* unit here.  Dice results below 1 are raised to 1 by the callers.  A     *)
(* scenario is a file, so its rooms and items are finitely many; the       *)
(* experience tables are positive from level 2 on and increase with the    *)
(* level.                                                                  *)
(***************************************************************************)
ASSUME WorldAssumption ==
  /\ IsFiniteSet(Rooms) /\ StartRoom \in Rooms
  /\ Exits \in [Rooms -> SUBSET [to : Rooms, type : ConnTypes]]
  /\ RoomEnemies \in [Rooms -> Seq(Templates)]
  /\ RoomItems \in [Rooms -> [Items -> Nat]]

ASSUME EnemyAssumption ==
  /\ EnemyHP \in [Templates -> Nat \ {0}]
  /\ EnemyDice \in [Templates -> SUBSET Int]
  /\ Cautious \subseteq Templates

ASSUME ItemAssumption ==
  /\ IsFiniteSet(Items) /\ NoItem \notin Items
  /\ ItemType \in [Items -> STRING]
  /\ ItemWeight \in [Items -> Nat]
  /\ ItemDice \in [Items -> SUBSET Int]
  /\ ItemDefense \in [Items -> Nat]

ASSUME SpellAssumption ==
  /\ SpellCost \in [Spells -> Nat]
  /\ SpellEffect \in [Spells -> {"damage", "heal"}]
  /\ SpellDice \in [Spells -> SUBSET Int]

ASSUME ClassAssumption ==
  /\ StartHP \in Nat \ {0} /\ StartMP \in Nat
  /\ StartCON \in Nat /\ StartDEX \in Nat
  /\ ConIsPrimary \in BOOLEAN /\ DexIsPrimary \in BOOLEAN
  /\ HPPerLevel \in Nat /\ MPPerLevel \in Nat
  /\ MaxLevel \in Nat \ {0}
  /\ XPThreshold \in [2..MaxLevel -> Nat \ {0}]
  /\ \A k, l \in 2..MaxLevel : k <= l => XPThreshold[k] <= XPThreshold[l]

AtLeastOne(n) == IF n < 1 THEN 1 ELSE n

-----------------------------------------------------------------------------
(* The hero.                                                               *)

Hero == [hp : Int, maxHP : Nat, mp : Nat, maxMP : Nat,
         xp : Nat, level : 1..MaxLevel,
         wonXP : Nat]   \* history: xp at the last combat victory

NewCharacter ==
  [hp |-> StartHP, maxHP |-> StartHP, mp |-> StartMP, maxMP |-> StartMP,
   xp |-> 0, level |-> 1, wonXP |-> 0]

\* Go's integer division truncates toward zero.
StatModifier(stat) ==
  IF stat >= 10 THEN (stat - 10) \div 2 ELSE -((10 - stat) \div 2)

\* A primary stat has been raised once per level gained.
CON(level) == StartCON + (IF ConIsPrimary THEN level - 1 ELSE 0)
DEX(level) == StartDEX + (IF DexIsPrimary THEN level - 1 ELSE 0)

\* The loop condition and one iteration of CheckLevelUp.
CanLevelUp(h) == h.level < MaxLevel /\ h.xp >= XPThreshold[h.level + 1]

\* Mutant: the level is raised in a copy of the hero.
LevelUpInACopy(h) == h

LevelUp(h) ==
  LET gain == AtLeastOne(HPPerLevel + StatModifier(CON(h.level + 1)))
  IN  [h EXCEPT !.level = @ + 1,
                !.maxHP = @ + gain, !.hp = @ + gain,
                !.maxMP = @ + MPPerLevel, !.mp = @ + MPPerLevel]

\* Mutant: healing is not capped.
HealUncapped(h, power) == [h EXCEPT !.hp = @ + power]

\* Healing, by potion or by spell, stops at the maximum.
Heal(h, power) ==
  [h EXCEPT !.hp = IF @ + power > h.maxHP THEN h.maxHP ELSE @ + power]

-----------------------------------------------------------------------------
(* Items.                                                                  *)

Pack == [inv : [Items -> Nat], worn : [Slots -> Items \cup {NoItem}]]

NewPack == [inv |-> [i \in Items |-> 0], worn |-> [s \in Slots |-> NoItem]]

TotalCarryWeight(p) ==
  SumFunction([i \in Items |-> p.inv[i] * ItemWeight[i]]) +
  SumFunction([s \in Slots |-> IF p.worn[s] = NoItem THEN 0 ELSE ItemWeight[p.worn[s]]])

\* Mutant: the weight of the new item itself is not counted.
CanPickUpLast(p, d, i) ==
  d.floor[d.room][i] > 0 /\ TotalCarryWeight(p) <= MaxCarryWeight

CanPickUp(p, d, i) ==
  /\ d.floor[d.room][i] > 0
  /\ TotalCarryWeight(p) + ItemWeight[i] <= MaxCarryWeight

CanEquip(p, i) ==
  /\ p.inv[i] > 0
  /\ ItemType[i] \in Slots
  /\ p.worn[ItemType[i]] = NoItem

\* A consumable works only if its power dice are defined.
CanUse(p, i) ==
  p.inv[i] > 0 /\ ItemType[i] = "consumable" /\ ItemDice[i] # {}

\* 1d2 unless a weapon with damage dice is equipped.
RollHeroDamage(p) ==
  LET w == p.worn["weapon"]
  IN  IF w # NoItem /\ ItemDice[w] # {}
      THEN {AtLeastOne(n) : n \in ItemDice[w]} ELSE {1, 2}

\* Halve for the stance, then subtract the armour, never below 1.
ApplyDefenses(p, damage, defending) ==
  LET halved == IF defending THEN damage \div 2 ELSE damage
      a == p.worn["armor"]
  IN  AtLeastOne(halved - (IF a = NoItem THEN 0 ELSE ItemDefense[a]))

-----------------------------------------------------------------------------
(* Rooms.                                                                  *)

Dungeon == [room : Rooms, visited : SUBSET Rooms, cleared : SUBSET Rooms,
            floor : [Rooms -> [Items -> Nat]]]

NewDungeon == [room |-> StartRoom, visited |-> {StartRoom}, cleared |-> {},
               floor |-> RoomItems]

Traversable(exit) == exit.type \in {"open", "stairway"}

-----------------------------------------------------------------------------
(* Combat.  Enemy i of the fight is number i of the room's list; the hero  *)
(* is combatant 0.  turn is CurrentTurn + 1.                               *)

HERO == 0

NoCombat == [active |-> FALSE, tmpl |-> <<>>, hp |-> [i \in 1..0 |-> 0],
             order |-> [p \in 1..0 |-> 0], turn |-> 1, defending |-> FALSE]

\* Initiative is DEX + 1d20 against 10 + 1d20 each, the hero winning ties:
\* with a DEX below 30 every order can come up.
TurnOrders(n) == Bijection(1..n + 1, 0..n)

\* A fight against n enemies: the hero and each of them once in the order.
Fights(n) ==
  [active : {TRUE}, tmpl : [1..n -> Templates], hp : [1..n -> Nat],
   order : TurnOrders(n), turn : 1..n + 1, defending : BOOLEAN]

\* Without a fight the record is zeroed, as endCombat leaves it.
CombatOK(c) ==
  c = NoCombat \/ (c.tmpl \in Seq(Templates) \ {<<>>} /\ c \in Fights(Len(c.tmpl)))

IsHeroTurn(c) == DOMAIN c.order # {} /\ c.order[c.turn] = HERO

Alive(c) == {i \in DOMAIN c.hp : c.hp[i] > 0}

\* Positions at which advanceTurn stops: the hero's and a living enemy's.
TurnStops(c) == {p \in DOMAIN c.order : c.order[p] = HERO \/ c.order[p] \in Alive(c)}

\* Mutant: the stance is kept at the hero's turn.
AdvanceTurnInStance(c) ==
  LET later == {p \in TurnStops(c) : p > c.turn}
  IN  [c EXCEPT !.turn = IF later # {} THEN Min(later) ELSE Min(TurnStops(c))]

\* The next stop after the current position, cyclically; the current
\* position again when there is none.  The stance ends at the hero's turn.
AdvanceTurn(c) ==
  LET later == {p \in TurnStops(c) : p > c.turn}
      next  == IF later # {} THEN Min(later)
               ELSE IF TurnStops(c) # {} THEN Min(TurnStops(c)) ELSE c.turn
  IN  [c EXCEPT !.turn = next,
                !.defending = @ /\ c.order[next] # HERO]

CanStartCombat(c, d) ==
  ~c.active /\ d.room \notin d.cleared /\ RoomEnemies[d.room] # <<>>

StartCombat(ts, order) ==
  [active |-> TRUE, tmpl |-> ts,
   hp |-> [i \in 1..Len(ts) |-> EnemyHP[ts[i]]],
   order |-> order, turn |-> 1, defending |-> FALSE]

\* Mutant: a dead hero may act.
HeroMayActDead(h, c) == c.active /\ IsHeroTurn(c)

\* The guard shared by Attack, Defend and Flee.
HeroMayAct(h, c) == c.active /\ h.hp > 0 /\ IsHeroTurn(c)

\* Damage to target t: hit points stop at 0, a kill earns the maximum.
Hit(c, t, damage) ==
  [c EXCEPT !.hp[t] = IF @ > damage THEN @ - damage ELSE 0]

XPAwarded(c, t) == IF c.hp[t] = 0 THEN EnemyHP[c.tmpl[t]] ELSE 0

\* Mutant: nobody looks whether an enemy is left.
AfterHitNoEnd(c) == AdvanceTurn([c EXCEPT !.defending = FALSE])

\* The end of a hero action that hurt an enemy.
AfterHit(c) ==
  IF Alive(c) = {} THEN NoCombat ELSE AdvanceTurn([c EXCEPT !.defending = FALSE])

\* Defend takes the stance first, then passes the turn.
Defend(c) == AdvanceTurn([c EXCEPT !.defending = TRUE])

\* A failed flight, and a healing spell in combat, just cost the turn.
LoseTurn(c) == AdvanceTurn([c EXCEPT !.defending = FALSE])

\* A cautious enemy leaves at 30% of its hit points.
Flees(c, e) == c.tmpl[e] \in Cautious /\ c.hp[e] * 100 <= EnemyHP[c.tmpl[e]] * 30

\* Attack dice that do not parse count as 1.
RollEnemyDamage(t) ==
  IF EnemyDice[t] = {} THEN {1} ELSE {AtLeastOne(n) : n \in EnemyDice[t]}

\* One enemy turn: what it did, the damage to the hero, the new combat.
ProcessEnemyTurn(p, c, roll) ==
  LET e    == c.order[c.turn]
      gone == AdvanceTurn([c EXCEPT !.hp[e] = 0])
  IN  IF c.hp[e] = 0 THEN [action |-> "skip", damage |-> 0, combat |-> AdvanceTurn(c)]
      ELSE IF Flees(c, e)
           THEN [action |-> "flee", damage |-> 0,
                 combat |-> IF Alive(gone) = {} THEN NoCombat ELSE gone]
           ELSE [action |-> "attack",
                 damage |-> ApplyDefenses(p, roll, c.defending),
                 combat |-> AdvanceTurn(c)]

-----------------------------------------------------------------------------
(* Spells.  The magic points are spent only if the effect took place.      *)

\* Mutant: the magic points are not checked.
CanCastUnpaid(h, c, s) ==
  /\ h.hp > 0
  /\ c.active => IsHeroTurn(c)
  /\ SpellEffect[s] = "damage" => c.active

CanCast(h, c, s) ==
  /\ h.hp > 0
  /\ h.mp >= SpellCost[s]
  /\ c.active => IsHeroTurn(c)
  /\ SpellEffect[s] = "damage" => c.active

PayMP(h, s) == [h EXCEPT !.mp = @ - SpellCost[s]]

=============================================================================
