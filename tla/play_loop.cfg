SPECIFICATION Spec
CONSTANTS
  Drivers = {"loop"}
  RoomEnemies <- WolfAndRat
  RoomItems <- PotionAndSword
  SaveSlots = {}
  MaxXP = 8
  StartHP = 4
  StartMP = 3
  Spells <- MCSpells
  Rooms <- MCRooms
  StartRoom = "hall"
  Exits <- MCExits
  Templates <- MCTemplates
  EnemyHP <- MCEnemyHP
  EnemyDice <- MCEnemyDice
  Cautious <- MCCautious
  Items <- MCItems
  NoItem = NoItem
  ItemType <- MCItemType
  ItemWeight <- MCItemWeight
  ItemDice <- MCItemDice
  ItemDefense <- MCItemDefense
  SpellCost <- MCSpellCost
  SpellEffect <- MCSpellEffect
  SpellDice <- MCSpellDice
  StartCON = 11
  StartDEX = 12
  ConIsPrimary = TRUE
  DexIsPrimary = FALSE
  HPPerLevel = 0
  MPPerLevel = 1
  MaxLevel = 3
  XPThreshold <- MCThreshold
  NoSave = NoSave
  NoDriver = NoDriver
INVARIANT VictoryLevels
CHECK_DEADLOCK FALSE
