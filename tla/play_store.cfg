SPECIFICATION Spec
CONSTANTS
  Drivers = {"daemon", "loop"}
  RoomEnemies <- OneWolf
  RoomItems <- PotionAndMail
  SaveSlots = {"quicksave"}
  MaxXP = 4
  StartHP = 2
  StartMP = 0
  Spells <- MCSpells
  Rooms <- MCRooms
  StartRoom = "hall"
  Exits <- MCExits
  Templates <- MCTemplates
  EnemyHP <- MCEnemyHP
  EnemyDice <- MCEnemyDice
  Cautious <- MCCautious
  Items <- MCItems
  NoItem = NoItem
  ItemType <- MCItemType
  ItemWeight <- HeavyWeight
  ItemDice <- MCItemDice
  ItemDefense <- MCItemDefense
  SpellCost <- MCSpellCost
  SpellEffect <- MCSpellEffect
  SpellDice <- MCSpellDice
  StartCON = 11
  StartDEX = 12
  ConIsPrimary = TRUE
  DexIsPrimary = FALSE
  HPPerLevel = 0
  MPPerLevel = 1
  MaxLevel = 3
  XPThreshold <- MCThreshold
  NoSave = NoSave
  NoDriver = NoDriver
INVARIANTS CarryLimit ItemsConserved
