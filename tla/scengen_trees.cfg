SPECIFICATION Spec
CONSTANTS
  Trees <- MCTrees
  Tiers = 3
  MaxSpawns = 1
  MaxRooms = 8
INVARIANTS NineFit TreeKept DirectionsAsPlanned NeverInvalid CorridorsEmpty
PROPERTIES OldKeptUntilNewIsWhole
CHECK_DEADLOCK FALSE
