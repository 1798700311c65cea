SPECIFICATION Spec
CONSTANTS
  Trees <- WideTrees
  Tiers = 3
  MaxSpawns = 1
  MaxRooms = 0
INVARIANT HubsFit
CHECK_DEADLOCK FALSE
