SPECIFICATION Spec
CONSTANTS
  Conns <- TwoConns
  SessionIDs = {"hero"}
  MaxGames = 2
  HasNormalMode = TRUE
  None = None
  c1 = c1
  c2 = c2
INVARIANTS TypeOK NeverCrashes RegisteredGamesOpen BoundGamesHaveState LoopOwnsConnection NoCommandLost
SYMMETRY ConnSymmetry
CHECK_DEADLOCK FALSE
