SPECIFICATION FairSpec
CONSTANTS
  Conns <- TwoConns
  SessionIDs = {"hero"}
  MaxGames = 1
  HasNormalMode = TRUE
  None = None
  c1 = c1
  c2 = c2
PROPERTIES ShutdownCompletes RequestsReturn
CHECK_DEADLOCK FALSE
