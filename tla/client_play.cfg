SPECIFICATION FairSpec
CONSTANTS
  Fronts = {"tui", "cli", "mcp"}
  PointBuyPool = 1
  MaxActs = 3
INVARIANTS AnswersPaired OneCommandAtATime
PROPERTY WaitEnds
CHECK_DEADLOCK FALSE
