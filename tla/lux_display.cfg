SPECIFICATION FairSpec
CONSTANTS
  Rooms = {r1, r2}
  StartRoom = r1
  NoRoom = NoRoom
  AckCap = 2
  InterCap = 1
  EventCap = 1
  MaxSaid = 3
INVARIANTS ScreenCurrent AcksBelong EventsFaithful
PROPERTY CloseReturns
CHECK_DEADLOCK FALSE
