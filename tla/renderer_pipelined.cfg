SPECIFICATION FairSpec
CONSTANTS
  MaxRequests = 4
  MaxInFlight = 2
  Resumed = TRUE
INVARIANTS TypeOK AnswersAlmostMatch AnsweredInOrder
PROPERTIES ReaderEnds ScannedIsAnswered
CHECK_DEADLOCK FALSE
