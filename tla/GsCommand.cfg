SPECIFICATION Spec
CONSTANTS
  QueueCap = 2
  HistoryLen = 2
  IdMax = 5
  FirstIds = {4}
  LinkCap = 3
  AnswerCap = 2
  MaxSends = 3
  MaxLegacy = 1
  MaxRepeats = 2
  MaxRestarts = 1
INVARIANTS
  TypeOK
  AtMostOnce
  AnswersAreTrue
PROPERTIES
  RefinesFates
CHECK_DEADLOCK FALSE
