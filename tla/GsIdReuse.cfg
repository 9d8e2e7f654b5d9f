SPECIFICATION Spec
CONSTANTS
  QueueCap = 2
  HistoryLen = 2
  IdMax = 5
  FirstIds = {0}
  LinkCap = 3
  AnswerCap = 2
  MaxSends = 2
  MaxLegacy = 0
  MaxRepeats = 0
  MaxRestarts = 1
INVARIANTS
  AppliedIsTrueAlways
CHECK_DEADLOCK FALSE
