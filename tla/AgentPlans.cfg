SPECIFICATION FairSpec
CONSTANTS
  MaxPlans = 2
  Bodies <- MCBodies
  Positions <- MCPositions
INVARIANTS
  TypeOK
  WaitersAreReachable
  OffMeansOff
  AskedBeforeSent
  DoneMeansRan
  QueueIsServed
PROPERTIES
  CancelEnds
CHECK_DEADLOCK FALSE
