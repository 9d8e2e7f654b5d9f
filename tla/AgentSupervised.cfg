SPECIFICATION Spec
CONSTANTS
  MaxPlans = 2
  Bodies <- MCBodies
  Positions <- MCPositions
PROPERTIES
  SupervisedWaits
CHECK_DEADLOCK FALSE
