SPECIFICATION Spec
CONSTANTS
  MaxImage = 3
INVARIANTS
  PreflightIsTrueAlways
