SPECIFICATION Spec
CONSTANTS
  MaxImage = 3
INVARIANTS
  TypeOK
  PreflightIsTrue
  FoundIsKept
PROPERTIES
  ImageIsKept
  RebuildRestores
