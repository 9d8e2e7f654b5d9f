SPECIFICATION Spec
CONSTANTS
  LandMaxTicks = 500
  LandSpoolTicks = 100
  Heights <- FlownHeights
  Grounds <- GroundReadings
  FloatTicks = 120
INVARIANTS
  TypeOK
  LandingIsBounded
PROPERTIES
  FadesOnTheGround
