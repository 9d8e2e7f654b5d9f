SPECIFICATION FairSpec
CONSTANTS
  HbTicks = 1
  CapTicks = 2
  FenceTicks = 2
  ReturnTicks = 1
  SettleTicks = 1
  PathTicks = 1
  MaxDist = 2
INVARIANTS
  TypeOK
  OnePathInStep
  ClaimIsSound
  TrippedGoesDown
PROPERTIES
  RefinesClaim
  GsFlightLands
