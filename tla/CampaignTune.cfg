SPECIFICATION Spec
CONSTANTS
  Packs = {"p1", "p2"}
  Campaigns <- MCCampaigns
  MaxTicks = 1
  MaxNudges = 1
  MaxLate = 1
PROPERTIES
  FirmwareLandingAborts
