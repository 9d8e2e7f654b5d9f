SPECIFICATION Spec
CONSTANTS
  Slots = 4
  CommandParts = {"land", "takeoff"}
  TransParts = {7, 8}
  DropLimit = 3
PROPERTIES
  RefinesFifo
