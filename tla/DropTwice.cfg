SPECIFICATION DropSpec
CONSTANTS
  Nodes <- MCNodes
  Heaps <- Doubled
  SmallPayload = 2
  Room = 2
  RedZone = 4
  CheckEvery = 2
  Limits = {TRUE}
INVARIANTS DropFits
CHECK_DEADLOCK FALSE
