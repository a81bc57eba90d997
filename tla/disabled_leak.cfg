SPECIFICATION FairSpec
CONSTANTS
  Operands = {"mcp"}
  MaxUid = 1
  MaxGen = 2
  MaxTrouble = 1
  MaxBackoff = 0
PROPERTIES
  DisabledIsTornDown
CHECK_DEADLOCK FALSE
