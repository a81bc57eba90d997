SPECIFICATION FairSpec
CONSTANTS
  Operands = {"alertsadapter"}
  MaxUid = 2
  MaxGen = 2
  MaxTrouble = 1
  MaxBackoff = 1
INVARIANTS ReadyCoversSpec
PROPERTIES Converges
CHECK_DEADLOCK FALSE
