SPECIFICATION ResyncSpec
CONSTANTS
  Plugins = {"chat"}
  Others = {"monitoring"}
  Attempts = 5
  MaxCRs = 2
  MaxEdits = 2
  MaxFaults = 1
  MaxCrashes = 1
INVARIANTS TypeOK
PROPERTIES OthersUntouched ActiveInTheEnd
CHECK_DEADLOCK FALSE
