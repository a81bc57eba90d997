SPECIFICATION FairSpec
CONSTANTS
    Operands = {"postgres"}
    Modelled = {"cm"}
    MaxEdits = 0
    MaxTampers = 1
    MaxRotations = 0
    MaxFaults = 0
    MaxCrashes = 0
    Meet = {}
    RvModulus = 7
PROPERTY ManagedConfigRestored
CHECK_DEADLOCK FALSE
