SPECIFICATION FairSpec
CONSTANTS
    MaxUid = 2
    MaxFaults = 1
    MaxCrashes = 1
    MaxEvictions = 1
    MaxDeletes = 1
    MaxMisses = 1
    MaxLag = 3
    Meet = {{"recreate", "crash"}, {"recreate", "eviction"}, {"crash", "fault"}, {"eviction", "fault"}, {"delete", "eviction"}, {"miss", "eviction"}, {"miss", "crash"}}
INVARIANTS TypeOK NeverLockedOut
PROPERTIES ConnectsInTheEnd
CHECK_DEADLOCK FALSE
