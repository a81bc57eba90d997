SPECIFICATION ResyncSpec
CONSTANTS
    Features = {"mcp"}
    MaxEdits = 1
    MaxCAs = 2
    MaxCerts = 1
    MaxDeletes = 1
    MaxFaults = 1
    MaxCrashes = 1
    MaxEvents = 2
    Meet = {{"ca", "cert"}, {"ca", "fault"}, {"cert", "edit"}, {"edit", "fault"}, {"delete", "fault"}, {"crash", "fault"}}
INVARIANTS TypeOK RollsWithFreshCA CAOrder PublishedAfterTrust
PROPERTIES ReloadKept HandoffSettles
