SPECIFICATION ResyncSpec
CONSTANTS
  Resources = {"tls"}
  Source <- SourceIsName
  MaxWrites = 3
  MaxDeletes = 1
  MaxTouches = 1
  MaxEdits = 1
  MaxFaults = 1
  MaxLostRestarts = 1
  MaxCrashes = 1
INVARIANTS TypeOK MountedIsWatched
PROPERTIES WatchHeals ChangeReachesAppServer
