SPECIFICATION FairSpec
CONSTANTS
    Operands = {"mcp", "rhokp", "otel", "postgres", "appserver", "alertsadapter", "console"}
    Modelled = {"cm", "svc", "legacy"}
    MaxEdits = 1
    MaxTampers = 1
    MaxRotations = 1
    MaxFaults = 1
    MaxCrashes = 1
    Meet = {{"edit", "rotation"}, {"edit", "crash"}, {"rotation", "crash"}, {"tamper", "fault"}, {"tamper", "rotation"}}
    RvModulus = 7
INVARIANTS TypeOK StampCoversPods DeploymentAfterCert
PROPERTIES PodsFollowCR TasksTakeEffect NoRestartLoop
CHECK_DEADLOCK FALSE
