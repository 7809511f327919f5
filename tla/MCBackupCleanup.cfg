SPECIFICATION Spec
CONSTANTS
    p1 = p1
    d1 = d1
    r1 = r1
    r2 = r2
    k1 = k1
    k2 = k2
    s1 = s1
    s2 = s2
    c1 = c1
    Direct = {d1}
    Holds = {p1}
    Reverts = {}
    Parent <- MCParent
    SyncHandlers = {}
    Clients <- Settling2
    Keys = {k1, k2}
    Key <- MCKey
    Settlers = {s1, s2}
    Consumers = {c1}
    BulkSize = 1
    Faults <- NoFaults
    MaxFaults = 0
    MaxRetries = 1
    MaxReplays = 1
    QuarantineThreshold = 2
    PromptConsumers = TRUE
PROPERTIES CleanupKeepsNewerStage
CHECK_DEADLOCK FALSE
