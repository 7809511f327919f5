SPECIFICATION AdminSpec
CONSTANTS
    b1 = b1
    b2 = b2
    r1 = r1
    r2 = r2
    w1 = w1
    d1 = d1
    u1 = u1
    NoBalance = NoBalance
    Balances = {b1, b2}
    Requests = {r1, r2}
    Workers = {w1}
    Drainers = {}
    Updaters = {u1}
    BatchSize = 1
    SettingsValues = {"s0", "s1"}
    InitialSettings = "s0"
    InitialFunds = 1
    LegacyMembers = {}
    Outage = TRUE
    MaxFaults = 1
SYMMETRY AdminSymmetry
CHECK_DEADLOCK FALSE
PROPERTIES DeletedRowsAreFrozen
