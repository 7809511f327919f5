SPECIFICATION FairSpec
CONSTANTS
    b1 = b1
    b2 = b2
    r1 = r1
    r2 = r2
    r3 = r3
    w1 = w1
    w2 = w2
    NoBalance = NoBalance
    Balances = {b1, b2}
    Requests = {r1, r2}
    Workers = {w1}
    Drainers = {w2}
    BatchSize = 2
    SettingsValues = {"s0"}
    InitialSettings = "s0"
    InitialFunds = 1
    LegacyMembers = {b1}
    Outage = FALSE
    MaxFaults = 1
CHECK_DEADLOCK FALSE
INVARIANTS TypeOK UnsyncedIsScheduled CopiesAreLedgerStates
PROPERTIES ColdNeverRegresses ImplementsLedger Converges
