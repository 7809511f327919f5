SPECIFICATION MCSpec
CONSTANTS
    Sends = {}
    Packages = {}
    Scopes = {}
    Precision = 10
    IntDigits = 4
    FracDigits = 2
    Significant = 4
    Operands = {}
    Candidates = {}
    LegAccounts = {}
    a = a
    c = c
    e = e
    x1 = x1
    x2 = x2
    x3 = x3
    x4 = x4
    Accounts = {a, c, e}
    External = {e}
    Overdrafted = {a}
    OverdraftLimit = 3
    NewSettings = {}
    MaxUpdates = 0
    Funds <- MCFunds
    Transactions = {x1, x2}
    From <- BackFrom
    To <- BackTo
    Amount <- MCAmount
    Pending = {x2}
CHECK_DEADLOCK FALSE
PROPERTIES HoldsLeaveDestinations
