SPECIFICATION MCSpec
CONSTANTS
    a = a
    c = c
    e = e
    x1 = x1
    x2 = x2
    x3 = x3
    x4 = x4
    Accounts = {a, c, e}
    External = {e}
    Overdrafted = {a}
    OverdraftLimit = 3
    NewSettings <- MCNewSettings
    MaxUpdates = 1
    Funds <- MCFunds
    Transactions = {x1, x2, x3, x4}
    From <- MCFrom
    To <- MCTo
    Amount <- MCAmount
    Pending = {x2, x3}
    Sends <- MCSends
    Packages <- MCPackages
    Scopes <- MCScopes
    Precision = 10
    IntDigits = 4
    FracDigits = 2
    Significant = 4
    Operands <- MCOperands
    Candidates <- MCCandidates
    LegAccounts = {"a", "b"}
CHECK_DEADLOCK FALSE
INVARIANTS HoldsAreBacked AccountsReflectTransactions CompanionCoversUsage SendsResolveAsAsked FeesConserve PackageScopeIsRespected DecimalsAreExact AcceptedIsClassified HoldsCanBeSettled
PROPERTIES WithinOverdraftLimit RecordsFollowBalances RecordsCoverAmount
