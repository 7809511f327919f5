SPECIFICATION Spec
CONSTANTS
    t1 = t1
    t2 = t2
    l1 = l1
    l2 = l2
    Transactions = {t1, t2}
    Limits = {l1, l2}
    Pending = {t2}
    Applies <- MCApplies
    Amount <- MCAmount
    Scale = 1
    MaxAmount = 3
    Advisory = FALSE
    FailOpen = TRUE
    MaxRetries = 1
    Cleanup = FALSE
CHECK_DEADLOCK FALSE
INVARIANTS RepeatsCountOnce
