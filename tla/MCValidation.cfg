SPECIFICATION MCSpec
CONSTANTS
    t1 = t1
    l1 = l1
    l2 = l2
    q1 = q1
    q2 = q2
    v1 = v1
    v2 = v2
    v3 = v3
    Transactions = {t1}
    Limits = {l1, l2}
    Pending = {}
    Applies <- MCApplies
    Amount <- MCAmount
    Scale = 1
    MaxAmount = 2
    Advisory = FALSE
    FailOpen = TRUE
    MaxRetries = 1
    Cleanup = TRUE
    Validations = {v1, v2, v3}
    Requests = {q1, q2}
    RequestOf <- MCRequestOf
    Matches <- MCMatches
    Cost <- MCCost
    Rank <- MCRank
    RuleOutcomes = {"ALLOW", "REVIEW", "DENY"}
    MaxFaults = 1
    Instants <- MCInstants
    CustomPeriods <- MCCustomPeriods
    RetentionDays = 90
    ScopeSets <- MCScopeSets
    TransactionScopes <- MCTransactionScopes
CHECK_DEADLOCK FALSE
INVARIANTS AllowIsBacked UsageIsAccounted AllowedWithinLimit AnswersAgree NoDeadlock CountersSpanTheirPeriod
