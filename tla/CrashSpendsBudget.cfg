CONSTANTS
    Ops = {op1}
    Workers = {w1}
    Null = Null
    Stamps <- MCStamps
    ProviderCodes <- MCProviderCodes
    ExecutorOutcomes <- MCSimpleOutcome
    MaxAttempts = 1
    MaxClaims = 3
    LeaseSeconds = 2
    RetryDelay = 1
    Retention = 3
    MayOverrun = FALSE
    MayLoseAck = FALSE
    StoreFaults = FALSE
    MaxFaults = 1
SPECIFICATION Spec
INVARIANT AttemptsWithinBudget
