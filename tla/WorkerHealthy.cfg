CONSTANTS
    Ops = {op1, op2}
    Workers = {w1}
    Null = Null
    Stamps <- MCStamps
    ProviderCodes <- MCProviderCodes
    ExecutorOutcomes <- MCMeteredOutcome
    MaxAttempts = 2
    MaxClaims = 3
    LeaseSeconds = 2
    RetryDelay = 1
    Retention = 3
    MayOverrun = FALSE
    MayLoseAck = FALSE
    StoreFaults = FALSE
    MaxFaults = 0
SPECIFICATION FairSpec
INVARIANTS
    AttemptsWithinBudget
    UsageConserved
    AttemptIsClosable
PROPERTIES
    EventuallyTerminal
    OriginalEventuallyRemoved
