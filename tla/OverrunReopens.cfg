CONSTANTS
    Ops = {op1}
    Workers = {w1, w2}
    Null = Null
    Stamps <- MCStamps
    ProviderCodes <- MCProviderCodes
    ExecutorOutcomes <- MCSimpleOutcome
    MaxAttempts = 2
    MaxClaims = 3
    LeaseSeconds = 2
    RetryDelay = 1
    Retention = 3
    MayOverrun = TRUE
    MayLoseAck = FALSE
    StoreFaults = FALSE
    MaxFaults = 0
SPECIFICATION Spec
PROPERTY TerminalIsFinal
