CONSTANTS
    Ops = {op1}
    Workers = {w1, w2, w3}
    Null = Null
    Stamps <- MCStamps
    ProviderCodes <- MCProviderCodes
    ExecutorOutcomes <- MCAnyOutcome
    MaxAttempts = 3
    MaxClaims = 4
    LeaseSeconds = 1
    RetryDelay = 2
    Retention = 2
    MayOverrun = TRUE
    MayLoseAck = TRUE
    StoreFaults = TRUE
    MaxFaults = 1
SPECIFICATION Spec
SYMMETRY WorkerSymmetry
INVARIANTS
    TypeOK
    SucceededHasResult
    TerminalReleasesInput
    DirectoryOutlivesMark
    ProcessingIsReclaimable
    UsageNotFabricated
    OutcomeOnOwnAttempt
    ResultOfOneAttempt
