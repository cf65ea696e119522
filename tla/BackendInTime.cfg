CONSTANTS
    Ops = {op1}
    Workers = {w1, w2}
    Clients = {c1}
    Null = Null
    Stamps <- MCStamps
    ProviderCodes <- ErrorCodes
    ExecutorOutcomes <- ProviderOutcomes
    Errors <- MCErrors
    MaxAttempts = 2
    MaxClaims = 4
    MaxLapses = 2
    LeaseSeconds = 2
    RetryDelay = 2
    Retention = 3
    MayOverrun = FALSE
    MayLoseAck = FALSE
    StoreFaults = TRUE
    MaxFaults = 2
SPECIFICATION BackendSpec
INVARIANTS
    BackendTypeOK
    ResultIsNeverMissing
    ExclusiveLease
    FailureMatchesHistory
    InputKeptForRetry
    FailureToldIsLast
    FilesReleased
    UsageOfEveryResponse
    OnlyTransientIsRetried
PROPERTIES
    TerminalIsFinal
    ImplementsLifecycle
    EndIsFinal
    ImplementsWorker
