CONSTANTS
    Requests = {r1, r2, r3}
    Keys = {k1}
    Prints <- MCPrints
    Uploads <- MCUploads
    Null = Null
    Retention = 0
    MaxFileBytes = 3
    MaxSubmissionBytes = 5
    MaxImagePages = 2
    MaxRefused = 1
    MayLoseAck = TRUE
    StoreFaults = TRUE
    MaxFaults = 1
SPECIFICATION IntakeSpec
INVARIANTS
    TypeOK
    OneOperationPerKey
    AdmittedIsValid
    AnswersFitDocuments
    AcceptedHasFiles
    LeavesNothing
PROPERTY ImplementsIntake
