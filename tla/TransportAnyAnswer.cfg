CONSTANTS
    Outputs <- MCOutputs
    Document = "doc"
    EntryLengths = {20, 21, 125, 126}
    Null = Null
SPECIFICATION Spec
INVARIANTS
    AcceptedIsDocumentedOrLax
    DiagnosticWhole
    DeliveredIsAnswered
CHECK_DEADLOCK FALSE
