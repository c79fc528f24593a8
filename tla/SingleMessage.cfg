SPECIFICATION FairSpec
CONSTANTS
    t = t
    a = a
    Target = t
    Others <- MCOthers
    ScanBudget = 2
    BatchSize = 2
    IdleRetries = 1
INVARIANTS
    SuccessMeansDone
    WrongMessageUntouched
    TransferIsWhole
    ReportHolds
PROPERTY HandlerEnds
