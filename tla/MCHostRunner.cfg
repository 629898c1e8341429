SPECIFICATION Spec
CONSTANTS
    Platform = "other"
    MaxSeconds = 8
    MaxPhase = 2
    MinTotal = 2
    Grace = 2
    MaxU32 = 10
    d1 = d1
    NoRun = NoRun
    Runs = {r1, r2}
    Dirs <- MCDirs
    Requests <- MCRequests
    DocSize = 2
    ReportLimit = 2
    RecoveryLimit = 3
    MaxReport = 4
CHECK_DEADLOCK FALSE
INVARIANTS
    OwnReceipts
    RecordedBeforeStart
    NeverDetaches
    VerdictOfHashedBytes
    OutcomeOnRecord
    WithinDeadline
PROPERTIES
    ReturnsAfterWorker
    ImplementsService
