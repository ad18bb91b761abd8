SPECIFICATION Spec
CONSTANTS
    Signals <- LongAndShort
    Scenarios <- ReportedAndPersisted
    Writers = {w1, w2}
INVARIANTS
    TypeOK
    OutcomeIsForced
    ReplayIsPointInTime
    AcceptedIsWritable
    TableAgreesWithReport
    DrawdownIsExact
PROPERTY HistoryFollowsContract
SYMMETRY WriterSymmetry
CHECK_DEADLOCK FALSE
