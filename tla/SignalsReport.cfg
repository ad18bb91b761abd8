SPECIFICATION Spec
CONSTANTS
    Signals <- LongAndShort
    Scenarios <- Slipping
    Writers = {}
INVARIANT ReportBuilds
CHECK_DEADLOCK FALSE
