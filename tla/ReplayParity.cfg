SPECIFICATION Spec
CONSTANTS
    Cases <- MCCases
    MaxTwists = 1
INVARIANTS
    ReplayAgrees
    AcceptsOwnEvidence
    OneTradePerSweep
    EvidenceInOrder
PROPERTIES
    NothingRepaints
CHECK_DEADLOCK FALSE
