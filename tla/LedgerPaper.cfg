SPECIFICATION Spec
CONSTANTS
    Symbols = {"btc", "eth"}
    InitialBalance = 4500
    Commands = {"c1", "c2"}
    Intents <- PaperIntents
    Candles <- RisingCandles
    ExternalFillIds = {}
    Events = {}
    AcceptsExternalFills = FALSE
    Receipts <- PaperReceipts
    CancelResults = {"CANCELLED"}
    MaxMinute = 4
    MaxLockWait = 1
    MaxCancels = 1
INVARIANTS
    LedgerReconciles
    FilledOnFirstTouch
    NoImplicitReversal
    LongOnlyIsCollateralised
    OneOutcomePerOrder
    ClosedAccountIsFlat
PROPERTIES
    ClosedAccountIsFrozen
