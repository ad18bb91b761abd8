SPECIFICATION Spec
CONSTANTS
    Symbols = {"btc", "eth"}
    InitialBalance = 9000
    Commands = {"c1", "c2"}
    Intents <- PaperIntents
    Candles <- FlatCandles
    ExternalFillIds = {}
    Events = {}
    AcceptsExternalFills = FALSE
    Receipts <- PaperReceipts
    CancelResults = {"CANCELLED"}
    MaxMinute = 5
    MaxLockWait = 0
    MaxCancels = 0
INVARIANTS
    NoEligibleIntervalIsDropped
