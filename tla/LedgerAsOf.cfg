SPECIFICATION Spec
CONSTANTS
    Symbols = {"btc"}
    InitialBalance = 9000
    Commands = {"c1"}
    Intents <- SingleIntent
    Candles <- FlatCandles
    ExternalFillIds = {}
    Events = {}
    AcceptsExternalFills = FALSE
    Receipts <- PaperReceipts
    CancelResults = {"CANCELLED"}
    MaxMinute = 5
    MaxLockWait = 1
    MaxCancels = 0
PROPERTIES
    HistoricalReadsAreStable
