SPECIFICATION Spec
CONSTANTS
    Symbols = {"btc"}
    InitialBalance = 9000
    Commands = {"c1", "c2"}
    Intents <- ConnectorIntents
    Candles <- FlatCandles
    ExternalFillIds = {x1, x2, x3}
    Events <- ConnectorEvents
    AcceptsExternalFills = TRUE
    Receipts <- ConnectorReceipts
    CancelResults = {"CANCELLED"}
    MaxMinute = 3
    MaxLockWait = 0
    MaxCancels = 1
SYMMETRY FillIdSymmetry
INVARIANTS
    TypeOK
    LedgerReconciles
    TradeProfitExact
    FillsInEconomicOrder
    ReplayMatchesLedger
PROPERTIES
    OrderHistoryIsFinal
