SPECIFICATION FairSpec
CONSTANTS
    Workers = {w1, w2}
    Accounts = {1, 2}
    Orders = {"o1", "o2"}
    Owner <- OneOrderEach
    FillsAt <- Limits
    Refused = {"o2"}
    MultiMarket = {1}
    Provider <- RevisedProvider
    MaxCatchup = 2
    MaxMinute = 4
    MaxCrashes = 1
INVARIANTS
    TypeOK
    OneCanonicalMarket
    NoMinuteSkipped
    CheckpointsMatchDeliveries
PROPERTIES
    EveryOrderCatchesUp
