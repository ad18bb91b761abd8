SPECIFICATION FairSpec
CONSTANTS
    r1 = r1
    r2 = r2
    r4 = r4
    Requests = {r1, r2, r4}
    Complete = {r4}
    KeyOf <- SharedKey
    Capacity = 2
INVARIANTS
    TypeOK
    NoOrphanWork
    SingleFlight
    NoSpuriousError
    NothingOutlivesShutdown

    
CHECK_DEADLOCK FALSE
