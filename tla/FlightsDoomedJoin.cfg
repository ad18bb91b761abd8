SPECIFICATION Spec
CONSTANTS
    r1 = r1
    r2 = r2
    r4 = r4
    Requests = {r1, r2}
    Complete = {}
    KeyOf <- SharedKey
    Capacity = 2
INVARIANTS
    OnlyOwnCancellation
