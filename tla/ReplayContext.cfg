SPECIFICATION Spec
CONSTANTS
    Cases <- ContextCase
    MaxTwists = 1
INVARIANT
    ContextHasNoAuthority
CHECK_DEADLOCK FALSE
