SPECIFICATION FairSpec
CONSTANTS
    Calls = {c1, c2}
    Policies <- TwoPolicies
    HasFallback = TRUE
    MaxAttempts = 2
    Threshold = 2
    MaxCrashes = 1
INVARIANTS
    SpendBounded
PROPERTIES
    ImplementsContract
CHECK_DEADLOCK FALSE
