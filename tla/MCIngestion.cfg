SPECIFICATION FairSpec
CONSTANTS
    p1 = p1
    p2 = p2
    c1 = c1
    c2 = c2
    Pages = {p1, p2}
    Contents = {c1, c2}
    Workers = {w1, w2}
    MaxRuns = 2
    Budgets <- Instances
    None = None
INVARIANTS
    RunVerdictSound
    OneItemPerVersion
PROPERTIES
    RefreshVerdictSound
    StaleNeverAcquired
    ItemsSettle
