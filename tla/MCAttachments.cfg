SPECIFICATION Spec
CONSTANTS
    Files = {f1, f2}
    Keys = {k1, k2}
    Users = {analyst, owner}
    Analysts = {analyst}
    Owners = {owner}
    Handlers = {h1, h2}
    MaxAttempts = 2
    MaxAborts = 1
INVARIANTS
    
    RecordsAgree
CHECK_DEADLOCK FALSE
