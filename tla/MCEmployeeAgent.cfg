SPECIFICATION FairSpec
CONSTANTS
    Calls = {t1, t2}
    Requests = {r1, r2}
    MaxCrashes = 1
INVARIANTS
    TurnOwnsConversation
    

    
CHECK_DEADLOCK FALSE
