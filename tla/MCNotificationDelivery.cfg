SPECIFICATION FairPipeline
CONSTANTS
    Consumer <- MCConsumer
    Workers = {w1, w2}
    Events = {1, 2, 3, 4, 6}
    Poison = {1, 2}
    MaxAttempts = 2
    MaxCrashes = 1
    Notices <- MCNotices
    Ticket <- MCTicket
    Approvers = {"ann", "bob"}
    Active = {"ann", "bob"}
    Loads <- MCLoads
    MaxHistory = 3
INVARIANTS
    ExactlyOnceEffect
    SlaRetryBudget
    DuplicatesOnlyInDoubt
PROPERTIES
    ImplementsContract
    
    EveryDeliveryCloses
