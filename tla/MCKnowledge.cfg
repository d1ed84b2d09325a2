SPECIFICATION Spec
CONSTANTS
    Requests = {r1, r2, r3}
    Docs = {1, 2}
    Bound <- Content
    Starts <- Tenants
    Owner = Owner
    Steward = Steward
    NoOne = NoOne
SYMMETRY RequestSymmetry
INVARIANTS
    
    OnlyApprovedPublished
    LedgerNamesActive
