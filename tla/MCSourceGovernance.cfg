SPECIFICATION Spec
CONSTANTS
    Users = {ann, bob}
    Sources = {s1}
    Keys = {k1, k2}
    Requests = {r1, r2, r3}
    Owners <- OneOwner
    Manifests <- OfDistinct
    Starts <- Stages
    NoOne = NoOne
SYMMETRY Interchangeable
INVARIANTS
    PermissionEarned
    PinsSound
    
CHECK_DEADLOCK FALSE
