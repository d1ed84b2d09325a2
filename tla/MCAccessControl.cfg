SPECIFICATION Spec
CONSTANTS
    Requests = {r1, r2, r3}
    ann = ann
    bob = bob
    new = new
    u1 = u1
    u2 = u2
    u3 = u3
    u4 = u4
    Subjects = {ann, bob, new}
    Users = {u1, u2, u3, u4}
    Admin = Admin
    Roles = {Admin, Analyst}
    MemberRoles = {AGENT, LEAD}
    KnownUser <- Linked
    None = None
SYMMETRY RequestSymmetry
INVARIANTS
    AlwaysAdministered
    TrailReplays
    OnePersonOneUser
