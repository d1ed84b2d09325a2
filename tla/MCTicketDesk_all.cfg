SPECIFICATION Spec
CONSTANTS
    Slots = {s1, s2}
    Approvers = {a1, a2}
    Modes <- MCModes
    Form <- MCForm
    Matrix <- MCMatrix
    Answers <- MCAnswers
    Rules <- MCRules
    Members <- MCMembers
    Targets <- MCTargets
    RemarkOn = {"START_PROGRESS"}
    MaxCommands = 4
    MaxRepeats = 1
SYMMETRY DeskSymmetry
INVARIANTS
    EffectsMatchRecords
    OneTicketPerDraft
    
    ApprovalGatesTicket
    VerdictMatchesVotes
    NoLockCycle
CHECK_DEADLOCK FALSE
