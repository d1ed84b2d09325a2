SPECIFICATION DeskSpec
CONSTANTS
    Calls = {c1, d1, d2}
    Analyses = {c1}
    Resolutions = {d2}
    Actions = {a1, a2}
    Bodies = {b1, b2}
    MaxVersion = 3
    MaxCrashes = 1
INVARIANTS
    DraftUsedOnce
    EffectsRecorded
CHECK_DEADLOCK FALSE
