SPECIFICATION SlaSpec
CONSTANTS
    Workers = {w1, w2}
    MaxTime = 3
    Local <- MCLocal
    DayLength = 4
    WeekLength = 7
    Calendar <- MCCalendar
    Goals <- MCGoals
    Facets <- MCFacets
    PauseMetrics <- MCPauseMetrics
    MaxAttempts = 2
    MaxInputs = 4
    MaxFailures = 1
SYMMETRY WorkerSymmetry
INVARIANTS
    OverdueBreaches
    
    TimelyExact
CHECK_DEADLOCK FALSE
