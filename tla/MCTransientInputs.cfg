SPECIFICATION MCSpec
CONSTANTS
    Blank = Blank
    Lines = {1, 2}
    InitialSize = 2
    GrowthFactor = 2
    MaxDelays = {0, 2, 4}
    MaxTime = 6
    MaxRuns = 2
    SourceTime = 40
    Tol = 1
    Never = 100
INVARIANTS
    HistoryFitsTheDelay
    SourceFollowsItsWaveform
CHECK_DEADLOCK FALSE
