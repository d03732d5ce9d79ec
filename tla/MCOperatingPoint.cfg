CONSTANTS
    Settings <- MCSettings
    Gshunt <- NoGshunt
    GdevTarget = 0
    MinGmin = 0
    StartGmin = 12
    MaxGmin = 20
    GminFactor = 8
    MaxGminFactor = 8
    MinGminFactor = 1
    Full = 8
    SrcStep = 2
    SrcScale = 3
    MinSrcStep = 1
SPECIFICATION Spec
INVARIANTS
    FinishedIsSolved
    NothingLeftBehind
    StepsStartFromWhatFits
PROPERTIES
    EveryCallReturns
