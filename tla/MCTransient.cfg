SPECIFICATION ShootingSpec
CONSTANTS
    Settings <- MCSettings
    Breaks = {12, 13}
    BoundSteps = {0, 3}
    Horizon = 30
    FsDiv = 2
    FbrDiv = 3
    FtDiv = 2
    RedoFactor = 1
    P = 10007
    C <- MCCharge
    G <- MCCurrent
    S <- MCSource
INVARIANTS
    BreakPointsAreMet
    PastIsUsable
    NoiseFollowsTime
    IntegrationIsExact
    SensitivityIsDerivative
PROPERTIES
    Terminates
CHECK_DEADLOCK FALSE
