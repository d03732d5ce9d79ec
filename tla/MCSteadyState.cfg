SPECIFICATION MCSpec
CHECK_DEADLOCK FALSE
CONSTANTS
    P = 9901
    Ticks = 180
    Root <- MCRoot
    TwoPi <- MCTwoPi
    ForceWeight <- MCForceWeight
    Setups <- MCSetups
    Changes <- MCChanges
    Prunings <- MCPrunings
    Frequencies = {4}
    ItLim = 5
    MaxRuns = 2
    ShootItl = 4
    ShootRuns = 3
INVARIANTS
    SpectrumIsTruncated
    SpectraObeyTheCircuit
    MonodromyIsDerivative
    PeriodIsClosed
PROPERTIES
    PhasorsKeepTheirPlace
