SPECIFICATION Spec
CONSTANTS
    diode = diode
    resistor = resistor
    Instances <- MCInstances
    Bypassable <- MCBypassable
    Order <- MCOrder
    Options <- MCOptions
    ItLim = 4
    ItLimCont = 2
    MaxRuns = 2
INVARIANTS
    OutcomeIsCoherent
    BypassIsJustified
CHECK_DEADLOCK FALSE
