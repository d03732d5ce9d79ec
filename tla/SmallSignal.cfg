CONSTANTS
    Kinds = {"ac", "xf", "sp", "stb", "noise", "dcinc", "dcxf", "hbac", "hbnoise"}
    Points = 3
    Sources = 3
    MaxRuns = 2
SPECIFICATION Spec
INVARIANTS
    PointsAreFresh
    FinishedIsComplete
CHECK_DEADLOCK FALSE
