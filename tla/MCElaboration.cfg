CONSTANTS
  r = r
  f = f
  o = o
  c = c
  x = x
  Vals <- MCVals
  Levels <- MCLevels
  Expr <- MCExpr
  DefaultOptions <- MCDefaults
  Netlists <- MCNetlists
SPECIFICATION Spec
INVARIANTS
    CircuitIsCurrent
    CoreSeesThePoint
PROPERTIES
    AnalysisRestores
