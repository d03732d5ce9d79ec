CONSTANTS
  s = s
  t = t
  Sites = {s, t}
  Values <- MCValues
  SitesAt <- MCSitesAt
  Programs <- Hypercube
  Faults <- NoFaults
SPECIFICATION Spec
INVARIANTS
  EachBinOnce
CHECK_DEADLOCK FALSE
