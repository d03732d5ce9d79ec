CONSTANTS
  s = s
  t = t
  Sites = {s, t}
  Values <- MCValues
  SitesAt <- MCSitesAt
  Programs <- MCPrograms
  Faults <- MCFaults
SPECIFICATION Spec
INVARIANTS
  FilesAreDistinct
  EndMeansAllWasTried
PROPERTIES
  AnalysisIsCurrent
CHECK_DEADLOCK FALSE
