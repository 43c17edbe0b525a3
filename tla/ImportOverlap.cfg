\* Two runs, or a run and the vacuum, at the same time, under fairness and without faults
SPECIFICATION FairSpec
CONSTANTS
  c1 = c1
  c2 = c2
  k1 = k1
  k2 = k2
  h1 = h1
  p1 = p1
  p2 = p2
  Courses = {c1}
  Classes = {k1, k2, h1}
  Profs = {p1}
  NoProf = NoProf
  Unwritten = Unwritten
  Listings <- OneListing
  Catalogs <- OneCatalog
  Manual = {h1}
  InitialRemap <- NoRemap
  Runs = {r1, r2}
  Reviews = {v1}
  MaxRunning = 2
  MaxFaults = 0
CHECK_DEADLOCK FALSE
PROPERTY ManualKept
PROPERTY VacuumSparesUsed
PROPERTY RunsComplete
