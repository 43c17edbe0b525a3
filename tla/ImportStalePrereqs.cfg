\* The prerequisites of an earlier catalog stay
SPECIFICATION Spec
CONSTANTS
  c1 = c1
  c2 = c2
  k1 = k1
  k2 = k2
  h1 = h1
  p1 = p1
  p2 = p2
  Courses = {c1, c2}
  Classes = {k1, k2, h1}
  Profs = {p1, p2}
  NoProf = NoProf
  Unwritten = Unwritten
  Listings <- NoListing
  Catalogs <- TwoCatalogs
  Manual = {h1}
  InitialRemap <- NoRemap
  Runs = {r1, r2}
  Reviews = {v1}
  MaxRunning = 1
  MaxFaults = 0
CHECK_DEADLOCK FALSE
INVARIANT PrereqsMirrorFetch
