\* Runs one after the other under a changing schedule and catalog, one fault; no reviews, no classes by hand
SPECIFICATION Spec
CONSTANTS
  c1 = c1
  c2 = c2
  k1 = k1
  k2 = k2
  h1 = h1
  p1 = p1
  p2 = p2
  Courses = {c1, c2}
  Classes = {k1, k2}
  Profs = {p1, p2}
  NoProf = NoProf
  Unwritten = Unwritten
  Listings <- TwoListings
  Catalogs <- TwoCatalogs
  Manual = {}
  InitialRemap <- OneRemap
  Runs = {r1, r2}
  Reviews = {}
  MaxRunning = 1
  MaxFaults = 1
SYMMETRY RunSymmetry
CHECK_DEADLOCK FALSE
INVARIANT NoMixedMeetings
INVARIANT MirrorsFetch
PROPERTY OnlyFetchedReplaced
