\* Two uploads of any kind while sections are imported and one moves, one fault
SPECIFICATION FairSpec
CONSTANTS
  c1 = c1
  c2 = c2
  c3 = c3
  s1 = s1
  s2 = s2
  Uploads = {u1, u2}
  Files <- Uploaded
  OldItems <- Current
  Courses = {c1, c2, c3}
  Catalogue = {c1, c2}
  Sections = {s1, s2}
  Terms = {1, 2}
  CurrentTerm = 2
  Before = Before
  NoCourse = NoCourse
  MaxMoves = 1
  MaxFaults = 1
CHECK_DEADLOCK FALSE
PROPERTY TranscriptReplaces
INVARIANT ConflictNeedsSchedule
PROPERTY ImplementsReplacement
PROPERTY Answered
