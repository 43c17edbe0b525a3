\* Two transactions of any kind over two reviews
SPECIFICATION Spec
CONSTANTS
  Backends = {b1, b2}
  Reviews = {r1, r2}
  Voters = {u}
  Classes = {k}
  None = None
  Unrated = {r2}
  r1 = r1
  r2 = r2
  Requests <- Studied
SYMMETRY Symmetry
INVARIANT ProfRatingCurrent
INVARIANT CourseRatingMissesOnlyOvertaken
INVARIANT CountsAreVotes
INVARIANT IndexesFollowTimetable
PROPERTY ImportRepairs
INVARIANT DumpIsOneMoment
INVARIANT DeadlockIsSearch
