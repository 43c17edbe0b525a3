\* Six readers, every input up to the bound
SPECIFICATION Spec
CONSTANTS
  Numbers = {n1, n2}
  Rooms = {m1}
  TBA = TBA
  Semesters = {w1, w2}
  Levels = {l1, l2}
  Codes = {c1}
  Prose = {x1, x2}
  t1 = t1
  t2 = t2
  Term = {t1, t2}
  Day = {1, 2}
  Unreadable = Unreadable
  FirstDays <- Starts
  LastDays <- EndsOfMeetings
  Times <- FourTimes
  NoTimes = NoTimes
  BadTimes = BadTimes
  SwitchDay = 7
  Clocks <- BothChanges
  Longest <- Bounds
  Table <- OneKnown
CHECK_DEADLOCK FALSE
INVARIANT ScheduleRead
INVARIANT TranscriptRead
INVARIANT RequirementsRead
INVARIANT CodesRead
INVARIANT EventsRead
INVARIANT MeetingsRead
