\* Resets, subscriptions and vacancies of two sections, one of which moves between two courses; one fault
SPECIFICATION Spec
CONSTANTS
  u1 = u1
  s1 = s1
  s2 = s2
  c1 = c1
  c2 = c2
  Users = {u1}
  Sections = {s1, s2}
  Courses = {c1, c2}
  Reports <- Moving
  NullEmailUsers = {u1}
  MaxSerial = 3
  MaxChannel = 2
  MaxFaults = 1
CHECK_DEADLOCK FALSE
INVARIANT NoLostWakeup
INVARIANT NoNeedlessResend
PROPERTY ImplementsMailQueue
PROPERTY FreedSeatsAreQueued
