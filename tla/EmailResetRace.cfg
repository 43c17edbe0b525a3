\* Two reset requests of one user
SPECIFICATION Spec
CONSTANTS
  u1 = u1
  s1 = s1
  s2 = s2
  c1 = c1
  c2 = c2
  Users = {u1}
  Sections = {}
  Courses = {c1}
  Reports <- FullOrOpen
  NullEmailUsers = {}
  MaxSerial = 2
  MaxChannel = 2
  MaxFaults = 0
CHECK_DEADLOCK FALSE
INVARIANT ResetSeenWasMailed
