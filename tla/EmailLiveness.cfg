\* One section under fairness, one fault, a user whose address may be removed
SPECIFICATION FairSpec
CONSTANTS
  u1 = u1
  s1 = s1
  s2 = s2
  c1 = c1
  c2 = c2
  Users = {u1}
  Sections = {s1}
  Courses = {c1}
  Reports <- FullOrOpen
  NullEmailUsers = {u1}
  MaxSerial = 2
  MaxChannel = 2
  MaxFaults = 1
CHECK_DEADLOCK FALSE
PROPERTY NotifiedIsServed
PROPERTY VacancyIsServed
