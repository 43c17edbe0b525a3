\* Three requests of one person with three providers, one fault
SPECIFICATION Spec
CONSTANTS
  Identities <- OneName
  Profiles <- Mixed
  Requests = {q1, q2, q3}
  None = None
  MaxFaults = 1
SYMMETRY RequestSymmetry
CHECK_DEADLOCK FALSE
INVARIANT UsersAndCredentialsMatch
PROPERTY ImplementsDirectory
INVARIANT ReturningFacebookUserGetsIn
