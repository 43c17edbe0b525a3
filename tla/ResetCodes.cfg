\* Two users, two codes, three requests, one fault, under fairness
SPECIFICATION FairSpec
CONSTANTS
  Users = {u1, u2}
  Keys = {k1, k2}
  Requests = {q1, q2, q3}
  None = None
  MaxFaults = 1
CHECK_DEADLOCK FALSE
INVARIANT UsedCodeIsGone
PROPERTY ChangedByOwnCode
PROPERTY NewerCodeSurvives
PROPERTY RequestsAnswered
