SPECIFICATION Spec
CONSTANTS
  FirstDay <- EndOfSpring
  LastTerm = 1241
  Announced <- Published
  MaxFetching = 1
PROPERTY NeverReturns
PROPERTY PreviousKept
