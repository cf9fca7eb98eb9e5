SPECIFICATION FairSpec
CONSTANTS
  Requests = {q1, q2, q3, q4}
  Limit = 2
  MaxRetries = 1
  MaxWindows = 2
  Environments <- MCEnvironments
INVARIANTS
  TypeOK
  LimitKept
  RefusedOnlyWhenFull
PROPERTY WindowsEnd
