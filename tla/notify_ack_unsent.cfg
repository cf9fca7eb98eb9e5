SPECIFICATION Spec
CONSTANTS
  Messages = {m1}
  Malformed = {}
  Workers = {w1, w2}
  MaxRetries = 3
  Environments <- MCStop
INVARIANT AckedAreSent
