SPECIFICATION Spec
CONSTANTS
  Creates = {r1}
  Cancels = {x1}
  Reads = {g1}
  Keys = {k1}
  Amounts = {1}
  Environments <- MCNoFaults
PROPERTY PaidNeverCancelled
