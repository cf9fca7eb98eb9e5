SPECIFICATION Spec
CONSTANTS
  Creates = {r1, r2}
  Cancels = {x1}
  Reads = {g1, g2}
  Keys = {k1}
  Amounts = {1}
  Environments <- MCEnvironments
INVARIANTS
  TypeOK
  OneOrderPerKey
  RepliesAgreeOnOrder
  PaidIsBacked
  ReplyMatchesRow
PROPERTIES
  LifecycleSpec
  DeletedOnWrite
