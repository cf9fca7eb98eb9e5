SPECIFICATION FairSpec
CONSTANTS
  Creates = {r1, r2}
  Cancels = {x1}
  Reads = {g1}
  Keys = {k1}
  Direct = {}
  Amounts <- MCOneAmount
  Limit <- MCLimit
  OrderEnvironments <- MCOrderRedis
  PaymentEnvironments <- MCPaymentStop
PROPERTIES
  ChargedOrdersShowIt
  PendingEnds
  CreatesAnswered
