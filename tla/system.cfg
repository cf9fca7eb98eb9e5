SPECIFICATION Spec
CONSTANTS
  Creates = {r1, r2}
  Cancels = {}
  Reads = {}
  Keys = {k1}
  Direct = {h1}
  Amounts <- MCAmounts
  Limit <- MCLimit
  OrderEnvironments <- MCOrderFaults
  PaymentEnvironments <- MCPaymentFaults
INVARIANTS
  PaidIsCharged
  RpcChargesMatchOrders
  KeyChargedOnce
PROPERTY PartsKeepTheirSpecs
