SPECIFICATION Spec
CONSTANTS
  Creates = {r1}
  Cancels = {}
  Reads = {}
  Keys = {k1}
  Direct = {}
  Amounts <- MCDeclined
  Limit <- MCLimit
  Workers = {w1}
  MaxRetries = 1
  OrderEnvironments <- MCNoFaults
  PaymentEnvironments <- MCNoFaults
  MailEnvironments <- MCNoFaults
INVARIANT EmailedPaymentsSucceeded
