SPECIFICATION FairSpec
CONSTANTS
  Creates = {r1, r2}
  Cancels = {}
  Reads = {}
  Keys = {k1}
  Direct = {}
  Amounts <- MCOneAmount
  Limit <- MCLimit
  Workers = {w1}
  MaxRetries = 1
  OrderEnvironments <- MCOrderFaults
  PaymentEnvironments <- MCPaymentFaults
  MailEnvironments <- MCMailFaults
INVARIANT KeyEmailedOnce
PROPERTY PaidOrdersEmailed
