SPECIFICATION FairSpec
CONSTANTS
  OrderIds = {o1, o2}
  GrpcCalls = {g1, g2}
  HttpCalls = {h1}
  Amounts <- MCAmounts
  Limit <- MCLimit
  Environments <- MCEnvironments
INVARIANTS
  TypeOK
  OnePaymentPerOrder
  EventsComeFromPayments
  RepliesAreOnRecord
  RowsFollowCalls
  DrainKeepsGrpcEvents
PROPERTIES
  LedgerSpec
  ShutdownCompletes
