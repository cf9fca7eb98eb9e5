SPECIFICATION FairSpec
CONSTANTS
  Messages = {m1, m2, m3}
  Malformed = {m3}
  Workers = {w1, w2}
  MaxRetries = 1
  Environments <- MCEnvironments
INVARIANTS
  TypeOK
  AtMostOneEmail
  NoDeliveryForgotten
  DeadLettersUnsent
PROPERTIES
  DeliverySpec
  EveryMessageSettled
