SPECIFICATION FairSpec
CONSTANTS
  Creates = {r1}
  Cancels = {x1}
  Keys = {k1}
  Amounts = {1}
  Streams = {s1}
  Environments <- MCEnvironments
INVARIANTS
  TypeOK
  SubscribersOpen
  ToldIsTrue
  EndsDecided
PROPERTIES
  NothingAfterTerminal
  DeliveredIsTold
