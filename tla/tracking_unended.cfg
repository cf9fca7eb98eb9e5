SPECIFICATION FairSpec
CONSTANTS
  Creates = {r1}
  Cancels = {}
  Keys = {k1}
  Amounts = {1}
  Streams = {s1}
  Environments <- MCNoFaults
PROPERTY StreamsEnd
