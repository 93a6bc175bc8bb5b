\* The queue, the delivery and the guest's own accesses; fair processor thread.
CONSTANTS
  Keys <- MCKeys
  Capacity = 2
  DROP_MAX = 1
  MaxInputs = 4
SPECIFICATION FairSpec
INVARIANT TypeOK
INVARIANT PeekedInFront
INVARIANT InOrder
PROPERTY ImplementsChannel
PROPERTY Served
CHECK_DEADLOCK FALSE
