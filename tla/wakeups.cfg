SPECIFICATION FairSpec
CONSTANTS
  Receivers = {r1, r2, r3}
  First = r1
  ClonesPolled = FALSE
  N = 3
  Capacity = 1
  BucketSize = 2
  Budget = 2
  Default = 3
  None = None
  Writer = Writer
INVARIANTS TriggerIInv ReadersInv
PROPERTIES EveryCopyCompletes EveryChannelServed
CHECK_DEADLOCK FALSE
