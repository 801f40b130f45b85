SPECIFICATION MCSpec
CONSTANTS
  Subjects = {"runtime", "join"}
  c1 = c1
  c2 = c2
  k1 = k1
  k2 = k2
  Consumers = {c1, c2}
  SyncConsumers = {c1, c2}
  Setups <- JoiningOrCommanding
  One = One
  Keys = {k1, k2}
  None = None
  QueueSize = 1
  MaxChannel = 2
  JoinKinds = {"map", "value"}
  LinkKeys = {1, 2}
  EntryKeys = {1, 2}
  Takes = {1}
  MaxOpened <- MCOpened
  Nobody = Nobody
SYMMETRY Symmetry
INVARIANTS DownlinkInv JoinInv
PROPERTY CommandsInOrder
CHECK_DEADLOCK FALSE
