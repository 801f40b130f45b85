SPECIFICATION AllSpec
CONSTANTS
  va = va
  v2 = v2
  su = su
  s2 = s2
  ma = ma
  k1 = k1
  k2 = k2
  ValueLanes = {va, v2}
  SupplyLanes = {su, s2}
  MapLanes = {ma}
  LaneSets = {{va, su}, {v2}, {s2}, {ma}}
  Keys = {k1, k2}
  One = One
  All = All
  NoBody = NoBody
  NoUplink = NoUplink
  MaxVersion <- MCVersions
  MaxSpecials = 1
  MaxPlaces = 2
  c1 = c1
  c2 = c2
  r1 = r1
  r2 = r2
  l1 = l1
  l2 = l2
  Ids = {r1, r2}
  Conns = {c1, c2}
  IdOf <- OneEach
  Lanes = {l1, l2}
  Setups <- Shared
  NoConn = NoConn
  Delay = 1
  MaxWaiting = 2
  MaxTimers = 2
INVARIANTS UplinksInv RegistriesInv
PROPERTIES SyncedIsCurrent DeliveredInOrder LinkedNotPruned
CHECK_DEADLOCK FALSE
