SPECIFICATION AgentSpec
CONSTANTS
  Keys = {a, b}
  W = 3
  None = None
  Kinds = {"map", "demandMap", "value", "demand", "supply", "command"}
  Values = {u, v}
  MapValues = {u}
  Initial = u
  Remotes = {r1, r2}
  Observed = r1
  MaxBacklog = 2
  EmptyMarks = FALSE
  DlKinds = {"value", "map", "event"}
  NumKeys = 2
  DlValues = {u, v}
  DlMapValues = {u}
  ReconnectMax = 1
  Counts = {1}
  MaxBehind = 1
  AddAfterTake = FALSE
INVARIANTS LaneInv CaughtUp
CHECK_DEADLOCK FALSE
PROPERTIES SyncsEnd ChangesReported DownlinkEnds
