SPECIFICATION AgentSpec
CONSTANTS
  Keys = {a, b}
  W = 3
  None = None
  Kinds = {"map"}
  Values = {u, v}
  MapValues = {u}
  Initial = u
  Remotes = {r1, r2}
  Observed = r1
  MaxBacklog = 2
  EmptyMarks = TRUE
  DlKinds = {"map"}
  NumKeys = 2
  DlValues = {u, v}
  DlMapValues = {u}
  ReconnectMax = 1
  Counts = {1}
  MaxBehind = 1
  AddAfterTake = FALSE
INVARIANT DirtyHasData
CHECK_DEADLOCK FALSE
