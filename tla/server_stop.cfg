SPECIFICATION ServerFairSpec
CONSTANTS
  Voters = {v1, v2}
  TracksOwnVote = TRUE
  Subjects = {"connector"}
  MaxRequests = 1
  Hosts = {h}
  Addrs = {a}
  Resolve <- MCResolve
  Lanes = {l}
  Local = Local
  None = 0
  MaxSockets = 1
  Runtimes = {i1, i2}
  StopOpening = TRUE
  AttachLate = FALSE
  Nodes = {n}
  Unrouted = {x}
  Downlinks = {d}
  Nobody = Nobody
  MaxEnvelopes = 0
  MaxInstances = 1
PROPERTY ServerStops
CHECK_DEADLOCK FALSE
