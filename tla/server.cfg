SPECIFICATION ServerFairSpec
CONSTANTS
  Voters = {v1, v2}
  TracksOwnVote = TRUE
  Subjects = {"connector", "remote", "vote"}
  MaxRequests = 2
  Hosts = {h}
  Addrs = {a}
  Resolve <- MCResolve
  Lanes = {l}
  Local = Local
  None = 0
  MaxSockets = 2
  Runtimes = {i1, i2, i3}
  StopOpening = FALSE
  AttachLate = FALSE
  Nodes = {n}
  Unrouted = {x}
  Downlinks = {d}
  Nobody = Nobody
  MaxEnvelopes = 3
  MaxInstances = 2
INVARIANTS ConnectorInv InOrderAndHeard ToldUnanimousIsTrue
PROPERTIES RequestsAnswered ServerStops EnvelopesDealtWith AllEndTogether
CHECK_DEADLOCK FALSE
