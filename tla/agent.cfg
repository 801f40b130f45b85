SPECIFICATION FairSpec
CONSTANTS
  r1 = r1
  r2 = r2
  l1 = l1
  l2 = l2
  s1 = s1
  NoLane = NoLane
  TwoWays <- MCTwoWays
  OneWays <- MCOneWays
  InitialLanes <- MCInitialLanes
  NewLanes <- MCNewLanes
  NewStores <- MCNewStores
  Setups <- MCSetups
INVARIANT AgentInv
PROPERTIES StopEnds UnusedStops
CHECK_DEADLOCK FALSE
