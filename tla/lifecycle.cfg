SPECIFICATION AllFairSpec
CONSTANTS
  Voters = {v1, v2, v3}
  TracksOwnVote = FALSE
  Items = {"v", "m", "t"}
  MapItems = {"m"}
  Private = {"m"}
  Transient = {"t"}
  CellsOf <- MCCellsOf
  Overlaps = {TRUE, FALSE}
  Faults = TRUE
  OnStartChanges = TRUE
  MaxStarts = 3
  MaxWrites = 2
  Room = 1
  Subjects = {"vote", "store"}
INVARIANTS IInv StoreInv
PROPERTIES UnanimousCompletes ImplementsVoteSpec StoreSettles
CHECK_DEADLOCK FALSE
