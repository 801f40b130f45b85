SPECIFICATION AllSpec
CONSTANTS
  Voters = {v1, v2, v3}
  TracksOwnVote = FALSE
  Items = {"v", "m", "t"}
  MapItems = {"m"}
  Private = {"m"}
  Transient = {"t"}
  CellsOf <- MCCellsOf
  Overlaps = {FALSE}
  Faults = FALSE
  OnStartChanges = FALSE
  MaxStarts = 3
  MaxWrites = 2
  Room = 1
  Subjects = {"store"}
INVARIANT StateRestored
CHECK_DEADLOCK FALSE
