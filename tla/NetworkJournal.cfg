\* Start-up (1 address, 2 table, 3 resolver) or the worker (2 table, 3 forwarding, 4 route).
SPECIFICATION FairSpec
CONSTANTS
  Operations = {1, 2, 3, 4}
  Link = {1, 4}
  Owned = {3}
  Resolver = {3}
  Plans = {{1}, {1, 2, 3}, {2, 3, 4}}
  MaxFaults = 3
  MaxCrashes = 2
  MaxForeign = 2
INVARIANTS
  NothingForgotten
  OthersAreUndone
PROPERTIES
  RecoveredIsClean
  StartsAgain
CHECK_DEADLOCK FALSE
