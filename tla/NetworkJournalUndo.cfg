\* A single failed command and nothing else.
SPECIFICATION Spec
CONSTANTS
  Operations = {1, 2, 3, 4}
  Link = {1, 4}
  Owned = {3}
  Resolver = {3}
  Plans = {{2, 3, 4}}
  MaxFaults = 1
  MaxCrashes = 0
  MaxForeign = 0
INVARIANT UndoneIsForgotten
CHECK_DEADLOCK FALSE
