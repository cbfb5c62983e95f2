\* A crash between the two renames leaves no executable.
SPECIFICATION Spec
CONSTANTS
  Builds = {b1, b2, b3}
  Absent = Absent
  MaxCommands = 5
  MaxFaults = 2
PROPERTY
  RollbackIsAtomic
CHECK_DEADLOCK FALSE
