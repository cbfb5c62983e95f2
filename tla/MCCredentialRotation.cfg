\* Two Relay slots that both deliver, deaths between any two file operations,
\* lost records and a lapsing overlap.
SPECIFICATION FairSpec
CONSTANTS
  Slots = {s1, s2}
  MaxKeys = 3
  Budgets <- MCBudgets
  InboxBound = 1
INVARIANTS
  IdentityWhole
  ActiveIsHeld
PROPERTY RotationCompletes
CHECK_DEADLOCK FALSE
