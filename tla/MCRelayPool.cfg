\* Two slots with failures anywhere.
SPECIFICATION FairSpec
CONSTANTS
  Slots <- SlotsMC
  Endpoints <- EndpointsMC
  MaxFaults = 4
INVARIANTS
  NoGhostRoute
  NoDeadSlot
  NoLeak
PROPERTIES
  PoolRecovers
CHECK_DEADLOCK FALSE
