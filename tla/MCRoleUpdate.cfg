\* Two roles share the accepted state; crashes anywhere.
SPECIFICATION FairSpec
CONSTANTS
  v1 = v1
  v2 = v2
  v3 = v3
  m1 = m1
  m2 = m2
  m3 = m3
  m4 = m4
  Roles = {control, relay}
  Control = control
  Versions = {v1, v2, v3}
  Rank <- RankMC
  Manifests = {m1, m2, m3, m4}
  Sequence <- SequenceMC
  Version <- VersionMC
  Floor <- FloorMC
  Requests = {q1}
  None = None
  MaxCommands = 6
  MaxCrashes = 2
INVARIANTS
  OutcomeMatchesLinks
  CurrentIsInstalled
PROPERTIES
  SwitchesAreAllowed
  AcceptedOnlyAdvances
  UnfinishedWorkIsKept
  CommandsEnd
CHECK_DEADLOCK FALSE
