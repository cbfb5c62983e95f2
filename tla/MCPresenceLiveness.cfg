\* Two rival primaries on two Relays, every announcement may be lost, one fault, one crash.
SPECIFICATION FairSpec
CONSTANTS
  r1 = r1
  r2 = r2
  a = a
  b = b
  c = c
  Relays = {r1, r2}
  Sessions = {a, b}
  Host <- HostPair
  Wanted <- WantedRivals
  Primary = Primary
  NoSession = NoSession
  Lease = 1
  Scenarios <- LivenessScenarios
PROPERTIES
  SupersededSessionEnds
  OwnerBecomesKnown
CHECK_DEADLOCK FALSE
