\* The database call of a promotion fails.
SPECIFICATION Spec
CONSTANTS
  r1 = r1
  r2 = r2
  a = a
  b = b
  c = c
  Relays = {r1, r2}
  Sessions = {a, b}
  Host <- HostPair
  Wanted <- WantedPair
  Primary = Primary
  NoSession = NoSession
  Lease = 2
  Scenarios <- PromotionScenarios
INVARIANT CacheFencesKeepTheirRole
CHECK_DEADLOCK FALSE
