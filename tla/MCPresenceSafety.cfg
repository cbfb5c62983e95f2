SPECIFICATION Spec
CONSTANTS
  r1 = r1
  r2 = r2
  a = a
  b = b
  c = c
  Relays = {r1, r2}
  Sessions = {a, b, c}
  Host <- HostAll
  Wanted <- WantedAll
  Primary = Primary
  NoSession = NoSession
  Lease = 1
  Scenarios <- SafetyScenarios
INVARIANTS
  LocalObserveSucceeds
  OneOwnerPerGeneration
  RouterFencesArePrimary
  NoOrphanAttachment
  EndedSessionIsGone
  LiveSessionNotFenced
  LeaseBoundsCopies
PROPERTY NoResurrection
CHECK_DEADLOCK FALSE
