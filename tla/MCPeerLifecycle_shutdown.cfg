CONSTANTS
  h1 = h1
  h2 = h2
  Handlers = {h1, h2}
  Outsiders = {}
  Maintainers = {h1, h2}
  Failures = {"database", "slow", "early"}
SPECIFICATION FairSpec
INVARIANT QuietShutdown
INVARIANT ClaimingIsRestored
PROPERTY DrainingStandsButForInFlight
PROPERTY ClaimsResume
PROPERTY ShutdownEnds
PROPERTY MaintenanceEnds
CHECK_DEADLOCK FALSE
