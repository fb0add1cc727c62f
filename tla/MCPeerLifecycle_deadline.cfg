CONSTANTS
  h1 = h1
  Handlers = {h1}
  Outsiders = {}
  Maintainers = {h1}
  Failures = {"deadline"}
SPECIFICATION Spec
INVARIANT ClaimingIsRestored
CHECK_DEADLOCK FALSE
