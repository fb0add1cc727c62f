CONSTANTS
  h1 = h1
  h2 = h2
  o1 = o1
  Handlers = {h1, h2}
  Outsiders = {o1}
  Maintainers = {h1, h2, o1}
  Failures = {"poller", "deadline", "database", "slow", "stubborn", "early"}
SPECIFICATION Spec
SYMMETRY HandlerSymmetry
INVARIANT BodyAlone
INVARIANT ActiveHasOwner
CHECK_DEADLOCK FALSE
