CONSTANTS
  b1 = b1
  b2 = b2
  p1 = p1
  p2 = p2
  Bots = {b1, b2}
  Followed = {b1}
  Peers = {p1, p2}
  MaxExits = 3
  MaxCrashes = 1
  MaxEvents = 1
  MaxSignals = 1
  MaxAnswers = 1
SPECIFICATION FairSpec
PROPERTY EmptyFleetEnds
PROPERTY CacheSettles
 
CHECK_DEADLOCK FALSE
