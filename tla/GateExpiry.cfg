SPECIFICATION FairSpec
CONSTANTS
  Teams = {t1}
  Ids = {s1, s2}
  Handlers = {h1, h2}
  Organizers = {}
  None = None
  MaxConcurrent = 0
  IdleTimeout = 1
  OpensAt = 0
  ClosesAt = 0
  Terminals = FALSE
  StoreMayFail = TRUE
  MaxTime = 3
  MaxCrashes = 1
CHECK_DEADLOCK FALSE
PROPERTIES ExpiryIsFinal EveryRequestEnds
