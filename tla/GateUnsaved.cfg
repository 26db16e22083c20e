SPECIFICATION Spec
CONSTANTS
  Teams = {t1}
  Ids = {s1}
  Handlers = {h1}
  Organizers = {}
  None = None
  MaxConcurrent = 0
  IdleTimeout = 0
  OpensAt = 0
  ClosesAt = 0
  Terminals = FALSE
  StoreMayFail = TRUE
  MaxTime = 1
  MaxCrashes = 0
CHECK_DEADLOCK FALSE
INVARIANT KnownIsStored
