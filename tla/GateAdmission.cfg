SPECIFICATION Spec
CONSTANTS
  Teams = {t1, t2, t3}
  Ids = {s1, s2, s3}
  Handlers = {h1, h2}
  Organizers = {}
  None = None
  MaxConcurrent = 2
  IdleTimeout = 0
  OpensAt = 0
  ClosesAt = 0
  Terminals = TRUE
  StoreMayFail = TRUE
  MaxTime = 1
  MaxCrashes = 1
SYMMETRY Symmetry
CHECK_DEADLOCK FALSE
INVARIANTS TypeOK OneSessionPerTeam SessionLimit StoredIsServed
