SPECIFICATION Calm
CONSTANTS
  Teams = {t1, t2}
  Ids = {s1, s2}
  Handlers = {h1, h2}
  Organizers = {organizer}
  None = none
  MaxConcurrent = 0
  IdleTimeout = 0
  OpensAt = 2
  ClosesAt = 3
  Terminals = FALSE
  StoreMayFail = FALSE
  MaxTime = 3
  MaxCrashes = 1
  h = h
  u1 = u1
  u2 = u2
  v1 = v1
  v2 = v2
SYMMETRY Symmetry
CHECK_DEADLOCK FALSE
INVARIANTS TurnsServeActive LateWorkBounded KnownIsStored
