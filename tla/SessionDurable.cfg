\* Concurrent requests and terminals, failing statements and crashes, in an
\* event that forbids restarts.
CONSTANTS
  Handlers = {h1, h2}
  Submit = submit
  None = None
  Commands = {cmd, submit}
  JudgeMaximum = 0
  AllowRestart = FALSE
  MaxRestarts = 0
  Terminals = TRUE
  StoreMayFail = TRUE
  MaxEvents = 2
  MaxCrashes = 2
SYMMETRY HandlerSymmetry
SPECIFICATION Spec
INVARIANTS
  TypeOK
  Recoverable
  AckedDurable
PROPERTIES
  ImplementsDurableLog
CHECK_DEADLOCK FALSE
