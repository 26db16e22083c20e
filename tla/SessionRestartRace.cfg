\* A restart while another handler still persists the old evidence.
CONSTANTS
  Handlers = {h1, h2}
  Submit = submit
  None = None
  Commands = {cmd, submit}
  JudgeMaximum = 0
  AllowRestart = TRUE
  MaxRestarts = 1
  Terminals = FALSE
  StoreMayFail = FALSE
  MaxEvents = 2
  MaxCrashes = 0
SYMMETRY HandlerSymmetry
SPECIFICATION Spec
INVARIANTS
  Recoverable
CHECK_DEADLOCK FALSE
