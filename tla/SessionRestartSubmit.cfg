\* A restart that tested IsSubmitted before a submit went through.
CONSTANTS
  Handlers = {h1, h2}
  Submit = submit
  None = None
  Commands = {cmd, submit}
  JudgeMaximum = 0
  AllowRestart = TRUE
  MaxRestarts = 1
  Terminals = FALSE
  StoreMayFail = FALSE
  MaxEvents = 2
  MaxCrashes = 0
SYMMETRY HandlerSymmetry
SPECIFICATION Spec
PROPERTIES
  SubmittedNeverReset
CHECK_DEADLOCK FALSE
