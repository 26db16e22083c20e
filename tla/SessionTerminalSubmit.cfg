\* A participant who submits in the WebSocket terminal.
CONSTANTS
  Handlers = {h1}
  Submit = submit
  None = None
  Commands = {cmd, submit}
  JudgeMaximum = 0
  AllowRestart = FALSE
  MaxRestarts = 0
  Terminals = TRUE
  StoreMayFail = FALSE
  MaxEvents = 2
  MaxCrashes = 0
SPECIFICATION Spec
INVARIANTS
  SubmissionStored
CHECK_DEADLOCK FALSE
