\* Fair handlers, concurrent restarts, no failing statement and no crash.
CONSTANTS
  Handlers = {h1, h2}
  Submit = submit
  None = None
  Commands = {submit}
  JudgeMaximum = 0
  AllowRestart = TRUE
  MaxRestarts = 1
  Terminals = FALSE
  StoreMayFail = FALSE
  MaxEvents = 2
  MaxCrashes = 0
SPECIFICATION FairSpec
PROPERTIES
  EveryRequestAnswered
  SubmitIsStored
  SubmissionKept
CHECK_DEADLOCK FALSE
