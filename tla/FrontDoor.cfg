SPECIFICATION FrontDoor
CONSTANTS
  Teams = {t1}
  NewTeam = t2
  Organizer = organizer
  Link = link
  Handlers = {h1, h2}
  None = none
  AccessLife = 1
  RefreshLife = 1
  WriteMayFail = TRUE
  LoadMayFail = TRUE
  MaxTokens = 2
  MaxLinks = 1
  MaxTime = 1
  MaxCrashes = 1
  Keys = {"a|auth", "a|general", "b|auth"}
  Limit <- SmallLimits
  Minute = 2
  SweepAbove = 1
  Capacity = 2
  MaxNow = 2
  MaxLate = 2
  Terminals = {w1, w2}
  MaxEventIds = 2
  MaxFrames = 1
  MaxRestarts = 1
  MaxConnects = 3
  Letters <- TwoLetters
  Quotable <- FourQuotable
  Operators <- FiveOperators
  MaxPieces = 6
SYMMETRY FrontSymmetry
CHECK_DEADLOCK FALSE
INVARIANTS TypesOK OneUsableToken ClientKeepsToken LinkIsCurrent LimiterIsFair  LineIsUnderstood
PROPERTY CredentialsKept
