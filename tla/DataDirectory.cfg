SPECIFICATION DirectorySpec
CONSTANTS
  Ids = {a, b}
  Docs = {d1}
  Files = {f}
  FirstDoc = d1
  Handlers = {h1, h2}
  None = None
  WriteMayFail = TRUE
  MaxRequests = 3
  MaxSessions = 1
  MaxCrashes = 1
  Sessions <- TwoSessions
  Payload <- TwoEntries
  Extra = "extra"
  MaxVersions = 2
  MaxDamages = 2
  MaxExports = 2
SYMMETRY DirectorySymmetry
CHECK_DEADLOCK FALSE
INVARIANTS TypesOK RestartServesSame EventFileServes CalmSessionRecovers BundlesAreSound
PROPERTY LockedAfterSessions
