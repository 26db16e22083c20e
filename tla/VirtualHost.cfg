SPECIFICATION Host
CONSTANTS
  Handlers = {h}
  Commands = {cmd, submit}
  Submit = submit
  None = none
  JudgeMaximum = 1
  AllowRestart = TRUE
  MaxRestarts = 2
  Terminals = FALSE
  StoreMayFail = FALSE
  MaxEvents = 3
  MaxCrashes = 2
  Units <- ThreeUnits
  Httpd = 2
  Packages <- TwoPackages
  Seed = 5
  Compounds <- FourCompounds
  MaxLines = 3
  MaxDrift = 1
  Paths <- HostPaths
  Operands <- HostOperands
  OperandLists <- HostOperandLists
  Trees <- HostTrees
  Accounts <- HostAccounts
  Modes <- HostModes
  User = "alice"
  NewUser = "bob"
  NewHome <- ThirdHome
  Dotfiles <- OneDotfile
  Passwd <- EtcPasswd
  Secret = "secret"
  MaxCommands = 2
CHECK_DEADLOCK FALSE
INVARIANTS TypesOK SecretKept ServicesAgree FullScoreIsEarned ReplayReproduces LosesNothing
PROPERTIES Confined TransferExact KillHitsListed
