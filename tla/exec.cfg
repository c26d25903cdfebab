CONSTANTS
  Options <- AllOptions
  PipeCap = 1
  CountCap = 2
  Closings <- Daemon
  None = None
SPECIFICATION FairSpec
INVARIANTS OutputComplete SuccessIsReal NoStrayKill
PROPERTIES ExecReturns KillTreeReturns
CHECK_DEADLOCK FALSE
