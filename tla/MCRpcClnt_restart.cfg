SPECIFICATION FairSpec
CONSTANTS
  sync = sync
  direct = direct
  Callers <- BothCallers
  SyncCallers <- NoCallers
  MaxCalls = 3
  MaxCbs = 1
  MaxOutstanding = 1
  MaxStrays = 0
  MaxResets = 1
  SendFails = TRUE
  Spurious = FALSE
  MayDestroy = FALSE
PROPERTY CallReturns
CHECK_DEADLOCK FALSE
