SPECIFICATION FairSpec
CONSTANTS
  sync = sync
  direct = direct
  Callers <- BothCallers
  SyncCallers <- SyncOnly
  MaxCalls = 1
  MaxCbs = 2
  MaxOutstanding = 2
  MaxStrays = 0
  MaxResets = 0
  SendFails = FALSE
  Spurious = FALSE
  MayDestroy = FALSE
PROPERTY CallReturns
CHECK_DEADLOCK FALSE
