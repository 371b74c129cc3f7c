SPECIFICATION FairSpec
CONSTANTS
  sync = sync
  direct = direct
  Callers <- BothCallers
  SyncCallers <- SyncOnly
  MaxCalls = 1
  MaxCbs = 0
  MaxOutstanding = 1
  MaxStrays = 0
  MaxResets = 0
  SendFails = FALSE
  Spurious = FALSE
  MayDestroy = TRUE
PROPERTY DestroyReturns
CHECK_DEADLOCK FALSE
