SPECIFICATION FairSpec
CONSTANTS
  sync = sync
  direct = direct
  Callers <- BothCallers
  SyncCallers <- SyncOnly
  MaxCalls = 3
  MaxCbs = 2
  MaxOutstanding = 1
  MaxStrays = 0
  MaxResets = 0
  SendFails = FALSE
  Spurious = FALSE
  MayDestroy = FALSE
PROPERTY CallReturns
PROPERTY CallAnswered
CHECK_DEADLOCK FALSE
