SPECIFICATION Spec
CONSTANTS
  sync = sync
  direct = direct
  Callers <- BothCallers
  SyncCallers <- SyncOnly
  MaxCalls = 2
  MaxCbs = 2
  MaxOutstanding = 2
  MaxStrays = 1
  MaxResets = 1
  SendFails = TRUE
  Spurious = TRUE
  MayDestroy = TRUE
INVARIANT TypeOK
INVARIANT InBufIntactUntilFailure
INVARIANT CallsServedInOrder
 
CHECK_DEADLOCK FALSE
