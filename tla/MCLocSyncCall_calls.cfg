SPECIFICATION FairSpec
CONSTANTS
  Callers = {"deferred", "framework"}
  Size = 2
  Handles = {0}
  Ioctls = {1, 2}
  Uses <- MCOwnTypes
  Status = {"success", "failure"}
  MaxCalls = 3
  Spurious = FALSE
INVARIANT ResultIsFresh
INVARIANT ResultUsedOnce
INVARIANT OwnResultUntilTimeout
PROPERTY EveryCallReturns
CHECK_DEADLOCK FALSE
