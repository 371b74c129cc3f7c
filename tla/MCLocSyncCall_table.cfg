SPECIFICATION Spec
CONSTANTS
  Callers = {"deferred", "framework", "ni"}
  Size = 2
  Handles = {0}
  Ioctls = {1}
  Uses <- MCAllTypes
  Status = {"success"}
  MaxCalls = 3
  Spurious = TRUE
INVARIANT TypeOK
INVARIANT InUseExact
INVARIANT SlotOwned
INVARIANT WaitNeverRefused
 
CHECK_DEADLOCK FALSE
