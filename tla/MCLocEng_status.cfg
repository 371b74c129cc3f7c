SPECIFICATION Spec
CONSTANTS
  Kinds <- MCStatusKinds
  Calls <- MCStatusCalls
  Conns = {}
  RpcFails = TRUE
  MaxEvents = 4
  MaxCalls = 3
  MaxInits = 1
INVARIANT TypeOK
 
INVARIANT EngineStatusCurrent
INVARIANT OffEndsSession
CHECK_DEADLOCK FALSE
