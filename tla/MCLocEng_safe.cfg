SPECIFICATION Spec
CONSTANTS
  Kinds = {"server_open", "server_close", "engine_on", "engine_off"}
  Calls = {"start", "stop", "cleanup", "delete_aiding"}
  Conns = {1, 2}
  RpcFails = FALSE
  MaxEvents = 3
  MaxCalls = 3
  MaxInits = 2
INVARIANT WakelockMatchesWork
INVARIANT AidingNotStranded
 
CHECK_DEADLOCK FALSE
