SPECIFICATION FairSpec
CONSTANTS
  Kinds = {"server_open", "server_close", "engine_on", "engine_off"}
  Calls = {"start", "stop", "cleanup", "delete_aiding"}
  Conns = {1}
  RpcFails = FALSE
  MaxEvents = 3
  MaxCalls = 3
  MaxInits = 1
 
PROPERTY CleanupReturns
 
CHECK_DEADLOCK FALSE
