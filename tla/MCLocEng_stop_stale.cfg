SPECIFICATION Spec
CONSTANTS
  Kinds = {"server_open", "server_close"}
  Calls = {"start", "stop"}
  Conns = {1}
  RpcFails = FALSE
  MaxEvents = 4
  MaxCalls = 4
  MaxInits = 1
PROPERTY StopOnlyIfWanted
CHECK_DEADLOCK FALSE
