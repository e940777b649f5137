SPECIFICATION Spec
CONSTANTS
  PageSize = 8
  Nobody = Nobody
  Clients <- SomeClients
  MaxClient = 2
  IPC_MAX_CONN_PER_SERVER = 4
  StackBase = 64
  StackSize = 8
  ServerBuf = 96
  ServerBufSize = 16
  ClientBuf = 160
  ClientBufSize = 8
  MAX_CAP_TRANSFER = 3
  Sends <- SomeSends
  MaxCalls = 3
INVARIANTS
  EndpointsAgree
  MessageArrives
CHECK_DEADLOCK FALSE
