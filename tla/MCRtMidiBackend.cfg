\* MIDI inputs that share a router are started, connected, closed and stopped.
CONSTANTS
  None = None
  Ports <- MCPorts
  Chans = {0}
  DataBytes <- MCDataBytes
  Messages <- MCMessages
  Uids <- MCUids
  MaxMessages = 3
  MaxCalls = 4
SPECIFICATION Spec
INVARIANTS
  AsSent
  CallbackDataLive
PROPERTIES
  OperationReturns
CHECK_DEADLOCK FALSE
