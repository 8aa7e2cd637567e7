SPECIFICATION Spec
CONSTANTS
  SEND_REPLY_TIMEOUT = 2
  RECEIVE_REPLY_TIMEOUT = 3
  Peer <- MCPeer
  MaxLen = 2
  Slave = FALSE
  Resets = FALSE
  RequestDest <- MasterDest
  BusWait <- MasterWait
  FrameLen <- AnyLen
  PartialReads = FALSE
INVARIANT SafeWhenNothingAwaited
