SPECIFICATION FairSpec
CONSTANTS
  SEND_REPLY_TIMEOUT = 2
  RECEIVE_REPLY_TIMEOUT = 3
  Peer <- MCPeer
  MaxLen = 2
  Slave = TRUE
  Resets = TRUE
  RequestDest <- SlaveDest
  BusWait <- SlaveWait
  FrameLen <- AnyLen
  PartialReads = TRUE
INVARIANTS DeafOnlyWhileHolding NeverCutsFrame
PROPERTIES HearsAgain RequestEnds SilenceLetsSend
