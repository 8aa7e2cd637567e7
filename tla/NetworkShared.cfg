SPECIFICATION NetSpec
CONSTANTS
  MAX_SLAVES = 2
  UID_SIZE = 2
  MAX_PING_ERROR = 3
  FIRST_PING = 1
  CYCLES_PER_SECOND = 0
  RECEIVE_REPLY_TIMEOUT = 2
  PING_PERIOD = 1
  Uid <- MCUid
  Junk <- NoJunk
  n1 = n1
  n2 = n2
  x1 = x1
  x2 = x2
  Node <- TwoNodes
  UidOf <- MCUidOf
  Draws <- MCDraws
  Nonce <- MCNonce
  Faults = {"restart"}
  NoFrame = NoFrame
  Ignored = Ignored
INVARIANT ConnectedUnique
