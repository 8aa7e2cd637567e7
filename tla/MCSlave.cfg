SPECIFICATION FairSpec
CONSTANTS
  PLUG_IN_MAX_COUNT = 8
  DISCONNECT_MAX_COUNT = 5
  NO_CONFIG_MAX_COUNT = 12
  NO_PING_MAX_COUNT = 20
  Address = {1, 2}
  Nonce = {n1, n2}
INVARIANTS TypeOK HandshakeIsBounded PingsAreRecent
PROPERTIES ImplementsProtocol StartsOverForCause KeepsJoining ConnectedIsPinged
