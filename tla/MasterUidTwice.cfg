SPECIFICATION Spec
CONSTANTS
  MAX_SLAVES = 2
  UID_SIZE = 3
  MAX_PING_ERROR = 3
  FIRST_PING = 3
  CYCLES_PER_SECOND = 1
  RECEIVE_REPLY_TIMEOUT = 3
  PING_PERIOD = 2
  Uid <- PrefixFreeUid
  Junk <- NoJunk
INVARIANT OneEntryPerUid
