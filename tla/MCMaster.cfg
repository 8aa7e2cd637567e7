SPECIFICATION FairSpec
CONSTANTS
  MAX_SLAVES = 2
  UID_SIZE = 3
  MAX_PING_ERROR = 2
  FIRST_PING = 2
  CYCLES_PER_SECOND = 1
  RECEIVE_REPLY_TIMEOUT = 2
  PING_PERIOD = 1
  Uid <- PrefixFreeUid
  Junk <- SomeJunk
INVARIANTS TypeOK NoPingForgotten OfferedSlotStaysFree PingBookedOnListedSlave NeverMisdirected ReportsSlavesInFront
PROPERTIES DroppedForCause EveryDueSlaveIsPinged SilentSlaveIsDropped
