SPECIFICATION Spec
CONSTANTS
  a = a
  NoBuffer = NoBuffer
  NoRequest = NoRequest
  NoDest = NoDest
  MAX_REQUESTS = 5
  Dest <- MCDest
  Buffer <- MCBuffer
INVARIANT TypeOK
PROPERTY ImplementsService
