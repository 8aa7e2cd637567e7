SPECIFICATION Spec
CONSTANTS
  UART_BUFFER_SIZE = 6
  MaxFaults = 2
  Addr = 1
  Sent <- MCSent
  Garbage <- MCGarbage
INVARIANT DeliversAsSent
PROPERTY IntactFrameArrives
