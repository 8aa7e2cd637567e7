SPECIFICATION Spec
CONSTANTS
  Base = 8
  LOOP_TIME = 2
  MaxGap = 3
  BusWait = {0, 2}
  CanReset = TRUE
INVARIANT NeverLate
PROPERTIES EarlyOnce SampleSeesFrame
