SPECIFICATION TimerSpec

CONSTANTS
  W = 8
  CYCLES_PER_US = 2
  Intervals = {0, 1, 3, 5}
  MaxElapsed = 17

INVARIANT TimerTypeOK
INVARIANT InTime
INVARIANT MeasuresElapsed
PROPERTY NeverEarly
