\* Three timers over a clock of eight ticks that wraps twice.
SPECIFICATION Spec
CONSTANTS
  Period = 8
  Limit = 3
  Delays = {0, 2, 3}
  Ms = 2
  WaitInfinite = 3
  MaxBusy = 3
  MaxEpoch = 2
INVARIANTS NeverEarly FirstIsEarliest ContainersPartitioned WaitEndsInTime
CHECK_DEADLOCK FALSE
