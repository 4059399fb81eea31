\* Two tasks and an outside thread, one background interrupt registered twice.
SPECIFICATION FairSpec
CONSTANTS
  NumTasks = 2
  Outside = {11}
  Irqs = {0, 1}
  MaxMsg = 3
  MaxOwn = 1
  MaxReg = 2
  LateSetters = FALSE
INVARIANTS InOrder RoundRobin HandlerIsThere
PROPERTIES AllServed
CHECK_DEADLOCK FALSE
