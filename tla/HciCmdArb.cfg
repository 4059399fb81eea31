\* Two command credits, so that the primary stack may have two commands under
\* way, and one event that answers no command.
SPECIFICATION Spec
CONSTANTS
  Credits = 2
  MaxPrimary = 3
  MaxMicro = 3
  MaxAsync = 1
INVARIANTS OneStackAtATime EveryCommandAccounted NoCommandStranded ScanServed
PROPERTIES NoOvertaking
\* The bounded stacks stop sending commands.
CHECK_DEADLOCK FALSE
